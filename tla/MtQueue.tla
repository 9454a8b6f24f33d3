------------------------------ MODULE MtQueue ------------------------------
(***************************************************************************)
(* mt_queue_t<T> (fesvr/misc/mt_q.hpp): a one-slot queue guarded by a      *)
(* mutex and one condition variable.  Every critical section is one        *)
(* action; a thread that sleeps on the condition variable is in `asleep'   *)
(* and can only go on after some notify_one has picked it.                 *)
(***************************************************************************)
CONSTANTS Thread,   \* the threads that share the queue
          None      \* std::nullopt

VARIABLES val,      \* m_val
          asleep    \* the threads blocked in m_cv.wait

has_value == val # None

\* m_cv.notify_one() when the threads of `sleepers' are blocked.
NotifyOne(sleepers) ==
  IF sleepers = {} THEN asleep' = {}
                   ELSE \E t \in sleepers : asleep' = sleepers \ {t}

\* m_cv.wait(lock, pred): go on when the predicate holds, otherwise block.
\* `done' tells the caller which of the two happened.
CvWait(t, pred, done) ==
  /\ t \notin asleep
  /\ done = pred
  /\ IF pred THEN NotifyOne(asleep) ELSE asleep' = asleep \cup {t}
  /\ UNCHANGED val

wait_for_value(t, done) == CvWait(t, has_value, done)

wait_for_clear(t, done) == CvWait(t, ~has_value, done)
\* Mutant: push() without the notification.
push_set_silent(v) == val' = v /\ UNCHANGED asleep

\* The second critical section of push(), after wait_for_clear().
push_set(v) == val' = v /\ NotifyOne(asleep)

\* pop() on a non-empty queue; it notifies nobody.
pop == has_value /\ val' = None /\ UNCHANGED asleep

\* The C++ standard lets a blocked thread wake without a notification.
SpuriousWake(t) == t \in asleep /\ asleep' = asleep \ {t} /\ UNCHANGED val
=============================================================================
