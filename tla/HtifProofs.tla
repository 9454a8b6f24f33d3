----------------------------- MODULE HtifProofs -----------------------------
(***************************************************************************)
(* Proofs about Htif, for every set of harts and every number of calls.    *)
(* At most one call is with the server at a time.  It passes through the   *)
(* stages Posted .. Replied; the inductive invariant says which hart's     *)
(* call that is, and that everything is Quiet when there is none.          *)
(***************************************************************************)
EXTENDS Htif, TLAPS

\* The call of h has not been carried out; its buffer holds the arguments.
Fresh(h) == ~buf[h].done /\ buf[h].n = ncalls[h] /\ ncalls[h] = executed[h] + 1

\* The call of h has been carried out; its buffer holds the result.
Finished(h) == buf[h].done /\ buf[h].n = ncalls[h] /\ ncalls[h] = executed[h]

Quiet == /\ tohost = None /\ nresp = 0 /\ fromhost = 0
         /\ host \in {"loop", "readfrom", "stopped", "thrown"}

Posted(h) == /\ tohost = h /\ nresp = 0 /\ fromhost = 0 /\ Fresh(h)
             /\ host \in {"loop", "readfrom", "clear", "stopped", "thrown"}
             /\ host = "clear" => to_host = h

Fetched(h) == /\ tohost = None /\ nresp = 0 /\ fromhost = 0 /\ Fresh(h)
              /\ host \in {"fetch", "exec", "thrown"} /\ to_host = h
              /\ host = "exec" => htif_mem = buf[h]

Executed(h) == /\ tohost = None /\ nresp = 0 /\ fromhost = 0
               /\ ~buf[h].done /\ buf[h].n = ncalls[h] /\ ncalls[h] = executed[h]
               /\ host = "store" /\ to_host = h /\ htif_mem = buf[h]

Stored(h) == /\ tohost = None /\ nresp = 1 /\ fromhost = 0 /\ Finished(h)
             /\ host \in {"readfrom", "writefrom"}

Replied(h) == /\ tohost = None /\ nresp = 0 /\ fromhost = 1 /\ Finished(h)
              /\ host \in {"loop", "readfrom", "stopped"}

Serving(h) == \/ Posted(h) \/ Fetched(h) \/ Executed(h)
              \/ Stored(h) \/ Replied(h)

\* The hart whose call is with the server.
Active(h) == pc[h] \in {"poll", "ack"} \/ (TimedOut /\ h = Boot)

LockInv ==
  /\ \A h \in Hart : pc[h] \in {"post", "poll", "ack", "unlock"} => htif_lock = -1
  /\ LockExclusive

StageInv ==
  /\ \A h \in Hart : Active(h) => Serving(h)
  /\ \A h \in Hart : pc[h] = "ack" => Replied(h)
  /\ (\A h \in Hart : ~Active(h)) => Quiet

CallInv ==
  \A h \in Hart :
    /\ pc[h] \in {"run", "parked"} /\ ~Active(h) => Finished(h)
    /\ pc[h] \in {"test", "swap", "post"} => Fresh(h)
    /\ pc[h] \in {"unlock", "read"} => Finished(h)

BootInv ==
  /\ boot # "done" => \A h \in Hart : h # Boot => pc[h] = "run"
  /\ boot = "probe" => ~registered
  /\ boot = "probe" /\ pc[Boot] = "run" => ncalls[Boot] = 0
  /\ boot = "probe" /\ pc[Boot] # "run" => ncalls[Boot] = 1
  /\ boot = "mainvars" => registered
  /\ boot = "done" /\ ~registered =>
       ncalls[Boot] \in {0, 1} /\ \A h \in Hart : pc[h] = "run"
  /\ \A h \in Hart : buf[h].kind = "probe" /\ pc[h] # "run" =>
       boot = "probe" /\ h = Boot

ExitInv == exitcode # None => host \notin {"clear", "fetch", "exec"}

\* The inductive invariant.
IInv == TypeOK /\ LockInv /\ StageInv /\ CallInv /\ BootInv /\ ExitInv

-----------------------------------------------------------------------------
\* The initial state satisfies the invariant.
LEMMA InitIInv == Init => IInv
<1> SUFFICES ASSUME Init PROVE IInv
    OBVIOUS
<1> USE BootAssumption, MaxCallsAssumption, NoneAssumption DEF Init
<1>1. registered \in BOOLEAN /\ ~registered
    BY Zenon
<1>2. TypeOK
    BY <1>1 DEF TypeOK, Buffer, Kind, HartPc, HostPc
<1>3. LockInv /\ ExitInv
    BY DEF LockInv, LockExclusive, ExitInv
<1>4. StageInv
    BY DEF StageInv, Active, TimedOut, Quiet
<1>5. CallInv
    BY DEF CallInv, Active, TimedOut, Quiet, Finished
<1>6. BootInv
    BY <1>1 DEF BootInv
<1> QED BY <1>2, <1>3, <1>4, <1>5, <1>6 DEF IInv

\* Every step of a hart and of the server preserves it.
LEMMA NextIInv == IInv /\ [Next]_vars => IInv'
<1> SUFFICES ASSUME IInv, [Next]_vars PROVE IInv'
    OBVIOUS
<1> USE BootAssumption, MaxCallsAssumption, NoneAssumption
    DEF IInv, TypeOK, Buffer, Kind, HartPc, HostPc, memVars, hartVars, hostVars,
        LockInv, LockExclusive, StageInv, CallInv, BootInv, ExitInv,
        Fresh, Finished, Quiet, Posted, Fetched, Executed, Stored, Replied,
        Serving, Active, TimedOut, Step, Call, HostStep
<1>1. ASSUME NEW h \in Hart, LockTest(h) PROVE IInv'
    BY <1>1 DEF LockTest
<1>2. ASSUME NEW h \in Hart, LockSwap(h) PROVE IInv'
    BY <1>2 DEF LockSwap
<1>3. ASSUME NEW h \in Hart, Post(h) PROVE IInv'
    BY <1>3 DEF Post
<1>4. ASSUME NEW h \in Hart, Poll(h) PROVE IInv'
    BY <1>4 DEF Poll
<1>5. ASSUME NEW h \in Hart, PollTimeout(h) PROVE IInv'
    BY <1>5 DEF PollTimeout
<1>6. ASSUME NEW h \in Hart, Ack(h) PROVE IInv'
    BY <1>6 DEF Ack
<1>7. ASSUME NEW h \in Hart, Unlock(h) PROVE IInv'
    BY <1>7 DEF Unlock
<1>8. ASSUME NEW h \in Hart, Return(h) PROVE IInv'
  <2>1. registered' \in BOOLEAN
    <3>1. CASE boot = "probe"
        BY <1>8, <3>1, Zenon DEF Return
    <3>2. CASE boot # "probe"
        BY <1>8, <3>2 DEF Return
    <3> QED BY <3>1, <3>2
  <2>2. TypeOK'
      BY <1>8, <2>1 DEF Return
  <2> QED BY <1>8, <2>2 DEF Return
<1>9. ASSUME NEW h \in Hart, Syscall(h) PROVE IInv'
    BY <1>9 DEF Syscall
<1>10. CASE Probe
    BY <1>10 DEF Probe
<1>11. CASE GetMainVars
    BY <1>11 DEF GetMainVars
<1>12. CASE SkipProbe
    BY <1>12 DEF SkipProbe
<1>13. CASE ReadTohost
    BY <1>13 DEF ReadTohost
<1>14. CASE ClearTohost
    BY <1>14 DEF ClearTohost
<1>15. CASE Fetch
    BY <1>15 DEF Fetch
<1>16. CASE Exec
    BY <1>16 DEF Exec
<1>17. CASE Store
  <2>1. PICK h \in Hart : Active(h)
      BY <1>17 DEF Store
  <2>2. Executed(h)
      BY <1>17, <2>1 DEF Store
  <2>3. /\ buf' = [buf EXCEPT ![h] = [buf[h] EXCEPT !.done = TRUE]]
        /\ [buf[h] EXCEPT !.done = TRUE] \in Buffer
      BY <1>17, <2>2 DEF Store
  <2>4. TypeOK'
      BY <1>17, <2>2, <2>3 DEF Store
  <2>5. BootInv'
      BY <1>17, <2>3 DEF Store
  <2>6. StageInv' /\ CallInv'
      BY <1>17, <2>1, <2>2, <2>3, <2>4 DEF Store
  <2> QED BY <1>17, <2>4, <2>5, <2>6 DEF Store
<1>18. CASE ReadFromhost
    BY <1>18 DEF ReadFromhost
<1>19. CASE WriteFromhost
    BY <1>19 DEF WriteFromhost
<1>20. CASE Stop
    BY <1>20 DEF Stop
<1>21. CASE UNCHANGED vars
    BY <1>21 DEF vars
<1> QED BY <1>1, <1>2, <1>3, <1>4, <1>5, <1>6, <1>7, <1>8, <1>9, <1>10, <1>11, <1>12, <1>13, <1>14, <1>15, <1>16, <1>17, <1>18, <1>19, <1>20, <1>21
    DEF Next, Start, HartStep, Server

\* The invariant holds in every reachable state.
THEOREM HtifInvariant == Safety => []IInv
<1>1. Init => IInv
    BY InitIInv
<1>2. IInv /\ [Next]_vars => IInv'
    BY NextIInv
<1> QED BY <1>1, <1>2, PTL DEF Safety

\* The variables keep their types; fromhost_queue never holds two answers.
THEOREM HtifTypeTheorem == Safety => []TypeOK
<1>1. IInv => TypeOK
    BY DEF IInv
<1> QED BY <1>1, HtifInvariant, PTL

\* htif_lock keeps all harts but one away from tohost and fromhost
\* (spinlock.h:27-44).
THEOREM LockExclusiveTheorem == Safety => []LockExclusive
<1>1. IInv => LockExclusive
    BY DEF IInv, LockInv
<1> QED BY <1>1, HtifInvariant, PTL

\* Every call gets its own result (syscall-htif.c:18-40).
THEOREM ResultIsOwnTheorem == Safety => []ResultIsOwn
<1>1. IInv => ResultIsOwn
    BY DEF IInv, CallInv, Finished, ResultIsOwn
<1> QED BY <1>1, HtifInvariant, PTL

\* The server carries no call out twice (htif.hpp:38-42).
THEOREM AtMostOnceTheorem == Safety => []AtMostOnce
<1>1. IInv => AtMostOnce
  <2> SUFFICES ASSUME IInv, NEW h \in Hart PROVE executed[h] <= ncalls[h]
      BY DEF AtMostOnce
  <2>1. /\ executed[h] \in Nat /\ ncalls[h] \in Nat
        /\ pc[h] \in {"run", "parked"} \/ pc[h] \in {"test", "swap", "post"}
           \/ pc[h] \in {"poll", "ack"} \/ pc[h] \in {"unlock", "read"}
      BY MaxCallsAssumption DEF IInv, TypeOK, HartPc
  <2>2. executed[h] = ncalls[h] \/ ncalls[h] = executed[h] + 1
    <3>1. CASE Active(h)
        BY <3>1 DEF IInv, StageInv, Serving, Posted, Fetched, Executed, Stored,
           Replied, Fresh, Finished
    <3>2. CASE ~Active(h)
        BY <2>1, <3>2 DEF IInv, CallInv, Active, Fresh, Finished
    <3> QED BY <3>1, <3>2
  <2> QED BY <2>1, <2>2
<1> QED BY <1>1, HtifInvariant, PTL

\* Results go only to harts that wait for them, or to an abandoned probe
\* (syscall_device.cpp:400).
THEOREM WriteBackIsAwaitedTheorem == Safety => []WriteBackIsAwaited
<1>1. IInv => WriteBackIsAwaited
    BY DEF IInv, StageInv, Quiet, Active, Serving, Posted, Fetched,
       Executed, Stored, Replied, WriteBackIsAwaited
<1> QED BY <1>1, HtifInvariant, PTL

\* No request in tohost is overwritten or cleared unread (htif.hpp:38-40).
THEOREM TohostNeverLostTheorem == Safety => TohostNeverLost
<1>1. IInv /\ [Next]_vars =>
        [tohost' # tohost => \/ tohost = None
                             \/ tohost' = None /\ tohost = to_host]_vars
  <2> SUFFICES ASSUME IInv, Next, tohost' # tohost, tohost # None
               PROVE  tohost' = None /\ tohost = to_host
      OBVIOUS
  <2>1. ASSUME NEW h \in Hart, Post(h) PROVE FALSE
      BY <2>1, BootAssumption DEF IInv, LockInv, LockExclusive, StageInv, BootInv,
         Active, TimedOut, Quiet, Post, Step
  <2>2. CASE ClearTohost
      BY <2>2 DEF IInv, StageInv, Active, Serving, Posted, Fetched, Executed,
         Stored, Replied, Quiet, ClearTohost, HostStep
  <2> QED BY <2>1, <2>2 DEF Next, Start, HartStep, Server, Probe, SkipProbe,
         GetMainVars, Syscall, Call, LockTest, LockSwap, Poll, PollTimeout, Ack,
         Unlock, Return, ReadTohost, Fetch, Exec, Store, ReadFromhost,
         WriteFromhost, Stop, memVars
<1> QED BY <1>1, HtifInvariant, PTL DEF Safety, TohostNeverLost

\* The first SOCT_EXIT is the last call carried out (htif.hpp:37).
THEOREM ExitIsFinalTheorem == Safety => ExitIsFinal
<1>1. IInv /\ [Next]_vars =>
        [exitcode # None => exitcode' = exitcode /\ executed' = executed]_vars
    BY DEF IInv, ExitInv, Next, Start, HartStep, Server, Probe, SkipProbe, GetMainVars,
       Syscall, Call, LockTest, LockSwap, Post, Poll, PollTimeout, Ack, Unlock, Return,
       ReadTohost, ClearTohost, Fetch, Exec, Store, ReadFromhost, WriteFromhost, Stop,
       HostStep, hostVars, vars
<1> QED BY <1>1, HtifInvariant, PTL DEF Safety, ExitIsFinal

-----------------------------------------------------------------------------
\* System calls over HTIF implement Syscalls: a call is one Make, one Carry and
\* one Return of the abstract specification, and every other step, also giving
\* up the probe and answering it too late, is a stutter.
THEOREM SyscallsTheorem == Safety => ImplementsSyscalls
<1>1. Init => Calls!Init
    BY BootAssumption DEF Init, Calls!Init, Result, TimedOut
<1>2. IInv /\ IInv' /\ [Next]_vars => [Calls!Next]_(Calls!vars)
  <2> SUFFICES ASSUME IInv, IInv', [Next]_vars PROVE [Calls!Next]_(Calls!vars)
      OBVIOUS
  \* A call is out from its Make to its Return.
  <2> DEFINE Out(h) == pc[h] \notin {"run", "parked"} \/ Active(h)
             Has(h) == IF Out(h) THEN ncalls[h] - 1 ELSE ncalls[h]
  <2>a. \A h \in Hart : Result[h] = Has(h)
      BY DEF IInv, CallInv, Finished, Active, Result
  <2>b. \A h \in Hart : Result'[h] = Has(h)'
      BY DEF IInv, CallInv, Finished, Active, Result
  <2>0. /\ Result = [h \in Hart |-> Has(h)] /\ Result' = [h \in Hart |-> Has(h)']
        /\ executed \in [Hart -> Nat] /\ ncalls \in [Hart -> Nat]
      BY <2>a, <2>b, MaxCallsAssumption DEF Result, IInv, TypeOK
  <2>1. ASSUME UNCHANGED <<ncalls, executed, exitcode>>, \A h \in Hart : Out(h)' = Out(h)
        PROVE  UNCHANGED Calls!vars
      BY <2>0, <2>1 DEF Calls!vars
  <2>2. ASSUME NEW h \in Hart, NEW kind, Call(h, kind), ~Active(h),
               UNCHANGED <<boot, registered>>
        PROVE  Calls!Make(h)
    <3>1. Out(h)' /\ ~Out(h) /\ \A g \in Hart \ {h} : Out(g)' = Out(g)
        BY <2>2 DEF Call, Active, TimedOut, IInv, TypeOK
    <3> QED BY <2>0, <2>2, <3>1 DEF Call, Calls!Make, hostVars
  <2>3. CASE Probe \/ GetMainVars \/ \E h \in Hart : Syscall(h)
    <3>1. PICK h \in Hart, kind \in Kind :
            /\ Call(h, kind)
            /\ boot = "done" => registered
        BY <2>3, BootAssumption DEF Probe, GetMainVars, Syscall, Kind
    <3>2. ~Active(h) /\ UNCHANGED <<boot, registered>>
        BY <3>1 DEF Call, Active, TimedOut
    <3> QED BY <2>2, <3>1, <3>2 DEF Calls!Next
  <2>4. CASE SkipProbe
    <3>1. \A h \in Hart : Out(h)' = Out(h)
        BY <2>4 DEF SkipProbe, Active, TimedOut, IInv, BootInv
    <3> QED BY <2>1, <2>4, <3>1 DEF SkipProbe, hostVars
  <2>5. ASSUME NEW h \in Hart,
               LockTest(h) \/ LockSwap(h) \/ Post(h) \/ Poll(h) \/ Ack(h) \/ Unlock(h)
        PROVE  UNCHANGED Calls!vars
    <3>1. \A g \in Hart : Out(g)' = Out(g)
        BY <2>5 DEF LockTest, LockSwap, Post, Poll, Ack, Unlock, Step, Active, TimedOut,
           IInv, TypeOK
    <3> QED BY <2>1, <2>5, <3>1
        DEF LockTest, LockSwap, Post, Poll, Ack, Unlock, hostVars
  <2>6. ASSUME NEW h \in Hart, PollTimeout(h) PROVE UNCHANGED Calls!vars
    <3>1. h = Boot /\ ~registered /\ ncalls[h] = 1
        BY <2>6 DEF PollTimeout, Step, IInv, BootInv
    <3>2. \A g \in Hart : Out(g)' = Out(g)
        BY <2>6, <3>1 DEF PollTimeout, Step, Active, TimedOut, IInv, TypeOK
    <3> QED BY <2>1, <2>6, <3>2 DEF PollTimeout, hostVars
  <2>7. ASSUME NEW h \in Hart, Return(h) PROVE Calls!Return(h)
    <3>a. /\ pc[h] = "read" /\ ncalls[h] = executed[h]
          /\ boot # "probe" => registered
        BY <2>7 DEF Return, Step, IInv, TypeOK, BootInv, CallInv, Finished
    <3>b. registered'
      <4>1. CASE boot = "probe"
          BY <2>7, <4>1 DEF Return
      <4>2. CASE boot # "probe"
          BY <2>7, <3>a, <4>2 DEF Return
      <4> QED BY <4>1, <4>2
    <3>1. ~Active(h) /\ ~TimedOut /\ ~TimedOut'
        BY <3>a, <3>b DEF Active, TimedOut
    <3>2. Out(h) /\ ~Out(h)' /\ \A g \in Hart \ {h} : Out(g)' = Out(g)
        BY <2>7, <3>1 DEF Return, Step, Active, IInv, TypeOK
    <3> QED BY <2>0, <2>7, <3>a, <3>2 DEF Return, Calls!Return, hostVars
  <2>8. CASE \/ ReadTohost \/ ClearTohost \/ Fetch \/ Store \/ ReadFromhost
             \/ WriteFromhost \/ Stop \/ UNCHANGED vars
    <3>1. UNCHANGED <<hartVars, exitcode, executed>>
        BY <2>8 DEF ReadTohost, ClearTohost, Fetch, Store, ReadFromhost, WriteFromhost,
           Stop, vars, hostVars
    <3> QED BY <2>1, <3>1 DEF hartVars, Active, TimedOut
  <2>9. CASE Exec
    <3>1. PICK h \in Hart : Active(h)
        BY <2>9 DEF Exec, HostStep, IInv, StageInv, Quiet
    <3>2. Fetched(h)
        BY <2>9, <3>1 DEF Exec, HostStep, IInv, StageInv, Serving, Posted, Executed, Stored,
           Replied
    <3>3. \A g \in Hart : Out(g)' = Out(g)
        BY <2>9 DEF Exec, hartVars, Active, TimedOut
    <3>4. /\ exitcode = None /\ exitcode' \in {None, h} /\ UNCHANGED ncalls
          /\ executed[h] < ncalls[h] /\ executed' = [executed EXCEPT ![h] = @ + 1]
        BY <2>0, <2>9, <3>2 DEF Exec, HostStep, IInv, ExitInv, Fetched, Fresh, hartVars
    <3>5. Calls!Carry(h)
        BY <2>0, <3>3, <3>4 DEF Calls!Carry
    <3> QED BY <3>5 DEF Calls!Next
  <2> QED BY <2>3, <2>4, <2>5, <2>6, <2>7, <2>8, <2>9
      DEF Next, Start, HartStep, Server, Calls!Next
<1> QED BY <1>1, <1>2, HtifInvariant, PTL DEF Safety, ImplementsSyscalls, Calls!Spec
=============================================================================
