------------------------------ MODULE Syscalls ------------------------------
(***************************************************************************)
(* What soct_syscall promises the program when a front-end server is       *)
(* there: the calls of one hart are carried out one by one, each exactly   *)
(* once before it returns and with its own result; after SOCT_EXIT nothing *)
(* is carried out any more, so that no call still waiting then returns.    *)
(***************************************************************************)
EXTENDS Integers

CONSTANTS Hart, None

VARIABLES made,     \* the number of calls each hart has made
          carried,  \* how many of them the server has carried out
          result,   \* the call whose result each hart has got last
          over      \* the hart whose SOCT_EXIT was carried out, or None

vars == <<made, carried, result, over>>

Init ==
  /\ made = [h \in Hart |-> 0] /\ carried = [h \in Hart |-> 0]
  /\ result = [h \in Hart |-> 0] /\ over = None

Make(h) ==
  /\ result[h] = made[h]
  /\ made' = [made EXCEPT ![h] = @ + 1]
  /\ UNCHANGED <<carried, result, over>>

Carry(h) ==
  /\ over = None /\ carried[h] < made[h]
  /\ carried' = [carried EXCEPT ![h] = @ + 1]
  /\ over' \in {None, h}
  /\ UNCHANGED <<made, result>>

Return(h) ==
  /\ result[h] < carried[h]
  /\ result' = [result EXCEPT ![h] = made[h]]
  /\ UNCHANGED <<made, carried, over>>

Next == \E h \in Hart : Make(h) \/ Carry(h) \/ Return(h)

Spec == Init /\ [][Next]_vars
=============================================================================
