----------------------------- MODULE Rendezvous -----------------------------
(***************************************************************************)
(* What barrier() of hello-hart promises, "reusable" included: a hart      *)
(* returns from its n-th call only when every hart has entered its n-th,   *)
(* and it returns then.                                                    *)
(***************************************************************************)
EXTENDS Naturals

CONSTANT Hart

VARIABLES entered,  \* the number of calls each hart is counted in for
          left      \* the number of calls each hart has returned from

vars == <<entered, left>>

Init == entered = [h \in Hart |-> 0] /\ left = [h \in Hart |-> 0]

Enter(h) == /\ entered[h] = left[h]
            /\ entered' = [entered EXCEPT ![h] = @ + 1]
            /\ UNCHANGED left

Leave(h) == /\ left[h] < entered[h]
            /\ \A g \in Hart : entered[h] <= entered[g]
            /\ left' = [left EXCEPT ![h] = entered[h]]
            /\ UNCHANGED entered

Next == \E h \in Hart : Enter(h) \/ Leave(h)

Safety == Init /\ [][Next]_vars

Spec == Safety /\ \A h \in Hart : WF_vars(Leave(h))
=============================================================================
