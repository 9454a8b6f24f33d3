------------------------------ MODULE Barrier ------------------------------
(***************************************************************************)
(* The sense-reversing barrier of hello-hart                               *)
(* (src/binaries/baremetal/hello-hart/main.c), called again and again by   *)
(* every hart.  The fences make each access to a shared word a step of its *)
(* own, in program order.                                                  *)
(***************************************************************************)
EXTENDS Naturals, FiniteSets

CONSTANTS Hart,      \* the harts that take part
          MaxRounds  \* bound: calls of barrier() by each hart

ASSUME HartAssumption == IsFiniteSet(Hart)
ASSUME MaxRoundsAssumption == MaxRounds \in Nat

VARIABLES
    n_harts,        \* set by main
    barrier_count, barrier_sense, local_sense,
    bpc,            \* where each hart is in barrier(): "out" is outside
    round           \* the number of calls each hart has made

bVars == <<n_harts, barrier_count, barrier_sense, local_sense, bpc, round>>

BarrierPc == {"out", "arrive", "spin", "reset", "release"}

BarrierTypeOK ==
    /\ n_harts \in {0, Cardinality(Hart)}
    /\ barrier_count \in 0 .. Cardinality(Hart)
    /\ barrier_sense \in {0, 1}
    /\ local_sense \in [Hart -> {0, 1}]
    /\ bpc \in [Hart -> BarrierPc]
    /\ round \in [Hart -> 0 .. MaxRounds]

\* The static variables as the loader leaves them.
BarrierIdle ==
    /\ barrier_count = 0 /\ barrier_sense = 0
    /\ local_sense = [h \in Hart |-> 0]
    /\ bpc = [h \in Hart |-> "out"]
    /\ round = [h \in Hart |-> 0]

BarrierInit == n_harts = Cardinality(Hart) /\ BarrierIdle

-----------------------------------------------------------------------------
BStep(h, from, to) == bpc[h] = from /\ bpc' = [bpc EXCEPT ![h] = to]

Toggle(h) ==
    /\ round[h] < MaxRounds
    /\ BStep(h, "out", "arrive")
    /\ local_sense' = [local_sense EXCEPT ![h] = 1 - @]
    /\ round' = [round EXCEPT ![h] = @ + 1]
    /\ UNCHANGED <<n_harts, barrier_count, barrier_sense>>

\* Mutant: the count before the addition is compared.
ArriveOld(h) ==
    /\ BStep(h, "arrive", IF barrier_count + 2 = n_harts THEN "reset" ELSE "spin")
    /\ barrier_count' = barrier_count + 1
    /\ UNCHANGED <<n_harts, barrier_sense, local_sense, round>>

\* __sync_add_and_fetch, and the comparison with n_harts.
Arrive(h) ==
    /\ BStep(h, "arrive", IF barrier_count + 1 = n_harts THEN "reset" ELSE "spin")
    /\ barrier_count' = barrier_count + 1
    /\ UNCHANGED <<n_harts, barrier_sense, local_sense, round>>

Reset(h) ==
    /\ BStep(h, "reset", "release")
    /\ barrier_count' = 0
    /\ UNCHANGED <<n_harts, barrier_sense, local_sense, round>>

Release(h) ==
    /\ BStep(h, "release", "out")
    /\ barrier_sense' = local_sense[h]
    /\ UNCHANGED <<n_harts, barrier_count, local_sense, round>>

\* Mutant: waiting for a fixed value instead of the hart's own sense.
SpinFixed(h) ==
    /\ barrier_sense = 1
    /\ BStep(h, "spin", "out")
    /\ UNCHANGED <<n_harts, barrier_count, barrier_sense, local_sense, round>>

Spin(h) ==
    /\ barrier_sense = local_sense[h]
    /\ BStep(h, "spin", "out")
    /\ UNCHANGED <<n_harts, barrier_count, barrier_sense, local_sense, round>>

Inside(h) == Arrive(h) \/ Reset(h) \/ Release(h) \/ Spin(h)
BarrierStep(h) == Toggle(h) \/ Inside(h)

BarrierNext == \E h \in Hart : BarrierStep(h)

BarrierSafety == BarrierInit /\ [][BarrierNext]_bVars

\* A hart inside barrier() keeps executing.
BarrierSpec == BarrierSafety /\ \A h \in Hart : WF_bVars(Inside(h))

-----------------------------------------------------------------------------
(* Properties *)

\* A hart that has returned from a call (main.c:71-88) finds every other hart
\* counted in for that call, or already past it.
NobodyPassesEarly ==
    \A g, h \in Hart :
        bpc[g] = "out" => \/ round[h] > round[g]
                          \/ round[h] = round[g] /\ bpc[h] # "arrive"

\* The calls each hart is counted in for, and those it has returned from.
Entered == [h \in Hart |-> IF bpc[h] = "arrive" THEN round[h] - 1 ELSE round[h]]
Left == [h \in Hart |-> IF bpc[h] = "out" THEN round[h] ELSE round[h] - 1]

Meeting == INSTANCE Rendezvous WITH entered <- Entered, left <- Left

\* barrier() implements the rendezvous in every call (main.c:65-70): a fast hart
\* that calls it again at once, while others have not seen the new sense, neither
\* overtakes them nor holds them up, and everybody returns once all have come.
ImplementsRendezvous == Meeting!Spec
=============================================================================
