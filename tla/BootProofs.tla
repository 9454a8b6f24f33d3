---------------------------- MODULE BootProofs ----------------------------
(***************************************************************************)
(* Proofs about Barrier and Boot, for every finite set of harts and every  *)
(* number of rounds.                                                       *)
(*                                                                         *)
(* The inductive invariant of the barrier says that some number e of       *)
(* rounds is complete and that every hart has been called in e or e + 1 of *)
(* them: without the count of those waiting, nothing says that the hart    *)
(* that flips the sense is the last one.                                   *)
(*                                                                         *)
(* Boot takes the steps of the barrier from there; what has to be added is *)
(* that nobody is in the program, so that clearing the BSS changes         *)
(* nothing, until the boot hart stores to __boot_sync.                     *)
(***************************************************************************)
EXTENDS Boot, FiniteSetTheorems, TLAPS

\* The harts counted in for the call after the e-th.
Waiting(e) == {h \in Hart : bpc[h] \in {"spin", "reset"} /\ round[h] = e + 1}

\* Where each hart is when e rounds are complete.
Places(e) ==
    \A h \in Hart :
        /\ round[h] \in {e, e + 1}
        /\ local_sense[h] = barrier_sense <=> round[h] = e
        /\ bpc[h] = "out" => round[h] = e
        /\ bpc[h] \in {"arrive", "reset", "release"} => round[h] = e + 1

\* Once a hart has found itself to be the last, all others wait.
LastInv(e) ==
    \A h \in Hart :
        bpc[h] \in {"reset", "release"} =>
            \A g \in Hart \ {h} : bpc[g] = "spin" /\ round[g] = e + 1

CountInv(e) ==
    /\ (\A h \in Hart : bpc[h] # "release") => barrier_count = Cardinality(Waiting(e))
    /\ \A h \in Hart : bpc[h] = "release" => barrier_count = 0

BarrierStage(e) == Places(e) /\ LastInv(e) /\ CountInv(e)

\* The inductive invariant.
BarrierIInv == BarrierTypeOK /\ \E e \in Nat : BarrierStage(e)

-----------------------------------------------------------------------------
\* The harts that wait can be counted.
LEMMA WaitingFinite ==
    ASSUME NEW e
    PROVE  /\ IsFiniteSet(Waiting(e)) /\ Cardinality(Waiting(e)) \in Nat
           /\ Cardinality(Waiting(e)) <= Cardinality(Hart)
           /\ Cardinality(Hart) \in Nat
           /\ Cardinality(Waiting(e)) = Cardinality(Hart) => Waiting(e) = Hart
<1>1. Waiting(e) \subseteq Hart
    BY DEF Waiting
<1> QED BY <1>1, HartAssumption, FS_Subset, FS_CardinalityType

\* The initial state satisfies the invariant, whether or not n_harts is set.
LEMMA IdleStage ==
    ASSUME BarrierIdle, n_harts \in {0, Cardinality(Hart)}
    PROVE  BarrierIInv
<1>1. BarrierTypeOK
    BY HartAssumption, MaxRoundsAssumption, FS_CardinalityType
    DEF BarrierIdle, BarrierTypeOK, BarrierPc
<1>2. Places(0) /\ LastInv(0)
    BY DEF BarrierIdle, Places, LastInv
<1>3. Waiting(0) = {}
    BY DEF Waiting, BarrierIdle
<1>4. CountInv(0)
    BY <1>3, FS_EmptySet DEF CountInv, BarrierIdle
<1> QED BY <1>1, <1>2, <1>4 DEF BarrierIInv, BarrierStage

\* Entering barrier() changes nobody's count.
LEMMA ToggleStage ==
    ASSUME NEW e \in Nat, NEW h \in Hart, BarrierTypeOK, BarrierStage(e), Toggle(h)
    PROVE  BarrierTypeOK' /\ BarrierStage(e)'
<1> USE DEF Toggle, BStep, BarrierTypeOK, BarrierPc
<1>1. BarrierTypeOK'
    BY MaxRoundsAssumption
<1>2. Places(e)'
    BY DEF BarrierStage, Places
<1>3. LastInv(e)'
    BY DEF BarrierStage, LastInv
<1>4. Waiting(e)' = Waiting(e)
    BY DEF Waiting, BarrierStage, Places
<1>5. CountInv(e)'
    BY <1>4 DEF CountInv, BarrierStage
<1> QED BY <1>1, <1>2, <1>3, <1>5 DEF BarrierStage

\* The hart that brings the count to n_harts is the last: all others wait.
LEMMA ArriveStage ==
    ASSUME NEW e \in Nat, NEW h \in Hart, BarrierTypeOK, BarrierStage(e), Arrive(h)
    PROVE  BarrierTypeOK' /\ BarrierStage(e)'
<1> USE DEF Arrive, BStep, BarrierTypeOK, BarrierPc
<1>1. \A g \in Hart : bpc[g] \notin {"reset", "release"}
    BY DEF BarrierStage, LastInv
<1>2. barrier_count = Cardinality(Waiting(e))
    BY <1>1 DEF BarrierStage, CountInv
<1>3. round[h] = e + 1 /\ h \notin Waiting(e)
    BY DEF BarrierStage, Places, Waiting
<1>4. Waiting(e)' = Waiting(e) \cup {h}
    BY <1>3 DEF Waiting
<1>5. barrier_count' = Cardinality(Waiting(e)')
    <2>1. Cardinality(Waiting(e) \cup {h}) = Cardinality(Waiting(e)) + 1
        BY <1>3, WaitingFinite, FS_AddElement, Zenon
    <2>2. barrier_count' = barrier_count + 1
        OBVIOUS
    <2> QED BY <1>2, <1>4, <2>1, <2>2
<1>6. Waiting(e)' \subseteq Hart
    BY <1>4 DEF Waiting
<1>7. /\ barrier_count' \in Nat /\ barrier_count' <= Cardinality(Hart)
      /\ Cardinality(Hart) \in Nat
      /\ barrier_count' = Cardinality(Hart) => Waiting(e)' = Hart
    BY <1>5, <1>6, HartAssumption, FS_Subset, FS_CardinalityType
<1>8. BarrierTypeOK'
    BY <1>7
<1>9. Places(e)'
    BY <1>3 DEF BarrierStage, Places
<1>10. bpc'[h] = "reset" => Waiting(e)' = Hart
    BY <1>2, <1>7, WaitingFinite
<1>11. LastInv(e)'
    BY <1>1, <1>10 DEF LastInv, Waiting
<1>12. CountInv(e)'
    BY <1>1, <1>5 DEF CountInv
<1> QED BY <1>8, <1>9, <1>11, <1>12 DEF BarrierStage

\* Resetting the count leaves the others waiting.
LEMMA ResetStage ==
    ASSUME NEW e \in Nat, NEW h \in Hart, BarrierTypeOK, BarrierStage(e), Reset(h)
    PROVE  BarrierTypeOK' /\ BarrierStage(e)'
<1> USE DEF Reset, BStep, BarrierTypeOK, BarrierPc
<1>1. BarrierTypeOK'
    BY WaitingFinite
<1>2. Places(e)' /\ LastInv(e)'
    BY DEF BarrierStage, Places, LastInv
<1>3. CountInv(e)'
    BY DEF CountInv
<1> QED BY <1>1, <1>2, <1>3 DEF BarrierStage

\* Flipping the sense completes the round for everybody at once.
LEMMA ReleaseStage ==
    ASSUME NEW e \in Nat, NEW h \in Hart, BarrierTypeOK, BarrierStage(e), Release(h)
    PROVE  BarrierTypeOK' /\ BarrierStage(e + 1)'
<1> USE DEF Release, BStep, BarrierTypeOK, BarrierPc
<1>1. BarrierTypeOK'
    OBVIOUS
<1>2. \A g \in Hart : round[g] = e + 1 /\ local_sense[g] # barrier_sense
    BY DEF BarrierStage, LastInv, Places
<1>3. \A g \in Hart : bpc'[g] \in {"spin", "out"}
    BY DEF BarrierStage, LastInv
<1>4. \A g \in Hart : local_sense'[g] = barrier_sense'
    BY <1>2
<1>5. Places(e + 1)'
    BY <1>2, <1>3, <1>4 DEF Places
<1>6. LastInv(e + 1)'
    BY <1>3 DEF LastInv
<1>7. Waiting(e + 1)' = {}
    BY <1>2 DEF Waiting
<1>8. barrier_count' = 0
    BY DEF BarrierStage, CountInv
<1>9. CountInv(e + 1)'
    BY <1>3, <1>7, <1>8, FS_EmptySet DEF CountInv
<1> QED BY <1>1, <1>5, <1>6, <1>9 DEF BarrierStage

\* A hart that sees its sense leaves a round that is complete.
LEMMA SpinStage ==
    ASSUME NEW e \in Nat, NEW h \in Hart, BarrierTypeOK, BarrierStage(e), Spin(h)
    PROVE  BarrierTypeOK' /\ BarrierStage(e)'
<1> USE DEF Spin, BStep, BarrierTypeOK, BarrierPc
<1>1. BarrierTypeOK'
    OBVIOUS
<1>2. round[h] = e
    BY DEF BarrierStage, Places
<1>3. Places(e)'
    BY <1>2 DEF BarrierStage, Places
<1>4. LastInv(e)'
    BY <1>2 DEF BarrierStage, LastInv
<1>5. Waiting(e)' = Waiting(e)
    BY <1>2 DEF Waiting
<1>6. CountInv(e)'
    BY <1>5 DEF CountInv, BarrierStage
<1> QED BY <1>1, <1>3, <1>4, <1>6 DEF BarrierStage

\* Every step inside barrier() preserves the invariant.
LEMMA StepBarrierIInv ==
    ASSUME NEW h \in Hart, BarrierIInv, BarrierStep(h)
    PROVE  BarrierIInv'
<1>1. PICK e \in Nat : BarrierStage(e)
    BY DEF BarrierIInv
<1>2. BarrierTypeOK
    BY DEF BarrierIInv
<1>3. e + 1 \in Nat
    OBVIOUS
<1>4. CASE Toggle(h)
    BY <1>1, <1>2, <1>4, ToggleStage DEF BarrierIInv
<1>5. CASE Arrive(h)
    BY <1>1, <1>2, <1>5, ArriveStage DEF BarrierIInv
<1>6. CASE Reset(h)
    BY <1>1, <1>2, <1>6, ResetStage DEF BarrierIInv
<1>7. CASE Release(h)
    BY <1>1, <1>2, <1>3, <1>7, ReleaseStage DEF BarrierIInv
<1>8. CASE Spin(h)
    BY <1>1, <1>2, <1>8, SpinStage DEF BarrierIInv
<1> QED BY <1>4, <1>5, <1>6, <1>7, <1>8 DEF BarrierStep, Inside

\* Steps that leave the barrier alone preserve it too.
LEMMA StutterBarrierIInv ==
    ASSUME BarrierIInv, UNCHANGED bVars PROVE BarrierIInv'
BY DEF BarrierIInv, BarrierTypeOK, BarrierStage, Places, LastInv, CountInv, Waiting, bVars

\* The invariant holds in every reachable state.
THEOREM BarrierInvariant == BarrierSafety => []BarrierIInv
<1>1. BarrierInit => BarrierIInv
    BY IdleStage DEF BarrierInit
<1>2. BarrierIInv /\ [BarrierNext]_bVars => BarrierIInv'
    BY StepBarrierIInv, StutterBarrierIInv DEF BarrierNext
<1> QED BY <1>1, <1>2, PTL DEF BarrierSafety

-----------------------------------------------------------------------------
\* A hart that is outside has met all others (main.c:71-88).
LEMMA StageMeets == BarrierIInv => NobodyPassesEarly
BY DEF BarrierIInv, BarrierStage, Places, NobodyPassesEarly

\* A hart returns from barrier() only when all others are counted in (main.c:71-88).
THEOREM NobodyPassesEarlyTheorem == BarrierSafety => []NobodyPassesEarly
BY StageMeets, BarrierInvariant, PTL

\* The types of the barrier's variables hold throughout.
THEOREM BarrierTypeTheorem == BarrierSafety => []BarrierTypeOK
<1>1. BarrierIInv => BarrierTypeOK
    BY DEF BarrierIInv
<1> QED BY <1>1, BarrierInvariant, PTL

-----------------------------------------------------------------------------
\* Every step is a step of the rendezvous or changes nothing there.
LEMMA StepMeets ==
    ASSUME BarrierIInv, NEW h \in Hart, BarrierStep(h)
    PROVE  Meeting!Enter(h) \/ Meeting!Leave(h) \/ UNCHANGED Meeting!vars
<1> USE DEF BStep, BarrierTypeOK, BarrierPc, Meeting!vars
<1>1. PICK e \in Nat : BarrierStage(e)
    BY DEF BarrierIInv
<1>2. BarrierTypeOK
    BY DEF BarrierIInv
<1>3. \A g \in Hart : round[g] \in {e, e + 1} /\ (bpc[g] = "arrive" => round[g] = e + 1)
    BY <1>1 DEF BarrierStage, Places
<1>4. CASE Toggle(h)
    BY <1>2, <1>4 DEF Toggle, Entered, Left
<1>5. CASE Arrive(h)
    <2>1. Entered' = [Entered EXCEPT ![h] = round[h]] /\ Left' = Left
        BY <1>2, <1>5 DEF Arrive, Entered, Left
    <2>2. Entered[h] = round[h] - 1 /\ Left[h] = round[h] - 1
        BY <1>2, <1>5 DEF Arrive, Entered, Left
    <2>3. Entered[h] + 1 = round[h]
        BY <1>2, <2>2
    <2> QED BY <2>1, <2>2, <2>3 DEF Meeting!Enter
<1>6. CASE Reset(h)
    BY <1>2, <1>6 DEF Reset, Entered, Left
<1>7. CASE Release(h)
    <2>1. \A g \in Hart : round[g] = e + 1 /\ bpc[g] # "arrive"
        BY <1>1, <1>2, <1>7 DEF Release, BarrierStage, LastInv, Places
    <2>2. Left' = [Left EXCEPT ![h] = Entered[h]] /\ Entered' = Entered
        BY <1>2, <1>7 DEF Release, Entered, Left
    <2>3. Left[h] < Entered[h] /\ \A g \in Hart : Entered[h] <= Entered[g]
        BY <1>2, <1>7, <2>1 DEF Release, Entered, Left
    <2> QED BY <2>2, <2>3 DEF Meeting!Leave
<1>8. CASE Spin(h)
    <2>1. round[h] = e
        BY <1>1, <1>2, <1>8 DEF Spin, BarrierStage, Places
    <2>2. Left' = [Left EXCEPT ![h] = Entered[h]] /\ Entered' = Entered
        BY <1>2, <1>8 DEF Spin, Entered, Left
    <2>3. Entered[h] = e /\ Left[h] = e - 1
        BY <1>2, <1>8, <2>1 DEF Spin, Entered, Left
    <2>4. \A g \in Hart : Entered[g] \in {e, e + 1}
        BY <1>2, <1>3 DEF Entered
    <2>5. Left[h] < Entered[h] /\ \A g \in Hart : Entered[h] <= Entered[g]
        BY <2>3, <2>4
    <2> QED BY <2>2, <2>5 DEF Meeting!Leave
<1> QED BY <1>4, <1>5, <1>6, <1>7, <1>8 DEF BarrierStep, Inside

\* The steps of the barrier are those of the rendezvous, for every set of harts
\* and number of calls (main.c:65-88); that everybody returns is left to TLC.
THEOREM RendezvousTheorem == BarrierSafety => Meeting!Safety
<1>1. BarrierInit => Meeting!Init
    BY DEF BarrierInit, BarrierIdle, Meeting!Init, Entered, Left
<1>2. BarrierIInv /\ [BarrierNext]_bVars => [Meeting!Next]_(Meeting!vars)
    <2>1. BarrierIInv /\ BarrierNext => [Meeting!Next]_(Meeting!vars)
        BY StepMeets DEF BarrierNext, Meeting!Next
    <2>2. UNCHANGED bVars => UNCHANGED Meeting!vars
        BY DEF bVars, Meeting!vars, Entered, Left
    <2> QED BY <2>1, <2>2
<1> QED BY <1>1, <1>2, BarrierInvariant, PTL DEF BarrierSafety, Meeting!Safety

-----------------------------------------------------------------------------
BootOnly == {"raise", "reload", "bss", "start_main", "release_sync", "main",
             "detect", "wakeup", "exiting", "exited"}
OtherOnly == {"rom_wait", "boot_sync", "msip_wait", "msip_clear", "done"}

\* Which hart can be where.
PcInv == /\ pc[0] \notin OtherOnly
         /\ \A h \in Hart \ {0} : pc[h] \notin BootOnly

\* Before __boot_sync is set nobody is in the program; afterwards it is ready.
SyncInv ==
    /\ boot_sync = 0 => /\ BarrierIdle /\ n_harts = 0
                        /\ print_lock = 0 /\ printing = {}
                        /\ \A h \in Hart : pc[h] \notin MainPc
    /\ boot_sync # 0 => registered /\ pc[0] \in MainPc
    /\ pc[0] = "release_sync" => registered

LockInv == /\ \A g, h \in printing : g = h
           /\ printing # {} => print_lock = 1

\* A hart calls the barrier once, after its hello.
HelloInv ==
    /\ \A h \in Hart : bpc[h] # "out" => pc[h] = "barrier" /\ round[h] = 1
    /\ \A h \in Hart : round[h] > 0 \/ pc[h] = "barrier" => h \in printed
    /\ pc[0] \in {"exiting", "exited"} => round[0] = 1
    /\ pc[0] = "wakeup" => 0 \in printed

ChunkInv == chunk # <<>> => host < N

BootIInv == /\ TypeOK /\ BarrierIInv /\ PcInv /\ SyncInv /\ LockInv /\ HelloInv
            /\ ChunkInv

-----------------------------------------------------------------------------
\* The harts, their number and the boot hart.
LEMMA HartFacts == /\ 0 \in Hart /\ N \in Nat /\ N > 0 /\ Cardinality(Hart) = N
                   /\ Hart \subseteq Nat /\ \A h \in Hart : h < N
                   /\ \A i \in 1 .. N : i < N => i \in Hart
<1>1. Hart = 0 .. N - 1 /\ N \in Nat /\ N > 0
    BY NAssumption
<1>2. Cardinality(0 .. N - 1) = N
    BY <1>1, FS_Interval
<1> QED BY <1>1, <1>2

\* The initial state.
LEMMA InitBootIInv == Init => BootIInv
<1> SUFFICES ASSUME Init PROVE BootIInv
    OBVIOUS
<1>1. BarrierIInv
    BY IdleStage DEF Init
<1>2. BarrierTypeOK
    BY <1>1 DEF BarrierIInv
<1>3. TypeOK
    BY <1>2, HartFacts DEF Init, TypeOK, RomPc
<1>4. PcInv /\ SyncInv /\ LockInv /\ ChunkInv
    BY HartFacts DEF Init, PcInv, SyncInv, LockInv, ChunkInv, BootOnly, OtherOnly, MainPc
<1>5. HelloInv
    BY HartFacts DEF Init, HelloInv, BarrierIdle
<1> QED BY <1>1, <1>3, <1>4, <1>5 DEF BootIInv

\* Every step outside the barrier leaves the barrier's invariant alone.
LEMMA OutsideBarrier ==
    ASSUME BootIInv, UNCHANGED bVars
    PROVE  BarrierIInv' /\ BarrierTypeOK'
<1>1. BarrierIInv'
    BY StutterBarrierIInv DEF BootIInv
<1> QED BY <1>1 DEF BarrierIInv

\* Every step of the server and of the harts preserves the invariant.
LEMMA NextBootIInv ==
    ASSUME BootIInv, [Next]_vars PROVE BootIInv'
<1> USE HartFacts
    DEF TypeOK, PcInv, SyncInv, LockInv, HelloInv, ChunkInv, BootOnly, OtherOnly,
        MainPc, RomPc, StartPc, clint, prog, bVars, Step, SetMsip
<1>0. TypeOK /\ PcInv /\ SyncInv /\ LockInv /\ HelloInv /\ ChunkInv
    BY DEF BootIInv
<1>1. CASE HostRead
    BY <1>0, <1>1, OutsideBarrier DEF HostRead, BootIInv, BarrierIdle
<1>2. CASE HostWrite
    BY <1>0, <1>2, OutsideBarrier DEF HostWrite, BootIInv, BarrierIdle
<1>3. CASE Raise
    BY <1>0, <1>3, OutsideBarrier DEF Raise, BootIInv, BarrierIdle
<1>4. CASE Reload
    BY <1>0, <1>4, OutsideBarrier DEF Reload, BootIInv, BarrierIdle
<1>5. CASE ZeroBss
    BY <1>0, <1>5, OutsideBarrier DEF ZeroBss, BootIInv, BarrierIdle
<1>6. CASE StartMain
    BY <1>0, <1>6, OutsideBarrier DEF StartMain, BootIInv, BarrierIdle
<1>7. CASE ReleaseSync
    BY <1>0, <1>7, OutsideBarrier DEF ReleaseSync, BootIInv, BarrierIdle
<1>8. CASE CountHarts
    <2>1. BarrierTypeOK'
        BY <1>0, <1>8 DEF CountHarts, BarrierTypeOK
    <2>2. PICK e \in Nat : BarrierStage(e)
        BY DEF BootIInv, BarrierIInv
    <2>3. Waiting(e)' = Waiting(e)
        BY <1>8 DEF CountHarts, Waiting
    <2>4. BarrierStage(e)'
        BY <1>8, <2>2, <2>3 DEF CountHarts, BarrierStage, Places, LastInv, CountInv
    <2>5. BarrierIInv'
        BY <2>1, <2>4 DEF BarrierIInv
    <2> QED BY <1>0, <1>8, <2>1, <2>5 DEF CountHarts, BootIInv
<1>9. CASE Wakeup
    <2>1. hart' \in 1 .. N
        BY <1>0, <1>9 DEF Wakeup, BarrierTypeOK
    <2>2. msip' \in [Hart -> {0, 1}]
        BY <1>0, <1>9 DEF Wakeup
    <2> QED BY <1>0, <1>9, <2>1, <2>2, OutsideBarrier DEF Wakeup, BootIInv, BarrierIdle
<1>10. CASE WakeupDone
    BY <1>0, <1>10, OutsideBarrier DEF WakeupDone, BootIInv, BarrierIdle
<1>11. ASSUME NEW h \in Hart, TakeMsip(h) PROVE BootIInv'
    BY <1>0, <1>11, OutsideBarrier DEF TakeMsip, BootIInv, BarrierIdle
<1>12. ASSUME NEW h \in Hart, RomWait(h) PROVE BootIInv'
    <2>1. /\ BarrierIInv' /\ BarrierTypeOK' /\ UNCHANGED <<clint, a2, prog, bVars>>
          /\ h # 0 /\ pc[h] = "rom_wait" /\ pc' = [pc EXCEPT ![h] = "rom_clear"]
        BY <1>12, OutsideBarrier DEF RomWait
    <2>2. TypeOK' /\ PcInv' /\ LockInv' /\ HelloInv' /\ ChunkInv'
        BY <1>0, <2>1
    <2>3. SyncInv'
        BY <1>0, <2>1 DEF BarrierIdle
    <2> QED BY <2>1, <2>2, <2>3 DEF BootIInv
<1>13. ASSUME NEW h \in Hart, RomClear(h) PROVE BootIInv'
    BY <1>0, <1>13, OutsideBarrier DEF RomClear, BootIInv, BarrierIdle
<1>14. ASSUME NEW h \in Hart, StartSecondary(h) PROVE BootIInv'
    BY <1>0, <1>14, OutsideBarrier DEF StartSecondary, BootIInv, BarrierIdle
<1>15. ASSUME NEW h \in Hart, LockPrint(h) PROVE BootIInv'
    BY <1>0, <1>15, OutsideBarrier DEF LockPrint, BootIInv, BarrierIdle
<1>16. ASSUME NEW h \in Hart, UnlockPrint(h) PROVE BootIInv'
    BY <1>0, <1>16, OutsideBarrier DEF UnlockPrint, BootIInv, BarrierIdle
<1>17. ASSUME NEW h \in Hart, WaitMsip(h) PROVE BootIInv'
    BY <1>0, <1>17, OutsideBarrier DEF WaitMsip, BootIInv, BarrierIdle
<1>18. ASSUME NEW h \in Hart, ClearMsip(h) PROVE BootIInv'
    BY <1>0, <1>18, OutsideBarrier DEF ClearMsip, BootIInv, BarrierIdle
<1>19. ASSUME NEW h \in Hart, InBarrier(h) PROVE BootIInv'
    <2>1. BarrierStep(h) /\ pc[h] = "barrier"
        BY <1>19 DEF InBarrier
    <2>2. BarrierIInv' /\ BarrierTypeOK'
        BY <2>1, StepBarrierIInv DEF BootIInv, BarrierIInv
    <2>3. TypeOK' /\ PcInv' /\ SyncInv' /\ LockInv' /\ ChunkInv'
        BY <1>0, <1>19, <2>2 DEF InBarrier
    <2>4. /\ bpc \in [Hart -> BarrierPc] /\ round \in [Hart -> 0 .. 1]
          /\ \A g \in Hart \ {h} : bpc'[g] = bpc[g] /\ round'[g] = round[g]
          /\ bpc[h] = "out" => bpc'[h] = "arrive"
          /\ round'[h] = 1
        BY <1>0, <2>1, NAssumption DEF BarrierStep, Inside, Toggle, Arrive, Reset,
            Release, Spin, BStep, BarrierTypeOK, BarrierPc
    <2>5. HelloInv'
        BY <1>0, <1>19, <2>1, <2>4 DEF InBarrier
    <2> QED BY <2>2, <2>3, <2>5 DEF BootIInv
<1>20. CASE UNCHANGED vars
    BY <1>0, <1>20, OutsideBarrier DEF vars, BootIInv, BarrierIdle
<1> QED BY <1>1, <1>2, <1>3, <1>4, <1>5, <1>6, <1>7, <1>8, <1>9, <1>10, <1>11, <1>12, <1>13,
          <1>14, <1>15, <1>16, <1>17, <1>18, <1>19, <1>20
       DEF Next, Server, BootHart, HartStep

\* The invariant holds in every reachable state.
THEOREM BootInvariant == Safety => []BootIInv
<1>1. Init => BootIInv
    BY InitBootIInv
<1>2. BootIInv /\ [Next]_vars => BootIInv'
    BY NextBootIInv
<1> QED BY <1>1, <1>2, PTL DEF Safety

\* Every variable keeps its type; the loops of the boot ROM and of
\* wakeup_other_harts stay within the CLINT's words.
THEOREM TypeTheorem == Safety => []TypeOK
<1>1. BootIInv => TypeOK
    BY DEF BootIInv
<1> QED BY <1>1, BootInvariant, PTL

-----------------------------------------------------------------------------
\* No hart is in the program before the handlers are registered
\* (soctglue.c:107-114, 134-175), on RV32 and RV64.
THEOREM InitBeforeMainTheorem == Safety => []InitBeforeMain
<1>1. BootIInv => InitBeforeMain
    BY DEF BootIInv, SyncInv, InitBeforeMain
<1> QED BY <1>1, BootInvariant, PTL

\* print_lock keeps the harts apart in vprintf (main.c:42-63).
THEOREM PrintExclusiveTheorem == Safety => []PrintExclusive
<1>1. BootIInv => PrintExclusive
    BY DEF BootIInv, LockInv, PrintExclusive
<1> QED BY <1>1, BootInvariant, PTL

\* Behind the barrier all harts have printed (main.c:157-158): the boot hart has
\* completed the only round, so that every hart is counted in for it, and a hart
\* is counted in only after its hello.
THEOREM AllPrintedTheorem == Safety => []AllPrinted
<1>1. BootIInv => AllPrinted
    <2> SUFFICES ASSUME BootIInv, pc[0] \in {"exiting", "exited"} PROVE printed = Hart
        BY DEF AllPrinted
    <2>1. TypeOK /\ BarrierTypeOK /\ HelloInv /\ NobodyPassesEarly
        BY StageMeets DEF BootIInv, TypeOK
    <2>2. bpc[0] = "out" /\ round[0] = 1
        BY <2>1, HartFacts DEF HelloInv
    <2>3. \A h \in Hart : round[h] > 0
        BY <2>1, <2>2, HartFacts DEF NobodyPassesEarly, BarrierTypeOK
    <2> QED BY <2>1, <2>3 DEF HelloInv, TypeOK
<1> QED BY <1>1, BootInvariant, PTL

-----------------------------------------------------------------------------
(* interrupt_loop on RV32: while hart 0 is in it MSIP[0] is set, which keeps  *)
(* the others in the ROM, so that nobody takes back a word it has raised.     *)

RaiseInv ==
    /\ pc[0] = "wfi" => /\ a2 = 1
                        /\ host > 0 => msip[0] = 1
                        /\ \A h \in Hart : msip[h] = 1 \/ pc[h] # "wfi" => host > 0
    /\ pc[0] \in {"raise", "reload"} => msip[0] = 1
    /\ pc[0] \in {"wfi", "raise", "reload"} =>
           \A h \in Hart \ {0} : pc[h] \in {"wfi", "rom_wait"}
    /\ pc[0] = "reload" /\ a2 < N => msip[a2] = 1
    /\ pc[0] \notin {"wfi", "raise", "reload"} => a2 = N

\* Every step preserves it.
LEMMA NextRaiseInv ==
    ASSUME BootIInv, RaiseInv, [Next]_vars, ChunkWords = 1 PROVE RaiseInv'
<1> USE HartFacts
    DEF RaiseInv, TypeOK, PcInv, ChunkInv, BootOnly, OtherOnly, clint, prog, Step, SetMsip
<1>0. TypeOK /\ PcInv /\ ChunkInv
    BY DEF BootIInv
<1>1. CASE HostRead
    BY <1>0, <1>1 DEF HostRead
<1>2. CASE HostWrite
    <2>1. \A h \in Hart : h \div ChunkWords = h
        BY SMT
    <2>2. host \div ChunkWords = host
        BY <1>0, SMT
    <2>3. msip' = [h \in Hart |-> IF h = host THEN 1 ELSE msip[h]]
        BY <1>0, <1>2, <2>1, <2>2 DEF HostWrite
    <2> QED BY <1>0, <1>2, <2>3 DEF HostWrite
<1>3. CASE Raise
    BY <1>0, <1>3 DEF Raise
<1>4. CASE Reload
    BY <1>0, <1>4 DEF Reload
<1>5. CASE \/ ZeroBss \/ StartMain \/ ReleaseSync \/ CountHarts \/ Wakeup \/ WakeupDone
    BY <1>0, <1>5 DEF ZeroBss, StartMain, ReleaseSync, CountHarts, Wakeup, WakeupDone
<1>6. ASSUME NEW h \in Hart, TakeMsip(h) PROVE RaiseInv'
    BY <1>0, <1>6 DEF TakeMsip
<1>7. ASSUME NEW h \in Hart, RomWait(h) PROVE RaiseInv'
    BY <1>0, <1>7 DEF RomWait
<1>8. ASSUME NEW h \in Hart, RomClear(h) PROVE RaiseInv'
    BY <1>0, <1>8 DEF RomClear
<1>9. ASSUME NEW h \in Hart, StartSecondary(h) \/ WaitMsip(h) \/ ClearMsip(h) PROVE RaiseInv'
    BY <1>0, <1>9 DEF StartSecondary, WaitMsip, ClearMsip
<1>10. ASSUME NEW h \in Hart, LockPrint(h) \/ UnlockPrint(h) PROVE RaiseInv'
    BY <1>0, <1>10 DEF LockPrint, UnlockPrint
<1>11. ASSUME NEW h \in Hart, InBarrier(h) PROVE RaiseInv'
    BY <1>0, <1>11 DEF InBarrier
<1>12. CASE UNCHANGED vars
    BY <1>0, <1>12 DEF vars
<1> QED BY <1>1, <1>2, <1>3, <1>4, <1>5, <1>6, <1>7, <1>8, <1>9, <1>10, <1>11, <1>12
       DEF Next, Server, BootHart, HartStep

\* On RV32 interrupt_loop (bootrom.S:15-19) raises the MSIP of every hart.
THEOREM AllRaisedTheorem == ChunkWords = 1 /\ Safety => []AllRaised
<1>1. Init => RaiseInv
    BY HartFacts DEF Init, RaiseInv
<1>2. ChunkWords = 1 /\ BootIInv /\ RaiseInv /\ [Next]_vars => RaiseInv'
    BY NextRaiseInv
<1>3. RaiseInv => AllRaised
    BY DEF RaiseInv, AllRaised
<1>4. CASE ChunkWords = 1
    <2>1. BootIInv /\ RaiseInv /\ [Next]_vars => RaiseInv'
        BY <1>2, <1>4
    <2> QED BY <1>1, <1>3, <2>1, BootInvariant, PTL DEF Safety
<1> QED BY <1>4

-----------------------------------------------------------------------------
(* Who can have raised the MSIP that a hart behind the ROM finds: the ROM's    *)
(* raise comes while the hart is in the ROM (RaiseInv), which takes it back.   *)

WokenInv ==
    \A h \in Hart \ {0} :
        \/ pc[h] \in {"msip_clear", "hello", "barrier", "done"}
        \/ pc[h] \in {"boot_sync", "msip_wait"} /\ msip[h] = 1
        => h < hart \/ h < host

\* Every step preserves it.
LEMMA NextWokenInv ==
    ASSUME BootIInv, RaiseInv, WokenInv, [Next]_vars, ChunkWords = 1 PROVE WokenInv'
<1> USE HartFacts
    DEF WokenInv, TypeOK, PcInv, ChunkInv, BootOnly, OtherOnly, clint, prog, Step, SetMsip
<1>0. TypeOK /\ PcInv /\ ChunkInv
    BY DEF BootIInv
<1>1. CASE HostRead
    BY <1>0, <1>1 DEF HostRead
<1>2. CASE HostWrite
    <2>1. \A h \in Hart : h \div ChunkWords = h
        BY SMT
    <2>2. host \div ChunkWords = host
        BY <1>0, SMT
    <2>3. msip' = [h \in Hart |-> IF h = host THEN 1 ELSE msip[h]]
        BY <1>0, <1>2, <2>1, <2>2 DEF HostWrite
    <2> QED BY <1>0, <1>2, <2>3 DEF HostWrite
<1>3. CASE Raise
    BY <1>0, <1>3 DEF Raise, RaiseInv
<1>4. CASE Reload
    BY <1>0, <1>4 DEF Reload
<1>5. CASE \/ ZeroBss \/ StartMain \/ ReleaseSync \/ CountHarts \/ Wakeup \/ WakeupDone
    BY <1>0, <1>5 DEF ZeroBss, StartMain, ReleaseSync, CountHarts, Wakeup, WakeupDone
<1>6. ASSUME NEW h \in Hart, TakeMsip(h) PROVE WokenInv'
    BY <1>0, <1>6 DEF TakeMsip
<1>7. ASSUME NEW h \in Hart, RomWait(h) PROVE WokenInv'
    BY <1>0, <1>7 DEF RomWait
<1>8. ASSUME NEW h \in Hart, RomClear(h) PROVE WokenInv'
    BY <1>0, <1>8 DEF RomClear
<1>9. ASSUME NEW h \in Hart, StartSecondary(h) \/ WaitMsip(h) \/ ClearMsip(h) PROVE WokenInv'
    BY <1>0, <1>9 DEF StartSecondary, WaitMsip, ClearMsip
<1>10. ASSUME NEW h \in Hart, LockPrint(h) \/ UnlockPrint(h) PROVE WokenInv'
    BY <1>0, <1>10 DEF LockPrint, UnlockPrint
<1>11. ASSUME NEW h \in Hart, InBarrier(h) PROVE WokenInv'
    BY <1>0, <1>11 DEF InBarrier
<1>12. CASE UNCHANGED vars
    BY <1>0, <1>12 DEF vars
<1> QED BY <1>1, <1>2, <1>3, <1>4, <1>5, <1>6, <1>7, <1>8, <1>9, <1>10, <1>11, <1>12
       DEF Next, Server, BootHart, HartStep

\* On RV32 the ROM's wake-up never counts as main's (main.c:106, bootrom.S:54).
THEOREM WokenTheorem == ChunkWords = 1 /\ Safety => []WokenByMain
<1>1. Init => RaiseInv /\ WokenInv
    BY HartFacts DEF Init, RaiseInv, WokenInv
<1>2. WokenInv => WokenByMain
    BY DEF WokenInv, WokenByMain
<1>3. CASE ChunkWords = 1
    <2>1. BootIInv /\ RaiseInv /\ WokenInv /\ [Next]_vars => RaiseInv' /\ WokenInv'
        BY <1>3, NextRaiseInv, NextWokenInv
    <2> QED BY <1>1, <1>2, <2>1, BootInvariant, PTL DEF Safety
<1> QED BY <1>3
=============================================================================
