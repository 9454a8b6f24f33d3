-------------------------------- MODULE Boot --------------------------------
(***************************************************************************)
(* From reset to the end of main in a simulation with several harts: the   *)
(* server's dtm_t::reset, the boot ROM msip-boot, crt0.S and soctglue.c,   *)
(* and the program hello-hart, whose barrier is module Barrier.  The harts *)
(* and the server meet in the MSIP words of the CLINT and in memory; every *)
(* access to either is a step.                                             *)
(***************************************************************************)
EXTENDS Barrier, Integers

CONSTANTS
    N,          \* the number of harts
    ChunkWords  \* 32-bit words per debug access: 1 on RV32, 2 on RV64

ASSUME NAssumption == N \in Nat \ {0} /\ Hart = 0 .. N - 1 /\ MaxRounds = 1
ASSUME ChunkAssumption == ChunkWords \in {1, 2}

VARIABLES
    msip,        \* the MSIP word of each hart
    host,        \* the hart whose MSIP the server raises next
    chunk,       \* the words the server read and will write back, or none read
    pc,          \* where each hart is
    a2,          \* the hart whose MSIP interrupt_loop writes next
    boot_sync,   \* __boot_sync
    registered,  \* _soct_start_main has registered the handlers
    hart,        \* the loop variable of wakeup_other_harts
    print_lock,  \* 0 or 1
    printing,    \* the harts between lock_print and unlock_print
    printed      \* the harts that have printed their hello

clint == <<msip, host, chunk>>
prog == <<boot_sync, registered, hart, print_lock, printing, printed>>
vars == <<clint, pc, a2, prog, bVars>>

RomPc == {"wfi", "raise", "reload", "rom_wait", "rom_clear"}
StartPc == {"bss", "start_main", "release_sync", "boot_sync"}
MainPc == {"main", "detect", "hello", "wakeup", "barrier", "exiting", "exited",
           "msip_wait", "msip_clear", "done"}

TypeOK ==
    /\ BarrierTypeOK
    /\ msip \in [Hart -> {0, 1}] /\ host \in 0 .. N
    /\ chunk \in [Hart -> {0, 1}] \cup {<<>>}
    /\ pc \in [Hart -> RomPc \cup StartPc \cup MainPc]
    /\ a2 \in 1 .. N /\ hart \in 1 .. N
    /\ boot_sync \in {0, -1} /\ print_lock \in {0, 1}
    /\ registered \in BOOLEAN
    /\ printing \subseteq Hart /\ printed \subseteq Hart

\* The program is loaded, its BSS zero; every hart is in the ROM's wfi_loop.
Init ==
    /\ BarrierIdle /\ n_harts = 0
    /\ msip = [h \in Hart |-> 0] /\ host = 0 /\ chunk = <<>>
    /\ pc = [h \in Hart |-> "wfi"] /\ a2 = 1
    /\ boot_sync = 0 /\ registered = FALSE /\ hart = 1
    /\ print_lock = 0 /\ printing = {} /\ printed = {}

Step(h, from, to) == pc[h] = from /\ pc' = [pc EXCEPT ![h] = to]
SetMsip(h, v) == msip' = [msip EXCEPT ![h] = v]

-----------------------------------------------------------------------------
(* The server: dtm_t::reset raises every MSIP, in order.  A debug access    *)
(* moves ChunkWords words, so dtm_t::write reads the chunk around the word *)
(* first and writes all of it back.  A write of a whole chunk reads        *)
(* nothing; with ChunkWords = 1 the values read here are not used.         *)

HostRead ==
    /\ host < N /\ chunk = <<>>
    /\ chunk' = msip
    /\ UNCHANGED <<msip, host, pc, a2, prog, bVars>>

HostWrite ==
    /\ chunk # <<>>
    /\ msip' = [h \in Hart |-> IF h = host THEN 1
                               ELSE IF h \div ChunkWords = host \div ChunkWords
                                    THEN chunk[h] ELSE msip[h]]
    /\ host' = host + 1 /\ chunk' = <<>>
    /\ UNCHANGED <<pc, a2, prog, bVars>>

-----------------------------------------------------------------------------
(* The boot ROM *)

TakeMsip(h) ==
    /\ msip[h] = 1
    /\ Step(h, "wfi", IF h = 0 THEN "raise" ELSE "rom_wait")
    /\ UNCHANGED <<clint, a2, prog, bVars>>

\* interrupt_loop: the word behind the last hart ignores the store and reads
\* as zero, which ends the loop.
Raise ==
    /\ Step(0, "raise", "reload")
    /\ msip' = IF a2 < N THEN [msip EXCEPT ![a2] = 1] ELSE msip
    /\ UNCHANGED <<host, chunk, a2, prog, bVars>>

Reload ==
    LET more == a2 < N /\ msip[a2] # 0 IN
    /\ Step(0, "reload", IF more THEN "raise" ELSE "rom_clear")
    /\ a2' = IF more THEN a2 + 1 ELSE a2
    /\ UNCHANGED <<clint, prog, bVars>>

\* Mutant: the other harts do not wait for hart 0.
RomWaitNot(h) ==
    /\ h # 0 /\ Step(h, "rom_wait", "rom_clear")
    /\ UNCHANGED <<clint, a2, prog, bVars>>

RomWait(h) ==
    /\ h # 0 /\ msip[0] = 0 /\ Step(h, "rom_wait", "rom_clear")
    /\ UNCHANGED <<clint, a2, prog, bVars>>

\* Mutant: every hart leaves its MSIP set.
RomClearNot(h) ==
    /\ Step(h, "rom_clear", IF h = 0 THEN "bss" ELSE "boot_sync")
    /\ UNCHANGED <<clint, a2, prog, bVars>>

\* Mutant: only the boot hart takes its wake-up back.
RomClearBootHart(h) ==
    /\ Step(h, "rom_clear", IF h = 0 THEN "bss" ELSE "boot_sync")
    /\ SetMsip(h, IF h = 0 THEN 0 ELSE msip[h])
    /\ UNCHANGED <<host, chunk, a2, prog, bVars>>

RomClear(h) ==
    /\ Step(h, "rom_clear", IF h = 0 THEN "bss" ELSE "boot_sync")
    /\ SetMsip(h, 0)
    /\ UNCHANGED <<host, chunk, a2, prog, bVars>>

-----------------------------------------------------------------------------
(* crt0.S and soctglue.c *)

ZeroBss ==
    /\ Step(0, "bss", "start_main")
    /\ boot_sync' = 0 /\ print_lock' = 0 /\ n_harts' = 0
    /\ barrier_count' = 0 /\ barrier_sense' = 0
    /\ local_sense' = [h \in Hart |-> 0]
    /\ UNCHANGED <<clint, a2, registered, hart, printing, printed, bpc, round>>

\* _soct_start_main up to the release: device tree, handlers, main arguments.
StartMain ==
    /\ Step(0, "start_main", "release_sync")
    /\ registered' = TRUE
    /\ UNCHANGED <<clint, a2, boot_sync, hart, print_lock, printing, printed, bVars>>

ReleaseSync ==
    /\ Step(0, "release_sync", "main")
    /\ boot_sync' = -1
    /\ UNCHANGED <<clint, a2, registered, hart, print_lock, printing, printed, bVars>>

\* Mutant: _soct_start_secondary does not wait.
StartSecondaryAtOnce(h) ==
    /\ Step(h, "boot_sync", "msip_wait")
    /\ UNCHANGED <<clint, a2, prog, bVars>>

StartSecondary(h) ==
    /\ boot_sync # 0 /\ Step(h, "boot_sync", "msip_wait")
    /\ UNCHANGED <<clint, a2, prog, bVars>>

-----------------------------------------------------------------------------
(* hello-hart *)

\* soct_n_harts counts the cpu nodes of the device tree.
CountHarts ==
    /\ Step(0, "main", "detect")
    /\ n_harts' = N
    /\ UNCHANGED <<clint, a2, prog, barrier_count, barrier_sense, local_sense,
                   bpc, round>>

\* The swap that finds 0; any other leaves the 1 where it was.
LockPrint(h) ==
    /\ pc[h] \in {"detect", "hello", "exiting"} /\ h \notin printing
    /\ print_lock = 0
    /\ print_lock' = 1 /\ printing' = printing \cup {h}
    /\ UNCHANGED <<clint, pc, a2, boot_sync, registered, hart, printed, bVars>>

UnlockPrint(h) ==
    /\ h \in printing
    /\ \/ Step(h, "detect", "hello") /\ UNCHANGED printed
       \/ /\ Step(h, "hello", IF h = 0 THEN "wakeup" ELSE "barrier")
          /\ printed' = printed \cup {h}
       \/ Step(h, "exiting", "exited") /\ UNCHANGED printed
    /\ print_lock' = 0 /\ printing' = printing \ {h}
    /\ UNCHANGED <<clint, a2, boot_sync, registered, hart, bVars>>

\* wakeup_other_harts
Wakeup ==
    /\ hart < n_harts /\ Step(0, "wakeup", "wakeup")
    /\ SetMsip(hart, 1)
    /\ hart' = hart + 1
    /\ UNCHANGED <<host, chunk, a2, boot_sync, registered, print_lock, printing,
                   printed, bVars>>

WakeupDone ==
    /\ hart >= n_harts /\ Step(0, "wakeup", "barrier")
    /\ UNCHANGED <<clint, a2, prog, bVars>>

\* The other harts' __main
WaitMsip(h) ==
    /\ msip[h] # 0 /\ Step(h, "msip_wait", "msip_clear")
    /\ UNCHANGED <<clint, a2, prog, bVars>>

ClearMsip(h) ==
    /\ Step(h, "msip_clear", "hello")
    /\ SetMsip(h, 0)
    /\ UNCHANGED <<host, chunk, a2, prog, bVars>>

\* barrier(); then main returns into exit, and the others wait for interrupts.
InBarrier(h) ==
    /\ pc[h] = "barrier" /\ BarrierStep(h)
    /\ pc' = [pc EXCEPT ![h] = IF bpc'[h] # "out" THEN "barrier"
                               ELSE IF h = 0 THEN "exiting" ELSE "done"]
    /\ UNCHANGED <<clint, a2, prog>>

-----------------------------------------------------------------------------
Server == HostRead \/ HostWrite

BootHart == \/ Raise \/ Reload \/ ZeroBss \/ StartMain \/ ReleaseSync
            \/ CountHarts \/ Wakeup \/ WakeupDone

HartStep(h) == \/ TakeMsip(h) \/ RomWait(h) \/ RomClear(h) \/ StartSecondary(h)
               \/ LockPrint(h) \/ UnlockPrint(h) \/ WaitMsip(h) \/ ClearMsip(h)
               \/ InBarrier(h)

Next == Server \/ BootHart \/ \E h \in Hart : HartStep(h)

Safety == Init /\ [][Next]_vars

\* The server and every hart keep running.  Nobody needs more of print_lock: it
\* is taken only a few times, and a hart that goes on swapping outlasts them.
Spec == /\ Safety /\ WF_vars(Server) /\ WF_vars(BootHart)
        /\ \A h \in Hart : WF_vars(HartStep(h))

-----------------------------------------------------------------------------
(* Properties *)

\* Hart 0 leaves interrupt_loop (bootrom.S:15-19) only behind the last hart: the
\* read-back that ends the loop never sees a word that a woken hart has already
\* cleared.
AllRaised == pc[0] \notin {"wfi", "raise", "reload"} => a2 = N

\* No hart enters __main before the boot hart has registered the handlers
\* (soctglue.c:107-114, 134-175), although the harts arrive in the spin loop
\* before the BSS that holds __boot_sync is cleared.
InitBeforeMain == \A h \in Hart : pc[h] \in MainPc => registered

\* One hart at a time is in vprintf (main.c:42-63).
PrintExclusive == \A g, h \in printing : g = h

\* main returns only after every hart has printed (main.c:157-158), also when
\* the others came to the barrier before n_harts was set.
AllPrinted == pc[0] \in {"exiting", "exited"} => printed = Hart

\* "trigger MSIP interrupts for other harts so that they also boot"
\* (bootrom.S:15): every hart gets into the program.
EveryHartStarts == \A h \in Hart : <>(pc[h] \in MainPc)

\* "Waits until the primary hart raises its MSIP via wakeup_other_harts()"
\* (main.c:106): another hart goes on only when main has raised its MSIP or the
\* server, which raises the same word once and may be late, has.  The boot ROM's
\* own wake-up (bootrom.S:15-19) is never taken for main's.
WokenByMain ==
    \A h \in Hart \ {0} :
        pc[h] \in {"msip_clear", "hello", "barrier", "done"} => h < hart \/ h < host

\* "Hart 0 prints, wakes the other harts, waits until every hart has printed,
\* then returns." (main.c:157-158)
MainReturns == <>(pc[0] = "exited")
=============================================================================
