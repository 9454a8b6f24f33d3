----------------------------- MODULE SdcDriver -----------------------------
(***************************************************************************)
(* The Linux driver of the SD-card controller                              *)
(* (src/binaries/linux/drivers/sdc/fpga-axi-sdc.c) on top of Sdc.          *)
(*                                                                         *)
(* sdc_request, sdc_set_ios and sdc_isr each run under host->lock with     *)
(* interrupts off, so the driver is one sequential program whose steps are *)
(* its register accesses, with card clocks and AXI bursts in between.  The *)
(* mmc core gives it one request at a time and may power-cycle the slot    *)
(* between two requests.                                                   *)
(***************************************************************************)
EXTENDS Sdc

CONSTANTS
    MaxReq,    \* bound: requests the mmc core makes
    Kinds,     \* the requests it makes: [data, busy, sbc, stop]
    Deadline   \* 2 * CMD_TIMEOUT_MS in card clocks

Request == 1 .. MaxReq

ASSUME RequestAssumption == MaxReq \in Nat /\ None \notin Request
ASSUME KindsAssumption ==
    Kinds \subseteq [data : {"none", "read", "write"}, busy : BOOLEAN,
                     sbc : BOOLEAN, stop : BOOLEAN]
\* The software deadline is twice the hardware's: it leaves a command every
\* clock the command master can need to start and to time out.
ASSUME DeadlineAssumption == Deadline \in Nat /\ Deadline > CmdTimeout + 3

VARIABLES
    pc,          \* where the driver is; "idle" when the lock is free
    issued,      \* requests made so far
    mrq,         \* host->mrq: the request being served, or None
    kind,        \* what that request is
    phase,       \* which of its commands is sent: "sbc", "cmd" or "stop"
    data,        \* host->data: the request whose data phase runs, or None
    status,      \* the command status sdc_cmd_finish read
    data_status, \* the data status sdc_isr read
    elapsed,     \* card clocks since the poll began, up to Deadline
    mapped,      \* buffers handed to the device by dma_map_sg
    result,      \* of the last request: "none" until mmc_request_done, then
                 \* "ok" when no command and no data of it has its error set
    moved,       \* buffers on which a data phase completed without an error
                 \* since that request was made
    abandoned    \* since the last controller reset a request was given back
                 \* while the controller was still at work on it

request == <<issued, mrq, kind, data, result, mapped, abandoned>>
drv == <<pc, request, phase, status, data_status, elapsed, moved>>
vars == <<hw, drv>>

Cmd == <<mrq, phase>>
HasData == phase = "cmd" /\ kind.data # "none"

NoKind == [data |-> "none", busy |-> FALSE, sbc |-> FALSE, stop |-> FALSE]

DriverInit ==
    /\ Init
    /\ pc = "idle" /\ issued = 0 /\ mrq = None /\ data = None
    /\ kind = NoKind
    /\ phase = "cmd" /\ status = {} /\ data_status = {} /\ elapsed = 0
    /\ mapped = {} /\ moved = {} /\ abandoned = FALSE
    /\ result = "none"

-----------------------------------------------------------------------------
(* sdc_request and sdc_send_cmd.                                           *)

\* The controller has nothing left to do or to report.
Quiet ==
    /\ cmd_master.state = "IDLE" /\ cmd_master.int_status = {}
    /\ data_master.state = "IDLE" /\ data_master.int_status = {}
    /\ ResetReg = {} /\ starter = StarterReset
    /\ ~Enabled(data_master) /\ ~Moving

\* mmc_request_done, after the buffer, if it was mapped, is unmapped.  What the
\* driver knew of the request is dead from here on; the model clears it.
Done(outcome) ==
    /\ mapped' = mapped \ {mrq}
    /\ result' = outcome
    /\ abandoned' = (abandoned \/ ~Quiet)
    /\ mrq' = None /\ data' = None /\ kind' = NoKind /\ phase' = "cmd"
    /\ data_status' = {}
    /\ pc' = "idle"
    /\ UNCHANGED <<hw, issued>>

sdc_request(k) ==
    /\ pc = "idle" /\ mrq = None /\ issued < MaxReq
    /\ issued' = issued + 1 /\ mrq' = issued + 1
    /\ kind' = k
    /\ data' = None /\ result' = "none" /\ moved' = {}
    /\ phase' = IF k.sbc THEN "sbc" ELSE "cmd"
    /\ pc' = "setup"
    /\ UNCHANGED <<hw, mapped, abandoned, status, data_status, elapsed>>

\* The buffer does not map to one segment, or sdc_setup_data_xfer refuses it.
RefuseData ==
    /\ pc = "setup" /\ HasData
    /\ Done("error")
    /\ UNCHANGED <<status, elapsed, moved>>

\* The registers before the argument.  CMD12 is an R1b command.
Setup ==
    /\ pc = "setup"
    /\ WriteRegs([regs EXCEPT
            !.command = [cmd |-> Cmd, data |-> IF HasData THEN kind.data ELSE "none",
                         busy |-> phase = "stop" \/ (phase = "cmd" /\ kind.busy)],
            !.dma_addr = IF HasData THEN mrq ELSE @])
    /\ mapped' = IF HasData THEN mapped \cup {mrq} ELSE mapped
    /\ pc' = "start"
    /\ UNCHANGED <<issued, mrq, kind, data, result, abandoned, phase, status, data_status,
                   elapsed, moved>>

Start ==
    /\ pc = "start"
    /\ WriteArgument
    /\ pc' = "poll"
    /\ UNCHANGED <<request, phase, status, data_status, elapsed, moved>>

DataOutcome == IF data_status = {"CC"} THEN "ok" ELSE "error"

\* sdc_send_cmd returns.  A data command that failed gives its buffer back at
\* once; one that succeeded leaves the rest to the interrupt handler.
SendReturns(ok) ==
    \/ phase \in {"sbc", "cmd"} /\ ~ok /\ Done("error")
    \/ /\ phase = "sbc" /\ ok
       /\ phase' = "cmd" /\ pc' = "setup"
       /\ UNCHANGED <<hw, request, data_status>>
    \/ phase = "cmd" /\ ok /\ ~HasData /\ Done("ok")
    \/ /\ HasData /\ ok
       /\ data' = mrq
       /\ WriteRegs([regs EXCEPT !.data_int_enable = TRUE])
       /\ pc' = "idle"
       /\ UNCHANGED <<phase, issued, mrq, kind, result, mapped, abandoned, data_status>>
    \/ phase = "stop" /\ Done(IF ok THEN DataOutcome ELSE "error")

\* sdc_cmd_finish sees a status and clears it.
Poll ==
    /\ pc = "poll" /\ cmd_int_status # {}
    /\ status' = cmd_int_status
    /\ WriteRegs([regs EXCEPT !.cmd_int_rst = TRUE])
    /\ elapsed' = 0
    /\ pc' = "finish"
    /\ UNCHANGED <<request, phase, data_status, moved>>
\* Mutant: sdc_cmd_finish does not wait for the clear.
FinishAtOnce ==
    /\ pc = "finish"
    /\ SendReturns(status = {"CC"})
    /\ status' = {}
    /\ UNCHANGED <<elapsed, moved>>

\* The clear has taken effect: only a bare CC is a success.
Finish ==
    /\ pc = "finish" /\ ResetReg = {}
    /\ SendReturns(status = {"CC"})
    /\ status' = {}
    /\ UNCHANGED <<elapsed, moved>>

\* No status within the deadline: nothing is cleared, nothing is stopped.
Expire ==
    /\ pc = "poll" /\ cmd_int_status = {} /\ elapsed >= Deadline
    /\ SendReturns(FALSE)
    /\ elapsed' = 0
    /\ UNCHANGED <<status, moved>>

-----------------------------------------------------------------------------
(* sdc_isr.                                                                *)

\* The handler reads the data status whichever interrupt it was called for.
IsrEntry ==
    /\ pc = "idle" /\ data_int_status # {}
    /\ data_status' = data_int_status
    /\ WriteRegs([regs EXCEPT !.data_int_enable = FALSE, !.data_int_rst = TRUE])
    /\ pc' = "isr"
    /\ UNCHANGED <<request, phase, status, elapsed, moved>>

DataInterrupt == regs.data_int_enable /\ IsrEntry

CardDetectInterrupt == ~regs.data_int_enable /\ IsrEntry

IsrStop ==
    /\ pc = "isr" /\ ResetReg = {} /\ data # None /\ kind.stop
    /\ phase' = "stop"
    /\ pc' = "setup"
    /\ UNCHANGED <<hw, request, status, data_status, elapsed, moved>>

IsrDone ==
    /\ pc = "isr" /\ ResetReg = {} /\ data # None /\ ~kind.stop
    /\ Done(DataOutcome)
    /\ UNCHANGED <<status, elapsed, moved>>

\* A data status nobody waits for is cleared and dropped.
IsrSpurious ==
    /\ pc = "isr" /\ ResetReg = {} /\ data = None
    /\ pc' = "idle" /\ data_status' = {}
    /\ UNCHANGED <<hw, request, phase, status, elapsed, moved>>

-----------------------------------------------------------------------------
(* sdc_set_ios with MMC_POWER_UP: sdc_reset_locked.                        *)

ResetStep(from, to, r) ==
    /\ pc = from /\ pc' = to
    /\ WriteRegs(r)
    /\ UNCHANGED <<request, phase, status, data_status, elapsed, moved>>

ResetAssert ==
    /\ mrq = None
    /\ ResetStep("idle", "asserted", [regs EXCEPT !.software_reset = TRUE])

ResetRelease ==
    /\ "ctrl_rst" \in ResetReg
    /\ ResetStep("asserted", "released", [regs EXCEPT !.software_reset = FALSE])

\* udelay(10000) outlasts the pull-up of the command line.
ResetClear ==
    /\ ResetReg = {} /\ cmd_host.state # "INIT"
    /\ ResetStep("released", "cleared",
                 [regs EXCEPT !.data_int_enable = FALSE, !.cmd_int_rst = TRUE,
                              !.data_int_rst = TRUE])

ResetDone ==
    /\ pc = "cleared" /\ ResetReg = {}
    /\ pc' = "idle"
    /\ abandoned' = FALSE
    /\ UNCHANGED <<hw, issued, mrq, kind, data, result, mapped, phase, status, data_status,
                   elapsed, moved>>

-----------------------------------------------------------------------------
(* The system.                                                             *)

Clock ==
    /\ SdClock
    /\ elapsed' = IF pc = "poll" /\ elapsed < Deadline THEN elapsed + 1 ELSE elapsed
    /\ moved' = IF TransferCompletes THEN moved \cup {axi.adr} ELSE moved
    /\ UNCHANGED <<pc, request, phase, status, data_status>>

Axi == (AxiBurst \/ AxiLast \/ AxiResponse) /\ UNCHANGED drv

Driver ==
    \/ RefuseData \/ Setup \/ Start \/ Poll \/ Finish \/ Expire
    \/ DataInterrupt \/ IsrStop \/ IsrDone \/ IsrSpurious
    \/ ResetRelease \/ ResetClear \/ ResetDone

Next ==
    \/ Driver \/ Clock \/ Axi
    \/ CardDetectInterrupt \/ ResetAssert
    \/ \E k \in Kinds : sdc_request(k)

Safety == DriverInit /\ [][Next]_vars

\* The card clock runs, the memory ends every burst, and the driver's code and
\* its enabled interrupt run.  Nothing is assumed of the card.
Spec == Safety /\ WF_vars(Driver) /\ WF_vars(Clock) /\ WF_vars(Axi)

-----------------------------------------------------------------------------
(* Properties *)

\* The registers of the controller and the driver's state; both watchdogs stop
\* at their limit.
TypeOK ==
    /\ pc \in {"idle", "setup", "start", "poll", "finish", "isr",
               "asserted", "released", "cleared"}
    /\ phase \in {"sbc", "cmd", "stop"}
    /\ mrq \in Request \cup {None} /\ data \in {None, mrq}
    /\ cmd_master.state \in {"IDLE", "EXECUTE", "BUSY_CHECK"}
    /\ cmd_master.watchdog \in 0 .. CmdTimeout
    /\ cmd_host.state \in {"INIT", "IDLE", "XFER"}
    /\ data_master.state \in {"IDLE", "START_RX_FIFO", "START_TX_FIFO", "DATA_TRANSFER"}
    /\ data_master.watchdog \in 0 .. DataTimeout
    /\ fifo \in 0 .. FifoSize
    /\ axi.cyc \in {"none", "read", "write"}
    /\ axi.adr \in Request \cup {None}
    /\ mapped \subseteq Request

\* sdc_cmd_finish takes a status and a response for those of the command it
\* has just started, though nothing in the registers says whose they are
\* (fpga-axi-sdc.c:177-199).  The status cleared for one command, and the clear
\* pulse itself, must be gone before the next one is started.
ResponseIsOwn ==
    pc = "finish" /\ status = {"CC"} /\ ~abandoned => cmd_master.response = Cmd

\* When sdc_isr reports a transfer as complete (fpga-axi-sdc.c:443), the
\* controller has moved that very buffer without an error: not the one before
\* it, and not with a CRC or bus error that the status word lost.
DataSuccessIsReal ==
    pc = "isr" /\ data # None /\ data_status = {"CC"} /\ ~abandoned => data \in moved

\* The controller masters the bus only on a buffer that dma_map_sg has handed to
\* it and dma_unmap_sg has not taken back, as long as every request so far was
\* given back with the controller quiet.
BufferOwned == ~abandoned /\ Moving => axi.adr \in mapped

\* A request that succeeds is given back with nothing of it left in the
\* controller: no engine running, no burst on the bus, no status pending.  The
\* driver never checks that; it relies on the order in which the controller
\* raises the two completion bits (axi_sdc_controller.v:486-487).
SuccessLeavesQuiet ==
    [][mrq # None /\ mrq' = None /\ result' = "ok" /\ ~abandoned => ~abandoned']_vars

\* "The unmap is what hands the buffer back to the CPU" and it comes after the
\* device side has finished delivering (fpga-axi-sdc.c:451-455).
BufferMapped == Moving => axi.adr \in mapped

\* "The hardware watchdog fires first whenever it is armed"
\* (fpga-axi-sdc.c:172-174): the software deadline ends a poll only while the
\* command master waits in BUSY_CHECK, the one state that has no watchdog.
WatchdogFirst ==
    pc = "poll" /\ elapsed >= Deadline /\ cmd_int_status = {}
        => cmd_master.state = "BUSY_CHECK"

\* Every request is completed while none before it was abandoned: no answer, a
\* card held busy, a card pulled out in the middle of a transfer, all end in
\* mmc_request_done.
EveryRequestDone == mrq # None /\ ~abandoned ~> mrq = None

\* A transfer is bounded by the watchdogs (fpga-axi-sdc.c:227-231), also after
\* a request that the software deadline ended.
TransferBounded == mrq # None ~> mrq = None
=============================================================================
