-------------------------------- MODULE Sdc --------------------------------
(***************************************************************************)
(* The AXI SD-card controller (src/src/main/resources/sdc).                *)
(*                                                                         *)
(* One SdClock step is one rising edge of the card clock (clock_posedge),  *)
(* on which the command master, the command line, the data master, the     *)
(* data lines and the logic that starts the data phase all step at once,   *)
(* each reading the others' old registers.  Register accesses and AXI      *)
(* bursts happen on the much faster fabric clock, so they are steps of     *)
(* their own, in between.  What the card does is a choice: it answers or   *)
(* not, correctly or not, holds DAT0 low, and sends or takes data.         *)
(*                                                                         *)
(* A command is known by the tag that stands for its index and argument, a *)
(* buffer by the tag that stands for its bus address.  The data FIFO is    *)
(* counted in bursts: 0 is empty, FifoSize is full.                        *)
(***************************************************************************)
EXTENDS Naturals

CONSTANTS
    CmdTimeout,   \* cmd_timeout register, in card clocks
    DataTimeout,  \* data_timeout register, in card clocks
    InitDelay,    \* card clocks the command line is pulled up after a reset
    FifoSize,     \* FIFO capacity
    None

\* A timeout of zero would disable its watchdog; the driver never writes one
\* (TimeoutTheorem of ArithProofs).
ASSUME TimeoutAssumption ==
    {CmdTimeout, DataTimeout} \subseteq Nat \ {0} /\ InitDelay \in Nat
ASSUME FifoAssumption == FifoSize \in Nat \ {0}

VARIABLES
    regs,         \* the register file, with the pulses that wait for clock_posedge
    cmd_master,   \* sd_cmd_master
    cmd_host,     \* sd_cmd_serial_host
    starter,      \* data_start_rx, data_start_tx, data_prepare_tx
    data_master,  \* sd_data_master
    data_host,    \* sd_data_serial_host
    fifo,         \* words in the data FIFO
    axi,          \* the AXI master: burst, write responses, error, address
    card          \* the card has been told to send data

hw == <<regs, cmd_master, cmd_host, starter, data_master, data_host, fifo, axi, card>>

-----------------------------------------------------------------------------
(* What the registers read as.                                             *)

cmd_int_status ==
    IF cmd_master.state = "IDLE" THEN cmd_master.int_status ELSE {}

Moving == axi.cyc # "none" \/ axi.bresp

Enabled(dm) == dm.en_rx \/ dm.en_tx
\* Mutant: the completion bit is not masked.
data_int_status_unmasked == data_master.int_status

\* The completion bit waits for the AXI side to be quiet, the error bits do not.
data_int_status ==
    IF Enabled(data_master) \/ Moving
    THEN data_master.int_status \ {"CC"} ELSE data_master.int_status

\* The reset register reads back every pulse not yet seen by the card clock.
ResetReg == {f \in {"cmd_start", "data_int_rst", "cmd_int_rst", "ctrl_rst"} : regs[f]}

-----------------------------------------------------------------------------
(* The blocks under reset.                                                 *)

CmdMasterReset == [state |-> "IDLE", int_status |-> {}, watchdog |-> 0,
                   start_xfr |-> FALSE, go_idle |-> FALSE,
                   cmd |-> None, response |-> None]
CmdHostReset == [state |-> "INIT", counter |-> 0, finish |-> FALSE, bad |-> FALSE]
StarterReset == [rx |-> FALSE, tx |-> FALSE, prepare_tx |-> FALSE]
DataMasterReset == [state |-> "IDLE", int_status |-> {}, watchdog |-> 0,
                    en_rx |-> FALSE, en_tx |-> FALSE,
                    d_read |-> FALSE, d_write |-> FALSE]
DataHostReset == [busy |-> FALSE, crc_ok |-> FALSE]
AxiReset == [cyc |-> "none", bresp |-> FALSE, error |-> FALSE, adr |-> None]

\* The state in which software takes the controller over: out of reset.
Init ==
    /\ regs = [command |-> [cmd |-> None, data |-> "none", busy |-> FALSE],
               software_reset |-> FALSE, data_int_enable |-> FALSE,
               dma_addr |-> None, cmd_start |-> FALSE, cmd_int_rst |-> FALSE,
               data_int_rst |-> FALSE, ctrl_rst |-> FALSE]
    /\ cmd_master = CmdMasterReset
    /\ cmd_host = [CmdHostReset EXCEPT !.state = "IDLE"]
    /\ starter = StarterReset
    /\ data_master = DataMasterReset
    /\ data_host = DataHostReset
    /\ fifo = 0
    /\ axi = AxiReset
    /\ card = FALSE

-----------------------------------------------------------------------------
(* The command path on one card clock.                                     *)

\* IDLE latches the command registers on every edge and leaves on cmd_start.
CmdIdle ==
    LET m == [cmd_master EXCEPT !.go_idle = FALSE, !.watchdog = 0,
                                !.cmd = regs.command.cmd]
    IN IF regs.cmd_start
       THEN [m EXCEPT !.start_xfr = TRUE, !.int_status = {}, !.state = "EXECUTE"]
       ELSE m

\* Mutant: the watchdog does not count.
CmdExecuteNoWatchdog ==
    LET m == [cmd_master EXCEPT !.start_xfr = FALSE]
    IN  IF cmd_host.finish
        THEN [m EXCEPT !.int_status = @ \cup {"CC"} \cup {e \in {"EI"} : cmd_host.bad},
                       !.response = m.cmd,
                       !.state = IF regs.command.busy THEN "BUSY_CHECK" ELSE "IDLE"]
        ELSE m

\* The watchdog is looked at before the serial host's finish.
CmdExecute ==
    LET m == [cmd_master EXCEPT !.start_xfr = FALSE]
    IN CASE m.watchdog >= CmdTimeout ->
              [m EXCEPT !.int_status = @ \cup {"CTE", "EI"}, !.go_idle = TRUE,
                        !.state = "IDLE"]
         [] m.watchdog < CmdTimeout /\ cmd_host.finish ->
              [m EXCEPT !.int_status = @ \cup {"CC"} \cup {e \in {"EI"} : cmd_host.bad},
                        !.response = m.cmd,
                        !.state = IF regs.command.busy THEN "BUSY_CHECK" ELSE "IDLE"]
         [] OTHER -> [m EXCEPT !.watchdog = @ + 1]

\* No watchdog here: only the card ends it.
CmdBusyCheck(busy) ==
    IF busy THEN cmd_master ELSE [cmd_master EXCEPT !.state = "IDLE"]

CmdMasterNext(busy) ==
    LET m == CASE cmd_master.state = "IDLE" -> CmdIdle
               [] cmd_master.state = "EXECUTE" -> CmdExecute
               [] cmd_master.state = "BUSY_CHECK" -> CmdBusyCheck(busy)
    IN IF regs.cmd_int_rst THEN [m EXCEPT !.int_status = {}] ELSE m

\* A start that comes while the line is still in INIT is not seen.
CmdHostNext(answer) ==
    CASE cmd_master.go_idle -> CmdHostReset
      [] ~cmd_master.go_idle /\ cmd_host.state = "INIT" ->
           IF cmd_host.counter >= InitDelay
           THEN [cmd_host EXCEPT !.state = "IDLE"]
           ELSE [cmd_host EXCEPT !.counter = @ + 1]
      [] ~cmd_master.go_idle /\ cmd_host.state = "IDLE" ->
           [cmd_host EXCEPT !.finish = FALSE, !.counter = 0,
                            !.state = IF cmd_master.start_xfr THEN "XFER" ELSE "IDLE"]
      [] ~cmd_master.go_idle /\ cmd_host.state = "XFER" ->
           IF answer = "none" THEN cmd_host
           ELSE [cmd_host EXCEPT !.finish = TRUE, !.bad = (answer = "bad"),
                                 !.state = "IDLE"]

-----------------------------------------------------------------------------
(* The data path on one card clock.                                        *)

\* A read starts with its command; a write waits for the command's CC.
StarterNext ==
    [rx |-> regs.cmd_start /\ regs.command.data = "read",
     tx |-> ~regs.cmd_start /\ starter.prepare_tx /\ "CC" \in cmd_int_status,
     prepare_tx |-> IF regs.cmd_start THEN regs.command.data = "write"
                    ELSE starter.prepare_tx /\ {"CC", "EI"} \cap cmd_int_status = {}]

DataIdle ==
    [data_master EXCEPT !.en_rx = FALSE, !.en_tx = FALSE, !.d_read = FALSE,
        !.d_write = FALSE, !.watchdog = 0,
        !.state = CASE starter.tx -> "START_TX_FIFO"
                    [] ~starter.tx /\ starter.rx -> "START_RX_FIFO"
                    [] OTHER -> "IDLE"]

DataStartRx ==
    [data_master EXCEPT !.en_rx = TRUE, !.en_tx = FALSE, !.d_read = TRUE,
        !.state = IF data_host.busy THEN "DATA_TRANSFER" ELSE @]

DataStartTx ==
    LET ready == fifo * 2 >= FifoSize
    IN [data_master EXCEPT !.en_rx = FALSE, !.en_tx = TRUE,
           !.d_write = IF ready THEN TRUE ELSE @,
           !.state = IF ready /\ data_host.busy THEN "DATA_TRANSFER" ELSE @]

DataOver == ~data_host.busy /\ ~Moving /\ (data_master.en_tx \/ fifo = 0)

FifoError ==
    (data_master.en_tx /\ fifo = 0) \/ (data_master.en_rx /\ fifo = FifoSize)
\* Mutant: one clock late.
DataStopsLate == FifoError \/ data_master.watchdog > DataTimeout

DataStops == FifoError \/ data_master.watchdog >= DataTimeout

DataError == ~data_host.crc_ok \/ axi.error
\* Mutant: CRC and bus errors are not reported.
DataTransferNoError ==
    LET m == [data_master EXCEPT !.d_read = FALSE, !.d_write = FALSE]
    IN CASE DataStops -> [m EXCEPT !.int_status = @ \cup {"EI"}, !.state = "IDLE",
                                   !.d_read = TRUE, !.d_write = TRUE]
         [] ~DataStops /\ DataOver ->
              [m EXCEPT !.int_status = @ \cup {"CC"}, !.state = "IDLE"]
         [] OTHER -> [m EXCEPT !.watchdog = @ + 1]

\* Mutant: the watchdog does not count.
DataTransferNoWatchdog ==
    LET m == [data_master EXCEPT !.d_read = FALSE, !.d_write = FALSE]
    IN CASE DataStops -> [m EXCEPT !.int_status = @ \cup {"EI"}, !.state = "IDLE",
                                   !.d_read = TRUE, !.d_write = TRUE]
         [] ~DataStops /\ DataOver ->
              [m EXCEPT !.int_status = @ \cup {"CC"} \cup {e \in {"EI"} : DataError},
                        !.state = "IDLE"]
         [] OTHER -> m

\* FIFO error and watchdog come before completion.
DataTransfer ==
    LET m == [data_master EXCEPT !.d_read = FALSE, !.d_write = FALSE]
    IN CASE DataStops -> [m EXCEPT !.int_status = @ \cup {"EI"}, !.state = "IDLE",
                                   !.d_read = TRUE, !.d_write = TRUE]
         [] ~DataStops /\ DataOver ->
              [m EXCEPT !.int_status = @ \cup {"CC"} \cup {e \in {"EI"} : DataError},
                        !.state = "IDLE"]
         [] OTHER -> [m EXCEPT !.watchdog = @ + 1]

\* On this edge a data phase ends with every word moved.
TransferCompletes ==
    /\ data_master.state = "DATA_TRANSFER"
    /\ ~DataStops /\ DataOver /\ ~DataError

DataMasterNext ==
    LET m == CASE data_master.state = "IDLE" -> DataIdle
               [] data_master.state = "START_RX_FIFO" -> DataStartRx
               [] data_master.state = "START_TX_FIFO" -> DataStartTx
               [] data_master.state = "DATA_TRANSFER" -> DataTransfer
    IN IF regs.data_int_rst THEN [m EXCEPT !.int_status = {}] ELSE m

\* Both strobes together abort the transfer.
DataHostNext(block) ==
    CASE data_master.d_read /\ data_master.d_write -> [data_host EXCEPT !.busy = FALSE]
      [] ~(data_master.d_read /\ data_master.d_write) /\ ~data_host.busy ->
           [data_host EXCEPT !.busy = data_master.d_read \/ data_master.d_write]
      [] ~(data_master.d_read /\ data_master.d_write) /\ data_host.busy ->
           IF block = "more" THEN data_host
           ELSE [busy |-> FALSE, crc_ok |-> block = "good"]

\* The data lines fill the FIFO on a read and drain it on a write.
FifoNext(word) ==
    CASE word /\ data_master.en_rx /\ fifo < FifoSize -> fifo + 1
      [] word /\ data_master.en_tx /\ fifo > 0 -> fifo - 1
      [] OTHER -> fifo

\* The card sends data once a read command has been put on its line.
CardNext(block) ==
    \/ cmd_host.state = "XFER" /\ regs.command.data = "read"
    \/ card /\ block = "more"

-----------------------------------------------------------------------------
(* Steps of the controller.                                                *)
\* Mutant: the address is only loaded after a reset.
FollowOnce(a, dm, r) ==
    IF a.cyc = "none" /\ ~Enabled(dm) /\ a.adr = None
    THEN [a EXCEPT !.adr = r.dma_addr] ELSE a

\* m_bus_adr_o reloads from dma_addr whenever nothing is moving.
Follow(a, dm, r) ==
    IF a.cyc = "none" /\ ~Enabled(dm) THEN [a EXCEPT !.adr = r.dma_addr] ELSE a

\* Every pulse lasts until the card clock has seen it.
PulsesNext ==
    [regs EXCEPT !.cmd_start = FALSE, !.cmd_int_rst = FALSE,
                 !.data_int_rst = FALSE, !.ctrl_rst = regs.software_reset]

\* ctrl_rst, from the edge that raises it to the edge that drops it.
SdClockInReset ==
    /\ regs.software_reset \/ regs.ctrl_rst
    /\ regs' = PulsesNext
    /\ cmd_master' = CmdMasterReset
    /\ cmd_host' = CmdHostReset
    /\ starter' = StarterReset
    /\ data_master' = DataMasterReset
    /\ data_host' = DataHostReset
    /\ fifo' = 0
    /\ axi' = AxiReset
    /\ UNCHANGED card

SdClockRunning(answer, busy, block, word) ==
    /\ ~(regs.software_reset \/ regs.ctrl_rst)
    /\ regs' = PulsesNext
    /\ cmd_master' = CmdMasterNext(busy)
    /\ cmd_host' = CmdHostNext(answer)
    /\ starter' = StarterNext
    /\ data_master' = DataMasterNext
    /\ data_host' = DataHostNext(block)
    /\ fifo' = IF Enabled(data_master') THEN FifoNext(word) ELSE 0
    /\ axi' = Follow(axi, data_master', regs)
    /\ card' = CardNext(block)

\* What the card can do on this edge.
Answers == IF cmd_host.state = "XFER" THEN {"none", "good", "bad"} ELSE {"none"}
Busy == IF cmd_master.state = "BUSY_CHECK" THEN BOOLEAN ELSE {FALSE}
Blocks == IF data_host.busy /\ (data_master.en_rx => card)
          THEN {"more", "good", "bad"} ELSE {"more"}
Words == IF data_host.busy /\ (data_master.en_rx => card) THEN BOOLEAN ELSE {FALSE}

SdClock ==
    \/ SdClockInReset
    \/ \E answer \in Answers, block \in Blocks, word \in Words, busy \in Busy :
          SdClockRunning(answer, busy, block, word)

AxiStep(a, f) ==
    /\ axi' = Follow(a, data_master, regs)
    /\ fifo' = f
    /\ UNCHANGED <<regs, cmd_master, cmd_host, starter, data_master, data_host, card>>

\* tx_stb and rx_stb: a burst starts when there is room, or there are words.
AxiBurst ==
    /\ axi.cyc = "none"
    /\ \/ data_master.en_tx /\ fifo < FifoSize /\ AxiStep([axi EXCEPT !.cyc = "read"], fifo)
       \/ data_master.en_rx /\ fifo > 0 /\ AxiStep([axi EXCEPT !.cyc = "write"], fifo)

\* A burst whose engine was stopped still runs to its last beat.
AxiLast ==
    \/ /\ axi.cyc = "read"
       /\ \E e \in {axi.error, TRUE} :
             AxiStep([axi EXCEPT !.cyc = "none", !.error = e],
                     IF data_master.en_tx /\ fifo < FifoSize THEN fifo + 1 ELSE fifo)
    \/ /\ axi.cyc = "write"
       /\ AxiStep([axi EXCEPT !.cyc = "none", !.bresp = TRUE],
                  IF data_master.en_rx /\ fifo > 0 THEN fifo - 1 ELSE fifo)

AxiResponse ==
    /\ axi.bresp
    /\ \E e \in {axi.error, TRUE} :
          AxiStep([axi EXCEPT !.bresp = FALSE, !.error = e], fifo)

-----------------------------------------------------------------------------
(* Register accesses, for the software that drives the controller.         *)

WriteRegs(r) ==
    /\ regs' = r
    /\ axi' = Follow(axi, data_master, r)
    /\ UNCHANGED <<cmd_master, cmd_host, starter, data_master, data_host, fifo, card>>

\* Writing the argument starts the command and forgets the last bus error.
WriteArgument ==
    /\ regs' = [regs EXCEPT !.cmd_start = TRUE]
    /\ axi' = [axi EXCEPT !.error = FALSE]
    /\ UNCHANGED <<cmd_master, cmd_host, starter, data_master, data_host, fifo, card>>
=============================================================================
