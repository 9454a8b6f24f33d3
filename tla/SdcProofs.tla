----------------------------- MODULE SdcProofs -----------------------------
(***************************************************************************)
(* Proofs about SdcDriver, for every timeout, FIFO size, deadline, number  *)
(* and kind of requests.                                                   *)
(*                                                                         *)
(* The invariant has six layers:                                           *)
(*   TypeInv     every register has its type;                              *)
(*   ControlInv  what the driver remembers of a request, by its place;     *)
(*   PulseInv    where the driver is while a pulse waits for the card      *)
(*               clock;                                                    *)
(*   PollInv     how far the poll is behind the command master's watchdog; *)
(*   CmdInv      whose command the command master works on;                *)
(*   DataInv     how far the data phase of the request is, and on which    *)
(*               buffer.                                                   *)
(* The last two hold while no request was abandoned, and again from the    *)
(* reset of the controller on.                                             *)
(***************************************************************************)
EXTENDS SdcDriver, TLAPS

Tag == {None} \cup ((Request \cup {None}) \X {"sbc", "cmd", "stop"})
Addr == Request \cup {None}
Direction == {"none", "read", "write"}

RegsType ==
    [command : [cmd : Tag, data : Direction, busy : BOOLEAN],
     software_reset : BOOLEAN, data_int_enable : BOOLEAN, dma_addr : Addr,
     cmd_start : BOOLEAN, cmd_int_rst : BOOLEAN, data_int_rst : BOOLEAN,
     ctrl_rst : BOOLEAN]
CmdMasterType ==
    [state : {"IDLE", "EXECUTE", "BUSY_CHECK"}, int_status : SUBSET {"CC", "EI", "CTE"},
     watchdog : 0 .. CmdTimeout, start_xfr : BOOLEAN, go_idle : BOOLEAN,
     cmd : Tag, response : Tag]
CmdHostType ==
    [state : {"INIT", "IDLE", "XFER"}, counter : 0 .. InitDelay, finish : BOOLEAN,
     bad : BOOLEAN]
StarterType == [rx : BOOLEAN, tx : BOOLEAN, prepare_tx : BOOLEAN]
DataMasterType ==
    [state : {"IDLE", "START_RX_FIFO", "START_TX_FIFO", "DATA_TRANSFER"},
     int_status : SUBSET {"CC", "EI"}, watchdog : 0 .. DataTimeout,
     en_rx : BOOLEAN, en_tx : BOOLEAN, d_read : BOOLEAN, d_write : BOOLEAN]
DataHostType == [busy : BOOLEAN, crc_ok : BOOLEAN]
AxiType ==
    [cyc : {"none", "read", "write"}, bresp : BOOLEAN, error : BOOLEAN, adr : Addr]

HwType ==
    /\ regs \in RegsType /\ cmd_master \in CmdMasterType /\ cmd_host \in CmdHostType
    /\ starter \in StarterType /\ data_master \in DataMasterType
    /\ data_host \in DataHostType /\ fifo \in 0 .. FifoSize /\ axi \in AxiType
    /\ card \in BOOLEAN

DrvType ==
    /\ pc \in {"idle", "setup", "start", "poll", "finish", "isr",
               "asserted", "released", "cleared"}
    /\ issued \in 0 .. MaxReq /\ mrq \in Addr /\ data \in {None, mrq}
    /\ kind \in [data : Direction, busy : BOOLEAN, sbc : BOOLEAN, stop : BOOLEAN]
    /\ phase \in {"sbc", "cmd", "stop"}
    /\ status \subseteq {"CC", "EI", "CTE"} /\ data_status \subseteq {"CC", "EI"}
    /\ elapsed \in Nat /\ mapped \subseteq Request /\ abandoned \in BOOLEAN

TypeInv == HwType /\ DrvType

\* What the driver remembers, by the place it is at.
ControlInv ==
    /\ pc \in {"setup", "start", "poll", "finish"} => mrq # None
    /\ pc \in {"asserted", "released", "cleared"} => mrq = None
    /\ mrq = None => kind.data = "none" /\ data = None /\ phase = "cmd"
    /\ data # None => kind.data # "none"
    /\ phase = "stop" => pc \in {"setup", "start", "poll", "finish"} /\ kind.data # "none"
    /\ pc \in {"idle", "isr"} => data = mrq /\ phase = "cmd"
    /\ data_status # {} => pc = "isr" \/ phase = "stop"
    /\ pc \in {"start", "poll", "finish"} =>
          /\ regs.command.cmd = Cmd
          /\ regs.command.data = IF HasData THEN kind.data ELSE "none"
          /\ HasData => regs.dma_addr = mrq /\ mrq \in mapped

\* Which pulse may be waiting where.
PulseInv ==
    /\ regs.cmd_start => pc \in {"poll", "finish"}
    /\ regs.cmd_int_rst => pc \in {"finish", "cleared"} /\ cmd_master.state = "IDLE"
    /\ regs.data_int_rst => pc \in {"isr", "cleared"}
    /\ regs.software_reset => pc = "asserted"
    /\ regs.ctrl_rst => pc \in {"asserted", "released"}

\* The poll is never ahead of the watchdog by more than the clock that starts it.
PollInv ==
    /\ pc # "poll" \/ regs.cmd_start => elapsed = 0
    /\ cmd_master.state = "EXECUTE" =>
          elapsed <= cmd_master.watchdog + 1 /\ cmd_master.int_status = {}
    /\ cmd_master.state = "BUSY_CHECK" => cmd_master.int_status # {}
    /\ pc = "poll" /\ ~regs.cmd_start /\ cmd_master.state = "IDLE"
          => cmd_master.int_status # {}

\* The command and the data path have nothing to do and nothing to report.
CmdStill == cmd_master.state = "IDLE" /\ cmd_master.int_status = {}
Started == regs.cmd_start /\ regs.command.data # "none"
Ended == data_master.state = "IDLE" /\ starter = StarterReset /\ ~Started
DataStill == Ended /\ data_master.int_status = {} /\ ~Enabled(data_master) /\ ~Moving

\* Nothing of an earlier request is left: none was abandoned, or the reset is through.
Clean == ~abandoned \/ pc \in {"released", "cleared"}

\* Whose command the command master works on.
CmdInv ==
    /\ Clean /\ pc \notin {"poll", "finish"} => CmdStill
    /\ Clean /\ pc = "poll" =>
          /\ regs.cmd_start => CmdStill
          /\ cmd_master.state = "EXECUTE" => cmd_master.cmd = Cmd
          /\ "CC" \in cmd_master.int_status => cmd_master.response = Cmd
    /\ Clean /\ pc = "finish" =>
          /\ ~regs.cmd_start /\ cmd_master.state = "IDLE"
          /\ regs.cmd_int_rst \/ cmd_master.int_status = {}
          /\ "CC" \in status => cmd_master.response = Cmd
    /\ pc = "asserted" /\ regs.ctrl_rst => CmdStill /\ DataStill

\* The data command of the request has been started.
DataPhase ==
    kind.data # "none" /\ (phase = "stop" \/ (phase = "cmd" /\ pc \notin {"setup", "start"}))

\* How far the data path is.  A data phase waits to start in one place only,
\* runs without a status, and ends with a status; it works on the buffer of
\* the request.
DataInv ==
    Clean =>
      /\ ~DataPhase => DataStill
      /\ DataPhase => regs.dma_addr = mrq /\ mrq \in mapped
      /\ pc \notin {"asserted", "released"} => axi.adr = regs.dma_addr
      /\ Started => /\ starter = StarterReset /\ data_master.state = "IDLE"
                    /\ data_master.int_status = {}
      /\ starter.rx \/ starter.tx \/ starter.prepare_tx =>
            /\ data_master.state = "IDLE" /\ data_master.int_status = {}
            /\ ~(starter.rx /\ starter.prepare_tx) /\ ~(starter.tx /\ starter.prepare_tx)
      /\ data_master.state # "IDLE" => data_master.int_status = {}
      /\ pc = "isr" \/ phase = "stop" => Ended
      /\ data_master.int_status = {"CC"} => mrq \in moved
      /\ data_status = {"CC"} => mrq \in moved /\ ~Enabled(data_master) /\ ~Moving
      /\ pc = "isr" => regs.data_int_rst \/ data_master.int_status = {}
      /\ phase = "stop" => data_master.int_status = {}

IInv == TypeInv /\ ControlInv /\ PulseInv /\ PollInv /\ CmdInv /\ DataInv
-----------------------------------------------------------------------------
(* The register file and the blocks, one field at a time.                  *)

\* The reset register is empty when no pulse is waiting.
LEMMA ResetRegLemma ==
  /\ ResetReg = {} <=> /\ ~regs.cmd_start /\ ~regs.data_int_rst
                       /\ ~regs.cmd_int_rst /\ ~regs.ctrl_rst
  /\ "ctrl_rst" \in ResetReg <=> regs.ctrl_rst
BY DEF ResetReg

\* Follow moves the address and nothing else.
LEMMA FollowLemma ==
  ASSUME NEW a \in AxiType, NEW dm, NEW r \in RegsType
  PROVE  LET f == Follow(a, dm, r)
         IN  /\ f \in AxiType
             /\ f.cyc = a.cyc /\ f.bresp = a.bresp /\ f.error = a.error
             /\ f.adr = IF a.cyc = "none" /\ ~Enabled(dm) THEN r.dma_addr ELSE a.adr
BY DEF Follow, AxiType, RegsType

\* A register write changes the registers, and the address of an idle AXI master.
LEMMA WriteRegsLemma ==
  ASSUME HwType, NEW r \in RegsType, WriteRegs(r)
  PROVE  /\ HwType' /\ regs' = r
         /\ axi'.cyc = axi.cyc /\ axi'.bresp = axi.bresp
         /\ axi'.adr = IF axi.cyc = "none" /\ ~Enabled(data_master)
                       THEN r.dma_addr ELSE axi.adr
         /\ UNCHANGED <<cmd_master, cmd_host, starter, data_master, data_host, fifo, card>>
<1>1. axi \in AxiType
  BY DEF HwType
<1>2. axi' = Follow(axi, data_master, r) /\ regs' = r
      /\ UNCHANGED <<cmd_master, cmd_host, starter, data_master, data_host, fifo, card>>
  BY DEF WriteRegs
<1>3. /\ axi' \in AxiType /\ axi'.cyc = axi.cyc /\ axi'.bresp = axi.bresp
      /\ axi'.adr = IF axi.cyc = "none" /\ ~Enabled(data_master)
                    THEN r.dma_addr ELSE axi.adr
  BY <1>1, <1>2, FollowLemma
<1> QED
  BY <1>2, <1>3 DEF HwType

\* The command master on one edge.  A clear comes while it is idle.
LEMMA CmdMasterLemma ==
  ASSUME HwType, NEW busy \in BOOLEAN,
         cmd_master.state # "IDLE" => ~regs.cmd_int_rst
  PROVE  LET m == CmdMasterNext(busy)
         IN  /\ m \in CmdMasterType
             /\ cmd_master.state = "IDLE" /\ ~regs.cmd_start =>
                  /\ m.state = "IDLE" /\ m.response = cmd_master.response
                  /\ m.int_status = IF regs.cmd_int_rst THEN {} ELSE cmd_master.int_status
             /\ cmd_master.state = "IDLE" /\ regs.cmd_start =>
                  /\ m.state = "EXECUTE" /\ m.int_status = {} /\ m.watchdog = 0
                  /\ m.cmd = regs.command.cmd
             /\ cmd_master.state = "EXECUTE" =>
                  \/ /\ m.state = "EXECUTE" /\ m.int_status = cmd_master.int_status
                     /\ m.watchdog = cmd_master.watchdog + 1 /\ m.cmd = cmd_master.cmd
                  \/ /\ m.state = "IDLE"
                     /\ m.int_status = cmd_master.int_status \cup {"CTE", "EI"}
                  \/ /\ m.state # "EXECUTE" /\ "CC" \in m.int_status
                     /\ m.response = cmd_master.cmd
             /\ cmd_master.state = "BUSY_CHECK" =>
                  /\ m.state # "EXECUTE" /\ m.int_status = cmd_master.int_status
                  /\ m.response = cmd_master.response
<1>1. cmd_master \in CmdMasterType /\ regs \in RegsType /\ cmd_host.finish \in BOOLEAN
      /\ cmd_host.bad \in BOOLEAN /\ CmdTimeout \in Nat
  BY TimeoutAssumption DEF HwType, CmdHostType
<1> DEFINE n == CASE cmd_master.state = "IDLE" -> CmdIdle
                  [] cmd_master.state = "EXECUTE" -> CmdExecute
                  [] cmd_master.state = "BUSY_CHECK" -> CmdBusyCheck(busy)
<1>n. CmdMasterNext(busy) = IF regs.cmd_int_rst THEN [n EXCEPT !.int_status = {}] ELSE n
  BY DEF CmdMasterNext
<1>2. CASE cmd_master.state = "IDLE"
  <2> DEFINE m == [cmd_master EXCEPT !.go_idle = FALSE, !.watchdog = 0,
                                     !.cmd = regs.command.cmd]
  <2>0. regs.command.cmd \in Tag /\ 0 \in 0 .. CmdTimeout
    BY <1>1 DEF RegsType
  <2>1. /\ m \in CmdMasterType /\ m.response = cmd_master.response
        /\ m.cmd = regs.command.cmd /\ m.watchdog = 0 /\ m.state = "IDLE"
        /\ m.int_status = cmd_master.int_status
    BY <1>1, <1>2, <2>0, Zenon DEF CmdMasterType
  <2>2. CmdIdle = IF regs.cmd_start
                  THEN [m EXCEPT !.start_xfr = TRUE, !.int_status = {}, !.state = "EXECUTE"]
                  ELSE m
    BY DEF CmdIdle
  <2> HIDE DEF m
  <2>3. /\ CmdIdle \in CmdMasterType /\ CmdIdle.response = cmd_master.response
        /\ CmdIdle.cmd = regs.command.cmd /\ CmdIdle.watchdog = 0
        /\ CmdIdle.state = IF regs.cmd_start THEN "EXECUTE" ELSE "IDLE"
        /\ CmdIdle.int_status = IF regs.cmd_start THEN {} ELSE cmd_master.int_status
    BY <2>1, <2>2, Zenon DEF CmdMasterType
  <2>4. n = CmdIdle
    BY <1>2
  <2> HIDE DEF n
  <2> QED
    BY <1>n, <1>2, <2>3, <2>4 DEF CmdMasterType
<1>3. CASE cmd_master.state = "EXECUTE"
  <2> DEFINE m == [cmd_master EXCEPT !.start_xfr = FALSE]
  <2>m. /\ m \in CmdMasterType /\ m.watchdog = cmd_master.watchdog
        /\ m.int_status = cmd_master.int_status /\ m.cmd = cmd_master.cmd
        /\ m.state = "EXECUTE"
    BY <1>1, <1>3, Zenon DEF CmdMasterType
  <2>e. CmdExecute =
          CASE m.watchdog >= CmdTimeout ->
                 [m EXCEPT !.int_status = @ \cup {"CTE", "EI"}, !.go_idle = TRUE,
                           !.state = "IDLE"]
            [] m.watchdog < CmdTimeout /\ cmd_host.finish ->
                 [m EXCEPT !.int_status = @ \cup {"CC"} \cup {e \in {"EI"} : cmd_host.bad},
                           !.response = m.cmd,
                           !.state = IF regs.command.busy THEN "BUSY_CHECK" ELSE "IDLE"]
            [] OTHER -> [m EXCEPT !.watchdog = @ + 1]
    BY DEF CmdExecute
  <2>1. CmdMasterNext(busy) = CmdExecute
    BY <1>n, <1>3
  <2> HIDE DEF m, n
  <2>w. m.watchdog \in Nat /\ m.watchdog <= CmdTimeout
    BY <1>1, <2>m DEF CmdMasterType
  <2>2. CASE m.watchdog >= CmdTimeout
    <3>1. CmdExecute = [m EXCEPT !.int_status = @ \cup {"CTE", "EI"}, !.go_idle = TRUE,
                                 !.state = "IDLE"]
      BY <1>1, <2>2, <2>e, <2>w
    <3>2. m.int_status \cup {"CTE", "EI"} \in SUBSET {"CC", "EI", "CTE"}
      BY <2>m DEF CmdMasterType
    <3>3. /\ CmdExecute \in CmdMasterType /\ CmdExecute.state = "IDLE"
          /\ CmdExecute.int_status = m.int_status \cup {"CTE", "EI"}
      BY <2>m, <3>1, <3>2, Zenon DEF CmdMasterType
    <3> QED
      BY <1>3, <2>1, <2>m, <3>3
  <2>3. CASE m.watchdog < CmdTimeout /\ cmd_host.finish
    <3> DEFINE st == m.int_status \cup {"CC"} \cup {e \in {"EI"} : cmd_host.bad}
               to == IF regs.command.busy THEN "BUSY_CHECK" ELSE "IDLE"
    <3>1. CmdExecute = [m EXCEPT !.int_status = st, !.response = m.cmd, !.state = to]
      BY <1>1, <2>3, <2>e, <2>w
    <3>2. st \in SUBSET {"CC", "EI", "CTE"} /\ "CC" \in st
          /\ to \in {"IDLE", "EXECUTE", "BUSY_CHECK"} /\ to # "EXECUTE"
      BY <2>m DEF CmdMasterType
    <3> HIDE DEF st, to
    <3>3. /\ CmdExecute \in CmdMasterType /\ CmdExecute.state = to
          /\ CmdExecute.int_status = st /\ CmdExecute.response = m.cmd
      BY <2>m, <3>1, <3>2, Zenon DEF CmdMasterType
    <3> QED
      BY <1>3, <2>1, <2>m, <3>2, <3>3
  <2>4. CASE m.watchdog < CmdTimeout /\ ~cmd_host.finish
    <3>1. CmdExecute = [m EXCEPT !.watchdog = @ + 1]
      BY <1>1, <2>4, <2>e, <2>w
    <3>2. m.watchdog + 1 \in 0 .. CmdTimeout
      BY <1>1, <2>4, <2>w
    <3>3. /\ CmdExecute \in CmdMasterType /\ CmdExecute.state = "EXECUTE"
          /\ CmdExecute.int_status = m.int_status /\ CmdExecute.cmd = m.cmd
          /\ CmdExecute.watchdog = m.watchdog + 1
      BY <2>m, <3>1, <3>2 DEF CmdMasterType
    <3> QED
      BY <1>3, <2>1, <2>m, <3>3
  <2> QED
    BY <1>1, <2>2, <2>3, <2>4, <2>w
<1>4. CASE cmd_master.state = "BUSY_CHECK"
  <2>1. CmdMasterNext(busy) = CmdBusyCheck(busy)
    BY <1>n, <1>4
  <2> HIDE DEF n
  <2> QED
    BY <1>1, <1>4, <2>1 DEF CmdBusyCheck, CmdMasterType
<1> HIDE DEF n
<1> QED
  BY <1>1, <1>2, <1>3, <1>4 DEF CmdMasterType

\* The command line and the data lines keep their types on an edge.
LEMMA HostLemma ==
  ASSUME HwType, NEW answer, NEW block, NEW word
  PROVE  /\ CmdHostNext(answer) \in CmdHostType
         /\ DataHostNext(block) \in DataHostType
         /\ FifoNext(word) \in 0 .. FifoSize
         /\ CardNext(block) \in BOOLEAN
<1>1. /\ cmd_host \in CmdHostType /\ data_host \in DataHostType /\ fifo \in 0 .. FifoSize
      /\ InitDelay \in Nat /\ FifoSize \in Nat
      /\ data_master.d_read \in BOOLEAN /\ data_master.d_write \in BOOLEAN
  BY TimeoutAssumption, FifoAssumption DEF HwType, DataMasterType
<1>2. CmdHostNext(answer) \in CmdHostType
  <2>1. CmdHostReset \in CmdHostType
    BY <1>1 DEF CmdHostReset, CmdHostType
  <2>2. ASSUME ~cmd_master.go_idle, cmd_host.state = "INIT"
        PROVE  CmdHostNext(answer) \in CmdHostType
    <3>1. CASE cmd_host.counter >= InitDelay
      BY <1>1, <2>2, <3>1 DEF CmdHostNext, CmdHostType
    <3>2. CASE ~(cmd_host.counter >= InitDelay)
      <4>1. cmd_host.counter + 1 \in 0 .. InitDelay
        BY <1>1, <3>2 DEF CmdHostType
      <4>2. CmdHostNext(answer) = [cmd_host EXCEPT !.counter = @ + 1]
        BY <2>2, <3>2 DEF CmdHostNext
      <4> QED
        BY <1>1, <4>1, <4>2 DEF CmdHostType
    <3> QED
      BY <3>1, <3>2
  <2>3. ASSUME ~cmd_master.go_idle, cmd_host.state = "IDLE"
        PROVE  CmdHostNext(answer) \in CmdHostType
    <3> DEFINE to == IF cmd_master.start_xfr THEN "XFER" ELSE "IDLE"
    <3>1. CmdHostNext(answer) = [cmd_host EXCEPT !.finish = FALSE, !.counter = 0, !.state = to]
      BY <2>3 DEF CmdHostNext
    <3>2. to \in {"INIT", "IDLE", "XFER"} /\ 0 \in 0 .. InitDelay
      BY <1>1
    <3> HIDE DEF to
    <3> QED
      BY <1>1, <3>1, <3>2, Zenon DEF CmdHostType
  <2>4. ASSUME ~cmd_master.go_idle, cmd_host.state = "XFER"
        PROVE  CmdHostNext(answer) \in CmdHostType
    <3> DEFINE bad == answer = "bad"
    <3>1. CmdHostNext(answer) = IF answer = "none" THEN cmd_host
             ELSE [cmd_host EXCEPT !.finish = TRUE, !.bad = bad, !.state = "IDLE"]
      BY <2>4 DEF CmdHostNext
    <3>2. bad \in BOOLEAN
      OBVIOUS
    <3> HIDE DEF bad
    <3> QED
      BY <1>1, <3>1, <3>2, Zenon DEF CmdHostType
  <2>5. cmd_master.go_idle => CmdHostNext(answer) = CmdHostReset
    BY DEF CmdHostNext
  <2>6. cmd_host.state \in {"INIT", "IDLE", "XFER"}
    BY <1>1 DEF CmdHostType
  <2> QED
    BY <2>1, <2>2, <2>3, <2>4, <2>5, <2>6
<1>3. DataHostNext(block) \in DataHostType
  BY <1>1, Zenon DEF DataHostNext, DataHostType
<1>4. FifoNext(word) \in 0 .. FifoSize
  BY <1>1 DEF FifoNext
<1>5. CardNext(block) \in BOOLEAN
  BY DEF CardNext
<1> QED
  BY <1>2, <1>3, <1>4, <1>5

\* The logic that starts the data phase, on one edge.
LEMMA StarterLemma ==
  /\ StarterNext \in StarterType
  /\ StarterNext.rx <=> regs.cmd_start /\ regs.command.data = "read"
  /\ StarterNext.tx <=> ~regs.cmd_start /\ starter.prepare_tx /\ "CC" \in cmd_int_status
  /\ StarterNext.prepare_tx <=>
        IF regs.cmd_start THEN regs.command.data = "write"
        ELSE starter.prepare_tx /\ {"CC", "EI"} \cap cmd_int_status = {}
BY Zenon DEF StarterNext, StarterType

\* The starter is in reset when none of its bits is set.
LEMMA StarterResetLemma ==
  ASSUME NEW s \in StarterType
  PROVE  s = StarterReset <=> ~s.rx /\ ~s.tx /\ ~s.prepare_tx
BY DEF StarterReset, StarterType

\* The data master on one edge: it leaves IDLE only for a start, and comes
\* back with a status that is a bare CC only when the transfer completed.
LEMMA DataMasterLemma ==
  ASSUME HwType
  PROVE  LET m == DataMasterNext
         IN  /\ m \in DataMasterType
             /\ data_master.state = "IDLE" =>
                  /\ ~Enabled(m)
                  /\ m.state = "IDLE" <=> ~starter.tx /\ ~starter.rx
                  /\ m.int_status =
                        IF regs.data_int_rst THEN {} ELSE data_master.int_status
             /\ data_master.state # "IDLE" /\ ~regs.data_int_rst =>
                  \/ m.state # "IDLE" /\ m.int_status = data_master.int_status
                  \/ m.state = "IDLE" /\ (m.int_status = {"CC"} => TransferCompletes)
<1>1. /\ data_master \in DataMasterType /\ data_host \in DataHostType
      /\ regs \in RegsType /\ starter \in StarterType /\ DataTimeout \in Nat
  BY TimeoutAssumption DEF HwType
<1> DEFINE n == CASE data_master.state = "IDLE" -> DataIdle
                  [] data_master.state = "START_RX_FIFO" -> DataStartRx
                  [] data_master.state = "START_TX_FIFO" -> DataStartTx
                  [] data_master.state = "DATA_TRANSFER" -> DataTransfer
<1>n. DataMasterNext = IF regs.data_int_rst THEN [n EXCEPT !.int_status = {}] ELSE n
  BY DEF DataMasterNext
<1>2. CASE data_master.state = "IDLE"
  <2> DEFINE to == CASE starter.tx -> "START_TX_FIFO"
                     [] ~starter.tx /\ starter.rx -> "START_RX_FIFO"
                     [] OTHER -> "IDLE"
  <2>1. /\ to \in {"IDLE", "START_RX_FIFO", "START_TX_FIFO", "DATA_TRANSFER"}
        /\ to = "IDLE" <=> ~starter.tx /\ ~starter.rx
    BY <1>1 DEF StarterType
  <2>2. DataIdle = [data_master EXCEPT !.en_rx = FALSE, !.en_tx = FALSE, !.d_read = FALSE,
                       !.d_write = FALSE, !.watchdog = 0, !.state = to]
    BY DEF DataIdle
  <2>3. n = DataIdle /\ 0 \in 0 .. DataTimeout
    BY <1>1, <1>2
  <2> HIDE DEF to, n
  <2>4. /\ n \in DataMasterType /\ ~n.en_rx /\ ~n.en_tx /\ n.state = to
        /\ n.int_status = data_master.int_status
    BY <1>1, <2>1, <2>2, <2>3, Zenon DEF DataMasterType
  <2>5. /\ DataMasterNext \in DataMasterType
        /\ ~DataMasterNext.en_rx /\ ~DataMasterNext.en_tx /\ DataMasterNext.state = to
        /\ DataMasterNext.int_status =
              IF regs.data_int_rst THEN {} ELSE data_master.int_status
    BY <1>n, <2>4 DEF DataMasterType
  <2> QED
    BY <1>2, <2>1, <2>5 DEF Enabled
<1>3. ASSUME n \in DataMasterType,
             \/ n.state # "IDLE" /\ n.int_status = data_master.int_status
             \/ n.state = "IDLE" /\ (n.int_status = {"CC"} => TransferCompletes),
             data_master.state # "IDLE"
      PROVE  LET m == DataMasterNext
             IN  /\ m \in DataMasterType
                 /\ ~regs.data_int_rst =>
                      \/ m.state # "IDLE" /\ m.int_status = data_master.int_status
                      \/ m.state = "IDLE" /\ (m.int_status = {"CC"} => TransferCompletes)
  <2> HIDE DEF n
  <2>1. DataMasterNext \in DataMasterType
    BY <1>n, <1>3 DEF DataMasterType
  <2> QED
    BY <1>n, <1>3, <2>1
<1>4. CASE data_master.state = "START_RX_FIFO"
  <2>1. n = DataStartRx
    BY <1>4
  <2>2. DataStartRx \in DataMasterType /\ DataStartRx.state # "IDLE"
        /\ DataStartRx.int_status = data_master.int_status
    BY <1>1, <1>4, Zenon DEF DataStartRx, DataMasterType
  <2> HIDE DEF n
  <2> QED
    BY <1>3, <1>4, <2>1, <2>2
<1>5. CASE data_master.state = "START_TX_FIFO"
  <2>1. n = DataStartTx
    BY <1>5
  <2> DEFINE ready == fifo * 2 >= FifoSize
             write == IF ready THEN TRUE ELSE data_master.d_write
             to == IF ready /\ data_host.busy THEN "DATA_TRANSFER" ELSE data_master.state
  <2>2. DataStartTx = [data_master EXCEPT !.en_rx = FALSE, !.en_tx = TRUE,
                          !.d_write = write, !.state = to]
    BY DEF DataStartTx
  <2>3. write \in BOOLEAN /\ to \in {"START_TX_FIFO", "DATA_TRANSFER"}
    BY <1>1, <1>5, Zenon DEF DataMasterType
  <2> HIDE DEF n, write, to
  <2>4. DataStartTx \in DataMasterType /\ DataStartTx.state # "IDLE"
        /\ DataStartTx.int_status = data_master.int_status
    BY <1>1, <2>2, <2>3, Zenon DEF DataMasterType
  <2> QED
    BY <1>3, <1>5, <2>1, <2>4
<1>6. CASE data_master.state = "DATA_TRANSFER"
  <2>1. n = DataTransfer
    BY <1>6
  <2> DEFINE m == [data_master EXCEPT !.d_read = FALSE, !.d_write = FALSE]
  <2>2. /\ m \in DataMasterType /\ m.state = "DATA_TRANSFER"
        /\ m.int_status = data_master.int_status /\ m.watchdog = data_master.watchdog
    BY <1>1, <1>6, Zenon DEF DataMasterType
  <2>3. DataTransfer =
          CASE DataStops -> [m EXCEPT !.int_status = @ \cup {"EI"}, !.state = "IDLE",
                                      !.d_read = TRUE, !.d_write = TRUE]
            [] ~DataStops /\ DataOver ->
                 [m EXCEPT !.int_status = @ \cup {"CC"} \cup {e \in {"EI"} : DataError},
                           !.state = "IDLE"]
            [] OTHER -> [m EXCEPT !.watchdog = @ + 1]
    BY DEF DataTransfer
  <2> HIDE DEF n, m
  <2>4. m.int_status \cup {"EI"} \in SUBSET {"CC", "EI"}
    BY <2>2 DEF DataMasterType
  <2>5. CASE DataStops
    <3>1. DataTransfer = [m EXCEPT !.int_status = @ \cup {"EI"}, !.state = "IDLE",
                                   !.d_read = TRUE, !.d_write = TRUE]
      BY <2>3, <2>5
    <3>2. DataTransfer \in DataMasterType /\ DataTransfer.state = "IDLE"
          /\ DataTransfer.int_status = m.int_status \cup {"EI"}
      BY <2>2, <2>4, <3>1, Zenon DEF DataMasterType
    <3> QED
      BY <1>3, <1>6, <2>1, <3>2
  <2>6. CASE ~DataStops /\ DataOver
    <3> DEFINE st == m.int_status \cup {"CC"} \cup {e \in {"EI"} : DataError}
    <3>1. DataTransfer = [m EXCEPT !.int_status = st, !.state = "IDLE"]
      BY <2>3, <2>6
    <3>2. st \in SUBSET {"CC", "EI"} /\ (DataError => "EI" \in st)
      BY <2>2 DEF DataMasterType
    <3> HIDE DEF st
    <3>3. DataTransfer \in DataMasterType /\ DataTransfer.state = "IDLE"
          /\ DataTransfer.int_status = st
      BY <2>2, <3>1, <3>2, Zenon DEF DataMasterType
    <3>4. st = {"CC"} => TransferCompletes
      BY <1>6, <2>6, <3>2 DEF TransferCompletes
    <3> QED
      BY <1>3, <1>6, <2>1, <3>3, <3>4
  <2>7. CASE ~DataStops /\ ~DataOver
    <3>1. DataTransfer = [m EXCEPT !.watchdog = @ + 1]
      BY <2>3, <2>7
    <3>2. m.watchdog + 1 \in 0 .. DataTimeout
      BY <1>1, <2>2, <2>7 DEF DataStops, DataMasterType
    <3>3. DataTransfer \in DataMasterType /\ DataTransfer.state = "DATA_TRANSFER"
          /\ DataTransfer.int_status = m.int_status
      BY <2>2, <3>1, <3>2 DEF DataMasterType
    <3> QED
      BY <1>3, <1>6, <2>1, <2>2, <3>3
  <2> QED
    BY <2>5, <2>6, <2>7
<1>7. data_master.state \in {"IDLE", "START_RX_FIFO", "START_TX_FIFO", "DATA_TRANSFER"}
  BY <1>1 DEF DataMasterType
<1> HIDE DEF n
<1> QED
  BY <1>2, <1>4, <1>5, <1>6, <1>7

\* A card clock edge out of reset, one register at a time.
LEMMA RunningLemma ==
  ASSUME HwType, cmd_master.state # "IDLE" => ~regs.cmd_int_rst,
         NEW answer, NEW busy \in BOOLEAN, NEW block, NEW word,
         SdClockRunning(answer, busy, block, word)
  PROVE  /\ HwType'
         /\ ~regs.software_reset /\ ~regs.ctrl_rst
         /\ regs'.command = regs.command /\ regs'.dma_addr = regs.dma_addr
         /\ ~regs'.cmd_start /\ ~regs'.cmd_int_rst /\ ~regs'.data_int_rst
         /\ ~regs'.software_reset /\ ~regs'.ctrl_rst
         /\ cmd_master' = CmdMasterNext(busy)
         /\ starter' = StarterNext
         /\ data_master' = DataMasterNext
         /\ axi'.cyc = axi.cyc /\ axi'.bresp = axi.bresp
         /\ axi'.adr \in {axi.adr, regs.dma_addr}
<1>1. regs \in RegsType /\ axi \in AxiType /\ fifo \in 0 .. FifoSize /\ FifoSize \in Nat
  BY FifoAssumption DEF HwType
<1>2. /\ ~regs.software_reset /\ ~regs.ctrl_rst
      /\ regs' = PulsesNext
      /\ cmd_master' = CmdMasterNext(busy)
      /\ cmd_host' = CmdHostNext(answer)
      /\ starter' = StarterNext
      /\ data_master' = DataMasterNext
      /\ data_host' = DataHostNext(block)
      /\ fifo' = IF Enabled(data_master') THEN FifoNext(word) ELSE 0
      /\ axi' = Follow(axi, data_master', regs)
      /\ card' = CardNext(block)
  BY DEF SdClockRunning
<1>3. /\ regs' \in RegsType
      /\ regs'.command = regs.command /\ regs'.dma_addr = regs.dma_addr
      /\ ~regs'.cmd_start /\ ~regs'.cmd_int_rst /\ ~regs'.data_int_rst
      /\ ~regs'.software_reset /\ ~regs'.ctrl_rst
  BY <1>1, <1>2, Zenon DEF PulsesNext, RegsType
<1>4. cmd_master' \in CmdMasterType
  BY <1>2, CmdMasterLemma
<1>5. cmd_host' \in CmdHostType /\ data_host' \in DataHostType
      /\ fifo' \in 0 .. FifoSize /\ card' \in BOOLEAN
  BY <1>1, <1>2, HostLemma
<1>6. starter' \in StarterType /\ data_master' \in DataMasterType
  BY <1>2, StarterLemma, DataMasterLemma
<1>7. /\ axi' \in AxiType /\ axi'.cyc = axi.cyc /\ axi'.bresp = axi.bresp
      /\ axi'.adr \in {axi.adr, regs.dma_addr}
  BY <1>1, <1>2, FollowLemma
<1> QED
  BY <1>2, <1>3, <1>4, <1>5, <1>6, <1>7 DEF HwType

\* A card clock edge in reset.
LEMMA InResetLemma ==
  ASSUME HwType, SdClockInReset
  PROVE  /\ HwType'
         /\ regs.software_reset \/ regs.ctrl_rst
         /\ regs'.command = regs.command /\ regs'.dma_addr = regs.dma_addr
         /\ ~regs'.cmd_start /\ ~regs'.cmd_int_rst /\ ~regs'.data_int_rst
         /\ regs'.software_reset = regs.software_reset
         /\ regs'.ctrl_rst = regs.software_reset
         /\ cmd_master'.state = "IDLE" /\ cmd_master'.int_status = {}
         /\ starter' = StarterReset /\ data_master' = DataMasterReset
         /\ axi'.cyc = "none" /\ ~axi'.bresp
<1>1. /\ regs \in RegsType /\ card \in BOOLEAN /\ FifoSize \in Nat /\ CmdTimeout \in Nat
      /\ DataTimeout \in Nat /\ InitDelay \in Nat
  BY TimeoutAssumption, FifoAssumption DEF HwType
<1>2. /\ regs' \in RegsType
      /\ regs'.command = regs.command /\ regs'.dma_addr = regs.dma_addr
      /\ ~regs'.cmd_start /\ ~regs'.cmd_int_rst /\ ~regs'.data_int_rst
      /\ regs'.software_reset = regs.software_reset
      /\ regs'.ctrl_rst = regs.software_reset
  BY <1>1, Zenon DEF SdClockInReset, PulsesNext, RegsType
<1>3. cmd_master' \in CmdMasterType /\ cmd_master'.state = "IDLE"
      /\ cmd_master'.int_status = {}
  BY <1>1 DEF SdClockInReset, CmdMasterReset, CmdMasterType, Tag
<1>4. cmd_host' \in CmdHostType /\ data_host' \in DataHostType
  BY <1>1 DEF SdClockInReset, CmdHostReset, CmdHostType, DataHostReset, DataHostType
<1>5. starter' \in StarterType /\ data_master' \in DataMasterType
  BY <1>1 DEF SdClockInReset, StarterReset, StarterType, DataMasterReset, DataMasterType
<1>6. axi' \in AxiType /\ axi'.cyc = "none" /\ ~axi'.bresp
  BY DEF SdClockInReset, AxiReset, AxiType, Addr
<1>7. fifo' \in 0 .. FifoSize /\ card' = card /\ starter' = StarterReset
      /\ data_master' = DataMasterReset /\ (regs.software_reset \/ regs.ctrl_rst)
  BY <1>1 DEF SdClockInReset
<1> QED
  BY <1>1, <1>2, <1>3, <1>4, <1>5, <1>6, <1>7 DEF HwType

\* A step of the AXI master: it starts nothing unless an engine is enabled.
LEMMA AxiLemma ==
  ASSUME HwType, AxiBurst \/ AxiLast \/ AxiResponse
  PROVE  /\ HwType'
         /\ Moving' => Moving \/ Enabled(data_master)
         /\ axi'.adr \in {axi.adr, regs.dma_addr}
         /\ UNCHANGED <<regs, cmd_master, cmd_host, starter, data_master, data_host, card>>
<1>1. /\ axi \in AxiType /\ regs \in RegsType /\ data_master \in DataMasterType
      /\ fifo \in 0 .. FifoSize /\ FifoSize \in Nat
  BY FifoAssumption DEF HwType
<1>2. ASSUME NEW a \in AxiType, NEW f \in 0 .. FifoSize, AxiStep(a, f), a.adr = axi.adr,
             Moving \/ Enabled(data_master)
      PROVE  /\ HwType'
             /\ Moving' => Moving \/ Enabled(data_master)
             /\ axi'.adr \in {axi.adr, regs.dma_addr}
             /\ UNCHANGED <<regs, cmd_master, cmd_host, starter, data_master, data_host, card>>
  <2>1. /\ axi' = Follow(a, data_master, regs) /\ fifo' = f
        /\ UNCHANGED <<regs, cmd_master, cmd_host, starter, data_master, data_host, card>>
    BY <1>2 DEF AxiStep
  <2>2. axi' \in AxiType /\ axi'.adr \in {axi.adr, regs.dma_addr}
    BY <1>1, <1>2, <2>1, FollowLemma
  <2> QED
    BY <1>2, <2>1, <2>2 DEF HwType
<1>3. CASE AxiBurst
  <2>1. CASE data_master.en_tx /\ fifo < FifoSize /\ AxiStep([axi EXCEPT !.cyc = "read"], fifo)
    <3>1. [axi EXCEPT !.cyc = "read"] \in AxiType /\ [axi EXCEPT !.cyc = "read"].adr = axi.adr
      BY <1>1 DEF AxiType
    <3> QED
      BY <1>1, <1>2, <2>1, <3>1, Zenon DEF Enabled
  <2>2. CASE data_master.en_rx /\ fifo > 0 /\ AxiStep([axi EXCEPT !.cyc = "write"], fifo)
    <3>1. [axi EXCEPT !.cyc = "write"] \in AxiType /\ [axi EXCEPT !.cyc = "write"].adr = axi.adr
      BY <1>1 DEF AxiType
    <3> QED
      BY <1>1, <1>2, <2>2, <3>1, Zenon DEF Enabled
  <2> QED
    BY <1>3, <2>1, <2>2 DEF AxiBurst
<1>4. CASE AxiLast
  <2>1. ASSUME axi.cyc = "read", NEW e \in {axi.error, TRUE},
               AxiStep([axi EXCEPT !.cyc = "none", !.error = e],
                       IF data_master.en_tx /\ fifo < FifoSize THEN fifo + 1 ELSE fifo)
        PROVE  /\ HwType'
               /\ Moving' => Moving \/ Enabled(data_master)
               /\ axi'.adr \in {axi.adr, regs.dma_addr}
               /\ UNCHANGED <<regs, cmd_master, cmd_host, starter, data_master, data_host, card>>
    <3> DEFINE a == [axi EXCEPT !.cyc = "none", !.error = e]
               f == IF data_master.en_tx /\ fifo < FifoSize THEN fifo + 1 ELSE fifo
    <3>1. a \in AxiType /\ a.adr = axi.adr
      BY <1>1, <2>1, Zenon DEF AxiType
    <3>2. f \in 0 .. FifoSize
      BY <1>1
    <3>3. Moving /\ AxiStep(a, f)
      BY <2>1 DEF Moving
    <3> HIDE DEF a, f
    <3> QED
      BY <1>2, <3>1, <3>2, <3>3
  <2>2. ASSUME axi.cyc = "write",
               AxiStep([axi EXCEPT !.cyc = "none", !.bresp = TRUE],
                       IF data_master.en_rx /\ fifo > 0 THEN fifo - 1 ELSE fifo)
        PROVE  /\ HwType'
               /\ Moving' => Moving \/ Enabled(data_master)
               /\ axi'.adr \in {axi.adr, regs.dma_addr}
               /\ UNCHANGED <<regs, cmd_master, cmd_host, starter, data_master, data_host, card>>
    <3> DEFINE a == [axi EXCEPT !.cyc = "none", !.bresp = TRUE]
               f == IF data_master.en_rx /\ fifo > 0 THEN fifo - 1 ELSE fifo
    <3>1. a \in AxiType /\ a.adr = axi.adr
      BY <1>1, Zenon DEF AxiType
    <3>2. f \in 0 .. FifoSize
      BY <1>1
    <3>3. Moving /\ AxiStep(a, f)
      BY <2>2 DEF Moving
    <3> HIDE DEF a, f
    <3> QED
      BY <1>2, <3>1, <3>2, <3>3
  <2> QED
    BY <1>4, <2>1, <2>2 DEF AxiLast
<1>5. CASE AxiResponse
  <2>1. PICK e \in {axi.error, TRUE} : AxiStep([axi EXCEPT !.bresp = FALSE, !.error = e], fifo)
    BY <1>5, Zenon DEF AxiResponse
  <2> DEFINE a == [axi EXCEPT !.bresp = FALSE, !.error = e]
  <2>2. a \in AxiType /\ a.adr = axi.adr
    BY <1>1, Zenon DEF AxiType
  <2>3. Moving /\ AxiStep(a, fifo)
    BY <1>5, <2>1 DEF AxiResponse, Moving
  <2> HIDE DEF a
  <2> QED
    BY <1>1, <1>2, <2>2, <2>3
<1> QED
  BY <1>3, <1>4, <1>5
-----------------------------------------------------------------------------
(* The invariant, one lemma per kind of step.                              *)

LEMMA IInvInit == DriverInit => IInv
<1> SUFFICES ASSUME DriverInit PROVE IInv
  OBVIOUS
<1>1. /\ FifoSize \in Nat /\ CmdTimeout \in Nat /\ DataTimeout \in Nat /\ InitDelay \in Nat
      /\ MaxReq \in Nat
  BY TimeoutAssumption, FifoAssumption, RequestAssumption
<1>2. /\ regs = [command |-> [cmd |-> None, data |-> "none", busy |-> FALSE],
                 software_reset |-> FALSE, data_int_enable |-> FALSE,
                 dma_addr |-> None, cmd_start |-> FALSE, cmd_int_rst |-> FALSE,
                 data_int_rst |-> FALSE, ctrl_rst |-> FALSE]
      /\ cmd_master = CmdMasterReset
      /\ cmd_host = [CmdHostReset EXCEPT !.state = "IDLE"]
      /\ starter = StarterReset
      /\ data_master = DataMasterReset
      /\ data_host = DataHostReset
      /\ fifo = 0 /\ axi = AxiReset /\ card = FALSE
  BY DEF DriverInit, Init
<1>3. HwType
  <2>1. regs \in RegsType
    BY <1>2 DEF RegsType, Tag, Addr, Direction
  <2>2. cmd_master \in CmdMasterType
    BY <1>1, <1>2 DEF CmdMasterReset, CmdMasterType, Tag
  <2>c. cmd_host \in CmdHostType
    <3>1. CmdHostReset \in CmdHostType
      BY <1>1 DEF CmdHostReset, CmdHostType
    <3> QED
      BY <1>2, <3>1 DEF CmdHostType
  <2>3. starter \in StarterType /\ data_master \in DataMasterType
    BY <1>1, <1>2 DEF StarterReset, StarterType, DataMasterReset, DataMasterType
  <2>4. data_host \in DataHostType /\ axi \in AxiType
    BY <1>2 DEF DataHostReset, DataHostType, AxiReset, AxiType, Addr
  <2>5. fifo \in 0 .. FifoSize
    BY <1>1, <1>2
  <2>6. card \in BOOLEAN
    BY <1>2, Zenon
  <2> QED
    BY <2>1, <2>2, <2>c, <2>3, <2>4, <2>5, <2>6 DEF HwType
<1>4. DrvType
  <2>1. kind \in [data : Direction, busy : BOOLEAN, sbc : BOOLEAN, stop : BOOLEAN]
    BY DEF DriverInit, NoKind, Direction
  <2>2. issued \in 0 .. MaxReq /\ elapsed \in Nat
    BY <1>1 DEF DriverInit
  <2>3. abandoned \in BOOLEAN
    BY Zenon DEF DriverInit
  <2>4. /\ mrq \in Addr /\ data \in {None, mrq} /\ pc = "idle" /\ phase = "cmd"
        /\ status = {} /\ data_status = {} /\ mapped = {}
    BY DEF DriverInit, Addr
  <2> QED
    BY <2>1, <2>2, <2>3, <2>4 DEF DrvType
<1>5. ControlInv /\ PulseInv
  BY <1>2 DEF DriverInit, ControlInv, PulseInv, NoKind
<1>6. PollInv
  BY <1>2 DEF DriverInit, PollInv, CmdMasterReset
<1>7. CmdStill /\ DataStill
  BY <1>2 DEF CmdStill, DataStill, Ended, Started, Enabled, Moving, CmdMasterReset,
     DataMasterReset, AxiReset
<1>8. CmdInv
  BY <1>7 DEF DriverInit, CmdInv
<1>9. DataInv
  <2>1. /\ axi.adr = regs.dma_addr /\ data_master.state = "IDLE"
        /\ data_master.int_status = {} /\ ~starter.rx /\ ~starter.tx /\ ~starter.prepare_tx
        /\ ~Started
    BY <1>2 DEF AxiReset, DataMasterReset, StarterReset, Started
  <2> QED
    BY <1>7, <2>1 DEF DriverInit, DataInv, DataPhase, NoKind
<1> QED
  BY <1>3, <1>4, <1>5, <1>6, <1>8, <1>9 DEF IInv, TypeInv

\* A request is given back: mmc_request_done.
LEMMA DoneLemma ==
  ASSUME IInv, NEW o, Done(o),
         pc \in {"setup", "poll", "finish", "isr"},
         ~regs.cmd_start, ~regs.cmd_int_rst, ~regs.data_int_rst,
         elapsed' = 0, status' \subseteq {"CC", "EI", "CTE"}, moved' = moved
  PROVE  IInv'
<1>1. /\ mrq' = None /\ data' = None /\ kind' = NoKind /\ phase' = "cmd" /\ pc' = "idle"
      /\ data_status' = {} /\ issued' = issued /\ abandoned' = (abandoned \/ ~Quiet)
      /\ mapped' = mapped \ {mrq} /\ UNCHANGED hw
  BY DEF Done
<1>2. UNCHANGED <<regs, cmd_master, cmd_host, starter, data_master, data_host, fifo, axi, card>>
  BY <1>1 DEF hw
<1>3. HwType /\ DrvType /\ HwType'
  BY <1>2 DEF IInv, TypeInv, HwType
<1>4. DrvType'
  <2>1. NoKind \in [data : Direction, busy : BOOLEAN, sbc : BOOLEAN, stop : BOOLEAN]
    BY DEF NoKind, Direction
  <2> QED
    BY <1>1, <1>3, <2>1 DEF DrvType, Addr
<1>5. ControlInv'
  BY <1>1 DEF ControlInv, NoKind
<1>6. PulseInv'
  BY <1>1, <1>2 DEF IInv, PulseInv
<1>7. PollInv'
  <2>1. cmd_master.watchdog \in Nat
    BY <1>3 DEF HwType, CmdMasterType
  <2> QED
    BY <1>1, <1>2, <2>1 DEF IInv, PollInv
<1>8. ~abandoned' => Quiet /\ Clean /\ CmdStill' /\ DataStill'
  <2>1. ~abandoned' => Quiet /\ Clean
    BY <1>1, Zenon DEF Clean
  <2>2. Quiet => CmdStill' /\ DataStill'
    BY <1>2 DEF Quiet, CmdStill, DataStill, Ended, Started, Moving, Enabled
  <2> QED
    BY <2>1, <2>2
<1>9. CmdInv'
  BY <1>1, <1>8 DEF CmdInv, Clean
<1>10. DataInv'
  <2>1. SUFFICES ASSUME ~abandoned' PROVE DataInv'
    BY <1>1 DEF DataInv, Clean
  <2>2. /\ ~starter'.rx /\ ~starter'.tx /\ ~starter'.prepare_tx
        /\ data_master'.state = "IDLE" /\ data_master'.int_status = {} /\ ~Started'
    BY <1>8, <2>1 DEF DataStill, Ended, StarterReset
  <2>3. axi'.adr = regs'.dma_addr
    BY <1>2, <1>8, <2>1 DEF IInv, DataInv
  <2>4. ~DataPhase'
    BY <1>1 DEF DataPhase, NoKind
  <2> QED
    BY <1>1, <1>8, <2>1, <2>2, <2>3, <2>4 DEF DataInv
<1> QED
  BY <1>3, <1>4, <1>5, <1>6, <1>7, <1>9, <1>10 DEF IInv, TypeInv

\* What the invariant says of the blocks does not depend on the registers that
\* a write other than the argument changes.
LEMMA StillLemma ==
  ASSUME UNCHANGED <<cmd_master, starter, data_master>>,
         regs'.cmd_start = regs.cmd_start,
         ~regs.cmd_start \/ regs'.command = regs.command,
         axi'.cyc = axi.cyc, axi'.bresp = axi.bresp
  PROVE  /\ CmdStill' <=> CmdStill
         /\ Started' <=> Started
         /\ Ended' <=> Ended
         /\ DataStill' <=> DataStill
         /\ Moving' <=> Moving
         /\ Enabled(data_master)' <=> Enabled(data_master)
<1>1. (CmdStill' <=> CmdStill) /\ (Started' <=> Started)
  BY DEF CmdStill, Started
<1>2. (Moving' <=> Moving) /\ (Enabled(data_master)' <=> Enabled(data_master))
  BY DEF Moving, Enabled
<1>3. Ended' <=> Ended
  BY <1>1 DEF Ended
<1> QED
  BY <1>1, <1>2, <1>3 DEF DataStill

\* sdc_request.
LEMMA RequestLemma ==
  ASSUME IInv, NEW k \in Kinds, sdc_request(k)
  PROVE  IInv'
<1>1. /\ pc = "idle" /\ mrq = None /\ pc' = "setup" /\ mrq' = issued + 1 /\ issued' = issued + 1
      /\ issued < MaxReq /\ kind' = k /\ data' = None /\ moved' = {}
      /\ phase' = IF k.sbc THEN "sbc" ELSE "cmd"
      /\ UNCHANGED <<hw, mapped, abandoned, status, data_status, elapsed>>
  BY DEF sdc_request
<1>2. UNCHANGED <<regs, cmd_master, cmd_host, starter, data_master, data_host, fifo, axi, card>>
  BY <1>1 DEF hw
<1>3. HwType /\ DrvType /\ HwType'
  BY <1>2 DEF IInv, TypeInv, HwType
<1>4. mrq' \in Request /\ issued' \in 0 .. MaxReq /\ mrq' # None
  BY <1>1, <1>3, RequestAssumption DEF DrvType, Request
<1>5. DrvType'
  BY <1>1, <1>3, <1>4, KindsAssumption DEF DrvType, Addr, Direction
<1>6. kind.data = "none" /\ phase = "cmd" /\ data_status = {} /\ phase' \in {"sbc", "cmd"}
  BY <1>1 DEF IInv, ControlInv
<1>7. ControlInv'
  BY <1>1, <1>4, <1>6 DEF ControlInv
<1>8. PulseInv' /\ PollInv'
  BY <1>1, <1>2 DEF IInv, PulseInv, PollInv
<1>9. /\ Clean' => Clean /\ (CmdStill' <=> CmdStill) /\ (DataStill' <=> DataStill)
      /\ Started' <=> Started
  BY <1>1, <1>2, StillLemma DEF Clean
<1>10. CmdInv'
  BY <1>1, <1>9 DEF IInv, CmdInv
<1>11. DataInv'
  <2>1. SUFFICES ASSUME Clean' PROVE DataInv'
    BY DEF DataInv
  <2>2. DataStill /\ DataStill' /\ axi.adr = regs.dma_addr
    BY <1>1, <1>6, <1>9, <2>1 DEF IInv, DataInv, DataPhase
  <2>3. /\ ~starter'.rx /\ ~starter'.tx /\ ~starter'.prepare_tx
        /\ data_master'.state = "IDLE" /\ data_master'.int_status = {} /\ ~Started'
    BY <2>2 DEF DataStill, Ended, StarterReset
  <2>4. ~DataPhase'
    BY <1>1, <1>6 DEF DataPhase
  <2> QED
    BY <1>1, <1>2, <1>6, <2>2, <2>3, <2>4 DEF DataInv
<1> QED
  BY <1>3, <1>5, <1>7, <1>8, <1>10, <1>11 DEF IInv, TypeInv

\* The registers before the argument.
LEMMA SetupLemma ==
  ASSUME IInv, Setup
  PROVE  IInv'
<1> DEFINE c == [cmd |-> Cmd, data |-> IF HasData THEN kind.data ELSE "none",
                 busy |-> phase = "stop" \/ (phase = "cmd" /\ kind.busy)]
           a == IF HasData THEN mrq ELSE regs.dma_addr
           r == [regs EXCEPT !.command = c, !.dma_addr = a]
<1>1. /\ pc = "setup" /\ pc' = "start" /\ WriteRegs(r)
      /\ mapped' = IF HasData THEN mapped \cup {mrq} ELSE mapped
      /\ UNCHANGED <<issued, mrq, kind, data, result, abandoned, phase, status, data_status,
                     elapsed, moved>>
  BY DEF Setup
<1>2. HwType /\ DrvType /\ regs \in RegsType /\ mrq # None /\ mrq \in Request
  BY <1>1 DEF IInv, TypeInv, HwType, DrvType, ControlInv, Addr
<1>3. c \in [cmd : Tag, data : Direction, busy : BOOLEAN]
  <2>1. Cmd \in Tag
    BY <1>2 DEF Cmd, Tag, DrvType, Addr
  <2>2. (IF HasData THEN kind.data ELSE "none") \in Direction
    BY <1>2 DEF DrvType, Direction
  <2>3. (phase = "stop" \/ (phase = "cmd" /\ kind.busy)) \in BOOLEAN
    OBVIOUS
  <2> QED
    BY <2>1, <2>2, <2>3
<1>4. a \in Addr
  BY <1>2 DEF RegsType, DrvType
<1>5. /\ c.cmd = Cmd /\ c.data = IF HasData THEN kind.data ELSE "none"
  OBVIOUS
<1> HIDE DEF c
<1>6. /\ r \in RegsType /\ r.command = c /\ r.dma_addr = a
      /\ r.cmd_start = regs.cmd_start /\ r.cmd_int_rst = regs.cmd_int_rst
      /\ r.data_int_rst = regs.data_int_rst /\ r.software_reset = regs.software_reset
      /\ r.ctrl_rst = regs.ctrl_rst
  BY <1>2, <1>3, <1>4, Zenon DEF RegsType
<1> HIDE DEF r
<1>7. /\ HwType' /\ regs' = r
      /\ axi'.cyc = axi.cyc /\ axi'.bresp = axi.bresp
      /\ axi'.adr = IF axi.cyc = "none" /\ ~Enabled(data_master) THEN a ELSE axi.adr
      /\ UNCHANGED <<cmd_master, cmd_host, starter, data_master, data_host, fifo, card>>
  BY <1>1, <1>2, <1>6, WriteRegsLemma
<1>8. DrvType'
  BY <1>1, <1>2 DEF DrvType
<1>9. ~regs.cmd_start /\ ~regs.cmd_int_rst /\ ~regs.data_int_rst /\ ~regs.software_reset
      /\ ~regs.ctrl_rst
  BY <1>1 DEF IInv, PulseInv
<1>10. Cmd' = Cmd /\ (HasData' <=> HasData)
  BY <1>1 DEF Cmd, HasData
<1>11. ControlInv'
  BY <1>1, <1>2, <1>5, <1>6, <1>7, <1>10 DEF IInv, ControlInv
<1>12. PulseInv' /\ PollInv'
  <2>1. ~regs'.cmd_start /\ ~regs'.cmd_int_rst /\ ~regs'.data_int_rst
        /\ ~regs'.software_reset /\ ~regs'.ctrl_rst
    BY <1>6, <1>7, <1>9
  <2>2. elapsed = 0 /\ elapsed' = 0
    BY <1>1 DEF IInv, PollInv
  <2> QED
    BY <1>1, <1>7, <2>1, <2>2 DEF IInv, PulseInv, PollInv
<1>13. /\ CmdStill' <=> CmdStill
       /\ Started' <=> Started
       /\ Ended' <=> Ended
       /\ DataStill' <=> DataStill
       /\ Moving' <=> Moving
       /\ Enabled(data_master)' <=> Enabled(data_master)
  BY <1>6, <1>7, <1>9, StillLemma
<1>14. CmdInv'
  BY <1>1, <1>13, ZenonT(30) DEF IInv, CmdInv, Clean
<1>15. DataInv'
  <2>1. SUFFICES ASSUME Clean' PROVE DataInv'
    BY DEF DataInv
  <2>2. Clean
    BY <1>1, <2>1 DEF Clean
  <2>3. DataPhase' <=> DataPhase
    BY <1>1 DEF DataPhase
  <2>4. DataPhase' => regs'.dma_addr = mrq' /\ mrq' \in mapped'
    BY <1>1, <1>6, <1>7, <2>2, <2>3 DEF IInv, DataInv, DataPhase, HasData
  <2>5. axi'.adr = regs'.dma_addr
    <3>1. CASE HasData
      <4>1. ~DataPhase
        BY <1>1, <3>1 DEF HasData, DataPhase
      <4>2. DataStill
        BY <2>2, <4>1, Zenon DEF IInv, DataInv
      <4> QED
        BY <1>6, <1>7, <4>2, Zenon DEF DataStill, Moving
    <3>2. CASE ~HasData
      BY <1>1, <1>6, <1>7, <2>2, <3>2, Zenon DEF IInv, DataInv
    <3> QED
      BY <3>1, <3>2
  <2> QED
    BY <1>1, <1>7, <1>9, <1>13, <2>2, <2>3, <2>4, <2>5, Zenon DEF IInv, DataInv, Started
<1> QED
  BY <1>7, <1>8, <1>11, <1>12, <1>14, <1>15 DEF IInv, TypeInv

\* Writing the argument starts the command.
LEMMA StartLemma ==
  ASSUME IInv, Start
  PROVE  IInv'
<1>1. /\ pc = "start" /\ pc' = "poll"
      /\ regs' = [regs EXCEPT !.cmd_start = TRUE] /\ axi' = [axi EXCEPT !.error = FALSE]
      /\ UNCHANGED <<cmd_master, cmd_host, starter, data_master, data_host, fifo, card>>
      /\ UNCHANGED <<issued, mrq, kind, data, result, mapped, abandoned>>
      /\ UNCHANGED <<phase, status, data_status, elapsed, moved>>
  BY DEF Start, WriteArgument, request
<1>2. HwType /\ DrvType /\ regs \in RegsType /\ axi \in AxiType
  BY DEF IInv, TypeInv, HwType
<1>3. /\ regs' \in RegsType /\ regs'.cmd_start /\ regs'.command = regs.command
      /\ regs'.dma_addr = regs.dma_addr /\ regs'.cmd_int_rst = regs.cmd_int_rst
      /\ regs'.data_int_rst = regs.data_int_rst
      /\ regs'.software_reset = regs.software_reset /\ regs'.ctrl_rst = regs.ctrl_rst
  BY <1>1, <1>2, Zenon DEF RegsType
<1>4. axi' \in AxiType /\ axi'.cyc = axi.cyc /\ axi'.bresp = axi.bresp /\ axi'.adr = axi.adr
  BY <1>1, <1>2, Zenon DEF AxiType
<1>5. HwType' /\ DrvType'
  BY <1>1, <1>2, <1>3, <1>4 DEF HwType, DrvType
<1>6. ~regs.cmd_start /\ ~regs.cmd_int_rst /\ ~regs.data_int_rst /\ ~regs.software_reset
      /\ ~regs.ctrl_rst
  BY <1>1 DEF IInv, PulseInv
<1>7. Cmd' = Cmd /\ (HasData' <=> HasData)
  BY <1>1 DEF Cmd, HasData
<1>8. ControlInv'
  BY <1>1, <1>3, <1>7 DEF IInv, ControlInv
<1>9. PulseInv' /\ PollInv'
  <2>1. elapsed = 0 /\ elapsed' = 0
    BY <1>1 DEF IInv, PollInv
  <2> QED
    BY <1>1, <1>3, <1>6, <2>1 DEF IInv, PulseInv, PollInv
<1>10. /\ CmdStill' <=> CmdStill
       /\ Moving' <=> Moving
       /\ Enabled(data_master)' <=> Enabled(data_master)
       /\ Started' => HasData
  BY <1>1, <1>3, <1>4 DEF IInv, ControlInv, CmdStill, Moving, Enabled, Started
<1>11. Clean' <=> Clean
  BY <1>1 DEF Clean
<1>12. CmdInv'
  BY <1>1, <1>10, <1>11 DEF IInv, CmdInv, CmdStill
<1>13. DataInv'
  <2>1. SUFFICES ASSUME Clean' PROVE DataInv'
    BY DEF DataInv
  <2>2. HasData => DataStill
    BY <1>1, <1>11, <2>1 DEF IInv, DataInv, DataPhase, HasData
  <2>3. HasData => starter = StarterReset /\ data_master.state = "IDLE"
                   /\ data_master.int_status = {} /\ data_status = {}
    BY <1>1, <2>2 DEF IInv, ControlInv, DataStill, Ended, HasData
  <2>4. DataPhase' <=> DataPhase \/ HasData
    BY <1>1 DEF IInv, ControlInv, DataPhase, HasData
  <2>5. ~DataPhase' => DataStill'
    BY <1>1, <1>10, <1>11, <2>1, <2>4 DEF IInv, DataInv, DataStill, Ended
  <2>6. DataPhase' => regs'.dma_addr = mrq' /\ mrq' \in mapped'
    BY <1>1, <1>3, <1>11, <2>1, <2>4 DEF IInv, DataInv, ControlInv
  <2>7. phase = "stop" => Ended' /\ ~HasData
    BY <1>1, <1>10, <1>11, <2>1 DEF IInv, DataInv, Ended, HasData
  <2>8. /\ axi.adr = regs.dma_addr
        /\ Started' => starter = StarterReset /\ data_master.state = "IDLE"
                       /\ data_master.int_status = {}
    BY <1>1, <1>10, <1>11, <2>1, <2>3 DEF IInv, DataInv
  <2> QED
    BY <1>1, <1>3, <1>4, <1>10, <1>11, <2>1, <2>5, <2>6, <2>7, <2>8
       DEF IInv, DataInv
<1> QED
  BY <1>5, <1>8, <1>9, <1>12, <1>13 DEF IInv, TypeInv

\* A write that raises a pulse or moves an enable bit leaves the rest alone.
LEMMA PulseWriteLemma ==
  ASSUME HwType, NEW r \in RegsType, WriteRegs(r),
         r.command = regs.command, r.dma_addr = regs.dma_addr, r.cmd_start = regs.cmd_start
  PROVE  /\ HwType' /\ regs' = r
         /\ CmdStill' <=> CmdStill
         /\ Started' <=> Started
         /\ Ended' <=> Ended
         /\ DataStill' <=> DataStill
         /\ Moving' <=> Moving
         /\ Enabled(data_master)' <=> Enabled(data_master)
         /\ axi'.adr \in {axi.adr, regs.dma_addr}
         /\ axi.cyc = "none" /\ ~Enabled(data_master) => axi'.adr = regs.dma_addr
         /\ UNCHANGED <<cmd_master, starter, data_master>>
<1>1. /\ HwType' /\ regs' = r /\ axi'.cyc = axi.cyc /\ axi'.bresp = axi.bresp
      /\ axi'.adr = IF axi.cyc = "none" /\ ~Enabled(data_master)
                    THEN r.dma_addr ELSE axi.adr
      /\ UNCHANGED <<cmd_master, starter, data_master>>
  BY WriteRegsLemma, Zenon
<1> QED
  BY <1>1, StillLemma, ZenonT(30)

\* sdc_cmd_finish sees a status and clears it.
LEMMA PollLemma ==
  ASSUME IInv, Poll
  PROVE  IInv'
<1> DEFINE r == [regs EXCEPT !.cmd_int_rst = TRUE]
<1>1. /\ pc = "poll" /\ pc' = "finish" /\ WriteRegs(r) /\ elapsed' = 0
      /\ cmd_int_status # {} /\ status' = cmd_int_status
      /\ UNCHANGED <<issued, mrq, kind, data, result, mapped, abandoned>>
      /\ UNCHANGED <<phase, data_status, moved>>
  BY DEF Poll, request
<1>2. HwType /\ DrvType /\ regs \in RegsType /\ cmd_master \in CmdMasterType
  BY DEF IInv, TypeInv, HwType
<1>3. /\ r \in RegsType /\ r.command = regs.command /\ r.dma_addr = regs.dma_addr
      /\ r.cmd_start = regs.cmd_start /\ r.cmd_int_rst /\ r.data_int_rst = regs.data_int_rst
      /\ r.software_reset = regs.software_reset /\ r.ctrl_rst = regs.ctrl_rst
  BY <1>2, Zenon DEF RegsType
<1> HIDE DEF r
<1>4. /\ HwType' /\ regs' = r
      /\ CmdStill' <=> CmdStill
      /\ Started' <=> Started
      /\ Ended' <=> Ended
      /\ DataStill' <=> DataStill
      /\ Moving' <=> Moving
      /\ Enabled(data_master)' <=> Enabled(data_master)
      /\ axi'.adr \in {axi.adr, regs.dma_addr}
      /\ UNCHANGED <<cmd_master, starter, data_master>>
  BY <1>1, <1>2, <1>3, PulseWriteLemma
<1>5. /\ cmd_master.state = "IDLE" /\ status' = cmd_master.int_status
      /\ cmd_master.int_status # {}
  BY <1>1 DEF cmd_int_status
<1>6. DrvType'
  BY <1>1, <1>2, <1>5 DEF DrvType, CmdMasterType
<1>7. Cmd' = Cmd /\ (HasData' <=> HasData) /\ (Clean' <=> Clean) /\ (DataPhase' <=> DataPhase)
  BY <1>1 DEF Cmd, HasData, Clean, DataPhase
<1>8. ControlInv'
  BY <1>1, <1>3, <1>4, <1>7, ZenonT(30) DEF IInv, ControlInv
<1>9. PulseInv' /\ PollInv'
  BY <1>1, <1>3, <1>4, <1>5, Zenon DEF IInv, PulseInv, PollInv
<1>10. CmdInv'
  <2>1. Clean => ~regs.cmd_start /\ ("CC" \in status' => cmd_master.response = Cmd)
    BY <1>1, <1>5, ZenonT(30) DEF IInv, CmdInv, CmdStill
  <2> QED
    BY <1>1, <1>3, <1>4, <1>5, <1>7, <2>1, ZenonT(30) DEF CmdInv
<1>11. DataInv'
  BY <1>1, <1>3, <1>4, <1>7, Zenon DEF IInv, DataInv
<1> QED
  BY <1>4, <1>6, <1>8, <1>9, <1>10, <1>11 DEF IInv, TypeInv

\* The clear has taken effect and sdc_send_cmd returns.
LEMMA FinishLemma ==
  ASSUME IInv, Finish
  PROVE  IInv'
<1>1. /\ pc = "finish" /\ ~regs.cmd_start /\ ~regs.data_int_rst /\ ~regs.cmd_int_rst
      /\ ~regs.ctrl_rst /\ SendReturns(status = {"CC"}) /\ status' = {}
      /\ UNCHANGED <<elapsed, moved>>
  BY ResetRegLemma DEF Finish
<1>2. elapsed = 0 /\ ~regs.software_reset /\ mrq # None
  BY <1>1, Zenon DEF IInv, PollInv, PulseInv, ControlInv
<1>3. HwType /\ DrvType /\ regs \in RegsType
  BY DEF IInv, TypeInv, HwType
<1>4. Clean => CmdStill
  BY <1>1 DEF IInv, CmdInv, CmdStill
<1>5. CASE \E o \in {"ok", "error"} : Done(o)
  BY <1>1, <1>2, <1>5, DoneLemma
<1>6. CASE /\ phase = "sbc" /\ phase' = "cmd" /\ pc' = "setup"
           /\ UNCHANGED <<hw, request, data_status>>
  <2>1. /\ UNCHANGED <<regs, cmd_master, cmd_host, starter, data_master, data_host, fifo>>
        /\ UNCHANGED <<axi, card, issued, mrq, kind, data, result, mapped, abandoned>>
        /\ UNCHANGED data_status
    BY <1>6 DEF hw, request
  <2>2. HwType' /\ DrvType'
    BY <1>1, <1>3, <1>6, <2>1 DEF HwType, DrvType
  <2>3. ControlInv' /\ data_status = {}
    BY <1>1, <1>2, <1>6, <2>1 DEF IInv, ControlInv
  <2>4. PulseInv' /\ PollInv'
    BY <1>1, <1>2, <1>6, <2>1 DEF IInv, PulseInv, PollInv
  <2>5. /\ CmdStill' <=> CmdStill
        /\ Started' <=> Started
        /\ Ended' <=> Ended
        /\ DataStill' <=> DataStill
        /\ Moving' <=> Moving
        /\ Enabled(data_master)' <=> Enabled(data_master)
    BY <2>1, StillLemma
  <2>6. (Clean' <=> Clean) /\ ~DataPhase /\ ~DataPhase'
    BY <1>1, <1>6, <2>1 DEF Clean, DataPhase
  <2>7. CmdInv'
    BY <1>4, <1>6, <2>5, <2>6 DEF CmdInv
  <2>8. DataInv'
    BY <1>1, <1>6, <2>1, <2>3, <2>5, <2>6 DEF IInv, DataInv
  <2> QED
    BY <2>2, <2>3, <2>4, <2>7, <2>8 DEF IInv, TypeInv
<1>7. CASE /\ HasData /\ data' = mrq /\ pc' = "idle"
           /\ WriteRegs([regs EXCEPT !.data_int_enable = TRUE])
           /\ UNCHANGED <<phase, issued, mrq, kind, result, mapped, abandoned, data_status>>
  <2> DEFINE r == [regs EXCEPT !.data_int_enable = TRUE]
  <2>1. /\ r \in RegsType /\ r.command = regs.command /\ r.dma_addr = regs.dma_addr
        /\ r.cmd_start = regs.cmd_start /\ r.cmd_int_rst = regs.cmd_int_rst
        /\ r.data_int_rst = regs.data_int_rst
        /\ r.software_reset = regs.software_reset /\ r.ctrl_rst = regs.ctrl_rst
    BY <1>3, Zenon DEF RegsType
  <2>2. WriteRegs(r)
    BY <1>7
  <2> HIDE DEF r
  <2>3. /\ HwType' /\ regs' = r
        /\ CmdStill' <=> CmdStill
        /\ Started' <=> Started
        /\ Ended' <=> Ended
        /\ DataStill' <=> DataStill
        /\ Moving' <=> Moving
        /\ Enabled(data_master)' <=> Enabled(data_master)
        /\ axi'.adr \in {axi.adr, regs.dma_addr}
        /\ UNCHANGED <<cmd_master, starter, data_master>>
    BY <1>3, <2>1, <2>2, PulseWriteLemma
  <2>4. DrvType'
    BY <1>1, <1>3, <1>7 DEF DrvType
  <2>5. ControlInv' /\ data_status = {}
    BY <1>1, <1>2, <1>7 DEF IInv, ControlInv, HasData
  <2>6. PulseInv' /\ PollInv'
    BY <1>1, <1>2, <1>7, <2>1, <2>3 DEF IInv, PulseInv, PollInv
  <2>7. (Clean' <=> Clean) /\ DataPhase /\ DataPhase'
    BY <1>1, <1>7 DEF Clean, DataPhase, HasData
  <2>8. CmdInv'
    BY <1>4, <1>7, <2>3, <2>7 DEF CmdInv
  <2>9. DataInv'
    BY <1>1, <1>7, <2>1, <2>3, <2>5, <2>7 DEF IInv, DataInv
  <2> QED
    BY <2>3, <2>4, <2>5, <2>6, <2>8, <2>9 DEF IInv, TypeInv
<1>8. \/ \E o \in {"ok", "error"} : Done(o)
      \/ /\ phase = "sbc" /\ phase' = "cmd" /\ pc' = "setup"
         /\ UNCHANGED <<hw, request, data_status>>
      \/ /\ HasData /\ data' = mrq /\ pc' = "idle"
         /\ WriteRegs([regs EXCEPT !.data_int_enable = TRUE])
         /\ UNCHANGED <<phase, issued, mrq, kind, result, mapped, abandoned, data_status>>
  BY <1>1 DEF SendReturns, DataOutcome
<1> QED
  BY <1>5, <1>6, <1>7, <1>8

\* The software deadline ends the poll, or the buffer is refused.
LEMMA GivenUpLemma ==
  ASSUME IInv, Expire \/ RefuseData
  PROVE  IInv'
<1>1. DrvType
  BY DEF IInv, TypeInv
<1>2. CASE Expire
  <2>1. pc = "poll" /\ elapsed >= Deadline /\ elapsed' = 0
        /\ UNCHANGED <<status, moved>> /\ SendReturns(FALSE)
    BY <1>2, Zenon DEF Expire
  <2>2. ~regs.cmd_start
    BY <1>1, <2>1, DeadlineAssumption, TimeoutAssumption DEF IInv, PollInv, DrvType
  <2>3. ~regs.cmd_int_rst /\ ~regs.data_int_rst
    BY <2>1 DEF IInv, PulseInv
  <2>4. Done("error")
    BY <2>1 DEF SendReturns
  <2> QED
    BY <1>1, <2>1, <2>2, <2>3, <2>4, DoneLemma DEF DrvType
<1>3. CASE RefuseData
  <2>1. pc = "setup" /\ Done("error") /\ UNCHANGED <<status, elapsed, moved>>
    BY <1>3 DEF RefuseData
  <2>2. ~regs.cmd_start /\ ~regs.cmd_int_rst /\ ~regs.data_int_rst /\ elapsed = 0
    BY <2>1 DEF IInv, PulseInv, PollInv
  <2> QED
    BY <1>1, <2>1, <2>2, DoneLemma DEF DrvType
<1> QED
  BY <1>2, <1>3

\* sdc_isr reads the data status and clears it.
LEMMA IsrEntryLemma ==
  ASSUME IInv, IsrEntry
  PROVE  IInv'
<1> DEFINE r == [regs EXCEPT !.data_int_enable = FALSE, !.data_int_rst = TRUE]
<1>1. /\ pc = "idle" /\ pc' = "isr" /\ WriteRegs(r)
      /\ data_int_status # {} /\ data_status' = data_int_status
      /\ UNCHANGED <<issued, mrq, kind, data, result, mapped, abandoned>>
      /\ UNCHANGED <<phase, status, elapsed, moved>>
  BY DEF IsrEntry, request
<1>2. HwType /\ DrvType /\ regs \in RegsType /\ data_master \in DataMasterType
      /\ starter \in StarterType
  BY DEF IInv, TypeInv, HwType
<1>3. /\ r \in RegsType /\ r.command = regs.command /\ r.dma_addr = regs.dma_addr
      /\ r.cmd_start = regs.cmd_start /\ r.cmd_int_rst = regs.cmd_int_rst /\ r.data_int_rst
      /\ r.software_reset = regs.software_reset /\ r.ctrl_rst = regs.ctrl_rst
  BY <1>2, Zenon DEF RegsType
<1> HIDE DEF r
<1>4. /\ HwType' /\ regs' = r
      /\ CmdStill' <=> CmdStill
      /\ Started' <=> Started
      /\ Ended' <=> Ended
      /\ DataStill' <=> DataStill
      /\ Moving' <=> Moving
      /\ Enabled(data_master)' <=> Enabled(data_master)
      /\ axi'.adr \in {axi.adr, regs.dma_addr}
      /\ UNCHANGED <<cmd_master, starter, data_master>>
  BY <1>1, <1>2, <1>3, PulseWriteLemma
<1>5. /\ data_master.int_status # {} /\ data_status' \subseteq data_master.int_status
      /\ data_status' = {"CC"} => /\ data_master.int_status = {"CC"}
                                  /\ ~Enabled(data_master) /\ ~Moving
  BY <1>1 DEF data_int_status
<1>6. DrvType'
  BY <1>1, <1>2, <1>5 DEF DrvType, DataMasterType
<1>7. (Clean' <=> Clean) /\ (DataPhase' <=> DataPhase)
  BY <1>1 DEF Clean, DataPhase
<1>8. ControlInv'
  BY <1>1 DEF IInv, ControlInv
<1>9. PulseInv' /\ PollInv'
  BY <1>1, <1>3, <1>4 DEF IInv, PulseInv, PollInv
<1>10. CmdInv'
  BY <1>1, <1>4, <1>7, ZenonT(30) DEF IInv, CmdInv
<1>11. DataInv'
  <2>1. SUFFICES ASSUME Clean PROVE DataInv'
    BY <1>7, Zenon DEF DataInv
  <2>2. Ended
    <3>1. data_master.state = "IDLE" /\ ~Started
          /\ ~starter.rx /\ ~starter.tx /\ ~starter.prepare_tx
      BY <1>5, <2>1, ZenonT(30) DEF IInv, DataInv
    <3> QED
      BY <1>2, <3>1, StarterResetLemma DEF Ended
  <2>3. DataPhase /\ phase # "stop"
    BY <1>1, <1>5, <2>1, ZenonT(30) DEF IInv, DataInv, DataStill, ControlInv
  <2>4. data_status' = {"CC"} => mrq \in moved /\ ~Enabled(data_master) /\ ~Moving
    BY <1>5, <2>1, Zenon DEF IInv, DataInv
  <2> QED
    BY <1>1, <1>3, <1>4, <1>5, <1>7, <2>1, <2>2, <2>3, <2>4, ZenonT(30) DEF IInv, DataInv
<1> QED
  BY <1>4, <1>6, <1>8, <1>9, <1>10, <1>11 DEF IInv, TypeInv

\* sdc_isr goes on once the clear has taken effect.
LEMMA IsrReturnLemma ==
  ASSUME IInv, IsrStop \/ IsrDone \/ IsrSpurious
  PROVE  IInv'
<1>1. HwType /\ DrvType
  BY DEF IInv, TypeInv
<1>2. /\ pc = "isr" /\ ~regs.cmd_start /\ ~regs.data_int_rst /\ ~regs.cmd_int_rst
      /\ ~regs.ctrl_rst
  BY ResetRegLemma DEF IsrStop, IsrDone, IsrSpurious
<1>3. elapsed = 0 /\ ~regs.software_reset /\ data = mrq /\ phase = "cmd"
  BY <1>2 DEF IInv, PollInv, PulseInv, ControlInv
<1>4. CASE IsrDone
  <2>1. UNCHANGED <<status, elapsed, moved>> /\ Done(DataOutcome)
    BY <1>4 DEF IsrDone
  <2> QED
    BY <1>1, <1>2, <1>3, <2>1, DoneLemma DEF DrvType
<1>5. CASE IsrStop \/ IsrSpurious
  <2>1. /\ UNCHANGED <<regs, cmd_master, cmd_host, starter, data_master, data_host, fifo>>
        /\ UNCHANGED <<axi, card, issued, mrq, kind, data, result, mapped, abandoned>>
        /\ UNCHANGED <<status, elapsed, moved>>
    BY <1>5 DEF IsrStop, IsrSpurious, hw, request
  <2>2. \/ /\ data # None /\ phase' = "stop" /\ pc' = "setup" /\ data_status' = data_status
        \/ /\ data = None /\ phase' = "cmd" /\ pc' = "idle" /\ data_status' = {}
    BY <1>3, <1>5 DEF IsrStop, IsrSpurious
  <2>3. HwType' /\ DrvType'
    BY <1>1, <2>1, <2>2, ZenonT(30) DEF HwType, DrvType
  <2>4. ControlInv'
    BY <1>2, <1>3, <2>1, <2>2, Zenon DEF IInv, ControlInv
  <2>5. PulseInv' /\ PollInv'
    BY <1>2, <1>3, <2>1, <2>2, Zenon DEF IInv, PulseInv, PollInv
  <2>6. /\ CmdStill' <=> CmdStill
        /\ Started' <=> Started
        /\ Ended' <=> Ended
        /\ DataStill' <=> DataStill
        /\ Moving' <=> Moving
        /\ Enabled(data_master)' <=> Enabled(data_master)
    BY <2>1, StillLemma
  <2>7. Clean' <=> Clean
    BY <1>2, <2>1, <2>2 DEF Clean
  <2>8. CmdInv'
    BY <1>2, <2>2, <2>6, <2>7 DEF IInv, CmdInv
  <2>9. DataInv'
    <3>1. SUFFICES ASSUME Clean PROVE DataInv'
      BY <2>7, ZenonT(30) DEF DataInv
    <3>2. Ended /\ data_master.int_status = {}
      BY <1>2, <3>1, Zenon DEF IInv, DataInv
    <3>3. DataPhase' <=> DataPhase
      BY <1>2, <1>3, <2>1, <2>2 DEF DataPhase
    <3> QED
      BY <1>2, <2>1, <2>2, <2>6, <2>7, <3>1, <3>2, <3>3, ZenonT(30) DEF IInv, DataInv
  <2> QED
    BY <2>3, <2>4, <2>5, <2>8, <2>9 DEF IInv, TypeInv
<1> QED
  BY <1>4, <1>5

\* sdc_reset_locked.
LEMMA ResetLemma ==
  ASSUME IInv, ResetAssert \/ ResetRelease \/ ResetClear
  PROVE  IInv'
<1>1. HwType /\ DrvType /\ regs \in RegsType
  BY DEF IInv, TypeInv, HwType
<1>2. PICK from, to, r :
        /\ pc = from /\ pc' = to /\ WriteRegs(r)
        /\ \/ /\ from = "idle" /\ to = "asserted" /\ mrq = None
              /\ r = [regs EXCEPT !.software_reset = TRUE]
           \/ /\ from = "asserted" /\ to = "released" /\ regs.ctrl_rst
              /\ r = [regs EXCEPT !.software_reset = FALSE]
           \/ /\ from = "released" /\ to = "cleared" /\ ~regs.ctrl_rst
              /\ r = [regs EXCEPT !.data_int_enable = FALSE, !.cmd_int_rst = TRUE,
                                  !.data_int_rst = TRUE]
        /\ UNCHANGED <<issued, mrq, kind, data, result, mapped, abandoned>>
        /\ UNCHANGED <<phase, status, data_status, elapsed, moved>>
  BY ResetRegLemma DEF ResetAssert, ResetRelease, ResetClear, ResetStep, request
<1>3. /\ r \in RegsType /\ r.command = regs.command /\ r.dma_addr = regs.dma_addr
      /\ r.cmd_start = regs.cmd_start /\ r.ctrl_rst = regs.ctrl_rst
      /\ r.cmd_int_rst => regs.cmd_int_rst \/ to = "cleared"
      /\ r.data_int_rst => regs.data_int_rst \/ to = "cleared"
      /\ r.software_reset => to = "asserted" \/ (regs.software_reset /\ to = "cleared")
  BY <1>1, <1>2, ZenonT(30) DEF RegsType
<1>4. /\ HwType' /\ regs' = r
      /\ CmdStill' <=> CmdStill
      /\ Started' <=> Started
      /\ Ended' <=> Ended
      /\ DataStill' <=> DataStill
      /\ Moving' <=> Moving
      /\ Enabled(data_master)' <=> Enabled(data_master)
      /\ axi'.adr \in {axi.adr, regs.dma_addr}
      /\ axi.cyc = "none" /\ ~Enabled(data_master) => axi'.adr = regs.dma_addr
      /\ UNCHANGED <<cmd_master, starter, data_master>>
  BY <1>1, <1>2, <1>3, PulseWriteLemma
<1>5. DrvType' /\ mrq = None
  BY <1>1, <1>2 DEF IInv, ControlInv, DrvType
<1>6. ControlInv'
  BY <1>2, <1>5 DEF IInv, ControlInv
<1>7. Clean' => CmdStill /\ DataStill
  <2>1. ~DataPhase
    BY <1>5 DEF IInv, ControlInv, DataPhase
  <2>2. Clean => CmdStill /\ DataStill
    BY <1>2, <2>1 DEF IInv, CmdInv, DataInv
  <2>3. from = "asserted" => CmdStill /\ DataStill
    BY <1>2 DEF IInv, CmdInv
  <2> QED
    BY <1>2, <2>2, <2>3 DEF Clean
<1>8. to = "cleared" => cmd_master.state = "IDLE"
  BY <1>2, <1>7 DEF Clean, CmdStill
<1>9. PulseInv' /\ PollInv'
  BY <1>2, <1>3, <1>4, <1>8 DEF IInv, PulseInv, PollInv
<1>10. CmdInv'
  BY <1>2, <1>3, <1>4, <1>7 DEF IInv, PulseInv, CmdInv
<1>11. DataInv'
  <2>1. SUFFICES ASSUME Clean' PROVE DataInv'
    BY DEF DataInv
  <2>2. /\ ~starter'.rx /\ ~starter'.tx /\ ~starter'.prepare_tx
        /\ data_master'.state = "IDLE" /\ data_master'.int_status = {} /\ ~Started'
        /\ DataStill'
    <3>1. DataStill'
      BY <1>4, <1>7, <2>1, Zenon
    <3>2. /\ data_master'.state = "IDLE" /\ data_master'.int_status = {}
          /\ starter' = StarterReset /\ ~Started'
      BY <3>1 DEF DataStill, Ended, StarterReset
    <3> QED
      BY <3>1, <3>2 DEF StarterReset
  <2>3. ~DataPhase' /\ phase' = "cmd" /\ data_status' = {}
    BY <1>2, <1>5 DEF IInv, ControlInv, DataPhase
  <2>4. to = "cleared" => axi'.adr = regs'.dma_addr
    BY <1>3, <1>4, <1>7, <2>1 DEF DataStill, Moving
  <2> QED
    BY <1>2, <2>2, <2>3, <2>4 DEF DataInv
<1> QED
  BY <1>4, <1>5, <1>6, <1>9, <1>10, <1>11 DEF IInv, TypeInv

\* The reset is through: nothing of an abandoned request is left.
LEMMA ResetDoneLemma ==
  ASSUME IInv, ResetDone
  PROVE  IInv'
<1>1. /\ pc = "cleared" /\ pc' = "idle" /\ abandoned' = FALSE
      /\ ~regs.cmd_start /\ ~regs.data_int_rst /\ ~regs.cmd_int_rst
      /\ UNCHANGED <<regs, cmd_master, cmd_host, starter, data_master, data_host, fifo>>
      /\ UNCHANGED <<axi, card, issued, mrq, kind, data, result, mapped>>
      /\ UNCHANGED <<phase, status, data_status, elapsed, moved>>
  BY ResetRegLemma DEF ResetDone, hw
<1>2. HwType' /\ DrvType'
  BY <1>1, Zenon DEF IInv, TypeInv, HwType, DrvType
<1>3. ControlInv' /\ mrq = None /\ phase = "cmd"
  BY <1>1 DEF IInv, ControlInv
<1>4. PulseInv' /\ PollInv'
  BY <1>1 DEF IInv, PulseInv, PollInv
<1>5. /\ CmdStill' <=> CmdStill
      /\ Started' <=> Started
      /\ Ended' <=> Ended
      /\ DataStill' <=> DataStill
      /\ Moving' <=> Moving
      /\ Enabled(data_master)' <=> Enabled(data_master)
  BY <1>1, StillLemma
<1>6. Clean
  BY <1>1 DEF Clean
<1>7. CmdInv'
  BY <1>1, <1>5, <1>6 DEF IInv, CmdInv
<1>8. DataInv'
  <2>1. ~DataPhase /\ ~DataPhase'
    BY <1>1, <1>3, ZenonT(30) DEF IInv, ControlInv, DataPhase
  <2> QED
    BY <1>1, <1>3, <1>5, <1>6, <2>1, ZenonT(30) DEF IInv, DataInv
<1> QED
  BY <1>2, <1>3, <1>4, <1>7, <1>8 DEF IInv, TypeInv

\* A step of the AXI master.
LEMMA AxiPreserves ==
  ASSUME IInv, Axi
  PROVE  IInv'
<1>1. HwType /\ DrvType
  BY DEF IInv, TypeInv
<1>2. /\ UNCHANGED <<pc, issued, mrq, kind, data, result, mapped, abandoned>>
      /\ UNCHANGED <<phase, status, data_status, elapsed, moved>>
  BY DEF Axi, drv, request
<1>3. /\ HwType'
      /\ Moving' => Moving \/ Enabled(data_master)
      /\ axi'.adr \in {axi.adr, regs.dma_addr}
      /\ UNCHANGED <<regs, cmd_master, starter, data_master>>
  BY <1>1, AxiLemma DEF Axi
<1>4. DrvType'
  BY <1>1, <1>2 DEF DrvType
<1>5. ControlInv'
  BY <1>2, <1>3 DEF IInv, ControlInv, Cmd, HasData
<1>6. PulseInv' /\ PollInv'
  BY <1>2, <1>3, ZenonT(30) DEF IInv, PulseInv, PollInv
<1>7. /\ CmdStill' <=> CmdStill
      /\ Started' <=> Started
      /\ Ended' <=> Ended
      /\ Enabled(data_master)' <=> Enabled(data_master)
      /\ DataStill => DataStill'
  <2>1. /\ CmdStill' <=> CmdStill
        /\ Started' <=> Started
        /\ Enabled(data_master)' <=> Enabled(data_master)
    BY <1>3 DEF CmdStill, Started, Enabled
  <2>2. Ended' <=> Ended
    BY <1>3, <2>1 DEF Ended
  <2> QED
    BY <1>3, <2>1, <2>2 DEF DataStill
<1>8. (Clean' <=> Clean) /\ (DataPhase' <=> DataPhase) /\ Cmd' = Cmd
  BY <1>2 DEF Clean, DataPhase, Cmd
<1>9. CmdInv'
  BY <1>2, <1>3, <1>7, <1>8 DEF IInv, CmdInv
<1>10. DataInv'
  BY <1>2, <1>3, <1>7, <1>8, ZenonT(30) DEF IInv, DataInv
<1> QED
  BY <1>3, <1>4, <1>5, <1>6, <1>9, <1>10, Zenon DEF IInv, TypeInv

\* A card clock edge in reset.
LEMMA InResetPreserves ==
  ASSUME IInv, Clock, SdClockInReset
  PROVE  IInv'
<1>1. HwType /\ DrvType
  BY DEF IInv, TypeInv
<1>2. /\ HwType'
      /\ regs.software_reset \/ regs.ctrl_rst
      /\ ~regs'.cmd_start /\ ~regs'.cmd_int_rst /\ ~regs'.data_int_rst
      /\ regs'.software_reset = regs.software_reset
      /\ regs'.ctrl_rst = regs.software_reset
      /\ cmd_master'.state = "IDLE" /\ cmd_master'.int_status = {}
      /\ starter' = StarterReset /\ data_master' = DataMasterReset
      /\ axi'.cyc = "none" /\ ~axi'.bresp
  BY <1>1, InResetLemma
<1>3. /\ UNCHANGED <<pc, issued, mrq, kind, data, result, mapped, abandoned>>
      /\ UNCHANGED <<phase, status, data_status>>
      /\ elapsed' = IF pc = "poll" /\ elapsed < Deadline THEN elapsed + 1 ELSE elapsed
  BY DEF Clock, request
<1>4. pc \in {"asserted", "released"} /\ elapsed = 0 /\ elapsed' = 0
  BY <1>2, <1>3 DEF IInv, PulseInv, PollInv
<1>5. DrvType'
  BY <1>1, <1>3, <1>4 DEF DrvType
<1>6. mrq = None /\ kind.data = "none" /\ phase = "cmd" /\ data_status = {}
  BY <1>4 DEF IInv, ControlInv
<1>7. ControlInv'
  BY <1>3, <1>4, ZenonT(30) DEF IInv, ControlInv
<1>8. PulseInv' /\ PollInv'
  BY <1>2, <1>3, <1>4, ZenonT(30) DEF IInv, PulseInv, PollInv
<1>9. /\ CmdStill' /\ DataStill' /\ ~Started'
      /\ ~starter'.rx /\ ~starter'.tx /\ ~starter'.prepare_tx
      /\ data_master'.state = "IDLE" /\ data_master'.int_status = {}
  BY <1>2, Zenon DEF CmdStill, DataStill, Ended, Started, Enabled, Moving, DataMasterReset,
     StarterReset
<1>10. CmdInv'
  BY <1>3, <1>4, <1>9 DEF CmdInv
<1>11. DataInv'
  <2>1. ~DataPhase'
    BY <1>3, <1>6 DEF DataPhase
  <2> QED
    BY <1>3, <1>4, <1>6, <1>9, <2>1 DEF DataInv
<1> QED
  BY <1>2, <1>5, <1>7, <1>8, <1>10, <1>11, Zenon DEF IInv, TypeInv

\* A card clock edge out of reset.
LEMMA RunningPreserves ==
  ASSUME IInv, Clock, NEW answer, NEW busy \in BOOLEAN, NEW block, NEW word,
         SdClockRunning(answer, busy, block, word)
  PROVE  IInv'
<1>1. /\ HwType /\ DrvType /\ cmd_master \in CmdMasterType /\ regs \in RegsType
      /\ starter \in StarterType
  BY DEF IInv, TypeInv, HwType
<1>p. cmd_master.state # "IDLE" => ~regs.cmd_int_rst
  BY DEF IInv, PulseInv
<1>2. /\ HwType'
      /\ ~regs.software_reset /\ ~regs.ctrl_rst
      /\ regs'.command = regs.command /\ regs'.dma_addr = regs.dma_addr
      /\ ~regs'.cmd_start /\ ~regs'.cmd_int_rst /\ ~regs'.data_int_rst
      /\ ~regs'.software_reset /\ ~regs'.ctrl_rst
      /\ cmd_master' = CmdMasterNext(busy)
      /\ starter' = StarterNext
      /\ data_master' = DataMasterNext
      /\ axi'.cyc = axi.cyc /\ axi'.bresp = axi.bresp
      /\ axi'.adr \in {axi.adr, regs.dma_addr}
  BY <1>1, <1>p, RunningLemma
<1>3. /\ UNCHANGED <<pc, issued, mrq, kind, data, result, mapped, abandoned>>
      /\ UNCHANGED <<phase, status, data_status>>
      /\ elapsed' = IF pc = "poll" /\ elapsed < Deadline THEN elapsed + 1 ELSE elapsed
      /\ moved' = IF TransferCompletes THEN moved \cup {axi.adr} ELSE moved
  BY DEF Clock, request
<1>4. DrvType' /\ elapsed \in Nat /\ elapsed' <= elapsed + 1 /\ (pc # "poll" => elapsed' = elapsed)
  BY <1>1, <1>3 DEF DrvType
<1>5. Cmd' = Cmd /\ (HasData' <=> HasData) /\ (Clean' <=> Clean) /\ (DataPhase' <=> DataPhase)
  BY <1>3 DEF Cmd, HasData, Clean, DataPhase
<1>6. ControlInv'
  BY <1>2, <1>3, <1>5, ZenonT(30) DEF IInv, ControlInv
<1>7. PulseInv'
  BY <1>2 DEF PulseInv
<1>c. /\ cmd_master'.watchdog \in Nat /\ cmd_master.watchdog \in Nat
      /\ cmd_master'.state \in {"IDLE", "EXECUTE", "BUSY_CHECK"}
      /\ cmd_master.state \in {"IDLE", "EXECUTE", "BUSY_CHECK"}
      /\ cmd_master.state = "IDLE" /\ ~regs.cmd_start =>
           /\ cmd_master'.state = "IDLE" /\ cmd_master'.response = cmd_master.response
           /\ cmd_master'.int_status =
                 IF regs.cmd_int_rst THEN {} ELSE cmd_master.int_status
      /\ cmd_master.state = "IDLE" /\ regs.cmd_start =>
           /\ cmd_master'.state = "EXECUTE" /\ cmd_master'.int_status = {}
           /\ cmd_master'.watchdog = 0 /\ cmd_master'.cmd = regs.command.cmd
      /\ cmd_master.state = "EXECUTE" =>
           \/ /\ cmd_master'.state = "EXECUTE"
              /\ cmd_master'.int_status = cmd_master.int_status
              /\ cmd_master'.watchdog = cmd_master.watchdog + 1
              /\ cmd_master'.cmd = cmd_master.cmd
           \/ /\ cmd_master'.state = "IDLE"
              /\ cmd_master'.int_status = cmd_master.int_status \cup {"CTE", "EI"}
           \/ /\ cmd_master'.state # "EXECUTE" /\ "CC" \in cmd_master'.int_status
              /\ cmd_master'.response = cmd_master.cmd
      /\ cmd_master.state = "BUSY_CHECK" =>
           /\ cmd_master'.state # "EXECUTE"
           /\ cmd_master'.int_status = cmd_master.int_status
           /\ cmd_master'.response = cmd_master.response
  <2>1. cmd_master' \in CmdMasterType
    BY <1>2, Zenon DEF HwType
  <2>2. /\ cmd_master'.watchdog \in Nat /\ cmd_master.watchdog \in Nat
        /\ cmd_master'.state \in {"IDLE", "EXECUTE", "BUSY_CHECK"}
        /\ cmd_master.state \in {"IDLE", "EXECUTE", "BUSY_CHECK"}
    BY <1>1, <2>1 DEF CmdMasterType
  <2> QED
    BY <1>1, <1>2, <1>p, <2>2, CmdMasterLemma, ZenonT(30)
<1>8. PollInv'
  <2>1. pc = "poll" /\ ~regs.cmd_start /\ cmd_master.state = "IDLE" => ~regs.cmd_int_rst
    BY DEF IInv, PulseInv
  <2>2. pc # "poll" \/ regs'.cmd_start => elapsed' = 0
    BY <1>2, <1>3, <1>4, Zenon DEF IInv, PollInv
  <2>3. cmd_master'.state = "EXECUTE" =>
           elapsed' <= cmd_master'.watchdog + 1 /\ cmd_master'.int_status = {}
    <3>1. CASE cmd_master.state = "IDLE"
      BY <1>4, <1>c, <3>1 DEF IInv, PollInv
    <3>2. ASSUME cmd_master.state # "IDLE", cmd_master'.state = "EXECUTE"
          PROVE  elapsed' <= cmd_master'.watchdog + 1 /\ cmd_master'.int_status = {}
      <4>1. /\ cmd_master.state = "EXECUTE"
            /\ cmd_master'.watchdog = cmd_master.watchdog + 1
            /\ cmd_master'.int_status = cmd_master.int_status
        BY <1>c, <3>2
      <4>2. elapsed <= cmd_master.watchdog + 1 /\ cmd_master.int_status = {}
        BY <4>1 DEF IInv, PollInv
      <4>3. elapsed' \in Nat /\ cmd_master.watchdog \in Nat
        BY <1>4, <1>c DEF DrvType
      <4> QED
        BY <1>4, <4>1, <4>2, <4>3
    <3> QED
      BY <3>1, <3>2
  <2>4. cmd_master'.state = "BUSY_CHECK" => cmd_master'.int_status # {}
    BY <1>c, ZenonT(30) DEF IInv, PollInv
  <2>5. pc = "poll" /\ cmd_master'.state = "IDLE" => cmd_master'.int_status # {}
    BY <1>c, <2>1, ZenonT(30) DEF IInv, PollInv
  <2> QED
    BY <1>2, <1>3, <2>2, <2>3, <2>4, <2>5, Zenon DEF PollInv
<1>9. CmdInv'
  <2>1. ASSUME Clean, pc \notin {"poll", "finish"} PROVE CmdStill'
    <3>1. ~regs.cmd_start /\ CmdStill
      BY <2>1, ZenonT(30) DEF IInv, PulseInv, CmdInv
    <3> QED
      BY <1>c, <3>1, Zenon DEF CmdStill
  <2>2. ASSUME Clean, pc = "poll"
        PROVE  /\ cmd_master'.state = "EXECUTE" => cmd_master'.cmd = Cmd
               /\ "CC" \in cmd_master'.int_status => cmd_master'.response = Cmd
    <3>1. /\ regs.cmd_start => CmdStill
          /\ cmd_master.state = "EXECUTE" => cmd_master.cmd = Cmd
          /\ "CC" \in cmd_master.int_status => cmd_master.response = Cmd
          /\ regs.command.cmd = Cmd /\ ~regs.cmd_int_rst
      BY <2>2 DEF IInv, CmdInv, ControlInv, PulseInv
    <3>2. CASE cmd_master.state = "IDLE"
      BY <1>c, <3>1, <3>2, ZenonT(30) DEF CmdStill
    <3>3. CASE cmd_master.state = "EXECUTE"
      <4>1. cmd_master.int_status = {}
        BY <3>3 DEF IInv, PollInv
      <4> QED
        BY <1>c, <3>1, <3>3, <4>1, Zenon
    <3>4. CASE cmd_master.state = "BUSY_CHECK"
      BY <1>c, <3>1, <3>4
    <3> QED
      BY <1>c, <3>2, <3>3, <3>4
  <2>3. ASSUME Clean, pc = "finish"
        PROVE  /\ cmd_master'.state = "IDLE" /\ cmd_master'.int_status = {}
               /\ "CC" \in status => cmd_master'.response = Cmd
    BY <1>c, <2>3 DEF IInv, CmdInv
  <2> QED
    BY <1>2, <1>3, <1>5, <2>1, <2>2, <2>3, Zenon DEF CmdInv
<1>d. /\ data_master.state = "IDLE" =>
           /\ ~Enabled(data_master)'
           /\ data_master'.state = "IDLE" <=> ~starter.tx /\ ~starter.rx
           /\ data_master'.int_status =
                 IF regs.data_int_rst THEN {} ELSE data_master.int_status
      /\ data_master.state # "IDLE" /\ ~regs.data_int_rst =>
           \/ /\ data_master'.state # "IDLE"
              /\ data_master'.int_status = data_master.int_status
           \/ /\ data_master'.state = "IDLE"
              /\ data_master'.int_status = {"CC"} => TransferCompletes
  BY <1>1, <1>2, DataMasterLemma, ZenonT(30) DEF Enabled
<1>s. /\ starter' \in StarterType
      /\ starter'.rx <=> regs.cmd_start /\ regs.command.data = "read"
      /\ starter'.tx <=>
            ~regs.cmd_start /\ starter.prepare_tx /\ "CC" \in cmd_int_status
      /\ starter'.prepare_tx <=>
            IF regs.cmd_start THEN regs.command.data = "write"
            ELSE starter.prepare_tx /\ {"CC", "EI"} \cap cmd_int_status = {}
  BY <1>2, StarterLemma, ZenonT(30)
<1>10. ASSUME Ended PROVE Ended' /\ ~Enabled(data_master)'
  <2>1. /\ data_master.state = "IDLE" /\ ~starter.rx /\ ~starter.tx /\ ~starter.prepare_tx
        /\ regs.cmd_start => regs.command.data = "none"
    BY <1>10 DEF Ended, StarterReset, Started
  <2>2. ~starter'.rx /\ ~starter'.tx /\ ~starter'.prepare_tx
    BY <1>s, <2>1
  <2>3. starter' = StarterReset
    BY <1>s, <2>2, StarterResetLemma
  <2> QED
    BY <1>2, <1>d, <2>1, <2>3, Zenon DEF Ended, Started
<1>11. Moving' <=> Moving
  BY <1>2 DEF Moving
<1>12. DataInv'
  <2>1. SUFFICES ASSUME Clean PROVE DataInv'
    BY <1>5, ZenonT(30) DEF DataInv
  <2>2. ~DataPhase => DataStill'
    <3>1. ~DataPhase => DataStill
      BY <2>1 DEF IInv, DataInv
    <3> QED
      BY <1>10, <1>11, <1>d, <3>1, ZenonT(30) DEF DataStill, Ended
  <2>3. /\ DataPhase => regs'.dma_addr = mrq /\ mrq \in mapped
        /\ pc \notin {"asserted", "released"} => axi'.adr = regs'.dma_addr
    BY <1>2, <2>1, ZenonT(30) DEF IInv, DataInv
  <2>4. ~Started'
    BY <1>2 DEF Started
  <2>5. ASSUME starter'.rx \/ starter'.tx \/ starter'.prepare_tx
        PROVE  /\ data_master'.state = "IDLE" /\ data_master'.int_status = {}
               /\ ~(starter'.rx /\ starter'.prepare_tx)
               /\ ~(starter'.tx /\ starter'.prepare_tx)
    <3>1. CASE regs.cmd_start
      <4>1. Started
        BY <1>s, <2>5, <3>1 DEF Started
      <4>2. /\ data_master.state = "IDLE" /\ data_master.int_status = {}
            /\ ~starter.rx /\ ~starter.tx
        <5>1. /\ data_master.state = "IDLE" /\ data_master.int_status = {}
              /\ starter = StarterReset
          BY <2>1, <4>1, Zenon DEF IInv, DataInv
        <5> QED
          BY <5>1 DEF StarterReset
      <4> QED
        BY <1>d, <1>s, <3>1, <4>2
    <3>2. CASE ~regs.cmd_start
      <4>1. starter.prepare_tx
        BY <1>s, <2>5, <3>2
      <4>2. /\ data_master.state = "IDLE" /\ data_master.int_status = {}
            /\ ~starter.rx /\ ~starter.tx
        BY <2>1, <4>1 DEF IInv, DataInv
      <4> QED
        BY <1>d, <1>s, <3>2, <4>2
    <3> QED
      BY <3>1, <3>2
  <2>6. data_master.state # "IDLE" =>
           /\ DataPhase /\ ~regs.data_int_rst /\ data_master.int_status = {}
           /\ axi.adr = mrq
    <3>1. ASSUME data_master.state # "IDLE"
          PROVE  DataPhase /\ data_master.int_status = {} /\ pc # "isr"
      BY <2>1, <3>1, ZenonT(30) DEF IInv, DataInv, DataStill, Ended
    <3>2. DataPhase => pc \notin {"asserted", "released", "cleared"}
      BY ZenonT(30) DEF IInv, ControlInv, DataPhase
    <3> QED
      BY <2>1, <3>1, <3>2 DEF IInv, DataInv, PulseInv
  <2>7. data_master'.state # "IDLE" => data_master'.int_status = {}
    <3>1. CASE data_master.state = "IDLE"
      <4>1. starter.rx \/ starter.tx => data_master.int_status = {}
        BY <2>1, Zenon DEF IInv, DataInv
      <4> QED
        BY <1>d, <3>1, <4>1, ZenonT(30)
    <3>2. CASE data_master.state # "IDLE"
      BY <1>d, <2>6, <3>2, ZenonT(30)
    <3> QED
      BY <3>1, <3>2
  <2>8. pc = "isr" \/ phase = "stop" => Ended' /\ ~Enabled(data_master)'
    BY <1>10, <2>1, ZenonT(30) DEF IInv, DataInv
  <2>9. data_master'.int_status = {"CC"} => mrq \in moved'
    <3>1. CASE data_master.state = "IDLE"
      <4>1. data_master.int_status = {"CC"} => mrq \in moved
        BY <2>1 DEF IInv, DataInv
      <4> QED
        BY <1>3, <1>d, <3>1, <4>1, ZenonT(30)
    <3>2. CASE data_master.state # "IDLE"
      BY <1>3, <1>d, <2>6, <3>2, Zenon
    <3> QED
      BY <3>1, <3>2, ZenonT(30)
  <2>10. data_status = {"CC"} => mrq \in moved' /\ ~Enabled(data_master)' /\ ~Moving'
    <3>1. data_status = {"CC"} => pc = "isr" \/ phase = "stop"
      BY DEF IInv, ControlInv
    <3>2. data_status = {"CC"} => mrq \in moved /\ ~Moving
      BY <2>1 DEF IInv, DataInv
    <3> QED
      BY <1>3, <1>11, <2>8, <3>1, <3>2
  <2>11. pc = "isr" \/ phase = "stop" => data_master'.int_status = {}
    <3>1. pc = "isr" \/ phase = "stop" =>
             /\ data_master.state = "IDLE"
             /\ regs.data_int_rst \/ data_master.int_status = {}
      BY <2>1 DEF IInv, DataInv, Ended
    <3> QED
      BY <1>d, <3>1, ZenonT(30)
  <2> QED
    BY <1>3, <1>5, <2>2, <2>3, <2>4, <2>5, <2>7, <2>8, <2>9, <2>10, <2>11, ZenonT(30) DEF DataInv
<1> QED
  BY <1>2, <1>4, <1>6, <1>7, <1>8, <1>9, <1>12 DEF IInv, TypeInv
-----------------------------------------------------------------------------
(* The theorems.                                                           *)

LEMMA IInvNext == IInv /\ [Next]_vars => IInv'
<1> SUFFICES ASSUME IInv, [Next]_vars PROVE IInv'
  OBVIOUS
<1>1. CASE Clock
  <2>1. CASE SdClockInReset
    BY <1>1, <2>1, InResetPreserves
  <2>2. ASSUME NEW answer \in Answers, NEW block \in Blocks, NEW word \in Words,
               NEW busy \in Busy, SdClockRunning(answer, busy, block, word)
        PROVE  IInv'
    <3>1. busy \in BOOLEAN
      BY ZenonT(30) DEF Busy
    <3> QED
      BY <1>1, <2>2, <3>1, RunningPreserves
  <2> QED
    BY <1>1, <2>1, <2>2 DEF Clock, SdClock
<1>2. CASE Driver
  BY <1>2, SetupLemma, StartLemma, PollLemma, FinishLemma, GivenUpLemma, IsrEntryLemma,
     IsrReturnLemma, ResetLemma, ResetDoneLemma DEF Driver, DataInterrupt
<1>3. CASE CardDetectInterrupt \/ ResetAssert
  BY <1>3, IsrEntryLemma, ResetLemma DEF CardDetectInterrupt
<1>4. ASSUME NEW k \in Kinds, sdc_request(k) PROVE IInv'
  BY <1>4, RequestLemma
<1>5. CASE UNCHANGED vars
  <2>1. /\ UNCHANGED <<regs, cmd_master, cmd_host, starter, data_master, data_host, fifo>>
        /\ UNCHANGED <<axi, card, pc, issued, mrq, kind, data, result, mapped, abandoned>>
        /\ UNCHANGED <<phase, status, data_status, elapsed, moved>>
    BY <1>5 DEF vars, hw, drv, request
  <2>2. TypeInv'
    BY <2>1 DEF IInv, TypeInv, HwType, DrvType
  <2>3. ControlInv' /\ PulseInv' /\ PollInv'
    BY <2>1, Zenon DEF IInv, ControlInv, PulseInv, PollInv, Cmd, HasData
  <2>4. /\ CmdStill' <=> CmdStill
        /\ Started' <=> Started
        /\ Ended' <=> Ended
        /\ DataStill' <=> DataStill
        /\ Moving' <=> Moving
        /\ Enabled(data_master)' <=> Enabled(data_master)
    BY <2>1, StillLemma
  <2>5. (Clean' <=> Clean) /\ (DataPhase' <=> DataPhase) /\ Cmd' = Cmd
    BY <2>1 DEF Clean, DataPhase, Cmd
  <2>6. CmdInv'
    BY <2>1, <2>4, <2>5 DEF IInv, CmdInv
  <2>7. DataInv'
    BY <2>1, <2>4, <2>5, Zenon DEF IInv, DataInv
  <2> QED
    BY <2>2, <2>3, <2>6, <2>7 DEF IInv
<1> QED
  BY <1>1, <1>2, <1>3, <1>4, <1>5, AxiPreserves DEF Next

\* The inductive invariant holds throughout.
LEMMA IInvAlways == Safety => []IInv
BY IInvInit, IInvNext, PTL DEF Safety

\* The registers of the controller and the driver's state keep their types;
\* both watchdogs stop at their limit, and the FIFO never holds more than it has
\* room for (sd_cmd_master.v:116, sd_data_master.v:122).
THEOREM SdcTypeTheorem == Safety => []TypeOK
<1>1. IInv => TypeOK
  <2> SUFFICES ASSUME IInv PROVE TypeOK
    OBVIOUS
  <2>1. HwType /\ DrvType
    BY DEF IInv, TypeInv
  <2> QED
    BY <2>1 DEF TypeOK, HwType, DrvType, CmdMasterType, CmdHostType, DataMasterType,
       AxiType, Addr
<1> QED
  BY <1>1, IInvAlways, PTL

\* sdc_cmd_finish takes the status and the response of the command it has just
\* started, and of no other (fpga-axi-sdc.c:177), as long as no request was
\* given back while the controller was still at work on it.
THEOREM ResponseTheorem == Safety => []ResponseIsOwn
<1>1. IInv => ResponseIsOwn
  BY ZenonT(30) DEF IInv, CmdInv, Clean, ResponseIsOwn
<1> QED
  BY <1>1, IInvAlways, PTL

\* A transfer that sdc_isr reports as complete has moved that very buffer
\* without an error (fpga-axi-sdc.c:443).
THEOREM DataSuccessTheorem == Safety => []DataSuccessIsReal
<1>1. IInv => DataSuccessIsReal
  BY ZenonT(30) DEF IInv, TypeInv, DrvType, DataInv, Clean, DataSuccessIsReal
<1> QED
  BY <1>1, IInvAlways, PTL

\* The controller masters the bus only on a buffer that is mapped for it
\* (fpga-axi-sdc.c:314, 451), as long as no request was abandoned.
THEOREM BufferTheorem == Safety => []BufferOwned
<1>1. IInv => BufferOwned
  <2> SUFFICES ASSUME IInv, ~abandoned, Moving PROVE axi.adr \in mapped
    BY DEF BufferOwned
  <2>1. DataPhase
    BY DEF IInv, DataInv, Clean, DataStill
  <2>2. pc \notin {"asserted", "released"}
    BY <2>1 DEF IInv, ControlInv, DataPhase
  <2> QED
    BY <2>1, <2>2, Zenon DEF IInv, DataInv, Clean
<1> QED
  BY <1>1, IInvAlways, PTL

\* "The hardware watchdog fires first whenever it is armed"
\* (fpga-axi-sdc.c:172): the software deadline ends a poll only in BUSY_CHECK,
\* also after any number of abandoned requests.
THEOREM WatchdogTheorem == Safety => []WatchdogFirst
<1>1. IInv => WatchdogFirst
  <2> SUFFICES ASSUME IInv, pc = "poll", elapsed >= Deadline, cmd_int_status = {}
               PROVE  cmd_master.state = "BUSY_CHECK"
    BY DEF WatchdogFirst
  <2>1. /\ cmd_master.state \in {"IDLE", "EXECUTE", "BUSY_CHECK"}
        /\ cmd_master.watchdog \in 0 .. CmdTimeout /\ elapsed \in Nat /\ CmdTimeout \in Nat
    BY TimeoutAssumption DEF IInv, TypeInv, HwType, DrvType, CmdMasterType
  <2>2. elapsed > CmdTimeout + 3 /\ elapsed # 0
    BY <2>1, DeadlineAssumption
  <2>3. cmd_master.state # "EXECUTE"
    BY <2>1, <2>2 DEF IInv, PollInv
  <2>4. cmd_master.state # "IDLE"
    BY <2>2 DEF IInv, PollInv, cmd_int_status
  <2> QED
    BY <2>1, <2>3, <2>4
<1> QED
  BY <1>1, IInvAlways, PTL

\* A request that succeeds is given back with nothing of it left in the
\* controller, which the driver never checks (axi_sdc_controller.v:486).
THEOREM QuietTheorem == Safety => SuccessLeavesQuiet
<1> DEFINE A == mrq # None /\ mrq' = None /\ result' = "ok" /\ ~abandoned => ~abandoned'
<1>1. IInv /\ [Next]_vars => [A]_vars
  <2> SUFFICES ASSUME IInv, Next, mrq # None, mrq' = None, result' = "ok", ~abandoned
               PROVE  ~abandoned'
    OBVIOUS
  <2>1. ASSUME Done("ok"), Quiet PROVE ~abandoned'
    BY <2>1, Zenon DEF Done
  <2>2. CASE Finish
    <3>1. /\ pc = "finish" /\ ResetReg = {} /\ ~regs.cmd_int_rst /\ SendReturns(status = {"CC"})
      BY <2>2, ResetRegLemma DEF Finish
    <3>2. CmdStill
      BY <3>1 DEF IInv, CmdInv, Clean, CmdStill
    <3>3. /\ Done("ok")
          /\ \/ phase = "cmd" /\ ~HasData
             \/ phase = "stop" /\ data_status = {"CC"}
      <4>1. UNCHANGED request => mrq' = mrq
        BY DEF request
      <4>2. ASSUME NEW o, Done(o) PROVE o = "ok"
        BY <4>2 DEF Done
      <4> QED
        BY <3>1, <4>1, <4>2 DEF SendReturns, DataOutcome
    <3>4. DataStill
      <4>1. CASE phase = "cmd" /\ ~HasData
        BY <4>1 DEF IInv, DataInv, Clean, DataPhase, HasData
      <4>2. CASE phase = "stop" /\ data_status = {"CC"}
        BY <4>2 DEF IInv, DataInv, Clean, DataStill
      <4> QED
        BY <3>3, <4>1, <4>2
    <3> QED
      BY <2>1, <3>1, <3>2, <3>3, <3>4 DEF Quiet, CmdStill, DataStill, Ended
  <2>3. CASE IsrDone
    <3>1. pc = "isr" /\ ResetReg = {} /\ ~regs.data_int_rst /\ Done(DataOutcome)
      BY <2>3, ResetRegLemma DEF IsrDone
    <3>2. data_status = {"CC"} /\ Done("ok")
      BY <3>1 DEF Done, DataOutcome
    <3>3. CmdStill /\ DataStill
      BY <3>1, <3>2, Zenon DEF IInv, CmdInv, DataInv, Clean, DataStill
    <3> QED
      BY <2>1, <3>1, <3>2, <3>3 DEF Quiet, CmdStill, DataStill, Ended
  <2>4. CASE RefuseData \/ Expire
    BY <2>4 DEF RefuseData, Expire, SendReturns, Done
  <2>5. ASSUME NEW k \in Kinds, sdc_request(k) PROVE FALSE
    BY <2>5 DEF sdc_request
  <2>6. CASE Setup \/ Start \/ Poll \/ IsrEntry \/ IsrStop \/ IsrSpurious
    BY <2>6 DEF Setup, Start, Poll, IsrEntry, IsrStop, IsrSpurious, request
  <2>7. CASE ResetAssert \/ ResetRelease \/ ResetClear \/ ResetDone
    BY <2>7 DEF ResetAssert, ResetRelease, ResetClear, ResetStep, ResetDone, request
  <2>8. CASE Clock \/ Axi
    BY <2>8 DEF Clock, Axi, request, drv
  <2> QED
    BY <2>2, <2>3, <2>4, <2>5, <2>6, <2>7, <2>8
       DEF Next, Driver, DataInterrupt, CardDetectInterrupt
<1> QED
  BY <1>1, IInvAlways, PTL DEF Safety, SuccessLeavesQuiet
=============================================================================
