-------------------------------- MODULE Dtm --------------------------------
(***************************************************************************)
(* The rendezvous between the two threads of the simulator's front-end     *)
(* server (fesvr/dtm.hpp, sim/dpi-c.cpp):                                  *)
(*                                                                         *)
(*  - "host", the thread of dtm_t::thread_main, issues debug-module        *)
(*    requests with send_req and waits for each answer;                    *)
(*  - "sim", the Verilator main thread, calls debug_tick once per target   *)
(*    clock cycle, which runs dtm_t::tick.                                 *)
(*                                                                         *)
(* They share two one-slot queues, m_req_buf and m_resp_buf.  The debug    *)
(* module behind debug_tick is external: it accepts the driven request in  *)
(* a cycle with valid and ready, answers in the same or a later cycle, and *)
(* keeps ready low while a request is outstanding.                         *)
(***************************************************************************)
EXTENDS Naturals

CONSTANTS MaxReq,   \* bound on the number of send_req calls
          None      \* an empty queue slot, no answer in this cycle

ASSUME MaxReqAssumption == MaxReq \in Nat
ASSUME NoneAssumption == None \notin Nat

Thread == {"host", "sim"}
Request == 1 .. MaxReq

VARIABLES
  req_val, req_asleep,      \* m_req_buf
  resp_val, resp_asleep,    \* m_resp_buf
  host,                     \* where the host thread is in send_req
  sent,                     \* the request of the current (last) send_req
  returned,                 \* the answer the last send_req returned
  sim,                      \* where the main thread is in debug_tick
  m_state, m_req,           \* dtm_t::m_state, dtm_t::m_req
  m_target_ready,           \* dtm_t::m_target_ready
  valid,                    \* host2target_valid as driven into the design
  target_ready, resp_valid, \* what the design presents in this cycle
  outstanding,              \* external: the accepted, unanswered request
  executed                  \* external: the number of requests accepted

reqVars  == <<req_val, req_asleep>>
respVars == <<resp_val, resp_asleep>>
hostVars == <<host, sent, returned>>
tickVars == <<m_state, m_req, m_target_ready, valid>>
dmVars   == <<target_ready, resp_valid, outstanding, executed>>
vars == <<reqVars, respVars, hostVars, sim, tickVars, dmVars>>

ReqBuf  == INSTANCE MtQueue WITH val <- req_val,  asleep <- req_asleep
RespBuf == INSTANCE MtQueue WITH val <- resp_val, asleep <- resp_asleep

HostPc == {"caller", "push_wait", "push_set", "wait", "pop"}
SimPc  == {"cycle", "resp", "push_wait", "push_set", "req", "pop", "drive"}

TypeOK ==
  /\ req_val \in Request \cup {None} /\ resp_val \in Request \cup {None}
  /\ req_asleep \subseteq Thread     /\ resp_asleep \subseteq Thread
  /\ host \in HostPc /\ sim \in SimPc
  /\ sent \in 0 .. MaxReq /\ returned \in 0 .. MaxReq
  /\ executed \in 0 .. MaxReq
  /\ m_state \in {"WAITING_REQ", "WAITING_RESP"}
  /\ m_req \in Request \cup {None}
  /\ m_target_ready \in BOOLEAN /\ valid \in BOOLEAN /\ target_ready \in BOOLEAN
  /\ resp_valid \in Request \cup {None}
  /\ outstanding \in Request \cup {None}

Init ==
  /\ req_val = None /\ req_asleep = {} /\ resp_val = None /\ resp_asleep = {}
  /\ host = "caller" /\ sent = 0 /\ returned = 0
  /\ sim = "cycle"
  /\ m_state = "WAITING_REQ" /\ m_req = None
  /\ m_target_ready = FALSE /\ valid = FALSE
  /\ target_ready = FALSE /\ resp_valid = None
  /\ outstanding = None /\ executed = 0

-----------------------------------------------------------------------------
(* The host thread: send_req *)

\* thread_main, or the HTIF code above it, calls send_req.
CallSendReq ==
  /\ host = "caller" /\ sent < MaxReq
  /\ sent' = sent + 1 /\ host' = "push_wait"
  /\ UNCHANGED <<reqVars, respVars, returned, sim, tickVars, dmVars>>

HostPushWait ==
  /\ host = "push_wait"
  /\ \E done \in BOOLEAN :
       /\ ReqBuf!wait_for_clear("host", done)
       /\ host' = IF done THEN "push_set" ELSE "push_wait"
  /\ UNCHANGED <<respVars, sent, returned, sim, tickVars, dmVars>>

HostPushSet ==
  /\ host = "push_set"
  /\ ReqBuf!push_set(sent)
  /\ host' = "wait"
  /\ UNCHANGED <<respVars, sent, returned, sim, tickVars, dmVars>>

HostWait ==
  /\ host = "wait"
  /\ \E done \in BOOLEAN :
       /\ RespBuf!wait_for_value("host", done)
       /\ host' = IF done THEN "pop" ELSE "wait"
  /\ UNCHANGED <<reqVars, sent, returned, sim, tickVars, dmVars>>

HostPop ==
  /\ host = "pop"
  /\ RespBuf!pop
  /\ returned' = resp_val
  /\ host' = "caller"
  /\ UNCHANGED <<reqVars, sent, sim, tickVars, dmVars>>

-----------------------------------------------------------------------------
(* External: one target clock cycle of the debug module, which ends in the *)
(* call of debug_tick.                                                     *)

\* Nothing outstanding: the module may accept what is driven into it, and
\* may answer in the very cycle of the acceptance.
CycleFree(ready, now) ==
  /\ sim = "cycle" /\ outstanding = None
  /\ LET fire == valid /\ ready IN
       /\ executed'    = IF fire THEN executed + 1 ELSE executed
       /\ resp_valid'  = IF fire /\ now THEN m_req ELSE None
       /\ outstanding' = IF fire /\ ~now THEN m_req ELSE None
  /\ target_ready' = ready
  /\ sim' = "resp"
  /\ UNCHANGED <<reqVars, respVars, hostVars, tickVars>>

\* A request is outstanding: ready is low for at least the cycle after the
\* acceptance, and until the cycle of the answer.  A request that is driven in
\* a cycle with ready high is accepted, whether or not it is a new one.
CycleBusy(ready, now) ==
  /\ sim = "cycle" /\ outstanding # None
  /\ ready => now /\ ~target_ready
  /\ LET fire == valid /\ ready IN
       /\ executed'    = IF fire THEN executed + 1 ELSE executed
       /\ resp_valid'  = IF now THEN outstanding ELSE None
       /\ outstanding' = IF fire THEN m_req
                         ELSE IF now THEN None ELSE outstanding
  /\ target_ready' = ready
  /\ sim' = "resp"
  /\ UNCHANGED <<reqVars, respVars, hostVars, tickVars>>

-----------------------------------------------------------------------------
(* The main thread: debug_tick and dtm_t::tick *)

TickResp ==
  /\ sim = "resp"
  /\ m_target_ready' = target_ready
  /\ sim' = IF m_state = "WAITING_RESP" /\ resp_valid # None
              THEN "push_wait" ELSE "req"
  /\ UNCHANGED <<reqVars, respVars, hostVars, m_state, m_req, valid, dmVars>>

SimPushWait ==
  /\ sim = "push_wait"
  /\ \E done \in BOOLEAN :
       /\ RespBuf!wait_for_clear("sim", done)
       /\ sim' = IF done THEN "push_set" ELSE "push_wait"
  /\ UNCHANGED <<reqVars, hostVars, tickVars, dmVars>>
SimPushSet ==
  /\ sim = "push_set"
  /\ RespBuf!push_set(resp_valid)
  /\ m_state' = "WAITING_REQ"
  /\ sim' = "req"
  /\ UNCHANGED <<reqVars, hostVars, m_req, m_target_ready, valid, dmVars>>
\* Mutant: pop() without looking whether there is a request.
TickReqUnchecked ==
  /\ sim = "req"
  /\ sim' = IF m_state = "WAITING_REQ" /\ m_target_ready THEN "pop" ELSE "drive"
  /\ UNCHANGED <<reqVars, respVars, hostVars, tickVars, dmVars>>

TickReq ==
  /\ sim = "req"
  /\ sim' = IF m_state = "WAITING_REQ" /\ m_target_ready /\ ReqBuf!has_value
              THEN "pop" ELSE "drive"
  /\ UNCHANGED <<reqVars, respVars, hostVars, tickVars, dmVars>>

SimPop ==
  /\ sim = "pop"
  /\ ReqBuf!pop
  /\ m_req' = req_val
  /\ m_state' = "WAITING_RESP"
  /\ sim' = "drive"
  /\ UNCHANGED <<respVars, hostVars, m_target_ready, valid, dmVars>>
\* Mutant: req_valid() without m_target_ready.
DriveAlways ==
  /\ sim = "drive"
  /\ valid' = (m_state = "WAITING_RESP")
  /\ sim' = "cycle"
  /\ UNCHANGED <<reqVars, respVars, hostVars, m_state, m_req, m_target_ready,
                 dmVars>>

\* debug_tick drives req_valid() and req_bits() into the design and returns.
Drive ==
  /\ sim = "drive"
  /\ valid' = (m_state = "WAITING_RESP" /\ m_target_ready)
  /\ sim' = "cycle"
  /\ UNCHANGED <<reqVars, respVars, hostVars, m_state, m_req, m_target_ready,
                 dmVars>>

\* Only m_resp_buf ever has a sleeper (PushNeverBlocks).
SpuriousWake ==
  /\ \E t \in Thread : RespBuf!SpuriousWake(t)
  /\ UNCHANGED <<reqVars, hostVars, sim, tickVars, dmVars>>

-----------------------------------------------------------------------------
HostStep == HostPushWait \/ HostPushSet \/ HostWait \/ HostPop
SimStep == TickResp \/ SimPushWait \/ SimPushSet \/ TickReq \/ SimPop \/ Drive
Cycle == \E ready, now \in BOOLEAN : CycleFree(ready, now) \/ CycleBusy(ready, now)

Next == CallSendReq \/ HostStep \/ SimStep \/ Cycle \/ SpuriousWake

Safety == Init /\ [][Next]_vars

\* Both threads keep running.  A free debug module is ready again and again,
\* one that is offered a request again and again accepts it, and it answers.
Ready  == \E now \in BOOLEAN : CycleFree(TRUE, now)
Accept == valid /\ Ready
Answer == \E ready \in BOOLEAN : CycleBusy(ready, TRUE)

Fairness == /\ WF_vars(HostStep) /\ WF_vars(SimStep \/ Cycle)
            /\ SF_vars(Ready) /\ SF_vars(Accept) /\ SF_vars(Answer)

Spec == Safety /\ Fairness

-----------------------------------------------------------------------------
(* Properties *)

\* pop() never throws "Queue is empty" (mt_q.hpp:33), in either thread.
PopNeverThrows == /\ host = "pop" => resp_val # None
                  /\ sim = "pop" => req_val # None

\* push() always finds its queue clear: pop() notifies nobody (mt_q.hpp:30), so
\* a push that blocked in wait_for_clear would have nobody to wake it.
PushNeverBlocks == /\ host \in {"push_wait", "push_set"} => req_val = None
                   /\ sim \in {"push_wait", "push_set"} => resp_val = None
                   /\ req_asleep = {} /\ "sim" \notin resp_asleep

\* No lost wakeup: while the host thread is blocked in wait_for_value, no
\* answer waits in m_resp_buf.
NoLostWakeup == "host" \in resp_asleep => host = "wait" /\ resp_val = None

\* send_req returns the answer to the request it was given, although
\* req_valid() stays asserted after the design has accepted a request and the
\* two queues carry no tags (dtm.hpp:104, 145).
AnswerIsOwn == host = "caller" => returned = sent

Abstract == INSTANCE Dmi

\* The debug module executes every request exactly once and in order, and every
\* send_req eventually returns: dtm_t implements the interface Dmi.
ImplementsDmi == Abstract!Spec
=============================================================================
