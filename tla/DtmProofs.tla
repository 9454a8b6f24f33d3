----------------------------- MODULE DtmProofs -----------------------------
(***************************************************************************)
(* Proofs about Dtm, for every number of requests.  A request passes       *)
(* through the five stages Queued .. Replied below while send_req waits    *)
(* for it; the inductive invariant IInv says that it is in exactly one of  *)
(* them, and that nothing is left over from the previous request.          *)
(***************************************************************************)
EXTENDS Dtm, TLAPS

Idle == /\ req_val = None /\ resp_val = None /\ outstanding = None
        /\ m_state = "WAITING_REQ" /\ executed = returned

Queued == /\ req_val = sent /\ resp_val = None /\ outstanding = None
          /\ m_state = "WAITING_REQ" /\ executed = returned

Offered == /\ req_val = None /\ resp_val = None /\ outstanding = None
           /\ m_state = "WAITING_RESP" /\ m_req = sent /\ executed = returned
           /\ sim = "resp" => resp_valid = None

Accepted == /\ req_val = None /\ resp_val = None /\ outstanding = sent
            /\ m_state = "WAITING_RESP" /\ m_req = sent /\ executed = sent
            /\ sim = "resp" => resp_valid = None

Answered == /\ req_val = None /\ resp_val = None /\ outstanding = None
            /\ m_state = "WAITING_RESP" /\ executed = sent /\ resp_valid = sent
            /\ sim \in {"resp", "push_wait", "push_set"}

Replied == /\ req_val = None /\ resp_val = sent /\ outstanding = None
           /\ m_state = "WAITING_REQ" /\ executed = sent

HostInv ==
  /\ host = "caller" => returned = sent
  /\ host # "caller" => sent = returned + 1
  /\ host \in {"caller", "push_wait", "push_set"} => Idle
  /\ host \in {"wait", "pop"} =>
       Queued \/ Offered \/ Accepted \/ Answered \/ Replied
  /\ host = "pop" => resp_val # None

SimInv ==
  /\ sim \in {"push_wait", "push_set"} =>
       m_state = "WAITING_RESP" /\ resp_valid # None /\ outstanding = None
  /\ sim = "pop" => m_state = "WAITING_REQ" /\ req_val # None
  /\ sim \in {"push_wait", "push_set"} => host = "wait" /\ Answered
  /\ sim = "cycle" /\ valid => m_state = "WAITING_RESP" /\ target_ready
  /\ sim # "resp" => m_target_ready = target_ready

SleepInv ==
  /\ req_asleep = {} /\ "sim" \notin resp_asleep
  /\ "host" \in resp_asleep => host = "wait" /\ resp_val = None

\* The inductive invariant: the request that send_req waits for is in exactly
\* one place (dtm.hpp:75-97 and 145-154).
IInv == TypeOK /\ HostInv /\ SimInv /\ SleepInv

-----------------------------------------------------------------------------
\* The initial state satisfies the invariant.
LEMMA InitIInv == Init => IInv
<1> SUFFICES ASSUME Init PROVE IInv
    OBVIOUS
<1>1. m_target_ready \in BOOLEAN /\ valid \in BOOLEAN /\ target_ready \in BOOLEAN
    BY Zenon DEF Init
<1>2. TypeOK
    BY <1>1, MaxReqAssumption DEF Init, TypeOK, Thread, Request, HostPc, SimPc
<1>3. HostInv /\ SleepInv
    BY DEF Init, HostInv, SleepInv, Idle
<1>4. sim # "resp" => m_target_ready = target_ready
    BY Zenon DEF Init
<1>5. SimInv
    BY <1>4 DEF Init, SimInv
<1> QED BY <1>2, <1>3, <1>5 DEF IInv

\* Every step of either thread, and every cycle of the design, preserves it.
LEMMA NextIInv == IInv /\ [Next]_vars => IInv'
<1> SUFFICES ASSUME IInv, [Next]_vars PROVE IInv'
    OBVIOUS
<1> USE MaxReqAssumption, NoneAssumption
    DEF IInv, TypeOK, HostInv, SimInv, SleepInv, Idle, Queued, Offered,
        Accepted, Answered, Replied, Thread, Request, HostPc, SimPc,
        reqVars, respVars, hostVars, tickVars, dmVars
<1>1. CASE CallSendReq
    BY <1>1 DEF CallSendReq
<1>2. CASE HostPushWait
    BY <1>2 DEF HostPushWait, ReqBuf!wait_for_clear, ReqBuf!CvWait,
       ReqBuf!NotifyOne, ReqBuf!has_value
<1>3. CASE HostPushSet
    BY <1>3 DEF HostPushSet, ReqBuf!push_set, ReqBuf!NotifyOne
<1>4. CASE HostWait
  <2>1. "host" \notin resp_asleep /\ resp_asleep = {} /\ resp_val' = resp_val
      BY <1>4 DEF HostWait, RespBuf!wait_for_value, RespBuf!CvWait
  <2>2. CASE resp_val # None
    <3>1. resp_asleep' = {} /\ host' = "pop"
        BY <1>4, <2>1, <2>2 DEF HostWait, RespBuf!wait_for_value,
           RespBuf!CvWait, RespBuf!NotifyOne, RespBuf!has_value
    <3> QED BY <1>4, <2>1, <2>2, <3>1 DEF HostWait
  <2>3. CASE resp_val = None
    <3>1. resp_asleep' = {"host"} /\ host' = "wait"
        BY <1>4, <2>1, <2>3 DEF HostWait, RespBuf!wait_for_value,
           RespBuf!CvWait, RespBuf!NotifyOne, RespBuf!has_value
    <3> QED BY <1>4, <2>1, <2>3, <3>1 DEF HostWait
  <2> QED BY <2>2, <2>3
<1>5. CASE HostPop
    BY <1>5 DEF HostPop, RespBuf!pop, RespBuf!has_value
<1>6. CASE TickResp
    BY <1>6 DEF TickResp
<1>7. CASE SimPushWait
    BY <1>7 DEF SimPushWait, RespBuf!wait_for_clear, RespBuf!CvWait,
       RespBuf!NotifyOne, RespBuf!has_value
<1>8. CASE SimPushSet
    BY <1>8 DEF SimPushSet, RespBuf!push_set, RespBuf!NotifyOne
<1>9. CASE TickReq
    BY <1>9 DEF TickReq, ReqBuf!has_value
<1>10. CASE SimPop
    BY <1>10 DEF SimPop, ReqBuf!pop, ReqBuf!has_value
<1>11. CASE Drive
    <2>1. TypeOK' /\ SleepInv'
        BY <1>11 DEF Drive
    <2>2. HostInv'
        BY <1>11 DEF Drive
    <2>3. SimInv'
        BY <1>11 DEF Drive
    <2> QED BY <2>1, <2>2, <2>3
<1>12. CASE SpuriousWake
    BY <1>12 DEF SpuriousWake, RespBuf!SpuriousWake
<1>13. ASSUME NEW ready \in BOOLEAN, NEW now \in BOOLEAN, CycleFree(ready, now)
      PROVE  IInv'
    BY <1>13 DEF CycleFree
<1>14. ASSUME NEW ready \in BOOLEAN, NEW now \in BOOLEAN, CycleBusy(ready, now)
      PROVE  IInv'
    BY <1>14 DEF CycleBusy
<1>15. CASE UNCHANGED vars
    BY <1>15 DEF vars
<1> QED BY <1>1, <1>2, <1>3, <1>4, <1>5, <1>6, <1>7, <1>8, <1>9, <1>10, <1>11, <1>12, <1>13, <1>14, <1>15
    DEF Next, HostStep, SimStep, Cycle

\* The invariant holds in every reachable state.
THEOREM DtmInvariant == Safety => []IInv
<1>1. Init => IInv
    BY InitIInv
<1>2. IInv /\ [Next]_vars => IInv'
    BY NextIInv
<1> QED BY <1>1, <1>2, PTL DEF Safety

\* The queues, counters and program counters keep their types.
THEOREM DtmTypeTheorem == Safety => []TypeOK
<1>1. IInv => TypeOK
    BY DEF IInv
<1> QED BY <1>1, DtmInvariant, PTL

\* Neither thread's pop() throws (mt_q.hpp:33).
THEOREM PopNeverThrowsTheorem == Safety => []PopNeverThrows
<1>1. IInv => PopNeverThrows
    BY DEF IInv, HostInv, SimInv, PopNeverThrows
<1> QED BY <1>1, DtmInvariant, PTL

\* push() never blocks in wait_for_clear, from which nothing would wake it
\* (mt_q.hpp:11-16, 30-38).
THEOREM PushNeverBlocksTheorem == Safety => []PushNeverBlocks
<1>1. IInv => PushNeverBlocks
    BY DEF IInv, HostInv, SimInv, SleepInv, Idle, Answered, PushNeverBlocks
<1> QED BY <1>1, DtmInvariant, PTL

\* The host thread never sleeps through an answer (mt_q.hpp:18-22).
THEOREM NoLostWakeupTheorem == Safety => []NoLostWakeup
<1>1. IInv => NoLostWakeup
    BY DEF IInv, SleepInv, NoLostWakeup
<1> QED BY <1>1, DtmInvariant, PTL

\* send_req returns the answer to its own request (dtm.hpp:145-154).
THEOREM AnswerIsOwnTheorem == Safety => []AnswerIsOwn
<1>1. IInv => AnswerIsOwn
    BY DEF IInv, HostInv, AnswerIsOwn
<1> QED BY <1>1, DtmInvariant, PTL

-----------------------------------------------------------------------------
\* The rendezvous implements the safety part of the interface Dmi: every
\* request is executed exactly once, in order, before send_req returns.
THEOREM DtmImplementsDmi == Safety => Abstract!Init /\ [][Abstract!Next]_(Abstract!vars)
<1>1. Init => Abstract!Init
    BY DEF Init, Abstract!Init
<1>2. IInv /\ [Next]_vars => [Abstract!Next]_(Abstract!vars)
  <2> SUFFICES ASSUME IInv, [Next]_vars PROVE [Abstract!Next]_(Abstract!vars)
      OBVIOUS
  <2> USE DEF IInv, TypeOK, HostInv, SimInv, Request, Abstract!Next, Abstract!vars,
          reqVars, respVars, hostVars, tickVars, dmVars
  <2>1. CASE CallSendReq
      BY <2>1 DEF CallSendReq, Abstract!Send
  <2>2. CASE HostPop
      BY <2>2, NoneAssumption DEF HostPop, RespBuf!pop, RespBuf!has_value,
         Abstract!Return, Queued, Offered, Accepted, Answered, Replied
  <2>3. ASSUME NEW ready \in BOOLEAN, NEW now \in BOOLEAN, CycleFree(ready, now)
        PROVE  [Abstract!Next]_(Abstract!vars)
      BY <2>3, NoneAssumption DEF CycleFree, Abstract!Execute, Idle,
         Queued, Offered, Accepted, Answered, Replied, HostPc
  <2>4. ASSUME NEW ready \in BOOLEAN, NEW now \in BOOLEAN, CycleBusy(ready, now)
        PROVE  [Abstract!Next]_(Abstract!vars)
      BY <2>4 DEF CycleBusy
  <2>5. CASE HostPushWait \/ HostPushSet \/ HostWait
      BY <2>5 DEF HostPushWait, HostPushSet, HostWait
  <2>6. CASE SimStep
      BY <2>6 DEF SimStep, TickResp, SimPushWait, SimPushSet, TickReq, SimPop, Drive
  <2>7. CASE SpuriousWake
      BY <2>7 DEF SpuriousWake
  <2>8. CASE UNCHANGED vars
      BY <2>8 DEF vars
  <2> QED BY <2>1, <2>2, <2>3, <2>4, <2>5, <2>6, <2>7, <2>8 DEF Next, HostStep, Cycle
<1> QED BY <1>1, <1>2, DtmInvariant, PTL DEF Safety
=============================================================================
