-------------------------------- MODULE Dmi --------------------------------
(***************************************************************************)
(* What dtm_t promises to the code that calls send_req (fesvr/dtm.hpp):    *)
(* the debug module executes every request exactly once, in program order, *)
(* and send_req returns the answer to the request it was given.            *)
(*                                                                         *)
(* Requests are numbered 1, 2, ... in the order of the send_req calls.     *)
(***************************************************************************)
EXTENDS Naturals

CONSTANT MaxReq

VARIABLES sent,      \* the last request a send_req call was given
          executed,  \* the number of requests the debug module accepted
          returned   \* the request whose answer send_req returned last

vars == <<sent, executed, returned>>

Init == sent = 0 /\ executed = 0 /\ returned = 0

Send == /\ returned = sent /\ sent < MaxReq
        /\ sent' = sent + 1
        /\ UNCHANGED <<executed, returned>>

Execute == /\ executed < sent
           /\ executed' = executed + 1
           /\ UNCHANGED <<sent, returned>>

Return == /\ returned < sent /\ executed = sent
          /\ returned' = sent
          /\ UNCHANGED <<sent, executed>>

Next == Send \/ Execute \/ Return

Spec == Init /\ [][Next]_vars /\ WF_vars(Execute) /\ WF_vars(Return)
=============================================================================
