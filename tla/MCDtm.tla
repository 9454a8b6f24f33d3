------------------------------- MODULE MCDtm -------------------------------
(* Dtm with three send_req calls: the first, one that follows an answered  *)
(* request, and one more so that stale answers would be seen.              *)
EXTENDS Dtm
=============================================================================
