------------------------------ MODULE MCBarrier ------------------------------
(* Barrier with four harts and three rounds: both senses, and one again.    *)
EXTENDS Barrier
=============================================================================
