------------------------------- MODULE MCHtif -------------------------------
(* Htif with two harts.  The boot hart makes its two start-up calls and two *)
(* of the program's, the other hart two or more of the program's.           *)
EXTENDS Htif
=============================================================================
