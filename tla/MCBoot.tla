------------------------------- MODULE MCBoot -------------------------------
(* Boot with three harts: hart 0, one in its chunk of MSIP words on RV64, and *)
(* one outside it.                                                            *)
EXTENDS Boot
=============================================================================
