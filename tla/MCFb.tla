-------------------------------- MODULE MCFb --------------------------------
(***************************************************************************)
(* TLC instance of Fb.  The areas: one that reaches over the lower right   *)
(* corner of the one-pixel-wide screen and one wholly off it.              *)
(***************************************************************************)
EXTENDS Fb

CONSTANTS d1

FewAreas == {<<0, 1, 2, 2>>, <<1, 0, 1, 1>>}
FewLengths == {2}
LastPixel == {<<0, 1>>}
OneDrawer == {d1}
=============================================================================
