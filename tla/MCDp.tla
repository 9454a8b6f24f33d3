-------------------------------- MODULE MCDp --------------------------------
(***************************************************************************)
(* TLC instances of Dp: three geometries of fbmode's list, clocks in kHz   *)
(* and dot periods in picoseconds, the solver's own results at a 125 MHz   *)
(* periphery clock.  Sizes only keep the order of the geometries.          *)
(***************************************************************************)
EXTENDS Dp

CONSTANTS xga, hd, svga, none

\* The MMCM of the boards at that clock (MmcmSolver.scala).
Device == [input |-> 125000, pfd_min |-> 10000, pfd_max |-> 500000,
           vco_min |-> 800000, vco_max |-> 1600000, div |-> 106, m8 |-> 1024, o8 |-> 1024]

MCGeo == {xga, hd, svga}
MCSize == [g \in MCGeo |-> IF g = svga THEN 3 ELSE IF g = xga THEN 4 ELSE 5]

\* The clocks of the three modes, closed under the solver and the conversions.
MCClock == {40000, 64997, 64998, 65000, 74248, 74250}

ASSUME ConvergesAssumption == BootConverges

Svga == [geo |-> svga, clk |-> 40000]
Xga == [geo |-> xga, clk |-> 65000]
Hd == [geo |-> hd, clk |-> 74250]
MCAsked == {Svga, Xga, Hd}

\* Carve-outs: two frames of any mode, one frame of the largest, too small.
D(i, b, m, c) == [incoherent |-> i, budget |-> b, mmap |-> m, carveout |-> c]
AllDesigns == {D(i, b, m, c) : i, b, m \in BOOLEAN, c \in {10, 6, 4}}
MCInherited == {40000, 74250}
=============================================================================
