------------------------------- MODULE ClkWzrd -------------------------------
(***************************************************************************)
(* The pixel-clock solver (clk-wzrd.c): the search for the MMCM dividers   *)
(* whose output lands closest to a target.  lim holds the limits of the    *)
(* device: the input clock, the windows of the phase detector and the VCO, *)
(* and the largest dividers (106, 1024 and 1024 eighths in the code).      *)
(* Frequencies are in kHz, so that a pixel clock times its dividers fits   *)
(* TLC's 32-bit integers; the code computes the same in Hz and 64 bits.    *)
(***************************************************************************)
EXTENDS Integers

\* The limits of a device.
Limits ==
    [input : Nat \ {0}, pfd_min : Nat, pfd_max : Nat, vco_min : Nat, vco_max : Nat,
     div : Nat, m8 : Nat, o8 : Nat]

Gap(a, b) == IF a > b THEN a - b ELSE b - a
Setting(lim) == [div : 1 .. lim.div, m8 : 16 .. lim.m8, o8 : 8 .. lim.o8]

\* output = input * mult / (div * odiv), rounded down.
Achieved(lim, s) == (lim.input * s.m8) \div (s.div * s.o8)

\* The windows of the device: phase detector, fractional divide, VCO.
PfdOk(lim, div) == lim.pfd_min * div <= lim.input /\ lim.input <= lim.pfd_max * div
OdivOk(o8) == o8 >= 16 \/ o8 % 8 = 0
VcoOk(lim, div, m8) ==
    /\ lim.vco_min * 8 * div <= lim.input * m8
    /\ lim.input * m8 <= lim.vco_max * 8 * div
Legal(lim, s) == PfdOk(lim, s.div) /\ OdivOk(s.o8) /\ VcoOk(lim, s.div, s.m8)

\* What the two inner loops look at for one div: the multiplier that hits
\* the target exactly, rounded down to eighths, and its neighbour.
Tried(lim, t, d) ==
    {s \in {[div |-> d, m8 |-> (t * d * o) \div lim.input + i, o8 |-> o] :
               o \in {p \in 8 .. lim.o8 : OdivOk(p)}, i \in {0, 1}} :
        s.m8 \in 16 .. lim.m8 /\ Legal(lim, s)}

\* The loops' order: by div, then odiv, then mult.
Before(a, b) ==
    \/ a.div < b.div
    \/ a.div = b.div /\ a.o8 < b.o8
    \/ a.div = b.div /\ a.o8 = b.o8 /\ a.m8 < b.m8

\* err < best_err keeps the first of the closest.
Closest(lim, t, S) ==
    CHOOSE s \in S : \A r \in S \ {s} :
        LET es == Gap(Achieved(lim, s), t)
            er == Gap(Achieved(lim, r), t)
        IN  es < er \/ (es = er /\ Before(s, r))

\* Mutant: the outer loop stops at the first div with a result.
BestOfFirst(lim, t) ==
    LET found == {d \in 1 .. lim.div : PfdOk(lim, d) /\ Tried(lim, t, d) # {}}
    IN  {Closest(lim, t, Tried(lim, t, d)) : d \in {e \in found : \A g \in found : e <= g}}

BestOf(lim, t) ==
    LET found == {d \in 1 .. lim.div : PfdOk(lim, d) /\ Tried(lim, t, d) # {}}
    IN  {Closest(lim, t, Tried(lim, t, d)) : d \in found}

\* Within 0.5 %.
Near(err, t) == err * 200 <= t

\* soct_clk_wzrd_solve: {} is -EDOM, else the one setting.
Solve(lim, t) ==
    LET best == BestOf(lim, t)
        s == Closest(lim, t, best)
    IN  IF t = 0 \/ best = {} THEN {}
        ELSE IF Near(Gap(Achieved(lim, s), t), t) THEN {s} ELSE {}

\* The achieved frequency, 0 when the target cannot be solved.
SolveHz(lim, t) ==
    IF Solve(lim, t) = {} THEN 0 ELSE Achieved(lim, CHOOSE s \in Solve(lim, t) : TRUE)
-----------------------------------------------------------------------------
\* What clk-wzrd.h promises when it calls the search exhaustive: no setting the
\* device allows is closer to the target than the one the solver returns, and it
\* refuses a target only when none lands within 0.5 %.
NoneCloser(lim, t) ==
    LET best == Solve(lim, t)
    IN  \A d \in {e \in 1 .. lim.div : PfdOk(lim, e)} :
          \A m \in {k \in 16 .. lim.m8 : VcoOk(lim, d, k)}, o \in {p \in 8 .. lim.o8 : OdivOk(p)} :
            LET gap == Gap(Achieved(lim, [div |-> d, m8 |-> m, o8 |-> o]), t)
            IN  IF best = {} THEN ~ Near(gap, t)
                ELSE \A b \in best : Gap(Achieved(lim, b), t) <= gap

\* The targets of which this can be shown.  For one pair of dividers both
\* multipliers f and f + 1 are legal; they are more than half the largest one,
\* and with f + 1 no divider is below the VCO's window.
Reachable(lim, t) ==
    \E d \in {e \in 1 .. lim.div : PfdOk(lim, e)}, o \in {p \in 8 .. lim.o8 : OdivOk(p)} :
      LET f == (t * d * o) \div lim.input
      IN  /\ {f, f + 1} \subseteq {k \in 16 .. lim.m8 : VcoOk(lim, d, k)}
          /\ lim.m8 <= 2 * f
          /\ \A e \in 1 .. lim.div : PfdOk(lim, e) => lim.vco_min * 8 * e <= lim.input * (f + 1)
=============================================================================
