---------------------------- MODULE ArithProofs ----------------------------
(***************************************************************************)
(* Theorems about the arithmetic of the drivers and the SD controller.     *)
(*                                                                         *)
(* ClkWzrd, for every device and every target: what Closest chooses among, *)
(* how the two multipliers the solver looks at bracket the target, what    *)
(* follows for the clock it answers with, and for the modes of Dp.         *)
(*                                                                         *)
(* SdcWidths, for registers, FIFOs and pages of any size.                  *)
(***************************************************************************)
EXTENDS Dp, SdcWidths, TLAPS, WellFoundedInduction

\* A set of natural numbers has a least element.
LEMMA LeastNat ==
  ASSUME NEW S \in SUBSET Nat, S # {}
  PROVE  \E n \in S : \A k \in S : n <= k
<1> DEFINE R == {p \in Nat \X Nat : p[1] < p[2]}
<1>1. IsWellFoundedOn(R, Nat)
  BY NatLessThanWellFounded, Zenon DEF OpToRel
<1> HIDE DEF R
<1>2. PICK n \in S : \A k \in S : ~ (<<k, n>> \in R)
  BY <1>1, WFMin, Zenon
<1>3. ASSUME NEW k \in S PROVE n <= k
  <2>1. k \in Nat /\ n \in Nat /\ ~ (<<k, n>> \in R)
    BY <1>2
  <2>2. ~ (k < n)
    <3>1. <<k, n>> \in Nat \X Nat /\ <<k, n>>[1] = k /\ <<k, n>>[2] = n
      BY <2>1
    <3> QED
      BY <2>1, <3>1, Zenon DEF R
  <2> QED
    BY <2>1, <2>2
<1> QED
  BY <1>3

\* Products of natural numbers keep the order.
LEMMA Times ==
  ASSUME NEW a \in Nat, NEW b \in Nat, NEW c \in Nat, a <= b
  PROVE  c * a \in Nat /\ c * b \in Nat /\ c * a <= c * b
OBVIOUS

LEMMA TimesNext ==
  ASSUME NEW a \in Nat, NEW c \in Nat
  PROVE  c * (a + 1) = c * a + c /\ c * a \in Nat
OBVIOUS

\* What a division rounded down brackets.
LEMMA Quotient ==
  ASSUME NEW n \in Nat, NEW w \in Nat \ {0}
  PROVE  /\ n \div w \in Nat
         /\ w * (n \div w) <= n /\ n < w * (n \div w) + w
OBVIOUS

\* A quotient compared with a number, and with another quotient.
LEMMA QuotientBounds ==
  ASSUME NEW n \in Nat, NEW w \in Nat \ {0}, NEW t \in Nat
  PROVE  /\ n <= w * t => n \div w <= t
         /\ n >= w * t => n \div w >= t
<1> DEFINE q == n \div w
<1>1. q \in Nat /\ w * q <= n /\ n < w * q + w
  BY Quotient
<1> HIDE DEF q
<1>2. ASSUME n <= w * t, q > t PROVE FALSE
  <2>1. w * (t + 1) <= w * q /\ w * (t + 1) = w * t + w /\ w * t \in Nat /\ w * q \in Nat
    BY <1>1, <1>2, Times, TimesNext
  <2> QED
    BY <1>1, <1>2, <2>1
<1>3. ASSUME n >= w * t, q < t PROVE FALSE
  <2>1. w * (q + 1) <= w * t /\ w * (q + 1) = w * q + w /\ w * t \in Nat /\ w * q \in Nat
    BY <1>1, <1>3, Times, TimesNext
  <2> QED
    BY <1>1, <1>3, <2>1
<1> QED
  BY <1>1, <1>2, <1>3 DEF q

LEMMA QuotientGrows ==
  ASSUME NEW n \in Nat, NEW k \in Nat, NEW w \in Nat \ {0}, n <= k
  PROVE  n \div w <= k \div w
<1>1. n \div w \in Nat /\ w * (n \div w) <= n /\ w * (n \div w) \in Nat
  BY Quotient
<1>2. k >= w * (n \div w)
  BY <1>1
<1> QED
  BY <1>1, <1>2, QuotientBounds

\* The error of a setting.
Err(lim, t, s) == Gap(Achieved(lim, s), t)

LEMMA AchievedType ==
  ASSUME NEW lim \in Limits, NEW s \in Setting(lim), NEW t \in Nat
  PROVE  /\ s.div \in Nat \ {0} /\ s.m8 \in Nat /\ s.o8 \in Nat \ {0}
         /\ lim.input \in Nat \ {0}
         /\ s.div * s.o8 \in Nat \ {0} /\ lim.input * s.m8 \in Nat
         /\ Achieved(lim, s) \in Nat /\ Err(lim, t, s) \in Nat
<1>1. /\ s.div \in Nat \ {0} /\ s.m8 \in Nat /\ s.o8 \in Nat \ {0} /\ lim.input \in Nat \ {0}
  BY DEF Setting, Limits
<1>2. s.div * s.o8 \in Nat \ {0} /\ lim.input * s.m8 \in Nat
  BY <1>1
<1>3. Achieved(lim, s) \in Nat
  BY <1>2, Quotient DEF Achieved
<1> QED
  BY <1>1, <1>2, <1>3 DEF Err, Gap

\* err < best_err finds a setting with the least error: the choice of Closest
\* exists, because the loops' order decides between equal errors.
LEMMA ClosestLeast ==
  ASSUME NEW lim \in Limits, NEW t \in Nat, NEW S \in SUBSET Setting(lim), S # {}
  PROVE  /\ Closest(lim, t, S) \in S
         /\ \A r \in S : Err(lim, t, Closest(lim, t, S)) <= Err(lim, t, r)
<1>0. \A s \in S : /\ s.div \in Nat /\ s.m8 \in Nat /\ s.o8 \in Nat /\ Err(lim, t, s) \in Nat
                 /\ s = [div |-> s.div, m8 |-> s.m8, o8 |-> s.o8]
  <2> SUFFICES ASSUME NEW s \in S
               PROVE  /\ s.div \in Nat /\ s.m8 \in Nat /\ s.o8 \in Nat /\ Err(lim, t, s) \in Nat
                      /\ s = [div |-> s.div, m8 |-> s.m8, o8 |-> s.o8]
    OBVIOUS
  <2>1. s \in Setting(lim)
    OBVIOUS
  <2> QED
    BY <2>1, AchievedType DEF Setting
<1> DEFINE E(s) == Err(lim, t, s)
           First(s, r) == E(s) < E(r) \/ (E(s) = E(r) /\ Before(s, r))
<1>1. PICK e \in S : \A r \in S : E(e) <= E(r)
  <2>1. PICK n \in {E(s) : s \in S} : \A k \in {E(s) : s \in S} : n <= k
    <3>1. {E(s) : s \in S} \in SUBSET Nat /\ {E(s) : s \in S} # {}
      BY <1>0
    <3> HIDE DEF E
    <3> QED
      BY <3>1, LeastNat, Zenon
  <2> QED
    BY <2>1
<1> DEFINE S1 == {s \in S : E(s) = E(e)}
<1>2. PICK d \in S1 : \A r \in S1 : d.div <= r.div
  <2>1. {s.div : s \in S1} \in SUBSET Nat /\ {s.div : s \in S1} # {}
    BY <1>0
  <2>2. PICK n \in {s.div : s \in S1} : \A k \in {s.div : s \in S1} : n <= k
    BY <2>1, LeastNat, Zenon
  <2> QED
    BY <2>2
<1> DEFINE S2 == {s \in S1 : s.div = d.div}
<1>3. PICK o \in S2 : \A r \in S2 : o.o8 <= r.o8
  <2>1. {s.o8 : s \in S2} \in SUBSET Nat /\ {s.o8 : s \in S2} # {}
    BY <1>0, <1>2
  <2>2. PICK n \in {s.o8 : s \in S2} : \A k \in {s.o8 : s \in S2} : n <= k
    BY <2>1, LeastNat, Zenon
  <2> QED
    BY <2>2
<1> DEFINE S3 == {s \in S2 : s.o8 = o.o8}
<1>4. PICK m \in S3 : \A r \in S3 : m.m8 <= r.m8
  <2>1. {s.m8 : s \in S3} \in SUBSET Nat /\ {s.m8 : s \in S3} # {}
    BY <1>0, <1>3
  <2>2. PICK n \in {s.m8 : s \in S3} : \A k \in {s.m8 : s \in S3} : n <= k
    BY <2>1, LeastNat, Zenon
  <2> QED
    BY <2>2
<1>5. m \in S /\ E(m) = E(e) /\ m.div = d.div /\ m.o8 = o.o8
  BY <1>4
<1>6. ASSUME NEW r \in S, r # m PROVE First(m, r)
  <2>0. /\ E(m) \in Nat /\ E(r) \in Nat /\ m.div \in Nat /\ r.div \in Nat
        /\ m.o8 \in Nat /\ r.o8 \in Nat /\ m.m8 \in Nat /\ r.m8 \in Nat
        /\ m = [div |-> m.div, m8 |-> m.m8, o8 |-> m.o8]
        /\ r = [div |-> r.div, m8 |-> r.m8, o8 |-> r.o8]
    BY <1>0, <1>5, <1>6
  <2>1. E(m) <= E(r)
    BY <1>1, <1>5, <1>6
  <2>2. E(r) = E(m) => m.div <= r.div
    BY <1>2, <1>5, <1>6
  <2>3. E(r) = E(m) /\ r.div = m.div => m.o8 <= r.o8
    BY <1>3, <1>5, <1>6
  <2>4. E(r) = E(m) /\ r.div = m.div /\ r.o8 = m.o8 => m.m8 <= r.m8
    BY <1>4, <1>5, <1>6
  <2>5. r.div # m.div \/ r.o8 # m.o8 \/ r.m8 # m.m8
    BY <1>6, <2>0
  <2> HIDE DEF E
  <2> QED
    BY <2>0, <2>1, <2>2, <2>3, <2>4, <2>5 DEF Before
<1> DEFINE c == Closest(lim, t, S)
<1>7. c \in S /\ \A r \in S \ {c} : First(c, r)
  BY <1>5, <1>6 DEF Closest, Err
<1>8. ASSUME NEW r \in S PROVE E(c) <= E(r)
  <2>1. E(c) \in Nat /\ E(r) \in Nat
    BY <1>0, <1>7
  <2>2. CASE r = c
    BY <2>1, <2>2
  <2>3. CASE r # c
    <3>1. First(c, r)
      BY <1>7, <2>3
    <3> HIDE DEF c, E
    <3> QED
      BY <2>1, <3>1
  <2> QED
    BY <2>2, <2>3
<1> QED
  BY <1>7, <1>8

\* What the inner loops look at are legal settings.
LEMMA TriedLegal ==
  ASSUME NEW lim \in Limits, NEW t \in Nat, NEW d \in 1 .. lim.div, NEW r \in Tried(lim, t, d)
  PROVE  /\ r \in Setting(lim) /\ Legal(lim, r) /\ r.div = d
         /\ r.m8 \in {(t * d * r.o8) \div lim.input, (t * d * r.o8) \div lim.input + 1}
<1>1. PICK o \in {p \in 8 .. lim.o8 : OdivOk(p)}, i \in {0, 1} :
         r = [div |-> d, m8 |-> (t * d * o) \div lim.input + i, o8 |-> o]
  BY DEF Tried
<1>2. r.m8 \in 16 .. lim.m8 /\ Legal(lim, r)
  BY DEF Tried
<1>3. o \in 8 .. lim.o8 /\ r.div = d /\ r.o8 = o /\ r.m8 = (t * d * o) \div lim.input + i
  BY <1>1
<1>4. r \in Setting(lim)
  BY <1>1, <1>2, <1>3 DEF Setting
<1>5. t * d * o \in Nat /\ lim.input \in Nat \ {0}
  BY <1>3 DEF Limits
<1>6. (t * d * o) \div lim.input \in Nat
  BY <1>5, Quotient
<1> HIDE DEF Tried
<1> QED
  BY <1>2, <1>3, <1>4, <1>6

\* The rounded multiplier and its neighbour bracket the target: a multiplier up
\* to the first achieves at most the target, one from the second on at least.
LEMMA Brackets ==
  ASSUME NEW lim \in Limits, NEW t \in Nat, NEW s \in Setting(lim)
  PROVE  LET f == (t * s.div * s.o8) \div lim.input
         IN  /\ f \in Nat
             /\ s.m8 <= f => Achieved(lim, s) <= t
             /\ s.m8 >= f + 1 => Achieved(lim, s) >= t
<1> DEFINE w == s.div * s.o8
           f == (t * s.div * s.o8) \div lim.input
<1>0. /\ s.div \in Nat \ {0} /\ s.m8 \in Nat /\ s.o8 \in Nat \ {0} /\ lim.input \in Nat \ {0}
      /\ w \in Nat \ {0} /\ lim.input * s.m8 \in Nat
  BY AchievedType
<1>1. t * s.div * s.o8 = w * t /\ w * t \in Nat
  BY <1>0
<1>2. f \in Nat /\ lim.input * f <= w * t /\ w * t < lim.input * f + lim.input
  BY <1>0, <1>1, Quotient
<1>3. Achieved(lim, s) = (lim.input * s.m8) \div w
  BY DEF Achieved
<1> HIDE DEF w, f
<1>4. ASSUME s.m8 <= f PROVE Achieved(lim, s) <= t
  <2>1. lim.input * s.m8 <= lim.input * f /\ lim.input * f \in Nat
    BY <1>0, <1>2, <1>4, Times
  <2>2. lim.input * s.m8 <= w * t
    BY <1>0, <1>1, <1>2, <2>1
  <2> QED
    BY <1>0, <1>3, <2>2, QuotientBounds
<1>5. ASSUME s.m8 >= f + 1 PROVE Achieved(lim, s) >= t
  <2>1. /\ lim.input * (f + 1) <= lim.input * s.m8
        /\ lim.input * (f + 1) = lim.input * f + lim.input /\ lim.input * f \in Nat
    BY <1>0, <1>2, <1>5, Times, TimesNext
  <2>2. lim.input * s.m8 >= w * t
    BY <1>0, <1>1, <1>2, <2>1
  <2> QED
    BY <1>0, <1>3, <2>2, QuotientBounds
<1> QED
  BY <1>2, <1>4, <1>5 DEF f

\* A larger multiplier achieves no less.
LEMMA AchievedGrows ==
  ASSUME NEW lim \in Limits, NEW s \in Setting(lim), NEW r \in Setting(lim),
         s.div = r.div, s.o8 = r.o8, s.m8 <= r.m8
  PROVE  Achieved(lim, s) <= Achieved(lim, r)
<1>1. /\ s.m8 \in Nat /\ r.m8 \in Nat /\ lim.input \in Nat /\ s.div * s.o8 \in Nat \ {0}
      /\ lim.input * s.m8 \in Nat /\ lim.input * r.m8 \in Nat
  BY AchievedType
<1>2. lim.input * s.m8 <= lim.input * r.m8
  BY <1>1, Times
<1> QED
  BY <1>1, <1>2, QuotientGrows DEF Achieved

\* So for every divider and output divider of which a multiplier is looked at,
\* no legal multiplier is closer than one that is.
LEMMA TriedClosest ==
  ASSUME NEW lim \in Limits, NEW t \in Nat, NEW s \in Setting(lim), Legal(lim, s),
         NEW r \in Tried(lim, t, s.div), r.o8 = s.o8
  PROVE  \E c \in Tried(lim, t, s.div) : Err(lim, t, c) <= Err(lim, t, s)
<1> DEFINE f == (t * s.div * s.o8) \div lim.input
           At(m) == [div |-> s.div, m8 |-> m, o8 |-> s.o8]
<1>0. /\ s.div \in 1 .. lim.div /\ s.m8 \in 16 .. lim.m8 /\ s.o8 \in 8 .. lim.o8
      /\ s.div \in Nat /\ s.m8 \in Nat /\ lim.m8 \in Nat /\ lim.input \in Nat
      /\ lim.vco_min * 8 * s.div \in Nat /\ lim.vco_max * 8 * s.div \in Nat
  BY DEF Setting, Limits
<1>1. f \in Nat
  BY Brackets
<1>2. /\ r \in Setting(lim) /\ Legal(lim, r) /\ r.div = s.div /\ r.m8 \in {f, f + 1}
      /\ r.m8 \in 16 .. lim.m8
  BY <1>0, TriedLegal DEF Setting
<1> HIDE DEF f
\* The legal multipliers of one pair of dividers have no gap.
<1>3. ASSUME NEW m \in {f, f + 1}, NEW lo \in Nat, NEW hi \in Nat,
             Legal(lim, At(lo)), Legal(lim, At(hi)), lo \in 16 .. lim.m8, hi \in 16 .. lim.m8,
             lo <= m, m <= hi
      PROVE  At(m) \in Tried(lim, t, s.div) /\ At(m) \in Setting(lim)
  <2>1. m \in 16 .. lim.m8 /\ m \in Nat
    BY <1>0, <1>1, <1>3
  <2>2. /\ lim.input * lo <= lim.input * m /\ lim.input * m <= lim.input * hi
        /\ lim.input * lo \in Nat /\ lim.input * m \in Nat /\ lim.input * hi \in Nat
    BY <1>0, <1>3, <2>1, Times
  <2>3. /\ lim.vco_min * 8 * s.div <= lim.input * lo
        /\ lim.input * hi <= lim.vco_max * 8 * s.div
        /\ PfdOk(lim, s.div) /\ OdivOk(s.o8)
    BY <1>3 DEF Legal, VcoOk
  <2>4. /\ lim.vco_min * 8 * s.div <= lim.input * m
        /\ lim.input * m <= lim.vco_max * 8 * s.div
    BY <1>0, <2>2, <2>3
  <2>5. Legal(lim, At(m))
    BY <2>3, <2>4 DEF Legal, VcoOk
  <2>6. At(m) \in {[div |-> s.div, m8 |-> (t * s.div * o) \div lim.input + i, o8 |-> o] :
               o \in {p \in 8 .. lim.o8 : OdivOk(p)}, i \in {0, 1}}
    <3>1. PICK i \in {0, 1} : m = (t * s.div * s.o8) \div lim.input + i
      BY <1>1, <1>3 DEF f
    <3>2. s.o8 \in {p \in 8 .. lim.o8 : OdivOk(p)}
      BY <1>0, <2>3
    <3> QED
      BY <3>1, <3>2
  <2>7. At(m) \in Setting(lim)
    BY <1>0, <2>1 DEF Setting
  <2>8. At(m).m8 \in 16 .. lim.m8
    BY <2>1
  <2>9. At(m) \in Tried(lim, t, s.div)
    <3> HIDE DEF At
    <3> QED
      BY <2>5, <2>6, <2>8 DEF Tried
  <2> QED
    BY <2>7, <2>9
<1>4. s = At(s.m8) /\ r = At(r.m8)
  BY <1>2 DEF Setting
<1>5. /\ Achieved(lim, s) \in Nat /\ Err(lim, t, s) \in Nat
  BY AchievedType
<1>6. CASE s.m8 <= f
  <2>1. PICK c \in Tried(lim, t, s.div) : c \in Setting(lim) /\ c.div = s.div /\ c.o8 = s.o8 /\ c.m8 = f
    <3>1. CASE r.m8 = f
      BY <1>2, <3>1
    <3>2. CASE r.m8 = f + 1
      <4>1. At(f) \in Tried(lim, t, s.div) /\ At(f) \in Setting(lim)
        BY <1>0, <1>1, <1>2, <1>3, <1>4, <1>6, <3>2
      <4> QED
        BY <4>1
    <3> QED
      BY <1>2, <3>1, <3>2
  <2>2. Achieved(lim, s) <= Achieved(lim, c) /\ Achieved(lim, c) \in Nat
    BY <1>6, <2>1, AchievedGrows, AchievedType
  <2>3. Achieved(lim, c) <= t
    BY <1>1, <2>1, Brackets DEF f
  <2> QED
    BY <1>5, <2>2, <2>3 DEF Err, Gap
<1>7. CASE s.m8 >= f + 1
  <2>1. PICK c \in Tried(lim, t, s.div) : c \in Setting(lim) /\ c.div = s.div /\ c.o8 = s.o8 /\ c.m8 = f + 1
    <3>1. CASE r.m8 = f + 1
      BY <1>2, <3>1
    <3>2. CASE r.m8 = f
      <4>1. At(f + 1) \in Tried(lim, t, s.div) /\ At(f + 1) \in Setting(lim)
        BY <1>0, <1>1, <1>2, <1>3, <1>4, <1>7, <3>2
      <4> QED
        BY <4>1
    <3> QED
      BY <1>2, <3>1, <3>2
  <2>2. Achieved(lim, c) <= Achieved(lim, s) /\ Achieved(lim, c) \in Nat
    BY <1>7, <2>1, AchievedGrows, AchievedType
  <2>3. Achieved(lim, c) >= t
    BY <1>1, <2>1, Brackets DEF f
  <2> QED
    BY <1>5, <2>2, <2>3 DEF Err, Gap
<1> QED
  BY <1>0, <1>1, <1>6, <1>7

\* The best over all dividers is at least as close as everything looked at.
LEMMA BestLeast ==
  ASSUME NEW lim \in Limits, NEW t \in Nat, NEW d \in 1 .. lim.div, NEW r \in Tried(lim, t, d)
  PROVE  LET b == Closest(lim, t, BestOf(lim, t))
         IN  BestOf(lim, t) # {} /\ b \in Setting(lim) /\ Legal(lim, b)
             /\ Err(lim, t, b) <= Err(lim, t, r)
<1> DEFINE best == BestOf(lim, t)
           b == Closest(lim, t, best)
           found == {e \in 1 .. lim.div : PfdOk(lim, e) /\ Tried(lim, t, e) # {}}
<1>1. ASSUME NEW e \in found
      PROVE  /\ Closest(lim, t, Tried(lim, t, e)) \in Tried(lim, t, e)
             /\ Closest(lim, t, Tried(lim, t, e)) \in Setting(lim)
             /\ Legal(lim, Closest(lim, t, Tried(lim, t, e)))
             /\ \A s \in Tried(lim, t, e) :
                   Err(lim, t, Closest(lim, t, Tried(lim, t, e))) <= Err(lim, t, s)
  <2>1. Tried(lim, t, e) \in SUBSET Setting(lim) /\ Tried(lim, t, e) # {}
    BY TriedLegal
  <2> QED
    BY <2>1, ClosestLeast, TriedLegal
<1>2. best = {Closest(lim, t, Tried(lim, t, e)) : e \in found}
  BY DEF BestOf
<1>3. d \in found
  BY TriedLegal DEF Legal
<1>4. best \in SUBSET Setting(lim) /\ best # {} /\ \A s \in best : Legal(lim, s)
  BY <1>1, <1>2, <1>3
<1> HIDE DEF best
<1>5. b \in best /\ \A s \in best : Err(lim, t, b) <= Err(lim, t, s)
  BY <1>4, ClosestLeast
<1> DEFINE c == Closest(lim, t, Tried(lim, t, d))
<1>6. c \in best /\ c \in Setting(lim) /\ Err(lim, t, c) <= Err(lim, t, r)
  BY <1>1, <1>2, <1>3
<1>7. b \in Setting(lim) /\ r \in Setting(lim)
  BY <1>4, <1>5, TriedLegal
<1>8. Err(lim, t, b) <= Err(lim, t, c)
  BY <1>5, <1>6
<1>9. Err(lim, t, b) \in Nat /\ Err(lim, t, c) \in Nat /\ Err(lim, t, r) \in Nat
  BY <1>6, <1>7, AchievedType
<1> HIDE DEF b, c
<1>10. Err(lim, t, b) <= Err(lim, t, r)
  BY <1>6, <1>8, <1>9
<1> QED
  BY <1>4, <1>5, <1>7, <1>10 DEF best, b

\* What the search returns was looked at and is legal.
LEMMA SolveSound ==
  ASSUME NEW lim \in Limits, NEW t \in Nat, NEW b \in Solve(lim, t)
  PROVE  /\ Solve(lim, t) = {b} /\ b = Closest(lim, t, BestOf(lim, t))
         /\ b \in Setting(lim) /\ Legal(lim, b) /\ t # 0 /\ Near(Err(lim, t, b), t)
<1>1. /\ Solve(lim, t) = {b} /\ b = Closest(lim, t, BestOf(lim, t))
      /\ t # 0 /\ BestOf(lim, t) # {} /\ Near(Err(lim, t, b), t)
  BY DEF Solve, Err
<1>2. PICK d \in 1 .. lim.div : Tried(lim, t, d) # {}
  BY <1>1 DEF BestOf
<1> QED
  BY <1>1, <1>2, BestLeast

\* soct_clk_wzrd_solve promises an exhaustive search and looks at two
\* multipliers of each pair of dividers.  Of every pair of which it looks at one,
\* no legal multiplier is closer to the target than what it returns.
THEOREM SolverClosest ==
  ASSUME NEW lim \in Limits, NEW t \in Nat, NEW b \in Solve(lim, t),
         NEW s \in Setting(lim), Legal(lim, s),
         \E r \in Tried(lim, t, s.div) : r.o8 = s.o8
  PROVE  Gap(Achieved(lim, b), t) <= Gap(Achieved(lim, s), t)
<1>1. PICK c \in Tried(lim, t, s.div) : Err(lim, t, c) <= Err(lim, t, s)
  BY TriedClosest
<1>2. s.div \in 1 .. lim.div
  BY DEF Setting
<1>3. Err(lim, t, b) <= Err(lim, t, c) /\ b \in Setting(lim) /\ c \in Setting(lim)
  BY <1>2, BestLeast, SolveSound, TriedLegal
<1>4. Err(lim, t, b) \in Nat /\ Err(lim, t, c) \in Nat /\ Err(lim, t, s) \in Nat
  BY <1>3, AchievedType
<1> QED
  BY <1>1, <1>3, <1>4 DEF Err

\* It returns -EDOM only when none of these is within 0.5 % of the target.
THEOREM SolverRefuses ==
  ASSUME NEW lim \in Limits, NEW t \in Nat \ {0}, Solve(lim, t) = {},
         NEW s \in Setting(lim), Legal(lim, s),
         \E r \in Tried(lim, t, s.div) : r.o8 = s.o8
  PROVE  ~ Near(Gap(Achieved(lim, s), t), t)
<1> DEFINE b == Closest(lim, t, BestOf(lim, t))
<1>1. PICK c \in Tried(lim, t, s.div) : Err(lim, t, c) <= Err(lim, t, s)
  BY TriedClosest
<1>2. s.div \in 1 .. lim.div
  BY DEF Setting
<1>3. /\ BestOf(lim, t) # {} /\ b \in Setting(lim) /\ c \in Setting(lim)
      /\ Err(lim, t, b) <= Err(lim, t, c)
  BY <1>2, BestLeast, TriedLegal
<1>4. Err(lim, t, b) \in Nat /\ Err(lim, t, c) \in Nat /\ Err(lim, t, s) \in Nat
  BY <1>3, AchievedType
<1>5. ~ Near(Err(lim, t, b), t)
  BY <1>3 DEF Solve, Err
<1> HIDE DEF b
<1>6. ~ Near(Err(lim, t, s), t)
  BY <1>1, <1>3, <1>4, <1>5 DEF Near
<1> QED
  BY <1>6 DEF Err

\* "Solving for an achieved value lands on its own setting exactly"
\* (dp-main.c:411), on every device whose input clock has more Hz than its
\* dividers have steps: SettlesAssumption of Dp, which soct_dp_validate_mode
\* relies on when it is called again for a mode it has let through.
THEOREM SolverSettles ==
  ASSUME NEW lim \in Limits, lim.div * lim.o8 <= lim.input, NEW t \in Nat,
         SolveHz(lim, t) # 0
  PROVE  SolveHz(lim, SolveHz(lim, t)) = SolveHz(lim, t)
<1>1. PICK b : b \in Solve(lim, t)
  BY DEF SolveHz
<1>2. b \in Setting(lim) /\ Legal(lim, b) /\ Solve(lim, t) = {b}
  BY <1>1, SolveSound
<1> DEFINE a == Achieved(lim, b)
           w == b.div * b.o8
           f == (a * b.div * b.o8) \div lim.input
<1>3. SolveHz(lim, t) = a
  BY <1>2 DEF SolveHz
<1>4. /\ b.div \in Nat \ {0} /\ b.m8 \in Nat /\ b.o8 \in Nat \ {0} /\ lim.input \in Nat \ {0}
      /\ w \in Nat \ {0} /\ lim.input * b.m8 \in Nat /\ a \in Nat
      /\ b.div \in 1 .. lim.div /\ b.o8 \in 8 .. lim.o8 /\ b.m8 \in 16 .. lim.m8
      /\ lim.div \in Nat /\ lim.o8 \in Nat
  BY <1>2, AchievedType DEF Setting, Limits
<1>5. w <= lim.input
  <2>1. b.div * b.o8 <= b.div * lim.o8 /\ b.div * lim.o8 \in Nat
    BY <1>4, Times
  <2>2. lim.o8 * b.div <= lim.o8 * lim.div
    BY <1>4, Times
  <2> QED
    BY <1>4, <2>1, <2>2
<1>6. w * a <= lim.input * b.m8 /\ lim.input * b.m8 < w * a + w
  BY <1>4, Quotient DEF Achieved
<1>7. a * b.div * b.o8 = w * a /\ w * a \in Nat
  BY <1>4
<1>8. f \in Nat /\ lim.input * f <= w * a /\ w * a < lim.input * f + lim.input
  BY <1>4, <1>7, Quotient, Zenon
<1> HIDE DEF a, w, f
<1>9. b.m8 \in {f, f + 1}
  <2>1. ASSUME f >= b.m8 + 1 PROVE FALSE
    <3>1. /\ lim.input * (b.m8 + 1) <= lim.input * f
          /\ lim.input * (b.m8 + 1) = lim.input * b.m8 + lim.input /\ lim.input * f \in Nat
      BY <1>4, <1>8, <2>1, Times, TimesNext
    <3> QED
      BY <1>4, <1>6, <1>7, <1>8, <3>1
  <2>2. ASSUME b.m8 >= f + 2 PROVE FALSE
    <3>1. /\ lim.input * ((f + 1) + 1) <= lim.input * b.m8
          /\ lim.input * ((f + 1) + 1) = lim.input * (f + 1) + lim.input
          /\ lim.input * (f + 1) = lim.input * f + lim.input /\ lim.input * f \in Nat
      BY <1>4, <1>8, <2>2, Times, TimesNext
    <3> QED
      BY <1>4, <1>5, <1>6, <1>7, <1>8, <3>1
  <2> QED
    BY <1>4, <1>8, <2>1, <2>2
<1>10. b \in Tried(lim, a, b.div)
  <2>1. PICK i \in {0, 1} : b.m8 = (a * b.div * b.o8) \div lim.input + i
    BY <1>8, <1>9 DEF f
  <2>2. b.o8 \in {p \in 8 .. lim.o8 : OdivOk(p)}
    BY <1>2, <1>4 DEF Legal
  <2>3. b = [div |-> b.div, m8 |-> b.m8, o8 |-> b.o8]
    BY <1>2 DEF Setting
  <2>4. b \in {[div |-> b.div, m8 |-> (a * b.div * o) \div lim.input + j, o8 |-> o] :
               o \in {p \in 8 .. lim.o8 : OdivOk(p)}, j \in {0, 1}}
    BY <2>1, <2>2, <2>3
  <2> QED
    BY <1>2, <1>4, <2>4 DEF Tried
<1>11. a # 0
  BY <1>3
<1> DEFINE s == Closest(lim, a, BestOf(lim, a))
<1>12. BestOf(lim, a) # {} /\ s \in Setting(lim) /\ Err(lim, a, s) <= Err(lim, a, b)
  BY <1>4, <1>10, BestLeast
<1>13. Err(lim, a, b) = 0
  BY <1>4 DEF Err, Gap, a
<1>14. Achieved(lim, s) \in Nat /\ Err(lim, a, s) \in Nat
  BY <1>4, <1>12, AchievedType
<1> HIDE DEF s
<1>15. Err(lim, a, s) = 0
  BY <1>12, <1>13, <1>14
<1>16. Achieved(lim, s) = a
  BY <1>4, <1>14, <1>15 DEF Err, Gap
<1>17. Near(Err(lim, a, s), a)
  BY <1>4, <1>15 DEF Near
<1>18. Solve(lim, a) = {s}
  BY <1>11, <1>12, <1>17 DEF Solve, Err, s
<1> QED
  BY <1>3, <1>16, <1>18, Zenon DEF SolveHz
-----------------------------------------------------------------------------
(***************************************************************************)
(* Exhaustiveness.  A setting whose multiplier is next to the exact one is *)
(* looked at.  Any other is off by more than one part in its multiplier;   *)
(* of two neighbouring multipliers that bracket the target, one is off by  *)
(* less than one part in twice theirs.  Rounding the achieved clock down   *)
(* must not turn the comparison over, so the two sides are told apart.     *)
(***************************************************************************)
\* A common factor can be taken off both sides.
LEMMA Cancel ==
  ASSUME NEW a \in Int, NEW b \in Int, NEW c \in Nat \ {0}
  PROVE  /\ c * a <= c * b => a <= b
         /\ c * a < c * b => a < b
<1>1. ASSUME a > b PROVE c * a > c * b
  <2>1. a - b \in Nat \ {0}
    BY <1>1
  <2>2. c * (a - b) > 0 /\ c * (a - b) = c * a - c * b
    BY <2>1
  <2> QED
    BY <2>2
<1>2. c * a \in Int /\ c * b \in Int
  OBVIOUS
<1> QED
  BY <1>1, <1>2

\* Quotients compared over different divisors.
LEMMA QuotientCross ==
  ASSUME NEW n \in Nat, NEW k \in Nat, NEW v \in Nat \ {0}, NEW w \in Nat \ {0},
         n * w <= k * v
  PROVE  n \div v <= k \div w
<1> DEFINE q == n \div v
<1>1. q \in Nat /\ v * q <= n /\ v * q \in Nat
  BY Quotient
<1> HIDE DEF q
<1>2. w * (v * q) <= w * n
  BY <1>1, Times
<1>3. w * (v * q) = v * (w * q) /\ w * n = n * w /\ k * v = v * k /\ w * q \in Nat
  BY <1>1
<1>4. v * (w * q) <= v * k
  BY <1>2, <1>3
<1>5. w * q <= k
  BY <1>3, <1>4, Cancel
<1> QED
  BY <1>1, <1>5, QuotientBounds DEF q

\* A setting two eighths or more above the exact multiplier, below which its
\* divider leaves the VCO's window: f + 1 of the other pair is closer.
LEMMA FarAbove ==
  ASSUME NEW I \in Nat \ {0}, NEW t \in Nat \ {0}, NEW w \in Nat \ {0}, NEW v \in Nat \ {0},
         NEW m \in Nat, NEW f \in Nat, NEW g \in Nat,
         I * g <= t * v, t * w < I * (f + 1), f + 2 <= m, f + 1 <= g
  PROVE  (I * (g + 1)) \div v <= (I * m) \div w
<1>1. w <= v
  <2>1. I * (f + 1) <= I * g /\ I * g \in Nat
    BY Times
  <2>2. t * w <= t * v /\ t * w \in Nat /\ t * v \in Nat
    BY <2>1
  <2> QED
    BY <2>2, Cancel
\* I g w <= t v w < I (f + 1) v <= I (m - 1) v
<1>2. g * w <= (m - 1) * v
  <2>1. w * (I * g) <= w * (t * v) /\ w * (I * g) \in Nat /\ w * (t * v) \in Nat
    BY Times
  <2>2. v * (t * w) <= v * (I * (f + 1)) /\ v * (t * w) \in Nat /\ v * (I * (f + 1)) \in Nat
    BY Times
  <2>3. m - 1 \in Nat /\ I * (f + 1) <= I * (m - 1) /\ I * (m - 1) \in Nat
    BY Times
  <2>4. v * (I * (f + 1)) <= v * (I * (m - 1))
    BY <2>3, Times
  <2>5. w * (I * g) = I * (g * w) /\ g * w \in Nat
    OBVIOUS
  <2>6. v * (I * (m - 1)) = I * ((m - 1) * v) /\ (m - 1) * v \in Nat
    BY <2>3
  <2>7. w * (t * v) = v * (t * w)
    OBVIOUS
  <2>8. I * (g * w) <= I * ((m - 1) * v)
    BY <2>1, <2>2, <2>4, <2>5, <2>6, <2>7
  <2> QED
    BY <2>5, <2>6, <2>8, Cancel
<1>3. (g + 1) * w = g * w + w /\ (m - 1) * v = m * v - v /\ g * w \in Nat /\ m * v \in Nat
  OBVIOUS
<1>4. (g + 1) * w <= m * v /\ (g + 1) * w \in Nat
  BY <1>1, <1>2, <1>3
<1>5. I * ((g + 1) * w) <= I * (m * v)
  BY <1>3, <1>4, Times
<1>6. (I * (g + 1)) * w = I * ((g + 1) * w) /\ (I * m) * v = I * (m * v)
  OBVIOUS
<1>7. I * (g + 1) \in Nat /\ I * m \in Nat
  OBVIOUS
<1> QED
  BY <1>5, <1>6, <1>7, QuotientCross, Zenon

\* A setting an eighth or more below the exact multiplier.  Of f and f + 1 of
\* the other pair, f is closer when it is the one nearer to the target.
LEMMA FarBelowFloor ==
  ASSUME NEW I \in Nat \ {0}, NEW t \in Nat \ {0}, NEW w \in Nat \ {0}, NEW v \in Nat \ {0},
         NEW m \in Nat, NEW g \in Nat,
         I * (m + 1) <= t * w, 2 * (t * v) <= I * (2 * g + 1), m <= 2 * g
  PROVE  (I * m) \div w <= (I * g) \div v
<1> DEFINE T == 2 * t
<1>0. T \in Nat \ {0} /\ m * v \in Nat /\ g * w \in Nat
  OBVIOUS
<1>1. m * (2 * (t * v)) <= m * (I * (2 * g + 1)) /\ m * (2 * (t * v)) = T * (m * v)
  <2>1. 2 * (t * v) \in Nat /\ I * (2 * g + 1) \in Nat
    OBVIOUS
  <2> QED
    BY <2>1, Times
<1>2. (2 * g) * (I * (m + 1)) <= (2 * g) * (t * w) /\ (2 * g) * (t * w) = T * (g * w)
  <2>1. I * (m + 1) \in Nat /\ t * w \in Nat /\ 2 * g \in Nat
    OBVIOUS
  <2>2. (2 * g) * (I * (m + 1)) <= (2 * g) * (t * w)
    BY <2>1, Times
  <2> QED
    BY <2>2
<1>3. m * (I * (2 * g + 1)) <= (2 * g) * (I * (m + 1))
  <2>1. m * (2 * g + 1) <= (2 * g) * (m + 1) /\ m * (2 * g + 1) \in Nat /\ (2 * g) * (m + 1) \in Nat
    <3>1. m * (2 * g + 1) = 2 * (m * g) + m /\ (2 * g) * (m + 1) = 2 * (m * g) + 2 * g /\ m * g \in Nat
      OBVIOUS
    <3> QED
      BY <3>1
  <2>2. I * (m * (2 * g + 1)) <= I * ((2 * g) * (m + 1))
    BY <2>1, Times
  <2>3. m * (I * (2 * g + 1)) = I * (m * (2 * g + 1))
    OBVIOUS
  <2>4. (2 * g) * (I * (m + 1)) = I * ((2 * g) * (m + 1))
    OBVIOUS
  <2> QED
    BY <2>2, <2>3, <2>4
<1>4. /\ m * (I * (2 * g + 1)) \in Nat /\ (2 * g) * (I * (m + 1)) \in Nat
      /\ T * (m * v) \in Nat /\ T * (g * w) \in Nat
  BY <1>0
<1> HIDE DEF T
<1>5. T * (m * v) <= T * (g * w)
  BY <1>1, <1>2, <1>3, <1>4
<1>6. m * v <= g * w
  BY <1>0, <1>5, Cancel
<1>7. I * (m * v) <= I * (g * w)
  BY <1>0, <1>6, Times
<1>8. (I * m) * v = I * (m * v) /\ (I * g) * w = I * (g * w) /\ I * m \in Nat /\ I * g \in Nat
  OBVIOUS
<1> QED
  BY <1>7, <1>8, QuotientCross, Zenon

\* Otherwise f + 1 is closer, from the other side.
LEMMA FarBelowCeil ==
  ASSUME NEW I \in Nat \ {0}, NEW t \in Nat \ {0}, NEW w \in Nat \ {0}, NEW v \in Nat \ {0},
         NEW m \in Nat, NEW g \in Nat,
         I * (m + 1) <= t * w, I * (2 * g + 1) < 2 * (t * v), m <= 2 * g
  PROVE  (I * (g + 1)) \div v - t <= t - (I * m) \div w
<1> DEFINE a == (I * (g + 1)) \div v
           b == (I * m) \div w
<1>1. a \in Nat /\ v * a <= I * (g + 1) /\ v * a \in Nat /\ I * (g + 1) \in Nat
  BY Quotient
<1>2. b \in Nat /\ w * b <= I * m /\ w * b \in Nat /\ I * m \in Nat
  BY Quotient
<1> HIDE DEF a, b
<1>3. (2 * g + 1) * (a - t) <= t
  <2>1. (2 * g + 1) * (v * a) <= (2 * g + 1) * (I * (g + 1))
    BY <1>1, Times
  <2>2. (g + 1) * (I * (2 * g + 1)) <= (g + 1) * (2 * (t * v))
    <3>1. I * (2 * g + 1) \in Nat /\ 2 * (t * v) \in Nat
      OBVIOUS
    <3> QED
      BY <3>1, Times
  <2>3. (2 * g + 1) * (I * (g + 1)) = (g + 1) * (I * (2 * g + 1))
    OBVIOUS
  <2>4. (2 * g + 1) * (v * a) = v * ((2 * g + 1) * a)
    BY <1>1
  <2>5. (g + 1) * (2 * (t * v)) = v * ((2 * g + 1) * t + t)
    OBVIOUS
  <2>6. (2 * g + 1) * a \in Int /\ (2 * g + 1) * t + t \in Int
    BY <1>1
  <2>7. v * ((2 * g + 1) * a) <= v * ((2 * g + 1) * t + t)
    BY <2>1, <2>2, <2>3, <2>4, <2>5, <2>6
  <2>8. (2 * g + 1) * a <= (2 * g + 1) * t + t
    BY <2>6, <2>7, Cancel
  <2> QED
    BY <1>1, <2>8
<1>4. t <= (m + 1) * (t - b) /\ t - b \in Int
  <2>1. (m + 1) * (w * b) <= (m + 1) * (I * m)
    BY <1>2, Times
  <2>2. m * (I * (m + 1)) <= m * (t * w)
    <3>1. I * (m + 1) \in Nat /\ t * w \in Nat
      OBVIOUS
    <3> QED
      BY <3>1, Times
  <2>3. (m + 1) * (I * m) = m * (I * (m + 1))
    OBVIOUS
  <2>4. (m + 1) * (w * b) = w * ((m + 1) * b)
    BY <1>2
  <2>5. m * (t * w) = w * (m * t)
    OBVIOUS
  <2>6. (m + 1) * b \in Int /\ m * t \in Int
    BY <1>2
  <2>7. w * ((m + 1) * b) <= w * (m * t)
    BY <2>1, <2>2, <2>3, <2>4, <2>5, <2>6
  <2>8. (m + 1) * b <= m * t
    BY <2>6, <2>7, Cancel
  <2>9. (m + 1) * (t - b) = m * t + t - (m + 1) * b
    BY <1>2
  <2> QED
    BY <1>2, <2>6, <2>8, <2>9
<1>5. t - b \in Nat
  <2>1. (m + 1) * 0 < (m + 1) * (t - b) /\ m + 1 \in Nat \ {0}
    BY <1>4
  <2>2. 0 < t - b
    BY <1>4, <2>1, Cancel
  <2> QED
    BY <1>4, <2>2
<1>6. (m + 1) * (t - b) <= (2 * g + 1) * (t - b)
  <2>1. (t - b) * (m + 1) <= (t - b) * (2 * g + 1)
    BY <1>5, Times
  <2> QED
    BY <1>5, <2>1
<1>7. (2 * g + 1) * (a - t) <= (2 * g + 1) * (t - b)
  <2>1. /\ (2 * g + 1) * (a - t) \in Int /\ (2 * g + 1) * (t - b) \in Int
        /\ (m + 1) * (t - b) \in Int
    BY <1>1, <1>5
  <2> QED
    BY <1>3, <1>4, <1>6, <2>1
<1>8. 2 * g + 1 \in Nat \ {0} /\ a - t \in Int
  BY <1>1
<1>9. a - t <= t - b
  BY <1>4, <1>7, <1>8, Cancel
<1> QED
  BY <1>9 DEF a, b

\* A multiplier next to the exact one that the device allows is looked at.
LEMMA TriedAt ==
  ASSUME NEW lim \in Limits, NEW t \in Nat, NEW d \in 1 .. lim.div, PfdOk(lim, d),
         NEW o \in 8 .. lim.o8, OdivOk(o), NEW m \in 16 .. lim.m8, VcoOk(lim, d, m),
         m \in {(t * d * o) \div lim.input, (t * d * o) \div lim.input + 1}
  PROVE  LET c == [div |-> d, m8 |-> m, o8 |-> o]
         IN  /\ c \in Tried(lim, t, d) /\ c \in Setting(lim) /\ Legal(lim, c)
             /\ Achieved(lim, c) = (lim.input * m) \div (d * o)
<1> DEFINE c == [div |-> d, m8 |-> m, o8 |-> o]
           q == (t * d * o) \div lim.input
<1>1. Legal(lim, c) /\ c.m8 \in 16 .. lim.m8
  BY DEF Legal
<1>2. q \in Nat
  <2>1. t * d * o \in Nat /\ lim.input \in Nat \ {0}
    BY DEF Limits
  <2> QED
    BY <2>1, Quotient
<1>3. PICK i \in {0, 1} : m = q + i
  BY <1>2
<1>4. c \in {[div |-> d, m8 |-> (t * d * p) \div lim.input + j, o8 |-> p] :
                p \in {k \in 8 .. lim.o8 : OdivOk(k)}, j \in {0, 1}}
  BY <1>3
<1>5. c \in Tried(lim, t, d)
  BY <1>1, <1>4 DEF Tried
<1> QED
  BY <1>1, <1>5 DEF Setting, Achieved

\* So something that is looked at is as close as any legal setting.
LEMMA ReachableClosest ==
  ASSUME NEW lim \in Limits, NEW t \in Nat \ {0}, Reachable(lim, t),
         NEW s \in Setting(lim), Legal(lim, s)
  PROVE  \E d \in 1 .. lim.div : \E c \in Tried(lim, t, d) : Err(lim, t, c) <= Err(lim, t, s)
<1> DEFINE I == lim.input
           w == s.div * s.o8
           f == (t * s.div * s.o8) \div I
<1>0. /\ s.div \in 1 .. lim.div /\ s.o8 \in 8 .. lim.o8 /\ s.m8 \in 16 .. lim.m8
      /\ s.div \in Nat \ {0} /\ s.o8 \in Nat \ {0} /\ s.m8 \in Nat /\ lim.m8 \in Nat
      /\ I \in Nat \ {0} /\ w \in Nat \ {0} /\ Achieved(lim, s) \in Nat
      /\ lim.vco_min * 8 * s.div \in Nat /\ lim.vco_max * 8 * s.div \in Nat
  BY AchievedType DEF Setting, Limits
<1>1. PfdOk(lim, s.div) /\ OdivOk(s.o8) /\ VcoOk(lim, s.div, s.m8)
  BY DEF Legal
<1>2. PICK d \in {e \in 1 .. lim.div : PfdOk(lim, e)}, o \in {p \in 8 .. lim.o8 : OdivOk(p)} :
        LET g == (t * d * o) \div I
        IN  /\ {g, g + 1} \subseteq {k \in 16 .. lim.m8 : VcoOk(lim, d, k)}
            /\ lim.m8 <= 2 * g
            /\ \A e \in 1 .. lim.div : PfdOk(lim, e) => lim.vco_min * 8 * e <= I * (g + 1)
  BY DEF Reachable
<1> DEFINE v == d * o
           g == (t * d * o) \div I
           c0 == [div |-> d, m8 |-> g, o8 |-> o]
           c1 == [div |-> d, m8 |-> g + 1, o8 |-> o]
<1>3. /\ g \in 16 .. lim.m8 /\ g + 1 \in 16 .. lim.m8 /\ VcoOk(lim, d, g) /\ VcoOk(lim, d, g + 1)
      /\ lim.m8 <= 2 * g /\ lim.vco_min * 8 * s.div <= I * (g + 1)
  BY <1>0, <1>1, <1>2
<1>4. d \in Nat \ {0} /\ o \in Nat \ {0} /\ v \in Nat \ {0} /\ g \in Nat
  BY <1>3
<1>5. t * d * o = t * v /\ t * v \in Nat /\ t * s.div * s.o8 = t * w /\ t * w \in Nat
  BY <1>0, <1>4
<1>6. I * g <= t * v /\ t * v < I * g + I
  BY <1>0, <1>5, Quotient, Zenon
<1>7. f \in Nat /\ I * f <= t * w /\ t * w < I * f + I
  BY <1>0, <1>5, Quotient, Zenon
<1>8. /\ c0 \in Tried(lim, t, d) /\ c0 \in Setting(lim) /\ Achieved(lim, c0) = (I * g) \div v
      /\ c1 \in Tried(lim, t, d) /\ c1 \in Setting(lim) /\ Achieved(lim, c1) = (I * (g + 1)) \div v
  BY <1>2, <1>3, TriedAt
<1>9. Achieved(lim, c0) <= t /\ Achieved(lim, c0) \in Nat
  BY <1>4, <1>8, Brackets, AchievedType
<1>10. Achieved(lim, c1) >= t /\ Achieved(lim, c1) \in Nat
  BY <1>4, <1>8, Brackets, AchievedType
<1>11. Achieved(lim, s) = (I * s.m8) \div w
  BY DEF Achieved
<1>12. s.m8 <= f => Achieved(lim, s) <= t
  BY Brackets
<1>13. s.m8 >= f + 1 => Achieved(lim, s) >= t
  BY Brackets
<1>t. (f \in 16 .. lim.m8 /\ VcoOk(lim, s.div, f)) \/ (f + 1 \in 16 .. lim.m8 /\ VcoOk(lim, s.div, f + 1))
        => \E c \in Tried(lim, t, s.div) : Err(lim, t, c) <= Err(lim, t, s)
  <2>1. ASSUME NEW k \in 16 .. lim.m8, VcoOk(lim, s.div, k), k \in {f, f + 1}
        PROVE  \E c \in Tried(lim, t, s.div) : Err(lim, t, c) <= Err(lim, t, s)
    <3>1. [div |-> s.div, m8 |-> k, o8 |-> s.o8] \in Tried(lim, t, s.div)
      BY <1>0, <1>1, <2>1, TriedAt
    <3> QED
      BY <3>1, TriedClosest
  <2> QED
    BY <2>1
<1> HIDE DEF I, w, f, v, g, c0, c1
<1>14. CASE s.m8 \in {f, f + 1}
  BY <1>0, <1>1, <1>14, <1>t
<1>15. CASE s.m8 + 1 <= f
  <2>1. I * (s.m8 + 1) <= t * w
    <3>1. I * (s.m8 + 1) <= I * f /\ I * (s.m8 + 1) \in Nat /\ I * f \in Nat
      BY <1>0, <1>7, <1>15, Times
    <3> QED
      BY <1>5, <1>7, <3>1
  <2>2. s.m8 <= 2 * g
    BY <1>0, <1>3, <1>4
  <2>3. CASE 2 * (t * v) <= I * (2 * g + 1)
    <3>1. Achieved(lim, s) <= Achieved(lim, c0)
      BY <1>0, <1>4, <1>8, <1>11, <2>1, <2>2, <2>3, FarBelowFloor
    <3>2. Err(lim, t, c0) <= Err(lim, t, s)
      BY <1>0, <1>9, <3>1 DEF Err, Gap
    <3> QED
      BY <1>2, <1>8, <3>2
  <2>4. CASE I * (2 * g + 1) < 2 * (t * v)
    <3>1. Achieved(lim, c1) - t <= t - Achieved(lim, s)
      BY <1>0, <1>4, <1>8, <1>11, <2>1, <2>2, <2>4, FarBelowCeil
    <3>2. Achieved(lim, s) <= t
      BY <1>0, <1>7, <1>12, <1>15
    <3>3. Err(lim, t, c1) <= Err(lim, t, s)
      BY <1>0, <1>10, <3>1, <3>2 DEF Err, Gap
    <3> QED
      BY <1>2, <1>8, <3>3
  <2>5. 2 * (t * v) \in Int /\ I * (2 * g + 1) \in Int
    BY <1>0, <1>4
  <2> QED
    BY <2>3, <2>4, <2>5
<1>16. CASE f + 2 <= s.m8
  <2>1. CASE f + 1 \in 16 .. lim.m8 /\ VcoOk(lim, s.div, f + 1)
    BY <1>0, <2>1, <1>t
  <2>2. CASE ~ (f + 1 \in 16 .. lim.m8 /\ VcoOk(lim, s.div, f + 1))
    <3>1. f + 1 <= g
      <4>1. CASE f + 1 < 16
        BY <1>3, <1>7, <4>1
      <4>2. CASE f + 1 >= 16
        <5>1. f + 1 \in 16 .. lim.m8 /\ ~ VcoOk(lim, s.div, f + 1)
          BY <1>0, <1>7, <1>16, <2>2, <4>2
        <5>2. I * (f + 1) <= I * s.m8 /\ I * (f + 1) \in Nat /\ I * s.m8 \in Nat
          BY <1>0, <1>7, <1>16, Times
        <5>3. I * s.m8 <= lim.vco_max * 8 * s.div
          BY <1>1 DEF VcoOk, I
        <5>4. I * (f + 1) < lim.vco_min * 8 * s.div
          <6>1. ~ (lim.vco_min * 8 * s.div <= I * (f + 1) /\ I * (f + 1) <= lim.vco_max * 8 * s.div)
            BY <5>1 DEF VcoOk, I
          <6> QED
            BY <1>0, <5>2, <5>3, <6>1
        <5>5. I * (f + 1) < I * (g + 1)
          BY <1>0, <1>3, <1>4, <5>2, <5>4
        <5>6. f + 1 < g + 1
          BY <1>0, <1>4, <1>7, <5>5, Cancel
        <5> QED
          BY <1>4, <1>7, <5>6
      <4> QED
        BY <1>7, <4>1, <4>2
    <3>2. t * w < I * (f + 1)
      BY <1>0, <1>7, TimesNext
    <3>3. Achieved(lim, c1) <= Achieved(lim, s)
      BY <1>0, <1>4, <1>6, <1>7, <1>8, <1>11, <1>16, <3>1, <3>2, FarAbove
    <3>4. Err(lim, t, c1) <= Err(lim, t, s)
      BY <1>0, <1>10, <3>3 DEF Err, Gap
    <3> QED
      BY <1>2, <1>8, <3>4
  <2> QED
    BY <2>1, <2>2
<1> QED
  BY <1>0, <1>7, <1>14, <1>15, <1>16

\* The search is exhaustive, as clk-wzrd.h says: of a reachable target, no
\* setting of the device is closer than the one returned, and -EDOM means that
\* none is within 0.5 %, whatever pairs of dividers the loops skipped.
THEOREM SolverExhaustive ==
  ASSUME NEW lim \in Limits, NEW t \in Nat \ {0}, Reachable(lim, t)
  PROVE  NoneCloser(lim, t)
<1> SUFFICES ASSUME NEW d \in {e \in 1 .. lim.div : PfdOk(lim, e)},
                    NEW m \in {k \in 16 .. lim.m8 : VcoOk(lim, d, k)},
                    NEW o \in {p \in 8 .. lim.o8 : OdivOk(p)}
             PROVE  LET gap == Gap(Achieved(lim, [div |-> d, m8 |-> m, o8 |-> o]), t)
                    IN  IF Solve(lim, t) = {} THEN ~ Near(gap, t)
                        ELSE \A b \in Solve(lim, t) : Gap(Achieved(lim, b), t) <= gap
  BY Zenon DEF NoneCloser
<1> DEFINE s == [div |-> d, m8 |-> m, o8 |-> o]
           b == Closest(lim, t, BestOf(lim, t))
<1>1. s \in Setting(lim) /\ Legal(lim, s)
  BY DEF Setting, Legal
<1> HIDE DEF s
<1>2. PICK e \in 1 .. lim.div : \E c \in Tried(lim, t, e) : Err(lim, t, c) <= Err(lim, t, s)
  BY <1>1, ReachableClosest
<1>3. PICK c \in Tried(lim, t, e) : Err(lim, t, c) <= Err(lim, t, s)
  BY <1>2
<1>4. /\ BestOf(lim, t) # {} /\ b \in Setting(lim) /\ c \in Setting(lim)
      /\ Err(lim, t, b) <= Err(lim, t, c)
  BY BestLeast, TriedLegal
<1>5. Err(lim, t, b) \in Nat /\ Err(lim, t, c) \in Nat /\ Err(lim, t, s) \in Nat
  BY <1>1, <1>4, AchievedType
<1>6. Err(lim, t, b) <= Err(lim, t, s)
  BY <1>3, <1>4, <1>5
<1>7. ASSUME Solve(lim, t) = {} PROVE ~ Near(Err(lim, t, s), t)
  <2>1. ~ Near(Err(lim, t, b), t)
    BY <1>4, <1>7 DEF Solve, Err
  <2> HIDE DEF b
  <2> QED
    BY <1>5, <1>6, <2>1 DEF Near
<1>8. ASSUME NEW x \in Solve(lim, t) PROVE Err(lim, t, x) <= Err(lim, t, s)
  BY <1>6, <1>8, SolveSound
<1> QED
  BY <1>7, <1>8 DEF Err, s

\* The MMCM of the boards (MmcmSolver.scala) behind the 125 MHz periphery clock,
\* in Hz.
Board == [input |-> 125000000, pfd_min |-> 10000000, pfd_max |-> 500000000,
          vco_min |-> 800000000, vco_max |-> 1600000000, div |-> 106, m8 |-> 1024, o8 |-> 1024]

\* On it every pixel clock from 7.5 to 799 MHz is reachable: with a divider of
\* 10, some output divider puts the multiplier between 614 and 1022 eighths.
THEOREM BoardReaches ==
  ASSUME NEW t \in Nat, 7500000 <= t, t <= 799000000
  PROVE  Board \in Limits /\ Reachable(Board, t)
<1>0. Board \in Limits
  BY DEF Board, Limits
<1>b. /\ Board.input = 125000000 /\ Board.div = 106 /\ Board.o8 = 1024 /\ Board.m8 = 1024
      /\ Board.pfd_min = 10000000 /\ Board.pfd_max = 500000000
      /\ Board.vco_min = 800000000 /\ Board.vco_max = 1600000000
  BY DEF Board
<1> DEFINE q == 7675000000 \div t
           o == IF t >= 479687500 THEN 16 ELSE q + 1
           n == t * 10 * o
           f == n \div 125000000
<1>1. q \in Nat /\ t * q <= 7675000000 /\ 7675000000 < t * q + t
  BY Quotient
<1> HIDE DEF q
<1>2. t < 479687500 => 16 <= q /\ q <= 1023
  <2>1. ASSUME q <= 15, t < 479687500 PROVE FALSE
    <3>1. t * q <= t * 15 /\ t * q \in Nat
      BY <1>1, <2>1, Times
    <3> QED
      BY <1>1, <2>1, <3>1
  <2>2. ASSUME q >= 1024 PROVE FALSE
    <3>1. t * 1024 <= t * q /\ t * q \in Nat
      BY <1>1, <2>2, Times
    <3> QED
      BY <1>1, <3>1
  <2> QED
    BY <1>1, <2>1, <2>2
<1>3. o \in Nat /\ 16 <= o /\ o <= 1024 /\ OdivOk(o)
  BY <1>1, <1>2 DEF OdivOk
<1>4. n \in Nat /\ 614 * 125000000 <= n /\ n < 1023 * 125000000
  <2>1. CASE t >= 479687500
    BY <2>1
  <2>2. CASE t < 479687500
    <3>1. o = q + 1 /\ t * (q + 1) = t * q + t /\ t * q \in Nat
      BY <1>1, <2>2, TimesNext
    <3>2. n = 10 * (t * (q + 1))
      BY <1>1, <3>1
    <3> HIDE DEF n
    <3> QED
      BY <1>1, <2>2, <3>1, <3>2
  <2> QED
    BY <2>1, <2>2
<1> HIDE DEF n
<1>5. f \in Nat /\ 125000000 * f <= n /\ n < 125000000 * f + 125000000
  BY <1>4, Quotient
<1>6. f = (t * 10 * o) \div Board.input
  BY <1>b DEF n
<1> HIDE DEF f, o
<1>7. 614 <= f /\ f <= 1022
  BY <1>4, <1>5
<1>8. 10 \in {e \in 1 .. Board.div : PfdOk(Board, e)}
  BY <1>b DEF PfdOk
<1>9. o \in {p \in 8 .. Board.o8 : OdivOk(p)}
  BY <1>3, <1>b
<1>10. {f, f + 1} \subseteq {k \in 16 .. Board.m8 : VcoOk(Board, 10, k)}
  BY <1>5, <1>7, <1>b DEF VcoOk
<1>11. Board.m8 <= 2 * f
  BY <1>5, <1>7, <1>b
<1>12. ASSUME NEW e \in 1 .. Board.div, PfdOk(Board, e)
       PROVE  Board.vco_min * 8 * e <= Board.input * (f + 1)
  <2>1. e \in Nat /\ e <= 12
    BY <1>12, <1>b DEF PfdOk
  <2> QED
    BY <1>5, <1>7, <1>b, <2>1
<1>13. Reachable(Board, t)
  BY <1>6, <1>8, <1>9, <1>10, <1>11, <1>12 DEF Reachable
<1> QED
  BY <1>0, <1>13
-----------------------------------------------------------------------------
(* The solver in Dp.                                                        *)

\* A clock the solver answered with is answered by itself: SettlesAssumption
\* follows from LimAssumption (soct_dp_validate_mode normalises a mode twice).
THEOREM SettlesTheorem == \A c \in Clock : Ach[c] # 0 => Ach[Ach[c]] = Ach[c]
<1> SUFFICES ASSUME NEW c \in Clock, Ach[c] # 0 PROVE Ach[Ach[c]] = Ach[c]
  OBVIOUS
<1>1. Ach[c] \in Clock /\ Ach[c] = SolveHz(Lim, c) /\ c \in Nat
  BY ClockAssumption DEF Ach
<1>2. Ach[Ach[c]] = SolveHz(Lim, SolveHz(Lim, c))
  BY <1>1 DEF Ach
<1>3. SolveHz(Lim, SolveHz(Lim, c)) = SolveHz(Lim, c)
  BY <1>1, LimAssumption, SolverSettles
<1> QED
  BY <1>1, <1>2, <1>3

\* The clock that set_par solves for is one the user asked fbmode for, through
\* the dot period and the ceiling, so the solver's answer is the closest clock
\* the MMCM has and its refusal means there is none (soct_clk_wzrd_solve).
THEOREM FindsClosestTheorem == Safety => []FindsClosest
<1> DEFINE WantInv == want \in Asked \union {Zero}
<1>1. Init => WantInv
  BY DEF Init
<1>2. WantInv /\ [Next]_vars => WantInv'
  <2> SUFFICES ASSUME WantInv, [Next]_vars PROVE WantInv'
    OBVIOUS
  <2>1. CASE UNCHANGED want
    BY <2>1
  <2>2. CASE \E m \in Asked : ToolStart(m)
    BY <2>2 DEF ToolStart
  <2>3. CASE Tool \/ Reactivate \/ LateLock
    BY <2>1, <2>3, Zenon DEF Tool, ToolPut, ToolRevert, ToolCheck, ToolAnswer, PutVar, SetPar,
                      Reactivate, LateLock, user
  <2>4. CASE BringUp \/ Exit \/ Switch
    BY <2>1, <2>4, Zenon DEF BringUp, Load, BootRetune, Prepare, BootStart, LinkUp, Register, Exit,
                      Switch, Halt, Retune, Start, Fail, user
  <2> QED
    BY <2>1, <2>2, <2>3, <2>4 DEF Next, vars, user
<1>3. WantInv => FindsClosest
  <2> SUFFICES ASSUME want \in Asked PROVE Exhaustive[Capped(ClockOf(Period(want.clk)))]
    BY DEF FindsClosest, VarToMode, ModeToVar
  <2> DEFINE c == Capped(ClockOf(Period(want.clk)))
  <2>1. want.clk \in Clock /\ Boot.clk \in Clock
    BY GeoAssumption DEF Mode
  <2>2. c \in Nat \ {0}
    BY <2>1, ClockAssumption, Zenon DEF Capped, MaxHz
  <2>3. NoneCloser(Lim, c)
    BY <2>2, LimAssumption, ReachAssumption, SolverExhaustive
  <2> QED
    BY <2>3 DEF Exhaustive
<1> QED
  BY <1>1, <1>2, <1>3, PTL DEF Safety
-----------------------------------------------------------------------------
(* The widths of the SD controller.                                         *)

\* The FIFO and the page are powers of two, the FIFO not the larger one.
Divides(k, page) == \E n \in Nat \ {0} : page = k * n

\* The remainder is what is left above the multiple.
LEMMA Remainder ==
  ASSUME NEW a \in Int, NEW k \in Nat \ {0}, NEW q \in Int, NEW r \in 0 .. k - 1, a = q * k + r
  PROVE  a % k = r
<1> DEFINE p == a \div k
           s == a % k
<1>2. p \in Int /\ s \in 0 .. k - 1 /\ k * p + s = q * k + r
  OBVIOUS
<1> HIDE DEF p, s
<1>3. p = q
  <2>1. ASSUME p < q PROVE FALSE
    <3>1. k * (q - p) >= k
      BY <1>2, <2>1
    <3> QED
      BY <1>2, <3>1
  <2>2. ASSUME p > q PROVE FALSE
    <3>1. k * (p - q) >= k
      BY <1>2, <2>2
    <3> QED
      BY <1>2, <3>1
  <2> QED
    BY <1>2, <2>1, <2>2
<1> QED
  BY <1>2, <1>3 DEF s

\* A timeout is programmed as it is or as the longest one the register can
\* hold, and never as zero, which would disable the watchdog (sdc_send_cmd and
\* sdc_setup_data_xfer; "clamp, never disable").
THEOREM TimeoutTheorem ==
  ASSUME NEW size \in Nat \ {0, 1}, NEW n \in Nat \ {0}, NEW t \in Nat \ {0}
  PROVE  /\ SetTimeout(size * n, size, t) = Lower(t, size - 1)
         /\ SetTimeout(size * n, size, t) > 0
<1> DEFINE word == size * n
           kept == (t % word) % size
<1>1. word \in Nat /\ word >= size
  OBVIOUS
<1>2. kept \in 0 .. size - 1
  BY <1>1
<1>3. (word - 1) % size = size - 1
  <2>1. PICK m \in Int : m = n - 1
    OBVIOUS
  <2>2. word - 1 \in Int /\ size - 1 \in 0 .. size - 1 /\ word - 1 = m * size + (size - 1)
    BY <1>1, <2>1
  <2> HIDE DEF word
  <2> QED
    BY <2>2, Remainder, Zenon
<1>4. CASE t < size
  <2>1. t % word = t
    BY <1>1, <1>4, Remainder, t = 0 * word + t
  <2>2. t % size = t
    BY <1>4, Remainder, t = 0 * size + t
  <2>3. kept = t
    BY <2>1, <2>2
  <2> HIDE DEF kept
  <2>4. SetTimeout(word, size, t) = t
    BY <2>3 DEF SetTimeout, kept
  <2> QED
    BY <1>4, <2>4 DEF Lower
<1>5. CASE t >= size
  <2>1. kept # t
    BY <1>2, <1>5
  <2>2. SetTimeout(word, size, t) = size - 1
    BY <1>3, <2>1 DEF SetTimeout
  <2> QED
    BY <1>5, <2>2 DEF Lower
<1> QED
  BY <1>4, <1>5

\* A burst is as long as the words, the 256 beats of AXI and the end of the
\* 4 KB page allow, and no longer (tx_burst_len, rx_burst_len; "AXI burst cannot
\* cross a 4KB boundary").
THEOREM BurstTheorem ==
  ASSUME NEW slots \in Nat \ {0}, NEW page \in Nat, Divides(slots, page),
         NEW adr \in Nat, NEW len \in 1 .. slots - 1
  PROVE  Beats(page, slots, adr, len) = Longest(page, adr, len)
<1> DEFINE a == adr % page
           q == adr \div page
<1>0. PICK n \in Nat \ {0} : page = slots * n
  BY DEF Divides
<1>1. page >= slots /\ page \in Nat \ {0} /\ page = slots * n
  BY <1>0
<1>2. a \in 0 .. page - 1 /\ q \in Int /\ adr = page * q + a
  <2>1. page \in Nat \ {0}
    BY <1>1
  <2> QED
    BY <2>1
<1>3. Beats(page, slots, adr, len) =
        Lower(IF (a + len) % page >= a THEN (len - 1) % slots ELSE slots - 1 - (adr % slots),
              255) + 1
  BY DEF Beats, burst_len
<1> HIDE DEF a, q
<1>4. CASE a + len < page
  <2>1. (a + len) % page = a + len
    BY <1>1, <1>2, <1>4, Remainder, a + len = 0 * page + (a + len)
  <2>2. (len - 1) % slots = len - 1
    BY Remainder, len - 1 = 0 * slots + (len - 1)
  <2> QED
    BY <1>2, <1>3, <1>4, <2>1, <2>2 DEF Longest, Lower, a
<1>5. CASE a + len >= page
  <2> DEFINE d == page - a
  <2>1. (a + len) % page = len - d
    BY <1>1, <1>2, <1>5, Remainder, a + len = 1 * page + (len - d)
  <2>2. adr % slots = slots - d
    <3>1. PICK m \in Int : m = n * q + (n - 1)
      BY <1>2
    <3>2. PICK r \in Int : r = slots - d
      BY <1>1, <1>2
    <3>3. adr = m * slots + r /\ r \in 0 .. slots - 1
      BY <1>1, <1>2, <1>5, <3>1, <3>2
    <3> HIDE DEF d
    <3>4. adr % slots = r
      BY <3>3, Remainder
    <3> QED
      BY <3>2, <3>4
  <2>3. d \in 1 .. len /\ len - d < a
    BY <1>1, <1>2, <1>5
  <2> QED
    BY <1>2, <1>3, <2>1, <2>2, <2>3 DEF Longest, Lower, a
<1> QED
  BY <1>1, <1>2, <1>4, <1>5

\* No multiple of k lies strictly between 0 and k.
LEMMA NoMultiple ==
  ASSUME NEW k \in Nat \ {0}, NEW m \in Int, 0 < m * k, m * k < k
  PROVE  FALSE
<1>1. CASE m <= 0
  BY <1>1
<1>2. CASE m >= 1
  BY <1>2
<1> QED
  BY <1>1, <1>2

\* A remainder differs from its number by a multiple.
LEMMA Around ==
  ASSUME NEW a \in Int, NEW k \in Nat \ {0}
  PROVE  a % k \in Int /\ a \div k \in Int /\ a % k = a - (a \div k) * k
OBVIOUS

LEMMA MovedAround ==
  ASSUME NEW k \in Nat \ {0}, NEW a \in Int, NEW b \in Int
  PROVE  /\ Moved(k, a, b) \in Int /\ (a + b) \div k \in Int
         /\ Moved(k, a, b) = a + b - ((a + b) \div k) * k
<1> DEFINE c == a + b
<1>1. c \in Int
  OBVIOUS
<1>2. Moved(k, a, b) = c % k
  BY DEF Moved
<1> HIDE DEF c
<1>3. Moved(k, a, b) \in Int /\ c \div k \in Int /\ Moved(k, a, b) = c - (c \div k) * k
  BY <1>1, <1>2, Around, Zenon
<1> QED
  BY <1>3 DEF c

\* Words and room of the FIFO, around the end of its memory.
LEMMA FifoLens ==
  ASSUME NEW slots \in Nat \ {0}, NEW inp \in 0 .. slots - 1, NEW out \in 0 .. slots - 1
  PROVE  LET len == fifo_data_len(slots, inp, out)
         IN  /\ len \in 0 .. slots - 1
             /\ fifo_free_len(slots, inp, out) = slots - 1 - len
<1>1. CASE inp >= out
  <2>1. fifo_data_len(slots, inp, out) = inp - out
    BY <1>1, Remainder, inp - out = 0 * slots + (inp - out) DEF fifo_data_len
  <2>2. CASE inp + 1 < slots
    <3>1. Moved(slots, inp, 1) = inp + 1
      BY <2>2, Remainder, inp + 1 = 0 * slots + (inp + 1) DEF Moved
    <3>2. fifo_free_len(slots, inp, out) = out - (inp + 1) + slots
      BY <1>1, <2>2, <3>1, Remainder,
         out - (inp + 1) = (-1) * slots + (out - (inp + 1) + slots) DEF fifo_free_len
    <3> QED
      BY <1>1, <2>1, <3>2
  <2>3. CASE inp + 1 = slots
    <3>1. Moved(slots, inp, 1) = 0
      BY <2>3, Remainder, inp + 1 = 1 * slots + 0 DEF Moved
    <3>2. fifo_free_len(slots, inp, out) = out
      BY <3>1, Remainder, out - 0 = 0 * slots + out DEF fifo_free_len
    <3> QED
      BY <1>1, <2>1, <2>3, <3>2
  <2> QED
    BY <2>2, <2>3
<1>2. CASE inp < out
  <2>1. fifo_data_len(slots, inp, out) = inp - out + slots
    BY <1>2, Remainder, inp - out = (-1) * slots + (inp - out + slots) DEF fifo_data_len
  <2>2. Moved(slots, inp, 1) = inp + 1
    BY <1>2, Remainder, inp + 1 = 0 * slots + (inp + 1) DEF Moved
  <2>3. fifo_free_len(slots, inp, out) = out - (inp + 1)
    BY <1>2, <2>2, Remainder, out - (inp + 1) = 0 * slots + (out - (inp + 1))
       DEF fifo_free_len
  <2> QED
    BY <1>2, <2>1, <2>3
<1> QED
  BY <1>1, <1>2

\* After i words in and o words out the FIFO is neither empty nor full unless
\* their number says so.
LEMMA FifoMoves ==
  ASSUME NEW slots \in Nat \ {0}, NEW inp \in 0 .. slots - 1, NEW out \in 0 .. slots - 1,
         NEW i \in Nat, NEW o \in Nat, NEW len \in Int,
         len = fifo_data_len(slots, inp, out) + i - o
  PROVE  LET x == Moved(slots, inp, i)
             y == Moved(slots, out, o)
         IN  /\ 0 < len /\ len < slots => ~fifo_empty(x, y)
             /\ 0 <= len /\ len < slots - 1 => ~fifo_full(slots, x, y)
<1> DEFINE x == Moved(slots, inp, i)
           y == Moved(slots, out, o)
           z == Moved(slots, x, 1)
<1> DEFINE u == (inp + i) \div slots
           v == (out + o) \div slots
           w == (x + 1) \div slots
           g == (inp - out) \div slots
<1>0. inp \in Int /\ out \in Int /\ i \in Int /\ o \in Int
  OBVIOUS
<1>1. x \in Int /\ u \in Int /\ x = inp + i - u * slots
  BY <1>0, MovedAround, Zenon
<1>2. y \in Int /\ v \in Int /\ y = out + o - v * slots
  BY <1>0, MovedAround, Zenon
<1> HIDE DEF x
<1>3. w \in Int /\ z = x + 1 - w * slots
  BY <1>1, MovedAround
<1>4. g \in Int /\ fifo_data_len(slots, inp, out) = inp - out - g * slots
  BY inp - out \in Int, Around, Zenon DEF fifo_data_len
<1> HIDE DEF y, z, u, v, w, g
<1>5. ASSUME x = y, 0 < len, len < slots PROVE FALSE
  <2>1. len = (u - v - g) * slots
    BY <1>1, <1>2, <1>4, <1>5
  <2>2. u - v - g \in Int
    BY <1>1, <1>2, <1>4
  <2> QED
    BY <1>5, <2>1, <2>2, NoMultiple
<1>6. ASSUME z = y, 0 <= len, len < slots - 1 PROVE FALSE
  <2>1. len + 1 = (u + w - v - g) * slots
    BY <1>1, <1>2, <1>3, <1>4, <1>6
  <2>2. u + w - v - g \in Int
    BY <1>1, <1>2, <1>3, <1>4
  <2> QED
    BY <1>6, <2>1, <2>2, NoMultiple
<1> QED
  BY <1>5, <1>6 DEF fifo_empty, fifo_full, x, y, z

\* Every word of a burst into the FIFO finds room, whatever the card takes out
\* meanwhile, as long as the FIFO is enabled; fifo_we && !fifo_full would drop it (axi_sdc_controller.v:447).
THEOREM TxBurstFits ==
  ASSUME NEW slots \in Nat, slots >= 3, NEW page \in Nat, Divides(slots, page),
         NEW adr \in Nat,
         NEW inp \in 0 .. slots - 1, NEW out \in 0 .. slots - 1, tx_stb(slots, inp, out),
         NEW b \in 0 .. Beats(page, slots, adr, fifo_free_len(slots, inp, out)) - 1,
         NEW p \in 0 .. fifo_data_len(slots, inp, out) + b
  PROVE  ~fifo_full(slots, Moved(slots, inp, b), Moved(slots, out, p))
<1> DEFINE data == fifo_data_len(slots, inp, out)
           free == fifo_free_len(slots, inp, out)
           beats == Beats(page, slots, adr, free)
<1>1. data \in 0 .. slots - 1 /\ free = slots - 1 - data
  BY FifoLens
<1>2. slots \div 3 >= 1 /\ free >= slots \div 3
  BY DEF tx_stb
<1>3. page - (adr % page) \in Int
  <2>1. page \in Nat \ {0}
    BY DEF Divides
  <2> QED
    BY <2>1
<1>4. free \in 1 .. slots - 1
  BY <1>1, <1>2
<1> HIDE DEF free
<1>5. beats = Longest(page, adr, free)
  BY <1>4, BurstTheorem, slots \in Nat \ {0}
<1>6. b \in Nat /\ b < free
  <2>1. beats \in Int /\ beats <= free
    BY <1>3, <1>4, <1>5 DEF Longest, Lower
  <2>2. b \in 0 .. beats - 1
    BY DEF free
  <2> HIDE DEF beats
  <2> QED
    BY <1>4, <2>1, <2>2
<1> HIDE DEF data
<1>7. p \in Nat /\ p <= data + b
  BY <1>1, <1>6 DEF data
<1>8. PICK len \in Int : len = data + b - p
  BY <1>1, <1>6, <1>7
<1>9. 0 <= len /\ len < slots - 1
  BY <1>1, <1>6, <1>7, <1>8
<1> QED
  BY <1>6, <1>7, <1>8, <1>9, FifoMoves, slots \in Nat \ {0} DEF data

\* Every beat of a burst out of the FIFO finds a word there, whatever the card
\* puts in meanwhile, as long as the FIFO is enabled: m_axi_wdata is never stale (axi_sdc_controller.v:443-457).
THEOREM RxBurstFits ==
  ASSUME NEW slots \in Nat, slots >= 3, NEW page \in Nat, Divides(slots, page),
         NEW adr \in Nat,
         NEW data_busy \in BOOLEAN,
         NEW inp \in 0 .. slots - 1, NEW out \in 0 .. slots - 1,
         rx_stb(slots, inp, out, data_busy),
         NEW b \in 0 .. Beats(page, slots, adr, fifo_data_len(slots, inp, out)) - 1,
         NEW p \in 0 .. fifo_free_len(slots, inp, out) + b
  PROVE  ~fifo_empty(Moved(slots, inp, p), Moved(slots, out, b))
<1> DEFINE data == fifo_data_len(slots, inp, out)
           free == fifo_free_len(slots, inp, out)
           beats == Beats(page, slots, adr, data)
<1>1. data \in 0 .. slots - 1 /\ free = slots - 1 - data
  BY FifoLens
<1>2. data > 0
  <2>1. CASE data >= slots \div 3
    BY <1>1, <2>1, slots \div 3 >= 1
  <2>2. CASE inp # out
    <3> DEFINE m == (inp - out) \div slots
    <3>1. m \in Int /\ data = inp - out - m * slots
      BY inp - out \in Int, Around, slots \in Nat \ {0}, Zenon DEF fifo_data_len
    <3> HIDE DEF m
    <3>2. ASSUME data = 0 PROVE FALSE
      <4>1. CASE inp > out
        <5>1. m * slots = inp - out
          BY <3>1, <3>2
        <5> QED
          BY <3>1, <4>1, <5>1, NoMultiple, slots \in Nat \ {0}
      <4>2. CASE inp < out
        <5>1. (-m) * slots = out - inp /\ -m \in Int
          BY <3>1, <3>2
        <5> QED
          BY <4>2, <5>1, NoMultiple, slots \in Nat \ {0}
      <4> QED
        BY <2>2, <4>1, <4>2
    <3> QED
      BY <1>1, <3>2
  <2> QED
    BY <2>1, <2>2 DEF rx_stb, fifo_empty
<1>3. page - (adr % page) \in Int
  <2>1. page \in Nat \ {0}
    BY DEF Divides
  <2> QED
    BY <2>1
<1>4. data \in 1 .. slots - 1
  BY <1>1, <1>2
<1> HIDE DEF data
<1>5. beats = Longest(page, adr, data)
  BY <1>4, BurstTheorem, slots \in Nat \ {0}
<1>6. b \in Nat /\ b < data
  <2>1. beats \in Int /\ beats <= data
    BY <1>3, <1>4, <1>5 DEF Longest, Lower
  <2>2. b \in 0 .. beats - 1
    BY DEF data
  <2> HIDE DEF beats
  <2> QED
    BY <1>4, <2>1, <2>2
<1> HIDE DEF free
<1>7. p \in Nat /\ p <= free + b
  BY <1>1, <1>6 DEF free
<1>8. PICK len \in Int : len = data + p - b
  BY <1>1, <1>6, <1>7
<1>9. 0 < len /\ len < slots
  BY <1>1, <1>6, <1>7, <1>8
<1> QED
  BY <1>6, <1>7, <1>8, <1>9, FifoMoves, slots \in Nat \ {0} DEF data
=============================================================================
