------------------------------ MODULE FbProofs ------------------------------
(***************************************************************************)
(* Theorems about Fb for every geometry, set of drawers and set of areas:  *)
(* nothing rendered is forgotten, recorded damage always has somebody on   *)
(* the way to take it, and a flip shows what the caller had rendered.      *)
(***************************************************************************)
EXTENDS Fb, TLAPS

\* The virtual screen has at least one line.
LEMMA VHType == VH \in Nat \ {0}
<1>1. CASE Frames = 1
  BY <1>1, GeometryAssumption DEF VH
<1>2. CASE Frames = 2
  BY <1>2, GeometryAssumption DEF VH
<1> QED
  BY <1>1, <1>2, GeometryAssumption

\* Division brackets: what damage_range divides by the stride.
LEMMA DivLemma ==
  ASSUME NEW n \in Nat, NEW w \in Nat \ {0}
  PROVE  /\ n \div w \in Nat
         /\ w * (n \div w) <= n /\ n < w * (n \div w) + w
OBVIOUS

\* A write that starts inside the framebuffer has bytes left to copy.
LEMMA CountType ==
  ASSUME NEW off \in 0 .. W * VH - 1, NEW len \in Lengths
  PROVE  off \in Nat /\ Count(off, len) \in Nat \ {0}
<1>1. VH \in Nat /\ W \in Nat /\ W * VH \in Nat /\ len \in Nat \ {0}
  BY VHType, GeometryAssumption, DrawAssumption
<1>2. off \in Nat /\ off < W * VH
  BY <1>1
<1> QED
  BY <1>1, <1>2 DEF Count, Least

\* The lines damage_range computes for a linear write contain every pixel
\* the write touched.
LEMMA RangeCovers ==
  ASSUME NEW off \in Nat, NEW len \in Nat \ {0}
  PROVE  /\ DamageRange(off, len) \in Nat \X Nat \X Nat \X Nat
         /\ Span(off, len) \subseteq AreaPixels(DamageRange(off, len))
<1> DEFINE y0 == off \div W
           y1 == (off + len - 1) \div W
<1> USE GeometryAssumption, VHType
<1>1. y0 \in Nat /\ W * y0 <= off /\ off < W * y0 + W
  BY DivLemma
<1>2. y1 \in Nat /\ W * y1 <= off + len - 1 /\ off + len - 1 < W * y1 + W
  BY DivLemma
<1>3. y0 <= y1
  <2>1. SUFFICES ASSUME y1 + 1 <= y0 PROVE FALSE
    BY <1>1, <1>2
  <2>2. W * (y1 + 1) <= W * y0
    BY <2>1, <1>1, <1>2
  <2>3. W * (y1 + 1) = W * y1 + W
    BY <1>2
  <2> HIDE DEF y0, y1
  <2> QED
    BY <2>2, <2>3, <1>1, <1>2
<1>4. ASSUME NEW p \in Span(off, len)
      PROVE  p \in AreaPixels(DamageRange(off, len))
  <2>1. /\ p \in Pixel /\ p[1] \in 0 .. W - 1 /\ p[2] \in Nat
        /\ off <= p[2] * W + p[1] /\ p[2] * W + p[1] < off + len
    BY <1>4 DEF Span, Index, Pixel
  <2> DEFINE y == p[2]
  <2>2. y0 <= y
    <3>1. SUFFICES ASSUME y + 1 <= y0 PROVE FALSE
      BY <1>1, <2>1
    <3>2. W * (y + 1) <= W * y0 /\ W * (y + 1) = y * W + W
      BY <3>1, <1>1, <2>1
    <3> HIDE DEF y0, y1, y
    <3> QED
      BY <3>2, <1>1, <2>1 DEF y
  <2>3. y <= y1
    <3>1. SUFFICES ASSUME y1 + 1 <= y PROVE FALSE
      BY <1>2, <2>1
    <3>2. W * (y1 + 1) <= W * y /\ W * (y1 + 1) = W * y1 + W /\ W * y = y * W
      BY <3>1, <1>2, <2>1
    <3> HIDE DEF y0, y1, y
    <3> QED
      BY <3>2, <1>2, <2>1 DEF y
  <2>4. DamageRange(off, len) = <<0, y0, W, y1 - y0 + 1>>
    BY DEF DamageRange
  <2> HIDE DEF y0, y1
  <2> QED
    BY <2>1, <2>2, <2>3, <2>4, <1>1, <1>2, <1>3 DEF AreaPixels
<1>5. DamageRange(off, len) \in Nat \X Nat \X Nat \X Nat
  <2> HIDE DEF y0, y1
  <2>1. DamageRange(off, len) = <<0, y0, W, y1 - y0 + 1>>
    BY DEF DamageRange, y0, y1
  <2> QED
    BY <2>1, <1>1, <1>2, <1>3
<1> QED
  BY <1>4, <1>5

\* Clipping keeps every pixel of an area that is on the screen.
LEMMA ClipCovers ==
  ASSUME NEW a \in Nat \X Nat \X Nat \X Nat
  PROVE  /\ OffScreen(a) => AreaPixels(a) = {}
         /\ ~ OffScreen(a) => Clip(a) \in Rect /\ AreaPixels(a) \subseteq Inside(Clip(a))
<1> USE GeometryAssumption, VHType
<1>1. OffScreen(a) => AreaPixels(a) = {}
  BY DEF OffScreen, AreaPixels, Pixel
<1>2. ~ OffScreen(a) => Clip(a) \in Rect
  BY DEF OffScreen, Clip, Rect, Least
<1>3. ~ OffScreen(a) => AreaPixels(a) \subseteq Inside(Clip(a))
  BY DEF OffScreen, Clip, Inside, AreaPixels, Pixel, Least
<1> QED
  BY <1>1, <1>2, <1>3

\* Widening a rectangle keeps what it had.
LEMMA JoinCovers ==
  ASSUME NEW r \in Rect, NEW s \in Rect
  PROVE  /\ Join(r, s) \in Rect
         /\ Inside(r) \subseteq Inside(Join(r, s))
         /\ Inside(s) \subseteq Inside(Join(r, s))
<1> USE GeometryAssumption, VHType
<1>1. Join(r, s) \in Rect
  BY DEF Join, Rect, Least, Greatest
<1>2. Inside(r) \subseteq Inside(Join(r, s)) /\ Inside(s) \subseteq Inside(Join(r, s))
  BY DEF Join, Rect, Inside, Pixel, Least, Greatest
<1> QED
  BY <1>1, <1>2
-----------------------------------------------------------------------------
(***************************************************************************)
(* The inductive invariant.  Besides the types it says that a run of the   *)
(* flush function is inside its rectangle, that a mode switch finds and    *)
(* keeps everything quiet, and that fb_deferred_io lists every page a user *)
(* can store to.                                                           *)
(***************************************************************************)
RectInv == dirty => rect.y0 <= rect.y1
LineInv == \A c \in Ctx : pc[c] = "flush" => snap[c].y <= snap[c].r.y1
QuietInv == fbpc \in {"switch", "black"} =>
              /\ \A c \in Ctx : pc[c] = "idle"
              /\ ~ armed /\ ~ dirty /\ ~ park_req
PageInv == /\ busy => writable = {}
           /\ ~ busy => writable \subseteq pagelist /\ defio = {}
WorkerInv == pc["worker"] \notin {"damage", "schedule"}

Drawn(p) == \E d \in Drawer : pc[d] = "damage" /\ p \in AreaPixels(area[d])
Ahead(p) == \E c \in Ctx : /\ pc[c] = "flush" /\ p \in Pixel
                           /\ snap[c].r.x0 <= p[1] /\ p[1] <= snap[c].r.x1
                           /\ snap[c].y <= p[2] /\ p[2] <= snap[c].r.y1
Kept(p) == \/ p \in torn \/ Drawn(p) \/ Ahead(p)
           \/ dirty /\ p \in Inside(rect)
           \/ p[2] \in Tracked
KeptInv == Switching \/ \A p \in pend : Kept(p)

ShapeInv == TypeOK /\ RectInv /\ LineInv /\ QuietInv /\ PageInv /\ WorkerInv

\* Ahead is membership of InFlight, without the union of sets.
LEMMA AheadMeaning ==
  ASSUME snap \in [Ctx -> Snap]
  PROVE  \A p : Ahead(p) <=> p \in InFlight
<1>1. \A c \in Ctx : Inside([snap[c].r EXCEPT !.y0 = snap[c].y]) =
                       {p \in Pixel : /\ snap[c].r.x0 <= p[1] /\ p[1] <= snap[c].r.x1
                                      /\ snap[c].y <= p[2] /\ p[2] <= snap[c].r.y1}
  BY DEF Inside, Snap, Rect
<1> QED
  BY <1>1, Zenon DEF Ahead, InFlight

\* Kept is NothingForgotten read pixel by pixel.
LEMMA KeptMeaning ==
  ASSUME snap \in [Ctx -> Snap]
  PROVE  KeptInv <=> NothingForgotten
<1>1. \A p : Drawn(p) <=> p \in Drawing
  BY DEF Drawn, Drawing
<1>2. \A p : Ahead(p) <=> p \in InFlight
  BY AheadMeaning
<1> QED
  BY <1>1, <1>2 DEF KeptInv, Kept, NothingForgotten

\* Settle only removes owed pixels.
LEMMA SettleLemma ==
  ASSUME NEW s \in [Ctx -> Snap], NEW px
  PROVE  /\ Settle(s, px) \in [Ctx -> Snap]
         /\ \A c \in Ctx : /\ Settle(s, px)[c].r = s[c].r
                           /\ Settle(s, px)[c].y = s[c].y
                           /\ Settle(s, px)[c].park = s[c].park
                           /\ Settle(s, px)[c].frame = s[c].frame
                           /\ Settle(s, px)[c].owed = s[c].owed \ px
BY DEF Settle, Snap

\* A line of a rectangle.
LEMMA LinePixels ==
  ASSUME NEW r \in Rect, NEW y \in 0 .. VH
  PROVE  Inside([r EXCEPT !.y0 = y, !.y1 = y]) =
           {p \in Pixel : r.x0 <= p[1] /\ p[1] <= r.x1 /\ p[2] = y}
BY VHType, GeometryAssumption DEF Inside, Rect, Pixel

\* What FlushLine does to the snapshots.
NextRect(c) == IF snap[c].y = snap[c].r.y1 THEN NoRect ELSE snap[c].r
NextLine(c) == IF snap[c].y = snap[c].r.y1 THEN 0 ELSE snap[c].y + 1

LEMMA FlushLineSnap ==
  ASSUME snap \in [Ctx -> Snap], NEW c \in Ctx, NEW px,
         snap[c].y + 1 \in 0 .. VH,
         snap' = [Settle(snap, px) EXCEPT ![c].r = NextRect(c), ![c].y = NextLine(c)]
  PROVE  /\ snap' \in [Ctx -> Snap]
         /\ snap'[c].r = NextRect(c) /\ snap'[c].y = NextLine(c)
         /\ \A e \in Ctx : /\ e # c => snap'[e].r = snap[e].r /\ snap'[e].y = snap[e].y
                           /\ snap'[e].park = snap[e].park
                           /\ snap'[e].owed = snap[e].owed \ px
<1> DEFINE t == Settle(snap, px)
<1>1. /\ t \in [Ctx -> Snap]
      /\ \A e \in Ctx : /\ t[e].r = snap[e].r /\ t[e].y = snap[e].y
                        /\ t[e].park = snap[e].park /\ t[e].frame = snap[e].frame
                        /\ t[e].owed = snap[e].owed \ px
  BY SettleLemma
<1>2. NextRect(c) \in Rect /\ NextLine(c) \in 0 .. VH
  <2>1. NoRect \in Rect /\ 0 \in 0 .. VH
    BY GeometryAssumption, VHType DEF NoRect, Rect
  <2>2. snap[c].r \in Rect
    BY DEF Snap
  <2> QED
    BY <2>1, <2>2, Zenon DEF NextRect, NextLine
<1> DEFINE n == [t[c] EXCEPT !.r = NextRect(c), !.y = NextLine(c)]
<1> HIDE DEF t
<1>3. snap' = [t EXCEPT ![c] = n]
  BY <1>1, Zenon DEF t
<1>4. /\ n \in Snap /\ n.r = NextRect(c) /\ n.y = NextLine(c)
      /\ n.park = t[c].park /\ n.owed = t[c].owed
  BY <1>1, <1>2, ZenonT(30) DEF Snap
<1> HIDE DEF n
<1> QED
  BY <1>1, <1>3, <1>4, ZenonT(30)

\* The flush function's snapshot and the worker's first step are well formed.
LEMMA ShapeInit == Init => ShapeInv
<1> SUFFICES ASSUME Init PROVE ShapeInv
  OBVIOUS
<1> USE GeometryAssumption, DrawAssumption, TroubleAssumption, VHType
<1>1. NoSnap \in Snap /\ NoRect \in Rect /\ NoArea \in Nat \X Nat \X Nat \X Nat
  BY DEF NoSnap, NoRect, NoArea, Snap, Rect
<1>2. 0 \in 0 .. Frames - 1 /\ 0 \in 0 .. Trouble
  OBVIOUS
<1>3. TypeOK
  BY <1>1, <1>2, Zenon DEF Init, TypeOK
<1>4. RectInv /\ LineInv /\ QuietInv /\ PageInv /\ WorkerInv
  BY DEF Init, RectInv, LineInv, QuietInv, PageInv, WorkerInv, Ctx
<1> QED
  BY <1>3, <1>4 DEF ShapeInv

\* Every step keeps the shape: one case per action.
LEMMA ShapeNext == ShapeInv /\ [Next]_vars => ShapeInv'
<1> SUFFICES ASSUME ShapeInv, [Next]_vars PROVE ShapeInv'
  OBVIOUS
<1> USE GeometryAssumption, DrawAssumption, TroubleAssumption, VHType
    DEF damage, flush, user, ghost
<1>0. TypeOK /\ RectInv /\ LineInv /\ QuietInv /\ PageInv /\ WorkerInv
  BY DEF ShapeInv
<1>w. /\ "worker" \in Ctx /\ Drawer \subseteq Ctx /\ NoSnap \in Snap /\ NoRect \in Rect
      /\ 0 \in 0 .. Frames - 1
  BY DEF Ctx, NoSnap, NoRect, Snap, Rect
<1>1. ASSUME NEW d \in Drawer, NEW a \in Areas, Draw(d, a) PROVE ShapeInv'
  BY <1>0, <1>1, <1>w DEF Draw, MayDraw, ShapeInv, TypeOK, RectInv, LineInv,
     QuietInv, PageInv, WorkerInv, AreaPixels
<1>2. ASSUME NEW d \in Drawer, NEW off \in Nat, NEW len \in Nat \ {0}, Write(d, off, len)
      PROVE  ShapeInv'
  <2>1. DamageRange(off, len) \in Nat \X Nat \X Nat \X Nat /\ Span(off, len) \subseteq Pixel
    BY RangeCovers DEF Span
  <2> QED
    BY <1>0, <1>2, <1>w, <2>1 DEF Write, MayDraw, ShapeInv, TypeOK, RectInv, LineInv,
       QuietInv, PageInv, WorkerInv
<1>3. ASSUME NEW d \in Drawer, NEW off \in Nat, NEW len \in Nat \ {0},
             WriteFault(d, off, len)
      PROVE  ShapeInv'
  BY <1>0, <1>3 DEF WriteFault, Troubled, MayDraw, Span, ShapeInv, TypeOK, RectInv, LineInv,
     QuietInv, PageInv, WorkerInv
<1>4. ASSUME NEW d \in Drawer, DamageArea(d) PROVE ShapeInv'
  <2>1. area[d] \in Nat \X Nat \X Nat \X Nat
    BY <1>0 DEF TypeOK
  <2>2. CASE OffScreen(area[d])
    BY <1>0, <1>4, <1>w, <2>2 DEF DamageArea, NoArea, ShapeInv, TypeOK, RectInv,
       LineInv, QuietInv, PageInv, WorkerInv
  <2>3. CASE ~ OffScreen(area[d])
    <3>1. Clip(area[d]) \in Rect /\ Clip(area[d]).y0 <= Clip(area[d]).y1
      <4>1. Clip(area[d]) \in Rect
        BY <2>1, <2>3, ClipCovers
      <4>2. Clip(area[d]).y0 <= Clip(area[d]).y1
        BY <2>1, <2>3 DEF OffScreen, Clip, Least
      <4> QED
        BY <4>1, <4>2
    <3>2. /\ Join(rect, Clip(area[d])) \in Rect
          /\ (dirty => Join(rect, Clip(area[d])).y0 <= Join(rect, Clip(area[d])).y1)
      <4>1. Join(rect, Clip(area[d])) \in Rect
        BY <3>1, <1>0, JoinCovers DEF TypeOK
      <4>2. dirty => Join(rect, Clip(area[d])).y0 <= Join(rect, Clip(area[d])).y1
        BY <3>1, <1>0 DEF TypeOK, RectInv, Join, Rect, Least, Greatest
      <4> QED
        BY <4>1, <4>2
    <3>3. rect' \in Rect /\ rect'.y0 <= rect'.y1
      BY <1>4, <2>3, <3>1, <3>2 DEF DamageArea
    <3> QED
      BY <1>0, <1>4, <1>w, <2>3, <3>3 DEF DamageArea, NoArea, ShapeInv, TypeOK,
         RectInv, LineInv, QuietInv, PageInv, WorkerInv
  <2> QED
    BY <2>2, <2>3
<1>5. ASSUME NEW d \in Drawer, Schedule(d) PROVE ShapeInv'
  BY <1>0, <1>5, <1>w, ZenonT(30) DEF Schedule, ShapeInv, TypeOK, RectInv, LineInv, QuietInv,
     PageInv, WorkerInv
<1>6. ASSUME OopsBegins \/ OopsEnds PROVE ShapeInv'
  <2>1. trouble \in 0 .. Trouble
    BY <1>0 DEF TypeOK
  <2>2. oops' \in BOOLEAN
    BY <1>6, Zenon DEF OopsBegins, OopsEnds
  <2>3. trouble' \in 0 .. Trouble
    BY <1>6, <2>1 DEF OopsBegins, OopsEnds, Troubled
  <2>4. UNCHANGED <<pend, damage, armed, flush, scan, fbpc, halted, ghost,
                    writable, pagelist, busy, defio>>
    BY <1>6 DEF OopsBegins, OopsEnds
  <2> QED
    BY <1>0, <2>2, <2>3, <2>4 DEF ShapeInv, TypeOK, RectInv, LineInv, QuietInv, PageInv,
       WorkerInv
<1>7. ASSUME WorkerStart PROVE ShapeInv'
  <2>1. TypeOK'
    BY <1>0, <1>7, <1>w, Zenon DEF WorkerStart, TypeOK
  <2>2. QuietInv'
    BY <1>0, <1>7 DEF WorkerStart, QuietInv
  <2>3. RectInv' /\ LineInv' /\ PageInv' /\ WorkerInv'
    BY <1>0, <1>7, <1>w DEF WorkerStart, TypeOK, RectInv, LineInv, PageInv, WorkerInv
  <2> QED
    BY <2>1, <2>2, <2>3 DEF ShapeInv
<1>8. ASSUME NEW c \in Ctx, FlushTake(c) PROVE ShapeInv'
  <2>1. [r |-> rect, y |-> rect.y0, park |-> park_req, frame |-> park_frame,
         owed |-> IF park_req THEN owed ELSE {}] \in Snap
    BY <1>0 DEF TypeOK, Snap, Rect
  <2> QED
    <3>1. TypeOK'
      BY <1>0, <1>8, <1>w, <2>1, Zenon DEF FlushTake, TypeOK
    <3>2. QuietInv' /\ RectInv' /\ PageInv'
      BY <1>0, <1>8 DEF FlushTake, QuietInv, RectInv, PageInv
    <3>3. LineInv'
      BY <1>0, <1>8, <2>1 DEF FlushTake, TypeOK, LineInv, RectInv
    <3>4. WorkerInv'
      BY <1>0, <1>8, <1>w DEF FlushTake, TypeOK, WorkerInv
    <3> QED
      BY <3>1, <3>2, <3>3, <3>4 DEF ShapeInv
<1>9. ASSUME NEW c \in Ctx, FlushLine(c) PROVE ShapeInv'
  <2> DEFINE px == Inside([snap[c].r EXCEPT !.y0 = snap[c].y, !.y1 = snap[c].y])
  <2>1. snap[c] \in Snap /\ snap[c].y <= snap[c].r.y1 /\ snap[c].y + 1 \in 0 .. VH
    BY <1>0, <1>9 DEF FlushLine, TypeOK, LineInv, Snap, Rect
  <2>2. /\ snap' = [Settle(snap, px) EXCEPT ![c].r = NextRect(c), ![c].y = NextLine(c)]
        /\ Pushed(px) /\ pc[c] = "flush"
        /\ pc' = [pc EXCEPT ![c] = IF snap[c].y = snap[c].r.y1 THEN "park" ELSE "flush"]
        /\ UNCHANGED <<damage, armed, oops, area, scan, fbpc, halted, user, want>>
    BY <1>9 DEF FlushLine, NextRect, NextLine
  <2>3. /\ snap' \in [Ctx -> Snap]
        /\ snap'[c].r = NextRect(c) /\ snap'[c].y = NextLine(c)
        /\ \A e \in Ctx \ {c} : snap'[e].r = snap[e].r /\ snap'[e].y = snap[e].y
    BY <1>0, <2>1, <2>2, FlushLineSnap, Zenon DEF TypeOK
  <2> HIDE DEF px
  <2>4. LineInv'
    <3>1. snap[c].y \in Int /\ snap[c].r.y1 \in Int
      BY <2>1 DEF Snap, Rect
    <3>2. pc'[c] = "flush" => snap'[c].y <= snap'[c].r.y1
      <4>1. pc'[c] = "flush" => snap[c].y # snap[c].r.y1
        BY <1>0, <2>2 DEF TypeOK
      <4>2. snap[c].y # snap[c].r.y1 =>
              snap'[c].r = snap[c].r /\ snap'[c].y = snap[c].y + 1
        BY <2>3 DEF NextRect, NextLine
      <4> QED
        BY <2>1, <3>1, <4>1, <4>2
    <3>3. \A e \in Ctx : e # c => pc'[e] = pc[e] /\ snap'[e].y = snap[e].y
                                 /\ snap'[e].r = snap[e].r
      BY <1>0, <2>2, <2>3 DEF TypeOK
    <3> QED
      BY <1>0, <3>2, <3>3 DEF LineInv
  <2>5. TypeOK'
    BY <1>0, <2>2, <2>3 DEF TypeOK, Pushed
  <2> QED
    BY <1>0, <2>2, <2>4, <2>5 DEF ShapeInv, RectInv, QuietInv, PageInv, WorkerInv, TypeOK
<1>10. ASSUME NEW c \in Ctx, FlushPark(c) PROVE ShapeInv'
  <2>1. snap[c] \in Snap
    BY <1>0 DEF TypeOK
  <2> QED
    <3>1. snap[c].frame \in 0 .. Frames - 1
      BY <2>1 DEF Snap
    <3>2. TypeOK'
      BY <1>0, <1>10, <1>w, <3>1 DEF FlushPark, TypeOK
    <3>3. QuietInv' /\ RectInv' /\ PageInv'
      BY <1>0, <1>10 DEF FlushPark, QuietInv, RectInv, PageInv
    <3>4. LineInv' /\ WorkerInv'
      BY <1>0, <1>10, <1>w DEF FlushPark, TypeOK, LineInv, WorkerInv
    <3> QED
      BY <3>2, <3>3, <3>4 DEF ShapeInv
<1>11. ASSUME NEW f \in 0 .. Frames - 1, PanDisplay(f) PROVE ShapeInv'
  BY <1>0, <1>11 DEF PanDisplay, ShapeInv, TypeOK, RectInv, LineInv, QuietInv,
     PageInv, WorkerInv
<1>12. ASSUME PanKick PROVE ShapeInv'
  BY <1>0, <1>12 DEF PanKick, ShapeInv, TypeOK, RectInv, LineInv, QuietInv, PageInv,
     WorkerInv
<1>13. ASSUME SetPar PROVE ShapeInv'
  <2>1. TypeOK'
    BY <1>0, <1>13, <1>w, Zenon DEF SetPar, TypeOK
  <2>2. QuietInv' /\ RectInv' /\ PageInv' /\ LineInv' /\ WorkerInv'
    BY <1>0, <1>13 DEF SetPar, QuietInv, RectInv, PageInv, LineInv, WorkerInv
  <2> QED
    BY <2>1, <2>2 DEF ShapeInv
<1>14. ASSUME NEW ok \in BOOLEAN, SwitchMode(ok) PROVE ShapeInv'
  BY <1>0, <1>14 DEF SwitchMode, ShapeInv, TypeOK, RectInv, LineInv, QuietInv,
     PageInv, WorkerInv
<1>15. ASSUME Black PROVE ShapeInv'
  <2>1. /\ snap' \in [Ctx -> Snap]
        /\ \A e \in Ctx : snap'[e].r = snap[e].r /\ snap'[e].y = snap[e].y
    BY <1>0, <1>15, SettleLemma DEF Black, TypeOK
  <2> QED
    BY <1>0, <1>15, <2>1 DEF Black, Pushed, ShapeInv, TypeOK, RectInv, LineInv,
       QuietInv, PageInv, WorkerInv
<1>16. ASSUME NEW g \in Page, MmapFault(g) PROVE ShapeInv'
  BY <1>0, <1>16 DEF MmapFault, Troubled, ShapeInv, TypeOK, RectInv, LineInv, QuietInv,
     PageInv, WorkerInv
<1>17. ASSUME NEW p \in Pixel, MmapStore(p) PROVE ShapeInv'
  BY <1>0, <1>17 DEF MmapStore, ShapeInv, TypeOK, RectInv, LineInv, QuietInv,
     PageInv, WorkerInv
<1>18. ASSUME DeferredIoStart PROVE ShapeInv'
  BY <1>0, <1>18 DEF DeferredIoStart, ShapeInv, TypeOK, RectInv, LineInv, QuietInv,
     PageInv, WorkerInv
<1>19. ASSUME DeferredIoFlush PROVE ShapeInv'
  <2>1. /\ snap' \in [Ctx -> Snap]
        /\ \A e \in Ctx : snap'[e].r = snap[e].r /\ snap'[e].y = snap[e].y
    BY <1>0, <1>19, SettleLemma DEF DeferredIoFlush, TypeOK
  <2>2. /\ pend' \subseteq pend /\ torn' \subseteq torn /\ owed' \subseteq owed
        /\ defio' \subseteq defio /\ busy
        /\ UNCHANGED <<damage, armed, oops, pc, area, scan, fbpc, halted, writable,
                       pagelist, busy, trouble, want>>
    BY <1>19 DEF DeferredIoFlush, Pushed
  <2>3. TypeOK'
    BY <1>0, <2>1, <2>2 DEF TypeOK
  <2>4. LineInv' /\ RectInv'
    BY <1>0, <2>1, <2>2 DEF LineInv, RectInv
  <2>5. QuietInv' /\ PageInv' /\ WorkerInv'
    BY <1>0, <2>2 DEF QuietInv, PageInv, WorkerInv
  <2> QED
    BY <2>3, <2>4, <2>5 DEF ShapeInv
<1>20. ASSUME DeferredIoDone PROVE ShapeInv'
  BY <1>0, <1>20, Zenon DEF DeferredIoDone, ShapeInv, TypeOK, RectInv, LineInv, QuietInv,
     PageInv, WorkerInv
<1>21. ASSUME UNCHANGED vars PROVE ShapeInv'
  BY <1>0, <1>21 DEF vars, ShapeInv, TypeOK, RectInv, LineInv, QuietInv, PageInv,
     WorkerInv
<1>22. ASSUME NEW d \in Drawer, Render(d) PROVE ShapeInv'
  BY <1>22, <1>1, <1>2, <1>3, CountType DEF Render
<1> QED
  BY <1>22, <1>4, <1>5, <1>6, <1>7, <1>8, <1>9, <1>10, <1>11, <1>12, <1>13,
     <1>14, <1>15, <1>16, <1>17, <1>18, <1>19, <1>20, <1>21, <1>w
     DEF Next, DrawerStep, FlushRun, Worker, LockStep, DeferredIo

\* Pixels only ever leave the caches, or are drawn with somebody to record
\* them: one case per action that can disturb KeptInv.
LEMMA KeptNext == ShapeInv /\ KeptInv /\ [Next]_vars => KeptInv'
<1> SUFFICES ASSUME ShapeInv, KeptInv, [Next]_vars PROVE KeptInv'
  OBVIOUS
<1> USE GeometryAssumption, DrawAssumption, VHType DEF damage, flush, user, ghost
<1>0. TypeOK /\ RectInv /\ LineInv /\ QuietInv /\ PageInv /\ WorkerInv
  BY DEF ShapeInv
<1>w. "worker" \in Ctx /\ Drawer \subseteq Ctx
  BY DEF Ctx
<1>1. ASSUME NEW d \in Drawer, NEW px, NEW a \in Nat \X Nat \X Nat \X Nat,
             px \subseteq AreaPixels(a), pc[d] = "idle",
             pend' = pend \union px, torn' = torn \ px,
             area' = [area EXCEPT ![d] = a], pc' = [pc EXCEPT ![d] = "damage"],
             UNCHANGED <<damage, armed, oops, snap, scan, fbpc, halted, user, owed, want>>
      PROVE  KeptInv'
  <2>1. SUFFICES ASSUME ~ Switching, NEW p \in pend' PROVE Kept(p)'
    BY <1>1 DEF KeptInv, Switching
  <2>2. p \in px => Drawn(p)'
    BY <1>0, <1>1, <1>w DEF Drawn, TypeOK
  <2>3. ASSUME p \notin px PROVE Kept(p)'
    <3>1. Kept(p) /\ p \in pend
      BY <1>1, <2>1, <2>3 DEF KeptInv
    <3>2. Drawn(p) => Drawn(p)'
      BY <1>0, <1>1, <1>w DEF Drawn, TypeOK
    <3>3. Ahead(p) => Ahead(p)'
      BY <1>0, <1>1, <1>w DEF Ahead, TypeOK
    <3> QED
      BY <1>1, <2>3, <3>1, <3>2, <3>3 DEF Kept, Tracked
  <2> QED
    BY <2>2, <2>3 DEF Kept
<1>2. ASSUME NEW d \in Drawer, NEW a \in Areas, Draw(d, a) PROVE KeptInv'
  BY <1>1, <1>2, Zenon DEF Draw
<1>3. ASSUME NEW d \in Drawer, NEW off \in Nat, NEW len \in Nat \ {0}, Write(d, off, len)
      PROVE  KeptInv'
  BY <1>1, <1>3, RangeCovers, Zenon DEF Write
<1>4. ASSUME NEW d \in Drawer, NEW off \in Nat, NEW len \in Nat \ {0},
             WriteFault(d, off, len)
      PROVE  KeptInv'
  BY <1>4 DEF WriteFault, KeptInv, Switching, Kept, Drawn, Ahead, Tracked
<1>5. ASSUME NEW d \in Drawer, DamageArea(d) PROVE KeptInv'
  <2>1. SUFFICES ASSUME ~ Switching, NEW p \in pend PROVE Kept(p)'
    BY <1>5 DEF KeptInv, Switching, DamageArea
  <2>2. Kept(p) /\ p \in Pixel /\ area[d] \in Nat \X Nat \X Nat \X Nat /\ rect \in Rect
    BY <1>0, <2>1 DEF KeptInv, TypeOK
  <2>3. Ahead(p) => Ahead(p)'
    BY <1>0, <1>5, <1>w DEF DamageArea, Ahead, TypeOK
  <2>4. \A e \in Drawer : e # d /\ pc[e] = "damage" /\ p \in AreaPixels(area[e]) => Drawn(p)'
    BY <1>0, <1>5, <1>w DEF DamageArea, Drawn, TypeOK
  <2>5. CASE OffScreen(area[d])
    <3>1. Drawn(p) => Drawn(p)'
      BY <2>2, <2>4, <2>5, ClipCovers DEF Drawn
    <3> QED
      BY <1>5, <2>2, <2>3, <2>5, <3>1 DEF DamageArea, Kept, Tracked
  <2>6. CASE ~ OffScreen(area[d])
    <3>1. Clip(area[d]) \in Rect /\ AreaPixels(area[d]) \subseteq Inside(Clip(area[d]))
      BY <2>2, <2>6, ClipCovers
    <3>2. /\ Inside(rect) \subseteq Inside(Join(rect, Clip(area[d])))
          /\ Inside(Clip(area[d])) \subseteq Inside(Join(rect, Clip(area[d])))
      BY <2>2, <3>1, JoinCovers
    <3>3. dirty' /\ rect' = (IF dirty THEN Join(rect, Clip(area[d])) ELSE Clip(area[d]))
      BY <1>5, <2>6 DEF DamageArea
    <3>4. p \in AreaPixels(area[d]) => p \in Inside(rect)'
      BY <3>1, <3>2, <3>3 DEF Inside
    <3>5. dirty /\ p \in Inside(rect) => p \in Inside(rect)'
      BY <3>2, <3>3 DEF Inside
    <3>6. Drawn(p) => Drawn(p)' \/ (dirty' /\ p \in Inside(rect)')
      BY <2>4, <3>3, <3>4 DEF Drawn
    <3>7. torn' = torn /\ Tracked' = Tracked
      BY <1>5 DEF DamageArea, Tracked
    <3> QED
      BY <2>2, <2>3, <3>3, <3>5, <3>6, <3>7 DEF Kept
  <2> QED
    BY <2>5, <2>6
<1>6. ASSUME NEW c \in Ctx, pc[c] \notin {"damage", "flush"},
             \E v \in {"idle", "take", "park"} : pc' = [pc EXCEPT ![c] = v],
             \A e \in Ctx \ {c} : snap'[e] = snap[e],
             UNCHANGED <<pend, dirty, rect, area, fbpc, halted, user, torn>>
      PROVE  KeptInv'
  <2>1. SUFFICES ASSUME ~ Switching, NEW p \in pend PROVE Kept(p)'
    BY <1>6, Zenon DEF KeptInv, Switching
  <2>2. Kept(p)
    BY <2>1 DEF KeptInv
  <2>3. Drawn(p) => Drawn(p)'
    BY <1>0, <1>6, <1>w DEF Drawn, TypeOK
  <2>4. Ahead(p) => Ahead(p)'
    BY <1>0, <1>6, <1>w DEF Ahead, TypeOK
  <2> QED
    BY <1>6, <2>2, <2>3, <2>4 DEF Kept, Tracked, Inside
<1>7. ASSUME NEW d \in Drawer, Schedule(d) PROVE KeptInv'
  BY <1>6, <1>7, <1>w DEF Schedule
<1>8. ASSUME WorkerStart PROVE KeptInv'
  BY <1>6, <1>8, <1>w, Zenon DEF WorkerStart
<1>9. ASSUME NEW c \in Ctx, FlushPark(c) PROVE KeptInv'
  <2>1. \A e \in Ctx \ {c} : snap'[e] = snap[e]
    BY <1>0, <1>9 DEF FlushPark, TypeOK
  <2> QED
    BY <1>6, <1>9, <2>1, Zenon DEF FlushPark
<1>10. ASSUME NEW c \in Ctx, FlushTake(c) PROVE KeptInv'
  <2>1. SUFFICES ASSUME ~ Switching, NEW p \in pend PROVE Kept(p)'
    BY <1>10 DEF KeptInv, Switching, FlushTake
  <2>2. Kept(p) /\ p \in Pixel /\ rect \in Rect
    BY <1>0, <2>1 DEF KeptInv, TypeOK
  <2>3. Drawn(p) => Drawn(p)'
    BY <1>0, <1>10, <1>w DEF FlushTake, Drawn, TypeOK
  <2>4. Ahead(p) => Ahead(p)'
    BY <1>0, <1>10, <1>w DEF FlushTake, Ahead, TypeOK
  <2>5. dirty /\ p \in Inside(rect) => Ahead(p)'
    <3>1. snap'[c].r = rect /\ snap'[c].y = rect.y0
      BY <1>0, <1>10 DEF FlushTake, TypeOK
    <3>2. dirty => pc'[c] = "flush"
      BY <1>0, <1>10 DEF FlushTake, TypeOK
    <3> QED
      BY <2>2, <3>1, <3>2 DEF Ahead, Inside
  <2> QED
    BY <1>10, <2>2, <2>3, <2>4, <2>5 DEF FlushTake, Kept, Tracked
<1>11. ASSUME NEW c \in Ctx, FlushLine(c) PROVE KeptInv'
  <2> DEFINE px == Inside([snap[c].r EXCEPT !.y0 = snap[c].y, !.y1 = snap[c].y])
  <2>1. snap[c] \in Snap /\ snap[c].y <= snap[c].r.y1 /\ snap[c].y + 1 \in 0 .. VH
        /\ snap[c].r \in Rect /\ snap[c].y \in 0 .. VH
    BY <1>0, <1>11 DEF FlushLine, TypeOK, LineInv, Snap, Rect
  <2>2. px = {p \in Pixel : snap[c].r.x0 <= p[1] /\ p[1] <= snap[c].r.x1 /\ p[2] = snap[c].y}
    BY <2>1, LinePixels, Zenon
  <2>3. /\ snap' = [Settle(snap, px) EXCEPT ![c].r = NextRect(c), ![c].y = NextLine(c)]
        /\ pend' = pend \ px /\ torn' = torn \ px /\ pc[c] = "flush"
        /\ pc' = [pc EXCEPT ![c] = IF snap[c].y = snap[c].r.y1 THEN "park" ELSE "flush"]
        /\ UNCHANGED <<damage, armed, oops, area, scan, fbpc, halted, user, want>>
    BY <1>11 DEF FlushLine, Pushed, NextRect, NextLine
  <2>4. /\ snap'[c].r = NextRect(c) /\ snap'[c].y = NextLine(c)
        /\ \A e \in Ctx \ {c} : snap'[e].r = snap[e].r /\ snap'[e].y = snap[e].y
    BY <1>0, <2>1, <2>3, FlushLineSnap, ZenonT(30) DEF TypeOK
  <2> HIDE DEF px
  <2>5. SUFFICES ASSUME ~ Switching, NEW p \in pend, p \notin px PROVE Kept(p)'
    BY <2>3 DEF KeptInv, Switching
  <2>6. Kept(p) /\ p \in Pixel /\ p[2] \in Int
    BY <1>0, <2>5 DEF KeptInv, TypeOK, Pixel
  <2>7. Drawn(p) => Drawn(p)'
    BY <1>0, <1>w, <2>3 DEF Drawn, TypeOK
  <2>8. Ahead(p) => Ahead(p)'
    <3>1. SUFFICES ASSUME NEW e \in Ctx, pc[e] = "flush",
                          snap[e].r.x0 <= p[1], p[1] <= snap[e].r.x1,
                          snap[e].y <= p[2], p[2] <= snap[e].r.y1
                   PROVE  Ahead(p)'
      BY DEF Ahead
    <3>2. CASE e # c
      BY <1>0, <2>3, <2>4, <2>6, <3>1, <3>2, ZenonT(30) DEF Ahead, TypeOK
    <3>3. CASE e = c
      <4>1. p[2] # snap[c].y
        BY <2>2, <2>5, <2>6, <3>1, <3>3, Zenon
      <4>2. snap[c].y + 1 <= p[2] /\ snap[c].y # snap[c].r.y1
        <5>1. snap[c].y \in Int /\ snap[c].r.y1 \in Int
          BY <2>1 DEF Rect
        <5>2. snap[c].y <= p[2] /\ p[2] <= snap[c].r.y1
          BY <3>1, <3>3
        <5> QED
          BY <2>6, <4>1, <5>1, <5>2
      <4>3. pc'[c] = "flush" /\ snap'[c].r = snap[c].r /\ snap'[c].y = snap[c].y + 1
        BY <1>0, <2>3, <2>4, <4>2 DEF TypeOK, NextRect, NextLine
      <4> QED
        BY <2>6, <3>1, <3>3, <4>2, <4>3 DEF Ahead
    <3> QED
      BY <3>2, <3>3
  <2> QED
    BY <2>3, <2>5, <2>6, <2>7, <2>8 DEF Kept, Tracked, Inside
<1>12. ASSUME NEW px, pend' \subseteq pend \ px, torn' = torn \ px,
              \A e \in Ctx : snap'[e].r = snap[e].r /\ snap'[e].y = snap[e].y,
              \A y \in Tracked \ Tracked' : Line(y) \subseteq px \/ Line(y) \cap pend = {},
              UNCHANGED <<pc, area, dirty, rect, fbpc, halted>>
       PROVE  KeptInv'
  <2>1. SUFFICES ASSUME ~ Switching, NEW p \in pend, p \notin px PROVE Kept(p)'
    BY <1>12, Zenon DEF KeptInv, Switching
  <2>2. Kept(p) /\ p \in Pixel
    BY <1>0, <2>1 DEF KeptInv, TypeOK
  <2>3. p[2] \in Tracked => p[2] \in Tracked'
    BY <1>12, <2>1, <2>2, Zenon DEF Line
  <2>4. (Drawn(p) => Drawn(p)') /\ (Ahead(p) => Ahead(p)')
    BY <1>12 DEF Drawn, Ahead
  <2> QED
    BY <1>12, <2>1, <2>2, <2>3, <2>4, Zenon DEF Kept, Inside
<1>k. ASSUME UNCHANGED <<pc, area, snap, dirty, rect>>, Tracked \subseteq Tracked', NEW p
      PROVE  (Drawn(p) => Drawn(p)') /\ (Ahead(p) => Ahead(p)')
             /\ (p \in torn' \/ p \notin torn => (Kept(p) => Kept(p)'))
  <2>1. Drawn(p) => Drawn(p)'
    BY <1>k DEF Drawn
  <2>2. Ahead(p) => Ahead(p)'
    BY <1>k DEF Ahead
  <2>3. dirty /\ p \in Inside(rect) => (dirty /\ p \in Inside(rect))'
    BY <1>k DEF Inside
  <2>4. p[2] \in Tracked => p[2] \in Tracked'
    BY <1>k
  <2> QED
    BY <2>1, <2>2, <2>3, <2>4 DEF Kept
<1>13. ASSUME UNCHANGED <<pc, area, snap, dirty, rect, pend, torn>>,
              Tracked \subseteq Tracked', Switching => Switching'
       PROVE  KeptInv'
  <2>1. ASSUME NEW p, Kept(p) PROVE Kept(p)'
    BY <1>k, <1>13, <2>1
  <2> QED
    BY <1>13, <2>1 DEF KeptInv
<1>14. ASSUME NEW f \in 0 .. Frames - 1, PanDisplay(f) PROVE KeptInv'
  BY <1>13, <1>14 DEF PanDisplay, Switching, Tracked
<1>24. ASSUME OopsBegins PROVE KeptInv'
  BY <1>13, <1>24 DEF OopsBegins, Switching, Tracked
<1>25. ASSUME OopsEnds PROVE KeptInv'
  BY <1>13, <1>25 DEF OopsEnds, Switching, Tracked
<1>26. ASSUME PanKick PROVE KeptInv'
  BY <1>13, <1>26 DEF PanKick, Switching, Tracked
<1>15. ASSUME SetPar \/ (\E ok \in BOOLEAN : SwitchMode(ok)) PROVE KeptInv'
  BY <1>15, Zenon DEF SetPar, SwitchMode, KeptInv, Switching
<1>16. ASSUME Black PROVE KeptInv'
  BY <1>0, <1>16 DEF Black, Pushed, KeptInv, TypeOK
<1>17. ASSUME NEW g \in Page, MmapFault(g) PROVE KeptInv'
  BY <1>13, <1>17 DEF MmapFault, Switching, Tracked
<1>18. ASSUME NEW q \in Pixel, MmapStore(q) PROVE KeptInv'
  <2>1. SUFFICES ASSUME ~ Switching, NEW p \in pend' PROVE Kept(p)'
    BY <1>18 DEF MmapStore, KeptInv, Switching
  <2>2. p = q \/ (p # q /\ Kept(p))
    BY <1>18, <2>1 DEF MmapStore, KeptInv
  <2>3. q[2] \in Tracked /\ Tracked' = Tracked
    BY <1>0, <1>18 DEF MmapStore, Tracked, PageInv
  <2>4. CASE p = q
    BY <2>3, <2>4 DEF Kept
  <2>5. CASE p # q /\ Kept(p)
    <3>1. UNCHANGED <<pc, area, snap, dirty, rect>> /\ (p \in torn' \/ p \notin torn)
      BY <1>18, <2>5 DEF MmapStore
    <3> QED
      BY <1>k, <2>3, <2>5, <3>1
  <2> QED
    BY <2>2, <2>4, <2>5
<1>19. ASSUME DeferredIoStart PROVE KeptInv'
  BY <1>13, <1>19 DEF DeferredIoStart, Switching, Tracked
<1>20. ASSUME DeferredIoFlush PROVE KeptInv'
  <2> DEFINE px == UNION {Line(y) : y \in FirstRun(defio)}
  <2>1. /\ \A e \in Ctx : snap'[e].r = snap[e].r /\ snap'[e].y = snap[e].y
    <3>1. snap \in [Ctx -> Snap]
      BY <1>0 DEF TypeOK
    <3>2. snap' = Settle(snap, px)
      BY <1>20 DEF DeferredIoFlush
    <3> HIDE DEF px
    <3> QED
      BY <3>1, <3>2, SettleLemma
  <2>2. pend' = pend \ px /\ torn' = torn \ px /\ UNCHANGED <<pc, area, dirty, rect, fbpc, halted>>
    BY <1>20 DEF DeferredIoFlush, Pushed
  <2>3. \A y \in Tracked \ Tracked' : Line(y) \subseteq px
    BY <1>20 DEF DeferredIoFlush, Tracked
  <2> HIDE DEF px
  <2> QED
    BY <1>12, <2>1, <2>2, <2>3
<1>21. ASSUME DeferredIoDone PROVE KeptInv'
  BY <1>13, <1>21 DEF DeferredIoDone, Switching, Tracked
<1>22. ASSUME UNCHANGED vars PROVE KeptInv'
  BY <1>13, <1>22 DEF vars, Switching, Tracked
<1>23. ASSUME NEW d \in Drawer, Render(d) PROVE KeptInv'
  BY <1>23, <1>2, <1>3, <1>4, CountType DEF Render
<1> QED
  BY <1>23, <1>5, <1>7, <1>8, <1>9, <1>10, <1>11, <1>14, <1>15, <1>16,
     <1>17, <1>18, <1>19, <1>20, <1>21, <1>22, <1>24, <1>25, <1>26, <1>w
     DEF Next, DrawerStep, FlushRun, Worker, LockStep, DeferredIo

\* Every variable of Fb keeps its type, for every geometry (fb.c:69).
THEOREM FbTypeTheorem == Safety => []TypeOK
<1>1. ShapeInv => TypeOK
  BY DEF ShapeInv
<1> QED
  BY <1>1, ShapeInit, ShapeNext, PTL DEF Safety

\* No rendered pixel is forgotten (fb.c:118, 149, 364): every pixel DRAM does
\* not have yet is recorded, being flushed, about to be recorded, or tracked
\* by fb_deferred_io, whatever the geometry and however many contexts draw.
THEOREM ForgottenTheorem == Safety => []NothingForgotten
<1>1. Init => KeptInv
  BY DEF Init, KeptInv
<1>2. ShapeInv /\ KeptInv => NothingForgotten
  BY KeptMeaning DEF ShapeInv, TypeOK
<1> QED
  BY <1>1, <1>2, ShapeInit, ShapeNext, KeptNext, PTL DEF Safety

\* Recorded damage and a requested flip always have somebody on the way to
\* take them, although the work item is armed outside the damage lock.
THEOREM ScheduledTheorem == Safety => []WorkScheduled
<1>1. Init => WorkScheduled
  BY DEF Init, WorkScheduled
<1>2. ShapeInv /\ WorkScheduled /\ [Next]_vars => WorkScheduled'
  <2> SUFFICES ASSUME ShapeInv, WorkScheduled, [Next]_vars PROVE WorkScheduled'
    OBVIOUS
  <2> USE DEF damage, flush, user, ghost
  <2>0. /\ pc \in [Ctx -> {"idle", "damage", "schedule", "take", "flush", "park"}]
        /\ "worker" \in Ctx /\ Drawer \subseteq Ctx /\ "worker" \notin Drawer
    BY DrawAssumption DEF ShapeInv, TypeOK, Ctx
  <2>1. ASSUME NEW d \in Drawer, Render(d) PROVE WorkScheduled'
    BY <2>0, <2>1 DEF Render, Draw, Write, WriteFault, WorkScheduled
  <2>2. ASSUME NEW d \in Drawer, DamageArea(d) PROVE WorkScheduled'
    BY <2>0, <2>2 DEF DamageArea, WorkScheduled
  <2>3. ASSUME NEW d \in Drawer, Schedule(d) PROVE WorkScheduled'
    BY <2>0, <2>3 DEF Schedule, WorkScheduled
  <2>4. ASSUME NEW c \in Ctx, FlushTake(c) PROVE WorkScheduled'
    BY <2>0, <2>4 DEF FlushTake, WorkScheduled
  <2>5. ASSUME NEW c \in Ctx, FlushLine(c) \/ FlushPark(c) PROVE WorkScheduled'
    BY <2>0, <2>5 DEF FlushLine, FlushPark, WorkScheduled
  <2>6. ASSUME WorkerStart PROVE WorkScheduled'
    BY <2>0, <2>6 DEF WorkerStart, WorkScheduled
  <2>7. ASSUME \/ \E f \in 0 .. Frames - 1 : PanDisplay(f)
               \/ SetPar \/ LockStep \/ OopsBegins \/ OopsEnds
        PROVE  WorkScheduled'
    BY <2>0, <2>7 DEF PanDisplay, SetPar, LockStep, PanKick, SwitchMode, Black,
       OopsBegins, OopsEnds, WorkScheduled
  <2>8. ASSUME \/ \E g \in Page : MmapFault(g)
               \/ \E p \in Pixel : MmapStore(p)
               \/ DeferredIo
        PROVE  WorkScheduled'
    BY <2>0, <2>8, Zenon DEF MmapFault, MmapStore, DeferredIo, DeferredIoStart,
       DeferredIoFlush, DeferredIoDone, WorkScheduled
  <2>9. ASSUME UNCHANGED vars PROVE WorkScheduled'
    BY <2>9 DEF vars, WorkScheduled
  <2> QED
    BY <2>0, <2>1, <2>2, <2>3, <2>4, <2>5, <2>6, <2>7, <2>8, <2>9
       DEF Next, DrawerStep, FlushRun, Worker
<1> QED
  BY <1>1, <1>2, ShapeInit, ShapeNext, PTL DEF Safety
-----------------------------------------------------------------------------
(***************************************************************************)
(* Flips.  What a pan is owed stays in the dirty rectangle, ahead of a run *)
(* of the flush function, or on a page fb_deferred_io has to flush; once a *)
(* run has taken the flip, the rectangle is no longer an excuse.           *)
(***************************************************************************)
Due(p) == Ahead(p) \/ p[2] \in Tracked
OwedInv ==
    \/ Switching
    \/ /\ park_req => \A p \in owed : Due(p) \/ (dirty /\ p \in Inside(rect))
       /\ \A c \in Ctx : pc[c] \in {"flush", "park"} => \A p \in snap[c].owed : Due(p)

\* What a pan is owed is never dropped: one case per action.
LEMMA OwedNext == ShapeInv /\ KeptInv /\ OwedInv /\ [Next]_vars => OwedInv'
<1> SUFFICES ASSUME ShapeInv, KeptInv, OwedInv, [Next]_vars PROVE OwedInv'
  OBVIOUS
<1> USE GeometryAssumption, VHType DEF damage, flush, user, ghost
<1>0. /\ TypeOK /\ RectInv /\ LineInv /\ QuietInv /\ PageInv
      /\ "worker" \in Ctx /\ Drawer \subseteq Ctx
  BY DrawAssumption DEF ShapeInv, Ctx
<1>1. ASSUME UNCHANGED <<park_req, owed, fbpc, halted, snap>>,
             \A c \in Ctx : pc[c] = "flush" <=> pc'[c] = "flush",
             \A c \in Ctx : pc'[c] = "park" => pc[c] = "park",
             Tracked \subseteq Tracked',
             dirty => dirty' /\ Inside(rect) \subseteq Inside(rect)'
      PROVE  OwedInv'
  <2>1. \A p : Ahead(p) => Ahead(p)'
    BY <1>1 DEF Ahead
  <2>2. \A p : Due(p) => Due(p)'
    BY <1>1, <2>1 DEF Due
  <2> QED
    BY <1>1, <2>2 DEF OwedInv, Switching
<1>2. ASSUME NEW d \in Drawer, Render(d) PROVE OwedInv'
  <2>1. /\ UNCHANGED <<damage, owed, fbpc, halted, snap, writable, pagelist, busy, defio>>
        /\ \/ pc' = pc
           \/ pc[d] = "idle" /\ pc' = [pc EXCEPT ![d] = "damage"]
    BY <1>2 DEF Render, Draw, Write, WriteFault
  <2> QED
    BY <1>0, <1>1, <2>1 DEF TypeOK, Tracked, Inside
<1>3. ASSUME NEW d \in Drawer, DamageArea(d) PROVE OwedInv'
  <2>1. UNCHANGED <<park_req, owed, fbpc, halted, snap, user>>
    BY <1>3 DEF DamageArea
  <2>2. \A c \in Ctx : (pc[c] = "flush" <=> pc'[c] = "flush") /\ (pc'[c] = "park" => pc[c] = "park")
    BY <1>0, <1>3 DEF DamageArea, TypeOK
  <2>3. dirty => dirty' /\ Inside(rect) \subseteq Inside(rect)'
    <3>1. area[d] \in Nat \X Nat \X Nat \X Nat /\ rect \in Rect
      BY <1>0 DEF TypeOK
    <3>2. CASE OffScreen(area[d])
      BY <1>3, <3>2 DEF DamageArea, Inside
    <3>3. CASE ~ OffScreen(area[d])
      <4>1. Clip(area[d]) \in Rect
        BY <3>1, <3>3, ClipCovers
      <4>2. Inside(rect) \subseteq Inside(Join(rect, Clip(area[d])))
        BY <3>1, <4>1, JoinCovers
      <4> QED
        BY <1>3, <3>3, <4>2 DEF DamageArea, Inside
    <3> QED
      BY <3>2, <3>3
  <2> QED
    BY <1>1, <2>1, <2>2, <2>3, Zenon DEF Tracked
<1>4. ASSUME NEW c \in Ctx, pc[c] \in {"idle", "schedule"},
             \E v \in {"idle", "take"} : pc' = [pc EXCEPT ![c] = v],
             UNCHANGED <<damage, owed, fbpc, halted, snap, user>>
      PROVE  OwedInv'
  <2>1. \A e \in Ctx : (pc[e] = "flush" <=> pc'[e] = "flush") /\ (pc'[e] = "park" => pc[e] = "park")
    BY <1>0, <1>4 DEF TypeOK
  <2> QED
    BY <1>1, <1>4, <2>1 DEF Tracked, Inside
<1>5. ASSUME NEW d \in Drawer, Schedule(d) PROVE OwedInv'
  BY <1>0, <1>4, <1>5 DEF Schedule
<1>6. ASSUME WorkerStart PROVE OwedInv'
  BY <1>0, <1>4, <1>6, Zenon DEF WorkerStart
<1>7. ASSUME NEW c \in Ctx, FlushTake(c) PROVE OwedInv'
  <2>1. /\ pc[c] = "take" /\ UNCHANGED <<fbpc, halted, owed, user>> /\ park_req' = FALSE
        /\ \A e \in Ctx \ {c} : snap'[e] = snap[e] /\ pc'[e] = pc[e]
    BY <1>0, <1>7 DEF FlushTake, TypeOK
  <2>2. /\ snap'[c].r = rect /\ snap'[c].y = rect.y0
        /\ snap'[c].owed = IF park_req THEN owed ELSE {}
    BY <1>0, <1>7 DEF FlushTake, TypeOK
  <2>3. pc'[c] = IF dirty THEN "flush" ELSE "park"
    BY <1>0, <1>7 DEF FlushTake, TypeOK
  <2>4. Tracked' = Tracked
    BY <2>1 DEF Tracked
  <2>5. \A p : Ahead(p) => Ahead(p)'
    BY <2>1 DEF Ahead
  <2>6. \A p \in Inside(rect) : dirty => Ahead(p)'
    BY <2>2, <2>3 DEF Inside, Ahead
  <2>7. SUFFICES ASSUME ~ Switching, NEW e \in Ctx, pc'[e] \in {"flush", "park"},
                        NEW p \in snap'[e].owed
                 PROVE  Due(p)'
    BY <2>1 DEF OwedInv, Switching
  <2>8. CASE e # c
    BY <2>1, <2>4, <2>5, <2>7, <2>8, Zenon DEF OwedInv, Due
  <2>9. CASE e = c
    BY <2>2, <2>4, <2>5, <2>6, <2>7, <2>9, Zenon DEF OwedInv, Due
  <2> QED
    BY <2>8, <2>9
<1>8. ASSUME NEW c \in Ctx, FlushLine(c) PROVE OwedInv'
  <2> DEFINE px == Inside([snap[c].r EXCEPT !.y0 = snap[c].y, !.y1 = snap[c].y])
  <2>1. snap[c] \in Snap /\ snap[c].y <= snap[c].r.y1 /\ snap[c].y + 1 \in 0 .. VH
        /\ snap[c].r \in Rect /\ snap[c].y \in 0 .. VH
    BY <1>0, <1>8 DEF FlushLine, TypeOK, LineInv, Snap, Rect
  <2>2. px = {p \in Pixel : snap[c].r.x0 <= p[1] /\ p[1] <= snap[c].r.x1 /\ p[2] = snap[c].y}
    BY <2>1, LinePixels, Zenon
  <2>3. /\ snap' = [Settle(snap, px) EXCEPT ![c].r = NextRect(c), ![c].y = NextLine(c)]
        /\ owed' = owed \ px /\ pc[c] = "flush"
        /\ pc' = [pc EXCEPT ![c] = IF snap[c].y = snap[c].r.y1 THEN "park" ELSE "flush"]
        /\ UNCHANGED <<damage, fbpc, halted, user>>
    BY <1>8 DEF FlushLine, Pushed, NextRect, NextLine
  <2> HIDE DEF px
  <2>4. /\ snap'[c].r = NextRect(c) /\ snap'[c].y = NextLine(c)
        /\ \A e \in Ctx : /\ e # c => snap'[e].r = snap[e].r /\ snap'[e].y = snap[e].y
                          /\ snap'[e].owed = snap[e].owed \ px
    <3>1. snap \in [Ctx -> Snap]
      BY <1>0 DEF TypeOK
    <3> QED
      BY <2>1, <2>3, <3>1, FlushLineSnap, Zenon
  <2>5. /\ pc'[c] = IF snap[c].y = snap[c].r.y1 THEN "park" ELSE "flush"
        /\ \A e \in Ctx \ {c} : pc'[e] = pc[e]
    BY <1>0, <2>3 DEF TypeOK
  <2>6. ASSUME NEW p, p \notin px, Ahead(p) PROVE Ahead(p)'
    <3>1. PICK e \in Ctx : /\ pc[e] = "flush" /\ p \in Pixel
                           /\ snap[e].r.x0 <= p[1] /\ p[1] <= snap[e].r.x1
                           /\ snap[e].y <= p[2] /\ p[2] <= snap[e].r.y1
      BY <2>6 DEF Ahead
    <3>2. CASE e # c
      <4>1. pc'[e] = "flush" /\ snap'[e].r = snap[e].r /\ snap'[e].y = snap[e].y
        BY <2>4, <2>5, <3>1, <3>2
      <4> QED
        BY <3>1, <4>1 DEF Ahead
    <3>3. CASE e = c
      <4>1. p[2] \in Int /\ p[2] # snap[c].y
        BY <2>2, <2>6, <3>1, <3>3 DEF Pixel
      <4>2. snap[c].y + 1 <= p[2] /\ snap[c].y # snap[c].r.y1
        <5>1. snap[c].y \in Int /\ snap[c].r.y1 \in Int
          BY <2>1 DEF Rect
        <5>2. snap[c].y <= p[2] /\ p[2] <= snap[c].r.y1
          BY <3>1, <3>3
        <5> QED
          BY <4>1, <5>1, <5>2
      <4>3. pc'[c] = "flush" /\ snap'[c].r = snap[c].r /\ snap'[c].y = snap[c].y + 1
        BY <2>4, <2>5, <4>2 DEF NextRect, NextLine
      <4> QED
        BY <3>1, <3>3, <4>2, <4>3 DEF Ahead
    <3> QED
      BY <3>2, <3>3
  <2>7. ASSUME NEW p, p \notin px, Due(p) PROVE Due(p)'
    BY <2>3, <2>6, <2>7 DEF Due, Tracked
  <2>8. SUFFICES ASSUME ~ Switching
                 PROVE  /\ park_req => \A p \in owed' : Due(p)' \/ (dirty /\ p \in Inside(rect))
                        /\ \A e \in Ctx : pc'[e] \in {"flush", "park"} =>
                              \A p \in snap'[e].owed : Due(p)'
    BY <2>3, Zenon DEF OwedInv, Switching, Inside
  <2>9. park_req => \A p \in owed' : Due(p)' \/ (dirty /\ p \in Inside(rect))
    BY <2>3, <2>7, <2>8 DEF OwedInv
  <2>10. ASSUME NEW e \in Ctx, pc'[e] \in {"flush", "park"}, NEW p \in snap'[e].owed
         PROVE  Due(p)'
    <3>1. pc[e] \in {"flush", "park"}
      BY <2>3, <2>5, <2>10
    <3>2. p \in snap[e].owed /\ p \notin px
      BY <2>4, <2>10
    <3> QED
      BY <2>7, <2>8, <3>1, <3>2 DEF OwedInv
  <2> QED
    BY <2>9, <2>10, Zenon
<1>9. ASSUME NEW c \in Ctx, FlushPark(c) PROVE OwedInv'
  <2>1. /\ pc[c] = "park" /\ pc'[c] = "idle"
        /\ UNCHANGED <<damage, owed, fbpc, halted, user>>
        /\ \A e \in Ctx \ {c} : pc'[e] = pc[e] /\ snap'[e] = snap[e]
    BY <1>0, <1>9 DEF FlushPark, TypeOK
  <2>2. \A p : Due(p) => Due(p)'
    BY <2>1 DEF Due, Ahead, Tracked
  <2> QED
    BY <2>1, <2>2 DEF OwedInv, Switching, Inside
<1>10. ASSUME NEW f \in 0 .. Frames - 1, PanDisplay(f) PROVE OwedInv'
  <2>1. \A p \in owed' : p \in pend /\ p \notin Drawing /\ p \notin torn
    BY <1>10 DEF PanDisplay
  <2>2. \A p : Drawn(p) <=> p \in Drawing
    BY DEF Drawn, Drawing
  <2>3. ~ Switching => \A p \in owed' : Due(p) \/ (dirty /\ p \in Inside(rect))
    BY <2>1, <2>2 DEF KeptInv, Kept, Due
  <2>4. UNCHANGED <<dirty, rect, flush, user, halted>> /\ fbpc' = "kick" /\ fbpc = "free"
    BY <1>10 DEF PanDisplay
  <2>5. \A p : Due(p) => Due(p)'
    BY <2>4 DEF Due, Ahead, Tracked
  <2> QED
    BY <2>3, <2>4, <2>5, Zenon DEF OwedInv, Switching, Inside
<1>11. ASSUME UNCHANGED <<damage, owed, halted, snap, pc>>, Tracked \subseteq Tracked',
              Switching => Switching'
       PROVE  OwedInv'
  <2>1. \A p : Due(p) => Due(p)'
    BY <1>11 DEF Due, Ahead
  <2> QED
    BY <1>11, <2>1, ZenonT(30) DEF OwedInv, Inside
<1>12. ASSUME PanKick \/ OopsBegins \/ OopsEnds PROVE OwedInv'
  BY <1>11, <1>12 DEF PanKick, OopsBegins, OopsEnds, Switching, Tracked
<1>13. ASSUME SetPar \/ (\E ok \in BOOLEAN : SwitchMode(ok)) PROVE OwedInv'
  BY <1>13, Zenon DEF SetPar, SwitchMode, OwedInv, Switching
<1>14. ASSUME Black PROVE OwedInv'
  <2>1. ~ park_req' /\ \A c \in Ctx : pc'[c] = "idle"
    BY <1>0, <1>14 DEF Black, QuietInv
  <2> QED
    BY <2>1 DEF OwedInv
<1>15. ASSUME NEW g \in Page, MmapFault(g) PROVE OwedInv'
  BY <1>11, <1>15 DEF MmapFault, Tracked, Switching
<1>16. ASSUME NEW p \in Pixel, MmapStore(p) PROVE OwedInv'
  BY <1>11, <1>16 DEF MmapStore, Tracked, Switching
<1>17. ASSUME DeferredIoStart \/ DeferredIoDone PROVE OwedInv'
  <2>1. Tracked \subseteq Tracked'
    BY <1>17 DEF DeferredIoStart, DeferredIoDone, Tracked
  <2> QED
    BY <1>11, <1>17, <2>1 DEF DeferredIoStart, DeferredIoDone, Switching
<1>18. ASSUME DeferredIoFlush PROVE OwedInv'
  <2> DEFINE px == UNION {Line(y) : y \in FirstRun(defio)}
  <2>1. /\ owed' = owed \ px /\ snap' = Settle(snap, px) /\ busy /\ busy'
        /\ defio' = defio \ FirstRun(defio)
        /\ UNCHANGED <<damage, pc, fbpc, halted>>
    BY <1>18 DEF DeferredIoFlush, Pushed
  <2>2. \A p \in Pixel : p \notin px => p[2] \notin FirstRun(defio)
    BY DEF Line
  <2> HIDE DEF px
  <2>3. \A c \in Ctx : /\ snap'[c].r = snap[c].r /\ snap'[c].y = snap[c].y
                       /\ snap'[c].owed = snap[c].owed \ px /\ snap[c].owed \subseteq Pixel
    <3>1. snap \in [Ctx -> Snap]
      BY <1>0 DEF TypeOK
    <3>2. \A c \in Ctx : snap[c].owed \subseteq Pixel
      BY <3>1 DEF Snap
    <3>3. \A c \in Ctx : /\ Settle(snap, px)[c].r = snap[c].r
                         /\ Settle(snap, px)[c].y = snap[c].y
                         /\ Settle(snap, px)[c].owed = snap[c].owed \ px
      BY <3>1, SettleLemma
    <3>4. snap' = Settle(snap, px)
      BY <2>1
    <3> QED
      BY <3>2, <3>3, <3>4
  <2>4. ASSUME NEW p \in Pixel, p \notin px, Due(p) PROVE Due(p)'
    <3>1. Ahead(p) => Ahead(p)'
      BY <2>1, <2>3, ZenonT(30) DEF Ahead
    <3>2. p[2] \in Tracked => p[2] \in Tracked'
      BY <2>1, <2>2, <2>4, Zenon DEF Tracked
    <3> QED
      BY <2>4, <3>1, <3>2 DEF Due
  <2>5. owed \subseteq Pixel
    BY <1>0 DEF TypeOK
  <2>6. SUFFICES ASSUME ~ Switching
                 PROVE  /\ park_req => \A p \in owed' : Due(p)' \/ (dirty /\ p \in Inside(rect))
                        /\ \A e \in Ctx : pc[e] \in {"flush", "park"} =>
                              \A p \in snap'[e].owed : Due(p)'
    BY <2>1, ZenonT(30) DEF OwedInv, Switching, Inside
  <2>7. park_req => \A p \in owed' : Due(p)' \/ (dirty /\ p \in Inside(rect))
    BY <2>1, <2>4, <2>5, <2>6, ZenonT(30) DEF OwedInv
  <2>8. ASSUME NEW e \in Ctx, pc[e] \in {"flush", "park"}, NEW p \in snap'[e].owed
        PROVE  Due(p)'
    BY <2>3, <2>4, <2>6, <2>8 DEF OwedInv
  <2> QED
    BY <2>7, <2>8
<1>19. ASSUME UNCHANGED vars PROVE OwedInv'
  BY <1>11, <1>19 DEF vars, Tracked, Switching
<1> QED
  BY <1>0, <1>2, <1>3, <1>5, <1>6, <1>7, <1>8, <1>9, <1>10, <1>12, <1>13, <1>14, <1>15,
     <1>16, <1>17, <1>18, <1>19
     DEF Next, DrawerStep, Worker, FlushRun, LockStep, DeferredIo

\* "Damage first, park second" (fb.c:140), for every geometry and any number
\* of drawers, faults and oopses: the scanout moves to a frame only when what
\* the caller had finished rendering there is in DRAM, on a page that
\* fb_deferred_io has to flush, or under an inline flush of an oops.
THEOREM FlipTheorem == Safety => []FlipIsFresh
<1>1. Init => KeptInv /\ OwedInv
  <2>1. Init => \A c \in Ctx : pc[c] = "idle"
    BY DEF Init
  <2>2. Init => KeptInv
    BY DEF Init, KeptInv
  <2>3. Init => OwedInv
    BY <2>1, ZenonT(30) DEF Init, OwedInv
  <2> QED
    BY <2>2, <2>3
<1>2. ShapeInv /\ OwedInv => FlipIsFresh
  <2> SUFFICES ASSUME ShapeInv, OwedInv PROVE FlipIsFresh
    OBVIOUS
  <2>1. snap \in [Ctx -> Snap]
    BY DEF ShapeInv, TypeOK
  <2>2. \A p : Ahead(p) => p \in InFlight
    BY <2>1, AheadMeaning
  <2> QED
    BY <2>2, Zenon DEF OwedInv, FlipIsFresh, Due
<1> QED
  BY <1>1, <1>2, ShapeInit, ShapeNext, KeptNext, OwedNext, PTL DEF Safety
=============================================================================
