--------------------------------- MODULE Fb ---------------------------------
(***************************************************************************)
(* The framebuffer device of the DisplayPort driver (dp/fb.c).  Rendering  *)
(* lands in the CPU caches, the scanout fetches from DRAM, and what moves  *)
(* pixels from one to the other is the driver: drawing operations record a *)
(* dirty rectangle, a delayed work item flushes it, fb_deferred_io flushes *)
(* the pages an mmap user touched, and a pan moves the scanout to another  *)
(* frame once the damage is out.  The drawers, the flush worker, the user  *)
(* of a mapping and the holder of the fbdev lock (pan, mode switch) take   *)
(* their steps in any order.                                               *)
(***************************************************************************)
EXTENDS Integers, FiniteSets

CONSTANTS
    W, H,      \* fbs.width and fbs.height
    Frames,    \* fbs.frames: 2 when the carve-out holds a second frame
    Drawer,    \* contexts that draw: the console, callers of write()
    Areas,     \* the areas <<x, y, w, h>> the console's operations are given
    Lengths,   \* the lengths write() is given, in pixels
    Watched,   \* the pixels PixelShown follows
    Trouble    \* bound: page faults of a mapping, oopses and faulting writes

ASSUME GeometryAssumption ==
    W \in Nat \ {0} /\ H \in Nat \ {0} /\ Frames \in {1, 2}
ASSUME DrawAssumption ==
    "worker" \notin Drawer /\ Areas \subseteq Nat \X Nat \X Nat \X Nat
    /\ Lengths \subseteq Nat \ {0}
ASSUME TroubleAssumption == Trouble \in Nat

VARIABLES
    pend,        \* the pixels whose newest content is in the caches only
    dirty, rect, \* fbs.dirty and fbs.x0 .. fbs.y1
    park_req, park_frame,
    armed,       \* flush_work is queued or its timer runs
    oops,        \* oops_in_progress
    pc,          \* where each flushing context is
    area,        \* the rectangle a drawer has drawn and not yet recorded
    snap,        \* what a run of the flush function took under the lock
    scan,        \* the VDMA's park pointer
    fbpc,        \* the holder of the fbdev lock
    halted,      \* a mode switch failed: nothing is scanned out
    writable,    \* pages a user mapping may store to without a fault
    pagelist,    \* fb_deferred_io's list of touched pages
    busy, defio, \* fb_deferred_io's lock is held; pages its run has left to flush
    trouble,     \* what has happened of Trouble
    owed, want,  \* what the last pan promised: its pixels, its frame
    torn         \* pixels a failed write() left behind

damage == <<dirty, rect, park_req, park_frame>>
flush == <<pc, area, snap>>
user == <<writable, pagelist, busy, defio, trouble>>
ghost == <<owed, want, torn>>
vars == <<pend, damage, armed, oops, flush, scan, fbpc, halted, user, ghost>>

Ctx == Drawer \union {"worker"}
VH == H * Frames
Pixel == (0 .. W - 1) \X (0 .. VH - 1)
Page == 0 .. VH - 1       \* a page holds one line of pixels here
Line(y) == {p \in Pixel : p[2] = y}
Frame(f) == {p \in Pixel : p[2] \div H = f}
Rect == [x0 : 0 .. W - 1, y0 : 0 .. VH - 1, x1 : 0 .. W - 1, y1 : 0 .. VH - 1]
Inside(r) == {p \in Pixel : /\ r.x0 <= p[1] /\ p[1] <= r.x1
                            /\ r.y0 <= p[2] /\ p[2] <= r.y1}
NoRect == [x0 |-> 0, y0 |-> 0, x1 |-> 0, y1 |-> 0]
Snap == [r : Rect, y : 0 .. VH, park : BOOLEAN,
         frame : 0 .. Frames - 1, owed : SUBSET Pixel]
NoSnap == [r |-> NoRect, y |-> 0, park |-> FALSE, frame |-> 0, owed |-> {}]
NoArea == <<0, 0, 0, 0>>
Troubled == trouble < Trouble /\ trouble' = trouble + 1

Least(a, b) == IF a <= b THEN a ELSE b
Greatest(a, b) == IF a <= b THEN b ELSE a

TypeOK ==
    /\ pend \subseteq Pixel /\ dirty \in BOOLEAN /\ rect \in Rect
    /\ park_req \in BOOLEAN /\ park_frame \in 0 .. Frames - 1
    /\ armed \in BOOLEAN /\ oops \in BOOLEAN
    /\ pc \in [Ctx -> {"idle", "damage", "schedule", "take", "flush", "park"}]
    /\ area \in [Drawer -> Nat \X Nat \X Nat \X Nat]
    /\ snap \in [Ctx -> Snap]
    /\ scan \in 0 .. Frames - 1 /\ fbpc \in {"free", "kick", "switch", "black"}
    /\ halted \in BOOLEAN
    /\ writable \subseteq Page /\ pagelist \subseteq Page
    /\ busy \in BOOLEAN /\ defio \subseteq Page /\ trouble \in 0 .. Trouble
    /\ owed \subseteq Pixel /\ want \in 0 .. Frames - 1 /\ torn \subseteq Pixel

\* soct_dp_fb_prepare: clear, push it out, start on frame 0.
Init ==
    /\ pend = {} /\ dirty = FALSE /\ rect = NoRect
    /\ park_req = FALSE /\ park_frame = 0 /\ armed = FALSE /\ oops = FALSE
    /\ pc = [c \in Ctx |-> "idle"] /\ area = [d \in Drawer |-> NoArea]
    /\ snap = [c \in Ctx |-> NoSnap]
    /\ scan = 0 /\ fbpc = "free" /\ halted = FALSE
    /\ writable = {} /\ pagelist = {} /\ busy = FALSE /\ defio = {}
    /\ trouble = 0
    /\ owed = {} /\ want = 0 /\ torn = {}
-----------------------------------------------------------------------------
(***************************************************************************)
(* Drawing.                                                                *)
(***************************************************************************)
AreaPixels(a) == {p \in Pixel : /\ a[1] <= p[1] /\ p[1] < a[1] + a[3]
                                /\ a[2] <= p[2] /\ p[2] < a[2] + a[4]}
Index(p) == p[2] * W + p[1]
Span(off, len) == {p \in Pixel : off <= Index(p) /\ Index(p) < off + len}

\* The fbdev core's locks keep drawing out of a mode switch (fb.c:535).
MayDraw == fbpc \notin {"switch", "black"}

\* fillrect, copyarea, imageblit: draw, then record the area.
Draw(d, a) ==
    /\ pc[d] = "idle" /\ MayDraw
    /\ pend' = pend \union AreaPixels(a)
    /\ torn' = torn \ AreaPixels(a)
    /\ area' = [area EXCEPT ![d] = a]
    /\ pc' = [pc EXCEPT ![d] = "damage"]
    /\ UNCHANGED <<damage, armed, oops, snap, scan, fbpc, halted, user, owed, want>>

\* Mutant: the last line a write touches is left out.
DamageRangeShort(off, len) ==
    <<0, off \div W, W, (off + len - 1) \div W - off \div W>>

\* damage_range: the lines a linear write touches, full width.
DamageRange(off, len) ==
    LET y0 == off \div W
        y1 == (off + len - 1) \div W
    IN  <<0, y0, W, y1 - y0 + 1>>

\* write() is cut at the end of the framebuffer.
Count(off, len) == Least(len, W * VH - off)

Write(d, off, len) ==
    /\ pc[d] = "idle" /\ MayDraw
    /\ pend' = pend \union Span(off, len)
    /\ torn' = torn \ Span(off, len)
    /\ area' = [area EXCEPT ![d] = DamageRange(off, len)]
    /\ pc' = [pc EXCEPT ![d] = "damage"]
    /\ UNCHANGED <<damage, armed, oops, snap, scan, fbpc, halted, user, owed, want>>

\* copy_from_user fails after some of the bytes: -EFAULT, no damage recorded.
WriteFault(d, off, len) ==
    /\ pc[d] = "idle" /\ MayDraw /\ Troubled
    /\ pend' = pend \union Span(off, len)
    /\ torn' = torn \union Span(off, len)
    /\ UNCHANGED <<damage, armed, oops, flush, scan, fbpc, halted, owed, want,
                   writable, pagelist, busy, defio>>

\* damage_area up to the unlock: clip, then open or widen the rectangle.
OffScreen(a) == a[3] = 0 \/ a[4] = 0 \/ a[1] >= W \/ a[2] >= VH
Clip(a) == [x0 |-> a[1], y0 |-> a[2], x1 |-> Least(a[1] + a[3] - 1, W - 1),
            y1 |-> Least(a[2] + a[4] - 1, VH - 1)]
Join(r, s) == [x0 |-> Least(r.x0, s.x0), y0 |-> Least(r.y0, s.y0),
               x1 |-> Greatest(r.x1, s.x1), y1 |-> Greatest(r.y1, s.y1)]

\* Mutant: a rectangle that is already dirty is not widened.
DamageAreaFirstOnly(d) ==
    /\ pc[d] = "damage"
    /\ area' = [area EXCEPT ![d] = NoArea]
    /\ dirty' = TRUE
    /\ rect' = IF dirty THEN rect ELSE Clip(area[d])
    /\ pc' = [pc EXCEPT ![d] = "schedule"]
    /\ UNCHANGED <<pend, park_req, park_frame, armed, oops, snap, scan, fbpc, halted,
                   user, ghost>>

DamageArea(d) ==
    /\ pc[d] = "damage"
    /\ area' = [area EXCEPT ![d] = NoArea]
    /\ IF OffScreen(area[d])
         THEN /\ pc' = [pc EXCEPT ![d] = "idle"]
              /\ UNCHANGED damage
         ELSE /\ dirty' = TRUE
              /\ rect' = IF dirty THEN Join(rect, Clip(area[d])) ELSE Clip(area[d])
              /\ pc' = [pc EXCEPT ![d] = "schedule"]
              /\ UNCHANGED <<park_req, park_frame>>
    /\ UNCHANGED <<pend, armed, oops, snap, scan, fbpc, halted, user, ghost>>

\* Mutant: a worker that is already running is trusted to see the new damage.
ScheduleIfIdle(d) ==
    /\ pc[d] = "schedule"
    /\ pc' = [pc EXCEPT ![d] = "idle"] /\ armed' = (armed \/ pc["worker"] = "idle")
    /\ UNCHANGED <<pend, damage, oops, area, snap, scan, fbpc, halted, user, ghost>>

\* damage_area after the unlock: flush inline in an oops, else defer.
Schedule(d) ==
    /\ pc[d] = "schedule"
    /\ IF oops THEN pc' = [pc EXCEPT ![d] = "take"] /\ UNCHANGED armed
               ELSE pc' = [pc EXCEPT ![d] = "idle"] /\ armed' = TRUE
    /\ UNCHANGED <<pend, damage, oops, area, snap, scan, fbpc, halted, user, ghost>>

OopsBegins ==
    /\ ~ oops /\ oops' = TRUE /\ Troubled
    /\ UNCHANGED <<pend, damage, armed, flush, scan, fbpc, halted, ghost,
                   writable, pagelist, busy, defio>>

OopsEnds ==
    /\ oops /\ oops' = FALSE
    /\ UNCHANGED <<pend, damage, armed, flush, scan, fbpc, halted, user, ghost>>
-----------------------------------------------------------------------------
(***************************************************************************)
(* soct_dp_fb_flush_work, run by the worker and inline by a drawer.        *)
(***************************************************************************)

\* The workqueue starts the item: not pending any more, one run at a time.
WorkerStart ==
    /\ armed /\ pc["worker"] = "idle"
    /\ armed' = FALSE
    /\ pc' = [pc EXCEPT !["worker"] = "take"]
    /\ UNCHANGED <<pend, damage, oops, area, snap, scan, fbpc, halted, user, ghost>>

\* Mutant: a requested flip is applied before the damage is flushed.
FlushTakeParkFirst(c) ==
    /\ pc[c] = "take"
    /\ snap' = [snap EXCEPT ![c] = [r |-> rect, y |-> rect.y0,
                                    park |-> park_req, frame |-> park_frame,
                                    owed |-> IF park_req THEN owed ELSE {}]]
    /\ park_req' = FALSE /\ park_frame' = 0
    /\ IF park_req THEN pc' = [pc EXCEPT ![c] = "park"] /\ UNCHANGED <<dirty, rect>>
                   ELSE /\ pc' = [pc EXCEPT ![c] = IF dirty THEN "flush" ELSE "park"]
                        /\ dirty' = FALSE /\ rect' = NoRect
    /\ UNCHANGED <<pend, armed, oops, area, scan, fbpc, halted, user, ghost>>

\* Take the rectangle and the flip under the lock.  rect and park_frame are
\* dead until dirty and park_req are set again; the model clears them.
FlushTake(c) ==
    /\ pc[c] = "take"
    /\ snap' = [snap EXCEPT ![c] = [r |-> rect, y |-> rect.y0,
                                    park |-> park_req, frame |-> park_frame,
                                    owed |-> IF park_req THEN owed ELSE {}]]
    /\ dirty' = FALSE /\ rect' = NoRect /\ park_req' = FALSE /\ park_frame' = 0
    /\ pc' = [pc EXCEPT ![c] = IF dirty THEN "flush" ELSE "park"]
    /\ UNCHANGED <<pend, armed, oops, area, scan, fbpc, halted, user, ghost>>

\* Pixels reach DRAM: no context owes them any longer.
Pushed(px) ==
    /\ pend' = pend \ px /\ torn' = torn \ px /\ owed' = owed \ px

Settle(s, px) == [c \in Ctx |-> [s[c] EXCEPT !.owed = @ \ px]]

\* flush_range of line y of the rectangle.  After the last line the rectangle
\* and the line are dead; the model clears them.
FlushLine(c) ==
    LET s == snap[c]
        last == s.y = s.r.y1
        px == Inside([s.r EXCEPT !.y0 = s.y, !.y1 = s.y])
    IN  /\ pc[c] = "flush"
        /\ Pushed(px)
        /\ snap' = [Settle(snap, px) EXCEPT ![c].r = IF last THEN NoRect ELSE s.r,
                                           ![c].y = IF last THEN 0 ELSE s.y + 1]
        /\ pc' = [pc EXCEPT ![c] = IF last THEN "park" ELSE "flush"]
        /\ UNCHANGED <<damage, armed, oops, area, scan, fbpc, halted, user, want>>

\* soct_dp_set_scanout_frame, when a pan was taken.
FlushPark(c) ==
    /\ pc[c] = "park"
    /\ scan' = IF snap[c].park THEN snap[c].frame ELSE scan
    /\ snap' = [snap EXCEPT ![c] = NoSnap]
    /\ pc' = [pc EXCEPT ![c] = "idle"]
    /\ UNCHANGED <<pend, damage, armed, oops, area, fbpc, halted, user, ghost>>
-----------------------------------------------------------------------------
(***************************************************************************)
(* The holder of the fbdev lock: a pan, or a mode switch.                  *)
(***************************************************************************)
Drawing == UNION {AreaPixels(area[d]) : d \in {e \in Drawer : pc[e] = "damage"}}

\* Mutant: a pan that finds another one waiting leaves its frame in place.
PanDisplayFirstWins(f) ==
    /\ fbpc = "free"
    /\ park_frame' = IF park_req THEN park_frame ELSE f
    /\ park_req' = TRUE
    /\ fbpc' = "kick"
    /\ want' = f
    /\ owed' = (pend \intersect Frame(f)) \ (Drawing \union torn)
    /\ UNCHANGED <<pend, dirty, rect, armed, oops, flush, scan, halted, user, torn>>

PanDisplay(f) ==
    /\ fbpc = "free"
    /\ park_frame' = f /\ park_req' = TRUE
    /\ fbpc' = "kick"
    /\ want' = f
    /\ owed' = (pend \intersect Frame(f)) \ (Drawing \union torn)
    /\ UNCHANGED <<pend, dirty, rect, armed, oops, flush, scan, halted, user, torn>>

\* mod_delayed_work(..., 0)
PanKick ==
    /\ fbpc = "kick"
    /\ armed' = TRUE /\ fbpc' = "free"
    /\ UNCHANGED <<pend, damage, oops, flush, scan, halted, user, ghost>>

\* set_par for another mode: cancel_delayed_work_sync, forget the damage.
SetPar ==
    /\ fbpc = "free" /\ \A c \in Ctx : pc[c] = "idle"
    /\ armed' = FALSE /\ dirty' = FALSE /\ rect' = NoRect
    /\ park_req' = FALSE /\ park_frame' = 0
    /\ fbpc' = "switch"
    /\ owed' = {} /\ want' = 0
    /\ UNCHANGED <<pend, oops, flush, scan, halted, user, torn>>

\* soct_dp_switch_mode succeeds (the VDMA restarts on frame 0) or fails.
SwitchMode(ok) ==
    /\ fbpc = "switch"
    /\ scan' = IF ok THEN 0 ELSE scan
    /\ halted' = ~ ok
    /\ fbpc' = IF ok THEN "black" ELSE "free"
    /\ UNCHANGED <<pend, damage, armed, oops, flush, user, ghost>>

\* Present black: memset of all frames, flush_range over them.
Black ==
    /\ fbpc = "black"
    /\ fbpc' = "free"
    /\ Pushed(Pixel) /\ snap' = Settle(snap, Pixel)
    /\ UNCHANGED <<damage, armed, oops, pc, area, scan, halted, user, want>>
-----------------------------------------------------------------------------
(***************************************************************************)
(* mmap through fb_deferred_io (external).  A store to a protected page    *)
(* faults; the fault waits for a running callback, adds the page to the    *)
(* list and opens it.  The worker protects the listed pages and has the    *)
(* driver flush them.                                                      *)
(***************************************************************************)
MmapFault(g) ==
    /\ g \notin writable /\ ~ busy /\ Troubled
    /\ writable' = writable \union {g}
    /\ pagelist' = pagelist \union {g}
    /\ UNCHANGED <<pend, damage, armed, oops, flush, scan, fbpc, halted, busy, defio, ghost>>

MmapStore(p) ==
    /\ p[2] \in writable
    /\ pend' = pend \union {p} /\ torn' = torn \ {p}
    /\ UNCHANGED <<damage, armed, oops, flush, scan, fbpc, halted, user, owed, want>>

DeferredIoStart ==
    /\ ~ busy /\ pagelist # {}
    /\ busy' = TRUE /\ defio' = pagelist
    /\ writable' = writable \ pagelist
    /\ UNCHANGED <<pend, damage, armed, oops, flush, scan, fbpc, halted, pagelist, trouble,
                   ghost>>

\* soct_dp_fb_deferred_io: the first run of adjacent pages in one flush_range.
FirstRun(g) ==
    LET lo == CHOOSE a \in g : \A b \in g : a <= b
    IN  {a \in g : lo .. a \subseteq g}

DeferredIoFlush ==
    /\ busy /\ defio # {}
    /\ LET px == UNION {Line(y) : y \in FirstRun(defio)}
       IN  Pushed(px) /\ snap' = Settle(snap, px)
    /\ defio' = defio \ FirstRun(defio)
    /\ UNCHANGED <<damage, armed, oops, pc, area, scan, fbpc, halted, writable,
                   pagelist, busy, trouble, want>>

DeferredIoDone ==
    /\ busy /\ defio = {}
    /\ busy' = FALSE /\ pagelist' = {}
    /\ UNCHANGED <<pend, damage, armed, oops, flush, scan, fbpc, halted, writable, defio,
                   trouble, ghost>>
-----------------------------------------------------------------------------
Render(d) ==
    \/ \E a \in Areas : Draw(d, a)
    \/ \E off \in 0 .. W * VH - 1, len \in Lengths :
          \/ Write(d, off, Count(off, len))
          \/ WriteFault(d, off, Count(off, len))

FlushRun(c) == FlushTake(c) \/ FlushLine(c) \/ FlushPark(c)
Worker == WorkerStart \/ FlushRun("worker")
DrawerStep(d) == DamageArea(d) \/ Schedule(d) \/ FlushRun(d)
LockStep == PanKick \/ (\E ok \in BOOLEAN : SwitchMode(ok)) \/ Black
DeferredIo == DeferredIoStart \/ DeferredIoFlush \/ DeferredIoDone

Next ==
    \/ \E d \in Drawer : Render(d) \/ DrawerStep(d)
    \/ Worker
    \/ (\E f \in 0 .. Frames - 1 : PanDisplay(f)) \/ SetPar \/ LockStep
    \/ (\E g \in Page : MmapFault(g)) \/ (\E p \in Pixel : MmapStore(p))
    \/ DeferredIo
    \/ OopsBegins \/ OopsEnds

Safety == Init /\ [][Next]_vars

Fairness ==
    /\ WF_vars(Worker) /\ WF_vars(LockStep) /\ WF_vars(DeferredIo)
    /\ \A d \in Drawer : WF_vars(DrawerStep(d))

Spec == Safety /\ Fairness
-----------------------------------------------------------------------------
(***************************************************************************)
(* Properties.                                                             *)
(***************************************************************************)
Switching == halted \/ fbpc \in {"switch", "black"}
InFlight == UNION {Inside([snap[c].r EXCEPT !.y0 = snap[c].y]) :
                     c \in {e \in Ctx : pc[e] = "flush"}}
Tracked == IF busy THEN defio ELSE pagelist

\* Nothing rendered is forgotten.  While the display runs, a pixel that DRAM
\* does not have yet is in the dirty rectangle, ahead of a flush in progress,
\* about to be recorded by its drawer, or on a page fb_deferred_io will flush;
\* the only exception is what a failed write() left behind.
NothingForgotten ==
    \/ Switching
    \/ \A p \in pend : \/ p \in torn \/ p \in Drawing \/ p \in InFlight
                       \/ dirty /\ p \in Inside(rect)
                       \/ p[2] \in Tracked

\* Recorded damage and a requested flip always have somebody on the way to
\* take them: the work item is armed, or a context is about to arm or to run
\* it.  (The timer is armed outside the lock that records the damage.)
WorkScheduled ==
    dirty \/ park_req => \/ armed \/ fbpc = "kick" \/ pc["worker"] = "take"
                         \/ \E d \in Drawer : pc[d] \in {"schedule", "take"}

\* "Damage first, park second" (fb.c:140): when the scanout is moved for a
\* pan, every pixel of that frame whose rendering had finished when the pan
\* was called has been flushed to DRAM, but for pages fb_deferred_io has yet
\* to flush and what the inline flush of an oops is flushing at that moment.
\* (After a failed mode switch nothing is scanned out, and the next switch
\* repaints every frame.)
FlipIsFresh ==
    Switching \/ \A c \in Ctx : pc[c] = "park" /\ snap[c].park =>
                    \A p \in snap[c].owed : p[2] \in Tracked \/ p \in InFlight

\* A pixel a drawing operation, a successful write() or a mapped store renders
\* reaches DRAM, unless a mode switch fails first.  ("Waiting leads to not
\* waiting", in the equivalent form: a pixel is always eventually not waiting.)
PixelShown ==
    \A p \in Watched : []<>(p \notin pend \ torn \/ Switching)

\* The last pan wins: when the frame asked for stays the same, the scanout
\* ends up and stays on it.  (In an oops two runs of the flush function may
\* move it in either order.)
LastPanShown ==
    [](~ oops) => \A f \in 0 .. Frames - 1 : <>[](want = f /\ ~ Switching) => <>[](scan = f)
=============================================================================
