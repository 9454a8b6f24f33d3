--------------------------------- MODULE Dp ---------------------------------
(***************************************************************************)
(* The display pipeline of the DisplayPort driver (dp-main.c), the mode    *)
(* setting of its framebuffer device (fb.c) and the user-space tool that   *)
(* switches modes (fbmode).  The driver remembers the mode it scans out in *)
(* two places, s.cur and fbs.mode; the pixel clock, the VDMA, the timing   *)
(* generator and the DisplayPort stream each have their own idea of it,    *)
(* and every step of bringing them in line can fail.                       *)
(***************************************************************************)
EXTENDS ClkWzrd

CONSTANTS
    Geo,          \* timings: active area, porches, polarities, refresh
    NoGeo,        \* the timing of a zeroed mode
    Size,         \* bytes of one frame of a geometry
    Clock,        \* the pixel clocks that occur
    Lim,          \* the limits of the MMCM, from the device tree
    Unit,         \* a second, in the unit the framebuffer interface counts in
    Boot,         \* the synthesized mode of the vtc node
    Inherited,    \* clocks the MMCM may tick at when the module is loaded
    Asked,        \* modes the user asks fbmode for
    Designs,      \* what the device tree says of the design, see Design
    MaxFails      \* how often the hardware refuses a step

\* incoherent: the fetch bypasses the caches and this driver's fbdev serves the
\* console, else simplefb does; budget: the pixel clock is retunable; mmap: the
\* carve-out has struct pages; carveout: its size.
Design == [incoherent : BOOLEAN, budget : BOOLEAN, mmap : BOOLEAN, carveout : Nat]
Mode == [geo : Geo, clk : Clock]
Zero == [geo |-> NoGeo, clk |-> 0]
MaxHz == Boot.clk

\* DIV_ROUND_CLOSEST_ULL: between a clock and the dot period of the var.
RoundDiv(a, b) == (a + b \div 2) \div b
Period(c) == RoundDiv(Unit, c)
ClockOf(p) == RoundDiv(Unit, p)

\* soct_clk_wzrd_solve: the achieved clock, 0 for -EDOM.
Ach == [c \in Clock |-> SolveHz(Lim, c)]

\* What soct_dp_validate_mode solves for: a clock a little over the ceiling is
\* taken as the ceiling.
Capped(c) == IF c > MaxHz THEN MaxHz ELSE c

ASSUME GeoAssumption ==
    /\ NoGeo \notin Geo /\ Size \in [Geo -> Nat \ {0}]
    /\ Boot \in Mode /\ Asked \subseteq Mode /\ Inherited \subseteq Clock
    /\ Designs \subseteq Design /\ MaxFails \in Nat
ASSUME ClockAssumption ==
    /\ Clock \subseteq Nat \ {0} /\ Unit \in Nat
    /\ \A c \in Clock :
         Period(c) > 0 /\ ClockOf(Period(c)) \in Clock /\ Ach[c] \in Clock \union {0}
\* The input clock has more units of frequency than the dividers have steps.
ASSUME LimAssumption == Lim \in Limits /\ Lim.div * Lim.o8 <= Lim.input
\* "Solving for an achieved value lands on its own setting exactly"
\* (dp-main.c:411).  SettlesTheorem of ArithProofs derives this from
\* LimAssumption, so that DpProofs can do without the solver's arithmetic.
ASSUME SettlesAssumption == \A c \in Clock : Ach[c] # 0 => Ach[Ach[c]] = Ach[c]
\* The clocks asked for are well inside the MMCM's range; BoardReaches of
\* ArithProofs says which those are on the boards.
ASSUME ReachAssumption ==
    \A m \in Asked : Reachable(Lim, Capped(ClockOf(Period(m.clk))))

VARIABLES
    design,     \* the design the module is loaded on
    drv,        \* soct_dp_work: the step it is at
    retunable,  \* s.retunable
    cur,        \* s.cur, Zero when forgotten
    fb,         \* fbs.mode, and the geometry and frames in use
    defio,      \* fbs.defio_size
    info,       \* info->var
    lock,       \* the holder of the fbdev locks: the step of its switch_mode
    job,        \* its mode, the var to restore, and for whom
    mmcm,       \* the pixel clock: what is loaded, whether it is locked, and
                \* whether the boot retune failed and none worked since
    vdma,       \* running or not; the geometry and the stores it was given
    vtc, msa,   \* the modes of the timing generator and the DP stream
    tool,       \* fbmode: the step it is at
    want, old,  \* its mode and the var it would go back to
    fails       \* refusals of the hardware so far

soft == <<design, drv, retunable>>
core == <<fb, defio, info>>
pipe == <<vdma, vtc, msa>>
user == <<tool, want, old>>
vars == <<soft, cur, core, lock, job, mmcm, pipe, user, fails>>

\* fb_nframes, and the same arithmetic in vdma_start.
Frames(g) == IF 2 * Size[g] <= design.carveout THEN 2 ELSE 1

\* soct_dp_fb_fill_var, soct_dp_fb_var_to_mode, fbmode's mode_to_var.  The
\* refresh follows from the timing and the clock and is part of the geometry.
FillVar(m) == [geo |-> m.geo, period |-> Period(m.clk), frames |-> Frames(m.geo)]
VarToMode(v) == [geo |-> v.geo, clk |-> ClockOf(v.period)]
ModeToVar(m) == [geo |-> m.geo, period |-> Period(m.clk), frames |-> 1]
Var == [geo : Geo, period : {Period(c) : c \in Clock}, frames : {1, 2}]
NoVar == [geo |-> NoGeo, period |-> 0, frames |-> 1]

Apart(a, b) == IF a > b THEN a - b ELSE b - a

\* soct_dp_validate_mode: the modes it lets through, with the achieved clock.
StaticValid(m, c) ==
    IF m.geo = c.geo /\ Apart(m.clk, c.clk) * 200 <= c.clk THEN {c} ELSE {}
TuneValid(m) ==
    LET hz == Capped(m.clk)
    IN  IF m.clk > MaxHz + MaxHz \div 200 \/ Ach[hz] = 0 \/ Ach[hz] > MaxHz
          THEN {} ELSE {[geo |-> m.geo, clk |-> Ach[hz]]}
Validate(m) == IF retunable THEN TuneValid(m) ELSE StaticValid(m, cur)

\* The hardware refuses a step: bounded by MaxFails.
Refuse == fails < MaxFails /\ fails' = fails + 1

Off == [on |-> FALSE, geo |-> NoGeo, stores |-> 1]
NoFb == [mode |-> Zero, geo |-> NoGeo, frames |-> 1]
Started(g) == [on |-> TRUE, geo |-> g, stores |-> Frames(g)]
NoJob == [mode |-> Zero, fbmode |-> Zero, prev |-> NoVar, by |-> "none"]

Init ==
    /\ design \in Designs
    /\ drv = "out" /\ retunable = FALSE /\ cur = Zero
    /\ fb = NoFb /\ defio = 0 /\ info = NoVar
    /\ lock = "free" /\ job = NoJob
    /\ \E c \in Inherited : mmcm = [hz |-> c, locked |-> TRUE, stale |-> FALSE]
    /\ vdma = Off /\ vtc = Zero /\ msa = Zero
    /\ tool = "idle" /\ want = Zero /\ old = NoVar /\ fails = 0
-----------------------------------------------------------------------------
(***************************************************************************)
(* Bring-up: soct_dp_work, step by step.                                   *)
(***************************************************************************)
\* The device tree, parse_pixclk, and the normalisation of the boot clock.  A
\* node or a mapping that is missing is a refusal; on coherent designs so is a
\* framebuffer node that disagrees with the mode just read.
Load ==
    /\ drv = "out"
    /\ \/ /\ retunable' = (design.budget /\ TuneValid(Boot) # {})
          /\ \/ retunable' /\ cur' \in TuneValid(Boot)
             \/ ~ retunable' /\ cur' = Boot
          /\ drv' = IF retunable' THEN "tune" ELSE "prepare"
          /\ UNCHANGED fails
       \/ Refuse /\ drv' = "failed" /\ UNCHANGED <<retunable, cur>>
       \/ ~ design.incoherent /\ Refuse /\ drv' = "failed" /\ cur' = Boot /\ UNCHANGED retunable
    /\ UNCHANGED <<design, core, lock, job, mmcm, pipe, user>>

\* soct_clk_wzrd_retune: refused while unlocked, else loaded; may not relock.
\* The pixel domain resets with LOCKED: the timing generator forgets its mode.
Retuned(c) ==
    /\ mmcm.locked
    /\ mmcm' = [hz |-> Ach[c], locked |-> TRUE, stale |-> FALSE]
    /\ vtc' = Zero /\ UNCHANGED fails
RetuneRefused(c, stale) ==
    \/ ~ mmcm.locked /\ mmcm' = [mmcm EXCEPT !.stale = stale] /\ UNCHANGED <<vtc, fails>>
    \/ /\ mmcm.locked /\ Refuse
       /\ mmcm' = [hz |-> Ach[c], locked |-> FALSE, stale |-> stale] /\ vtc' = Zero

\* The boot clock; failing to program it is only worth a warning.
BootRetune ==
    /\ drv = "tune" /\ drv' = "prepare"
    /\ Retuned(cur.clk) \/ RetuneRefused(cur.clk, TRUE)
    /\ UNCHANGED <<design, retunable, cur, core, lock, job, vdma, msa, user>>

\* soct_dp_fb_prepare; a mapping that cannot be had is a refusal.
Prepare ==
    /\ drv = "prepare"
    /\ \/ /\ design.incoherent /\ Size[cur.geo] <= design.carveout
          /\ fb' = [mode |-> cur, geo |-> cur.geo, frames |-> Frames(cur.geo)]
          /\ drv' = "start" /\ UNCHANGED fails
       \/ ~ design.incoherent /\ drv' = "start" /\ UNCHANGED <<fb, fails>>
       \/ design.incoherent /\ Size[cur.geo] > design.carveout /\ drv' = "failed" /\ UNCHANGED <<fb, fails>>
       \/ design.incoherent /\ Refuse /\ drv' = "failed" /\ UNCHANGED fb
    /\ UNCHANGED <<design, retunable, cur, defio, info, lock, job, mmcm, pipe, user>>

\* vdma_start, then vtc_start.
BootStart ==
    /\ drv = "start"
    /\ \/ vdma' = Started(cur.geo) /\ vtc' = cur /\ drv' = "link" /\ UNCHANGED fails
       \/ Refuse /\ vdma' = Off /\ UNCHANGED vtc /\ drv' = "failed"
    /\ UNCHANGED <<design, retunable, cur, core, lock, job, mmcm, msa, user>>

\* avbuf_select_live_video, dp_link_up, then dp_start_stream.
LinkUp ==
    /\ drv = "link"
    /\ \/ msa' = cur /\ drv' = "register" /\ UNCHANGED fails
       \/ Refuse /\ drv' = "failed" /\ UNCHANGED msa
    /\ UNCHANGED <<design, retunable, cur, core, lock, job, mmcm, vdma, vtc, user>>

\* soct_dp_fb_register.
Register ==
    /\ drv = "register" /\ drv' = "up"
    /\ \/ /\ design.incoherent
          /\ info' = FillVar(fb.mode)
          /\ defio' = IF design.mmap THEN Size[fb.geo] * fb.frames ELSE 0
          /\ UNCHANGED fails
       \/ design.incoherent /\ Refuse /\ UNCHANGED <<info, defio>>
       \/ ~ design.incoherent /\ UNCHANGED <<info, defio, fails>>
    /\ UNCHANGED <<design, retunable, cur, fb, lock, job, mmcm, pipe, user>>

Registered == drv = "up" /\ info # NoVar

\* soct_dp_exit: not while the tool holds the device open.
Exit ==
    /\ drv \in {"up", "failed"} /\ lock = "free" /\ tool = "idle"
    /\ drv' = "out" /\ retunable' = FALSE /\ cur' = Zero
    /\ fb' = NoFb /\ defio' = 0 /\ info' = NoVar
    /\ vdma' = Off
    /\ UNCHANGED <<design, lock, job, mmcm, vtc, msa, user, fails>>

\* A lock that took longer than the driver waited for it.
LateLock ==
    /\ ~ mmcm.locked /\ mmcm' = [mmcm EXCEPT !.locked = TRUE]
    /\ UNCHANGED <<soft, cur, core, lock, job, pipe, user, fails>>
-----------------------------------------------------------------------------
(***************************************************************************)
(* A mode switch: soct_dp_fb_set_par and soct_dp_switch_mode, run by the   *)
(* fbdev core under its locks for the tool or for the console.             *)
(***************************************************************************)
\* What the tool sees of the outcome.
Answer(by, ok) ==
    tool' = IF by # "tool" THEN tool ELSE IF ok /\ tool = "put" THEN "check" ELSE "idle"

NewFb(m) == [mode |-> m, geo |-> m.geo, frames |-> Frames(m.geo)]

\* Mutant: a mode that is already current is driven again.
SetParEager(v, prev, by) ==
    /\ UNCHANGED <<soft, cur, fb, defio, mmcm, pipe, want, old, fails>>
    /\ \/ Validate(VarToMode(v)) = {} /\ info' = prev /\ Answer(by, FALSE)
          /\ UNCHANGED <<lock, job>>
       \/ \E m \in Validate(VarToMode(v)) :
          /\ lock' = "halt" /\ info' = v /\ UNCHANGED tool
          /\ job' = [mode |-> m, fbmode |-> m, prev |-> prev, by |-> by]

\* set_par for info->var, and switch_mode up to the point of no return.  The
\* core puts prev back when set_par fails.
SetPar(v, prev, by) ==
    /\ UNCHANGED <<soft, cur, defio, mmcm, pipe, want, old, fails>>
    /\ \/ Validate(VarToMode(v)) = {} /\ info' = prev /\ Answer(by, FALSE)
          /\ UNCHANGED <<fb, lock, job>>
       \/ \E m \in Validate(VarToMode(v)) :
          \/ m = fb.mode /\ info' = v /\ Answer(by, TRUE) /\ UNCHANGED <<fb, lock, job>>
          \/ /\ m # fb.mode /\ Validate(m) = {}
             /\ fb' = [fb EXCEPT !.mode = Zero] /\ info' = prev /\ Answer(by, FALSE)
             /\ UNCHANGED <<lock, job>>
          \/ \E w \in Validate(m) :
             \/ /\ m # fb.mode /\ w = cur
                /\ fb' = NewFb(m) /\ info' = v /\ Answer(by, TRUE) /\ UNCHANGED <<lock, job>>
             \/ /\ m # fb.mode /\ w # cur
                /\ lock' = "halt" /\ info' = v /\ UNCHANGED <<fb, tool>>
                /\ job' = [mode |-> w, fbmode |-> m, prev |-> prev, by |-> by]

\* Mutant: fbs.mode still names the mode that was running.
FailKeepsFb ==
    /\ lock' = "free" /\ job' = NoJob
    /\ cur' = Zero /\ info' = job.prev
    /\ Answer(job.by, FALSE)
    /\ UNCHANGED <<soft, fb, defio, want, old, msa>>

\* The label halted: forget the mode in both places.
Fail ==
    /\ lock' = "free" /\ job' = NoJob
    /\ cur' = Zero /\ fb' = [fb EXCEPT !.mode = Zero] /\ info' = job.prev
    /\ Answer(job.by, FALSE)
    /\ UNCHANGED <<soft, defio, want, old, msa>>

\* vdma_halt; a reset that does not complete may leave the VDMA running.
Halt ==
    /\ lock = "halt"
    /\ \/ /\ vdma' = Off
          /\ lock' = IF job.mode.clk # cur.clk THEN "retune" ELSE "start"
          /\ UNCHANGED <<soft, cur, core, job, mmcm, vtc, msa, user, fails>>
       \/ Fail /\ Refuse /\ vdma' \in {vdma, Off} /\ UNCHANGED <<mmcm, vtc>>

Retune ==
    /\ lock = "retune"
    /\ \/ Retuned(job.mode.clk) /\ lock' = "start"
          /\ UNCHANGED <<soft, cur, core, job, vdma, msa, user>>
       \/ Fail /\ RetuneRefused(job.mode.clk, mmcm.stale) /\ UNCHANGED vdma

\* Mutant: the timing generator is programmed only for another geometry.
StartOldTiming ==
    /\ lock = "start"
    /\ vdma' = Started(job.mode.geo) /\ msa' = job.mode
    /\ vtc' = IF job.mode.geo = fb.geo THEN vtc ELSE job.mode
    /\ cur' = job.mode /\ fb' = NewFb(job.fbmode)
    /\ lock' = "free" /\ job' = NoJob /\ Answer(job.by, TRUE)
    /\ UNCHANGED <<soft, defio, info, mmcm, want, old, fails>>

\* vdma_start, vtc_start, dp_start_stream; then set_par takes the geometry.
Start ==
    /\ lock = "start"
    /\ \/ /\ vdma' = Started(job.mode.geo) /\ vtc' = job.mode /\ msa' = job.mode
          /\ cur' = job.mode /\ fb' = NewFb(job.fbmode)
          /\ lock' = "free" /\ job' = NoJob /\ Answer(job.by, TRUE)
          /\ UNCHANGED <<soft, defio, info, mmcm, want, old, fails>>
       \/ Fail /\ Refuse /\ vdma' = Off /\ UNCHANGED <<mmcm, vtc>>

\* The console re-activates the current mode.
Reactivate == Registered /\ lock = "free" /\ SetPar(info, info, "console")

\* Mutant: one frame is compared with the size of the page tracking.
CheckVarOneFrame(v) ==
    IF Size[v.geo] > design.carveout \/ (design.mmap /\ Size[v.geo] > defio)
      THEN {} ELSE {FillVar(m) : m \in Validate(VarToMode(v))}

\* soct_dp_fb_check_var: the vars it lets through, with the achieved clock.
CheckVar(v) ==
    IF \/ Size[v.geo] > design.carveout
       \/ design.mmap /\ Size[v.geo] * Frames(v.geo) > defio
      THEN {} ELSE {FillVar(m) : m \in Validate(VarToMode(v))}

\* FBIOPUT_VSCREENINFO.  The core returns at once for the var it has, and
\* simplefb, which serves coherent designs, accepts and ignores any var.
PutVar(v) ==
    /\ lock = "free"
    /\ \/ /\ ~ design.incoherent \/ v = info
          /\ Answer("tool", TRUE)
          /\ UNCHANGED <<soft, cur, core, lock, job, mmcm, pipe, want, old, fails>>
       \/ /\ design.incoherent /\ v # info /\ CheckVar(v) = {}
          /\ Answer("tool", FALSE)
          /\ UNCHANGED <<soft, cur, core, lock, job, mmcm, pipe, want, old, fails>>
       \/ design.incoherent /\ v # info /\ \E c \in CheckVar(v) : SetPar(c, info, "tool")
-----------------------------------------------------------------------------
(***************************************************************************)
(* fbmode: get the var, put the new one, read back, keep or go back.       *)
(***************************************************************************)
ToolStart(m) ==
    /\ tool = "idle" /\ (design.incoherent => Registered)
    /\ tool' = "put" /\ want' = m /\ old' = info
    /\ UNCHANGED <<soft, cur, core, lock, job, mmcm, pipe, fails>>

ToolPut == tool = "put" /\ PutVar(ModeToVar(want))
ToolRevert == tool = "revert" /\ PutVar(old)

\* Mutant: the var is not read back.
ToolTrusts ==
    /\ tool = "check" /\ lock = "free"
    /\ tool' = "ask"
    /\ UNCHANGED <<soft, cur, core, lock, job, mmcm, pipe, want, old, fails>>

\* Reading the var back: a driver that ignored the request is found out.
\* The fbdev locks make the tool wait for a switch in progress.
ToolCheck ==
    /\ tool = "check" /\ lock = "free"
    /\ tool' = IF info.geo # want.geo \/ info.period = 0 THEN "idle" ELSE "ask"
    /\ UNCHANGED <<soft, cur, core, lock, job, mmcm, pipe, want, old, fails>>

\* confirm_keep: y, or anything else and the timeout.
ToolAnswer ==
    /\ tool = "ask" /\ tool' \in {"idle", "revert"}
    /\ UNCHANGED <<soft, cur, core, lock, job, mmcm, pipe, want, old, fails>>
-----------------------------------------------------------------------------
BringUp == Load \/ BootRetune \/ Prepare \/ BootStart \/ LinkUp \/ Register
Switch == Halt \/ Retune \/ Start
Tool == ToolPut \/ ToolRevert \/ ToolCheck \/ ToolAnswer

Next ==
    \/ BringUp \/ Exit \/ LateLock
    \/ Switch \/ Reactivate
    \/ Tool \/ \E m \in Asked : ToolStart(m)

Safety == Init /\ [][Next]_vars

\* The work item, the holder of the locks and the console keep running, and a
\* lock that is late arrives.
Fairness ==
    /\ WF_vars(BringUp) /\ WF_vars(Switch) /\ WF_vars(Reactivate) /\ WF_vars(LateLock)
Spec == Safety /\ Fairness
-----------------------------------------------------------------------------
(***************************************************************************)
(* Properties.                                                             *)
(***************************************************************************)
TypeOK ==
    /\ design \in Designs
    /\ drv \in {"out", "tune", "prepare", "start", "link", "register", "up", "failed"}
    /\ retunable \in BOOLEAN /\ cur \in Mode \union {Zero}
    /\ fb \in [mode : Mode \union {Zero}, geo : Geo \union {NoGeo}, frames : {1, 2}]
    /\ defio \in Nat /\ info \in Var \union {NoVar}
    /\ lock \in {"free", "halt", "retune", "start"}
    /\ job \in [mode : Mode \union {Zero}, fbmode : Mode \union {Zero},
                prev : Var \union {NoVar}, by : {"none", "tool", "console"}]
    /\ mmcm \in [hz : Clock, locked : BOOLEAN, stale : BOOLEAN]
    /\ vdma \in [on : BOOLEAN, geo : Geo \union {NoGeo}, stores : {1, 2}]
    /\ vtc \in Mode \union {Zero} /\ msa \in Mode \union {Zero}
    /\ tool \in {"idle", "put", "check", "ask", "revert"}
    /\ want \in Mode \union {Zero} /\ old \in Var \union {NoVar}
    /\ fails \in 0 .. MaxFails

\* Every part of the pipeline runs the mode m; only a boot retune that failed,
\* which the driver does not remember, may have left the MMCM at another clock.
Scans(m) ==
    /\ vdma.on /\ vdma.geo = m.geo /\ vtc = m /\ msa = m
    /\ retunable => mmcm.stale \/ (mmcm.hz = m.clk /\ mmcm.locked)

\* "The mode the pipeline is scanning right now" (dp.h): whenever no switch is
\* under way and s.cur names a mode, the VDMA, the timing generator, the stream
\* and the MMCM all run it, whatever failed on the way.
CacheHonest == drv = "up" /\ lock = "free" /\ cur # Zero => Scans(cur)

\* The framebuffer device and the pipeline agree: on the mode, also when both
\* have forgotten it, and, while the VDMA fetches, on the geometry and on
\* whether there is a second frame to pan to ("same carve-out arithmetic on
\* both sides", dp-main.c:207).
ViewsAgree ==
    Registered /\ lock = "free" =>
        /\ fb.mode = cur
        /\ vdma.on => fb.geo = vdma.geo /\ fb.frames = vdma.stores

\* The screen never outgrows the page tracking that fb_deferred_io sized at
\* registration, also through modes with another number of frames.
MappingFits == design.mmap /\ Registered => Size[fb.geo] * fb.frames <= defio

\* The promise of the solver for every clock the ioctl can ask it for.
Exhaustive ==
    [c \in {Capped(ClockOf(Period(m.clk))) : m \in Asked} |-> NoneCloser(Lim, c)]

\* The search behind soct_dp_validate_mode is as good as trying every setting
\* (clk-wzrd.h calls it exhaustive): where the pixel clock can be retuned, no
\* setting of the MMCM is closer to the clock fbmode's var asks for than the one
\* the mode is given, and a mode is refused only when none is within 0.5 %.
FindsClosest ==
    retunable /\ want # Zero => Exhaustive[Capped(VarToMode(ModeToVar(want)).clk)]

\* "Halt the fetch first" (dp-main.c:417): the pixel clock is reprogrammed
\* only while the VDMA is off, at boot, on a switch and on a reload.
RetunesHalted ==
    [][mmcm'.hz # mmcm.hz \/ (mmcm.locked /\ ~ mmcm'.locked) => ~ vdma.on]_vars

\* fbmode does not "fake a switch" (main.c:256): when it reports the new mode
\* and asks whether to keep it, the pipeline runs that mode.  The exception is
\* a dark pipeline and a request for the very var the device still has, which
\* the fbdev core answers without asking the driver.
ToolHonest ==
    [][tool = "check" /\ tool' = "ask" =>
          \/ cur.geo = want.geo /\ Scans(cur)
          \/ cur = Zero /\ info = ModeToVar(want)]_vars

\* "so later validations converge on it" (dp-main.c:569): the boot clock, once
\* achieved, survives the dot period of the var.
BootConverges ==
    \A x \in TuneValid(Boot) :
        TuneValid([geo |-> x.geo, clk |-> ClockOf(Period(x.clk))]) \subseteq {x}

\* "Console switches re-activate the current mode constantly" (fb.c:533): where
\* BootConverges, a re-activation restarts the pipeline only when the mode had
\* been forgotten.
ReactivationQuiet ==
    [][lock = "free" /\ lock' = "halt" /\ job'.by = "console" => cur = Zero]_vars

\* A pipeline that a failed switch left dark comes back: the forgotten mode
\* makes the next re-activation drive everything again, the MMCM included.
Recovers == Registered /\ cur = Zero ~> cur # Zero \/ drv # "up"
=============================================================================
