------------------------------ MODULE DpProofs ------------------------------
(***************************************************************************)
(* Theorems about Dp for every set of geometries, clocks and designs: the  *)
(* remembered modes agree with each other and, once the boot retune has    *)
(* worked, with what the hardware runs, whatever fails afterwards.         *)
(***************************************************************************)
EXTENDS Dp, TLAPS

\* A geometry has one frame or two.
LEMMA FramesType ==
  ASSUME NEW g \in Geo
  PROVE  Frames(g) \in {1, 2} /\ Size[g] * Frames(g) \in Nat
BY GeoAssumption DEF Frames

\* A zeroed mode is no mode.
LEMMA ZeroNoMode == Zero \notin Mode /\ NoVar \notin Var
BY GeoAssumption DEF Zero, Mode, NoVar, Var

\* The conversions between modes and vars keep the geometry and the types.
LEMMA VarModes ==
  /\ \A m \in Mode : FillVar(m) \in Var /\ FillVar(m).geo = m.geo
  /\ \A m \in Mode : ModeToVar(m) \in Var /\ ModeToVar(m).geo = m.geo
  /\ \A v \in Var : VarToMode(v) \in Mode /\ VarToMode(v).geo = v.geo
<1>1. ASSUME NEW m \in Mode
      PROVE  /\ FillVar(m) \in Var /\ FillVar(m).geo = m.geo
             /\ ModeToVar(m) \in Var /\ ModeToVar(m).geo = m.geo
  BY FramesType DEF Mode, Var, FillVar, ModeToVar
<1>2. ASSUME NEW v \in Var PROVE VarToMode(v) \in Mode /\ VarToMode(v).geo = v.geo
  BY ClockAssumption DEF Mode, Var, VarToMode
<1> QED
  BY <1>1, <1>2

\* A mode the solver has been through: its clock is achieved exactly.
Exact(m) == m \in Mode /\ Ach[m.clk] = m.clk /\ m.clk <= MaxHz

\* What the validation lets through on a retunable design, and that a second
\* validation changes nothing (SettlesAssumption).
LEMMA TuneExact ==
  ASSUME NEW m \in Mode
  PROVE  /\ \A x \in TuneValid(m) : Exact(x) /\ x.geo = m.geo
         /\ Exact(m) => TuneValid(m) = {m}
<1> DEFINE hz == Capped(m.clk)
<1>1. hz \in Clock
  BY GeoAssumption DEF Mode, MaxHz, Capped
<1>2. Ach[hz] # 0 => Ach[hz] \in Clock /\ Ach[Ach[hz]] = Ach[hz]
  BY <1>1, ClockAssumption, SettlesAssumption, Zenon
<1>3. ASSUME NEW x \in TuneValid(m)
      PROVE  x = [geo |-> m.geo, clk |-> Ach[hz]] /\ Ach[hz] # 0 /\ ~ (Ach[hz] > MaxHz)
  BY <1>3 DEF TuneValid
<1>0. Clock \subseteq Nat /\ m.clk \in Nat /\ MaxHz \in Nat
  BY GeoAssumption, ClockAssumption, Zenon DEF Mode, MaxHz
<1>4. ASSUME NEW x \in TuneValid(m) PROVE Exact(x) /\ x.geo = m.geo
  <2> HIDE DEF hz
  <2>1. x \in Mode /\ x.clk = Ach[hz] /\ x.geo = m.geo
    BY <1>2, <1>3, <1>4 DEF Mode
  <2>2. Ach[hz] # 0 /\ ~ (Ach[hz] > MaxHz)
    BY <1>3
  <2>3. Ach[hz] \in Nat /\ Ach[Ach[hz]] = Ach[hz]
    BY <1>0, <1>2, <2>2, Zenon
  <2>4. Ach[hz] <= MaxHz
    BY <1>0, <2>2, <2>3
  <2> QED
    BY <2>1, <2>3, <2>4 DEF Exact
<1>5. ASSUME Exact(m) PROVE TuneValid(m) = {m}
  <2>1. hz = m.clk
    BY <1>0, <1>5 DEF Exact, Capped
  <2>2. ~ (m.clk > MaxHz + MaxHz \div 200) /\ Ach[m.clk] # 0 /\ ~ (Ach[m.clk] > MaxHz)
    BY <1>0, <1>5, ClockAssumption DEF Exact, Mode
  <2>3. TuneValid(m) = {[geo |-> m.geo, clk |-> Ach[m.clk]]}
    BY <2>1, <2>2 DEF TuneValid
  <2> QED
    BY <1>5, <2>3 DEF Exact, Mode
<1> QED
  BY <1>4, <1>5
-----------------------------------------------------------------------------
(***************************************************************************)
(* The inductive invariant.  BootInv follows the bring-up, UpInv the locks *)
(* of a registered framebuffer, MapInv the size of the page tracking and   *)
(* ToolInv the tool; ClockInv adds what the hardware runs.                 *)
(***************************************************************************)
Fits(g) == design.mmap => Size[g] * Frames(g) <= defio

BootInv ==
    /\ drv # "up" => lock = "free" /\ info = NoVar
    /\ drv \in {"out", "tune"} => ~ vdma.on
    /\ drv \in {"tune", "prepare", "start", "link", "register"} => cur \in Mode
    /\ drv = "tune" => retunable
    /\ drv = "out" => ~ retunable
    /\ retunable /\ cur # Zero => Exact(cur)
    /\ drv \in {"start", "link", "register"} /\ design.incoherent => fb = NewFb(cur)
    /\ drv \in {"link", "register"} => vdma = Started(cur.geo)

UpInv ==
    /\ Registered => design.incoherent /\ info \in Var
                      /\ fb.geo \in Geo /\ fb.frames = Frames(fb.geo)
    /\ Registered /\ lock \in {"free", "halt"} =>
          /\ fb.mode = cur
          /\ vdma.on => fb.geo = vdma.geo /\ fb.frames = vdma.stores
    /\ lock # "free" => /\ Registered /\ retunable /\ Exact(job.mode) /\ job.fbmode = job.mode
                        /\ job.prev \in Var /\ job.mode.geo = info.geo
    /\ lock \in {"retune", "start"} => ~ vdma.on

MapInv ==
    Registered => /\ Fits(fb.geo) /\ Fits(info.geo)
                  /\ lock # "free" => Fits(job.prev.geo)

ToolInv ==
    /\ tool # "idle" => want \in Mode
    /\ tool # "idle" /\ design.incoherent => Registered /\ old \in Var

BaseInv == TypeOK /\ BootInv /\ UpInv /\ MapInv /\ ToolInv

Ticks(c) == mmcm.stale \/ (mmcm.hz = c /\ mmcm.locked)

ClockInv ==
    /\ retunable /\ drv \in {"prepare", "start", "link", "register"} => Ticks(cur.clk)
    /\ drv \in {"link", "register"} => vtc = cur
    /\ drv = "register" => msa = cur
    /\ drv = "up" /\ lock \in {"free", "halt"} /\ cur # Zero => Scans(cur)
    /\ lock = "start" => Ticks(job.mode.clk)

\* The initial states.
LEMMA BaseInit == Init => BaseInv /\ ClockInv
<1> SUFFICES ASSUME Init PROVE BaseInv /\ ClockInv
  OBVIOUS
<1>1. TypeOK
  <2>1. mmcm \in [hz : Clock, locked : BOOLEAN, stale : BOOLEAN]
    BY GeoAssumption DEF Init
  <2>2. /\ NoFb \in [mode : Mode \union {Zero}, geo : Geo \union {NoGeo}, frames : {1, 2}]
        /\ Off \in [on : BOOLEAN, geo : Geo \union {NoGeo}, stores : {1, 2}]
    BY DEF NoFb, Off
  <2>3. NoJob \in [mode : Mode \union {Zero}, fbmode : Mode \union {Zero},
                  prev : Var \union {NoVar}, by : {"none", "tool", "console"}]
    BY DEF NoJob
  <2>4. 0 \in Nat /\ 0 \in 0 .. MaxFails
    BY GeoAssumption
  <2>5. /\ fb \in [mode : Mode \union {Zero}, geo : Geo \union {NoGeo}, frames : {1, 2}]
        /\ vdma \in [on : BOOLEAN, geo : Geo \union {NoGeo}, stores : {1, 2}]
        /\ job \in [mode : Mode \union {Zero}, fbmode : Mode \union {Zero},
                    prev : Var \union {NoVar}, by : {"none", "tool", "console"}]
    BY <2>2, <2>3, Zenon DEF Init
  <2>6. /\ design \in Designs /\ drv = "out" /\ retunable = FALSE /\ cur = Zero
        /\ defio = 0 /\ info = NoVar /\ lock = "free" /\ vtc = Zero /\ msa = Zero
        /\ tool = "idle" /\ want = Zero /\ old = NoVar /\ fails = 0
    BY DEF Init
  <2> QED
    BY <2>1, <2>4, <2>5, <2>6, Zenon DEF TypeOK
<1>2. BootInv /\ UpInv /\ MapInv /\ ToolInv /\ ClockInv
  BY DEF Init, BootInv, UpInv, MapInv, ToolInv, ClockInv, Registered, Off
<1> QED
  BY <1>1, <1>2 DEF BaseInv

\* What set_par can do: return with nothing but the var changed, or start a
\* switch on a retunable design to a mode the solver has been through.  Its
\* other early returns cannot be reached.
SwitchTo(v, prev, by) ==
    /\ retunable /\ lock' = "halt" /\ info' = v /\ UNCHANGED <<fb, tool>>
    /\ \E m \in Mode : /\ Exact(m) /\ m.geo = v.geo
                       /\ job' = [mode |-> m, fbmode |-> m, prev |-> prev, by |-> by]

LEMMA SetParCases ==
  ASSUME BaseInv, Registered, lock = "free",
         NEW v \in Var, NEW prev \in Var, NEW by \in {"tool", "console"}, SetPar(v, prev, by)
  PROVE  /\ UNCHANGED <<soft, cur, defio, mmcm, pipe, want, old, fails>>
         /\ \/ /\ info' \in {v, prev} /\ UNCHANGED <<fb, lock, job>>
               /\ Answer(by, TRUE) \/ Answer(by, FALSE)
            \/ SwitchTo(v, prev, by)
<1> DEFINE x == VarToMode(v)
<1>0. x \in Mode /\ x.geo = v.geo
  BY VarModes
<1>1. fb.mode = cur /\ UNCHANGED <<soft, cur, defio, mmcm, pipe, want, old, fails>>
  BY DEF BaseInv, UpInv, SetPar
<1> HIDE DEF x
<1>2. CASE Validate(x) = {}
  BY <1>1, <1>2, Zenon DEF SetPar, x
<1>3. ASSUME NEW m \in Validate(x), ~ retunable PROVE m = fb.mode
  BY <1>1, <1>3 DEF Validate, StaticValid
<1>4. ASSUME NEW m \in Validate(x), retunable
      PROVE  Exact(m) /\ m \in Mode /\ m.geo = v.geo /\ Validate(m) = {m}
  <2>1. m \in TuneValid(x)
    BY <1>4 DEF Validate
  <2>2. Exact(m) /\ m.geo = v.geo
    BY <1>0, <2>1, TuneExact
  <2>3. m \in Mode
    BY <2>2 DEF Exact
  <2> QED
    BY <1>4, <2>2, <2>3, TuneExact DEF Validate
<1>5. CASE \E m \in Validate(x) : m = fb.mode /\ info' = v /\ Answer(by, TRUE)
                                /\ UNCHANGED <<fb, lock, job>>
  BY <1>1, <1>5, Zenon
<1>6. CASE \E m \in Validate(x) : m # fb.mode /\ Validate(m) = {}
  BY <1>3, <1>4, <1>6
<1>7. CASE \E m \in Validate(x) : \E w \in Validate(m) : m # fb.mode /\ w = cur
  BY <1>1, <1>3, <1>4, <1>7
<1>8. CASE \E m \in Validate(x) : \E w \in Validate(m) :
             /\ m # fb.mode /\ lock' = "halt" /\ info' = v /\ UNCHANGED <<fb, tool>>
             /\ job' = [mode |-> w, fbmode |-> m, prev |-> prev, by |-> by]
  BY <1>1, <1>3, <1>4, <1>8 DEF SwitchTo
<1> QED
  BY <1>2, <1>5, <1>6, <1>7, <1>8, Zenon DEF SetPar, x

\* Both outcomes of set_par keep the invariant, for any var that fits.
LEMMA SetParBase ==
  ASSUME BaseInv, Registered, lock = "free",
         NEW v \in Var, NEW prev \in Var, NEW by \in {"tool", "console"},
         Fits(v.geo), Fits(prev.geo), SetPar(v, prev, by)
  PROVE  BaseInv'
<1>0. TypeOK /\ BootInv /\ UpInv /\ MapInv /\ ToolInv
  BY DEF BaseInv
<1>1. UNCHANGED <<soft, cur, defio, mmcm, pipe, want, old, fails>>
  BY SetParCases, Zenon
<1>2. CASE /\ info' \in {v, prev} /\ UNCHANGED <<fb, lock, job>>
           /\ Answer(by, TRUE) \/ Answer(by, FALSE)
  <2>1. tool' \in {tool, "check", "idle"} /\ (tool' # "idle" => tool # "idle")
    BY <1>0, <1>2 DEF Answer, TypeOK
  <2>2. info' \in Var /\ info' # NoVar
    BY <1>2, ZeroNoMode
  <2>3. TypeOK'
    BY <1>0, <1>1, <1>2, <2>1, <2>2 DEF TypeOK, soft, pipe
  <2>4. BootInv' /\ UpInv' /\ MapInv' /\ ToolInv'
    BY <1>0, <1>1, <1>2, <2>1, <2>2
       DEF BootInv, UpInv, MapInv, ToolInv, Fits, Frames, Registered, soft, pipe
  <2> QED
    BY <2>3, <2>4 DEF BaseInv
<1>3. CASE SwitchTo(v, prev, by)
  <2>1. PICK m \in Mode : /\ Exact(m) /\ m.geo = v.geo
                          /\ job' = [mode |-> m, fbmode |-> m, prev |-> prev, by |-> by]
    BY <1>3 DEF SwitchTo
  <2>2. retunable /\ lock' = "halt" /\ info' = v /\ UNCHANGED <<fb, tool>> /\ info' # NoVar
    BY <1>3, ZeroNoMode DEF SwitchTo
  <2>3. TypeOK'
    BY <1>0, <1>1, <2>1, <2>2 DEF TypeOK, soft, pipe
  <2>4. BootInv' /\ UpInv' /\ MapInv' /\ ToolInv'
    BY <1>0, <1>1, <2>1, <2>2
       DEF BootInv, UpInv, MapInv, ToolInv, Fits, Frames, Registered, Exact, soft, pipe
  <2> QED
    BY <2>3, <2>4 DEF BaseInv
<1> QED
  BY <1>2, <1>3, SetParCases, Zenon

\* What check_var lets through is a var, of a screen the page tracking has room
\* for.
LEMMA CheckVarFits ==
  ASSUME BaseInv, NEW v \in Var, NEW c \in CheckVar(v)
  PROVE  c \in Var /\ Fits(c.geo)
<1>0. TypeOK
  BY DEF BaseInv
<1>1. PICK m \in Validate(VarToMode(v)) : c = FillVar(m)
  BY DEF CheckVar
<1>2. VarToMode(v) \in Mode /\ VarToMode(v).geo = v.geo /\ v.geo \in Geo
  BY VarModes DEF Var
<1>3. m \in Mode /\ m.geo = v.geo
  <2>1. CASE retunable
    <3>1. Exact(m) /\ m.geo = v.geo
      BY <1>1, <1>2, <2>1, TuneExact DEF Validate
    <3> QED
      BY <3>1 DEF Exact
  <2>2. CASE ~ retunable
    <3>1. m = cur /\ cur.geo = v.geo
      BY <1>1, <1>2, <2>2 DEF Validate, StaticValid
    <3>2. cur # Zero
      BY <1>2, <3>1, GeoAssumption DEF Zero
    <3> QED
      BY <1>0, <3>1, <3>2 DEF TypeOK
  <2> QED
    BY <2>1, <2>2
<1>4. c \in Var /\ c.geo = v.geo
  BY <1>1, <1>3, VarModes
<1>5. Fits(v.geo)
  <2>1. ~ (design.mmap /\ Size[v.geo] * Frames(v.geo) > defio)
    BY DEF CheckVar
  <2>2. Size[v.geo] * Frames(v.geo) \in Nat /\ defio \in Nat
    BY <1>0, <1>2, FramesType DEF TypeOK
  <2> QED
    BY <2>1, <2>2 DEF Fits
<1> QED
  BY <1>4, <1>5

\* A failed switch forgets the mode and gives the old var back.
LEMMA FailBase ==
  ASSUME BaseInv, lock # "free", Fail,
         mmcm' \in [hz : Clock, locked : BOOLEAN, stale : BOOLEAN], vdma' \in {vdma, Off},
         vtc' \in Mode \union {Zero}, fails' \in 0 .. MaxFails
  PROVE  BaseInv'
<1>0. TypeOK /\ BootInv /\ UpInv /\ MapInv /\ ToolInv
  BY DEF BaseInv
<1>1. drv = "up" /\ info # NoVar /\ job.prev \in Var /\ job.prev # NoVar /\ Registered
  BY <1>0, ZeroNoMode DEF BootInv, UpInv, Registered
<1>2. tool' \in {tool, "check", "idle"} /\ (tool' # "idle" => tool # "idle")
  BY <1>0 DEF Fail, Answer, TypeOK
<1>3. /\ fb' = [mode |-> Zero, geo |-> fb.geo, frames |-> fb.frames]
      /\ cur' = Zero /\ lock' = "free" /\ info' = job.prev
      /\ UNCHANGED <<soft, defio, want, old, msa>>
  BY <1>0 DEF Fail, TypeOK
<1>4. TypeOK'
  <2>1. job' \in [mode : Mode \union {Zero}, fbmode : Mode \union {Zero},
                 prev : Var \union {NoVar}, by : {"none", "tool", "console"}]
    BY DEF Fail, NoJob
  <2>2. vdma' \in [on : BOOLEAN, geo : Geo \union {NoGeo}, stores : {1, 2}]
    <3>1. Off \in [on : BOOLEAN, geo : Geo \union {NoGeo}, stores : {1, 2}]
      BY DEF Off
    <3>2. vdma \in [on : BOOLEAN, geo : Geo \union {NoGeo}, stores : {1, 2}]
      BY <1>0 DEF TypeOK
    <3> QED
      BY <3>1, <3>2
  <2> QED
    BY <1>0, <1>1, <1>2, <1>3, <2>1, <2>2 DEF TypeOK, soft
<1>5. BootInv' /\ MapInv' /\ ToolInv'
  BY <1>0, <1>1, <1>2, <1>3
     DEF BootInv, MapInv, ToolInv, Fits, Frames, Registered, Off, soft
<1>6. UpInv'
  BY <1>0, <1>1, <1>2, <1>3 DEF TypeOK, UpInv, Frames, Registered, Off, soft
<1> QED
  BY <1>4, <1>5, <1>6 DEF BaseInv

\* One step per action.
LEMMA BaseNext == BaseInv /\ [Next]_vars => BaseInv'
<1> SUFFICES ASSUME BaseInv, [Next]_vars PROVE BaseInv'
  OBVIOUS
<1>0. TypeOK /\ BootInv /\ UpInv /\ MapInv /\ ToolInv
  BY DEF BaseInv
<1>w. /\ Off \in [on : BOOLEAN, geo : Geo \union {NoGeo}, stores : {1, 2}]
      /\ NoFb \in [mode : Mode \union {Zero}, geo : Geo \union {NoGeo}, frames : {1, 2}]
      /\ NoJob \in [mode : Mode \union {Zero}, fbmode : Mode \union {Zero},
                   prev : Var \union {NoVar}, by : {"none", "tool", "console"}]
  BY DEF Off, NoFb, NoJob
<1>m. ASSUME NEW m \in Mode
      PROVE  /\ Started(m.geo) \in [on : BOOLEAN, geo : Geo \union {NoGeo}, stores : {1, 2}]
             /\ NewFb(m) \in [mode : Mode \union {Zero}, geo : Geo \union {NoGeo},
                              frames : {1, 2}]
             /\ m.geo \in Geo /\ m.clk \in Clock
  <2>1. m.geo \in Geo /\ m.clk \in Clock /\ Frames(m.geo) \in {1, 2}
    BY FramesType DEF Mode
  <2> QED
    BY <2>1 DEF Started, NewFb
<1>1. ASSUME Load PROVE BaseInv'
  <2>0. Boot \in Mode /\ fails' \in 0 .. MaxFails
    BY <1>0, <1>1, GeoAssumption DEF Load, Refuse, TypeOK
  <2>1. CASE drv' # "failed"
    <3>1. cur' \in Mode /\ (retunable' => Exact(cur')) /\ retunable' \in BOOLEAN
      <4>1. CASE retunable' /\ cur' \in TuneValid(Boot)
        BY <2>0, <4>1, TuneExact DEF Exact
      <4>2. CASE ~ retunable' /\ cur' = Boot /\ retunable' \in BOOLEAN
        BY <2>0, <4>2
      <4> QED
        BY <1>1, <2>1, <4>1, <4>2, Zenon DEF Load
    <3>2. drv' \in {"tune", "prepare"} /\ (drv' = "tune" => retunable')
      BY <1>1, <2>1 DEF Load
    <3>3. TypeOK'
      BY <1>0, <1>1, <2>0, <3>1, <3>2 DEF Load, TypeOK, core, pipe, user
    <3>4. BootInv' /\ UpInv' /\ MapInv' /\ ToolInv'
      BY <1>0, <1>1, <3>1, <3>2
         DEF Load, BootInv, UpInv, MapInv, ToolInv, Fits, Frames, Registered, core, pipe, user
    <3> QED
      BY <3>3, <3>4 DEF BaseInv
  <2>2. CASE drv' = "failed"
    <3>1. UNCHANGED retunable /\ cur' \in {cur, Boot} /\ ~ retunable
      BY <1>0, <1>1, <2>2 DEF Load, BootInv
    <3>2. TypeOK'
      BY <1>0, <1>1, <2>0, <2>2, <3>1 DEF Load, TypeOK, core, pipe, user
    <3>3. BootInv' /\ UpInv' /\ MapInv' /\ ToolInv'
      BY <1>0, <1>1, <2>2, <3>1
         DEF Load, BootInv, UpInv, MapInv, ToolInv, Fits, Frames, Registered, core, pipe, user
    <3> QED
      BY <3>2, <3>3 DEF BaseInv
  <2> QED
    BY <2>1, <2>2
<1>r. ASSUME NEW c \in Clock, NEW b \in BOOLEAN, Ach[c] \in Clock,
             Retuned(c) \/ RetuneRefused(c, b)
      PROVE  /\ mmcm' \in [hz : Clock, locked : BOOLEAN, stale : BOOLEAN]
             /\ vtc' \in Mode \union {Zero} /\ fails' \in 0 .. MaxFails
  <2>1. fails' \in 0 .. MaxFails /\ vtc' \in Mode \union {Zero}
    BY <1>0, <1>r, GeoAssumption DEF Retuned, RetuneRefused, Refuse, TypeOK
  <2>2. mmcm' \in {[mmcm EXCEPT !.stale = b], [hz |-> Ach[c], locked |-> TRUE, stale |-> FALSE],
                  [hz |-> Ach[c], locked |-> FALSE, stale |-> b]}
    BY <1>r DEF Retuned, RetuneRefused
  <2>3. /\ [hz |-> Ach[c], locked |-> TRUE, stale |-> FALSE]
              \in [hz : Clock, locked : BOOLEAN, stale : BOOLEAN]
        /\ [hz |-> Ach[c], locked |-> FALSE, stale |-> b]
              \in [hz : Clock, locked : BOOLEAN, stale : BOOLEAN]
    BY <1>r
  <2>4. [mmcm EXCEPT !.stale = b] \in [hz : Clock, locked : BOOLEAN, stale : BOOLEAN]
    BY <1>0, <1>r DEF TypeOK
  <2> QED
    BY <2>1, <2>2, <2>3, <2>4, Zenon
<1>2. ASSUME BootRetune PROVE BaseInv'
  <2>1. cur.clk \in Clock /\ Ach[cur.clk] \in Clock
    <3>1. cur \in Mode /\ Exact(cur)
      BY <1>0, <1>2, ZeroNoMode DEF BootRetune, BootInv
    <3> QED
      BY <3>1, <1>m DEF Exact
  <2>4. /\ mmcm' \in [hz : Clock, locked : BOOLEAN, stale : BOOLEAN]
        /\ vtc' \in Mode \union {Zero} /\ fails' \in 0 .. MaxFails
    BY <1>2, <1>r, <2>1, Zenon DEF BootRetune
  <2>2. TypeOK'
    BY <1>0, <1>2, <2>4 DEF BootRetune, TypeOK, core, user
  <2>3. BootInv' /\ UpInv' /\ MapInv' /\ ToolInv'
    BY <1>0, <1>2
       DEF BootRetune, BootInv, UpInv, MapInv, ToolInv, Fits, Frames, Registered, core, user
  <2> QED
    BY <2>2, <2>3 DEF BaseInv
<1>3. ASSUME Prepare PROVE BaseInv'
  <2>0. cur \in Mode /\ drv = "prepare"
    BY <1>0, <1>3 DEF Prepare, BootInv
  <2>1. fb' = NewFb(cur) \/ fb' = fb
    BY <1>3 DEF Prepare, NewFb
  <2>2. fails' \in 0 .. MaxFails
    BY <1>0, <1>3, GeoAssumption DEF Prepare, Refuse, TypeOK
  <2>3. TypeOK'
    BY <1>0, <1>3, <1>m, <2>0, <2>1, <2>2 DEF Prepare, TypeOK, pipe, user
  <2>4. BootInv'
    BY <1>0, <1>3, <2>0, ZenonT(30) DEF Prepare, BootInv, NewFb, Frames, pipe
  <2>5. UpInv' /\ MapInv' /\ ToolInv'
    BY <1>0, <1>3, <2>0
       DEF Prepare, BootInv, UpInv, MapInv, ToolInv, Fits, Frames, Registered, user
  <2> QED
    BY <2>3, <2>4, <2>5 DEF BaseInv
<1>4. ASSUME BootStart PROVE BaseInv'
  <2>0. cur \in Mode /\ drv = "start"
    BY <1>0, <1>4 DEF BootStart, BootInv
  <2>1. vdma' = Started(cur.geo) \/ vdma' = Off
    BY <1>4 DEF BootStart
  <2>2. fails' \in 0 .. MaxFails
    BY <1>0, <1>4, GeoAssumption DEF BootStart, Refuse, TypeOK
  <2>3. TypeOK'
    BY <1>0, <1>4, <1>m, <1>w, <2>0, <2>1, <2>2 DEF BootStart, TypeOK, core, user
  <2>4. BootInv'
    BY <1>0, <1>4, <2>0 DEF BootStart, BootInv, NewFb, Started, Frames, core
  <2>5. UpInv' /\ MapInv' /\ ToolInv'
    BY <1>0, <1>4, <2>0
       DEF BootStart, BootInv, UpInv, MapInv, ToolInv, Fits, Frames, Registered, core, user
  <2> QED
    BY <2>3, <2>4, <2>5 DEF BaseInv
<1>5. ASSUME LinkUp PROVE BaseInv'
  <2>0. cur \in Mode /\ drv = "link"
    BY <1>0, <1>5 DEF LinkUp, BootInv
  <2>2. fails' \in 0 .. MaxFails
    BY <1>0, <1>5, GeoAssumption DEF LinkUp, Refuse, TypeOK
  <2>3. TypeOK'
    BY <1>0, <1>5, <2>0, <2>2 DEF LinkUp, TypeOK, core, user
  <2>4. BootInv'
    BY <1>0, <1>5, <2>0 DEF LinkUp, BootInv, NewFb, Started, Frames, core
  <2>5. UpInv' /\ MapInv' /\ ToolInv'
    BY <1>0, <1>5, <2>0
       DEF LinkUp, BootInv, UpInv, MapInv, ToolInv, Fits, Frames, Registered, core, user
  <2> QED
    BY <2>3, <2>4, <2>5 DEF BaseInv
<1>6. ASSUME Register PROVE BaseInv'
  <2>0. /\ cur \in Mode /\ drv = "register" /\ lock = "free" /\ info = NoVar
        /\ tool # "idle" => ~ design.incoherent
        /\ cur.geo \in Geo /\ FillVar(cur) \in Var /\ FillVar(cur).geo = cur.geo
    BY <1>0, <1>6, <1>m, VarModes DEF Register, BootInv, ToolInv, Registered
  <2>1. /\ design.incoherent => /\ fb = NewFb(cur) /\ fb.mode = cur /\ fb.geo = cur.geo
                                /\ fb.frames = Frames(cur.geo)
        /\ vdma = Started(cur.geo) /\ vdma.geo = cur.geo /\ vdma.stores = Frames(cur.geo)
    BY <1>0, <2>0 DEF BootInv, NewFb, Started
  <2>2. fails' \in 0 .. MaxFails
    BY <1>0, <1>6, GeoAssumption DEF Register, Refuse, TypeOK
  <2>3. CASE /\ design.incoherent /\ info' = FillVar(cur)
             /\ defio' = IF design.mmap THEN Size[cur.geo] * Frames(cur.geo) ELSE 0
    <3>1. info' \in Var /\ info' # NoVar /\ info'.geo = cur.geo /\ defio' \in Nat
      BY <2>0, <2>3, ZeroNoMode, FramesType
    <3>2. TypeOK'
      BY <1>0, <1>6, <2>2, <3>1 DEF Register, TypeOK, pipe, user
    <3>3. Size[cur.geo] * Frames(cur.geo) \in Nat
      BY <2>0, FramesType
    <3>4. MapInv'
      <4>1. Fits(cur.geo)'
        BY <1>6, <2>3, <3>3 DEF Register, Fits, Frames
      <4> QED
        BY <1>6, <2>0, <2>1, <2>3, <3>1, <4>1 DEF Register, MapInv, Fits, Frames
    <3>5. BootInv' /\ UpInv' /\ ToolInv'
      BY <1>0, <1>6, <2>0, <2>1, <2>3, <3>1, Zenon
         DEF Register, BootInv, UpInv, ToolInv, Frames, Registered, pipe, user
    <3> QED
      BY <3>2, <3>4, <3>5 DEF BaseInv
  <2>4. CASE UNCHANGED <<info, defio>>
    <3>2. TypeOK'
      BY <1>0, <1>6, <2>2, <2>4 DEF Register, TypeOK, pipe, user
    <3>5. BootInv' /\ UpInv' /\ ToolInv' /\ MapInv'
      BY <1>0, <1>6, <2>0, <2>4
         DEF Register, BootInv, UpInv, ToolInv, MapInv, Registered, pipe, user
    <3> QED
      BY <3>2, <3>5 DEF BaseInv
  <2> QED
    BY <1>6, <2>1, <2>3, <2>4 DEF Register
<1>7. ASSUME Exit PROVE BaseInv'
  <2>1. TypeOK'
    <3>1. vdma' \in [on : BOOLEAN, geo : Geo \union {NoGeo}, stores : {1, 2}]
          /\ fb' \in [mode : Mode \union {Zero}, geo : Geo \union {NoGeo}, frames : {1, 2}]
      BY <1>7, <1>w DEF Exit
    <3>2. retunable' \in BOOLEAN /\ defio' \in Nat
      BY <1>7, Zenon DEF Exit
    <3> QED
      BY <1>0, <1>7, <3>1, <3>2 DEF Exit, TypeOK, user
  <2>2. BootInv' /\ UpInv' /\ MapInv' /\ ToolInv'
    BY <1>0, <1>7, Zenon DEF Exit, BootInv, UpInv, MapInv, ToolInv, Registered, Off, user
  <2> QED
    BY <2>1, <2>2 DEF BaseInv
<1>8. ASSUME LateLock PROVE BaseInv'
  <2>1. mmcm' \in [hz : Clock, locked : BOOLEAN, stale : BOOLEAN]
    BY <1>0, <1>8, Zenon DEF LateLock, TypeOK
  <2>2. TypeOK'
    BY <1>0, <1>8, <2>1 DEF LateLock, TypeOK, soft, core, pipe, user
  <2>3. BootInv' /\ UpInv' /\ MapInv' /\ ToolInv'
    BY <1>0, <1>8
       DEF LateLock, BootInv, UpInv, MapInv, ToolInv, Fits, Frames, Registered, NewFb, Started,
           soft, core, pipe, user
  <2> QED
    BY <2>2, <2>3 DEF BaseInv
<1>9. ASSUME Halt PROVE BaseInv'
  <2>1. CASE Fail /\ Refuse /\ vdma' \in {vdma, Off} /\ UNCHANGED <<mmcm, vtc>>
    <3>1. /\ fails' \in 0 .. MaxFails /\ lock # "free"
          /\ mmcm' \in [hz : Clock, locked : BOOLEAN, stale : BOOLEAN] /\ vtc' \in Mode \union {Zero}
      BY <1>0, <1>9, <2>1, GeoAssumption DEF Halt, Refuse, TypeOK
    <3> QED
      BY <2>1, <3>1, FailBase
  <2>2. CASE /\ vdma' = Off
             /\ lock' = IF job.mode.clk # cur.clk THEN "retune" ELSE "start"
             /\ UNCHANGED <<soft, cur, core, job, mmcm, vtc, msa, user, fails>>
    <3>1. lock = "halt" /\ drv = "up"
      BY <1>0, <1>9 DEF Halt, BootInv
    <3>2. TypeOK'
      BY <1>0, <2>2, <1>w DEF TypeOK, soft, core, user
    <3>3. BootInv' /\ MapInv' /\ ToolInv'
      BY <1>0, <2>2, <3>1
         DEF BootInv, MapInv, ToolInv, Fits, Frames, Registered, Off, soft, core, user
    <3>4. UpInv'
      BY <1>0, <2>2, <3>1 DEF UpInv, Frames, Registered, Off, soft, core, user
    <3> QED
      BY <3>2, <3>3, <3>4 DEF BaseInv
  <2> QED
    BY <1>9, <2>1, <2>2 DEF Halt
<1>10. ASSUME Retune PROVE BaseInv'
  <2>0. lock = "retune" /\ drv = "up" /\ Exact(job.mode)
    BY <1>0, <1>10, Zenon DEF Retune, BootInv, UpInv
  <2>1. /\ job.mode.clk \in Clock /\ Ach[job.mode.clk] \in Clock
        /\ mmcm.stale \in BOOLEAN
        /\ Retuned(job.mode.clk) \/ RetuneRefused(job.mode.clk, mmcm.stale)
    BY <1>0, <1>10, <1>m, <2>0 DEF Retune, Exact, TypeOK
  <2>2. /\ mmcm' \in [hz : Clock, locked : BOOLEAN, stale : BOOLEAN]
        /\ vtc' \in Mode \union {Zero} /\ fails' \in 0 .. MaxFails
    BY <1>r, <2>1
  <2>3. CASE Fail /\ UNCHANGED vdma
    BY <2>0, <2>2, <2>3, FailBase
  <2>4. CASE lock' = "start" /\ UNCHANGED <<soft, cur, core, job, vdma, msa, user>>
    <3>2. TypeOK'
      BY <1>0, <2>2, <2>4 DEF TypeOK, soft, core, user
    <3>3. BootInv' /\ UpInv' /\ MapInv' /\ ToolInv'
      BY <1>0, <2>0, <2>4, Zenon
         DEF BootInv, UpInv, MapInv, ToolInv, Fits, Frames, Registered, soft, core, user
    <3> QED
      BY <3>2, <3>3 DEF BaseInv
  <2> QED
    BY <1>10, <2>3, <2>4 DEF Retune
<1>11. ASSUME Start PROVE BaseInv'
  <2>0. /\ lock = "start" /\ drv = "up" /\ Exact(job.mode) /\ job.mode \in Mode
        /\ job.fbmode = job.mode /\ job.mode.geo = info.geo /\ Registered
    BY <1>0, <1>11, Zenon DEF Start, BootInv, UpInv, Exact
  <2>1. CASE Fail /\ Refuse /\ vdma' = Off /\ UNCHANGED <<mmcm, vtc>>
    <3>1. /\ fails' \in 0 .. MaxFails
          /\ mmcm' \in [hz : Clock, locked : BOOLEAN, stale : BOOLEAN] /\ vtc' \in Mode \union {Zero}
      BY <1>0, <2>1, GeoAssumption DEF Refuse, TypeOK
    <3> QED
      BY <2>0, <2>1, <3>1, FailBase
  <2>2. CASE /\ vdma' = Started(job.mode.geo) /\ vtc' = job.mode /\ msa' = job.mode
             /\ cur' = job.mode /\ fb' = NewFb(job.mode)
             /\ lock' = "free" /\ job' = NoJob /\ Answer(job.by, TRUE)
             /\ UNCHANGED <<soft, defio, info, mmcm, want, old, fails>>
    <3>1. tool' \in {tool, "check", "idle"} /\ (tool' # "idle" => tool # "idle")
      BY <1>0, <2>2 DEF Answer, TypeOK
    <3>2. TypeOK'
      <4>1. /\ fb' \in [mode : Mode \union {Zero}, geo : Geo \union {NoGeo}, frames : {1, 2}]
            /\ vdma' \in [on : BOOLEAN, geo : Geo \union {NoGeo}, stores : {1, 2}]
            /\ job' \in [mode : Mode \union {Zero}, fbmode : Mode \union {Zero},
                        prev : Var \union {NoVar}, by : {"none", "tool", "console"}]
        BY <1>m, <1>w, <2>0, <2>2, Zenon
      <4>2. tool' \in {"idle", "put", "check", "ask", "revert"}
        BY <1>0, <3>1 DEF TypeOK
      <4> QED
        BY <1>0, <2>0, <2>2, <4>1, <4>2, Zenon DEF TypeOK, soft
    <3>3. /\ fb'.mode = cur' /\ fb'.geo = job.mode.geo /\ fb'.frames = Frames(job.mode.geo)
          /\ vdma'.geo = job.mode.geo /\ vdma'.stores = Frames(job.mode.geo)
          /\ job.mode.geo \in Geo
      BY <1>m, <2>0, <2>2, Zenon DEF NewFb, Started
    <3>4. BootInv' /\ MapInv' /\ ToolInv'
      BY <1>0, <2>0, <2>2, <3>1, <3>3, ZenonT(30)
         DEF BootInv, MapInv, ToolInv, Fits, Frames, Registered, soft
    <3>5. UpInv'
      BY <1>0, <2>0, <2>2, <3>3, Zenon DEF UpInv, Frames, Registered, soft
    <3> QED
      BY <3>2, <3>4, <3>5 DEF BaseInv
  <2> QED
    BY <1>11, <2>0, <2>1, <2>2, ZenonT(30) DEF Start
<1>12. ASSUME Reactivate PROVE BaseInv'
  <2>1. Registered /\ lock = "free" /\ info \in Var /\ Fits(info.geo)
    BY <1>0, <1>12 DEF Reactivate, UpInv, MapInv
  <2> QED
    BY <1>12, <2>1, SetParBase DEF Reactivate
\* The steps that change nothing but the tool.
<1>t. ASSUME UNCHANGED <<soft, cur, core, lock, job, mmcm, pipe, want, old, fails>>,
             tool' \in {"idle", "check", "ask", "revert"}, tool # "idle"
      PROVE  BaseInv'
  <2>1. TypeOK'
    BY <1>0, <1>t DEF TypeOK, soft, core, pipe
  <2>2. BootInv' /\ UpInv' /\ MapInv' /\ ToolInv'
    BY <1>0, <1>t, ZenonT(30)
       DEF BootInv, UpInv, MapInv, ToolInv, Fits, Frames, Registered, NewFb, Started,
           soft, core, pipe
  <2> QED
    BY <2>1, <2>2 DEF BaseInv
<1>13. ASSUME NEW v \in Var, PutVar(v), tool \in {"put", "revert"} PROVE BaseInv'
  <2>1. CASE UNCHANGED <<soft, cur, core, lock, job, mmcm, pipe, want, old, fails>>
              /\ (Answer("tool", TRUE) \/ Answer("tool", FALSE))
    <3>1. tool' \in {"idle", "check"}
      BY <2>1 DEF Answer
    <3> QED
      BY <1>13, <1>t, <2>1, <3>1
  <2>2. CASE design.incoherent /\ \E c \in CheckVar(v) : SetPar(c, info, "tool")
    <3>0. Registered /\ lock = "free" /\ info \in Var /\ Fits(info.geo)
      BY <1>0, <1>13, <2>2 DEF PutVar, ToolInv, UpInv, MapInv
    <3>1. PICK c \in CheckVar(v) : SetPar(c, info, "tool")
      BY <2>2
    <3>2. c \in Var /\ Fits(c.geo)
      BY <1>13, <3>1, CheckVarFits
    <3> QED
      BY <3>0, <3>1, <3>2, SetParBase
  <2> QED
    BY <1>13, <2>1, <2>2, Zenon DEF PutVar
<1>14. ASSUME ToolPut PROVE BaseInv'
  <2>1. ModeToVar(want) \in Var /\ tool = "put"
    BY <1>0, <1>14, VarModes DEF ToolPut, ToolInv
  <2> QED
    BY <1>13, <1>14, <2>1 DEF ToolPut
<1>15. ASSUME ToolRevert PROVE BaseInv'
  <2>1. CASE old \in Var
    BY <1>13, <1>15, <2>1 DEF ToolRevert
  <2>2. CASE ~ design.incoherent
    <3>1. tool' \in {"idle", "check"} /\ tool # "idle"
          /\ UNCHANGED <<soft, cur, core, lock, job, mmcm, pipe, want, old, fails>>
      BY <1>15, <2>2 DEF ToolRevert, PutVar, Answer
    <3> QED
      BY <1>t, <3>1
  <2> QED
    BY <1>0, <1>15, <2>1, <2>2 DEF ToolRevert, ToolInv
<1>16. ASSUME ToolCheck \/ ToolAnswer PROVE BaseInv'
  <2>1. /\ tool' \in {"idle", "ask", "revert"} /\ tool # "idle"
        /\ UNCHANGED <<soft, cur, core, lock, job, mmcm, pipe, want, old, fails>>
    BY <1>16 DEF ToolCheck, ToolAnswer
  <2> QED
    BY <1>t, <2>1
<1>17. ASSUME NEW m \in Asked, ToolStart(m) PROVE BaseInv'
  <2>0. m \in Mode
    BY GeoAssumption
  <2>1. TypeOK'
    BY <1>0, <1>17, <2>0 DEF ToolStart, TypeOK, soft, core, pipe
  <2>2. BootInv' /\ UpInv' /\ MapInv' /\ ToolInv'
    BY <1>0, <1>17, <2>0, Zenon
       DEF ToolStart, BootInv, UpInv, MapInv, ToolInv, Fits, Frames, Registered, NewFb, Started,
           soft, core, pipe
  <2> QED
    BY <2>1, <2>2 DEF BaseInv
<1>18. ASSUME UNCHANGED vars PROVE BaseInv'
  <2>1. TypeOK'
    BY <1>0, <1>18 DEF vars, TypeOK, soft, core, pipe, user
  <2>2. BootInv' /\ UpInv' /\ MapInv' /\ ToolInv'
    BY <1>0, <1>18, ZenonT(30)
       DEF vars, BootInv, UpInv, MapInv, ToolInv, Fits, Frames, Registered, NewFb, Started,
           soft, core, pipe, user
  <2> QED
    BY <2>1, <2>2 DEF BaseInv
<1> QED
  BY <1>1, <1>2, <1>3, <1>4, <1>5, <1>6, <1>7, <1>8, <1>9, <1>10, <1>11, <1>12, <1>14, <1>15,
     <1>16, <1>17, <1>18 DEF Next, BringUp, Switch, Tool
-----------------------------------------------------------------------------
(***************************************************************************)
(* The hardware: when the boot retune has worked, everything runs s.cur.   *)
(***************************************************************************)
\* A failed switch leaves no mode to be honest about.
LEMMA FailClock ==
  ASSUME BaseInv, BaseInv', ClockInv, lock # "free", Fail
  PROVE  ClockInv'
<1>1. drv' = "up" /\ cur' = Zero /\ lock' = "free"
  BY DEF BaseInv, BootInv, Fail, soft
<1> QED
  BY <1>1 DEF ClockInv

\* One step per action that touches the pipeline, the clock or s.cur.
LEMMA ClockNext ==
  ASSUME BaseInv, BaseInv', ClockInv, [Next]_vars
  PROVE  ClockInv'
<1>0. TypeOK /\ BootInv /\ UpInv /\ MapInv /\ ToolInv
  BY DEF BaseInv
<1>1. ASSUME Load PROVE ClockInv'
  BY <1>0, <1>1, Zenon DEF Load, ClockInv, BootInv
<1>2. ASSUME BootRetune PROVE ClockInv'
  <2>1. Exact(cur) /\ drv = "tune" /\ lock = "free" /\ TypeOK
    BY <1>0, <1>2, ZeroNoMode DEF BootRetune, BootInv
  <2>2. CASE Retuned(cur.clk)
    BY <1>2, <2>1, <2>2 DEF Retuned, Exact, BootRetune, ClockInv, Ticks
  <2>3. CASE RetuneRefused(cur.clk, TRUE)
    <3>1. mmcm'.stale
      BY <2>1, <2>3 DEF RetuneRefused, TypeOK
    <3> QED
      BY <1>2, <2>1, <3>1, Zenon DEF BootRetune, ClockInv, Ticks
  <2> QED
    BY <1>2, <2>2, <2>3, ZenonT(30) DEF BootRetune
<1>3. ASSUME Prepare PROVE ClockInv'
  BY <1>0, <1>3, ZenonT(30) DEF Prepare, ClockInv, Ticks, BootInv, pipe
<1>4. ASSUME BootStart PROVE ClockInv'
  BY <1>0, <1>4, Zenon DEF BootStart, ClockInv, Ticks, BootInv
<1>5. ASSUME LinkUp PROVE ClockInv'
  BY <1>0, <1>5 DEF LinkUp, ClockInv, Ticks, BootInv
<1>6. ASSUME Register PROVE ClockInv'
  <2>1. drv = "register" /\ lock = "free" /\ vdma = Started(cur.geo)
    BY <1>0, <1>6 DEF Register, BootInv
  <2>2. Scans(cur)
    BY <2>1 DEF ClockInv, Ticks, Scans, Started
  <2> QED
    BY <1>6, <2>1, <2>2 DEF Register, ClockInv, Ticks, Scans, pipe
<1>7. ASSUME Exit PROVE ClockInv'
  BY <1>7 DEF Exit, ClockInv
<1>8. ASSUME LateLock PROVE ClockInv'
  <2>1. mmcm'.locked /\ mmcm'.hz = mmcm.hz /\ mmcm'.stale = mmcm.stale
    BY <1>0, <1>8 DEF LateLock, TypeOK
  <2> QED
    BY <1>8, <2>1 DEF LateLock, ClockInv, Ticks, Scans, soft, pipe
<1>9. ASSUME Halt PROVE ClockInv'
  <2>1. CASE Fail
    BY <1>9, <2>1, FailClock DEF Halt
  <2>2. CASE /\ vdma' = Off
             /\ lock' = IF job.mode.clk # cur.clk THEN "retune" ELSE "start"
             /\ UNCHANGED <<soft, cur, core, job, mmcm, vtc, msa, user, fails>>
    <3>1. lock = "halt" /\ drv = "up" /\ retunable /\ job.mode \in Mode
      BY <1>0, <1>9 DEF Halt, BootInv, UpInv, Exact
    <3>2. job.mode.clk # 0
      BY <3>1, ClockAssumption DEF Mode
    <3>3. ASSUME job.mode.clk = cur.clk
          PROVE  Ticks(job.mode.clk)
      <4>1. cur # Zero
        BY <3>2, <3>3 DEF Zero
      <4> QED
        BY <3>1, <3>3, <4>1 DEF ClockInv, Ticks, Scans
    <3> QED
      BY <2>2, <3>1, <3>3 DEF ClockInv, Ticks, soft
  <2> QED
    BY <1>9, <2>1, <2>2 DEF Halt
<1>10. ASSUME Retune PROVE ClockInv'
  <2>0. lock = "retune" /\ drv = "up" /\ Exact(job.mode)
    BY <1>0, <1>10 DEF Retune, BootInv, UpInv
  <2>1. CASE Fail
    BY <2>0, <2>1, FailClock
  <2>2. CASE /\ Retuned(job.mode.clk) /\ lock' = "start"
             /\ UNCHANGED <<soft, cur, core, job, vdma, msa, user>>
    BY <2>0, <2>2 DEF Retuned, Exact, ClockInv, Ticks, soft
  <2> QED
    BY <1>10, <2>1, <2>2 DEF Retune
<1>11. ASSUME Start PROVE ClockInv'
  <2>0. lock = "start" /\ drv = "up"
    BY <1>0, <1>11 DEF Start, BootInv
  <2>1. CASE Fail
    BY <2>0, <2>1, FailClock
  <2>2. CASE /\ vdma' = Started(job.mode.geo) /\ vtc' = job.mode /\ msa' = job.mode
             /\ cur' = job.mode /\ lock' = "free"
             /\ UNCHANGED <<soft, mmcm>>
    BY <2>0, <2>2 DEF ClockInv, Ticks, Scans, Started, soft
  <2> QED
    BY <1>11, <2>1, <2>2, Zenon DEF Start
\* What leaves the pipeline alone, taking the locks included.
<1>t. ASSUME UNCHANGED <<soft, cur, mmcm, pipe>>, lock = "free",
             lock' \in {"free", "halt"} \/ UNCHANGED lock
      PROVE  ClockInv'
  BY <1>t DEF ClockInv, Ticks, Scans, soft, pipe
<1>s. ASSUME NEW v, NEW prev, NEW by, SetPar(v, prev, by), lock = "free" PROVE ClockInv'
  <2>1. UNCHANGED <<soft, cur, mmcm, pipe>> /\ lock' \in {"free", "halt"}
    BY <1>s, Zenon DEF SetPar
  <2> QED
    BY <1>s, <1>t, <2>1
<1>12. ASSUME Reactivate PROVE ClockInv'
  BY <1>12, <1>s DEF Reactivate
<1>u. ASSUME UNCHANGED <<soft, cur, lock, job, mmcm, pipe>> PROVE ClockInv'
  BY <1>u DEF ClockInv, Ticks, Scans, soft, pipe
<1>13. ASSUME NEW v, PutVar(v) PROVE ClockInv'
  <2>1. CASE \E c \in CheckVar(v) : SetPar(c, info, "tool")
    BY <1>13, <1>s, <2>1 DEF PutVar
  <2>2. CASE UNCHANGED <<soft, cur, core, lock, job, mmcm, pipe, want, old, fails>>
    BY <1>u, <2>2
  <2> QED
    BY <1>13, <2>1, <2>2, Zenon DEF PutVar
<1>14. ASSUME Tool PROVE ClockInv'
  <2>1. CASE ToolPut \/ ToolRevert
    BY <1>13, <2>1 DEF ToolPut, ToolRevert
  <2>2. CASE ToolCheck \/ ToolAnswer
    BY <1>u, <2>2 DEF ToolCheck, ToolAnswer
  <2> QED
    BY <1>14, <2>1, <2>2 DEF Tool
<1>15. ASSUME NEW m \in Asked, ToolStart(m) PROVE ClockInv'
  BY <1>15, <1>u DEF ToolStart
<1>16. ASSUME UNCHANGED vars PROVE ClockInv'
  BY <1>16, <1>u DEF vars
<1> QED
  BY <1>1, <1>2, <1>3, <1>4, <1>5, <1>6, <1>7, <1>8, <1>9, <1>10, <1>11, <1>12, <1>14, <1>15,
     <1>16 DEF Next, BringUp, Switch
-----------------------------------------------------------------------------
\* The inductive invariant is an invariant.
THEOREM BaseTheorem == Safety => []BaseInv
BY BaseInit, BaseNext, PTL DEF Safety

\* The variables keep their types through bring-up, switches and reloads.
THEOREM DpTypeTheorem == Safety => []TypeOK
<1>1. BaseInv => TypeOK
  BY DEF BaseInv
<1> QED
  BY <1>1, BaseTheorem, PTL

\* fbs.mode and s.cur, and the geometry and frames of the framebuffer and of the
\* VDMA, agree between switches whatever step of a switch failed (set_par and
\* switch_mode).
THEOREM ViewsTheorem == Safety => []ViewsAgree
<1>1. BaseInv => ViewsAgree
  BY DEF BaseInv, UpInv, ViewsAgree
<1> QED
  BY <1>1, BaseTheorem, PTL

\* No switch that check_var lets through makes the screen outgrow the page
\* tracking sized at registration.
THEOREM MappingTheorem == Safety => []MappingFits
<1>1. BaseInv => MappingFits
  BY DEF BaseInv, UpInv, MapInv, Fits, MappingFits
<1> QED
  BY <1>1, BaseTheorem, PTL

\* The MMCM is reprogrammed only while the VDMA is off (soct_dp_work and
\* switch_mode).
THEOREM RetunesTheorem == Safety => RetunesHalted
<1>1. BaseInv /\ [Next]_vars =>
        [mmcm'.hz # mmcm.hz \/ (mmcm.locked /\ ~ mmcm'.locked) => ~ vdma.on]_vars
  <2> SUFFICES ASSUME BaseInv, Next, vdma.on
               PROVE  mmcm'.hz = mmcm.hz /\ (mmcm.locked => mmcm'.locked)
    OBVIOUS
  <2>0. BootInv /\ UpInv /\ TypeOK
    BY DEF BaseInv
  <2>1. drv # "tune" /\ lock # "retune" /\ ~ BootRetune /\ ~ Retune
    BY <2>0, Zenon DEF BootInv, UpInv, BootRetune, Retune
  <2>2. CASE LateLock
    BY <2>0, <2>2 DEF LateLock, TypeOK
  <2>3. CASE UNCHANGED mmcm
    BY <2>3
  <2>4. CASE Tool \/ Reactivate \/ \E m \in Asked : ToolStart(m)
    BY <2>3, <2>4, Zenon DEF Tool, ToolPut, ToolRevert, ToolCheck, ToolAnswer, PutVar, SetPar,
                      Reactivate, ToolStart
  <2>5. CASE BringUp \/ Exit \/ Switch
    BY <2>1, <2>3, <2>5, Zenon DEF BringUp, Load, Prepare, BootStart, LinkUp, Register, Exit, Switch,
                            Halt, Start
  <2> QED
    BY <2>2, <2>4, <2>5 DEF Next
<1> QED
  BY <1>1, BaseTheorem, PTL DEF Safety, RetunesHalted

\* "The mode the pipeline is scanning right now": s.cur names what the VDMA,
\* the timing generator and the stream run, through every failure, and what the
\* MMCM runs unless the boot retune failed and none worked since.
THEOREM CacheTheorem == Safety => []CacheHonest
<1>1. Init => BaseInv /\ ClockInv
  BY BaseInit
<1>2. BaseInv /\ ClockInv /\ [Next]_vars => BaseInv' /\ ClockInv'
  BY BaseNext, ClockNext
<1>3. ClockInv => CacheHonest
  BY DEF ClockInv, CacheHonest
<1> QED
  BY <1>1, <1>2, <1>3, PTL DEF Safety
-----------------------------------------------------------------------------
(***************************************************************************)
(* What the var says: validating it again gives the mode that runs, except *)
(* for the var of the boot mode, whose clock may not survive the dot       *)
(* period; and what the tool has put and not yet read back.                *)
(***************************************************************************)
Settles(m) == Validate(VarToMode(info)) \subseteq {m}
BootVar ==
    /\ retunable /\ cur \in TuneValid(Boot)
    /\ info.geo = cur.geo /\ info.period = Period(cur.clk)

SettledInv ==
    /\ retunable /\ drv \in {"tune", "prepare", "start", "link", "register"} =>
          cur \in TuneValid(Boot)
    /\ Registered /\ lock = "free" /\ cur # Zero =>
          cur.geo = info.geo /\ (Settles(cur) \/ BootVar)
    /\ lock # "free" => Settles(job.mode)
    /\ tool = "check" /\ Registered =>
          \/ info = ModeToVar(want)
          \/ lock = "free" /\ cur # Zero /\ Settles(cur)
    /\ tool = "check" /\ lock # "free" => job.prev = info

\* The three outcomes of set_par, with what the validation of the var gives: no
\* mode, the mode that runs, or another one that is then driven.
Refused(v, prev, by) ==
    /\ Validate(VarToMode(v)) = {} /\ info' = prev /\ Answer(by, FALSE)
    /\ UNCHANGED <<fb, lock, job>>
Current(v, by) ==
    /\ Validate(VarToMode(v)) = {cur} /\ cur # Zero /\ cur.geo = v.geo
    /\ info' = v /\ Answer(by, TRUE) /\ UNCHANGED <<fb, lock, job>>
Driven(v, prev, by) ==
    /\ retunable /\ lock' = "halt" /\ info' = v /\ UNCHANGED <<fb, tool>>
    /\ \E m \in Mode : /\ m # cur /\ Validate(VarToMode(v)) = {m}
                       /\ job' = [mode |-> m, fbmode |-> m, prev |-> prev, by |-> by]

LEMMA SetParOutcomes ==
  ASSUME BaseInv, Registered, lock = "free",
         NEW v \in Var, NEW prev \in Var, NEW by \in {"tool", "console"}, SetPar(v, prev, by)
  PROVE  /\ UNCHANGED <<soft, cur, defio, mmcm, pipe, want, old, fails>>
         /\ Refused(v, prev, by) \/ Current(v, by) \/ Driven(v, prev, by)
<1> DEFINE x == VarToMode(v)
<1>0. x \in Mode /\ x.geo = v.geo /\ v.geo \in Geo
  BY VarModes DEF Var
<1>1. fb.mode = cur /\ UNCHANGED <<soft, cur, defio, mmcm, pipe, want, old, fails>>
  BY DEF BaseInv, UpInv, SetPar
<1> HIDE DEF x
<1>2. CASE Validate(x) = {}
  BY <1>1, <1>2, Zenon DEF SetPar, Refused, x
<1>3. ASSUME NEW m \in Validate(x), ~ retunable
      PROVE  m = cur /\ Validate(x) = {m} /\ m.geo = v.geo /\ m # Zero
  <2>1. m = cur /\ Validate(x) = {m} /\ m.geo = v.geo
    BY <1>0, <1>3 DEF Validate, StaticValid
  <2> QED
    BY <1>0, <2>1, GeoAssumption DEF Zero
<1>4. ASSUME NEW m \in Validate(x), retunable
      PROVE  m \in Mode /\ Validate(x) = {m} /\ Validate(m) = {m} /\ m.geo = v.geo /\ m # Zero
  <2>1. m \in TuneValid(x)
    BY <1>4 DEF Validate
  <2>2. Exact(m) /\ m.geo = v.geo
    BY <1>0, <2>1, TuneExact
  <2>3. m \in Mode /\ m # Zero
    BY <2>2, ZeroNoMode DEF Exact
  <2>4. TuneValid(x) = {m}
    BY <2>1 DEF TuneValid
  <2> QED
    BY <1>4, <2>2, <2>3, <2>4, TuneExact DEF Validate
<1>5. CASE \E m \in Validate(x) : m = fb.mode /\ info' = v /\ Answer(by, TRUE)
                                /\ UNCHANGED <<fb, lock, job>>
  BY <1>1, <1>3, <1>4, <1>5, ZenonT(30) DEF Current, x
<1>6. CASE \E m \in Validate(x) : m # fb.mode /\ Validate(m) = {}
  BY <1>1, <1>3, <1>4, <1>6, Zenon
<1>7. CASE \E m \in Validate(x) : \E w \in Validate(m) : m # fb.mode /\ w = cur
  BY <1>1, <1>3, <1>4, <1>7, Zenon
<1>8. CASE \E m \in Validate(x) : \E w \in Validate(m) :
             /\ m # fb.mode /\ lock' = "halt" /\ info' = v /\ UNCHANGED <<fb, tool>>
             /\ job' = [mode |-> w, fbmode |-> m, prev |-> prev, by |-> by]
  BY <1>1, <1>3, <1>4, <1>8, Zenon DEF Driven, x
<1> QED
  BY <1>1, <1>2, <1>5, <1>6, <1>7, <1>8, Zenon DEF SetPar, x

LEMMA SettledNext ==
  ASSUME BaseInv, BaseInv', SettledInv, [Next]_vars
  PROVE  SettledInv'
<1>0. TypeOK /\ BootInv /\ UpInv /\ ToolInv
  BY DEF BaseInv
\* Nothing the invariant speaks of changes, but the tool may go elsewhere.
<1>f. ASSUME UNCHANGED <<soft, cur, info, lock, job>>,
             tool' # "check" \/ UNCHANGED <<tool, want>>
      PROVE  SettledInv'
  BY <1>f, ZenonT(30) DEF SettledInv, Settles, BootVar, Validate, Registered, soft
\* While the driver is not up there is no var.
<1>b. ASSUME drv' # "up",
             retunable' /\ drv' \in {"tune", "prepare", "start", "link", "register"} =>
                cur' \in TuneValid(Boot)
      PROVE  SettledInv'
  <2>1. lock' = "free" /\ ~ Registered'
    BY <1>b DEF BaseInv, BootInv, Registered
  <2> QED
    BY <1>b, <2>1, Zenon DEF SettledInv
<1>1. ASSUME Load PROVE SettledInv'
  <2>1. drv' # "up" /\ (retunable' /\ drv' # "failed" => cur' \in TuneValid(Boot))
    BY <1>1 DEF Load
  <2> QED
    BY <1>b, <2>1
<1>2. ASSUME BootRetune \/ Prepare \/ BootStart \/ LinkUp PROVE SettledInv'
  <2>1. /\ drv \in {"tune", "prepare", "start", "link"} /\ drv' # "up"
        /\ UNCHANGED <<retunable, cur>>
    BY <1>2, ZenonT(30) DEF BootRetune, Prepare, BootStart, LinkUp
  <2> QED
    BY <1>b, <2>1 DEF SettledInv
<1>3. ASSUME Register PROVE SettledInv'
  <2>0. /\ drv = "register" /\ drv' = "up" /\ info = NoVar /\ lock = "free" /\ cur \in Mode
        /\ lock' = "free" /\ UNCHANGED <<retunable, cur, tool>>
        /\ retunable => cur \in TuneValid(Boot)
    BY <1>0, <1>3, ZenonT(30) DEF Register, BootInv, SettledInv, user
  <2>1. CASE design.incoherent /\ info' = FillVar(fb.mode)
    <3>1. tool' # "check"
      BY <1>0, <2>0, <2>1 DEF ToolInv, Registered
    <3>2. info'.geo = cur.geo /\ info'.period = Period(cur.clk)
      BY <1>0, <2>0, <2>1 DEF BootInv, NewFb, FillVar
    <3>3. Settles(cur)' \/ BootVar'
      BY <2>0, <3>2 DEF Settles, BootVar, Validate, StaticValid
    <3> QED
      BY <2>0, <3>1, <3>2, <3>3 DEF SettledInv
  <2>2. CASE UNCHANGED info
    BY <2>0, <2>2 DEF SettledInv, Registered
  <2> QED
    BY <1>3, <2>1, <2>2, ZenonT(30) DEF Register
<1>4. ASSUME Exit PROVE SettledInv'
  BY <1>b, <1>4 DEF Exit
<1>5. ASSUME LateLock PROVE SettledInv'
  BY <1>5, <1>f DEF LateLock, core, user
\* A switch under way keeps its mode and its var.
<1>h. ASSUME lock # "free", lock' # "free", UNCHANGED <<soft, cur, info, job, tool, want>>
      PROVE  SettledInv'
  BY <1>h, ZenonT(30) DEF SettledInv, Settles, Validate, Registered, soft
\* One that fails gives the var back, which a tool that waits had put.
<1>x. ASSUME lock # "free", Fail PROVE SettledInv'
  <2>1. /\ drv' = "up" /\ cur' = Zero /\ lock' = "free" /\ info' = job.prev /\ want' = want
        /\ tool' = "check" => tool = "check"
    BY <1>0, <1>x DEF BootInv, Fail, Answer, soft
  <2>2. tool = "check" => info = ModeToVar(want) /\ job.prev = info
    BY <1>0, <1>x DEF SettledInv, UpInv
  <2> QED
    BY <2>1, <2>2, Zenon DEF SettledInv
<1>6. ASSUME Halt \/ Retune PROVE SettledInv'
  <2>0. lock # "free"
    BY <1>6, Zenon DEF Halt, Retune
  <2>1. CASE Fail
    BY <1>x, <2>0, <2>1
  <2>2. CASE lock' # "free" /\ UNCHANGED <<soft, cur, info, job, tool, want>>
    BY <1>h, <2>0, <2>2
  <2> QED
    BY <1>6, <2>1, <2>2 DEF Halt, Retune, core, user
<1>7. ASSUME Start PROVE SettledInv'
  <2>0. /\ lock = "start" /\ drv = "up" /\ retunable /\ job.mode \in Mode
        /\ job.mode.geo = info.geo /\ Settles(job.mode)
    BY <1>0, <1>7, Zenon DEF Start, BootInv, UpInv, Exact, SettledInv
  <2>1. CASE Fail
    BY <1>x, <2>0, <2>1
  <2>2. CASE cur' = job.mode /\ lock' = "free" /\ UNCHANGED <<soft, info>>
    <3>1. drv' = "up" /\ cur' # Zero /\ cur'.geo = info'.geo
      BY <2>0, <2>2, ZeroNoMode DEF soft
    <3>2. Settles(cur)'
      BY <2>0, <2>2 DEF Settles, Validate, soft
    <3> QED
      BY <2>2, <3>1, <3>2, Zenon DEF SettledInv
  <2> QED
    BY <1>7, <2>1, <2>2, Zenon DEF Start
<1>8. ASSUME Reactivate PROVE SettledInv'
  <2>0. Registered /\ lock = "free" /\ info \in Var /\ SetPar(info, info, "console")
    BY <1>0, <1>8 DEF Reactivate, UpInv
  <2>1. /\ UNCHANGED <<soft, cur, want>>
        /\ Refused(info, info, "console") \/ Current(info, "console")
           \/ Driven(info, info, "console")
    BY <2>0, SetParOutcomes
  <2>2. CASE Refused(info, info, "console") \/ Current(info, "console")
    BY <1>f, <2>1, <2>2 DEF Refused, Current, Answer
  <2>3. CASE Driven(info, info, "console")
    <3>1. PICK m \in Mode :
            /\ m # cur /\ Validate(VarToMode(info)) = {m}
            /\ job' = [mode |-> m, fbmode |-> m, prev |-> info, by |-> "console"]
      BY <2>3 DEF Driven
    <3>2. lock' = "halt" /\ UNCHANGED <<info, tool>> /\ job'.mode = m /\ job'.prev = info
      BY <2>3, <3>1 DEF Driven
    <3>3. Settles(job.mode)'
      BY <2>1, <3>1, <3>2 DEF Settles, Validate, soft
    <3>4. tool = "check" => info = ModeToVar(want)
      BY <2>0, <3>1, Zenon DEF SettledInv, Settles
    <3>5. drv' = "up"
      BY <2>0, <2>1 DEF Registered, soft
    <3> QED
      BY <2>1, <3>2, <3>3, <3>4, <3>5, Zenon DEF SettledInv
  <2> QED
    BY <2>1, <2>2, <2>3
<1>9. ASSUME NEW v \in Var \union {NoVar}, PutVar(v), tool = "put" => v = ModeToVar(want),
             tool \in {"put", "revert"}, v = NoVar => ~ design.incoherent
      PROVE  SettledInv'
  <2>1. CASE /\ ~ design.incoherent \/ v = info
             /\ Answer("tool", TRUE) /\ UNCHANGED <<soft, cur, core, lock, job, want>>
    <3>1. CASE tool' # "check"
      BY <1>f, <2>1, <3>1 DEF core
    <3>2. CASE design.incoherent /\ tool' = "check"
      <4>1. info = ModeToVar(want) /\ lock = "free"
        BY <1>9, <2>1, <3>2 DEF Answer, PutVar
      <4> QED
        BY <2>1, <3>2, <4>1, Zenon DEF SettledInv, Settles, BootVar, Validate, Registered, soft, core
    <3>3. CASE ~ design.incoherent
      <4>1. ~ Registered /\ ~ Registered' /\ lock = "free" /\ lock' = "free"
        BY <1>0, <1>9, <2>1, <3>3, Zenon DEF UpInv, Registered, PutVar, soft, core
      <4> QED
        BY <2>1, <4>1, ZenonT(30) DEF SettledInv, soft
    <3> QED
      BY <3>1, <3>2, <3>3
  <2>2. CASE Answer("tool", FALSE) /\ UNCHANGED <<soft, cur, core, lock, job, want>>
    <3>1. tool' # "check"
      BY <2>2 DEF Answer
    <3> QED
      BY <1>f, <2>2, <3>1 DEF core
  <2>3. CASE design.incoherent /\ \E c \in CheckVar(v) : SetPar(c, info, "tool")
    <3>0. Registered /\ lock = "free" /\ info \in Var /\ v \in Var
      BY <1>0, <1>9, <2>3, Zenon DEF PutVar, ToolInv, UpInv
    <3>1. PICK c \in CheckVar(v) : SetPar(c, info, "tool")
      BY <2>3
    <3>2. c \in Var
      BY <3>0, <3>1, CheckVarFits
    <3>3. /\ UNCHANGED <<soft, cur, want>>
          /\ Refused(c, info, "tool") \/ Current(c, "tool") \/ Driven(c, info, "tool")
      BY <3>0, <3>1, <3>2, SetParOutcomes
    <3>4. drv' = "up"
      BY <3>0, <3>3 DEF Registered, soft
    <3>5. CASE Refused(c, info, "tool")
      <4>1. tool' # "check" /\ UNCHANGED <<info, lock, job>>
        BY <3>5 DEF Refused, Answer
      <4> QED
        BY <1>f, <3>3, <4>1
    <3>6. CASE Current(c, "tool")
      <4>1. cur' # Zero /\ cur'.geo = info'.geo /\ lock' = "free"
        BY <3>0, <3>3, <3>6, ZenonT(30) DEF Current
      <4>2. Settles(cur)'
        BY <3>3, <3>6, ZenonT(30) DEF Current, Settles, Validate, soft
      <4> QED
        BY <3>4, <4>1, <4>2 DEF SettledInv
    <3>7. CASE Driven(c, info, "tool")
      <4>1. lock' = "halt" /\ tool' # "check"
        BY <1>9, <3>7 DEF Driven
      <4>2. Settles(job.mode)'
        BY <3>3, <3>7 DEF Driven, Settles, Validate, soft
      <4> QED
        BY <3>4, <4>1, <4>2, Zenon DEF SettledInv
    <3> QED
      BY <3>3, <3>5, <3>6, <3>7
  <2> QED
    BY <1>9, <2>1, <2>2, <2>3, Zenon DEF PutVar
<1>10. ASSUME ToolPut PROVE SettledInv'
  <2>1. ModeToVar(want) \in Var /\ tool = "put"
    BY <1>0, <1>10, VarModes DEF ToolPut, ToolInv
  <2> QED
    BY <1>9, <1>10, <2>1, ZeroNoMode DEF ToolPut
<1>11. ASSUME ToolRevert PROVE SettledInv'
  <2>1. old \in Var \union {NoVar} /\ tool = "revert" /\ (old = NoVar => ~ design.incoherent)
    BY <1>0, <1>11, ZeroNoMode DEF ToolRevert, ToolInv, TypeOK
  <2> QED
    BY <1>9, <1>11, <2>1 DEF ToolRevert
<1>12. ASSUME ToolCheck \/ ToolAnswer \/ \E m \in Asked : ToolStart(m) PROVE SettledInv'
  <2>1. tool' # "check" /\ UNCHANGED <<soft, cur, info, lock, job>>
    BY <1>12, Zenon DEF ToolCheck, ToolAnswer, ToolStart, core
  <2> QED
    BY <1>f, <2>1
<1>13. ASSUME UNCHANGED vars PROVE SettledInv'
  BY <1>f, <1>13 DEF vars, core, user
<1> QED
  BY <1>1, <1>2, <1>3, <1>4, <1>5, <1>6, <1>7, <1>8, <1>10, <1>11, <1>12, <1>13
     DEF Next, BringUp, Switch, Tool

\* All layers together.
LEMMA SettledAlways == Safety => [](BaseInv /\ ClockInv /\ SettledInv)
<1>1. Init => BaseInv /\ ClockInv /\ SettledInv
  <2>1. Init => SettledInv
    BY DEF Init, SettledInv, Registered
  <2> QED
    BY <2>1, BaseInit
<1>2. BaseInv /\ ClockInv /\ SettledInv /\ [Next]_vars =>
        BaseInv' /\ ClockInv' /\ SettledInv'
  BY BaseNext, ClockNext, SettledNext
<1> QED
  BY <1>1, <1>2, PTL DEF Safety

\* The boot mode is the only one a re-activation may restart although it runs,
\* so where its clock survives the dot period of the var none is (set_par, the
\* early returns of switch_mode and the normalisation in soct_dp_work).
THEOREM ReactivationTheorem ==
  ASSUME BootConverges
  PROVE  Safety => ReactivationQuiet
<1>1. BaseInv /\ SettledInv /\ [Next]_vars =>
        [lock = "free" /\ lock' = "halt" /\ job'.by = "console" => cur = Zero]_vars
  <2> SUFFICES ASSUME BaseInv, SettledInv, Next,
                      lock = "free", lock' = "halt", job'.by = "console", cur # Zero
               PROVE  FALSE
    OBVIOUS
  <2>1. CASE Reactivate
    <3>0. Registered /\ info \in Var /\ SetPar(info, info, "console") /\ TypeOK
      BY <2>1 DEF Reactivate, BaseInv, UpInv
    <3>1. Driven(info, info, "console")
      BY <3>0, SetParOutcomes DEF Refused, Current
    <3>2. PICK m : retunable /\ m # cur /\ Validate(VarToMode(info)) = {m}
      BY <3>1 DEF Driven
    <3>3. BootVar
      BY <3>0, <3>2, Zenon DEF SettledInv, Settles
    <3>4. VarToMode(info) = [geo |-> cur.geo, clk |-> ClockOf(Period(cur.clk))]
      BY <3>3 DEF BootVar, VarToMode
    <3>5. TuneValid(VarToMode(info)) \subseteq {cur}
      BY <3>3, <3>4 DEF BootVar, BootConverges
    <3> QED
      BY <3>2, <3>5 DEF Validate
  <2>2. CASE ToolPut \/ ToolRevert
    <3>1. PICK v : v \in Var \union {NoVar} /\ PutVar(v) /\ (v = NoVar => ~ design.incoherent)
               /\ (design.incoherent => Registered)
      <4>1. CASE ToolPut
        BY <4>1, VarModes, ZeroNoMode DEF ToolPut, BaseInv, ToolInv, TypeOK
      <4>2. CASE ToolRevert
        BY <4>2, VarModes, ZeroNoMode DEF ToolRevert, BaseInv, ToolInv, TypeOK
      <4> QED
        BY <2>2, <4>1, <4>2
    <3>2. design.incoherent /\ \E c \in CheckVar(v) : SetPar(c, info, "tool")
      BY <3>1 DEF PutVar
    <3>3. PICK c \in CheckVar(v) : SetPar(c, info, "tool")
      BY <3>2
    <3>4. c \in Var /\ info \in Var
      BY <3>1, <3>2, <3>3, CheckVarFits, Zenon DEF BaseInv, UpInv
    <3>5. Driven(c, info, "tool")
      BY <3>1, <3>2, <3>3, <3>4, SetParOutcomes, Zenon DEF Refused, Current
    <3> QED
      BY <3>5 DEF Driven
  <2>3. CASE BringUp \/ Exit \/ LateLock \/ Switch
    BY <2>3 DEF BringUp, Load, BootRetune, Prepare, BootStart, LinkUp, Register, Exit, LateLock,
                Switch, Halt, Retune, Start
  <2>4. CASE ToolCheck \/ ToolAnswer \/ \E m \in Asked : ToolStart(m)
    BY <2>4 DEF ToolCheck, ToolAnswer, ToolStart
  <2> QED
    BY <2>1, <2>2, <2>3, <2>4 DEF Next, Tool
<1> QED
  BY <1>1, SettledAlways, PTL DEF Safety, ReactivationQuiet

\* When fbmode asks whether to keep the mode, the pipeline runs it, or is dark
\* and the request was for the var the device has (apply of the tool, set_par).
THEOREM ToolTheorem == Safety => ToolHonest
<1>1. BaseInv /\ ClockInv /\ SettledInv /\ [Next]_vars =>
        [tool = "check" /\ tool' = "ask" =>
            \/ cur.geo = want.geo /\ Scans(cur)
            \/ cur = Zero /\ info = ModeToVar(want)]_vars
  <2> SUFFICES ASSUME BaseInv, ClockInv, SettledInv, Next, tool = "check", tool' = "ask"
               PROVE  \/ cur.geo = want.geo /\ Scans(cur)
                      \/ cur = Zero /\ info = ModeToVar(want)
    OBVIOUS
  <2>1. ~ BringUp /\ ~ Exit /\ ~ LateLock
    BY DEF BringUp, Load, BootRetune, Prepare, BootStart, LinkUp, Register, Exit, LateLock, user
  <2>2. ~ Switch /\ ~ Reactivate
    BY DEF Switch, Halt, Retune, Start, Fail, Reactivate, SetPar, Answer, user
  <2>3. ToolCheck
    BY <2>1, <2>2 DEF Next, Tool, ToolPut, ToolRevert, ToolAnswer, ToolStart
  <2>4. lock = "free" /\ info.geo = want.geo /\ want \in Mode
    BY <2>3 DEF ToolCheck, BaseInv, ToolInv
  <2>5. Registered
    <3>1. info # NoVar
      BY <2>4, GeoAssumption DEF NoVar, Mode
    <3> QED
      BY <3>1 DEF BaseInv, BootInv, Registered
  <2>6. CASE cur = Zero
    BY <2>4, <2>5, <2>6 DEF SettledInv
  <2>7. CASE cur # Zero
    BY <2>4, <2>5, <2>7 DEF SettledInv, ClockInv, Registered
  <2> QED
    BY <2>6, <2>7
<1> QED
  BY <1>1, SettledAlways, PTL DEF Safety, ToolHonest
=============================================================================
