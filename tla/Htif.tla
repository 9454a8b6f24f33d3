-------------------------------- MODULE Htif --------------------------------
(***************************************************************************)
(* System calls of a bare-metal program over the host-target interface:    *)
(* the harts (soctglue/src/syscall-htif.c, called from soct_syscall and    *)
(* from _soct_start_main) and the front-end server (htif_t::run,           *)
(* syscall_device_t::handle_syscall).  They share the target's memory: the *)
(* words tohost and fromhost and one argument buffer per call, on the      *)
(* stack of the calling hart.  The server reaches that memory through the  *)
(* debug module, one atomic access at a time (module Dtm).                 *)
(*                                                                         *)
(* A call is identified by its hart and its number; a buffer holds the     *)
(* arguments of a call until the server overwrites it with the result.     *)
(***************************************************************************)
EXTENDS Integers

CONSTANTS Hart,      \* the harts of the target
          Boot,      \* __boot_hart
          MaxCalls,  \* bound on the calls of one hart
          None       \* an empty tohost word

ASSUME BootAssumption == Boot \in Hart
ASSUME MaxCallsAssumption == MaxCalls \in Nat \ {0}
ASSUME NoneAssumption == None \notin Hart

\* What a call asks for: the probe SOCT_HTIF_DEV_TEST, a call the server
\* implements, SOCT_EXIT, or a number missing from its table.
Kind == {"probe", "call", "exit", "unknown"}

VARIABLES
  htif_lock,   \* the spinlock: 0 free, -1 taken
  tohost,      \* None, or the hart whose buffer the word points to
  fromhost,    \* 0, or 1: an answer
  buf,         \* buf[h]: the argument buffer of h's current or last call
  pc,          \* where each hart is in htif_syscall
  ncalls,      \* the number of calls each hart has made
  boot,        \* how far _soct_start_main is: "probe", "mainvars", "done"
  registered,  \* soct_handle_htif is in the handler table
  host,        \* where the server is in htif_t::run
  to_host,     \* the server's copy of tohost
  htif_mem,    \* the server's copy of the buffer
  nresp,       \* the length of fromhost_queue (every entry is the same answer)
  exitcode,    \* the hart whose SOCT_EXIT set m_exitcode, or None
  executed     \* the number of calls of each hart the server has carried out

memVars  == <<htif_lock, tohost, fromhost, buf>>
hartVars == <<pc, ncalls, boot, registered>>
hostVars == <<host, to_host, htif_mem, nresp, exitcode, executed>>
vars == <<memVars, hartVars, hostVars>>

Buffer == [kind : Kind, n : 0 .. MaxCalls, done : BOOLEAN]
HartPc == {"run", "test", "swap", "post", "poll", "ack", "unlock", "read", "parked"}
HostPc == {"loop", "clear", "fetch", "exec", "store", "readfrom", "writefrom",
           "stopped", "thrown"}

TypeOK ==
  /\ htif_lock \in {0, -1} /\ fromhost \in {0, 1}
  /\ tohost \in Hart \cup {None} /\ to_host \in Hart \cup {None}
  /\ buf \in [Hart -> Buffer] /\ htif_mem \in Buffer
  /\ pc \in [Hart -> HartPc] /\ host \in HostPc
  /\ ncalls \in [Hart -> 0 .. MaxCalls] /\ executed \in [Hart -> 0 .. MaxCalls]
  /\ boot \in {"probe", "mainvars", "done"} /\ registered \in BOOLEAN
  /\ nresp \in 0 .. 1
  /\ exitcode \in Hart \cup {None}

Init ==
  /\ htif_lock = 0 /\ fromhost = 0 /\ tohost = None
  /\ buf = [h \in Hart |-> [kind |-> "call", n |-> 0, done |-> TRUE]]
  /\ pc = [h \in Hart |-> "run"] /\ ncalls = [h \in Hart |-> 0]
  /\ boot = "probe" /\ registered = FALSE
  /\ host = "loop" /\ to_host = None /\ nresp = 0 /\ exitcode = None
  /\ htif_mem = [kind |-> "call", n |-> 0, done |-> TRUE]
  /\ executed = [h \in Hart |-> 0]

-----------------------------------------------------------------------------
(* The harts *)

\* htif_syscall(buf, wait) is entered with freshly filled arguments.
Call(h, kind) ==
  /\ pc[h] = "run" /\ ncalls[h] < MaxCalls
  /\ ncalls' = [ncalls EXCEPT ![h] = @ + 1]
  /\ buf' = [buf EXCEPT ![h] = [kind |-> kind, n |-> ncalls[h] + 1, done |-> FALSE]]
  /\ pc' = [pc EXCEPT ![h] = "test"]
  /\ UNCHANGED <<htif_lock, tohost, fromhost, boot, registered, hostVars>>

\* _soct_start_main probes for the server unless the device tree says there
\* is none, and asks a server that answered for the main arguments.
Probe == boot = "probe" /\ Call(Boot, "probe")

SkipProbe ==
  /\ boot = "probe" /\ pc[Boot] = "run"
  /\ boot' = "done"
  /\ UNCHANGED <<memVars, pc, ncalls, registered, hostVars>>

GetMainVars == boot = "mainvars" /\ Call(Boot, "call")

\* soct_syscall from the program: only the registered handler gets it, and
\* the other harts only run once the boot hart has released __boot_sync.
Syscall(h) ==
  /\ boot = "done" /\ registered
  /\ \E kind \in {"call", "exit", "unknown"} : Call(h, kind)

Step(h, from, to) == pc[h] = from /\ pc' = [pc EXCEPT ![h] = to]

\* spin_lock: wait until the lock looks free, then swap.
LockTest(h) ==
  /\ htif_lock = 0 /\ Step(h, "test", "swap")
  /\ UNCHANGED <<memVars, ncalls, boot, registered, hostVars>>
\* Mutant: the old value of the lock is not looked at.
LockSwapUnchecked(h) ==
  /\ Step(h, "swap", "post")
  /\ htif_lock' = -1
  /\ UNCHANGED <<tohost, fromhost, buf, ncalls, boot, registered, hostVars>>

LockSwap(h) ==
  /\ Step(h, "swap", IF htif_lock = 0 THEN "post" ELSE "test")
  /\ htif_lock' = -1
  /\ UNCHANGED <<tohost, fromhost, buf, ncalls, boot, registered, hostVars>>

Post(h) ==
  /\ Step(h, "post", "poll")
  /\ tohost' = h
  /\ UNCHANGED <<htif_lock, fromhost, buf, ncalls, boot, registered, hostVars>>

Poll(h) ==
  /\ fromhost # 0 /\ Step(h, "poll", "ack")
  /\ UNCHANGED <<memVars, ncalls, boot, registered, hostVars>>
\* Mutant: every call gives up, not only the probe.
PollTimeoutAny(h) ==
  /\ fromhost = 0 /\ Step(h, "poll", "run")
  /\ htif_lock' = 0
  /\ boot' = "done"
  /\ UNCHANGED <<tohost, fromhost, buf, ncalls, registered, hostVars>>

\* The probe gives up after SOCT_HTIF_PROBE_TIMEOUT_CYCLES; the request stays
\* in tohost, and no handler is registered.
PollTimeout(h) ==
  /\ buf[h].kind = "probe" /\ fromhost = 0 /\ Step(h, "poll", "run")
  /\ htif_lock' = 0
  /\ boot' = "done"
  /\ UNCHANGED <<tohost, fromhost, buf, ncalls, registered, hostVars>>
\* Mutant: the answer is left in fromhost.
AckKeepsFromhost(h) ==
  /\ Step(h, "ack", "unlock")
  /\ UNCHANGED <<memVars, ncalls, boot, registered, hostVars>>

Ack(h) ==
  /\ Step(h, "ack", "unlock")
  /\ fromhost' = 0
  /\ UNCHANGED <<htif_lock, tohost, buf, ncalls, boot, registered, hostVars>>

Unlock(h) ==
  /\ Step(h, "unlock", "read")
  /\ htif_lock' = 0
  /\ UNCHANGED <<tohost, fromhost, buf, ncalls, boot, registered, hostVars>>

\* The caller uses buf[0].  _exit parks the hart; the boot hart goes on with
\* its start-up sequence.
Return(h) ==
  /\ Step(h, "read", IF buf[h].kind = "exit" THEN "parked" ELSE "run")
  /\ IF boot = "probe"
       THEN boot' = "mainvars" /\ registered' = TRUE
       ELSE boot' = "done" /\ UNCHANGED registered
  /\ UNCHANGED <<memVars, ncalls, hostVars>>

-----------------------------------------------------------------------------
(* The server: htif_t::run *)

HostStep(from, to) == host = from /\ host' = to
\* Mutant: the loop does not look at the exit code.
ReadTohostUnguarded ==
  /\ HostStep("loop", IF tohost = None THEN "readfrom" ELSE "clear")
  /\ to_host' = tohost
  /\ UNCHANGED <<memVars, hartVars, htif_mem, nresp, exitcode, executed>>

ReadTohost ==
  /\ exitcode = None
  /\ HostStep("loop", IF tohost = None THEN "readfrom" ELSE "clear")
  /\ to_host' = tohost
  /\ UNCHANGED <<memVars, hartVars, htif_mem, nresp, exitcode, executed>>
\* Mutant: the request is left in tohost.
ClearTohostSkipped ==
  /\ HostStep("clear", "fetch")
  /\ UNCHANGED <<memVars, hartVars, to_host, htif_mem, nresp, exitcode, executed>>

ClearTohost ==
  /\ HostStep("clear", "fetch")
  /\ tohost' = None
  /\ UNCHANGED <<htif_lock, fromhost, buf, hartVars,
                 to_host, htif_mem, nresp, exitcode, executed>>

\* Mutant: a number missing from the table is skipped without an answer.
FetchIgnoresUnknown ==
  /\ HostStep("fetch", IF buf[to_host].kind = "unknown" THEN "readfrom" ELSE "exec")
  /\ htif_mem' = buf[to_host]
  /\ UNCHANGED <<memVars, hartVars, to_host, nresp, exitcode, executed>>

\* handle_syscall copies the buffer, looks the call up, carries it out, and
\* writes all eight words back.
Fetch ==
  /\ HostStep("fetch", IF buf[to_host].kind = "unknown" THEN "thrown" ELSE "exec")
  /\ htif_mem' = buf[to_host]
  /\ UNCHANGED <<memVars, hartVars, to_host, nresp, exitcode, executed>>

Exec ==
  /\ HostStep("exec", "store")
  /\ executed' = [executed EXCEPT ![to_host] = @ + 1]
  /\ exitcode' = IF htif_mem.kind = "exit" THEN to_host ELSE exitcode
  /\ UNCHANGED <<memVars, hartVars, to_host, htif_mem, nresp>>

Store ==
  /\ HostStep("store", "readfrom")
  /\ buf' = [buf EXCEPT ![to_host] = [htif_mem EXCEPT !.done = TRUE]]
  /\ nresp' = nresp + 1
  /\ UNCHANGED <<htif_lock, tohost, fromhost, hartVars,
                 to_host, htif_mem, exitcode, executed>>

ReadFromhost ==
  /\ HostStep("readfrom", IF nresp > 0 /\ fromhost = 0 THEN "writefrom" ELSE "loop")
  /\ UNCHANGED <<memVars, hartVars, to_host, htif_mem, nresp, exitcode, executed>>
WriteFromhost ==
  /\ HostStep("writefrom", "loop")
  /\ fromhost' = 1 /\ nresp' = nresp - 1
  /\ UNCHANGED <<htif_lock, tohost, buf, hartVars,
                 to_host, htif_mem, exitcode, executed>>

Stop ==
  /\ exitcode # None /\ HostStep("loop", "stopped")
  /\ UNCHANGED <<memVars, hartVars, to_host, htif_mem, nresp, exitcode, executed>>

-----------------------------------------------------------------------------
HartStep(h) == \/ LockTest(h) \/ LockSwap(h) \/ Post(h) \/ Poll(h)
               \/ PollTimeout(h) \/ Ack(h) \/ Unlock(h) \/ Return(h)
Start == Probe \/ SkipProbe \/ GetMainVars \/ \E h \in Hart : Syscall(h)
Server == \/ ReadTohost \/ ClearTohost \/ Fetch \/ Exec \/ Store
          \/ ReadFromhost \/ WriteFromhost \/ Stop

Next == Start \/ (\E h \in Hart : HartStep(h)) \/ Server

Safety == Init /\ [][Next]_vars

\* The server's thread and every hart keep running.  Nothing orders the harts
\* that spin on the lock, so no fairness beyond that is assumed for it.
Spec == Safety /\ WF_vars(Server) /\ \A h \in Hart : WF_vars(HartStep(h))

-----------------------------------------------------------------------------
(* Properties *)

\* The probe was abandoned while its request was still out.
TimedOut == boot = "done" /\ ~registered /\ ncalls[Boot] = 1

\* Between taking and releasing htif_lock a hart is alone (spinlock.h:27-44):
\* two harts never share the tohost/fromhost pair.
LockExclusive ==
  \A g, h \in Hart :
    /\ pc[g] \in {"post", "poll", "ack", "unlock"}
    /\ pc[h] \in {"post", "poll", "ack", "unlock"}
    => g = h

\* A call that returns finds the result of that very call in its buffer,
\* whatever the other harts do: fromhost carries no tag that says whose
\* answer it is (syscall-htif.c:26-37, 58).
ResultIsOwn ==
  \A h \in Hart : pc[h] = "read" =>
    /\ buf[h].done /\ buf[h].n = ncalls[h]
    /\ executed[h] = ncalls[h]

\* The server carries a call out at most once, also when the caller gave up
\* on it (htif.hpp:38-42).
AtMostOnce == \A h \in Hart : executed[h] <= ncalls[h]

\* The server writes a result only into the buffer of a hart that still waits
\* for it.  The exception is an abandoned probe, whose buffer was on a stack
\* frame that is gone by then (syscall-htif.c:30-32, syscall_device.cpp:400).
WriteBackIsAwaited == host = "store" => pc[to_host] = "poll" \/ TimedOut

\* Nobody overwrites a request that the server has not read, and the server
\* clears no request but the one it read (htif.hpp:38-40, syscall-htif.c:25).
TohostNeverLost ==
  [][tohost' # tohost => \/ tohost = None
                         \/ tohost' = None /\ tohost = to_host]_vars

\* Once a SOCT_EXIT has been carried out, the exit code stands and no other
\* call is carried out (htif.hpp:37, 73-75).
ExitIsFinal ==
  [][exitcode # None => exitcode' = exitcode /\ executed' = executed]_vars

\* The call whose result h has: the one in its buffer once htif_syscall has
\* returned.  An abandoned probe never returns one.
Result ==
  [h \in Hart |-> IF /\ pc[h] \in {"run", "parked"} /\ buf[h].done
                     /\ ~(TimedOut /\ h = Boot)
                  THEN buf[h].n ELSE ncalls[h] - 1]

Calls == INSTANCE Syscalls
           WITH made <- ncalls, carried <- executed, result <- Result, over <- exitcode

\* The lock, the two words and the buffers amount to what a system call is for
\* the program: carried out once, before it returns, with its own result, and
\* never after SOCT_EXIT (syscall-htif.c:18-40, 58; htif.hpp:37-75).
ImplementsSyscalls == Calls!Spec

\* A posted request is answered, unless the server ended because of a call of
\* some other hart, or the probe gave up.
Answered ==
  \A h \in Hart :
    pc[h] = "poll" ~> pc[h] = "ack" \/ host \in {"stopped", "thrown"} \/ TimedOut
=============================================================================
