--------------------------- MODULE AgentSupervision ---------------------------
(***************************************************************************)
(* Who starts and stops the laptop agent of one target: attach and         *)
(* wrap-herdr sessions, and local-agent-startup with its monitor of the    *)
(* machine selection.  They share a pidfile, a flock around the start and  *)
(* the control socket; nothing guards the end.  Nobody waits for a child:  *)
(* a dead agent is a zombie, which kill(pid, 0) finds alive, until the     *)
(* process that started it ends.                                           *)
(*                                                                         *)
(* Targets share no file but the startup lock, so one target is modelled.  *)
(* Provisioning is EngineProvisioning; what the agent does with the queue  *)
(* is ForwardQueue.  A process starts at most one agent, which is named    *)
(* after it here; process IDs are not reused.                              *)
(***************************************************************************)
EXTENDS Integers, FiniteSets

CONSTANTS
  Sessions,   \* attach and wrap-herdr processes
  Startups,   \* local-agent-startup processes
  None,       \* no process, no pidfile
  Torn,       \* a pidfile that was truncated and not yet written
  MaxFlips,   \* bound on changes of the machine selection
  MaxFaults   \* bound on crashes and failed steps

ASSUME ConstantsAssumption ==
  /\ Sessions \cap Startups = {} /\ None \notin Sessions \cup Startups
  /\ Torn \notin Sessions \cup Startups \cup {None}
  /\ \A p \in Sessions \cup Startups : <<p>> \notin Sessions \cup Startups   \* monitors
  /\ MaxFlips \in Nat /\ MaxFaults \in Nat

VARIABLES
  pidfile,    \* the agent it names, None or Torn
  lock,       \* holder of the flock on the agent's lock file
  startLock,  \* holder of the flock on the startup lock file
  socket,     \* control socket: "none", "live" or "stale"
  selected,   \* herdr lists the machine as selected
  agent,      \* agent[p]: the state of the agent that p started
  thread,     \* thread[t]: where t is, and the agent it is about
  was,        \* was[u]: the selection the monitor of startup u last acted on
  flips, faults

files == <<pidfile, lock, startLock>>
vars == <<files, socket, selected, agent, thread, was, flips, faults>>

-----------------------------------------------------------------------------
Procs == Sessions \cup Startups
Mon(u) == <<u>>                             \* the monitor goroutine of u
Monitors == {Mon(u) : u \in Startups}
Threads == Procs \cup Monitors

Idle == [pc |-> "idle", agent |-> None]

Init ==
  /\ pidfile = None /\ lock = None /\ startLock = None /\ socket = "none"
  /\ selected \in BOOLEAN
  /\ agent = [a \in Procs |-> "unborn"]
  /\ thread = [t \in Threads |-> Idle]
  /\ was = [u \in Startups |-> FALSE] /\ flips = 0 /\ faults = 0

Fail == faults < MaxFaults /\ faults' = faults + 1
At(t, pc) == thread[t].pc = pc
Goto(t, pc) == thread' = [thread EXCEPT ![t].pc = pc]
With(t, pc, a) == thread' = [thread EXCEPT ![t] = [pc |-> pc, agent |-> a]]
Ended(p) == thread[p].pc \in {"done", "failed"}

Working(a) == agent[a] \in {"starting", "serving"}   \* nobody told it to stop
Running(a) == Working(a) \/ agent[a] = "told"
IsAlive(a) == Running(a) \/ agent[a] = "zombie"      \* kill(pid, 0) succeeds
Listed == IF pidfile \in Procs THEN {pidfile} ELSE {}

(* p exits: its flocks go, its monitor stops, its dead children are reaped. *)
Exits(p, pc) ==
  /\ thread' = [t \in Threads |->
       IF t = p THEN [pc |-> pc, agent |-> None]
       ELSE IF t = Mon(p) THEN Idle ELSE thread[t]]
  /\ agent' = [agent EXCEPT ![p] = IF @ = "zombie" THEN "gone" ELSE @]
  /\ lock' = IF lock = p THEN None ELSE lock
  /\ startLock' = IF startLock = p THEN None ELSE startLock

-----------------------------------------------------------------------------
(* Starting an agent *)

Attach(s) ==
  /\ At(s, "idle") /\ Goto(s, "lock")
  /\ UNCHANGED <<files, socket, selected, agent, was, flips, faults>>

LockIgnored(p) ==   \* Defect: the start is not serialised.
  /\ At(p, "lock")
  /\ lock' = p /\ Goto(p, "check")
  /\ UNCHANGED <<pidfile, startLock, socket, selected, agent, was, flips, faults>>

TakeLock(p) ==
  /\ At(p, "lock") /\ lock = None
  /\ lock' = p /\ Goto(p, "check")
  /\ UNCHANGED <<pidfile, startLock, socket, selected, agent, was, flips, faults>>

AfterSpawn(p) == IF p \in Sessions THEN "wait" ELSE "watch"

ReuseUnparsed(p) ==   \* Defect: a pidfile that does not parse is used.
  /\ At(p, "check")
  /\ \/ \E a \in Listed : IsAlive(a) /\ With(p, AfterSpawn(p), a)
     \/ pidfile = Torn /\ With(p, AfterSpawn(p), Torn)
  /\ lock' = None
  /\ UNCHANGED <<pidfile, startLock, socket, selected, agent, was, flips, faults>>

ReuseAgent(p) ==
  /\ At(p, "check")
  /\ \E a \in Listed : IsAlive(a) /\ With(p, AfterSpawn(p), a)
  /\ lock' = None
  /\ UNCHANGED <<pidfile, startLock, socket, selected, agent, was, flips, faults>>

SpawnAgent(p) ==
  /\ At(p, "check") /\ \A a \in Listed : ~IsAlive(a)
  /\ agent' = [agent EXCEPT ![p] = "starting"] /\ With(p, "record", p)
  /\ UNCHANGED <<files, socket, selected, was, flips, faults>>

(* WriteFile truncates, then writes.  The flock is released on return. *)
TruncatePidfile(p) ==
  /\ At(p, "record")
  /\ pidfile' = Torn /\ Goto(p, "write")
  /\ UNCHANGED <<lock, startLock, socket, selected, agent, was, flips, faults>>

WritePidfile(p) ==
  /\ At(p, "write")
  /\ pidfile' = thread[p].agent /\ lock' = None /\ Goto(p, AfterSpawn(p))
  /\ UNCHANGED <<startLock, socket, selected, agent, was, flips, faults>>

(* The start fails: no lock file, no process or no pidfile.  A session      *)
(* returns, local-agent-startup goes on.                                    *)
SpawnFails(p) ==
  /\ thread[p].pc \in {"check", "record", "write"} /\ Fail
  /\ IF p \in Sessions THEN Exits(p, "failed")
     ELSE Goto(p, "watch") /\ lock' = None /\ UNCHANGED <<startLock, agent>>
  /\ UNCHANGED <<pidfile, socket, selected, was, flips>>

-----------------------------------------------------------------------------
(* The rest of a session *)

(* WaitForSocket: that the file is there is enough. *)
SocketReady(s) ==
  /\ At(s, "wait") /\ socket # "none" /\ Goto(s, "herdr")
  /\ UNCHANGED <<files, socket, selected, agent, was, flips, faults>>

WaitsOn(s) ==   \* Defect: there is no deadline.
  /\ At(s, "wait") /\ socket = "none"
  /\ UNCHANGED vars

SocketTimeout(s) ==
  /\ At(s, "wait") /\ socket = "none" /\ Exits(s, "failed")
  /\ UNCHANGED <<pidfile, socket, selected, was, flips, faults>>

(* Defect: without a master there is nothing to tear down. *)
HerdrEndsAlone(s) ==
  /\ At(s, "herdr") /\ Goto(s, IF socket = "live" THEN "kill" ELSE "remove")
  /\ UNCHANGED <<files, socket, selected, agent, was, flips, faults>>

(* herdr ends, or the session is interrupted. *)
HerdrEnds(s) ==
  /\ At(s, "herdr") /\ Goto(s, "kill")
  /\ UNCHANGED <<files, socket, selected, agent, was, flips, faults>>

-----------------------------------------------------------------------------
(* teardownSession, by a session, by local-agent-startup or by its monitor *)

Told(S) == agent' = [a \in Procs |->
                      IF a \in S /\ Working(a) THEN "told" ELSE agent[a]]

Kill(t) ==
  /\ At(t, "kill")
  /\ Told({thread[t].agent}) /\ Goto(t, "remove")
  /\ UNCHANGED <<files, socket, selected, was, flips, faults>>

(* When the agent is gone or 10 s have passed.  The pidfile goes, whatever  *)
(* it names by now.                                                         *)
RemovePidfile(t) ==
  /\ At(t, "remove") /\ pidfile' = None /\ Goto(t, "exit")
  /\ UNCHANGED <<lock, startLock, socket, selected, agent, was, flips, faults>>

(* ssh -O exit *)
ExitMaster(t) ==
  /\ At(t, "exit") /\ socket' = IF socket = "live" THEN "none" ELSE socket
  /\ IF t \in Monitors THEN With(t, "idle", None) /\ UNCHANGED <<lock, startLock, agent>>
     ELSE Exits(t, "done")
  /\ UNCHANGED <<pidfile, selected, was, flips, faults>>

-----------------------------------------------------------------------------
(* local-agent-startup *)

(* The lock is not waited for.  Discovery may fail, or find no machine      *)
(* enabled.                                                                 *)
StartupBegins(u) ==
  /\ At(u, "idle")
  /\ \/ startLock = None /\ startLock' = u /\ Goto(u, "lock")
        /\ was' = [was EXCEPT ![u] = selected]
     \/ Goto(u, "done") /\ UNCHANGED <<startLock, was>>
  /\ UNCHANGED <<pidfile, lock, socket, selected, agent, flips, faults>>

(* A signal, or the death of herdr.  The agent to stop is the one the       *)
(* pidfile names and that runs.                                             *)
StartupEnds(u) ==
  /\ At(u, "watch")
  /\ \/ \E a \in Listed :
          IsAlive(a) /\ With(u, "kill", a) /\ UNCHANGED <<lock, startLock, agent>>
     \/ (\A a \in Listed : ~IsAlive(a)) /\ Exits(u, "done")
  /\ UNCHANGED <<pidfile, socket, selected, was, flips, faults>>

(* A tick of the monitor, which runs as long as the process does.  Nothing  *)
(* happens if discovery fails.                                              *)
Ticks(u) == At(Mon(u), "idle") /\ thread[u].pc \in {"watch", "kill", "remove", "exit"}

DeselectedIfConnected(u) ==   \* Defect: an agent without a master is left alone.
  /\ Ticks(u) /\ was[u] /\ ~selected
  /\ was' = [was EXCEPT ![u] = FALSE]
  /\ \/ \E a \in Listed : IsAlive(a) /\ socket = "live" /\ With(Mon(u), "kill", a)
     \/ (socket # "live" \/ \A a \in Listed : ~IsAlive(a)) /\ UNCHANGED thread
  /\ UNCHANGED <<files, socket, selected, agent, flips, faults>>

Deselected(u) ==
  /\ Ticks(u) /\ was[u] /\ ~selected
  /\ was' = [was EXCEPT ![u] = FALSE]
  /\ \/ \E a \in Listed : IsAlive(a) /\ With(Mon(u), "kill", a)
     \/ (\A a \in Listed : ~IsAlive(a)) /\ UNCHANGED thread
  /\ UNCHANGED <<files, socket, selected, agent, flips, faults>>

Reselected(u) ==
  /\ Ticks(u) /\ ~was[u] /\ selected
  /\ was' = [was EXCEPT ![u] = TRUE]
  /\ UNCHANGED <<files, socket, selected, agent, thread, flips, faults>>

-----------------------------------------------------------------------------
(* Agents, their master, and what befalls any process *)

(* EnsureMaster: a stale socket is removed first. *)
AgentConnects(a) ==
  /\ agent[a] = "starting"
  /\ agent' = [agent EXCEPT ![a] = "serving"] /\ socket' = "live"
  /\ UNCHANGED <<files, selected, thread, was, flips, faults>>

AgentDies(a) ==
  agent' = [agent EXCEPT ![a] = IF Ended(a) THEN "gone" ELSE "zombie"]

(* A told agent cancels its forwards and returns; the master stays. *)
AgentReturns(a) ==
  /\ agent[a] = "told" /\ AgentDies(a)
  /\ UNCHANGED <<files, socket, selected, thread, was, flips, faults>>

(* The master cannot be opened, or the agent crashes. *)
AgentFails(a) ==
  /\ Running(a) /\ Fail /\ AgentDies(a)
  /\ UNCHANGED <<files, socket, selected, thread, was, flips>>

MasterDies ==
  /\ socket = "live" /\ Fail /\ socket' \in {"none", "stale"}
  /\ UNCHANGED <<files, selected, agent, thread, was, flips>>

Crash(p) ==
  /\ thread[p].pc \notin {"idle", "done", "failed"} /\ Fail
  /\ Exits(p, "failed")
  /\ UNCHANGED <<pidfile, socket, selected, was, flips>>

SelectionChanges ==
  /\ flips < MaxFlips /\ flips' = flips + 1 /\ selected' = ~selected
  /\ UNCHANGED <<files, socket, agent, thread, was, faults>>

-----------------------------------------------------------------------------
Teardown(t) == Kill(t) \/ RemovePidfile(t) \/ ExitMaster(t)
Start(p) == ReuseAgent(p) \/ SpawnAgent(p) \/ TruncatePidfile(p) \/ WritePidfile(p)
Monitor(u) == Deselected(u) \/ Reselected(u) \/ Teardown(Mon(u))

Next ==
  \/ \E s \in Sessions : Attach(s) \/ SocketReady(s) \/ SocketTimeout(s) \/ HerdrEnds(s)
  \/ \E u \in Startups : StartupBegins(u) \/ StartupEnds(u) \/ Monitor(u)
  \/ \E p \in Procs : TakeLock(p) \/ Start(p) \/ SpawnFails(p) \/ Teardown(p) \/ Crash(p)
  \/ \E a \in Procs : AgentConnects(a) \/ AgentReturns(a) \/ AgentFails(a)
  \/ MasterDies \/ SelectionChanges

Spec == Init /\ [][Next]_vars

(* What was started runs on; a flock that is free again and again is got;   *)
(* the monitor's ticker ticks.  herdr need not end, nor the selection       *)
(* change, nor an agent connect.                                            *)
Fairness ==
  /\ \A p \in Procs : SF_vars(TakeLock(p)) /\ WF_vars(Start(p)) /\ WF_vars(Teardown(p))
  /\ \A s \in Sessions : WF_vars(SocketReady(s) \/ SocketTimeout(s))
  /\ \A u \in Startups : WF_vars(Monitor(u))
  /\ \A a \in Procs : WF_vars(AgentReturns(a))

FairSpec == Spec /\ Fairness

-----------------------------------------------------------------------------
TypeOK ==
  /\ pidfile \in Procs \cup {None, Torn}
  /\ lock \in Procs \cup {None} /\ startLock \in Startups \cup {None}
  /\ socket \in {"none", "live", "stale"} /\ selected \in BOOLEAN
  /\ agent \in [Procs -> {"unborn", "starting", "serving", "told", "zombie", "gone"}]
  /\ thread \in [Threads ->
       [pc : {"idle", "lock", "check", "record", "write", "wait", "watch", "herdr",
              "kill", "remove", "exit", "done", "failed"},
        agent : Procs \cup {None}]]
  /\ was \in [Startups -> BOOLEAN]
  /\ flips \in 0 .. MaxFlips /\ faults \in 0 .. MaxFaults

(* Whatever starts at once, a start never makes a second agent of one that  *)
(* works: an agent that the pidfile names, or is about to, stays the one it *)
(* names until it is told to stop, it dies, its start fails, or another     *)
(* agent's teardown takes the file away.                                    *)
Kept(a) ==
  /\ Working(a)
  /\ pidfile = a \/ \E p \in Procs : thread[p] \in [pc : {"record", "write"}, agent : {a}]
KeepsAgents ==
  \A a \in Procs : Kept(a) =>
    \/ Kept(a)' \/ ~Working(a)' \/ faults' # faults
    \/ \E t \in Threads : At(t, "remove") /\ ~At(t, "remove")'
NoAgentForgotten == [][KeepsAgents]_vars

(* Sessions that share an agent, and startups beside them, take each        *)
(* other's agent and pidfile away.  Even so, an agent a session started is  *)
(* told to stop before that session returns, unless the session failed.     *)
SessionStopsItsAgent ==
  \A s \in Sessions :
    thread[s].pc \in {"remove", "exit", "done"} => ~Working(s)

(* Every session gets through its start and its end: it waits neither for   *)
(* the lock, nor for the socket, nor for a dead agent for good.             *)
SessionsProceed ==
  \A s \in Sessions :
    thread[s].pc \notin {"idle", "herdr"} ~> At(s, "herdr") \/ Ended(s)

(* A machine that was selected, then deselected and stays so loses its      *)
(* agent, if the pidfile still names it when the monitor looks.             *)
DeselectIsFollowed ==
  \A u \in Startups, a \in Procs :
    (Ticks(u) /\ ~selected /\ was[u] /\ pidfile = a /\ Working(a))
      ~> (~Working(a) \/ selected \/ pidfile # a \/ Ended(u))

(* doc/portfwd-operator-guide.md 1: "No orphaned processes remain." *)
NoOrphans ==
  (\A p \in Procs : thread[p].pc = "idle" \/ Ended(p)) =>
    \A a \in Procs : ~Working(a)
=============================================================================
