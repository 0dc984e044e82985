----------------------- MODULE AgentSupervision_proofs -----------------------
(* Proofs of the types of AgentSupervision, of SessionStopsItsAgent and of  *)
(* NoAgentForgotten.                                                        *)
EXTENDS AgentSupervision, TLAPS

(* What the state of process p says of the flock, the pidfile and the agent *)
(* it started.  From the check on it has the flock, so that what it found   *)
(* in the pidfile stays so: nothing, or an agent that does not work.        *)
ProcOK(p) ==
  /\ thread[p].pc \in {"check", "record", "write"} => lock = p
  /\ thread[p].pc \in {"idle", "lock", "check"} => agent[p] = "unborn"
  /\ thread[p].pc \in {"record", "write"} => thread[p].agent = p /\ agent[p] # "unborn"
  /\ thread[p].pc = "record" => \A a \in Listed : ~Working(a)
  /\ thread[p].pc = "write" => pidfile \notin Procs
  /\ p \in Sessions /\ Working(p) =>
       \/ thread[p].pc = "failed"
       \/ thread[p].pc \in {"record", "write", "wait", "herdr", "kill"} /\ thread[p].agent = p

PidfileOK == pidfile \in Procs => agent[pidfile] # "unborn"

IInv == TypeOK /\ (\A p \in Procs : ProcOK(p)) /\ PidfileOK

States == {"unborn", "starting", "serving", "told", "zombie", "gone"}
PCs == {"idle", "lock", "check", "record", "write", "wait", "watch", "herdr",
        "kill", "remove", "exit", "done", "failed"}
Local == [pc : PCs, agent : Procs \cup {None}]

(* No agent is started by this step. *)
NoBirth ==
  \A a \in Procs : /\ Working(a)' => Working(a)
                   /\ agent'[a] = "unborn" <=> agent[a] = "unborn"

(* What a step of another leaves of what ProcOK(q) speaks of. *)
Untouched(q) ==
  /\ thread'[q] = thread[q]
  /\ agent'[q] = "unborn" <=> agent[q] = "unborn"
  /\ Working(q)' => Working(q)
  /\ lock = q => /\ lock' = q
                 /\ pidfile' \in Procs => pidfile' = pidfile
                 /\ \A a \in Procs : Working(a)' => Working(a)

LEMMA Names ==
  /\ \A u \in Startups : u \in Procs /\ Mon(u) \notin Procs /\ Mon(u) \in Threads
  /\ \A p \in Procs : p \in Threads
  /\ None \notin Procs /\ Torn \notin Procs /\ Torn # None
BY ConstantsAssumption DEF Procs, Mon, Monitors, Threads

LEMMA UntouchedOK ==
  ASSUME NEW q \in Procs, ProcOK(q), Untouched(q) PROVE ProcOK(q)'
BY DEF ProcOK, Untouched, Listed

LEMMA ThreadSet ==
  ASSUME TypeOK, NEW t \in Threads, NEW r, thread' = [thread EXCEPT ![t] = r]
  PROVE  /\ thread'[t] = r /\ \A x \in Threads \ {t} : thread'[x] = thread[x]
         /\ r \in Local => thread' \in [Threads -> Local]
BY DEF TypeOK, Local, PCs

LEMMA GotoSet ==
  ASSUME TypeOK, NEW t \in Threads, NEW pc \in PCs, Goto(t, pc)
  PROVE  /\ thread'[t] = [pc |-> pc, agent |-> thread[t].agent]
         /\ \A x \in Threads \ {t} : thread'[x] = thread[x]
         /\ thread' \in [Threads -> Local]
<1>1. thread[t] \in Local /\ thread \in [Threads -> Local]
  BY DEF TypeOK, Local, PCs
<1>2. [thread[t] EXCEPT !.pc = pc] = [pc |-> pc, agent |-> thread[t].agent]
  BY <1>1 DEF Local
<1>3. [pc |-> pc, agent |-> thread[t].agent] \in Local
  BY <1>1 DEF Local
<1> QED BY <1>1, <1>2, <1>3 DEF Goto

LEMMA WithSet ==
  ASSUME TypeOK, NEW t \in Threads, NEW pc \in PCs, NEW a \in Procs \cup {None},
         With(t, pc, a)
  PROVE  /\ thread'[t] = [pc |-> pc, agent |-> a]
         /\ \A x \in Threads \ {t} : thread'[x] = thread[x]
         /\ thread' \in [Threads -> Local]
<1>1. [pc |-> pc, agent |-> a] \in Local
  BY DEF Local
<1> QED BY <1>1, ThreadSet DEF With

LEMMA ExitsSet ==
  ASSUME TypeOK, NEW p \in Procs, NEW pc \in PCs, Exits(p, pc)
  PROVE  /\ thread' \in [Threads -> Local] /\ thread'[p] = [pc |-> pc, agent |-> None]
         /\ \A x \in Procs \ {p} : thread'[x] = thread[x]
         /\ agent' \in [Procs -> States] /\ NoBirth
         /\ lock' \in {lock, None} /\ (lock # p => lock' = lock)
         /\ startLock' \in {startLock, None}
<1>1. [pc |-> pc, agent |-> None] \in Local /\ Idle \in Local
  BY DEF Local, Idle, PCs
<1>2. thread' \in [Threads -> Local] /\ thread'[p] = [pc |-> pc, agent |-> None]
  BY <1>1, Names DEF Exits, TypeOK, Local, PCs
<1>3. \A x \in Procs \ {p} : x # Mon(p)
  BY ConstantsAssumption DEF Mon, Procs
<1>4. \A x \in Procs \ {p} : thread'[x] = thread[x]
  BY <1>3, Names DEF Exits
<1>5. agent' \in [Procs -> States] /\ NoBirth
  BY DEF Exits, TypeOK, States, NoBirth, Working
<1> QED BY <1>2, <1>4, <1>5 DEF Exits

LEMMA ProcsAreThreads == Procs \subseteq Threads
BY DEF Threads

LEMMA StepOfOne ==
  ASSUME IInv, NEW p \in Procs, TypeOK', ProcOK(p)', PidfileOK',
         \A x \in Procs \ {p} : Untouched(x)
  PROVE  IInv'
BY UntouchedOK DEF IInv

LEMMA StepOfNone ==
  ASSUME IInv, TypeOK', PidfileOK', \A x \in Procs : Untouched(x)
  PROVE  IInv'
BY UntouchedOK DEF IInv

LEMMA FaultsOK ==
  ASSUME TypeOK, Fail \/ UNCHANGED faults PROVE faults' \in 0 .. MaxFaults
BY ConstantsAssumption DEF Fail, TypeOK

(* Steps that take p further and change neither agents nor pidfile.         *)
LEMMA WalkKeepsIInv ==
  ASSUME IInv, NEW p \in Procs, TakeLock(p) \/ ReuseAgent(p)
                 \/ (p \in Sessions /\ (Attach(p) \/ SocketReady(p) \/ HerdrEnds(p)))
  PROVE  IInv'
<1>1. p \in Threads /\ TypeOK /\ ProcOK(p) /\ thread[p] \in Local
  BY Names DEF IInv, TypeOK, Local, PCs
<1>2. /\ UNCHANGED <<pidfile, startLock, socket, selected, agent, was, flips, faults>>
      /\ lock' \in {lock, None, p}
  BY DEF TakeLock, ReuseAgent, Attach, SocketReady, HerdrEnds, files
<1>3. /\ \A x \in Procs \ {p} : thread'[x] = thread[x]
      /\ thread' \in [Threads -> Local]
      /\ \/ TakeLock(p) /\ thread'[p].pc = "check"
         \/ ReuseAgent(p) /\ thread'[p].pc \in {"wait", "watch"}
         \/ Attach(p) /\ thread'[p].pc = "lock"
         \/ SocketReady(p) /\ thread'[p] = [pc |-> "herdr", agent |-> thread[p].agent]
         \/ HerdrEnds(p) /\ thread'[p] = [pc |-> "kill", agent |-> thread[p].agent]
  <2>1. CASE ReuseAgent(p)
    <3>1. PICK a \in Procs : With(p, AfterSpawn(p), a)
      BY <2>1 DEF ReuseAgent, Listed
    <3>2. AfterSpawn(p) \in {"wait", "watch"} /\ AfterSpawn(p) \in PCs
      BY DEF AfterSpawn, PCs
    <3>3. /\ thread'[p] = [pc |-> AfterSpawn(p), agent |-> a]
          /\ \A x \in Threads \ {p} : thread'[x] = thread[x]
          /\ thread' \in [Threads -> Local]
      BY <1>1, <3>1, <3>2, WithSet
    <3> QED BY <2>1, <3>2, <3>3, ProcsAreThreads
  <2>2. CASE ~ReuseAgent(p)
    <3> DEFINE Leads(pc) ==
          \/ TakeLock(p) /\ pc = "check"
          \/ Attach(p) /\ pc = "lock"
          \/ SocketReady(p) /\ pc = "herdr"
          \/ HerdrEnds(p) /\ pc = "kill"
    <3>1. {"check", "lock", "herdr", "kill"} \subseteq PCs
      BY DEF PCs
    <3>2. PICK pc \in {"check", "lock", "herdr", "kill"} : Goto(p, pc) /\ Leads(pc)
      BY <2>2 DEF TakeLock, Attach, SocketReady, HerdrEnds
    <3>3. /\ thread'[p] = [pc |-> pc, agent |-> thread[p].agent]
          /\ \A x \in Threads \ {p} : thread'[x] = thread[x]
          /\ thread' \in [Threads -> Local]
      BY <1>1, <3>1, <3>2, GotoSet
    <3> QED BY <3>2, <3>3, ProcsAreThreads
  <2> QED BY <2>1, <2>2
<1>4. TypeOK'
  BY <1>1, <1>2, <1>3 DEF TypeOK, Local, PCs, Procs
<1>5. PidfileOK'
  BY <1>2 DEF IInv, PidfileOK
<1>6. \A x \in Procs \ {p} : Untouched(x)
  <2>1. lock \in {None, p} \/ lock' = lock
    BY <1>1, <1>2 DEF TakeLock, ReuseAgent, Attach, SocketReady, HerdrEnds, ProcOK, At, files
  <2> QED BY <1>2, <1>3, <2>1, Names DEF Untouched, Working
<1>7. ProcOK(p)'
  <2>1. CASE TakeLock(p)
    BY <1>1, <1>2, <1>3, <2>1 DEF ProcOK, TakeLock, Working, At, Attach, ReuseAgent, SocketReady, HerdrEnds
  <2>2. CASE ReuseAgent(p)
    BY <1>1, <1>2, <1>3, <2>2 DEF ProcOK, TakeLock, Working, At, Attach, ReuseAgent, SocketReady, HerdrEnds
  <2>3. CASE Attach(p)
    BY <1>1, <1>2, <1>3, <2>3 DEF ProcOK, TakeLock, Working, At, Attach, ReuseAgent, SocketReady, HerdrEnds
  <2>4. CASE SocketReady(p) \/ HerdrEnds(p)
    BY <1>1, <1>2, <1>3, <2>4 DEF ProcOK, TakeLock, Working, At, Attach, ReuseAgent, SocketReady, HerdrEnds
  <2> QED BY <2>1, <2>2, <2>3, <2>4, <1>3
<1> QED BY <1>4, <1>5, <1>6, <1>7, StepOfOne

LEMMA SpawnKeepsIInv ==
  ASSUME IInv, NEW p \in Procs, SpawnAgent(p) PROVE IInv'
<1>1. p \in Threads /\ TypeOK /\ ProcOK(p) /\ "record" \in PCs
  BY Names DEF IInv, PCs
<1>2. /\ thread'[p] = [pc |-> "record", agent |-> p]
      /\ \A x \in Procs \ {p} : thread'[x] = thread[x]
      /\ thread' \in [Threads -> Local]
  BY <1>1, WithSet, Names DEF SpawnAgent
<1>3. /\ agent'[p] = "starting" /\ \A a \in Procs \ {p} : agent'[a] = agent[a]
      /\ agent' \in [Procs -> States] /\ agent[p] = "unborn" /\ lock = p
  BY <1>1 DEF SpawnAgent, TypeOK, States, ProcOK, At
<1>4. UNCHANGED <<pidfile, lock, startLock, socket, selected, was, flips, faults>>
  BY DEF SpawnAgent, files
<1>5. TypeOK'
  BY <1>1, <1>2, <1>3, <1>4 DEF TypeOK, Local, PCs, States
<1>6. PidfileOK'
  BY <1>3, <1>4 DEF IInv, PidfileOK
<1>7. \A x \in Procs \ {p} : Untouched(x)
  BY <1>2, <1>3, <1>4 DEF Untouched, Working
<1>8. \A a \in Listed' : ~Working(a)'
  BY <1>3, <1>4 DEF SpawnAgent, Listed, IInv, PidfileOK, IsAlive, Running, Working
<1>9. ProcOK(p)'
  BY <1>2, <1>3, <1>4, <1>8 DEF ProcOK
<1> QED BY <1>5, <1>6, <1>7, <1>9, StepOfOne

LEMMA RecordKeepsIInv ==
  ASSUME IInv, NEW p \in Procs, TruncatePidfile(p) \/ WritePidfile(p) PROVE IInv'
<1>1. p \in Threads /\ TypeOK /\ ProcOK(p) /\ thread[p].agent = p /\ lock = p
      /\ agent[p] # "unborn"
  BY Names DEF IInv, ProcOK, TruncatePidfile, WritePidfile, At
<1>2. UNCHANGED <<startLock, socket, selected, agent, was, flips, faults>>
  BY DEF TruncatePidfile, WritePidfile
<1>3. /\ \A x \in Procs \ {p} : thread'[x] = thread[x]
      /\ thread' \in [Threads -> Local] /\ thread'[p].agent = p
      /\ \/ TruncatePidfile(p) /\ thread'[p].pc = "write"
         \/ WritePidfile(p) /\ thread'[p].pc = AfterSpawn(p)
  <2>1. AfterSpawn(p) \in PCs /\ "write" \in PCs
    BY DEF AfterSpawn, PCs
  <2>2. CASE TruncatePidfile(p)
    <3>1. /\ thread'[p] = [pc |-> "write", agent |-> thread[p].agent]
          /\ \A x \in Threads \ {p} : thread'[x] = thread[x]
          /\ thread' \in [Threads -> Local]
      BY <1>1, <2>1, <2>2, GotoSet DEF TruncatePidfile
    <3> QED BY <1>1, <2>2, <3>1, ProcsAreThreads
  <2>3. CASE WritePidfile(p)
    <3>1. /\ thread'[p] = [pc |-> AfterSpawn(p), agent |-> thread[p].agent]
          /\ \A x \in Threads \ {p} : thread'[x] = thread[x]
          /\ thread' \in [Threads -> Local]
      BY <1>1, <2>1, <2>3, GotoSet DEF WritePidfile
    <3> QED BY <1>1, <2>3, <3>1, ProcsAreThreads
  <2> QED BY <2>2, <2>3
<1>4. \/ TruncatePidfile(p) /\ pidfile' = Torn /\ lock' = lock
      \/ WritePidfile(p) /\ pidfile' = p /\ lock' = None
  BY <1>1 DEF TruncatePidfile, WritePidfile
<1>5. TypeOK'
  BY <1>1, <1>2, <1>3, <1>4 DEF TypeOK, Local, PCs
<1>6. PidfileOK'
  BY <1>1, <1>2, <1>4, Names DEF PidfileOK
<1>7. \A x \in Procs \ {p} : Untouched(x)
  BY <1>1, <1>2, <1>3 DEF Untouched, Working
<1>8. ProcOK(p)'
  BY <1>1, <1>2, <1>3, <1>4, Names
     DEF ProcOK, AfterSpawn, Working, TruncatePidfile, WritePidfile, At
<1> QED BY <1>5, <1>6, <1>7, <1>8, StepOfOne

(* p exits, by a failure or at the end of a teardown. *)
LEMMA ExitKeepsIInv ==
  ASSUME IInv, NEW p \in Procs, NEW pc \in {"failed", "done"}, Exits(p, pc),
         pc = "done" => p \notin Sessions \/ ~Working(p),
         UNCHANGED <<pidfile, selected, was, flips>>,
         socket' \in {"none", "live", "stale"}, faults' \in 0 .. MaxFaults
  PROVE  IInv'
<1>1. pc \in PCs /\ TypeOK
  BY DEF PCs, IInv
<1>2. /\ thread' \in [Threads -> Local] /\ thread'[p] = [pc |-> pc, agent |-> None]
      /\ \A x \in Procs \ {p} : thread'[x] = thread[x]
      /\ agent' \in [Procs -> States] /\ NoBirth
      /\ lock' \in {lock, None} /\ (lock # p => lock' = lock)
      /\ startLock' \in {startLock, None}
  BY <1>1, ExitsSet
<1>3. TypeOK'
  BY <1>1, <1>2 DEF TypeOK, Local, PCs, States
<1>4. PidfileOK'
  BY <1>2 DEF IInv, PidfileOK, NoBirth
<1>5. \A x \in Procs \ {p} : Untouched(x)
  BY <1>2 DEF Untouched, NoBirth
<1>6. ProcOK(p)'
  BY <1>2 DEF ProcOK, NoBirth
<1> QED BY <1>3, <1>4, <1>5, <1>6, StepOfOne

LEMMA SpawnFailsKeepsIInv ==
  ASSUME IInv, NEW p \in Procs, SpawnFails(p) PROVE IInv'
<1>1. faults' \in 0 .. MaxFaults /\ TypeOK /\ UNCHANGED <<pidfile, socket, selected, was, flips>>
  BY FaultsOK DEF SpawnFails, IInv
<1>2. CASE p \in Sessions
  BY <1>1, <1>2, ExitKeepsIInv DEF SpawnFails, TypeOK
<1>3. CASE p \notin Sessions
  <2>1. Goto(p, "watch") /\ lock' = None /\ UNCHANGED <<startLock, agent>> /\ lock = p
    BY <1>3 DEF SpawnFails, IInv, ProcOK
  <2>2. /\ thread'[p].pc = "watch" /\ thread' \in [Threads -> Local]
        /\ \A x \in Procs \ {p} : thread'[x] = thread[x]
    <3>1. "watch" \in PCs /\ p \in Threads
      BY ProcsAreThreads DEF PCs
    <3>2. /\ thread'[p] = [pc |-> "watch", agent |-> thread[p].agent]
          /\ \A x \in Threads \ {p} : thread'[x] = thread[x]
          /\ thread' \in [Threads -> Local]
      BY <1>1, <2>1, <3>1, GotoSet
    <3> QED BY <3>2, ProcsAreThreads
  <2>3. TypeOK'
    BY <1>1, <2>1, <2>2 DEF TypeOK, Local, PCs
  <2>4. PidfileOK' /\ \A x \in Procs \ {p} : Untouched(x)
    BY <1>1, <2>1, <2>2 DEF IInv, PidfileOK, Untouched, Working
  <2>5. ProcOK(p)'
    BY <1>3, <2>2 DEF ProcOK
  <2> QED BY <2>3, <2>4, <2>5, StepOfOne
<1> QED BY <1>2, <1>3

(* A teardown tells the agent it is about; if p started one, it is that.    *)
LEMMA KillKeepsIInv ==
  ASSUME IInv, NEW t \in Threads, Kill(t) PROVE IInv'
<1>1. TypeOK /\ "remove" \in PCs /\ At(t, "kill")
  BY DEF IInv, PCs, Kill
<1>2. /\ thread'[t] = [pc |-> "remove", agent |-> thread[t].agent]
      /\ \A x \in Threads \ {t} : thread'[x] = thread[x]
      /\ thread' \in [Threads -> Local]
  BY <1>1, GotoSet DEF Kill
<1>3. /\ agent' \in [Procs -> States] /\ NoBirth
      /\ \A a \in Procs : a = thread[t].agent => ~Working(a)'
  BY <1>1 DEF Kill, Told, TypeOK, States, NoBirth, Working
<1>4. UNCHANGED <<pidfile, lock, startLock, socket, selected, was, flips, faults>>
  BY DEF Kill, files
<1>5. TypeOK'
  BY <1>1, <1>2, <1>3, <1>4 DEF TypeOK, Local, PCs, States
<1>6. PidfileOK'
  BY <1>3, <1>4 DEF IInv, PidfileOK, NoBirth
<1>7. \A x \in Procs \ {t} : Untouched(x)
  BY <1>2, <1>3, <1>4, ProcsAreThreads DEF Untouched, NoBirth
<1>8. CASE t \in Procs
  <2>1. ProcOK(t)'
    BY <1>1, <1>2, <1>3, <1>8 DEF IInv, ProcOK, NoBirth, At
  <2> QED BY <1>5, <1>6, <1>7, <1>8, <2>1, StepOfOne
<1>9. CASE t \notin Procs
  BY <1>5, <1>6, <1>7, <1>9, StepOfNone
<1> QED BY <1>8, <1>9

LEMMA RemoveKeepsIInv ==
  ASSUME IInv, NEW t \in Threads, RemovePidfile(t) PROVE IInv'
<1>1. TypeOK /\ "exit" \in PCs /\ At(t, "remove") /\ pidfile' = None
  BY DEF IInv, PCs, RemovePidfile
<1>2. /\ thread'[t] = [pc |-> "exit", agent |-> thread[t].agent]
      /\ \A x \in Threads \ {t} : thread'[x] = thread[x]
      /\ thread' \in [Threads -> Local]
  BY <1>1, GotoSet DEF RemovePidfile
<1>3. UNCHANGED <<lock, startLock, socket, selected, agent, was, flips, faults>>
  BY DEF RemovePidfile
<1>4. None \notin Procs
  BY Names
<1>5. TypeOK' /\ PidfileOK'
  BY <1>1, <1>2, <1>3, <1>4 DEF TypeOK, Local, PCs, PidfileOK
<1>6. \A x \in Procs \ {t} : Untouched(x)
  BY <1>1, <1>2, <1>3, <1>4, ProcsAreThreads DEF Untouched, Working
<1>7. CASE t \in Procs
  <2>1. ProcOK(t)'
    BY <1>1, <1>2, <1>3, <1>7 DEF IInv, ProcOK, At, Working
  <2> QED BY <1>5, <1>6, <1>7, <2>1, StepOfOne
<1>8. CASE t \notin Procs
  BY <1>5, <1>6, <1>8, StepOfNone
<1> QED BY <1>7, <1>8

(* Steps of a monitor that change only its own state. *)
LEMMA MonitorSet ==
  ASSUME IInv, NEW u \in Startups, TypeOK', UNCHANGED <<pidfile, lock, agent>>,
         \A x \in Threads \ {Mon(u)} : thread'[x] = thread[x]
  PROVE  IInv'
<1>1. Mon(u) \notin Procs
  BY Names
<1>2. \A x \in Procs : Untouched(x)
  BY <1>1, ProcsAreThreads DEF Untouched, Working
<1>3. PidfileOK'
  BY DEF IInv, PidfileOK
<1> QED BY <1>2, <1>3, StepOfNone

LEMMA ExitMasterKeepsIInv ==
  ASSUME IInv, NEW t \in Threads, ExitMaster(t) PROVE IInv'
<1>1. TypeOK /\ At(t, "exit") /\ socket' \in {"none", "live", "stale"}
  BY DEF IInv, TypeOK, ExitMaster
<1>2. UNCHANGED <<pidfile, selected, was, flips, faults>>
  BY DEF ExitMaster
<1>3. CASE t \in Monitors
  <2>1. With(t, "idle", None) /\ UNCHANGED <<lock, startLock, agent>>
    BY <1>3 DEF ExitMaster
  <2>2. /\ \A x \in Threads \ {t} : thread'[x] = thread[x]
        /\ thread' \in [Threads -> Local]
    BY <1>1, <2>1, WithSet DEF PCs
  <2>3. TypeOK'
    BY <1>1, <1>2, <2>1, <2>2 DEF TypeOK, Local, PCs
  <2>4. PICK u \in Startups : t = Mon(u)
    BY <1>3 DEF Monitors
  <2> QED BY <1>2, <2>1, <2>2, <2>3, <2>4, MonitorSet
<1>4. CASE t \notin Monitors
  <2>1. t \in Procs /\ Exits(t, "done")
    BY <1>4 DEF Threads, ExitMaster
  <2>2. t \notin Sessions \/ ~Working(t)
    BY <1>1, <2>1 DEF IInv, ProcOK, At
  <2> QED BY <1>1, <1>2, <2>1, <2>2, ExitKeepsIInv DEF TypeOK
<1> QED BY <1>3, <1>4

LEMMA StartupKeepsIInv ==
  ASSUME IInv, NEW u \in Startups, StartupBegins(u) \/ StartupEnds(u) PROVE IInv'
<1>1. u \in Procs /\ u \in Threads /\ u \notin Sessions /\ TypeOK /\ ProcOK(u)
  BY ConstantsAssumption DEF IInv, Procs, Threads
<1>2. CASE StartupEnds(u) /\ Exits(u, "done")
  BY <1>1, <1>2, ExitKeepsIInv DEF StartupEnds, TypeOK
<1>3. CASE StartupBegins(u) \/ ~Exits(u, "done")
  <2>1. /\ UNCHANGED <<pidfile, lock, socket, selected, agent, flips, faults>>
        /\ startLock' \in {startLock, u} /\ was' \in [Startups -> BOOLEAN]
    BY <1>1, <1>3 DEF StartupBegins, StartupEnds, TypeOK
  <2>2. /\ thread' \in [Threads -> Local]
        /\ \A x \in Threads \ {u} : thread'[x] = thread[x]
        /\ \/ StartupBegins(u) /\ thread'[u].pc \in {"lock", "done"}
           \/ thread'[u].pc = "kill"
    <3>1. CASE StartupBegins(u)
      <4>1. PICK pc \in {"lock", "done"} : Goto(u, pc)
        BY <3>1 DEF StartupBegins
      <4>2. pc \in PCs
        BY DEF PCs
      <4>3. /\ thread'[u] = [pc |-> pc, agent |-> thread[u].agent]
            /\ \A x \in Threads \ {u} : thread'[x] = thread[x]
            /\ thread' \in [Threads -> Local]
        BY <1>1, <4>1, <4>2, GotoSet
      <4> QED BY <3>1, <4>3
    <3>2. CASE ~StartupBegins(u)
      <4>1. PICK a \in Procs : With(u, "kill", a)
        BY <1>3, <3>2 DEF StartupEnds, Listed
      <4>2. "kill" \in PCs
        BY DEF PCs
      <4>3. /\ thread'[u] = [pc |-> "kill", agent |-> a]
            /\ \A x \in Threads \ {u} : thread'[x] = thread[x]
            /\ thread' \in [Threads -> Local]
        BY <1>1, <4>1, <4>2, WithSet
      <4> QED BY <4>3
    <3> QED BY <3>1, <3>2
  <2>3. TypeOK'
    BY <1>1, <2>1, <2>2 DEF TypeOK, Local, PCs
  <2>4. PidfileOK' /\ \A x \in Procs \ {u} : Untouched(x)
    BY <2>1, <2>2, ProcsAreThreads DEF IInv, PidfileOK, Untouched, Working
  <2>5. ProcOK(u)'
    <3>1. StartupBegins(u) => agent[u] = "unborn"
      BY <1>1 DEF StartupBegins, At, ProcOK
    <3> QED BY <1>1, <2>1, <2>2, <3>1 DEF ProcOK
  <2> QED BY <1>1, <2>3, <2>4, <2>5, StepOfOne
<1> QED BY <1>2, <1>3

LEMMA MonitorKeepsIInv ==
  ASSUME IInv, NEW u \in Startups, Deselected(u) \/ Reselected(u) PROVE IInv'
<1>1. TypeOK /\ Mon(u) \in Threads
  BY Names DEF IInv
<1>2. UNCHANGED <<pidfile, lock, startLock, socket, selected, agent, flips, faults>>
  BY DEF Deselected, Reselected, files
<1>3. was' \in [Startups -> BOOLEAN]
  BY <1>1 DEF Deselected, Reselected, TypeOK
<1>4. /\ thread' \in [Threads -> Local]
      /\ \A x \in Threads \ {Mon(u)} : thread'[x] = thread[x]
  <2>1. CASE UNCHANGED thread
    BY <1>1, <2>1 DEF TypeOK, Local, PCs
  <2>2. CASE ~UNCHANGED thread
    <3>1. PICK a \in Procs : With(Mon(u), "kill", a)
      BY <2>2 DEF Deselected, Reselected, Listed
    <3>2. "kill" \in PCs
      BY DEF PCs
    <3> QED BY <1>1, <3>1, <3>2, WithSet
  <2> QED BY <2>1, <2>2
<1>5. TypeOK'
  BY <1>1, <1>2, <1>3, <1>4 DEF TypeOK, Local, PCs
<1> QED BY <1>2, <1>4, <1>5, MonitorSet

(* Agents, the master, the selection: no process takes part.                *)
LEMMA OutsideKeepsIInv ==
  ASSUME IInv, \/ \E a \in Procs : AgentConnects(a) \/ AgentReturns(a) \/ AgentFails(a)
               \/ MasterDies \/ SelectionChanges
  PROVE  IInv'
<1>1. TypeOK /\ UNCHANGED <<pidfile, lock, startLock, thread, was>>
  BY DEF IInv, AgentConnects, AgentReturns, AgentFails, MasterDies, SelectionChanges, files
<1>2. agent' \in [Procs -> States] /\ NoBirth
  BY <1>1 DEF AgentConnects, AgentReturns, AgentFails, AgentDies, MasterDies,
     SelectionChanges, TypeOK, States, NoBirth, Working, Running
<1>3. socket' \in {"none", "live", "stale"} /\ selected' \in BOOLEAN
  BY <1>1 DEF AgentConnects, AgentReturns, AgentFails, MasterDies, SelectionChanges, TypeOK
<1>4. faults' \in 0 .. MaxFaults
  <2>1. Fail \/ UNCHANGED faults
    BY DEF AgentConnects, AgentReturns, AgentFails, MasterDies, SelectionChanges
  <2> QED BY <1>1, <2>1, FaultsOK
<1>5. flips' \in 0 .. MaxFlips
  BY <1>1, ConstantsAssumption
     DEF AgentConnects, AgentReturns, AgentFails, MasterDies, SelectionChanges, TypeOK
<1>6. TypeOK'
  BY <1>1, <1>2, <1>3, <1>4, <1>5 DEF TypeOK, States
<1>7. PidfileOK' /\ \A x \in Procs : Untouched(x)
  BY <1>1, <1>2 DEF IInv, PidfileOK, Untouched, NoBirth
<1> QED BY <1>6, <1>7, StepOfNone

LEMMA NextKeepsIInv == IInv /\ [Next]_vars => IInv'
<1> SUFFICES ASSUME IInv, [Next]_vars PROVE IInv'
  OBVIOUS
<1>1. TypeOK /\ Sessions \subseteq Procs /\ Startups \subseteq Procs
      /\ \A u \in Startups : Mon(u) \in Threads
  BY Names DEF IInv, Procs
<1>2. CASE UNCHANGED vars
  BY <1>2 DEF IInv, TypeOK, ProcOK, PidfileOK, Listed, Working, vars, files
<1>3. ASSUME NEW p \in Procs, Crash(p) PROVE IInv'
  <2>1. faults' \in 0 .. MaxFaults /\ Exits(p, "failed")
        /\ UNCHANGED <<pidfile, socket, selected, was, flips>>
    BY <1>1, <1>3, FaultsOK DEF Crash
  <2> QED BY <1>1, <2>1, ExitKeepsIInv DEF TypeOK
<1>4. ASSUME NEW s \in Sessions, SocketTimeout(s) PROVE IInv'
  BY <1>1, <1>4, ExitKeepsIInv DEF SocketTimeout, TypeOK
<1>5. ASSUME NEW t \in Threads, Teardown(t) PROVE IInv'
  BY <1>5, KillKeepsIInv, RemoveKeepsIInv, ExitMasterKeepsIInv DEF Teardown
<1>6. ASSUME NEW p \in Procs, TakeLock(p) \/ Start(p) \/ SpawnFails(p) PROVE IInv'
  BY <1>6, WalkKeepsIInv, SpawnKeepsIInv, RecordKeepsIInv, SpawnFailsKeepsIInv DEF Start
<1>7. ASSUME NEW s \in Sessions, Attach(s) \/ SocketReady(s) \/ HerdrEnds(s) PROVE IInv'
  BY <1>1, <1>7, WalkKeepsIInv
<1>8. ASSUME NEW u \in Startups, StartupBegins(u) \/ StartupEnds(u) \/ Monitor(u) PROVE IInv'
  BY <1>1, <1>5, <1>8, StartupKeepsIInv, MonitorKeepsIInv DEF Monitor
<1> QED BY <1>2, <1>3, <1>4, <1>5, <1>6, <1>7, <1>8, OutsideKeepsIInv, ProcsAreThreads DEF Next

LEMMA Inductive == Spec => []IInv
<1>1. ASSUME Init PROVE IInv
  <2>1. 0 \in 0 .. MaxFlips /\ 0 \in 0 .. MaxFaults /\ Idle \in Local
    BY ConstantsAssumption DEF Idle, Local, PCs
  <2>2. TypeOK
    BY <1>1, <2>1 DEF Init, TypeOK, Local, PCs
  <2>3. \A p \in Procs : thread[p] = Idle /\ agent[p] = "unborn"
    BY <1>1, ProcsAreThreads DEF Init
  <2>4. \A p \in Procs : ProcOK(p)
    BY <2>3 DEF ProcOK, Idle, Working
  <2>5. PidfileOK
    BY <1>1, Names DEF Init, PidfileOK
  <2> QED BY <2>2, <2>4, <2>5 DEF IInv
<1> QED BY <1>1, NextKeepsIInv, PTL DEF Spec

(* The pidfile names a process that started an agent, nothing, or is torn,  *)
(* for any number of sessions and startups.                                 *)
THEOREM TypeCorrect == Spec => []TypeOK
<1>1. IInv => TypeOK
  BY DEF IInv
<1> QED BY <1>1, Inductive, PTL

(* However many sessions share an agent or race for its start, one that     *)
(* started an agent has told it to stop before it returns.                  *)
THEOREM SessionsStopTheirAgents == Spec => []SessionStopsItsAgent
<1>1. IInv => SessionStopsItsAgent
  BY DEF IInv, ProcOK, SessionStopsItsAgent, Procs
<1> QED BY <1>1, Inductive, PTL

(* The steps that change the pidfile. *)
LEMMA PidfileWriters ==
  ASSUME Next, pidfile' # pidfile
  PROVE  \/ \E p \in Procs : TruncatePidfile(p) \/ WritePidfile(p)
         \/ \E t \in Threads : RemovePidfile(t)
<1>1. ASSUME NEW s \in Sessions, Attach(s) \/ SocketReady(s) \/ SocketTimeout(s) \/ HerdrEnds(s)
      PROVE  FALSE
  BY <1>1 DEF Attach, SocketReady, SocketTimeout, HerdrEnds, files
<1>2. ASSUME NEW u \in Startups,
             StartupBegins(u) \/ StartupEnds(u) \/ Deselected(u) \/ Reselected(u)
      PROVE  FALSE
  BY <1>2 DEF StartupBegins, StartupEnds, Deselected, Reselected, files
<1>3. ASSUME NEW p \in Procs,
             TakeLock(p) \/ ReuseAgent(p) \/ SpawnAgent(p) \/ SpawnFails(p) \/ Crash(p)
      PROVE  FALSE
  BY <1>3 DEF TakeLock, ReuseAgent, SpawnAgent, SpawnFails, Crash, files
<1>4. ASSUME NEW t \in Threads, Kill(t) \/ ExitMaster(t) PROVE FALSE
  BY <1>4 DEF Kill, ExitMaster, files
<1>5. ASSUME NEW a \in Procs, AgentConnects(a) \/ AgentReturns(a) \/ AgentFails(a) PROVE FALSE
  BY <1>5 DEF AgentConnects, AgentReturns, AgentFails, files
<1>6. ~MasterDies /\ ~SelectionChanges
  BY DEF MasterDies, SelectionChanges, files
<1>7. \A u \in Startups : Mon(u) \in Threads
  BY Names
<1> QED BY <1>1, <1>2, <1>3, <1>4, <1>5, <1>6, <1>7, ProcsAreThreads
        DEF Next, Start, Teardown, Monitor

(* t alone moves. *)
Moves(t) ==
  \/ \E pc : Goto(t, pc)
  \/ \E pc, a : With(t, pc, a)
  \/ t \in Procs /\ \E pc : Exits(t, pc)

LEMMA MovesAlone ==
  ASSUME TypeOK, NEW t \in Threads, Moves(t), NEW p \in Procs \ {t}
  PROVE  thread'[p] = thread[p]
<1>1. p \in Threads
  BY ProcsAreThreads
<1>2. ASSUME NEW pc, Goto(t, pc) PROVE thread'[p] = thread[p]
  BY <1>1, <1>2 DEF Goto, TypeOK
<1>3. ASSUME NEW pc, NEW a, With(t, pc, a) PROVE thread'[p] = thread[p]
  BY <1>1, <1>3 DEF With, TypeOK
<1>4. ASSUME t \in Procs, NEW pc, Exits(t, pc) PROVE thread'[p] = thread[p]
  <2>1. p # Mon(t)
    BY <1>4, ConstantsAssumption DEF Mon, Procs
  <2> QED BY <1>1, <1>4, <2>1 DEF Exits
<1> QED BY <1>2, <1>3, <1>4 DEF Moves

(* Who records its agent goes on to record it, unless it fails. *)
LEMMA RecorderMoves ==
  ASSUME IInv, Next, faults' = faults,
         NEW p \in Procs, thread[p].pc \in {"record", "write"}
  PROVE  thread'[p] = thread[p] \/ TruncatePidfile(p) \/ WritePidfile(p)
<1>1. TypeOK /\ ~Fail
  BY DEF IInv, TypeOK, Fail
<1>2. ASSUME NEW t \in Threads, Moves(t), t # p PROVE thread'[p] = thread[p]
  BY <1>1, <1>2, MovesAlone
<1>3. ASSUME NEW s \in Sessions, Attach(s) \/ SocketReady(s) \/ SocketTimeout(s) \/ HerdrEnds(s)
      PROVE  thread'[p] = thread[p]
  <2>1. s # p /\ Moves(s)
    BY <1>3 DEF Attach, SocketReady, SocketTimeout, HerdrEnds, At, Moves, Procs
  <2> QED BY <1>2, <2>1 DEF Threads, Procs
<1>4. ASSUME NEW u \in Startups, StartupBegins(u) \/ StartupEnds(u)
      PROVE  thread'[p] = thread[p]
  <2>1. u # p /\ Moves(u)
    BY <1>4 DEF StartupBegins, StartupEnds, At, Moves, Procs
  <2> QED BY <1>2, <2>1 DEF Threads, Procs
<1>5. ASSUME NEW u \in Startups, Deselected(u) \/ Reselected(u)
      PROVE  thread'[p] = thread[p]
  <2>1. UNCHANGED thread \/ Moves(Mon(u))
    BY <1>5 DEF Deselected, Reselected, Moves
  <2> QED BY <1>2, <2>1, Names
<1>6. ASSUME NEW q \in Procs, TakeLock(q) \/ ReuseAgent(q) \/ SpawnAgent(q)
      PROVE  thread'[p] = thread[p]
  <2>1. q # p /\ Moves(q)
    BY <1>6 DEF TakeLock, ReuseAgent, SpawnAgent, At, Moves
  <2> QED BY <1>2, <2>1, ProcsAreThreads
<1>7. ASSUME NEW q \in Procs \ {p}, TruncatePidfile(q) \/ WritePidfile(q)
      PROVE  thread'[p] = thread[p]
  <2>1. Moves(q)
    BY <1>7 DEF TruncatePidfile, WritePidfile, Moves
  <2> QED BY <1>2, <1>7, <2>1, ProcsAreThreads
<1>8. ASSUME NEW t \in Threads, Teardown(t) PROVE thread'[p] = thread[p]
  <2>1. t # p
    BY <1>8 DEF Teardown, Kill, RemovePidfile, ExitMaster, At
  <2>2. Moves(t)
    BY <1>8 DEF Teardown, Kill, RemovePidfile, ExitMaster, Moves, Threads
  <2> QED BY <1>2, <2>1, <2>2
<1>9. ASSUME NEW q \in Procs, SpawnFails(q) \/ Crash(q) PROVE FALSE
  BY <1>1, <1>9 DEF SpawnFails, Crash
<1>10. ASSUME NEW a \in Procs, AgentConnects(a) \/ AgentReturns(a) \/ AgentFails(a)
       PROVE  UNCHANGED thread
  BY <1>10 DEF AgentConnects, AgentReturns, AgentFails
<1>11. MasterDies \/ SelectionChanges => UNCHANGED thread
  BY DEF MasterDies, SelectionChanges
<1>12. \A u \in Startups : Mon(u) \in Threads
  BY Names
<1> QED BY <1>3, <1>4, <1>5, <1>6, <1>7, <1>8, <1>9, <1>10, <1>11, <1>12, ProcsAreThreads
        DEF Next, Start, Monitor

(* However many start at once, no start leaves an agent that works without  *)
(* a pidfile that names it.                                                 *)
THEOREM NoneForgotten == Spec => NoAgentForgotten
<1> DEFINE Takes == \E t \in Threads : At(t, "remove") /\ ~At(t, "remove")'
<1>1. ASSUME IInv, Next, NEW a \in Procs, Kept(a), Working(a)', faults' = faults, ~Takes
      PROVE  Kept(a)'
  <2>1. TypeOK /\ \A p \in Procs : ProcOK(p)
    BY <1>1 DEF IInv
  <2>2. ASSUME NEW t \in Threads, RemovePidfile(t) PROVE FALSE
    <3>1. "exit" \in PCs
      BY DEF PCs
    <3>2. thread'[t] = [pc |-> "exit", agent |-> thread[t].agent]
      BY <2>1, <2>2, <3>1, GotoSet DEF RemovePidfile
    <3> QED BY <1>1, <2>2, <3>2 DEF At, RemovePidfile
  <2>3. CASE pidfile = a /\ pidfile' # pidfile
    <3>1. PICK p \in Procs : TruncatePidfile(p) \/ WritePidfile(p)
      BY <1>1, <2>2, <2>3, PidfileWriters
    <3>2. CASE TruncatePidfile(p)
      BY <1>1, <2>1, <2>3, <3>2 DEF TruncatePidfile, At, ProcOK, Listed, Kept
    <3>3. CASE WritePidfile(p)
      BY <1>1, <2>1, <2>3, <3>3 DEF WritePidfile, At, ProcOK
    <3> QED BY <3>1, <3>2, <3>3
  <2>4. CASE pidfile = a /\ pidfile' = pidfile
    BY <1>1, <2>4 DEF Kept
  <2>5. ASSUME NEW p \in Procs, thread[p] \in [pc : {"record", "write"}, agent : {a}]
        PROVE  Kept(a)'
    <3>1. thread[p].pc \in {"record", "write"} /\ thread[p].agent = a /\ p \in Threads
      BY <2>5, ProcsAreThreads
    <3>2. CASE thread'[p] = thread[p]
      BY <1>1, <2>5, <3>2 DEF Kept
    <3>3. CASE TruncatePidfile(p)
      <4>1. "write" \in PCs
        BY DEF PCs
      <4>2. thread'[p] = [pc |-> "write", agent |-> a]
        BY <2>1, <3>1, <3>3, <4>1, GotoSet DEF TruncatePidfile
      <4> QED BY <1>1, <4>2 DEF Kept
    <3>4. CASE WritePidfile(p)
      BY <1>1, <3>1, <3>4 DEF Kept, WritePidfile
    <3> QED BY <1>1, <3>1, <3>2, <3>3, <3>4, RecorderMoves
  <2> QED BY <1>1, <2>3, <2>4, <2>5 DEF Kept
<1>2. IInv /\ [Next]_vars => [KeepsAgents]_vars
  BY <1>1 DEF KeepsAgents
<1> QED BY <1>2, Inductive, PTL DEF Spec, NoAgentForgotten

=============================================================================
