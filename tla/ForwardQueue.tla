---------------------------- MODULE ForwardQueue ----------------------------
(***************************************************************************)
(* The forward-request queue between the engine and a laptop.              *)
(*                                                                         *)
(* On the engine, `declare` and the ports pane append requests to the file *)
(* requests.json: each call loads the file, reads the ack file, prunes,    *)
(* appends and renames a temporary file over it.  No lock is taken, so a   *)
(* call is a read-modify-write whose steps interleave with other calls;    *)
(* all calls use one temporary name, and a call opens and truncates that   *)
(* file in one step and writes it in another.                              *)
(*                                                                         *)
(* On the laptop, an agent polls the file over ssh, applies each request   *)
(* with `ssh -O forward` on its control master and writes one high-water   *)
(* mark, requests.acked, back to the engine.                               *)
(*                                                                         *)
(* Time is the number of enqueue calls begun: a request is stamped with    *)
(* the call that made it, and a TTL cutoff is a bound on those stamps.     *)
(* The engine and every laptop move their own cutoff forward.              *)
(***************************************************************************)
EXTENDS Integers, Sequences, FiniteSets, FiniteSetsExt

CONSTANTS
  Writers,       \* processes on the engine that enqueue requests
  Agents,        \* laptop agents that serve this engine
  Ports,         \* ports that can be asked for
  Hosts,         \* names of engines
  AnyHost,       \* the empty host field
  NoFile,        \* absence of requests.json.tmp
  Whole,         \* text of a file that parses
  Empty,         \* contents of a file that was truncated and not yet written
  Mixed,         \* contents of a file two calls wrote over each other
  ServedHost,    \* ServedHost[a] is the engine name agent a answers to
  Batches,       \* port lists a `declare` call may carry
  DeclareHosts,  \* values a `declare` call may give to -host
  MaxCalls,      \* bound on enqueue calls
  MaxCutoff,     \* bound on TTL cutoffs; 0 when nothing lives past its TTL
  MaxFaults      \* bound on crashes, lost masters and failed ack writes

Request == [id : Nat, port : Ports, host : Hosts \cup {AnyHost}, born : Nat]

(* LastConsumedID and Pending of the queue file. *)
Queue == [consumed : Nat, pending : SUBSET Request]

ASSUME ConstantsAssumption ==
  /\ ServedHost \in [Agents -> Hosts]
  /\ AnyHost \notin Hosts
  /\ Batches \subseteq Seq(Ports)
  /\ DeclareHosts \subseteq Hosts \cup {AnyHost}
  /\ Whole \notin {Empty, Mixed} /\ Empty # Mixed
  /\ {NoFile, Empty, Mixed} \cap Queue = {} /\ NoFile \notin {Empty, Mixed}
  /\ MaxCalls \in Nat /\ MaxCutoff \in Nat /\ MaxFaults \in Nat

VARIABLES
  queue,      \* what requests.json parses to, EmptyQueue while it does not
  text,       \* whether it parses: Whole, or Empty or Mixed
  tmp,        \* requests.json.tmp, one name shared by all writers
  ack,        \* requests.acked
  calls,      \* enqueue calls begun so far, the clock
  cutoff,     \* the engine's TTL cutoff
  writer,     \* local state of each enqueue call
  agent,      \* local state of each agent
  master,     \* master[a]: the control master of a is running
  live,       \* live[a]: ports forwarded by that master
  forwarded,  \* history: requests some `ssh -O forward` succeeded for
  faults      \* faults spent

engineVars == <<queue, text, tmp, calls, cutoff, writer>>
laptopVars == <<agent, master, live, forwarded>>
vars == <<queue, text, tmp, ack, calls, cutoff, writer, agent, master, live,
          forwarded, faults>>

-----------------------------------------------------------------------------
EmptyQueue == [consumed |-> 0, pending |-> {}]

IdsOf(q) == {q.consumed} \cup {r.id : r \in q.pending}

(* Defect: the IDs already consumed are forgotten. *)
NextIDOfPending(q) == Max({0} \cup {r.id : r \in q.pending}) + 1

NextID(q) == Max(IdsOf(q)) + 1

Enqueue(q, p, h, born) ==
  [q EXCEPT !.pending =
     @ \cup {[id |-> NextID(q), port |-> p, host |-> h, born |-> born]}]

Expired(r, c) == r.born < c

(* Defect: one request too many is taken for acknowledged. *)
PruneOneMore(q, acked, c) ==
  [consumed |-> IF acked > q.consumed THEN acked ELSE q.consumed,
   pending  |-> {r \in q.pending : r.id > acked + 1 /\ ~Expired(r, c)}]

(* Defect: requests are compared with the old mark, before it is raised. *)
PruneByOldMark(q, acked, c) ==
  [consumed |-> IF acked > q.consumed THEN acked ELSE q.consumed,
   pending  |-> {r \in q.pending : r.id > q.consumed /\ ~Expired(r, c)}]

Prune(q, acked, c) ==
  [consumed |-> IF acked > q.consumed THEN acked ELSE q.consumed,
   pending  |-> {r \in q.pending : r.id > acked /\ ~Expired(r, c)}]

IsOurs(a, r) == r.host \in {AnyHost, ServedHost[a]}

-----------------------------------------------------------------------------
(* Enqueue calls on the engine. *)

IdleWriter ==
  [pc |-> "idle", q |-> EmptyQueue, ports |-> <<>>, host |-> AnyHost,
   dedup |-> FALSE, known |-> {}, born |-> 0, cut |-> 0, fd |-> "none"]

AgentDown ==
  [pc |-> "down", cut |-> 0, reqs |-> {}, todo |-> {}, lastAcked |-> 0,
   cursor |-> 0, seeded |-> FALSE, applied |-> {}]

Init ==
  /\ queue = EmptyQueue /\ text = Whole /\ tmp = NoFile /\ ack = 0
  /\ calls = 0 /\ cutoff = 0
  /\ writer = [w \in Writers |-> IdleWriter]
  /\ agent = [a \in Agents |-> AgentDown]
  /\ master = [a \in Agents |-> FALSE]
  /\ live = [a \in Agents |-> {}]
  /\ forwarded = {} /\ faults = 0

(* The call takes its time stamp and loads the queue file.  A call that     *)
(* finds a file it cannot parse returns at once.                            *)
Load(w, ports, h, dedup) ==
  /\ writer[w].pc = "idle" /\ calls < MaxCalls /\ text = Whole
  /\ calls' = calls + 1
  /\ \E c \in cutoff .. (IF calls < MaxCutoff THEN calls ELSE MaxCutoff) :
       /\ cutoff' = c
       /\ writer' = [writer EXCEPT ![w] =
            [IdleWriter EXCEPT !.pc = "loaded", !.q = queue, !.ports = ports,
                               !.host = h, !.dedup = dedup, !.born = calls,
                               !.cut = c]]
  /\ UNCHANGED <<queue, text, tmp, ack, laptopVars, faults>>

(* `declare -port ... -host ...` skips ports that are already pending. *)
Declare(w) == \E ports \in Batches, h \in DeclareHosts : Load(w, ports, h, TRUE)

(* Enter in the ports pane: one port, no host, no duplicate check. *)
EnqueueForwardRequest(w) == \E p \in Ports : Load(w, <<p>>, AnyHost, FALSE)

ReadAckAndPrune(w) ==
  /\ writer[w].pc = "loaded"
  /\ LET q == Prune(writer[w].q, ack, writer[w].cut)
     IN  writer' = [writer EXCEPT ![w].pc = "enqueue", ![w].q = q,
                      ![w].known = IF writer[w].dedup
                                   THEN {r.port : r \in q.pending} ELSE {}]
  /\ UNCHANGED <<queue, text, tmp, ack, calls, cutoff, laptopVars, faults>>

(* One turn of the loop over the requested ports. *)
EnqueueNext(w) ==
  /\ writer[w].pc = "enqueue" /\ writer[w].ports # <<>>
  /\ LET p == Head(writer[w].ports)
     IN  writer' = [writer EXCEPT ![w].ports = Tail(@),
                      ![w].q = IF p \in writer[w].known THEN @
                               ELSE Enqueue(@, p, writer[w].host, writer[w].born)]
  /\ UNCHANGED <<queue, text, tmp, ack, calls, cutoff, laptopVars, faults>>

(* WriteQueueAtomic: os.WriteFile opens and truncates the temporary file,   *)
(* whoever else has it open, and writes it through its descriptor, which    *)
(* follows the file when another call renames it.                           *)
OpenTmp(w) ==
  /\ writer[w].pc = "enqueue" /\ writer[w].ports = <<>>
  /\ tmp' = Empty
  /\ writer' = [writer EXCEPT ![w].pc = "fill", ![w].fd = "tmp"]
  /\ UNCHANGED <<queue, text, ack, calls, cutoff, laptopVars, faults>>

(* What a write from the start of a file leaves of what it held. *)
WrittenOver(old, q) == IF old = Empty THEN {q} ELSE {q, Mixed}

Parsed(c) == IF c \in {Empty, Mixed} THEN EmptyQueue ELSE c
TextOf(c) == IF c \in {Empty, Mixed} THEN c ELSE Whole
Install(c) == queue' = Parsed(c) /\ text' = TextOf(c)

Fill(w) ==
  /\ tmp' \in (IF writer[w].fd = "tmp" THEN WrittenOver(tmp, writer[w].q) ELSE {tmp})
  /\ IF writer[w].fd = "file"
     THEN \E c \in WrittenOver(text, writer[w].q) : Install(c)
     ELSE UNCHANGED <<queue, text>>

(* Defect: the rename follows a write that failed, too. *)
FillUnchecked(w) ==
  /\ writer[w].pc = "fill"
  /\ \/ Fill(w) /\ UNCHANGED faults
     \/ faults < MaxFaults /\ faults' = faults + 1 /\ UNCHANGED <<queue, text, tmp>>
  /\ writer' = [writer EXCEPT ![w].pc = "rename", ![w].fd = "none"]
  /\ UNCHANGED <<ack, calls, cutoff, laptopVars>>

FillTmp(w) ==
  /\ writer[w].pc = "fill"
  /\ Fill(w)
  /\ writer' = [writer EXCEPT ![w].pc = "rename", ![w].fd = "none"]
  /\ UNCHANGED <<ack, calls, cutoff, laptopVars, faults>>

(* Where a descriptor leads after a rename. *)
Renamed(fd) == CASE fd = "tmp" -> "file" [] fd = "file" -> "lost" [] OTHER -> fd

(* Defect: a temporary file that is gone counts as written. *)
RenameRegardless(w) ==
  /\ writer[w].pc = "rename"
  /\ queue' = (IF tmp = NoFile THEN tmp ELSE Parsed(tmp)) /\ text' = TextOf(tmp)
  /\ tmp' = NoFile
  /\ writer' = [writer EXCEPT ![w] = IdleWriter]
  /\ UNCHANGED <<ack, calls, cutoff, laptopVars, faults>>

(* The rename installs whatever the temporary file holds now, and fails     *)
(* when another call's rename has already taken it away.                    *)
Rename(w) ==
  /\ writer[w].pc = "rename"
  /\ \/ /\ tmp = NoFile
        /\ writer' = [writer EXCEPT ![w] = IdleWriter]
        /\ UNCHANGED <<queue, text>>
     \/ /\ tmp # NoFile /\ Install(tmp)
        /\ writer' = [v \in Writers |-> IF v = w THEN IdleWriter
                        ELSE [writer[v] EXCEPT !.fd = Renamed(@)]]
  /\ tmp' = NoFile
  /\ UNCHANGED <<ack, calls, cutoff, laptopVars, faults>>

(* The call dies, or an I/O error makes it return early. *)
WriterDies(w) ==
  /\ writer[w].pc # "idle" /\ faults < MaxFaults
  /\ faults' = faults + 1
  /\ writer' = [writer EXCEPT ![w] = IdleWriter]
  /\ UNCHANGED <<queue, text, tmp, ack, calls, cutoff, laptopVars>>

-----------------------------------------------------------------------------
(* The laptop agent. *)

(* Serve: a running master is reused with its forwards, otherwise one is    *)
(* opened.  This is the only call of EnsureMaster.                          *)
EnsureMaster(a) ==
  /\ agent[a].pc = "down"
  /\ agent' = [agent EXCEPT ![a] = [AgentDown EXCEPT !.pc = "idle",
                                                     !.cut = agent[a].cut]]
  /\ master' = [master EXCEPT ![a] = TRUE]
  /\ UNCHANGED <<engineVars, ack, live, forwarded, faults>>

(* Tick reads the queue file and takes an empty one for a queue without     *)
(* requests; a failed read, or a file that does not parse, changes nothing. *)
TickRead(a) ==
  /\ agent[a].pc = "idle" /\ text # Mixed
  /\ \E c \in agent[a].cut .. (IF calls < MaxCutoff THEN calls ELSE MaxCutoff) :
       agent' = [agent EXCEPT ![a].reqs = queue.pending, ![a].todo = queue.pending,
                              ![a].cursor = agent[a].lastAcked, ![a].cut = c,
                              ![a].pc = IF agent[a].seeded THEN "loop" ELSE "seed"]
  /\ UNCHANGED <<engineVars, ack, master, live, forwarded, faults>>

(* The first tick of a process reads the ack file.  A failed read leaves    *)
(* lastAcked at zero and is not repeated.                                   *)
Seed(a) ==
  /\ agent[a].pc = "seed"
  /\ \/ agent' = [agent EXCEPT ![a].lastAcked = ack, ![a].cursor = ack,
                               ![a].seeded = TRUE, ![a].pc = "loop"]
        /\ UNCHANGED faults
     \/ /\ faults < MaxFaults /\ faults' = faults + 1
        /\ agent' = [agent EXCEPT ![a].seeded = TRUE, ![a].pc = "loop"]
  /\ UNCHANGED <<engineVars, ack, master, live, forwarded>>

(* The request the loop is at: requests are tried in the order of their IDs. *)
AtHead(a, r) ==
  /\ agent[a].pc = "loop" /\ r \in agent[a].todo
  /\ \A s \in agent[a].todo : r.id <= s.id

Settled(a, r) ==
  r.id <= agent[a].lastAcked \/ \E s \in agent[a].applied : s.id = r.id

SkipSettled(a) ==
  /\ \E r \in agent[a].todo :
       /\ AtHead(a, r) /\ Settled(a, r)
       /\ agent' = [agent EXCEPT ![a].todo = @ \ {r},
                      ![a].cursor = IF r.id > agent[a].lastAcked THEN r.id ELSE @]
  /\ UNCHANGED <<engineVars, ack, master, live, forwarded, faults>>

(* Defect: a foreign or expired request is stepped over. *)
StepOver(a) ==
  /\ \E r \in agent[a].todo :
       /\ AtHead(a, r) /\ ~Settled(a, r)
       /\ ~IsOurs(a, r) \/ Expired(r, agent[a].cut)
       /\ agent' = [agent EXCEPT ![a].todo = @ \ {r}, ![a].cursor = r.id]
  /\ UNCHANGED <<engineVars, ack, master, live, forwarded, faults>>

(* A foreign or expired request, or a failed forward, ends the loop. *)
Stall(a) ==
  /\ \E r \in agent[a].todo :
       /\ AtHead(a, r) /\ ~Settled(a, r)
       /\ ~IsOurs(a, r) \/ Expired(r, agent[a].cut) \/ ~master[a]
  /\ agent' = [agent EXCEPT ![a].todo = {}]
  /\ UNCHANGED <<engineVars, ack, master, live, forwarded, faults>>

(* ssh refuses the forward although the master runs, say a port in use. *)
ForwardFails(a) ==
  /\ faults < MaxFaults /\ faults' = faults + 1
  /\ \E r \in agent[a].todo :
       AtHead(a, r) /\ ~Settled(a, r) /\ IsOurs(a, r) /\ ~Expired(r, agent[a].cut)
  /\ agent' = [agent EXCEPT ![a].todo = {}]
  /\ UNCHANGED <<engineVars, ack, master, live, forwarded>>

Forward(a) ==
  /\ master[a]
  /\ \E r \in agent[a].todo :
       /\ AtHead(a, r) /\ ~Settled(a, r)
       /\ IsOurs(a, r) /\ ~Expired(r, agent[a].cut)
       /\ live' = [live EXCEPT ![a] = @ \cup {r.port}]
       /\ forwarded' = forwarded \cup {r}
       /\ agent' = [agent EXCEPT ![a].todo = @ \ {r}, ![a].cursor = r.id,
                                 ![a].applied = @ \cup {r}]
  /\ UNCHANGED <<engineVars, ack, master, faults>>

(* End of a tick with lastAcked at the cursor. *)
TickDone(ag) == [ag EXCEPT !.pc = "idle", !.lastAcked = ag.cursor, !.reqs = {}]

NothingToMark(a) ==
  /\ agent[a].pc = "loop" /\ agent[a].todo = {}
  /\ agent[a].cursor <= agent[a].lastAcked
  /\ agent' = [agent EXCEPT ![a] = [TickDone(@) EXCEPT !.lastAcked = agent[a].lastAcked]]
  /\ UNCHANGED <<engineVars, ack, master, live, forwarded, faults>>

(* Defect: the mark is written without a look at the ack file. *)
MarkBlindly(a) ==
  /\ agent[a].pc = "loop" /\ agent[a].todo = {}
  /\ agent[a].cursor > agent[a].lastAcked
  /\ agent' = [agent EXCEPT ![a].pc = "mark"]
  /\ UNCHANGED <<engineVars, ack, master, live, forwarded, faults>>

(* The remote mark script reads the ack file and leaves a larger mark alone. *)
MarkRead(a) ==
  /\ agent[a].pc = "loop" /\ agent[a].todo = {}
  /\ agent[a].cursor > agent[a].lastAcked
  /\ agent' = [agent EXCEPT ![a] = IF ack >= agent[a].cursor THEN TickDone(@)
                                   ELSE [@ EXCEPT !.pc = "mark"]]
  /\ UNCHANGED <<engineVars, ack, master, live, forwarded, faults>>

MarkWrite(a) ==
  /\ agent[a].pc = "mark"
  /\ ack' = agent[a].cursor
  /\ agent' = [agent EXCEPT ![a] = TickDone(@)]
  /\ UNCHANGED <<engineVars, master, live, forwarded, faults>>

(* A failed ack write is reported, and lastAcked moves all the same. *)
MarkFails(a) ==
  /\ agent[a].pc = "mark" /\ faults < MaxFaults
  /\ faults' = faults + 1
  /\ agent' = [agent EXCEPT ![a] = TickDone(@)]
  /\ UNCHANGED <<engineVars, ack, master, live, forwarded>>

(* Serve returns: CancelApplied takes down the forwards it can.  The master *)
(* persists with the ones whose cancel failed.                              *)
StopAgent(a) ==
  /\ agent[a].pc # "down" /\ faults < MaxFaults
  /\ faults' = faults + 1
  /\ \E done \in SUBSET agent[a].applied :
       live' = [live EXCEPT ![a] = @ \ {r.port : r \in done}]
  /\ agent' = [agent EXCEPT ![a] = [AgentDown EXCEPT !.cut = agent[a].cut]]
  /\ UNCHANGED <<engineVars, ack, master, forwarded>>

(* The agent is killed; its master persists with every forward. *)
Crash(a) ==
  /\ agent[a].pc # "down" /\ faults < MaxFaults
  /\ faults' = faults + 1
  /\ agent' = [agent EXCEPT ![a] = [AgentDown EXCEPT !.cut = agent[a].cut]]
  /\ UNCHANGED <<engineVars, ack, master, live, forwarded>>

(* The master exits, taking its forwards along: a keepalive timed out. *)
MasterDies(a) ==
  /\ master[a] /\ faults < MaxFaults
  /\ faults' = faults + 1
  /\ master' = [master EXCEPT ![a] = FALSE]
  /\ live' = [live EXCEPT ![a] = {}]
  /\ UNCHANGED <<engineVars, ack, agent, forwarded>>

-----------------------------------------------------------------------------
WriterNext(w) ==
  \/ Declare(w) \/ EnqueueForwardRequest(w) \/ ReadAckAndPrune(w)
  \/ EnqueueNext(w) \/ OpenTmp(w) \/ FillTmp(w) \/ Rename(w) \/ WriterDies(w)

AgentStep(a) ==
  \/ TickRead(a) \/ Seed(a) \/ SkipSettled(a) \/ Stall(a) \/ Forward(a)
  \/ NothingToMark(a) \/ MarkRead(a) \/ MarkWrite(a)

AgentFault(a) ==
  ForwardFails(a) \/ MarkFails(a) \/ StopAgent(a) \/ Crash(a) \/ MasterDies(a)

Next ==
  \/ \E w \in Writers : WriterNext(w)
  \/ \E a \in Agents : EnsureMaster(a) \/ AgentStep(a) \/ AgentFault(a)

Spec == Init /\ [][Next]_vars

(* A call that has begun runs to its end, a running agent keeps ticking and *)
(* a stopped one is started again.  Nothing obliges anyone to enqueue, and  *)
(* no fault is fair.                                                        *)
Fairness ==
  /\ \A w \in Writers : WF_vars(ReadAckAndPrune(w) \/ EnqueueNext(w)
                                \/ OpenTmp(w) \/ FillTmp(w) \/ Rename(w))
  /\ \A a \in Agents : WF_vars(EnsureMaster(a)) /\ WF_vars(AgentStep(a))

FairSpec == Spec /\ Fairness

-----------------------------------------------------------------------------
(* Properties *)

QueueFile == Queue \cup {NoFile, Empty, Mixed}

WriterState ==
  [pc : {"idle", "loaded", "enqueue", "fill", "rename"}, q : Queue, ports : Seq(Ports),
   host : Hosts \cup {AnyHost}, dedup : BOOLEAN, known : SUBSET Ports,
   born : Nat, cut : Nat, fd : {"none", "tmp", "file", "lost"}]

AgentState ==
  [pc : {"down", "idle", "seed", "loop", "mark"}, cut : Nat,
   reqs : SUBSET Request, todo : SUBSET Request, lastAcked : Nat, cursor : Nat,
   seeded : BOOLEAN, applied : SUBSET Request]

(* Every variable holds a value of its type: the shapes Queue, Request and  *)
(* Agent declare.  requests.json parses to a queue whenever it is Whole.    *)
TypeOK ==
  /\ queue \in Queue /\ text \in {Whole, Empty, Mixed} /\ tmp \in QueueFile /\ ack \in Nat
  /\ calls \in Nat /\ cutoff \in Nat /\ faults \in Nat
  /\ writer \in [Writers -> WriterState]
  /\ agent \in [Agents -> AgentState]
  /\ master \in [Agents -> BOOLEAN]
  /\ live \in [Agents -> SUBSET Ports]
  /\ forwarded \in SUBSET Request

(* A queue file never carries two requests under one ID, nor one at or      *)
(* below LastConsumedID, whichever writer's file wins a race.               *)
WellFormed(q) ==
  /\ \A r \in q.pending : r.id > q.consumed
  /\ \A r, s \in q.pending : r.id = s.id => r = s
QueueWellFormed == WellFormed(queue)

(* Calls that do not overlap leave a file the next one can parse, wherever  *)
(* one of them dies: neither a truncated nor a half-written temporary file  *)
(* is ever renamed.                                                         *)
QueueReadable == text = Whole

(* The rule of portfwd-ack-apply.md: within a tick the cursor moves past a  *)
(* request of the file it read only when that request's forward succeeded   *)
(* in this process; everything it steps over is applied.                    *)
CursorFollowsApply ==
  \A a \in Agents : \A r \in agent[a].reqs :
    agent[a].lastAcked < r.id /\ r.id <= agent[a].cursor
      => r \in agent[a].applied

(* No request waiting in the queue is passed over unforwarded: not by the   *)
(* ack file, from which the next call prunes it, nor by the memory of an    *)
(* agent, which would never look at it again.                               *)
NothingPassedOver ==
  \A r \in queue.pending :
    r.id <= ack \/ (\E a \in Agents : agent[a].pc # "down" /\ r.id <= agent[a].lastAcked)
      => r \in forwarded

(* A request leaves the queue file only after it was forwarded or once it   *)
(* has outlived its TTL; an enqueue call never takes back another's.        *)
LeavesOnlySettled ==
  [][\A r \in queue.pending \ queue'.pending :
       r \in forwarded \/ Expired(r, cutoff)]_queue

(* The queue file is a mailbox: no call gives out an ID again, not even one *)
(* whose request has left the file, and none takes out what no agent has    *)
(* forwarded.                                                               *)
Mailbox == INSTANCE RequestMailbox WITH waiting <- queue.pending, served <- forwarded
ImplementsMailbox == Mailbox!Spec

(* The ack file never goes back, even when an agent that could not read it  *)
(* starts over from zero and marks a smaller ID.                            *)
AckNeverRegresses == [][ack' >= ack]_ack

MasterLost == \E a \in Agents : agent[a].pc # "down" /\ ~master[a]

(* A request that some agent serves and none has forwarded.                 *)
Pending(p) ==
  \E r \in queue.pending :
    r.port = p /\ r \notin forwarded /\ \E a \in Agents : IsOurs(a, r)

(* Every agent for the requests of p stands before an older one for another *)
(* engine.  It stays in the file, served or not, until a call prunes it.    *)
Headed(p) ==
  \A r \in queue.pending, a \in Agents :
    r.port = p /\ r \notin forwarded /\ IsOurs(a, r)
      => \E s \in queue.pending : s.id < r.id /\ ~IsOurs(a, s) /\ ~Settled(a, s)

(* A request for a served engine is forwarded in the end, across crashes,   *)
(* failed forwards and failed ack writes, unless an agent has lost its      *)
(* master or a request for another engine is ahead of it.                   *)
EveryRequestServed ==
  \A p \in Ports : Pending(p) ~> (~Pending(p) \/ MasterLost \/ Headed(p))

(* portfwd-operator-guide.md on a dead forward: pressing Enter makes the    *)
(* agent re-establish the ControlMaster and reapply the forward, so a       *)
(* request is served in the end even when the master was lost.              *)
RetryReestablishes == \A p \in Ports : Pending(p) ~> ~Pending(p)

=============================================================================
