------------------------ MODULE ForwardQueue_proofs ------------------------
(* Proofs of the safety properties of ForwardQueue. *)
EXTENDS ForwardQueue, WellFoundedInduction, TLAPS

(* A nonempty bounded set of naturals has the maximum NextID looks for. *)
LEMMA MaxOfBounded ==
  ASSUME NEW S \in SUBSET Nat, S # {}, NEW n \in Nat, \A x \in S : x <= n
  PROVE  Max(S) \in S /\ \A x \in S : x <= Max(S)
<1> DEFINE Above == {m \in Nat : \A x \in S : x <= m}
<1>1. Above \subseteq Nat /\ Above # {}
  OBVIOUS
<1>2. PICK m \in Above : \A k \in Above : ~ (<<k, m>> \in OpToRel(<, Nat))
  <2>1. IsWellFoundedOn(OpToRel(<, Nat), Nat)
    BY NatLessThanWellFounded
  <2> QED BY <2>1, <1>1, WFMin
<1>3. \A k \in Above : ~ (k < m)
  BY <1>1, <1>2, Zenon DEF OpToRel
<1>4. m \in S
  <2>1. SUFFICES ASSUME m \notin S PROVE FALSE
    OBVIOUS
  <2>2. \A x \in S : x < m
    BY <2>1, <1>1
  <2>3. m - 1 \in Nat
    <3>1. PICK x \in S : TRUE
      OBVIOUS
    <3>2. x \in Nat /\ m \in Nat /\ x < m
      BY <2>2, <3>1
    <3> QED BY <3>2
  <2>4. \A x \in S : x <= m - 1
    <3>1. ASSUME NEW x \in S PROVE x <= m - 1
      <4>1. x \in Nat /\ m \in Nat /\ x < m
        BY <2>2
      <4> QED BY <4>1
    <3> QED BY <3>1
  <2>5. m - 1 \in Above /\ m - 1 < m
    BY <2>3, <2>4
  <2> QED BY <2>5, <1>3
<1>5. \A y \in S : m >= y
  BY <1>1
<1>6. \E x \in S : \A y \in S : x >= y
  BY <1>4, <1>5
<1>7. Max(S) \in S /\ \A y \in S : Max(S) >= y
  BY <1>6, Zenon DEF Max
<1> QED BY <1>7

-----------------------------------------------------------------------------
(* What keeps the IDs of a queue file usable: they are bounded, so that a   *)
(* next one exists, and WellFormed.                                         *)
Bounded(q) == \E n \in Nat : \A r \in q.pending : r.id <= n

QueueOK(q) == Bounded(q) /\ WellFormed(q)

(* Every copy of the queue file is in order: the file, the temporary file   *)
(* and the ones enqueue calls hold.                                         *)
FilesOK ==
  /\ QueueOK(queue)
  /\ tmp \in Queue => QueueOK(tmp)
  /\ \A w \in Writers : QueueOK(writer[w].q)

LEMMA EmptyQueueOK == EmptyQueue \in Queue /\ QueueOK(EmptyQueue)
BY DEF EmptyQueue, Queue, QueueOK, Bounded, WellFormed

(* The next ID is above every ID in use. *)
LEMMA NextIDFresh ==
  ASSUME NEW q \in Queue, Bounded(q)
  PROVE  /\ NextID(q) \in Nat
         /\ NextID(q) > q.consumed
         /\ \A r \in q.pending : NextID(q) > r.id
<1>1. PICK n \in Nat : \A r \in q.pending : r.id <= n
  BY DEF Bounded
<1>2. q.consumed \in Nat /\ \A r \in q.pending : r.id \in Nat
  BY DEF Queue, Request
<1> DEFINE m == IF q.consumed > n THEN q.consumed ELSE n
<1>3. m \in Nat /\ q.consumed <= m /\ n <= m
  BY <1>2
<1>4. IdsOf(q) \in SUBSET Nat /\ IdsOf(q) # {}
  BY <1>2 DEF IdsOf
<1>5. \A x \in IdsOf(q) : x <= m
  BY <1>1, <1>2, <1>3 DEF IdsOf
<1> HIDE DEF m
<1>6. Max(IdsOf(q)) \in IdsOf(q) /\ \A x \in IdsOf(q) : x <= Max(IdsOf(q))
  BY <1>3, <1>4, <1>5, MaxOfBounded
<1>7. q.consumed \in IdsOf(q) /\ \A r \in q.pending : r.id \in IdsOf(q)
  BY DEF IdsOf
<1> DEFINE top == Max(IdsOf(q))
<1>8. top \in Nat /\ q.consumed <= top /\ \A r \in q.pending : r.id <= top
  BY <1>4, <1>6, <1>7
<1>9. NextID(q) = top + 1
  BY DEF NextID
<1> HIDE DEF top
<1> QED BY <1>2, <1>8, <1>9

LEMMA EnqueueKeepsOK ==
  ASSUME NEW q \in Queue, QueueOK(q), NEW p \in Ports,
         NEW h \in Hosts \cup {AnyHost}, NEW born \in Nat
  PROVE  Enqueue(q, p, h, born) \in Queue /\ QueueOK(Enqueue(q, p, h, born))
<1> DEFINE r == [id |-> NextID(q), port |-> p, host |-> h, born |-> born]
           e == Enqueue(q, p, h, born)
<1>1. Bounded(q) /\ WellFormed(q)
  BY DEF QueueOK
<1>2. /\ NextID(q) \in Nat /\ NextID(q) > q.consumed
      /\ \A s \in q.pending : NextID(q) > s.id
  BY <1>1, NextIDFresh
<1>3. r \in Request /\ r.id = NextID(q)
  BY <1>2 DEF Request
<1>4. e.consumed = q.consumed /\ e.pending = q.pending \cup {r}
  BY DEF Enqueue, Queue
<1>5. e \in Queue
  BY <1>3 DEF Enqueue, Queue
<1>6. \A s \in q.pending : s.id \in Nat
  BY DEF Queue, Request
<1> HIDE DEF r, e
<1>7. Bounded(e)
  <2>1. \A s \in e.pending : s.id <= NextID(q)
    BY <1>2, <1>3, <1>4, <1>6
  <2> QED BY <2>1, <1>2 DEF Bounded
<1>8. WellFormed(e)
  BY <1>1, <1>2, <1>3, <1>4, <1>6 DEF WellFormed
<1> QED BY <1>5, <1>7, <1>8 DEF QueueOK, e

LEMMA PruneKeepsOK ==
  ASSUME NEW q \in Queue, QueueOK(q), NEW acked \in Nat, NEW c \in Nat
  PROVE  Prune(q, acked, c) \in Queue /\ QueueOK(Prune(q, acked, c))
<1> DEFINE e == Prune(q, acked, c)
<1>1. /\ e.consumed = IF acked > q.consumed THEN acked ELSE q.consumed
      /\ e.pending = {r \in q.pending : r.id > acked /\ ~Expired(r, c)}
  BY DEF Prune
<1>2. e \in Queue
  BY DEF Prune, Queue
<1> HIDE DEF e
<1>3. Bounded(e) /\ WellFormed(e)
  BY <1>1 DEF QueueOK, Bounded, WellFormed
<1> QED BY <1>2, <1>3 DEF QueueOK, e

-----------------------------------------------------------------------------
(* Types and queue files, one step per action. *)

IInv == TypeOK /\ FilesOK

LEMMA InitIInv == Init => IInv
<1> SUFFICES ASSUME Init PROVE IInv
  OBVIOUS
<1> USE DEF Init
<1>1. EmptyQueue \in Queue /\ QueueOK(EmptyQueue)
  BY EmptyQueueOK
<1>2. IdleWriter \in WriterState /\ IdleWriter.q = EmptyQueue
  BY <1>1 DEF IdleWriter, WriterState
<1>3. AgentDown \in AgentState
  BY DEF AgentDown, AgentState
<1>4. TypeOK
  BY <1>1, <1>2, <1>3 DEF TypeOK, QueueFile
<1>5. FilesOK
  BY <1>1, <1>2, ConstantsAssumption DEF FilesOK
<1> QED BY <1>4, <1>5 DEF IInv

(* What requests.json parses to once c is its contents. *)
LEMMA InstallOK ==
  ASSUME NEW c \in Queue \cup {Empty, Mixed}, c \in Queue => QueueOK(c), Install(c)
  PROVE  queue' \in Queue /\ QueueOK(queue') /\ text' \in {Whole, Empty, Mixed}
BY EmptyQueueOK DEF Install, Parsed, TextOf

(* Steps of a writer leave the laptop alone. *)
LEMMA WriterStepIInv ==
  ASSUME IInv, NEW w \in Writers, WriterNext(w)
  PROVE  IInv'
<1> USE DEF IInv
<1>1. ASSUME NEW ports \in Seq(Ports), NEW h \in Hosts \cup {AnyHost},
             NEW dedup \in BOOLEAN, Load(w, ports, h, dedup)
      PROVE  IInv'
  <2>1. PICK c \in cutoff .. (IF calls < MaxCutoff THEN calls ELSE MaxCutoff) :
           /\ cutoff' = c
           /\ writer' = [writer EXCEPT ![w] =
                [IdleWriter EXCEPT !.pc = "loaded", !.q = queue, !.ports = ports,
                                   !.host = h, !.dedup = dedup, !.born = calls,
                                   !.cut = c]]
    BY <1>1 DEF Load
  <2>2. c \in Nat
    BY ConstantsAssumption DEF TypeOK
  <2>3. writer' \in [Writers -> WriterState]
    BY <2>1, <2>2 DEF TypeOK, WriterState, IdleWriter
  <2>4. TypeOK'
    BY <1>1, <2>1, <2>2, <2>3 DEF Load, TypeOK, laptopVars
  <2>5. writer'[w].q = queue /\ \A v \in Writers \ {w} : writer'[v] = writer[v]
    BY <2>1 DEF TypeOK, IdleWriter
  <2>6. FilesOK'
    BY <1>1, <2>5 DEF Load, FilesOK
  <2> QED BY <2>4, <2>6
<1>2. CASE Declare(w)
  BY <1>1, <1>2, ConstantsAssumption DEF Declare
<1>3. CASE EnqueueForwardRequest(w)
  <2>1. PICK p \in Ports : Load(w, <<p>>, AnyHost, FALSE)
    BY <1>3 DEF EnqueueForwardRequest
  <2>2. <<p>> \in Seq(Ports) /\ AnyHost \in Hosts \cup {AnyHost} /\ FALSE \in BOOLEAN
    OBVIOUS
  <2> QED BY <1>1, <2>1, <2>2
<1>4. CASE ReadAckAndPrune(w)
  <2> DEFINE q == Prune(writer[w].q, ack, writer[w].cut)
  <2>1. writer[w] \in WriterState /\ ack \in Nat /\ QueueOK(writer[w].q)
    BY DEF TypeOK, FilesOK
  <2>2. q \in Queue /\ QueueOK(q)
    BY <2>1, PruneKeepsOK DEF WriterState
  <2>3. {r.port : r \in q.pending} \subseteq Ports
    BY <2>2 DEF Queue, Request
  <2>4. writer' = [writer EXCEPT ![w].pc = "enqueue", ![w].q = q,
                      ![w].known = IF writer[w].dedup
                                   THEN {r.port : r \in q.pending} ELSE {}]
    BY <1>4 DEF ReadAckAndPrune
  <2> HIDE DEF q
  <2>5. writer' \in [Writers -> WriterState]
    BY <2>1, <2>2, <2>3, <2>4 DEF TypeOK, WriterState
  <2>6. TypeOK'
    BY <1>4, <2>5 DEF ReadAckAndPrune, TypeOK, laptopVars
  <2>7. writer'[w].q = q /\ \A v \in Writers \ {w} : writer'[v] = writer[v]
    BY <2>1, <2>4 DEF TypeOK, WriterState
  <2>8. FilesOK'
    BY <1>4, <2>2, <2>7 DEF ReadAckAndPrune, FilesOK
  <2> QED BY <2>6, <2>8
<1>5. CASE EnqueueNext(w)
  <2> DEFINE p == Head(writer[w].ports)
             e == Enqueue(writer[w].q, p, writer[w].host, writer[w].born)
             q == IF p \in writer[w].known THEN writer[w].q ELSE e
  <2>1. writer[w] \in WriterState /\ QueueOK(writer[w].q) /\ writer[w].ports # <<>>
    BY <1>5 DEF EnqueueNext, TypeOK, FilesOK
  <2>2. p \in Ports /\ Tail(writer[w].ports) \in Seq(Ports)
    BY <2>1 DEF WriterState
  <2>3. e \in Queue /\ QueueOK(e)
    BY <2>1, <2>2, EnqueueKeepsOK DEF WriterState
  <2>4. q \in Queue /\ QueueOK(q)
    BY <2>1, <2>3 DEF WriterState
  <2>5. writer' = [writer EXCEPT ![w].ports = Tail(writer[w].ports), ![w].q = q]
    BY <1>5, <2>1 DEF EnqueueNext, TypeOK
  <2> HIDE DEF q
  <2>6. writer' \in [Writers -> WriterState]
    BY <2>1, <2>2, <2>4, <2>5 DEF TypeOK, WriterState
  <2>7. TypeOK'
    BY <1>5, <2>6 DEF EnqueueNext, TypeOK, laptopVars
  <2>8. writer'[w].q = q /\ \A v \in Writers \ {w} : writer'[v] = writer[v]
    BY <2>1, <2>5 DEF TypeOK, WriterState
  <2>9. FilesOK'
    BY <1>5, <2>4, <2>8 DEF EnqueueNext, FilesOK
  <2> QED BY <2>7, <2>9
<1>6. CASE OpenTmp(w)
  <2>1. writer' = [writer EXCEPT ![w].pc = "fill", ![w].fd = "tmp"]
    BY <1>6 DEF OpenTmp
  <2>2. writer' \in [Writers -> WriterState] /\ \A v \in Writers : writer'[v].q = writer[v].q
    <3>1. PICK h : h = [writer[w] EXCEPT !.pc = "fill", !.fd = "tmp"]
      OBVIOUS
    <3>2. writer' = [writer EXCEPT ![w] = h]
      BY <2>1, <3>1 DEF TypeOK
    <3>3. h \in WriterState /\ h.q = writer[w].q
      BY <3>1 DEF TypeOK, WriterState
    <3> QED BY <3>2, <3>3 DEF TypeOK
  <2>3. TypeOK'
    BY <1>6, <2>2 DEF OpenTmp, TypeOK, laptopVars, QueueFile
  <2>4. FilesOK'
    BY <1>6, <2>2, ConstantsAssumption DEF OpenTmp, FilesOK
  <2> QED BY <2>3, <2>4
<1>10. CASE FillTmp(w)
  <2>1. writer[w] \in WriterState /\ QueueOK(writer[w].q) /\ writer[w].q \in Queue
    BY DEF TypeOK, FilesOK, WriterState
  <2>2. writer' = [writer EXCEPT ![w].pc = "rename", ![w].fd = "none"]
    BY <1>10 DEF FillTmp
  <2>3. writer' \in [Writers -> WriterState] /\ \A v \in Writers : writer'[v].q = writer[v].q
    <3>1. PICK h : h = [writer[w] EXCEPT !.pc = "rename", !.fd = "none"]
      OBVIOUS
    <3>2. writer' = [writer EXCEPT ![w] = h]
      BY <2>2, <3>1 DEF TypeOK
    <3>3. h \in WriterState /\ h.q = writer[w].q
      BY <3>1 DEF TypeOK, WriterState
    <3> QED BY <3>2, <3>3 DEF TypeOK
  <2>4. tmp' \in QueueFile /\ (tmp' \in Queue => QueueOK(tmp'))
    BY <1>10, <2>1, ConstantsAssumption
    DEF FillTmp, Fill, WrittenOver, TypeOK, FilesOK, QueueFile
  <2>5. queue' \in Queue /\ QueueOK(queue') /\ text' \in {Whole, Empty, Mixed}
    <3>1. CASE writer[w].fd = "file"
      <4>1. PICK c \in {writer[w].q, Mixed} : Install(c)
        BY <1>10, <3>1 DEF FillTmp, Fill, WrittenOver
      <4>2. c \in Queue \cup {Empty, Mixed} /\ (c \in Queue => QueueOK(c))
        BY <2>1, <4>1, ConstantsAssumption
      <4> QED BY <4>1, <4>2, InstallOK
    <3>2. CASE writer[w].fd # "file"
      BY <1>10, <3>2 DEF FillTmp, Fill, TypeOK, FilesOK
    <3> QED BY <3>1, <3>2
  <2>6. TypeOK' /\ FilesOK'
    BY <1>10, <2>3, <2>4, <2>5 DEF FillTmp, TypeOK, FilesOK, laptopVars
  <2> QED BY <2>6
<1>7. ASSUME writer' = [writer EXCEPT ![w] = IdleWriter]
      PROVE  /\ writer' \in [Writers -> WriterState]
             /\ \A v \in Writers : QueueOK(writer'[v].q)
  <2>1. IdleWriter \in WriterState /\ QueueOK(IdleWriter.q)
    BY EmptyQueueOK DEF IdleWriter, WriterState
  <2> QED BY <1>7, <2>1 DEF TypeOK, FilesOK
<1>8. CASE Rename(w)
  <2>1. CASE tmp = NoFile
    BY <1>7, <1>8, <2>1 DEF Rename, TypeOK, laptopVars, QueueFile, FilesOK
  <2>2. CASE tmp # NoFile
    <3>1. Install(tmp) /\ tmp' = NoFile
      BY <1>8, <2>2 DEF Rename
    <3>2. queue' \in Queue /\ QueueOK(queue') /\ text' \in {Whole, Empty, Mixed}
      BY <2>2, <3>1, InstallOK DEF TypeOK, FilesOK, QueueFile
    <3>3. ASSUME NEW v \in Writers
          PROVE  writer'[v] \in WriterState /\ QueueOK(writer'[v].q)
      <4>1. CASE v = w
        <5>1. writer'[v] = IdleWriter
          BY <1>8, <2>2, <4>1 DEF Rename
        <5>2. IdleWriter \in WriterState /\ QueueOK(IdleWriter.q)
          BY EmptyQueueOK DEF IdleWriter, WriterState
        <5> QED BY <5>1, <5>2
      <4>2. CASE v # w
        <5>1. writer'[v] = [writer[v] EXCEPT !.fd = Renamed(writer[v].fd)]
          BY <1>8, <2>2, <4>2 DEF Rename, TypeOK, WriterState
        <5>2. writer[v] \in WriterState /\ QueueOK(writer[v].q)
          BY DEF TypeOK, FilesOK
        <5>3. Renamed(writer[v].fd) \in {"none", "tmp", "file", "lost"}
          BY <5>2 DEF Renamed, WriterState
        <5>4. writer'[v].q = writer[v].q
          BY <5>1, <5>2 DEF WriterState
        <5>5. writer'[v] \in WriterState
          BY <5>1, <5>2, <5>3 DEF WriterState
        <5> QED BY <5>2, <5>4, <5>5
      <4> QED BY <4>1, <4>2
    <3>4. writer' = [v \in Writers |-> writer'[v]]
      BY <1>8, <2>2 DEF Rename
    <3>5. writer' \in [Writers -> WriterState]
      BY <3>3, <3>4
    <3> QED BY <1>8, <3>1, <3>2, <3>3, <3>5, ConstantsAssumption
            DEF Rename, TypeOK, laptopVars, QueueFile, FilesOK
  <2> QED BY <2>1, <2>2
<1>9. CASE WriterDies(w)
  BY <1>7, <1>9 DEF WriterDies, TypeOK, laptopVars, FilesOK
<1> QED BY <1>2, <1>3, <1>4, <1>5, <1>6, <1>8, <1>9, <1>10 DEF WriterNext

LEMMA WriterKeeps ==
  ASSUME NEW w \in Writers, WriterNext(w)
  PROVE  agent' = agent /\ forwarded' = forwarded /\ ack' = ack
BY DEF WriterNext, Declare, EnqueueForwardRequest, Load, ReadAckAndPrune, EnqueueNext,
       OpenTmp, FillTmp, Rename, WriterDies, laptopVars

(* Steps of an agent leave the queue files alone. *)
LEMMA AgentStepIInv ==
  ASSUME IInv, NEW a \in Agents, EnsureMaster(a) \/ AgentStep(a) \/ AgentFault(a)
  PROVE  IInv'
<1> USE DEF IInv
<1>1. agent[a] \in AgentState /\ TypeOK
  BY DEF TypeOK
<1>2. ASSUME UNCHANGED engineVars, agent' \in [Agents -> AgentState], ack' \in Nat,
             faults' \in Nat, master' \in [Agents -> BOOLEAN],
             live' \in [Agents -> SUBSET Ports], forwarded' \in SUBSET Request
      PROVE  IInv'
  BY <1>2 DEF TypeOK, FilesOK, engineVars
<1>3. CASE EnsureMaster(a)
  <2>1. [AgentDown EXCEPT !.pc = "idle", !.cut = agent[a].cut] \in AgentState
    BY <1>1 DEF AgentDown, AgentState
  <2>2. agent' \in [Agents -> AgentState]
    BY <1>3, <2>1 DEF EnsureMaster, TypeOK
  <2> QED BY <1>1, <1>2, <1>3, <2>2 DEF EnsureMaster, TypeOK
<1>4. CASE TickRead(a)
  <2>1. queue.pending \in SUBSET Request
    BY DEF TypeOK, Queue
  <2>2. PICK c \in agent[a].cut .. (IF calls < MaxCutoff THEN calls ELSE MaxCutoff) :
           agent' = [agent EXCEPT ![a].reqs = queue.pending, ![a].todo = queue.pending,
                              ![a].cursor = agent[a].lastAcked, ![a].cut = c,
                              ![a].pc = IF agent[a].seeded THEN "loop" ELSE "seed"]
    BY <1>4 DEF TickRead
  <2>3. c \in Nat
    BY <1>1, ConstantsAssumption DEF TypeOK, AgentState
  <2>4. agent' \in [Agents -> AgentState]
    BY <1>1, <2>1, <2>2, <2>3 DEF TypeOK, AgentState
  <2> QED BY <1>1, <1>2, <1>4, <2>4 DEF TickRead, TypeOK
<1>5. CASE Seed(a)
  <2>1. agent' \in [Agents -> AgentState]
    BY <1>1, <1>5 DEF Seed, TypeOK, AgentState
  <2> QED BY <1>1, <1>2, <1>5, <2>1 DEF Seed, TypeOK
<1>6. CASE SkipSettled(a)
  <2>1. PICK r \in agent[a].todo :
           agent' = [agent EXCEPT ![a].todo = @ \ {r},
                       ![a].cursor = IF r.id > agent[a].lastAcked THEN r.id ELSE @]
    BY <1>6 DEF SkipSettled
  <2>2. r.id \in Nat
    BY <1>1 DEF AgentState, Request
  <2>3. agent' \in [Agents -> AgentState]
    BY <1>1, <2>1, <2>2 DEF TypeOK, AgentState
  <2> QED BY <1>1, <1>2, <1>6, <2>3 DEF SkipSettled, TypeOK
<1>7. CASE Stall(a)
  <2>1. agent' \in [Agents -> AgentState]
    BY <1>1, <1>7 DEF Stall, TypeOK, AgentState
  <2> QED BY <1>1, <1>2, <1>7, <2>1 DEF Stall, TypeOK
<1>8. CASE Forward(a)
  <2>1. PICK r \in agent[a].todo :
           /\ live' = [live EXCEPT ![a] = @ \cup {r.port}]
           /\ forwarded' = forwarded \cup {r}
           /\ agent' = [agent EXCEPT ![a].todo = @ \ {r}, ![a].cursor = r.id,
                                     ![a].applied = @ \cup {r}]
    BY <1>8 DEF Forward
  <2>2. r \in Request /\ r.id \in Nat /\ r.port \in Ports
    BY <1>1 DEF AgentState, Request
  <2>3. agent' \in [Agents -> AgentState]
    BY <1>1, <2>1, <2>2 DEF TypeOK, AgentState
  <2>4. live' \in [Agents -> SUBSET Ports] /\ forwarded' \in SUBSET Request
    BY <1>1, <2>1, <2>2 DEF TypeOK
  <2> QED BY <1>1, <1>2, <1>8, <2>3, <2>4 DEF Forward, TypeOK
<1>9. TickDone(agent[a]) \in AgentState
  BY <1>1 DEF TickDone, AgentState
<1>10. CASE NothingToMark(a)
  <2>1. agent' \in [Agents -> AgentState]
    BY <1>1, <1>9, <1>10 DEF NothingToMark, TypeOK, AgentState
  <2> QED BY <1>1, <1>2, <1>10, <2>1 DEF NothingToMark, TypeOK
<1>11. CASE MarkRead(a)
  <2>1. agent' \in [Agents -> AgentState]
    BY <1>1, <1>9, <1>11 DEF MarkRead, TypeOK, AgentState
  <2> QED BY <1>1, <1>2, <1>11, <2>1 DEF MarkRead, TypeOK
<1>12. CASE MarkWrite(a)
  <2>1. agent' \in [Agents -> AgentState] /\ ack' \in Nat
    BY <1>1, <1>9, <1>12 DEF MarkWrite, TypeOK, AgentState
  <2> QED BY <1>1, <1>2, <1>12, <2>1 DEF MarkWrite, TypeOK
<1>13. CASE MarkFails(a)
  <2>1. agent' \in [Agents -> AgentState]
    BY <1>1, <1>9, <1>13 DEF MarkFails, TypeOK
  <2> QED BY <1>1, <1>2, <1>13, <2>1 DEF MarkFails, TypeOK
<1>14. CASE ForwardFails(a)
  <2>1. agent' \in [Agents -> AgentState]
    BY <1>1, <1>14 DEF ForwardFails, TypeOK, AgentState
  <2> QED BY <1>1, <1>2, <1>14, <2>1 DEF ForwardFails, TypeOK
<1>15. [AgentDown EXCEPT !.cut = agent[a].cut] \in AgentState
  BY <1>1 DEF AgentDown, AgentState
<1>16. CASE StopAgent(a)
  <2>1. agent' \in [Agents -> AgentState] /\ live' \in [Agents -> SUBSET Ports]
    BY <1>1, <1>15, <1>16 DEF StopAgent, TypeOK
  <2> QED BY <1>1, <1>2, <1>16, <2>1 DEF StopAgent, TypeOK
<1>17. CASE Crash(a)
  <2>1. agent' \in [Agents -> AgentState]
    BY <1>1, <1>15, <1>17 DEF Crash, TypeOK
  <2> QED BY <1>1, <1>2, <1>17, <2>1 DEF Crash, TypeOK
<1>18. CASE MasterDies(a)
  BY <1>1, <1>2, <1>18 DEF MasterDies, TypeOK
<1> QED
  BY <1>3, <1>4, <1>5, <1>6, <1>7, <1>8, <1>10, <1>11, <1>12, <1>13, <1>14,
     <1>16, <1>17, <1>18 DEF AgentStep, AgentFault

LEMMA StepIInv == IInv /\ [Next]_vars => IInv'
<1> SUFFICES ASSUME IInv, [Next]_vars PROVE IInv'
  OBVIOUS
<1>1. CASE \E w \in Writers : WriterNext(w)
  BY <1>1, WriterStepIInv
<1>2. CASE \E a \in Agents : EnsureMaster(a) \/ AgentStep(a) \/ AgentFault(a)
  BY <1>2, AgentStepIInv
<1>3. CASE UNCHANGED vars
  BY <1>3 DEF vars, engineVars, laptopVars, IInv, TypeOK, FilesOK
<1> QED BY <1>1, <1>2, <1>3 DEF Next

LEMMA InvariantIInv == Spec => []IInv
BY InitIInv, StepIInv, PTL DEF Spec

(* Every variable keeps its type, for any number of writers and agents: in  *)
(* particular the next ID always exists.                                    *)
THEOREM TypeCorrect == Spec => []TypeOK
<1>1. IInv => TypeOK
  BY DEF IInv
<1> QED BY <1>1, InvariantIInv, PTL

(* Whatever enqueue calls race, with crashes at any point, the queue file   *)
(* carries no ID twice and none that LastConsumedID covers.                 *)
THEOREM QueueStaysWellFormed == Spec => []QueueWellFormed
<1>1. IInv => QueueWellFormed
  BY DEF IInv, FilesOK, QueueOK, QueueWellFormed
<1> QED BY <1>1, InvariantIInv, PTL

-----------------------------------------------------------------------------
(* The cursor of a tick. *)

UniqueIds(S) == \A r, s \in S : r.id = s.id => r = s

(* What the loop of Tick maintains for an agent in state g.  The requests   *)
(* behind the one it is at are settled, and the cursor is never ahead of    *)
(* the ones to come; what the process applied is acknowledged or in the     *)
(* file this tick read, at or below the cursor.                             *)
TickOK(g) ==
  /\ UniqueIds(g.reqs) /\ g.todo \subseteq g.reqs
  /\ g.pc \in {"down", "idle"} => g.reqs = {}
  /\ g.pc = "mark" => g.todo = {} /\ g.lastAcked < g.cursor
  /\ g.pc = "seed" => ~g.seeded /\ g.cursor = g.lastAcked /\ g.todo = g.reqs
  /\ g.pc \in {"loop", "mark"} => g.seeded
  /\ ~g.seeded => g.applied = {}
  /\ g.todo # {} => \A x \in g.reqs \ g.todo : x.id <= g.lastAcked \/ x \in g.applied
  /\ \A x \in g.todo : g.cursor <= x.id \/ g.cursor <= g.lastAcked
  /\ \A x \in g.applied :
       x.id <= g.lastAcked \/ (x \in g.reqs /\ x.id <= g.cursor)
  /\ \A x \in g.reqs :
       g.lastAcked < x.id /\ x.id <= g.cursor => x \in g.applied

TicksOK == \A a \in Agents : TickOK(agent[a])

LEMMA TickDoneOK ==
  ASSUME NEW g \in AgentState, TickOK(g), g.pc \in {"loop", "mark"}, g.todo = {},
         g.cursor > g.lastAcked
  PROVE  TickOK(TickDone(g))
<1> DEFINE h == TickDone(g)
<1>1. /\ h.pc = "idle" /\ h.reqs = {} /\ h.todo = {} /\ h.lastAcked = g.cursor
      /\ h.cursor = g.cursor /\ h.applied = g.applied /\ h.seeded = g.seeded
  BY DEF TickDone, AgentState
<1>2. \A x \in g.applied : x.id <= g.cursor
  BY DEF TickOK, AgentState, Request
<1> HIDE DEF h
<1> QED BY <1>1, <1>2 DEF TickOK, UniqueIds, h

(* Every step of an agent keeps what the loop of Tick relies on; the file a *)
(* tick reads has unique IDs because it is well formed.                     *)
LEMMA AgentStepTicks ==
  ASSUME IInv, TicksOK, NEW a \in Agents,
         EnsureMaster(a) \/ AgentStep(a) \/ AgentFault(a)
  PROVE  TicksOK'
<1> DEFINE g == agent[a]
<1>1. g \in AgentState /\ TickOK(g) /\ agent \in [Agents -> AgentState]
  BY DEF IInv, TypeOK, TicksOK
<1>2. ASSUME NEW h, agent' = [agent EXCEPT ![a] = h], TickOK(h)
      PROVE  TicksOK'
  BY <1>1, <1>2 DEF TicksOK
<1>3. g.lastAcked \in Nat /\ g.cursor \in Nat /\ \A x \in g.reqs \cup g.applied : x.id \in Nat
  BY <1>1 DEF AgentState, Request
<1>4. TickOK([AgentDown EXCEPT !.cut = agent[a].cut])
  BY DEF AgentDown, TickOK, UniqueIds
<1>5. CASE EnsureMaster(a)
  <2>1. TickOK([AgentDown EXCEPT !.pc = "idle", !.cut = agent[a].cut])
    BY DEF AgentDown, TickOK, UniqueIds
  <2> QED BY <1>2, <1>5, <2>1 DEF EnsureMaster
<1>6. CASE TickRead(a)
  <2>1. UniqueIds(queue.pending)
    BY DEF IInv, FilesOK, QueueOK, WellFormed, UniqueIds
  <2>2. PICK c : agent' = [agent EXCEPT ![a].reqs = queue.pending,
                   ![a].todo = queue.pending, ![a].cursor = agent[a].lastAcked,
                   ![a].cut = c, ![a].pc = IF agent[a].seeded THEN "loop" ELSE "seed"]
    BY <1>6 DEF TickRead
  <2> DEFINE h == [g EXCEPT !.reqs = queue.pending, !.todo = queue.pending,
                     !.cursor = g.lastAcked, !.cut = c,
                     !.pc = IF g.seeded THEN "loop" ELSE "seed"]
  <2>3. agent' = [agent EXCEPT ![a] = h]
    BY <1>1, <2>2
  <2>4. /\ h.reqs = queue.pending /\ h.todo = queue.pending
        /\ h.cursor = g.lastAcked /\ h.lastAcked = g.lastAcked
        /\ h.pc = (IF g.seeded THEN "loop" ELSE "seed")
        /\ h.seeded = g.seeded /\ h.applied = g.applied
    BY <1>1 DEF AgentState
  <2>5. g.pc = "idle"
    BY <1>6 DEF TickRead
  <2>6. \A x \in queue.pending : x.id \in Nat
    BY DEF IInv, TypeOK, Queue, Request
  <2> HIDE DEF h, g
  <2>7. TickOK(h)
    BY <1>1, <1>3, <2>1, <2>4, <2>5, <2>6 DEF TickOK
  <2> QED BY <1>2, <2>3, <2>7
<1>7. CASE Seed(a)
  <2>1. PICK n \in {ack, g.lastAcked} :
          agent' = [agent EXCEPT ![a].lastAcked = n, ![a].cursor = n,
                                 ![a].seeded = TRUE, ![a].pc = "loop"]
    <3>1. CASE agent' = [agent EXCEPT ![a].lastAcked = ack, ![a].cursor = ack,
                                      ![a].seeded = TRUE, ![a].pc = "loop"]
      BY <3>1
    <3>2. CASE agent' = [agent EXCEPT ![a].seeded = TRUE, ![a].pc = "loop"]
      <4>1. g.cursor = g.lastAcked
        BY <1>1, <1>7 DEF Seed, TickOK
      <4>2. [g EXCEPT !.seeded = TRUE, !.pc = "loop"]
              = [g EXCEPT !.lastAcked = g.lastAcked, !.cursor = g.lastAcked,
                          !.seeded = TRUE, !.pc = "loop"]
        BY <1>1, <4>1 DEF AgentState
      <4> QED BY <1>1, <3>2, <4>2
    <3> QED BY <1>7, <3>1, <3>2 DEF Seed
  <2> DEFINE h == [g EXCEPT !.lastAcked = n, !.cursor = n, !.seeded = TRUE, !.pc = "loop"]
  <2>2. agent' = [agent EXCEPT ![a] = h]
    BY <1>1, <2>1
  <2>3. /\ h.reqs = g.reqs /\ h.todo = g.todo /\ h.cursor = n /\ h.lastAcked = n
        /\ h.pc = "loop" /\ h.seeded /\ h.applied = g.applied
    BY <1>1 DEF AgentState
  <2>4. n \in Nat /\ g.pc = "seed"
    BY <1>3, <1>7, <2>1 DEF Seed, IInv, TypeOK
  <2> HIDE DEF h, g
  <2>5. TickOK(h)
    BY <1>1, <1>3, <2>3, <2>4 DEF TickOK
  <2> QED BY <1>2, <2>2, <2>5
<1>8. ASSUME NEW r \in g.todo, AtHead(a, r)
      PROVE  /\ g.pc = "loop" /\ r \in g.reqs /\ r.id \in Nat
             /\ \A x \in g.todo : r.id <= x.id /\ x \in g.reqs
             /\ \A x \in g.reqs : x \in g.todo /\ x.id <= r.id => x = r
  BY <1>1, <1>3, <1>8 DEF AtHead, TickOK, UniqueIds
<1>9. CASE SkipSettled(a)
  <2>1. PICK r \in g.todo :
          /\ AtHead(a, r) /\ Settled(a, r)
          /\ agent' = [agent EXCEPT ![a].todo = @ \ {r},
                         ![a].cursor = IF r.id > g.lastAcked THEN r.id ELSE @]
    BY <1>9 DEF SkipSettled
  <2> DEFINE h == [g EXCEPT !.todo = g.todo \ {r},
                     !.cursor = IF r.id > g.lastAcked THEN r.id ELSE g.cursor]
  <2>2. agent' = [agent EXCEPT ![a] = h]
    BY <1>1, <2>1
  <2>3. /\ h.reqs = g.reqs /\ h.todo = g.todo \ {r} /\ h.lastAcked = g.lastAcked
        /\ h.cursor = (IF r.id > g.lastAcked THEN r.id ELSE g.cursor)
        /\ h.pc = g.pc /\ h.seeded = g.seeded /\ h.applied = g.applied
    BY <1>1 DEF AgentState
  <2>4. r.id <= g.lastAcked \/ r \in g.applied
    BY <1>1, <1>3, <1>8, <2>1 DEF Settled, TickOK, UniqueIds
  <2> HIDE DEF h, g
  <2>5. TickOK(h)
    BY <1>1, <1>3, <1>8, <2>1, <2>3, <2>4 DEF TickOK
  <2> QED BY <1>2, <2>2, <2>5
<1>10. CASE Forward(a)
  <2>1. PICK r \in g.todo :
          /\ AtHead(a, r) /\ ~Settled(a, r)
          /\ agent' = [agent EXCEPT ![a].todo = @ \ {r}, ![a].cursor = r.id,
                                    ![a].applied = @ \cup {r}]
    BY <1>10 DEF Forward
  <2> DEFINE h == [g EXCEPT !.todo = g.todo \ {r}, !.cursor = r.id,
                            !.applied = g.applied \cup {r}]
  <2>2. agent' = [agent EXCEPT ![a] = h]
    BY <1>1, <2>1
  <2>3. /\ h.reqs = g.reqs /\ h.todo = g.todo \ {r} /\ h.lastAcked = g.lastAcked
        /\ h.cursor = r.id /\ h.pc = g.pc /\ h.seeded = g.seeded
        /\ h.applied = g.applied \cup {r}
    BY <1>1 DEF AgentState
  <2>4. g.seeded
    BY <1>1, <1>8, <1>10, <2>1 DEF TickOK
  <2>5. r.id > g.lastAcked
    BY <1>3, <1>8, <2>1 DEF Settled
  <2> HIDE DEF h, g
  <2>6. TickOK(h)
    BY <1>1, <1>3, <1>8, <2>1, <2>3, <2>4, <2>5 DEF TickOK
  <2> QED BY <1>2, <2>2, <2>6
<1>11. ASSUME agent' = [agent EXCEPT ![a].todo = {}], g.pc = "loop"
       PROVE  TicksOK'
  <2> DEFINE h == [g EXCEPT !.todo = {}]
  <2>1. agent' = [agent EXCEPT ![a] = h]
    BY <1>1, <1>11
  <2>2. /\ h.reqs = g.reqs /\ h.todo = {} /\ h.lastAcked = g.lastAcked
        /\ h.cursor = g.cursor /\ h.pc = g.pc /\ h.seeded = g.seeded
        /\ h.applied = g.applied
    BY <1>1 DEF AgentState
  <2> HIDE DEF h, g
  <2>3. TickOK(h)
    BY <1>1, <1>11, <2>2 DEF TickOK
  <2> QED BY <1>2, <2>1, <2>3
<1>12. CASE Stall(a) \/ ForwardFails(a)
  BY <1>11, <1>12 DEF Stall, ForwardFails, AtHead
<1>13. CASE NothingToMark(a)
  <2> DEFINE h == [TickDone(g) EXCEPT !.lastAcked = g.lastAcked]
  <2>1. agent' = [agent EXCEPT ![a] = h]
    BY <1>1, <1>13 DEF NothingToMark
  <2>2. /\ h.reqs = {} /\ h.todo = {} /\ h.lastAcked = g.lastAcked
        /\ h.cursor = g.cursor /\ h.pc = "idle" /\ h.seeded = g.seeded
        /\ h.applied = g.applied /\ g.cursor <= g.lastAcked
    BY <1>1, <1>13 DEF AgentState, TickDone, NothingToMark
  <2> HIDE DEF h, g
  <2>3. TickOK(h)
    BY <1>1, <1>3, <2>2 DEF TickOK, UniqueIds
  <2> QED BY <1>2, <2>1, <2>3
<1>14. CASE MarkRead(a)
  <2>1. CASE agent' = [agent EXCEPT ![a] = TickDone(g)]
    BY <1>1, <1>2, <1>14, <2>1, TickDoneOK DEF MarkRead
  <2>2. CASE agent' = [agent EXCEPT ![a] = [g EXCEPT !.pc = "mark"]]
    <3> DEFINE h == [g EXCEPT !.pc = "mark"]
    <3>1. /\ h.reqs = g.reqs /\ h.todo = {} /\ h.lastAcked = g.lastAcked
          /\ h.cursor = g.cursor /\ h.pc = "mark" /\ h.seeded = g.seeded
          /\ h.applied = g.applied /\ g.pc = "loop" /\ g.cursor > g.lastAcked
      BY <1>1, <1>14 DEF AgentState, MarkRead
    <3> HIDE DEF h, g
    <3>2. TickOK(h)
      BY <1>1, <3>1 DEF TickOK
    <3> QED BY <1>2, <2>2, <3>2 DEF h
  <2> QED BY <1>1, <1>14, <2>1, <2>2 DEF MarkRead
<1>15. CASE MarkWrite(a) \/ MarkFails(a)
  <2>1. g.pc = "mark" /\ g.todo = {} /\ agent' = [agent EXCEPT ![a] = TickDone(g)]
    BY <1>1, <1>15 DEF MarkWrite, MarkFails, TickOK
  <2>2. g.cursor > g.lastAcked
    BY <1>1, <1>3, <2>1 DEF TickOK
  <2> HIDE DEF g
  <2>3. TickOK(TickDone(g))
    BY <1>1, <2>1, <2>2, TickDoneOK
  <2> QED BY <1>2, <2>1, <2>3
<1>16. CASE StopAgent(a) \/ Crash(a)
  BY <1>2, <1>4, <1>16 DEF StopAgent, Crash
<1>17. CASE MasterDies(a)
  BY <1>17 DEF MasterDies, TicksOK
<1> QED
  BY <1>5, <1>6, <1>7, <1>9, <1>10, <1>12, <1>13, <1>14, <1>15, <1>16, <1>17
  DEF AgentStep, AgentFault

LEMMA InitTicks == Init => TicksOK
BY DEF Init, TicksOK, TickOK, UniqueIds, AgentDown

LEMMA StepTicks == IInv /\ TicksOK /\ [Next]_vars => TicksOK'
<1> SUFFICES ASSUME IInv, TicksOK, [Next]_vars PROVE TicksOK'
  OBVIOUS
<1>1. ASSUME NEW w \in Writers, WriterNext(w) PROVE TicksOK'
  <2>1. agent' = agent
    BY <1>1, WriterKeeps
  <2> QED BY <2>1 DEF TicksOK
<1>2. CASE \E a \in Agents : EnsureMaster(a) \/ AgentStep(a) \/ AgentFault(a)
  BY <1>2, AgentStepTicks
<1>3. CASE UNCHANGED vars
  BY <1>3 DEF vars, TicksOK
<1> QED BY <1>1, <1>2, <1>3 DEF Next

LEMMA InvariantTicks == Spec => [](IInv /\ TicksOK)
BY InitIInv, StepIInv, InitTicks, StepTicks, PTL DEF Spec

(* The rule of portfwd-ack-apply.md for any number of agents, writers and   *)
(* faults: within a tick the cursor moves only over applied requests.       *)
THEOREM CursorOnlyOverApplied == Spec => []CursorFollowsApply
<1>1. TicksOK => CursorFollowsApply
  BY DEF TicksOK, TickOK, CursorFollowsApply
<1> QED BY <1>1, InvariantTicks, PTL

-----------------------------------------------------------------------------
(* The ack file, when one agent serves the engine.  The mark script checks  *)
(* the file and then writes it, and nobody else writes in between.          *)

MarkAhead == \A a \in Agents : agent[a].pc = "mark" => ack < agent[a].cursor

OnlyAgent == \A a, b \in Agents : a = b

LEMMA StepMarkAhead ==
  ASSUME OnlyAgent, IInv, TicksOK, MarkAhead, [Next]_vars
  PROVE  MarkAhead' /\ (ack' # ack => ack' >= ack)
<1>1. agent \in [Agents -> AgentState] /\ ack \in Nat
  BY DEF IInv, TypeOK
<1>2. ASSUME NEW w \in Writers, WriterNext(w)
      PROVE  MarkAhead' /\ ack' = ack
  <2>1. agent' = agent /\ ack' = ack
    BY <1>2, WriterKeeps
  <2> QED BY <2>1 DEF MarkAhead
<1>5. ASSUME NEW a \in Agents, EnsureMaster(a) \/ AgentStep(a) \/ AgentFault(a)
      PROVE  MarkAhead' /\ (ack' # ack => ack' >= ack)
  <2>1. agent[a] \in AgentState
    BY <1>1
  <2>2. CASE EnsureMaster(a)
    <3>1. agent'[a].pc = "idle" /\ ack' = ack
      BY <1>1, <2>2 DEF EnsureMaster, AgentDown
    <3> QED BY <3>1 DEF OnlyAgent, MarkAhead
  <2>3. CASE TickRead(a)
    <3>1. agent'[a].pc \in {"loop", "seed"} /\ ack' = ack
      BY <1>1, <2>1, <2>3 DEF TickRead, AgentState
    <3> QED BY <3>1 DEF OnlyAgent, MarkAhead
  <2>4. CASE Seed(a)
    <3>1. agent'[a].pc = "loop" /\ ack' = ack
      BY <1>1, <2>1, <2>4 DEF Seed, AgentState
    <3> QED BY <3>1 DEF OnlyAgent, MarkAhead
  <2>5. CASE SkipSettled(a) \/ Stall(a) \/ ForwardFails(a) \/ Forward(a)
    <3>1. CASE SkipSettled(a)
      <4>1. agent'[a].pc = "loop" /\ ack' = ack
        BY <1>1, <2>1, <3>1 DEF SkipSettled, AtHead, AgentState
      <4> QED BY <4>1 DEF OnlyAgent, MarkAhead
    <3>2. CASE Stall(a)
      <4>1. agent'[a].pc = "loop" /\ ack' = ack
        BY <1>1, <2>1, <3>2 DEF Stall, AtHead, AgentState
      <4> QED BY <4>1 DEF OnlyAgent, MarkAhead
    <3>3. CASE ForwardFails(a)
      <4>1. agent'[a].pc = "loop" /\ ack' = ack
        BY <1>1, <2>1, <3>3 DEF ForwardFails, AtHead, AgentState
      <4> QED BY <4>1 DEF OnlyAgent, MarkAhead
    <3>4. CASE Forward(a)
      <4>1. agent'[a].pc = "loop" /\ ack' = ack
        BY <1>1, <2>1, <3>4 DEF Forward, AtHead, AgentState
      <4> QED BY <4>1 DEF OnlyAgent, MarkAhead
    <3> QED BY <2>5, <3>1, <3>2, <3>3, <3>4
  <2>6. TickDone(agent[a]).pc = "idle"
    BY <2>1 DEF TickDone, AgentState
  <2>7. CASE NothingToMark(a)
    <3>1. agent'[a].pc = "idle" /\ ack' = ack
      BY <1>1, <2>1, <2>7 DEF NothingToMark, TickDone, AgentState
    <3> QED BY <3>1 DEF OnlyAgent, MarkAhead
  <2>8. CASE MarkRead(a)
    <3>1. CASE ack >= agent[a].cursor
      <4>1. agent'[a].pc = "idle" /\ ack' = ack
        BY <1>1, <2>6, <2>8, <3>1 DEF MarkRead
      <4> QED BY <4>1 DEF OnlyAgent, MarkAhead
    <3>2. CASE ~ (ack >= agent[a].cursor)
      <4>1. agent'[a].cursor = agent[a].cursor /\ ack' = ack
        BY <1>1, <2>1, <2>8, <3>2 DEF MarkRead, AgentState
      <4>2. ack < agent[a].cursor
        BY <1>1, <2>1, <3>2 DEF AgentState
      <4> QED BY <4>1, <4>2 DEF OnlyAgent, MarkAhead
    <3> QED BY <3>1, <3>2
  <2>9. CASE MarkWrite(a)
    <3>1. agent'[a].pc = "idle" /\ ack' = agent[a].cursor /\ agent[a].pc = "mark"
      BY <1>1, <2>6, <2>9 DEF MarkWrite
    <3>2. ack < agent[a].cursor /\ agent[a].cursor \in Nat
      BY <2>1, <3>1 DEF MarkAhead, AgentState
    <3>3. MarkAhead'
      BY <3>1 DEF OnlyAgent, MarkAhead
    <3> QED BY <1>1, <3>1, <3>2, <3>3
  <2>10. CASE MarkFails(a)
    <3>1. agent'[a].pc = "idle" /\ ack' = ack
      BY <1>1, <2>6, <2>10 DEF MarkFails
    <3> QED BY <3>1 DEF OnlyAgent, MarkAhead
  <2>11. CASE StopAgent(a) \/ Crash(a)
    <3>1. agent'[a].pc = "down" /\ ack' = ack
      BY <1>1, <2>11 DEF StopAgent, Crash, AgentDown
    <3> QED BY <3>1 DEF OnlyAgent, MarkAhead
  <2>12. CASE MasterDies(a)
    BY <2>12 DEF MasterDies, MarkAhead
  <2> QED
    BY <1>5, <2>2, <2>3, <2>4, <2>5, <2>7, <2>8, <2>9, <2>10, <2>11, <2>12
    DEF AgentStep, AgentFault
<1>6. CASE UNCHANGED vars
  BY <1>6 DEF vars, MarkAhead
<1> QED BY <1>2, <1>5, <1>6 DEF Next

(* With one agent the ack file never goes back, however often that agent    *)
(* starts over from zero because it could not read the file.                *)
THEOREM AckMonotone ==
  ASSUME OnlyAgent
  PROVE  Spec => AckNeverRegresses
<1>1. Init => MarkAhead
  BY DEF Init, MarkAhead, AgentDown
<1>2. IInv /\ TicksOK /\ MarkAhead /\ [Next]_vars => MarkAhead'
  BY StepMarkAhead
<1>3. IInv /\ TicksOK /\ MarkAhead /\ [Next]_vars => [ack' >= ack]_ack
  BY StepMarkAhead
<1> QED BY <1>1, <1>2, <1>3, InvariantTicks, PTL DEF Spec, AckNeverRegresses

-----------------------------------------------------------------------------
(* The temporary file, when calls do not overlap: the only call fills the   *)
(* file it has truncated, and renames what it has written.                  *)

OnlyWriter == \A v, w \in Writers : v = w

OwnFile ==
  /\ text = Whole
  /\ \A w \in Writers :
       /\ writer[w].pc = "fill" => writer[w].fd = "tmp" /\ tmp = Empty
       /\ writer[w].pc = "rename" => tmp = writer[w].q

LEMMA WriterStepOwnFile ==
  ASSUME OnlyWriter, IInv, OwnFile, NEW w \in Writers, WriterNext(w)
  PROVE  OwnFile' /\ (queue' = queue \/ (Rename(w) /\ queue' = writer[w].q))
<1> DEFINE g == writer[w]
           Goal == OwnFile' /\ (queue' = queue \/ (Rename(w) /\ queue' = g.q))
<1>1. /\ writer \in [Writers -> WriterState] /\ g \in WriterState /\ g.q \in Queue
      /\ \A v \in Writers : v = w
  BY DEF IInv, TypeOK, OnlyWriter, WriterState
<1>2. ASSUME text' = text, writer'[w].pc \notin {"fill", "rename"}, queue' = queue
      PROVE  Goal
  BY <1>1, <1>2 DEF OwnFile
<1>3. ASSUME NEW ports, NEW h, NEW dedup, Load(w, ports, h, dedup) PROVE Goal
  <2>1. writer'[w].pc = "loaded"
    BY <1>1, <1>3 DEF Load, IdleWriter
  <2> QED BY <1>2, <1>3, <2>1 DEF Load
<1>4. CASE Declare(w) \/ EnqueueForwardRequest(w)
  BY <1>3, <1>4 DEF Declare, EnqueueForwardRequest
<1>5. CASE ReadAckAndPrune(w)
  <2>1. writer'[w].pc = "enqueue"
    BY <1>1, <1>5 DEF ReadAckAndPrune, WriterState
  <2> QED BY <1>2, <1>5, <2>1 DEF ReadAckAndPrune
<1>6. CASE EnqueueNext(w)
  <2>1. writer'[w].pc = "enqueue"
    BY <1>1, <1>6 DEF EnqueueNext, WriterState
  <2> QED BY <1>2, <1>6, <2>1 DEF EnqueueNext
<1>7. CASE OpenTmp(w)
  <2>1. writer'[w].pc = "fill" /\ writer'[w].fd = "tmp"
    BY <1>1, <1>7 DEF OpenTmp, WriterState
  <2> QED BY <1>1, <1>7, <2>1 DEF OpenTmp, OwnFile
<1>8. CASE FillTmp(w)
  <2>1. g.fd = "tmp" /\ tmp = Empty
    BY <1>8 DEF FillTmp, OwnFile
  <2>2. tmp' = g.q /\ text' = text /\ queue' = queue
    BY <1>8, <2>1 DEF FillTmp, Fill, WrittenOver
  <2>3. writer'[w].pc = "rename" /\ writer'[w].q = g.q
    BY <1>1, <1>8 DEF FillTmp, WriterState
  <2> QED BY <1>1, <2>2, <2>3 DEF OwnFile
<1>9. CASE Rename(w)
  <2>1. tmp = g.q /\ tmp \notin {NoFile, Empty, Mixed}
    BY <1>1, <1>9, ConstantsAssumption DEF Rename, OwnFile
  <2>2. queue' = g.q /\ text' = Whole
    BY <1>9, <2>1 DEF Rename, Install, Parsed, TextOf
  <2>3. writer'[w].pc = "idle"
    BY <1>9, <2>1 DEF Rename, IdleWriter
  <2> QED BY <1>1, <1>9, <2>2, <2>3 DEF OwnFile
<1>10. CASE WriterDies(w)
  <2>1. writer'[w].pc = "idle"
    BY <1>1, <1>10 DEF WriterDies, IdleWriter
  <2> QED BY <1>2, <1>10, <2>1 DEF WriterDies
<1> QED BY <1>4, <1>5, <1>6, <1>7, <1>8, <1>9, <1>10 DEF WriterNext

LEMMA AgentKeeps ==
  ASSUME NEW a \in Agents, EnsureMaster(a) \/ AgentStep(a) \/ AgentFault(a)
  PROVE  forwarded \subseteq forwarded' /\ UNCHANGED engineVars
BY DEF EnsureMaster, AgentStep, AgentFault, TickRead, Seed, SkipSettled, Stall, Forward,
       NothingToMark, MarkRead, MarkWrite, ForwardFails, MarkFails, StopAgent, Crash,
       MasterDies

LEMMA InitOwnFile == Init => OwnFile
BY DEF Init, OwnFile, IdleWriter

LEMMA StepOwnFile ==
  ASSUME OnlyWriter, IInv, OwnFile, [Next]_vars
  PROVE  OwnFile'
<1>1. CASE \E w \in Writers : WriterNext(w)
  BY <1>1, WriterStepOwnFile
<1>2. CASE \E a \in Agents : EnsureMaster(a) \/ AgentStep(a) \/ AgentFault(a)
  BY <1>2, AgentKeeps DEF engineVars, OwnFile
<1>3. CASE UNCHANGED vars
  BY <1>3 DEF vars, engineVars, OwnFile
<1> QED BY <1>1, <1>2, <1>3 DEF Next

(* The only call at a time never renames a truncated or a half-written      *)
(* file, wherever a call dies and whatever the agents do.                   *)
THEOREM QueueStaysReadable ==
  ASSUME OnlyWriter
  PROVE  Spec => []QueueReadable
<1>1. OwnFile => QueueReadable
  BY DEF OwnFile, QueueReadable
<1>2. IInv /\ OwnFile /\ [Next]_vars => OwnFile'
  BY StepOwnFile
<1> QED BY <1>1, <1>2, InitOwnFile, InvariantIInv, PTL DEF Spec

-----------------------------------------------------------------------------
(* Nothing is passed over, when calls do not overlap and nothing expires.   *)
(* One mark can then stand for a set of requests: IDs only ever grow.       *)

(* Mark n is no larger than the IDs the queue file has seen. *)
Used(n) == \E m \in IdsOf(queue) : n <= m

(* What mark n covers is forwarded. *)
Passed(n) == \A r \in queue.pending : r.id <= n => r \in forwarded

(* What an agent in state g holds is old, and what came into the file since *)
(* it read it has larger IDs.                                               *)
Knows(g) ==
  /\ Used(g.lastAcked) /\ Passed(g.lastAcked)
  /\ \A x \in g.reqs : Used(x.id) /\ \A s \in queue.pending \ g.reqs : x.id < s.id
  /\ g.cursor <= g.lastAcked \/ \E x \in g.reqs : g.cursor <= x.id
  /\ g.applied \subseteq forwarded

(* The copy q of a call has lost only what is forwarded and gained only     *)
(* what is newer than all of the queue file.                                *)
Grown(q) ==
  /\ q.consumed >= queue.consumed
  /\ \A r \in queue.pending \ q.pending : r.id <= q.consumed /\ r \in forwarded
  /\ \A r \in q.pending \ queue.pending : \A n \in IdsOf(queue) : n < r.id

CallOK(g) ==
  /\ g.cut = 0
  /\ g.pc = "loaded" => g.q = queue
  /\ g.pc \in {"enqueue", "fill", "rename"} => Grown(g.q)

Passing ==
  /\ OwnFile /\ cutoff = 0 /\ Used(ack) /\ Passed(ack)
  /\ \A a \in Agents : Knows(agent[a])
  /\ \A w \in Writers : CallOK(writer[w])

LEMMA IdsAreNat ==
  ASSUME IInv
  PROVE  /\ queue \in Queue /\ ack \in Nat /\ IdsOf(queue) \subseteq Nat
         /\ \A r \in queue.pending : r.id \in IdsOf(queue) /\ queue.consumed < r.id
         /\ queue.consumed \in IdsOf(queue)
BY DEF IInv, TypeOK, FilesOK, QueueOK, WellFormed, Queue, Request, IdsOf

(* A tick's cursor covers only what is forwarded. *)
LEMMA CursorPassed ==
  ASSUME IInv, NEW g \in AgentState, TickOK(g), Knows(g)
  PROVE  Used(g.cursor) /\ Passed(g.cursor)
<1>1. /\ g.cursor \in Nat /\ g.lastAcked \in Nat /\ \A x \in g.reqs : x.id \in Nat
      /\ IdsOf(queue) \subseteq Nat /\ \A r \in queue.pending : r.id \in Nat
  BY IdsAreNat DEF AgentState, Request
<1>2. CASE g.cursor <= g.lastAcked
  BY <1>1, <1>2 DEF Knows, Used, Passed
<1>3. ASSUME NEW x \in g.reqs, g.cursor <= x.id PROVE Used(g.cursor) /\ Passed(g.cursor)
  <2>1. Used(g.cursor)
    BY <1>1, <1>3 DEF Knows, Used
  <2>2. ASSUME NEW r \in queue.pending, r.id <= g.cursor PROVE r \in forwarded
    <3>1. r \in g.reqs
      BY <1>1, <1>3, <2>2 DEF Knows
    <3>2. CASE r.id <= g.lastAcked
      BY <3>2 DEF Knows, Passed
    <3>3. CASE g.lastAcked < r.id
      BY <2>2, <3>1, <3>3 DEF TickOK, Knows
    <3> QED BY <1>1, <3>2, <3>3
  <2> QED BY <2>1, <2>2 DEF Passed
<1> QED BY <1>2, <1>3 DEF Knows

LEMMA AgentStepPassing ==
  ASSUME IInv, TicksOK, Passing, NEW a \in Agents,
         EnsureMaster(a) \/ AgentStep(a) \/ AgentFault(a)
  PROVE  Passing'
<1> DEFINE g == agent[a]
<1>1. /\ g \in AgentState /\ TickOK(g) /\ agent \in [Agents -> AgentState]
      /\ Knows(g) /\ Used(g.cursor) /\ Passed(g.cursor)
  BY CursorPassed DEF IInv, TypeOK, TicksOK, Passing
<1>2. forwarded \subseteq forwarded' /\ UNCHANGED engineVars /\ queue' = queue
  BY AgentKeeps DEF engineVars
<1>3. OwnFile' /\ \A w \in Writers : CallOK(writer[w])'
  BY <1>2 DEF Passing, OwnFile, CallOK, Grown, engineVars
<1>4. ack' = ack \/ (MarkWrite(a) /\ ack' = g.cursor)
  BY DEF EnsureMaster, AgentStep, AgentFault, TickRead, Seed, SkipSettled, Stall, Forward,
         NothingToMark, MarkRead, MarkWrite, ForwardFails, MarkFails, StopAgent, Crash,
         MasterDies
<1>5. Used(ack)' /\ Passed(ack)'
  <2>1. Used(ack) /\ Passed(ack)
    BY DEF Passing
  <2> QED BY <1>1, <1>2, <1>4, <2>1 DEF Used, Passed
<1>6. ASSUME NEW h, agent' = [agent EXCEPT ![a] = h], Knows(h)'
      PROVE  Passing'
  <2>1. ASSUME NEW b \in Agents PROVE Knows(agent[b])'
    <3>1. CASE b = a
      <4>1. agent'[b] = h
        BY <1>1, <1>6, <3>1
      <4> QED BY <1>6, <4>1 DEF Knows, Used, Passed
    <3>2. CASE b # a
      <4>1. agent'[b] = agent[b] /\ Knows(agent[b])
        BY <1>1, <1>6, <3>2 DEF Passing
      <4> QED BY <1>2, <4>1 DEF Knows, Used, Passed
    <3> QED BY <3>1, <3>2
  <2> QED BY <1>2, <1>3, <1>5, <2>1 DEF Passing, engineVars
<1>7. /\ g.lastAcked \in Nat /\ g.cursor \in Nat /\ Used(0) /\ Passed(0)
      /\ \A x \in g.reqs : x.id \in Nat
  <2>1. 0 <= queue.consumed /\ \A r \in queue.pending : ~ (r.id <= 0)
    BY IdsAreNat
  <2> QED BY <1>1, <2>1, IdsAreNat DEF AgentState, Request, Used, Passed
(* What an agent with lastAcked at mark n knows, reading nothing new. *)
<1>8. ASSUME NEW h, Used(h.lastAcked), Passed(h.lastAcked), h.applied \subseteq forwarded',
             h.reqs \in {{}, g.reqs},
             h.cursor <= h.lastAcked \/ \E x \in h.reqs : h.cursor <= x.id
      PROVE  Knows(h)'
  BY <1>1, <1>2, <1>8 DEF Knows, Used, Passed
<1>9. ASSUME NEW h \in {[AgentDown EXCEPT !.cut = g.cut],
                        [AgentDown EXCEPT !.pc = "idle", !.cut = g.cut]}
      PROVE  Knows(h)'
  <2>1. h.lastAcked = 0 /\ h.cursor = 0 /\ h.reqs = {} /\ h.applied = {}
    BY DEF AgentDown
  <2> QED BY <1>7, <1>8, <2>1
<1>10. CASE EnsureMaster(a) \/ StopAgent(a) \/ Crash(a)
  BY <1>6, <1>9, <1>10 DEF EnsureMaster, StopAgent, Crash
<1>11. CASE TickRead(a)
  <2>1. PICK c : agent' = [agent EXCEPT ![a].reqs = queue.pending,
                   ![a].todo = queue.pending, ![a].cursor = agent[a].lastAcked,
                   ![a].cut = c, ![a].pc = IF agent[a].seeded THEN "loop" ELSE "seed"]
    BY <1>11 DEF TickRead
  <2>9. PICK h : h = [g EXCEPT !.reqs = queue.pending, !.todo = queue.pending,
                     !.cursor = g.lastAcked, !.cut = c,
                     !.pc = IF g.seeded THEN "loop" ELSE "seed"]
    OBVIOUS
  <2>2. agent' = [agent EXCEPT ![a] = h]
    BY <1>1, <2>1, <2>9
  <2>3. /\ h.reqs = queue.pending /\ h.cursor = g.lastAcked /\ h.lastAcked = g.lastAcked
        /\ h.applied = g.applied
    BY <1>1, <2>9 DEF AgentState
  <2>4. \A x \in queue.pending : Used(x.id)
    BY IdsAreNat DEF Used
  <2>5. Knows(h)'
    BY <1>1, <1>2, <1>7, <2>3, <2>4 DEF Knows, Used, Passed
  <2> QED BY <1>6, <2>2, <2>5
<1>12. CASE Seed(a)
  <2>1. PICK n \in {ack, g.lastAcked} :
          agent' = [agent EXCEPT ![a] =
                      [g EXCEPT !.lastAcked = n, !.cursor = n, !.seeded = TRUE, !.pc = "loop"]]
    <3>1. CASE agent' = [agent EXCEPT ![a].lastAcked = ack, ![a].cursor = ack,
                                      ![a].seeded = TRUE, ![a].pc = "loop"]
      BY <1>1, <3>1
    <3>2. CASE agent' = [agent EXCEPT ![a].seeded = TRUE, ![a].pc = "loop"]
      <4>1. g.cursor = g.lastAcked
        BY <1>1, <1>12 DEF Seed, TickOK
      <4>2. [g EXCEPT !.seeded = TRUE, !.pc = "loop"]
              = [g EXCEPT !.lastAcked = g.lastAcked, !.cursor = g.lastAcked,
                          !.seeded = TRUE, !.pc = "loop"]
        BY <1>1, <4>1 DEF AgentState
      <4> QED BY <1>1, <3>2, <4>2
    <3> QED BY <1>12, <3>1, <3>2 DEF Seed
  <2>9. PICK h : h = [g EXCEPT !.lastAcked = n, !.cursor = n, !.seeded = TRUE, !.pc = "loop"]
    OBVIOUS
  <2>2. h.lastAcked = n /\ h.cursor = n /\ h.reqs = g.reqs /\ h.applied = g.applied
    BY <1>1, <2>9 DEF AgentState
  <2>3. Used(n) /\ Passed(n) /\ n <= n
    BY <1>1, <1>7, <2>1, IdsAreNat DEF Passing, Knows
  <2>4. Knows(h)'
    BY <1>1, <1>2, <1>8, <2>2, <2>3 DEF Knows
  <2> QED BY <1>6, <2>1, <2>4, <2>9
<1>13. ASSUME NEW r \in g.todo, NEW n \in {g.cursor, r.id}, NEW new \in SUBSET forwarded',
              agent' = [agent EXCEPT ![a] =
                          [g EXCEPT !.todo = g.todo \ {r}, !.cursor = n,
                                    !.applied = g.applied \cup new]]
       PROVE  Passing'
  <2>9. PICK h : h = [g EXCEPT !.todo = g.todo \ {r}, !.cursor = n,
                            !.applied = g.applied \cup new]
    OBVIOUS
  <2>1. /\ h.lastAcked = g.lastAcked /\ h.cursor = n /\ h.reqs = g.reqs
        /\ h.applied = g.applied \cup new
    BY <1>1, <2>9 DEF AgentState
  <2>2. r \in g.reqs /\ r.id <= r.id
    BY <1>1, <1>7, <1>13 DEF TickOK
  <2>3. n <= g.lastAcked \/ \E x \in g.reqs : n <= x.id
    BY <1>1, <1>13, <2>2 DEF Knows
  <2>4. Knows(h)'
    BY <1>1, <1>2, <1>8, <1>13, <2>1, <2>3 DEF Knows
  <2> QED BY <1>6, <1>13, <2>4, <2>9
<1>14. CASE SkipSettled(a)
  <2>1. PICK r \in g.todo :
          agent' = [agent EXCEPT ![a].todo = @ \ {r},
                      ![a].cursor = IF r.id > g.lastAcked THEN r.id ELSE @]
    BY <1>14 DEF SkipSettled
  <2>9. PICK n \in {g.cursor, r.id} : n = IF r.id > g.lastAcked THEN r.id ELSE g.cursor
    OBVIOUS
  <2>2. [g EXCEPT !.todo = g.todo \ {r}, !.cursor = n]
          = [g EXCEPT !.todo = g.todo \ {r}, !.cursor = n, !.applied = g.applied \cup {}]
    BY <1>1 DEF AgentState
  <2>3. agent' = [agent EXCEPT ![a] =
                    [g EXCEPT !.todo = g.todo \ {r}, !.cursor = n,
                              !.applied = g.applied \cup {}]]
    BY <1>1, <2>1, <2>2, <2>9
  <2>4. {} \in SUBSET forwarded'
    OBVIOUS
  <2> QED BY <1>13, <2>3, <2>4
<1>15. CASE Forward(a)
  <2>1. PICK r \in g.todo :
          /\ forwarded' = forwarded \cup {r}
          /\ agent' = [agent EXCEPT ![a].todo = @ \ {r}, ![a].cursor = r.id,
                                    ![a].applied = @ \cup {r}]
    BY <1>15 DEF Forward
  <2>2. agent' = [agent EXCEPT ![a] =
                    [g EXCEPT !.todo = g.todo \ {r}, !.cursor = r.id,
                              !.applied = g.applied \cup {r}]]
    BY <1>1, <2>1
  <2> QED BY <1>13, <2>1, <2>2
<1>16. CASE Stall(a) \/ ForwardFails(a)
  <2>9. PICK h : h = [g EXCEPT !.todo = {}]
    OBVIOUS
  <2>1. agent' = [agent EXCEPT ![a] = h]
    BY <1>1, <1>16, <2>9 DEF Stall, ForwardFails
  <2>2. /\ h.lastAcked = g.lastAcked /\ h.cursor = g.cursor /\ h.reqs = g.reqs
        /\ h.applied = g.applied
    BY <1>1, <2>9 DEF AgentState
  <2>3. Knows(h)'
    BY <1>1, <1>2, <1>8, <2>2 DEF Knows
  <2> QED BY <1>6, <2>1, <2>3
<1>17. ASSUME NEW h \in {TickDone(g), [TickDone(g) EXCEPT !.lastAcked = g.lastAcked],
                         [g EXCEPT !.pc = "mark"]},
              h.cursor <= h.lastAcked \/ h = [g EXCEPT !.pc = "mark"]
       PROVE  Knows(h)'
  <2>1. /\ h.lastAcked \in {g.lastAcked, g.cursor} /\ h.cursor = g.cursor
        /\ h.applied = g.applied /\ h.reqs \in {{}, g.reqs}
        /\ h = [g EXCEPT !.pc = "mark"] => h.lastAcked = g.lastAcked /\ h.reqs = g.reqs
    BY <1>1 DEF TickDone, AgentState
  <2>2. Used(h.lastAcked) /\ Passed(h.lastAcked) /\ h.applied \subseteq forwarded'
    BY <1>1, <1>2, <2>1 DEF Knows
  <2>3. h.cursor <= h.lastAcked \/ \E x \in h.reqs : h.cursor <= x.id
    BY <1>1, <1>17, <2>1 DEF Knows
  <2> QED BY <1>8, <2>1, <2>2, <2>3
<1>18. TickDone(g).cursor <= TickDone(g).lastAcked
  BY <1>1, <1>7 DEF TickDone, AgentState
<1>19. CASE NothingToMark(a)
  <2>1. [TickDone(g) EXCEPT !.lastAcked = g.lastAcked].cursor
          <= [TickDone(g) EXCEPT !.lastAcked = g.lastAcked].lastAcked
    BY <1>1, <1>19 DEF NothingToMark, TickDone, AgentState
  <2> QED BY <1>6, <1>17, <1>19, <2>1 DEF NothingToMark
<1>20. CASE MarkRead(a)
  BY <1>6, <1>17, <1>18, <1>20 DEF MarkRead
<1>21. CASE MarkWrite(a) \/ MarkFails(a)
  BY <1>6, <1>17, <1>18, <1>21 DEF MarkWrite, MarkFails
<1>22. CASE MasterDies(a)
  <2>1. agent' = [agent EXCEPT ![a] = g] /\ Knows(g)'
    BY <1>1, <1>2, <1>22 DEF MasterDies, Knows, Used, Passed
  <2> QED BY <1>6, <2>1
<1> QED BY <1>10, <1>11, <1>12, <1>14, <1>15, <1>16, <1>19, <1>20, <1>21, <1>22
        DEF AgentStep, AgentFault

(* A call that installs its copy disturbs no mark and no agent. *)
LEMMA InstallKeeps ==
  ASSUME IInv, NEW q \in Queue, Grown(q), queue' = q, forwarded' = forwarded
  PROVE  /\ \A n \in Nat : Used(n) => Used(n)'
         /\ \A n \in Nat : Used(n) /\ Passed(n) => Passed(n)'
         /\ \A g \in AgentState : Knows(g) => Knows(g)'
<1>1. /\ IdsOf(queue) \subseteq Nat /\ q.consumed \in Nat /\ queue.consumed \in Nat
      /\ \A r \in queue.pending \cup q.pending : r.id \in Nat
      /\ \A r \in queue.pending : r.id \in IdsOf(queue)
      /\ queue.consumed \in IdsOf(queue)
  BY IdsAreNat DEF Queue, Request
<1>2. ASSUME NEW n \in Nat, Used(n) PROVE Used(n)'
  <2>1. PICK m \in IdsOf(queue) : n <= m
    BY <1>2 DEF Used
  <2>2. CASE m = queue.consumed
    <3>1. n <= q.consumed /\ q.consumed \in IdsOf(q)
      BY <1>1, <2>1, <2>2 DEF Grown, IdsOf
    <3> QED BY <3>1 DEF Used
  <2>3. ASSUME NEW r \in queue.pending, m = r.id PROVE Used(n)'
    <3>1. CASE r \in q.pending
      BY <2>1, <2>3, <3>1 DEF Used, IdsOf
    <3>2. CASE r \notin q.pending
      <4>1. n <= q.consumed /\ q.consumed \in IdsOf(q)
        BY <1>1, <2>1, <2>3, <3>2 DEF Grown, IdsOf
      <4> QED BY <4>1 DEF Used
    <3> QED BY <3>1, <3>2
  <2> QED BY <2>1, <2>2, <2>3 DEF IdsOf
<1>3. ASSUME NEW n \in Nat, Used(n), NEW r \in q.pending, r.id <= n PROVE r \in queue.pending
  BY <1>1, <1>3 DEF Used, Grown
<1>4. ASSUME NEW n \in Nat, Used(n), Passed(n) PROVE Passed(n)'
  BY <1>3, <1>4 DEF Passed
<1>5. ASSUME NEW g \in AgentState, Knows(g) PROVE Knows(g)'
  <2>1. g.lastAcked \in Nat /\ \A x \in g.reqs : x.id \in Nat
    BY DEF AgentState, Request
  <2>2. Used(g.lastAcked)' /\ Passed(g.lastAcked)'
    BY <1>2, <1>4, <1>5, <2>1 DEF Knows
  <2>3. ASSUME NEW x \in g.reqs, NEW s \in q.pending \ g.reqs PROVE x.id < s.id
    <3>1. s \notin queue.pending => ~ (s.id <= x.id)
      BY <1>3, <1>5, <2>1, <2>3 DEF Knows
    <3> QED BY <1>1, <1>5, <2>1, <3>1 DEF Knows
  <2>4. \A x \in g.reqs : Used(x.id)'
    BY <1>2, <1>5, <2>1 DEF Knows
  <2> QED BY <1>5, <2>2, <2>3, <2>4 DEF Knows
<1> QED BY <1>2, <1>4, <1>5

LEMMA PruneGrows ==
  ASSUME IInv, Passed(ack)
  PROVE  Grown(Prune(queue, ack, 0))
<1> DEFINE q == Prune(queue, ack, 0)
<1>1. /\ queue \in Queue /\ ack \in Nat /\ queue.consumed \in Nat
      /\ \A r \in queue.pending : r.id \in Nat /\ r.born \in Nat
  BY IdsAreNat DEF Queue, Request
<1>2. /\ q.consumed = IF ack > queue.consumed THEN ack ELSE queue.consumed
      /\ q.pending = {r \in queue.pending : r.id > ack /\ ~Expired(r, 0)}
  BY DEF Prune
<1> HIDE DEF q
<1>3. \A r \in queue.pending \ q.pending : r.id <= ack
  BY <1>1, <1>2 DEF Expired
<1>4. Grown(q)
  BY <1>1, <1>2, <1>3 DEF Grown, Passed
<1> QED BY <1>4 DEF q

LEMMA EnqueueGrows ==
  ASSUME IInv, NEW q \in Queue, QueueOK(q), Grown(q), NEW p, NEW h, NEW born
  PROVE  Grown(Enqueue(q, p, h, born))
<1> DEFINE r == [id |-> NextID(q), port |-> p, host |-> h, born |-> born]
           e == Enqueue(q, p, h, born)
<1>1. /\ NextID(q) \in Nat /\ NextID(q) > q.consumed
      /\ \A s \in q.pending : NextID(q) > s.id
  BY NextIDFresh DEF QueueOK
<1>2. e.consumed = q.consumed /\ e.pending = q.pending \cup {r} /\ r.id = NextID(q)
  BY DEF Enqueue, Queue
<1>3. /\ q.consumed \in Nat /\ queue.consumed \in Nat
      /\ \A s \in queue.pending \cup q.pending : s.id \in Nat
  BY IdsAreNat DEF Queue, Request
<1>4. \A n \in IdsOf(queue) : n < NextID(q)
  <2>1. queue.consumed < NextID(q)
    BY <1>1, <1>3 DEF Grown
  <2>2. ASSUME NEW s \in queue.pending PROVE s.id < NextID(q)
    BY <1>1, <1>3 DEF Grown
  <2> QED BY <2>1, <2>2 DEF IdsOf
<1> HIDE DEF e, r
<1>5. Grown(e)
  BY <1>2, <1>3, <1>4 DEF Grown
<1> QED BY <1>5 DEF e

(* A step of the only call: it grows its copy, and takes from the queue     *)
(* file, when it renames, only what is forwarded.                           *)
LEMMA WriterStepPassing ==
  ASSUME OnlyWriter, MaxCutoff = 0, IInv, Passing, NEW w \in Writers, WriterNext(w)
  PROVE  Passing' /\ \A r \in queue.pending \ queue'.pending : r \in forwarded
<1> DEFINE g == writer[w]
<1>1. /\ g \in WriterState /\ writer \in [Writers -> WriterState] /\ CallOK(g)
      /\ QueueOK(g.q) /\ cutoff = 0 /\ Used(ack) /\ Passed(ack) /\ ack \in Nat
      /\ \A a \in Agents : agent[a] \in AgentState /\ Knows(agent[a])
      /\ \A v \in Writers : v = w
  BY DEF IInv, TypeOK, FilesOK, Passing, OnlyWriter
<1>2. /\ agent' = agent /\ forwarded' = forwarded /\ ack' = ack
      /\ OwnFile' /\ (queue' = queue \/ (Rename(w) /\ queue' = g.q))
  BY WriterKeeps, WriterStepOwnFile DEF Passing
<1>3. ASSUME queue' = queue, cutoff' = 0, NEW h, writer' = [writer EXCEPT ![w] = h], CallOK(h)'
      PROVE  Passing' /\ \A r \in queue.pending \ queue'.pending : r \in forwarded
  <2>1. Used(ack)' /\ Passed(ack)'
    BY <1>1, <1>2, <1>3 DEF Used, Passed
  <2>2. \A a \in Agents : Knows(agent[a])'
    BY <1>1, <1>2, <1>3 DEF Knows, Used, Passed
  <2>3. ASSUME NEW v \in Writers PROVE CallOK(writer[v])'
    <3>1. v = w /\ writer'[v] = h
      BY <1>1, <1>3
    <3> QED BY <1>3, <3>1 DEF CallOK, Grown
  <2> QED BY <1>2, <1>3, <2>1, <2>2, <2>3 DEF Passing
<1>4. IdleWriter.pc = "idle" /\ IdleWriter.cut = 0
  BY DEF IdleWriter
<1>5. ASSUME NEW ports, NEW host, NEW dedup, Load(w, ports, host, dedup)
      PROVE  Passing' /\ \A r \in queue.pending \ queue'.pending : r \in forwarded
  <2>1. PICK c \in cutoff .. (IF calls < MaxCutoff THEN calls ELSE MaxCutoff) :
           /\ cutoff' = c
           /\ writer' = [writer EXCEPT ![w] =
                [IdleWriter EXCEPT !.pc = "loaded", !.q = queue, !.ports = ports,
                                   !.host = host, !.dedup = dedup, !.born = calls,
                                   !.cut = c]]
    BY <1>5 DEF Load
  <2>2. c = 0 /\ queue' = queue
    BY <1>1, <1>5, <2>1 DEF Load, IInv, TypeOK
  <2>3. PICK h : h = [IdleWriter EXCEPT !.pc = "loaded", !.q = queue, !.ports = ports,
                                        !.host = host, !.dedup = dedup, !.born = calls,
                                        !.cut = c]
    OBVIOUS
  <2>4. h.pc = "loaded" /\ h.q = queue /\ h.cut = 0
    BY <2>2, <2>3 DEF IdleWriter
  <2>5. CallOK(h)'
    BY <2>2, <2>4 DEF CallOK
  <2> QED BY <1>3, <2>1, <2>2, <2>3, <2>5
<1>6. CASE Declare(w) \/ EnqueueForwardRequest(w)
  BY <1>5, <1>6 DEF Declare, EnqueueForwardRequest
<1>7. CASE ReadAckAndPrune(w)
  <2>1. PICK q : q = Prune(g.q, ack, g.cut)
    OBVIOUS
  <2>2. g.q = queue /\ g.cut = 0 /\ Grown(q)
    BY <1>1, <1>7, <2>1, PruneGrows DEF ReadAckAndPrune, CallOK
  <2>3. PICK h : h = [g EXCEPT !.pc = "enqueue", !.q = q,
                         !.known = IF g.dedup THEN {r.port : r \in q.pending} ELSE {}]
    OBVIOUS
  <2>4. writer' = [writer EXCEPT ![w] = h] /\ queue' = queue /\ cutoff' = 0
    BY <1>1, <1>7, <2>1, <2>3 DEF ReadAckAndPrune
  <2>5. h.pc = "enqueue" /\ h.q = q /\ h.cut = 0
    BY <1>1, <2>2, <2>3 DEF WriterState
  <2>6. CallOK(h)'
    BY <1>2, <2>2, <2>4, <2>5 DEF CallOK, Grown
  <2> QED BY <1>3, <2>4, <2>6
<1>8. CASE EnqueueNext(w)
  <2>1. PICK q : q = IF Head(g.ports) \in g.known THEN g.q
                     ELSE Enqueue(g.q, Head(g.ports), g.host, g.born)
    OBVIOUS
  <2>2. g.pc = "enqueue" /\ g.cut = 0 /\ Grown(g.q) /\ g.q \in Queue
    BY <1>1, <1>8 DEF EnqueueNext, CallOK, WriterState
  <2>3. Grown(q)
    BY <1>1, <2>1, <2>2, EnqueueGrows
  <2>4. PICK h : h = [g EXCEPT !.ports = Tail(g.ports), !.q = q]
    OBVIOUS
  <2>5. writer' = [writer EXCEPT ![w] = h] /\ queue' = queue /\ cutoff' = 0
    BY <1>1, <1>8, <2>1, <2>4 DEF EnqueueNext
  <2>6. h.pc = "enqueue" /\ h.q = q /\ h.cut = 0
    BY <1>1, <2>2, <2>4 DEF WriterState
  <2>7. CallOK(h)'
    BY <1>2, <2>3, <2>5, <2>6 DEF CallOK, Grown
  <2> QED BY <1>3, <2>5, <2>7
<1>9. CASE OpenTmp(w)
  <2>1. PICK h : h = [g EXCEPT !.pc = "fill", !.fd = "tmp"]
    OBVIOUS
  <2>2. /\ writer' = [writer EXCEPT ![w] = h] /\ queue' = queue /\ cutoff' = 0
        /\ g.cut = 0 /\ Grown(g.q)
    BY <1>1, <1>9, <2>1 DEF OpenTmp, CallOK
  <2>3. h.pc = "fill" /\ h.q = g.q /\ h.cut = 0
    BY <1>1, <2>1, <2>2 DEF WriterState
  <2>4. CallOK(h)'
    BY <1>2, <2>2, <2>3 DEF CallOK, Grown
  <2> QED BY <1>3, <2>2, <2>4
<1>14. CASE FillTmp(w)
  <2>1. PICK h : h = [g EXCEPT !.pc = "rename", !.fd = "none"]
    OBVIOUS
  <2>2. /\ writer' = [writer EXCEPT ![w] = h] /\ queue' = queue /\ cutoff' = 0
        /\ g.cut = 0 /\ Grown(g.q)
    BY <1>1, <1>2, <1>14, <2>1 DEF FillTmp, Rename, CallOK
  <2>3. h.pc = "rename" /\ h.q = g.q /\ h.cut = 0
    BY <1>1, <2>1, <2>2 DEF WriterState
  <2>4. CallOK(h)'
    BY <1>2, <2>2, <2>3 DEF CallOK, Grown
  <2> QED BY <1>3, <2>2, <2>4
<1>10. PICK i : i = IdleWriter
  OBVIOUS
<1>11. CallOK(i)'
  BY <1>4, <1>10 DEF CallOK
<1>12. CASE WriterDies(w)
  BY <1>1, <1>3, <1>10, <1>11, <1>12 DEF WriterDies
<1>13. CASE Rename(w)
  <2>1. Grown(g.q) /\ g.q \in Queue /\ cutoff' = 0
    BY <1>1, <1>13 DEF Rename, CallOK, WriterState
  <2>2. writer'[w] = i
    BY <1>1, <1>10, <1>13 DEF Rename
  <2>3. CASE queue' = queue
    <3>1. writer' = [writer EXCEPT ![w] = i]
      <4>1. writer' = [v \in Writers |-> writer'[v]]
        BY <1>1, <1>13 DEF Rename
      <4> QED BY <1>1, <2>2, <4>1
    <3> QED BY <1>3, <1>11, <2>1, <2>3, <3>1
  <2>4. CASE queue' = g.q
    <3>2. /\ \A n \in Nat : Used(n) => Used(n)'
          /\ \A n \in Nat : Used(n) /\ Passed(n) => Passed(n)'
          /\ \A k \in AgentState : Knows(k) => Knows(k)'
      BY <1>2, <2>1, <2>4, InstallKeeps
    <3>3. Used(ack)' /\ Passed(ack)'
      BY <1>1, <1>2, <3>2 DEF Used, Passed
    <3>4. ASSUME NEW a \in Agents PROVE Knows(agent[a])'
      <4>1. PICK k \in AgentState : k = agent[a] /\ k = agent'[a]
        BY <1>1, <1>2
      <4>2. Knows(k)'
        BY <1>1, <3>2, <4>1
      <4> QED BY <4>1, <4>2 DEF Knows, Used, Passed
    <3>5. ASSUME NEW v \in Writers PROVE CallOK(writer[v])'
      <4>1. writer'[v] = i
        BY <1>1, <2>2
      <4> QED BY <1>4, <1>10, <4>1 DEF CallOK
    <3>6. \A r \in queue.pending \ queue'.pending : r \in forwarded
      BY <2>1, <2>4 DEF Grown
    <3> QED BY <1>2, <2>1, <3>3, <3>4, <3>5, <3>6 DEF Passing
  <2> QED BY <1>2, <2>3, <2>4
<1> QED BY <1>6, <1>7, <1>8, <1>9, <1>12, <1>13, <1>14 DEF WriterNext

LEMMA InitPassing == Init => Passing
<1> SUFFICES ASSUME Init PROVE Passing
  OBVIOUS
<1>1. queue = EmptyQueue /\ ack = 0 /\ cutoff = 0 /\ forwarded = {}
  BY DEF Init
<1>2. Used(0) /\ Passed(0)
  BY <1>1 DEF Used, Passed, IdsOf, EmptyQueue
<1>3. \A a \in Agents : Knows(agent[a])
  <2>1. /\ AgentDown.lastAcked = 0 /\ AgentDown.cursor = 0
        /\ AgentDown.reqs = {} /\ AgentDown.applied = {}
    BY DEF AgentDown
  <2>2. Knows(AgentDown)
    BY <1>2, <2>1 DEF Knows
  <2> QED BY <2>2 DEF Init
<1>4. \A w \in Writers : CallOK(writer[w])
  BY DEF Init, CallOK, IdleWriter
<1> QED BY <1>1, <1>2, <1>3, <1>4, InitOwnFile DEF Passing

LEMMA StepPassing ==
  ASSUME OnlyWriter, MaxCutoff = 0, IInv, TicksOK, Passing, [Next]_vars
  PROVE  Passing' /\ \A r \in queue.pending \ queue'.pending : r \in forwarded
<1>1. CASE \E w \in Writers : WriterNext(w)
  BY <1>1, WriterStepPassing
<1>2. CASE \E a \in Agents : EnsureMaster(a) \/ AgentStep(a) \/ AgentFault(a)
  BY <1>2, AgentStepPassing, AgentKeeps DEF engineVars
<1>3. CASE UNCHANGED vars
  BY <1>3 DEF vars, Passing, OwnFile, Knows, Used, Passed, CallOK, Grown
<1> QED BY <1>1, <1>2, <1>3 DEF Next

(* As long as calls do not overlap and no request outlives its TTL, no      *)
(* waiting request is passed over unforwarded, by the ack file or by any of *)
(* the agents, however often an agent restarts or its ack write fails.      *)
THEOREM NothingIsPassedOver ==
  ASSUME OnlyWriter, MaxCutoff = 0
  PROVE  Spec => []NothingPassedOver
<1>1. IInv /\ TicksOK /\ Passing /\ [Next]_vars => Passing'
  BY StepPassing
<1>2. Passing => NothingPassedOver
  BY DEF Passing, Knows, Passed, NothingPassedOver
<1> QED BY <1>1, <1>2, InitPassing, InvariantTicks, PTL DEF Spec

(* Under the same assumptions a request leaves the queue file only when it  *)
(* was forwarded.                                                           *)
THEOREM NoneTakenBack ==
  ASSUME OnlyWriter, MaxCutoff = 0
  PROVE  Spec => LeavesOnlySettled
<1>1. IInv /\ TicksOK /\ Passing /\ [Next]_vars => Passing'
  BY StepPassing
<1>2. IInv /\ TicksOK /\ Passing /\ [Next]_vars
        => [\A r \in queue.pending \ queue'.pending :
              r \in forwarded \/ Expired(r, cutoff)]_queue
  BY StepPassing
<1> QED BY <1>1, <1>2, InitPassing, InvariantTicks, PTL DEF Spec, LeavesOnlySettled

-----------------------------------------------------------------------------
(* The queue file implements RequestMailbox, under the same assumptions.    *)

(* What was forwarded has an ID the file has seen, and what an agent read   *)
(* left the file only if it was forwarded.                                  *)
Remembered ==
  /\ \A r \in forwarded : Used(r.id)
  /\ \A a \in Agents : agent[a].reqs \subseteq queue.pending \cup forwarded

LEMMA WriterRewrites ==
  ASSUME OnlyWriter, IInv, Passing, NEW w \in Writers, WriterNext(w)
  PROVE  /\ agent' = agent /\ forwarded' = forwarded
         /\ queue' = queue \/ \E q \in Queue : queue' = q /\ Grown(q) /\ QueueOK(q)
<1>1. writer[w] \in WriterState /\ QueueOK(writer[w].q) /\ CallOK(writer[w])
  BY DEF IInv, TypeOK, FilesOK, Passing
<1>2. ASSUME Rename(w) PROVE writer[w].q \in Queue /\ Grown(writer[w].q)
  BY <1>1, <1>2 DEF Rename, CallOK, WriterState
<1> QED BY <1>1, <1>2, WriterKeeps, WriterStepOwnFile DEF Passing

LEMMA AgentServes ==
  ASSUME IInv, TicksOK, Passing, NEW a \in Agents,
         EnsureMaster(a) \/ AgentStep(a) \/ AgentFault(a)
  PROVE  /\ queue' = queue
         /\ \/ forwarded' = forwarded
            \/ \E r \in agent[a].reqs : forwarded' = forwarded \cup {r} /\ Used(r.id)
         /\ \A b \in Agents : agent'[b].reqs \subseteq queue.pending \cup agent[b].reqs
<1> DEFINE g == agent[a]
<1>1. /\ agent \in [Agents -> AgentState] /\ g \in AgentState /\ g.todo \subseteq g.reqs
      /\ Knows(g)
  BY DEF IInv, TypeOK, TicksOK, TickOK, Passing
<1>2. queue' = queue
  BY AgentKeeps DEF engineVars
<1>3. CASE Forward(a)
  <2>1. PICK r \in g.todo :
          /\ forwarded' = forwarded \cup {r}
          /\ agent' = [agent EXCEPT ![a].todo = @ \ {r}, ![a].cursor = r.id,
                                    ![a].applied = @ \cup {r}]
    BY <1>3 DEF Forward
  <2>2. r \in g.reqs /\ Used(r.id)
    BY <1>1 DEF Knows
  <2>3. \A b \in Agents : agent'[b].reqs = agent[b].reqs
    BY <1>1, <2>1 DEF AgentState
  <2> QED BY <1>2, <2>1, <2>2, <2>3
<1>4. CASE ~Forward(a)
  <2>1. forwarded' = forwarded
    BY <1>4 DEF EnsureMaster, AgentStep, AgentFault, TickRead, Seed, SkipSettled, Stall,
       NothingToMark, MarkRead, MarkWrite, ForwardFails, MarkFails, StopAgent, Crash,
       MasterDies
  <2>2. ASSUME NEW h, agent' = [agent EXCEPT ![a] = h],
               h.reqs \subseteq queue.pending \cup g.reqs
        PROVE  \A b \in Agents : agent'[b].reqs \subseteq queue.pending \cup agent[b].reqs
    BY <1>1, <2>2
  <2>3. AgentDown.reqs = {}
    BY DEF AgentDown
  <2>4. CASE EnsureMaster(a) \/ StopAgent(a) \/ Crash(a)
    <3>1. PICK h \in {[AgentDown EXCEPT !.cut = g.cut],
                      [AgentDown EXCEPT !.pc = "idle", !.cut = g.cut]} :
            agent' = [agent EXCEPT ![a] = h]
      BY <2>4 DEF EnsureMaster, StopAgent, Crash
    <3>2. h.reqs = {}
      BY <3>1 DEF AgentDown
    <3> QED BY <1>2, <2>1, <2>2, <3>1, <3>2
  <2>5. CASE TickRead(a)
    <3>1. agent'[a].reqs = queue.pending /\ \A b \in Agents \ {a} : agent'[b] = agent[b]
      BY <1>1, <2>5 DEF TickRead, AgentState
    <3> QED BY <1>2, <2>1, <3>1
  <2>6. CASE Seed(a)
    <3>1. agent'[a].reqs = g.reqs /\ \A b \in Agents \ {a} : agent'[b] = agent[b]
      BY <1>1, <2>6 DEF Seed, AgentState
    <3> QED BY <1>2, <2>1, <3>1
  <2>7. CASE SkipSettled(a) \/ Stall(a) \/ ForwardFails(a)
    <3>1. agent'[a].reqs = g.reqs /\ \A b \in Agents \ {a} : agent'[b] = agent[b]
      <4>1. CASE SkipSettled(a)
        BY <1>1, <2>7, <4>1 DEF SkipSettled, AgentState
      <4>2. CASE Stall(a)
        BY <1>1, <2>7, <4>2 DEF Stall, AgentState
      <4>3. CASE ForwardFails(a)
        BY <1>1, <2>7, <4>3 DEF ForwardFails, AgentState
      <4> QED BY <2>7, <4>1, <4>2, <4>3
    <3> QED BY <1>2, <2>1, <3>1
  <2>8. CASE NothingToMark(a) \/ MarkRead(a) \/ MarkWrite(a) \/ MarkFails(a)
    <3>1. PICK h \in {TickDone(g), [TickDone(g) EXCEPT !.lastAcked = g.lastAcked],
                      [g EXCEPT !.pc = "mark"]} : agent' = [agent EXCEPT ![a] = h]
      BY <2>8 DEF NothingToMark, MarkRead, MarkWrite, MarkFails
    <3>2. h.reqs \subseteq g.reqs
      BY <1>1, <3>1 DEF TickDone, AgentState
    <3> QED BY <1>2, <2>1, <2>2, <3>1, <3>2
  <2>9. CASE MasterDies(a)
    BY <1>2, <2>1, <2>9 DEF MasterDies
  <2> QED BY <1>4, <2>4, <2>5, <2>6, <2>7, <2>8, <2>9 DEF AgentStep, AgentFault
<1> QED BY <1>3, <1>4

LEMMA StepRemembered ==
  ASSUME OnlyWriter, IInv, TicksOK, Passing, Remembered, [Next]_vars
  PROVE  Remembered'
<1>1. ASSUME NEW w \in Writers, WriterNext(w) PROVE Remembered'
  <2>1. /\ agent' = agent /\ forwarded' = forwarded
        /\ queue' = queue \/ \E q \in Queue : queue' = q /\ Grown(q)
    BY <1>1, WriterRewrites
  <2>2. CASE queue' = queue
    BY <2>1, <2>2 DEF Remembered, Used
  <2>3. ASSUME NEW q \in Queue, queue' = q, Grown(q) PROVE Remembered'
    <3>1. \A n \in Nat : Used(n) => Used(n)'
      BY <2>1, <2>3, InstallKeeps
    <3>2. \A r \in forwarded : Used(r.id)'
      <4>1. \A r \in forwarded : r.id \in Nat
        BY DEF IInv, TypeOK, Request
      <4> QED BY <3>1, <4>1 DEF Remembered
    <3>3. ASSUME NEW r \in forwarded' PROVE Used(r.id)'
      <4>1. PICK x \in forwarded : x = r
        BY <2>1, <3>3
      <4> QED BY <3>2, <4>1
    <3>4. \A a \in Agents : agent[a].reqs \subseteq q.pending \cup forwarded
      BY <2>3 DEF Remembered, Grown
    <3> QED BY <2>1, <2>3, <3>3, <3>4 DEF Remembered
  <2> QED BY <2>1, <2>2, <2>3
<1>2. ASSUME NEW a \in Agents, EnsureMaster(a) \/ AgentStep(a) \/ AgentFault(a)
      PROVE  Remembered'
  <2>1. /\ queue' = queue
        /\ \/ forwarded' = forwarded
           \/ \E r \in agent[a].reqs : forwarded' = forwarded \cup {r} /\ Used(r.id)
        /\ \A b \in Agents : agent'[b].reqs \subseteq queue.pending \cup agent[b].reqs
    BY <1>2, AgentServes
  <2>2. \A r \in forwarded' : Used(r.id)
    BY <2>1 DEF Remembered
  <2>3. \A b \in Agents : agent'[b].reqs \subseteq queue.pending \cup forwarded'
    BY <2>1 DEF Remembered
  <2> QED BY <2>1, <2>2, <2>3 DEF Remembered, Used
<1>3. CASE UNCHANGED vars
  BY <1>3 DEF vars, Remembered, Used
<1> QED BY <1>1, <1>2, <1>3 DEF Next

LEMMA StepMailbox ==
  ASSUME OnlyWriter, IInv, TicksOK, Passing, Remembered, [Next]_vars
  PROVE  [Mailbox!Next]_<<queue.pending, forwarded>>
<1> DEFINE Goal == [Mailbox!Next]_<<queue.pending, forwarded>>
<1>1. ASSUME NEW w \in Writers, WriterNext(w) PROVE Goal
  <2>1. /\ forwarded' = forwarded
        /\ queue' = queue \/ \E q \in Queue : queue' = q /\ Grown(q) /\ QueueOK(q)
    BY <1>1, WriterRewrites
  <2>2. ASSUME NEW q \in Queue, queue' = q, Grown(q), QueueOK(q) PROVE Mailbox!Rewrite
    <3>1. queue.pending \ q.pending \subseteq forwarded
      BY <2>2 DEF Grown
    <3>2. ASSUME NEW n \in q.pending \ queue.pending,
                 NEW r \in queue.pending \cup forwarded
          PROVE  r.id < n.id
      <4>1. Used(r.id)
        BY IdsAreNat DEF Remembered, Used
      <4>2. PICK m \in IdsOf(queue) : r.id <= m
        BY <4>1 DEF Used
      <4>3. m < n.id
        BY <2>2, <3>2, <4>2 DEF Grown
      <4>4. r.id \in Nat /\ m \in Nat /\ n.id \in Nat
        BY <2>2, <3>2, <4>2, IdsAreNat DEF IInv, TypeOK, Queue, Request
      <4> QED BY <4>2, <4>3, <4>4
    <3>3. \A m, n \in q.pending : m.id = n.id => m = n
      BY <2>2 DEF QueueOK, WellFormed
    <3> QED BY <2>1, <2>2, <3>1, <3>2, <3>3 DEF Mailbox!Rewrite
  <2> QED BY <2>1, <2>2 DEF Mailbox!Next
<1>2. ASSUME NEW a \in Agents, EnsureMaster(a) \/ AgentStep(a) \/ AgentFault(a)
      PROVE  Goal
  <2>1. /\ queue' = queue
        /\ \/ forwarded' = forwarded
           \/ \E r \in agent[a].reqs : forwarded' = forwarded \cup {r}
    BY <1>2, AgentServes
  <2>2. ASSUME NEW r \in agent[a].reqs, forwarded' = forwarded \cup {r} PROVE Goal
    <3>1. r \in queue.pending \/ forwarded' = forwarded
      BY <2>2 DEF Remembered
    <3> QED BY <2>1, <2>2, <3>1 DEF Mailbox!Next, Mailbox!Serve
  <2> QED BY <2>1, <2>2
<1>3. CASE UNCHANGED vars
  BY <1>3 DEF vars
<1> QED BY <1>1, <1>2, <1>3 DEF Next

LEMMA InitRemembered == Init => Remembered
BY DEF Init, Remembered, AgentDown

(* However many agents serve it and whatever fails, the queue file is the   *)
(* mailbox that RequestMailbox describes.                                   *)
THEOREM Implements ==
  ASSUME OnlyWriter, MaxCutoff = 0
  PROVE  Spec => ImplementsMailbox
<1>1. Init => Mailbox!Init
  BY DEF Init, EmptyQueue, Mailbox!Init
<1>2. IInv /\ TicksOK /\ Passing /\ [Next]_vars => Passing'
  BY StepPassing
<1>3. IInv /\ TicksOK /\ Passing /\ Remembered /\ [Next]_vars => Remembered'
  BY StepRemembered
<1>4. IInv /\ TicksOK /\ Passing /\ Remembered /\ [Next]_vars
        => [Mailbox!Next]_<<queue.pending, forwarded>>
  BY StepMailbox
<1> QED BY <1>1, <1>2, <1>3, <1>4, InitPassing, InitRemembered, InvariantTicks, PTL
        DEF Spec, ImplementsMailbox, Mailbox!Spec

(* Under the same assumptions an ID means one request for ever, so that the *)
(* ack of a request cannot be taken for the ack of a later one.             *)
THEOREM IDsAreNotReused ==
  ASSUME OnlyWriter, MaxCutoff = 0
  PROVE  Spec => []Mailbox!OneRequestPerID
<1> DEFINE NatIds == \A r \in queue.pending \cup forwarded : r.id \in Nat
<1>1. Mailbox!Init => Mailbox!OneRequestPerID
  BY DEF Mailbox!Init, Mailbox!OneRequestPerID
<1>2. NatIds /\ Mailbox!OneRequestPerID /\ [Mailbox!Next]_<<queue.pending, forwarded>> /\ NatIds'
        => Mailbox!OneRequestPerID'
  <2> SUFFICES ASSUME NatIds, NatIds', Mailbox!OneRequestPerID,
                      [Mailbox!Next]_<<queue.pending, forwarded>>
               PROVE  Mailbox!OneRequestPerID'
    OBVIOUS
  <2>1. CASE UNCHANGED <<queue.pending, forwarded>>
    BY <2>1 DEF Mailbox!OneRequestPerID
  <2>2. CASE Mailbox!Serve
    BY <2>2 DEF Mailbox!Serve, Mailbox!OneRequestPerID
  <2>3. CASE Mailbox!Rewrite
    BY <2>3 DEF Mailbox!Rewrite, Mailbox!OneRequestPerID
  <2> QED BY <2>1, <2>2, <2>3 DEF Mailbox!Next
<1>3. IInv => NatIds
  BY IdsAreNat DEF IInv, TypeOK, Request, Queue
<1> HIDE DEF NatIds
<1> QED BY <1>1, <1>2, <1>3, Implements, InvariantIInv, PTL DEF ImplementsMailbox, Mailbox!Spec

=============================================================================
