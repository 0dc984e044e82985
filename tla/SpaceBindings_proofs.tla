------------------------ MODULE SpaceBindings_proofs ------------------------
(* Proofs of the types of SpaceBindings, of OneToOne, of PruneSparesTheOpen *)
(* and RecordOutlivesSandbox, and that the bindings file implements         *)
(* BindingTable.                                                            *)
EXTENDS SpaceBindings, TLAPS

Holding == {"create", "lock", "write", "undo", "close", "check", "remove", "stop", "again"}
Reclaiming == {"check", "remove", "stop", "again", "lock", "write"}

Born(b) == ws[b.ws] # "unborn"
Gone(b) == ws[b.ws] = "closed"

(* What the local state of a command says of the stores: its copy of the    *)
(* file is the file while it holds the lock, and what prune works on is     *)
(* bindings whose workspaces are gone for good.  The hook of w does not run  *)
(* before w was removed.                                                    *)
ProcOK(p) ==
  /\ proc[p].pc \in Holding => proc[p].item \in Binding
  /\ proc[p].pc = "idle" => proc[p].item = None
  /\ proc[p].pc \in {"list", "live", "item", "check", "remove", "stop", "again"}
       => proc[p].verb = "prune"
  /\ proc[p].item # None => Born(proc[p].item)
  /\ \A b \in proc[p].todo : Born(b)
  /\ proc[p].pc = "write" => lock = p /\ proc[p].copy = table
  /\ proc[p].verb = "prune" /\ proc[p].pc \notin {"idle", "list", "live"}
       => \A b \in proc[p].todo : Gone(b)
  /\ proc[p].verb = "prune" /\ proc[p].pc \in Reclaiming => Gone(proc[p].item)
  /\ p \in Linked /\ ws[p] # "closed" => proc[p].pc = "idle"

StoresOK ==
  /\ \A b \in table : Born(b)
  /\ lock # None => proc[lock].pc = "write"

IInv == TypeOK /\ (\A p \in Procs : ProcOK(p)) /\ StoresOK

(* Workspaces are opened and closed once.                                   *)
WorkspacesAge ==
  \A w \in Workspaces :
    /\ ws[w] # "unborn" => ws'[w] # "unborn"
    /\ ws[w] = "closed" => ws'[w] = "closed"

(* A step of p leaves the other commands alone, and the file and its lock   *)
(* unless it holds the lock or finds it free.                               *)
Frame(p) ==
  /\ \A q \in Procs \ {p} : proc'[q] = proc[q]
  /\ lock' = lock \/ lock = p \/ lock = None
  /\ table' = table \/ lock = p
  /\ WorkspacesAge

LEMMA StepKeepsIInv ==
  ASSUME IInv, NEW p \in Procs, TypeOK', Frame(p), ProcOK(p)', StoresOK'
  PROVE  IInv'
<1>1. ASSUME NEW q \in Procs \ {p} PROVE ProcOK(q)'
  <2>1. /\ ProcOK(q) /\ proc[q] \in Process /\ proc'[q] = proc[q] /\ WorkspacesAge
    BY DEF IInv, TypeOK, Frame
  <2>2. \A b \in Binding : (Born(b) => Born(b)') /\ (Gone(b) => Gone(b)')
    BY <2>1 DEF WorkspacesAge, Binding, Born, Gone
  <2>3. proc[q].item \in Binding \cup {None} /\ proc[q].todo \subseteq Binding
    BY <2>1 DEF Process
  <2>4. proc[q].pc = "write" => lock' = q /\ table' = table
    BY <2>1, ConstantsAssumption DEF Frame, ProcOK
  <2>5. Reclaiming \subseteq Holding
    BY DEF Reclaiming, Holding
  <2>6. q \in Linked /\ ws'[q] # "closed" => ws[q] # "closed"
    BY <2>1 DEF WorkspacesAge, Workspaces
  <2> QED BY <2>1, <2>2, <2>3, <2>4, <2>5, <2>6 DEF ProcOK
<1> QED BY <1>1 DEF IInv

(* A step outside the commands.                                             *)
LEMMA OutsideKeepsIInv ==
  ASSUME IInv, TypeOK', UNCHANGED <<table, lock, proc>>, WorkspacesAge
  PROVE  IInv'
<1>1. \A b \in Binding : (Born(b) => Born(b)') /\ (Gone(b) => Gone(b)')
  BY DEF WorkspacesAge, Binding, Born, Gone
<1>2. ASSUME NEW q \in Procs PROVE ProcOK(q)'
  <2>1. ProcOK(q) /\ proc[q] \in Process
    BY DEF IInv, TypeOK
  <2>2. proc[q].item \in Binding \cup {None} /\ proc[q].todo \subseteq Binding
    BY <2>1 DEF Process
  <2>3. Reclaiming \subseteq Holding
    BY DEF Reclaiming, Holding
  <2>4. q \in Linked /\ ws'[q] # "closed" => ws[q] # "closed"
    BY DEF WorkspacesAge, Workspaces
  <2> QED BY <1>1, <2>1, <2>2, <2>3, <2>4 DEF ProcOK
<1>3. StoresOK'
  BY <1>1 DEF IInv, StoresOK, TypeOK
<1> QED BY <1>2, <1>3 DEF IInv

LEMMA IdleType == Idle \in Process
BY DEF Idle, Process, Verbs

LEMMA InitIInv == Init => IInv
<1> SUFFICES ASSUME Init PROVE IInv
  OBVIOUS
<1>1. TypeOK
  BY IdleType, ConstantsAssumption DEF Init, TypeOK
<1>2. \A p \in Procs : ProcOK(p)
  BY DEF Init, ProcOK, Idle, Holding, Reclaiming
<1> QED BY <1>1, <1>2 DEF IInv, StoresOK, Init

(* The steps of the commands, one by one.                                   *)
LEMMA NextItemState ==
  ASSUME proc \in [Procs -> Process], NEW p \in Procs
  PROVE  \A todo \in SUBSET Binding : NextItem(p, todo) =>
           /\ proc' \in [Procs -> Process]
           /\ \A q \in Procs \ {p} : proc'[q] = proc[q]
           /\ proc'[p].item = None /\ proc'[p].todo = todo
           /\ \/ proc'[p].pc = "idle"
              \/ proc'[p].pc = "item" /\ proc'[p].verb = proc[p].verb
<1> TAKE todo \in SUBSET Binding
<1> HAVE NextItem(p, todo)
<1> DEFINE next == [proc[p] EXCEPT !.pc = "item", !.todo = todo, !.item = None, !.copy = {}]
<1>1. /\ next \in Process /\ next.item = None /\ next.todo = todo
      /\ next.pc = "item" /\ next.verb = proc[p].verb
  BY DEF Process
<1>2. proc' = [proc EXCEPT ![p] = IF todo = {} THEN Idle ELSE next]
  BY DEF NextItem
<1> HIDE DEF next
<1>3. \A q \in Procs \ {p} : proc'[q] = proc[q]
  BY <1>2
<1>4. proc'[p] = IF todo = {} THEN Idle ELSE next
  BY <1>2
<1>5. Idle.item = None /\ Idle.todo = {} /\ Idle.pc = "idle"
  BY DEF Idle
<1>6. proc' \in [Procs -> Process]
  BY <1>1, <1>2, IdleType
<1> QED BY <1>1, <1>3, <1>4, <1>5, <1>6

(* A command that is done with a binding has nothing to answer for.          *)
LEMMA ItemLeft ==
  ASSUME NEW p \in Procs, ProcOK(p), proc[p].pc \notin {"idle", "list", "live"}, ws' = ws,
         proc'[p].item = None, proc'[p].todo \subseteq proc[p].todo,
         \/ proc'[p].pc = "idle"
         \/ proc'[p].pc = "item" /\ proc'[p].verb = proc[p].verb /\ proc[p].verb = "prune"
  PROVE  ProcOK(p)'
<1>1. proc'[p].pc \in {"idle", "item"} /\ proc'[p].pc \notin Holding \cup Reclaiming
  BY DEF Holding, Reclaiming
<1>2. proc'[p].verb = "prune" /\ proc'[p].pc # "idle" => \A b \in proc'[p].todo : Gone(b)'
  BY DEF ProcOK, Gone
<1>3. \A b \in proc'[p].todo : Born(b)'
  BY DEF ProcOK, Born
<1> QED BY <1>1, <1>2, <1>3 DEF ProcOK

(* A step that is not a Put or a Delete leaves the stores in order.         *)
LEMMA StoresKept ==
  ASSUME TypeOK, StoresOK, NEW p \in Procs, Frame(p), proc[p].pc # "write",
         table' = table, lock' = lock
  PROVE  StoresOK'
<1>1. \A b \in table : Born(b)'
  BY DEF TypeOK, StoresOK, Binding, Born, Frame, WorkspacesAge
<1>2. lock # None => lock \in Procs \ {p}
  BY DEF TypeOK, StoresOK
<1> QED BY <1>1, <1>2 DEF StoresOK, Frame

LEMMA LockAndReadKeeps ==
  ASSUME IInv, NEW p \in Procs, LockAndRead(p)
  PROVE  IInv'
<1>0. /\ TypeOK /\ proc[p] \in Process /\ ProcOK(p) /\ StoresOK
  BY DEF IInv, TypeOK
<1> DEFINE next == [proc[p] EXCEPT !.pc = "write", !.copy = table]
<1>1. /\ next \in Process /\ next.pc = "write" /\ next.copy = table
      /\ next.verb = proc[p].verb /\ next.item = proc[p].item
      /\ next.todo = proc[p].todo
  BY <1>0 DEF TypeOK, Process
<1>2. proc' = [proc EXCEPT ![p] = next]
  BY DEF LockAndRead
<1> HIDE DEF next
<1>3. /\ proc' \in [Procs -> Process] /\ proc'[p] = next
      /\ \A q \in Procs \ {p} : proc'[q] = proc[q]
  BY <1>0, <1>1, <1>2 DEF TypeOK
<1>4. /\ proc[p].pc = "lock" /\ lock = None /\ lock' = p
      /\ UNCHANGED <<table, ws, label, trees, box, hand, faults>>
  BY DEF LockAndRead, herdrVars
<1>5. TypeOK'
  BY <1>0, <1>3, <1>4 DEF TypeOK
<1>6. Frame(p)
  BY <1>3, <1>4 DEF Frame, WorkspacesAge
<1>7. ProcOK(p)'
  BY <1>0, <1>1, <1>3, <1>4 DEF ProcOK, Born, Gone, Holding, Reclaiming
<1>8. StoresOK'
  BY <1>0, <1>1, <1>3, <1>4 DEF StoresOK, Born
<1> QED BY <1>5, <1>6, <1>7, <1>8, StepKeepsIInv

LEMMA WriteKeeps ==
  ASSUME IInv, NEW p \in Procs, Write(p)
  PROVE  IInv'
<1>0. /\ TypeOK /\ proc[p] \in Process /\ ProcOK(p) /\ StoresOK
  BY DEF IInv, TypeOK
<1>1. TypeOK'
  <2>1. table' \subseteq Binding
    BY <1>0 DEF TypeOK, Process, ProcOK, Holding, Write, Removed, Stored
  <2>2. proc' \in [Procs -> Process]
    BY <1>0, NextItemState, IdleType
    DEF TypeOK, Process, Write, AfterStore, Return
  <2> QED BY <1>0, <2>1, <2>2 DEF TypeOK, Write, herdrVars
<1>2. Frame(p)
  BY <1>0, NextItemState
  DEF TypeOK, Frame, WorkspacesAge, ProcOK, Process, Write, AfterStore, Goto,
      Return, Removed, Stored, herdrVars
<1>3. ProcOK(p)'
  <2>1. proc[p].pc = "write" /\ ws' = ws /\ AfterStore(p)
    BY DEF Write, herdrVars
  <2>2. CASE proc[p].verb = "rm"
    <3>1. proc' = [proc EXCEPT ![p] = [proc[p] EXCEPT !.pc = "close", !.copy = {}]]
      BY <2>1, <2>2 DEF AfterStore
    <3>2. proc'[p] = [proc[p] EXCEPT !.pc = "close", !.copy = {}]
      BY <1>0, <3>1 DEF TypeOK
    <3>3. /\ proc'[p].pc = "close" /\ proc'[p].verb = "rm"
          /\ proc'[p].item = proc[p].item /\ proc'[p].todo = proc[p].todo
      BY <1>0, <2>2, <3>2 DEF Process
    <3> QED BY <1>0, <2>1, <3>3 DEF ProcOK, Born, Gone, Holding, Reclaiming
  <2>3. CASE proc[p].verb = "prune"
    <3>1. NextItem(p, proc[p].todo) /\ proc[p].todo \in SUBSET Binding
      BY <1>0, <2>1, <2>3 DEF AfterStore, Process
    <3> QED BY <1>0, <2>1, <2>3, <3>1, NextItemState, ItemLeft DEF TypeOK
  <2>4. CASE proc[p].verb \notin {"rm", "prune"}
    <3>1. proc'[p] = Idle
      BY <1>0, <2>1, <2>4 DEF TypeOK, AfterStore, Return
    <3> QED BY <1>0, <2>1, <3>1, ItemLeft DEF Idle
  <2> QED BY <2>2, <2>3, <2>4
<1>4. StoresOK'
  <2>1. proc[p].copy = table /\ proc[p].item \in Binding /\ Born(proc[p].item)
    BY <1>0, ConstantsAssumption DEF ProcOK, Write, Holding, Binding
  <2>2. table' \subseteq table \cup {proc[p].item}
    BY <2>1 DEF Write, Stored, Removed
  <2> QED BY <1>0, <2>1, <2>2 DEF StoresOK, Born, Write, herdrVars
<1> QED BY <1>1, <1>2, <1>3, <1>4, StepKeepsIInv

LEMMA StoreFailsKeeps ==
  ASSUME IInv, NEW p \in Procs, StoreFails(p)
  PROVE  IInv'
<1>0. /\ TypeOK /\ proc[p] \in Process /\ ProcOK(p) /\ StoresOK
  BY DEF IInv, TypeOK
<1>1. TypeOK'
  <2>1. proc' \in [Procs -> Process]
    <3>1. CASE proc[p].verb \in {"convert", "space-create"}
      BY <1>0, <3>1 DEF TypeOK, Process, StoreFails, AfterStoreFailed
    <3>2. CASE proc[p].verb \notin {"convert", "space-create"}
      BY <1>0, <3>2, NextItemState, IdleType
      DEF TypeOK, Process, StoreFails, AfterStoreFailed, AfterStore, Return
    <3> QED BY <3>1, <3>2
  <2> QED BY <1>0, <2>1, ConstantsAssumption DEF TypeOK, StoreFails, Release, Fail, herdrVars
<1>2. Frame(p)
  BY <1>0, NextItemState
  DEF TypeOK, Frame, WorkspacesAge, ProcOK, Process, StoreFails, AfterStoreFailed,
      AfterStore, Return, Release, Fail, herdrVars
<1>3. ProcOK(p)'
  BY <1>0, NextItemState, ConstantsAssumption
  DEF TypeOK, Process, Binding, Idle, ProcOK, StoresOK, Born, Gone, Holding,
      Reclaiming, StoreFails, AfterStoreFailed, AfterStore, Return, Release, Fail,
      herdrVars
<1>4. StoresOK'
  BY <1>0, NextItemState, ConstantsAssumption
  DEF TypeOK, Process, Binding, Idle, ProcOK, StoresOK, Born, Holding, StoreFails,
      AfterStoreFailed, AfterStore, Return, Release, Fail, herdrVars
<1> QED BY <1>1, <1>2, <1>3, <1>4, StepKeepsIInv

LEMMA ConvertCreatesSandboxKeeps ==
  ASSUME IInv, NEW p \in Procs, ConvertCreatesSandbox(p)
  PROVE  IInv'
<1>0. /\ TypeOK /\ proc[p] \in Process /\ ProcOK(p) /\ StoresOK
  BY DEF IInv, TypeOK
<1>1. TypeOK'
  BY <1>0, IdleType, ConstantsAssumption
  DEF TypeOK, Process, Verbs, ProcOK, Holding, ConvertCreatesSandbox, At, Goto,
      herdrVars
<1>2. Frame(p)
  BY <1>0
  DEF TypeOK, Frame, WorkspacesAge, ProcOK, Process, ConvertCreatesSandbox, At,
      Goto, herdrVars
<1>3. ProcOK(p)'
  BY <1>0, ConstantsAssumption
  DEF TypeOK, Process, Binding, Idle, ProcOK, StoresOK, Born, Gone, Holding,
      Reclaiming, ConvertCreatesSandbox, At, Goto, herdrVars
<1>4. StoresOK'
  BY <1>0, <1>2, StoresKept DEF ConvertCreatesSandbox, At
<1> QED BY <1>1, <1>2, <1>3, <1>4, StepKeepsIInv

LEMMA ConvertRefusedKeeps ==
  ASSUME IInv, NEW p \in Procs, ConvertRefused(p)
  PROVE  IInv'
<1>0. /\ TypeOK /\ proc[p] \in Process /\ ProcOK(p) /\ StoresOK
  BY DEF IInv, TypeOK
<1>1. TypeOK'
  BY <1>0, IdleType, ConstantsAssumption
  DEF TypeOK, Process, Verbs, ProcOK, Holding, ConvertRefused, At, Return, Fail,
      herdrVars
<1>2. Frame(p)
  BY <1>0
  DEF TypeOK, Frame, WorkspacesAge, ProcOK, Process, ConvertRefused, At, Return,
      Fail, herdrVars
<1>3. ProcOK(p)'
  BY <1>0, ConstantsAssumption
  DEF TypeOK, Process, Binding, Idle, ProcOK, StoresOK, Born, Gone, Holding,
      Reclaiming, ConvertRefused, At, Return, Fail, herdrVars
<1>4. StoresOK'
  BY <1>0, <1>2, StoresKept DEF ConvertRefused, At
<1> QED BY <1>1, <1>2, <1>3, <1>4, StepKeepsIInv

LEMMA UndoConvertKeeps ==
  ASSUME IInv, NEW p \in Procs, UndoConvert(p)
  PROVE  IInv'
<1>0. /\ TypeOK /\ proc[p] \in Process /\ ProcOK(p) /\ StoresOK
  BY DEF IInv, TypeOK
<1>1. TypeOK'
  BY <1>0, IdleType, ConstantsAssumption
  DEF TypeOK, Process, Verbs, ProcOK, Holding, UndoConvert, At, RemoveSandbox,
      Return, herdrVars
<1>2. Frame(p)
  BY <1>0
  DEF TypeOK, Frame, WorkspacesAge, ProcOK, Process, UndoConvert, At, RemoveSandbox,
      Return, herdrVars
<1>3. ProcOK(p)'
  BY <1>0, ConstantsAssumption
  DEF TypeOK, Process, Binding, Idle, ProcOK, StoresOK, Born, Gone, Holding,
      Reclaiming, UndoConvert, At, RemoveSandbox, Return, herdrVars
<1>4. StoresOK'
  BY <1>0, <1>2, StoresKept DEF UndoConvert, At
<1> QED BY <1>1, <1>2, <1>3, <1>4, StepKeepsIInv

LEMMA UndoSpaceCreateKeeps ==
  ASSUME IInv, NEW p \in Procs, UndoSpaceCreate(p)
  PROVE  IInv'
<1>0. /\ TypeOK /\ proc[p] \in Process /\ ProcOK(p) /\ StoresOK
  BY DEF IInv, TypeOK
<1>1. TypeOK'
  BY <1>0, IdleType, ConstantsAssumption
  DEF TypeOK, Process, Verbs, ProcOK, Holding, UndoSpaceCreate, At,
      CloseItsWorkspace, Return, herdrVars
<1>2. Frame(p)
  BY <1>0
  DEF TypeOK, Frame, WorkspacesAge, ProcOK, Process, UndoSpaceCreate, At,
      CloseItsWorkspace, Return, herdrVars
<1>3. ProcOK(p)'
  BY <1>0, ConstantsAssumption
  DEF TypeOK, Process, Binding, Idle, ProcOK, StoresOK, Born, Gone, Holding,
      Reclaiming, UndoSpaceCreate, At, CloseItsWorkspace, Return, herdrVars
<1>4. StoresOK'
  BY <1>0, <1>2, StoresKept DEF UndoSpaceCreate, At, CloseItsWorkspace
<1> QED BY <1>1, <1>2, <1>3, <1>4, StepKeepsIInv

LEMMA SpaceCleanupKeeps ==
  ASSUME IInv, NEW p \in Procs, SpaceCleanup(p)
  PROVE  IInv'
<1>0. /\ TypeOK /\ proc[p] \in Process /\ ProcOK(p) /\ StoresOK
  BY DEF IInv, TypeOK
<1>1. TypeOK'
  BY <1>0, IdleType, ConstantsAssumption
  DEF TypeOK, Process, Verbs, ProcOK, Holding, SpaceCleanup, At, Return, herdrVars
<1>2. Frame(p)
  BY <1>0
  DEF TypeOK, Frame, WorkspacesAge, ProcOK, Process, SpaceCleanup, At, Return,
      herdrVars
<1>3. ProcOK(p)'
  BY <1>0, ConstantsAssumption
  DEF TypeOK, Process, Binding, Idle, ProcOK, StoresOK, Born, Gone, Holding,
      Reclaiming, SpaceCleanup, At, Return, herdrVars
<1>4. StoresOK'
  BY <1>0, <1>2, StoresKept DEF SpaceCleanup, At
<1> QED BY <1>1, <1>2, <1>3, <1>4, StepKeepsIInv

LEMMA RMClosesKeeps ==
  ASSUME IInv, NEW p \in Procs, RMCloses(p)
  PROVE  IInv'
<1>0. /\ TypeOK /\ proc[p] \in Process /\ ProcOK(p) /\ StoresOK
  BY DEF IInv, TypeOK
<1>1. TypeOK'
  BY <1>0, IdleType, ConstantsAssumption
  DEF TypeOK, Process, Verbs, ProcOK, Holding, RMCloses, At, CloseItsWorkspace,
      Return, herdrVars
<1>2. Frame(p)
  BY <1>0
  DEF TypeOK, Frame, WorkspacesAge, ProcOK, Process, RMCloses, At,
      CloseItsWorkspace, Return, herdrVars
<1>3. ProcOK(p)'
  BY <1>0, ConstantsAssumption
  DEF TypeOK, Process, Binding, Idle, ProcOK, StoresOK, Born, Gone, Holding,
      Reclaiming, RMCloses, At, CloseItsWorkspace, Return, herdrVars
<1>4. StoresOK'
  BY <1>0, <1>2, StoresKept DEF RMCloses, At, CloseItsWorkspace
<1> QED BY <1>1, <1>2, <1>3, <1>4, StepKeepsIInv

LEMMA ListWorkspacesKeeps ==
  ASSUME IInv, NEW p \in Procs, ListWorkspaces(p)
  PROVE  IInv'
<1>0. /\ TypeOK /\ proc[p] \in Process /\ ProcOK(p) /\ StoresOK
  BY DEF IInv, TypeOK
<1>1. TypeOK'
  BY <1>0, NextItemState, IdleType, ConstantsAssumption
  DEF TypeOK, Process, Verbs, ProcOK, Holding, ListWorkspaces, herdrVars
<1>2. Frame(p)
  BY <1>0, NextItemState
  DEF TypeOK, Frame, WorkspacesAge, ProcOK, Process, ListWorkspaces, herdrVars
<1>3. ProcOK(p)'
  BY <1>0, NextItemState, ConstantsAssumption
  DEF TypeOK, Process, Binding, Idle, ProcOK, StoresOK, Born, Gone, Holding,
      Reclaiming, ListWorkspaces, herdrVars
<1>4. StoresOK'
  BY <1>0, <1>2, StoresKept DEF ListWorkspaces
<1> QED BY <1>1, <1>2, <1>3, <1>4, StepKeepsIInv

LEMMA KeepKeeps ==
  ASSUME IInv, NEW p \in Procs, Keep(p)
  PROVE  IInv'
<1>0. /\ TypeOK /\ proc[p] \in Process /\ ProcOK(p) /\ StoresOK
  BY DEF IInv, TypeOK
<1>1. TypeOK'
  BY <1>0, NextItemState, IdleType, ConstantsAssumption
  DEF TypeOK, Process, Verbs, ProcOK, Holding, Keep, Fail, herdrVars
<1>2. Frame(p)
  BY <1>0, NextItemState
  DEF TypeOK, Frame, WorkspacesAge, ProcOK, Process, Keep, Fail, herdrVars
<1>3. ProcOK(p)'
  <2>1. PICK b \in proc[p].todo : NextItem(p, proc[p].todo \ {b})
    BY DEF Keep
  <2>2. proc[p].todo \ {b} \in SUBSET Binding
    BY <1>0 DEF Process
  <2>3. proc[p].pc = "item" /\ proc[p].verb = "prune" /\ ws' = ws
    BY <1>0 DEF Keep, ProcOK, herdrVars
  <2> QED BY <1>0, <2>1, <2>2, <2>3, NextItemState, ItemLeft DEF TypeOK
<1>4. StoresOK'
  BY <1>0, <1>2, StoresKept DEF Keep
<1> QED BY <1>1, <1>2, <1>3, <1>4, StepKeepsIInv

LEMMA ReclaimKeeps ==
  ASSUME IInv, NEW p \in Procs, Reclaim(p)
  PROVE  IInv'
<1>0. /\ TypeOK /\ proc[p] \in Process /\ ProcOK(p) /\ StoresOK
  BY DEF IInv, TypeOK
<1>1. TypeOK'
  BY <1>0, IdleType, ConstantsAssumption
  DEF TypeOK, Process, Verbs, ProcOK, Holding, Reclaim, herdrVars
<1>2. Frame(p)
  BY <1>0 DEF TypeOK, Frame, WorkspacesAge, ProcOK, Process, Reclaim, herdrVars
<1>3. ProcOK(p)'
  BY <1>0, ConstantsAssumption
  DEF TypeOK, Process, Binding, Idle, ProcOK, StoresOK, Born, Gone, Holding,
      Reclaiming, Reclaim, herdrVars
<1>4. StoresOK'
  BY <1>0, <1>2, StoresKept DEF Reclaim
<1> QED BY <1>1, <1>2, <1>3, <1>4, StepKeepsIInv

(* A step of a reclaim goes on with its binding or gives it up.              *)
LEMMA ReclaimMoves ==
  ASSUME TypeOK, NEW p \in Procs, ProcOK(p), ws' = ws,
         proc[p].pc \in {"check", "remove", "stop", "again"},
         \/ GiveUpItem(p)
         \/ \E pc \in {"remove", "stop", "again", "lock"} : Goto(p, pc)
  PROVE  /\ proc' \in [Procs -> Process] /\ ProcOK(p)'
         /\ \A q \in Procs \ {p} : proc'[q] = proc[q]
<1>1. proc \in [Procs -> Process] /\ proc[p] \in Process /\ proc[p].verb = "prune"
  BY DEF TypeOK, ProcOK
<1>2. CASE GiveUpItem(p)
  <2>1. proc[p].todo \in SUBSET Binding
    BY <1>1 DEF Process
  <2> QED BY <1>1, <1>2, <2>1, NextItemState, ItemLeft DEF GiveUpItem
<1>3. ASSUME NEW pc \in {"remove", "stop", "again", "lock"}, Goto(p, pc)
      PROVE  /\ proc' \in [Procs -> Process] /\ ProcOK(p)'
             /\ \A q \in Procs \ {p} : proc'[q] = proc[q]
  <2> DEFINE next == [proc[p] EXCEPT !.pc = pc]
  <2>1. /\ next \in Process /\ next.pc = pc /\ next.verb = proc[p].verb
        /\ next.item = proc[p].item /\ next.todo = proc[p].todo
    BY <1>1 DEF Process
  <2>2. proc' = [proc EXCEPT ![p] = next]
    BY <1>3 DEF Goto
  <2> HIDE DEF next
  <2>3. proc'[p] = next /\ proc' \in [Procs -> Process]
    BY <1>1, <2>1, <2>2
  <2>4. \A q \in Procs \ {p} : proc'[q] = proc[q]
    BY <1>1, <2>2
  <2>5. ProcOK(p)'
    BY <1>1, <2>1, <2>3 DEF ProcOK, Born, Gone, Holding, Reclaiming
  <2> QED BY <2>3, <2>4, <2>5
<1> QED BY <1>2, <1>3

LEMMA RunningCheckKeeps ==
  ASSUME IInv, NEW p \in Procs, RunningCheck(p)
  PROVE  IInv'
<1>0. /\ TypeOK /\ proc[p] \in Process /\ ProcOK(p) /\ StoresOK
  BY DEF IInv, TypeOK
<1>1. /\ proc[p].pc \in {"check", "remove", "stop", "again"}
      /\ UNCHANGED <<table, lock, ws, label, trees, hand>>
  BY DEF RunningCheck, herdrVars
<1>2. GiveUpItem(p) \/ \E pc \in {"remove", "stop", "again", "lock"} : Goto(p, pc)
  BY DEF RunningCheck
<1>3. /\ proc' \in [Procs -> Process] /\ ProcOK(p)'
      /\ \A q \in Procs \ {p} : proc'[q] = proc[q]
  BY <1>0, <1>1, <1>2, ReclaimMoves
<1>4. TypeOK'
  BY <1>0, <1>1, <1>3, ConstantsAssumption DEF TypeOK, RunningCheck
<1>5. Frame(p)
  BY <1>1, <1>3 DEF Frame, WorkspacesAge
<1>6. StoresOK'
  BY <1>0, <1>1, <1>5, StoresKept
<1> QED BY <1>3, <1>4, <1>5, <1>6, StepKeepsIInv

LEMMA FirstRemoveKeeps ==
  ASSUME IInv, NEW p \in Procs, FirstRemove(p)
  PROVE  IInv'
<1>0. /\ TypeOK /\ proc[p] \in Process /\ ProcOK(p) /\ StoresOK
  BY DEF IInv, TypeOK
<1>1. /\ proc[p].pc \in {"check", "remove", "stop", "again"}
      /\ UNCHANGED <<table, lock, ws, label, trees, hand>>
  BY DEF FirstRemove, herdrVars
<1>2. GiveUpItem(p) \/ \E pc \in {"remove", "stop", "again", "lock"} : Goto(p, pc)
  BY DEF FirstRemove
<1>3. /\ proc' \in [Procs -> Process] /\ ProcOK(p)'
      /\ \A q \in Procs \ {p} : proc'[q] = proc[q]
  BY <1>0, <1>1, <1>2, ReclaimMoves
<1>4. TypeOK'
  <2>1. proc[p].item \in Binding
    BY <1>0, <1>1 DEF ProcOK, Holding
  <2>2. box' \in [Handles -> {"none", "running", "stopped"}]
    BY <1>0, <2>1 DEF TypeOK, FirstRemove, RemoveSandbox
  <2> QED BY <1>0, <1>1, <1>3, <2>2 DEF TypeOK, FirstRemove
<1>5. Frame(p)
  BY <1>1, <1>3 DEF Frame, WorkspacesAge
<1>6. StoresOK'
  BY <1>0, <1>1, <1>5, StoresKept
<1> QED BY <1>3, <1>4, <1>5, <1>6, StepKeepsIInv

LEMMA StopRunningKeeps ==
  ASSUME IInv, NEW p \in Procs, StopRunning(p)
  PROVE  IInv'
<1>0. /\ TypeOK /\ proc[p] \in Process /\ ProcOK(p) /\ StoresOK
  BY DEF IInv, TypeOK
<1>1. /\ proc[p].pc \in {"check", "remove", "stop", "again"}
      /\ UNCHANGED <<table, lock, ws, label, trees, hand>>
  BY DEF StopRunning, herdrVars
<1>2. GiveUpItem(p) \/ \E pc \in {"remove", "stop", "again", "lock"} : Goto(p, pc)
  BY DEF StopRunning
<1>3. /\ proc' \in [Procs -> Process] /\ ProcOK(p)'
      /\ \A q \in Procs \ {p} : proc'[q] = proc[q]
  BY <1>0, <1>1, <1>2, ReclaimMoves
<1>4. TypeOK'
  <2>1. proc[p].item \in Binding
    BY <1>0, <1>1 DEF ProcOK, Holding
  <2>2. box' \in [Handles -> {"none", "running", "stopped"}]
    BY <1>0, <2>1 DEF TypeOK, StopRunning
  <2> QED BY <1>0, <1>1, <1>3, <2>2 DEF TypeOK, StopRunning
<1>5. Frame(p)
  BY <1>1, <1>3 DEF Frame, WorkspacesAge
<1>6. StoresOK'
  BY <1>0, <1>1, <1>5, StoresKept
<1> QED BY <1>3, <1>4, <1>5, <1>6, StepKeepsIInv

LEMMA SecondRemoveKeeps ==
  ASSUME IInv, NEW p \in Procs, SecondRemove(p)
  PROVE  IInv'
<1>0. /\ TypeOK /\ proc[p] \in Process /\ ProcOK(p) /\ StoresOK
  BY DEF IInv, TypeOK
<1>1. /\ proc[p].pc \in {"check", "remove", "stop", "again"}
      /\ UNCHANGED <<table, lock, ws, label, trees, hand>>
  BY DEF SecondRemove, herdrVars
<1>2. GiveUpItem(p) \/ \E pc \in {"remove", "stop", "again", "lock"} : Goto(p, pc)
  BY DEF SecondRemove
<1>3. /\ proc' \in [Procs -> Process] /\ ProcOK(p)'
      /\ \A q \in Procs \ {p} : proc'[q] = proc[q]
  BY <1>0, <1>1, <1>2, ReclaimMoves
<1>4. TypeOK'
  <2>1. proc[p].item \in Binding
    BY <1>0, <1>1 DEF ProcOK, Holding
  <2>2. box' \in [Handles -> {"none", "running", "stopped"}]
    BY <1>0, <2>1 DEF TypeOK, SecondRemove, RemoveSandbox
  <2> QED BY <1>0, <1>1, <1>3, <2>2 DEF TypeOK, SecondRemove
<1>5. Frame(p)
  BY <1>1, <1>3 DEF Frame, WorkspacesAge
<1>6. StoresOK'
  BY <1>0, <1>1, <1>5, StoresKept
<1> QED BY <1>3, <1>4, <1>5, <1>6, StepKeepsIInv

LEMMA ReclaimFailsKeeps ==
  ASSUME IInv, NEW p \in Procs, ReclaimFails(p)
  PROVE  IInv'
<1>0. /\ TypeOK /\ proc[p] \in Process /\ ProcOK(p) /\ StoresOK
  BY DEF IInv, TypeOK
<1>1. /\ proc[p].pc \in {"check", "remove", "stop", "again"}
      /\ UNCHANGED <<table, lock, ws, label, trees, hand>>
  BY DEF ReclaimFails, herdrVars
<1>2. GiveUpItem(p) \/ \E pc \in {"remove", "stop", "again", "lock"} : Goto(p, pc)
  BY DEF ReclaimFails
<1>3. /\ proc' \in [Procs -> Process] /\ ProcOK(p)'
      /\ \A q \in Procs \ {p} : proc'[q] = proc[q]
  BY <1>0, <1>1, <1>2, ReclaimMoves
<1>4. TypeOK'
  BY <1>0, <1>1, <1>3, ConstantsAssumption DEF TypeOK, ReclaimFails, Fail
<1>5. Frame(p)
  BY <1>1, <1>3 DEF Frame, WorkspacesAge
<1>6. StoresOK'
  BY <1>0, <1>1, <1>5, StoresKept
<1> QED BY <1>3, <1>4, <1>5, <1>6, StepKeepsIInv

LEMMA CrashKeeps ==
  ASSUME IInv, NEW p \in Procs, Crash(p)
  PROVE  IInv'
<1>0. /\ TypeOK /\ proc[p] \in Process /\ ProcOK(p) /\ StoresOK
  BY DEF IInv, TypeOK
<1>1. TypeOK'
  BY <1>0, IdleType, ConstantsAssumption
  DEF TypeOK, Process, Verbs, ProcOK, Holding, Crash, Release, Return, Fail,
      herdrVars
<1>2. Frame(p)
  BY <1>0
  DEF TypeOK, Frame, WorkspacesAge, ProcOK, Process, Crash, Release, Return, Fail,
      herdrVars
<1>3. ProcOK(p)'
  BY <1>0, ConstantsAssumption
  DEF TypeOK, Process, Binding, Idle, ProcOK, StoresOK, Born, Gone, Holding,
      Reclaiming, Crash, Release, Return, Fail, herdrVars
<1>4. StoresOK'
  BY <1>0, ConstantsAssumption
  DEF TypeOK, Process, Binding, Idle, ProcOK, StoresOK, Born, Holding, Crash,
      Release, Return, Fail, herdrVars
<1> QED BY <1>1, <1>2, <1>3, <1>4, StepKeepsIInv

LEMMA SpacePruneKeeps ==
  ASSUME IInv, NEW p \in Users, SpacePrune(p)
  PROVE  IInv'
<1>0. /\ TypeOK /\ p \in Procs /\ p \notin Linked /\ proc[p] \in Process
      /\ ProcOK(p) /\ StoresOK
  BY ConstantsAssumption DEF IInv, TypeOK, Procs
<1>1. TypeOK'
  <2>1. PICK listed \in SUBSET table, kill \in BOOLEAN :
          proc' = [proc EXCEPT ![p] = [Idle EXCEPT !.pc = "live", !.kill = kill,
                                                   !.todo = listed]]
    BY DEF SpacePrune
  <2>2. [Idle EXCEPT !.pc = "live", !.kill = kill, !.todo = listed] \in Process
    BY <1>0, IdleType DEF TypeOK, Process
  <2>3. proc' \in [Procs -> Process]
    BY <1>0, <2>1, <2>2 DEF TypeOK
  <2> QED BY <1>0, <2>3 DEF TypeOK, SpacePrune, herdrVars
<1>2. Frame(p)
  BY <1>0 DEF TypeOK, Frame, WorkspacesAge, ProcOK, Process, SpacePrune, herdrVars
<1>3. ProcOK(p)'
  BY <1>0, ConstantsAssumption
  DEF TypeOK, Process, Binding, Idle, ProcOK, StoresOK, Born, Gone, Holding,
      Reclaiming, SpacePrune, herdrVars
<1>4. StoresOK'
  BY <1>0, <1>2, StoresKept DEF SpacePrune
<1> QED BY <1>0, <1>1, <1>2, <1>3, <1>4, StepKeepsIInv

LEMMA SpaceConvertKeeps ==
  ASSUME IInv, NEW p \in Users, NEW w \in Linked, SpaceConvert(p, w)
  PROVE  IInv'
<1>0. /\ TypeOK /\ p \in Procs /\ p \notin Linked /\ proc[p] \in Process
      /\ ProcOK(p) /\ StoresOK
  BY ConstantsAssumption DEF IInv, TypeOK, Procs
<1>1. PICK h \in NamesOf[w] :
        proc' = [proc EXCEPT ![p] = [Idle EXCEPT !.pc = "create", !.verb = "convert",
                   !.item = Conversion(Named(label[w], h), w, h)]]
  BY DEF SpaceConvert, Begin
<1>2. Conversion(Named(label[w], h), w, h) \in Binding
  BY <1>0, ConstantsAssumption DEF TypeOK, Named, Conversion, Binding, Workspaces
<1>3. Conversion(Named(label[w], h), w, h).ws = w
  BY DEF Conversion
<1> DEFINE b == Conversion(Named(label[w], h), w, h)
           next == [Idle EXCEPT !.pc = "create", !.verb = "convert", !.item = b]
<1>4. /\ next \in Process /\ next.pc = "create" /\ next.item = b
      /\ next.todo = {} /\ next.verb = "convert"
  BY <1>2, IdleType DEF Process, Verbs, Idle
<1> HIDE DEF next, b
<1>5. proc' = [proc EXCEPT ![p] = next] /\ b \in Binding /\ b.ws = w
  BY <1>1, <1>2, <1>3 DEF next, b
<1>6. TypeOK'
  BY <1>0, <1>4, <1>5 DEF TypeOK, SpaceConvert, herdrVars
<1>7. Frame(p)
  BY <1>0, <1>5 DEF TypeOK, Frame, WorkspacesAge, SpaceConvert, herdrVars
<1>8. ProcOK(p)' /\ StoresOK'
  BY <1>0, <1>4, <1>5, ConstantsAssumption
  DEF TypeOK, ProcOK, StoresOK, Born, Holding, Reclaiming, SpaceConvert, herdrVars
<1> QED BY <1>0, <1>6, <1>7, <1>8, StepKeepsIInv

LEMMA SpaceCreateKeeps ==
  ASSUME IInv, NEW p \in Users, NEW w \in Spaces, SpaceCreate(p, w)
  PROVE  IInv'
<1>0. /\ TypeOK /\ p \in Procs /\ p \notin Linked /\ proc[p] \in Process
      /\ ProcOK(p) /\ StoresOK
  BY ConstantsAssumption DEF IInv, TypeOK, Procs
<1>1. PICK h \in Handles :
        /\ label' = [label EXCEPT ![w] = MsbLabel[h]]
        /\ Begin(p, "space-create", "lock",
                 [label |-> MsbLabel[h], ws |-> w, handle |-> h, path |-> NoPath])
  BY DEF SpaceCreate
<1> DEFINE b == [label |-> MsbLabel[h], ws |-> w, handle |-> h, path |-> NoPath]
           next == [Idle EXCEPT !.pc = "lock", !.verb = "space-create", !.item = b]
<1>2. b \in Binding /\ b.ws = w /\ MsbLabel[h] \in Labels
  BY ConstantsAssumption DEF Binding, Workspaces
<1>3. /\ next \in Process /\ next.pc = "lock" /\ next.item = b
      /\ next.todo = {} /\ next.verb = "space-create"
  BY <1>2, IdleType DEF Process, Verbs, Idle
<1>4. proc' = [proc EXCEPT ![p] = next]
  BY <1>1 DEF Begin
<1> HIDE DEF next, b
<1>5. w \in Workspaces /\ ws' = [ws EXCEPT ![w] = "open"] /\ ws[w] = "unborn"
  BY DEF SpaceCreate, Workspaces
<1>6. TypeOK'
  BY <1>0, <1>1, <1>2, <1>3, <1>4, <1>5 DEF TypeOK, SpaceCreate
<1>7. Frame(p)
  BY <1>0, <1>4, <1>5 DEF TypeOK, Frame, WorkspacesAge, SpaceCreate
<1>8. ProcOK(p)'
  BY <1>0, <1>2, <1>3, <1>4, <1>5, ConstantsAssumption
  DEF TypeOK, ProcOK, Born, Holding, Reclaiming
<1>9. StoresOK'
  BY <1>0, <1>2, <1>4, <1>5, ConstantsAssumption
  DEF TypeOK, StoresOK, Born, Binding, SpaceCreate
<1> QED BY <1>0, <1>6, <1>7, <1>8, <1>9, StepKeepsIInv

LEMMA RMKeeps ==
  ASSUME IInv, NEW p \in Users, NEW h \in Handles, RM(p, h)
  PROVE  IInv'
<1>0. /\ TypeOK /\ p \in Procs /\ p \notin Linked /\ proc[p] \in Process
      /\ ProcOK(p) /\ StoresOK
  BY ConstantsAssumption DEF IInv, TypeOK, Procs
<1> DEFINE next == [Idle EXCEPT !.pc = "cleanup", !.verb = "rm", !.handle = h]
<1>1. /\ next \in Process /\ next.pc = "cleanup" /\ next.item = None
      /\ next.todo = {} /\ next.verb = "rm"
  BY IdleType DEF Process, Verbs, Idle
<1>2. proc' = [proc EXCEPT ![p] = next]
  BY DEF RM
<1> HIDE DEF next
<1>3. TypeOK'
  BY <1>0, <1>1, <1>2 DEF TypeOK, RM, RemoveSandbox, herdrVars
<1>4. Frame(p)
  BY <1>0, <1>2 DEF TypeOK, Frame, WorkspacesAge, RM, herdrVars
<1>5. ProcOK(p)' /\ StoresOK'
  BY <1>0, <1>1, <1>2, ConstantsAssumption
  DEF TypeOK, ProcOK, StoresOK, Born, Holding, Reclaiming, RM, herdrVars
<1> QED BY <1>0, <1>3, <1>4, <1>5, StepKeepsIInv

LEMMA HookPrunesKeeps ==
  ASSUME IInv, NEW w \in Linked, HookPrunes(w)
  PROVE  IInv'
<1>0. /\ TypeOK /\ w \in Procs /\ proc[w] \in Process /\ ProcOK(w) /\ StoresOK
  BY DEF IInv, TypeOK, Procs
<1>1. TypeOK'
  BY <1>0 DEF TypeOK, Process, HookPrunes, herdrVars
<1>2. Frame(w)
  BY <1>0 DEF TypeOK, Frame, WorkspacesAge, HookPrunes, herdrVars
<1>3. ProcOK(w)' /\ StoresOK'
  BY <1>0, ConstantsAssumption
  DEF TypeOK, Process, ProcOK, StoresOK, Born, Holding, Reclaiming, HookPrunes,
      herdrVars
<1> QED BY <1>0, <1>1, <1>2, <1>3, StepKeepsIInv

(* herdr runs the hook of w once.                                           *)
LEMMA WorktreeRemoveKeeps ==
  ASSUME IInv, NEW w \in Linked, WorktreeRemove(w)
  PROVE  IInv'
<1>0. /\ TypeOK /\ w \in Procs /\ proc[w] \in Process /\ ProcOK(w) /\ StoresOK
  BY DEF IInv, TypeOK, Procs
<1>1. TypeOK'
  BY <1>0, IdleType DEF TypeOK, Process, WorktreeRemove, Workspaces
<1>2. Frame(w)
  BY <1>0 DEF TypeOK, Frame, WorkspacesAge, WorktreeRemove
<1> DEFINE next == [Idle EXCEPT !.pc = "list", !.kill = TRUE]
<1>3. /\ next.pc = "list" /\ next.verb = "prune" /\ next.item = None /\ next.todo = {}
      /\ proc' = [proc EXCEPT ![w] = next] /\ ws' = [ws EXCEPT ![w] = "closed"]
      /\ UNCHANGED <<table, lock>> /\ ws[w] = "open" /\ w \in Workspaces
  BY DEF Idle, WorktreeRemove, Workspaces
<1> HIDE DEF next
<1>4. proc[w].pc = "idle" /\ lock # w
  BY <1>0, <1>3, ConstantsAssumption DEF ProcOK, StoresOK, Procs
<1>5. ProcOK(w)'
  BY <1>0, <1>3 DEF TypeOK, ProcOK, Holding, Reclaiming
<1>6. StoresOK'
  BY <1>0, <1>3, <1>4 DEF TypeOK, StoresOK, Born, Binding
<1> QED BY <1>0, <1>1, <1>2, <1>5, <1>6, StepKeepsIInv

(* The steps of herdr and of its users, and create, start and stop by hand. *)
LEMMA WorktreeCreateKeeps ==
  ASSUME IInv, NEW w \in Linked, WorktreeCreate(w)
  PROVE  IInv'
<1>1. TypeOK
  BY DEF IInv
<1>2. TypeOK' /\ UNCHANGED <<table, lock, proc>> /\ WorkspacesAge
  BY <1>1, ConstantsAssumption
  DEF TypeOK, WorkspacesAge, Workspaces, WorktreeCreate, herdrVars
<1> QED BY <1>2, OutsideKeepsIInv

LEMMA WorkspaceCloseKeeps ==
  ASSUME IInv, NEW w \in Workspaces, WorkspaceClose(w)
  PROVE  IInv'
<1>1. TypeOK
  BY DEF IInv
<1>2. TypeOK' /\ UNCHANGED <<table, lock, proc>> /\ WorkspacesAge
  BY <1>1, ConstantsAssumption
  DEF TypeOK, WorkspacesAge, Workspaces, WorkspaceClose, herdrVars
<1> QED BY <1>2, OutsideKeepsIInv

LEMMA CheckoutVanishesKeeps ==
  ASSUME IInv, NEW t \in Paths, CheckoutVanishes(t)
  PROVE  IInv'
<1>1. TypeOK
  BY DEF IInv
<1>2. TypeOK' /\ UNCHANGED <<table, lock, proc>> /\ WorkspacesAge
  BY <1>1, ConstantsAssumption
  DEF TypeOK, WorkspacesAge, Workspaces, CheckoutVanishes, herdrVars
<1> QED BY <1>2, OutsideKeepsIInv

LEMMA CreateKeeps ==
  ASSUME IInv, NEW h \in Handles, Create(h)
  PROVE  IInv'
<1>1. TypeOK
  BY DEF IInv
<1>2. TypeOK' /\ UNCHANGED <<table, lock, proc>> /\ WorkspacesAge
  BY <1>1, ConstantsAssumption
  DEF TypeOK, WorkspacesAge, Workspaces, Create, herdrVars
<1> QED BY <1>2, OutsideKeepsIInv

LEMMA StartKeeps ==
  ASSUME IInv, NEW h \in Handles, Start(h)
  PROVE  IInv'
<1>1. TypeOK
  BY DEF IInv
<1>2. TypeOK' /\ UNCHANGED <<table, lock, proc>> /\ WorkspacesAge
  BY <1>1, ConstantsAssumption
  DEF TypeOK, WorkspacesAge, Workspaces, Start, herdrVars
<1> QED BY <1>2, OutsideKeepsIInv

LEMMA StopKeeps ==
  ASSUME IInv, NEW h \in Handles, Stop(h)
  PROVE  IInv'
<1>1. TypeOK
  BY DEF IInv
<1>2. TypeOK' /\ UNCHANGED <<table, lock, proc>> /\ WorkspacesAge
  BY <1>1, ConstantsAssumption
  DEF TypeOK, WorkspacesAge, Workspaces, Stop, herdrVars
<1> QED BY <1>2, OutsideKeepsIInv

LEMMA StutterKeeps == IInv /\ UNCHANGED vars => IInv'
<1> SUFFICES ASSUME IInv, UNCHANGED vars PROVE IInv'
  OBVIOUS
<1>1. TypeOK'
  BY DEF IInv, TypeOK, vars, herdrVars
<1>2. WorkspacesAge
  BY DEF WorkspacesAge, vars, herdrVars
<1> QED BY <1>1, <1>2, OutsideKeepsIInv DEF vars

LEMMA NextKeepsIInv == IInv /\ [Next]_vars => IInv'
<1> SUFFICES ASSUME IInv, [Next]_vars PROVE IInv'
  OBVIOUS
<1>1. CASE Herdr
  BY <1>1, WorktreeCreateKeeps, WorktreeRemoveKeeps, WorkspaceCloseKeeps,
     CheckoutVanishesKeeps DEF Herdr
<1>2. CASE ByHand
  BY <1>2, CreateKeeps, StartKeeps, StopKeeps DEF ByHand
<1>3. CASE \E u \in Users : Command(u)
  BY <1>3, SpaceConvertKeeps, SpaceCreateKeeps, RMKeeps, SpacePruneKeeps DEF Command
<1>4. CASE \E w \in Linked : HookPrunes(w)
  BY <1>4, HookPrunesKeeps
<1>5. ASSUME NEW p \in Procs, Step(p) PROVE IInv'
  BY <1>5, WriteKeeps, ConvertCreatesSandboxKeeps, ConvertRefusedKeeps,
     UndoConvertKeeps, UndoSpaceCreateKeeps, SpaceCleanupKeeps, RMClosesKeeps,
     ListWorkspacesKeeps, KeepKeeps, ReclaimKeeps, RunningCheckKeeps,
     FirstRemoveKeeps, StopRunningKeeps, SecondRemoveKeeps DEF Step
<1>6. CASE \E p \in Procs : \/ LockAndRead(p) \/ Step(p)
                           \/ StoreFails(p) \/ ReclaimFails(p) \/ Crash(p)
  BY <1>5, <1>6, LockAndReadKeeps, StoreFailsKeeps, ReclaimFailsKeeps, CrashKeeps
<1> QED BY <1>1, <1>2, <1>3, <1>4, <1>6, StutterKeeps DEF Next

LEMMA InductiveInvariant == Spec => []IInv
BY InitIInv, NextKeepsIInv, PTL DEF Spec

(* Every variable keeps its type.                                           *)
THEOREM TypeCorrect == Spec => []TypeOK
<1>1. IInv => TypeOK
  BY DEF IInv
<1> QED BY <1>1, InductiveInvariant, PTL

-----------------------------------------------------------------------------
(* What every step but Write leaves alone.                                  *)
LEMMA OnlyWriteChangesTheTable ==
  ASSUME [Next]_vars, \A p \in Procs : ~Write(p)
  PROVE  table' = table
<1>1. CASE Herdr
  BY <1>1
  DEF Herdr, WorktreeCreate, WorktreeRemove, WorkspaceClose, CheckoutVanishes
<1>2. CASE ByHand
  BY <1>2 DEF ByHand, Create, Start, Stop
<1>3. CASE \E u \in Users : Command(u)
  BY <1>3 DEF Command, SpaceConvert, SpaceCreate, RM, SpacePrune
<1>4. CASE \E w \in Linked : HookPrunes(w)
  BY <1>4 DEF HookPrunes
<1>5. ASSUME NEW p \in Procs, Step(p) PROVE table' = table
  BY <1>5
  DEF Step, ConvertCreatesSandbox, ConvertRefused, UndoConvert, UndoSpaceCreate,
     CloseItsWorkspace, SpaceCleanup, RMCloses, ListWorkspaces, Keep, Reclaim,
     RunningCheck, FirstRemove, StopRunning, SecondRemove
<1>6. CASE \E p \in Procs : \/ LockAndRead(p) \/ Step(p)
                           \/ StoreFails(p) \/ ReclaimFails(p) \/ Crash(p)
  BY <1>5, <1>6 DEF LockAndRead, StoreFails, ReclaimFails, Crash
<1>7. CASE UNCHANGED vars
  BY <1>7 DEF vars
<1> QED BY <1>1, <1>2, <1>3, <1>4, <1>6, <1>7 DEF Next

(* No Put and no Delete is lost: the copy a command writes back is the file *)
(* with its own change, because it holds the lock since it read it.         *)
THEOREM Implements == Spec => ImplementsTable
<1>1. Init => Table!Init
  BY DEF Init, Table!Init
<1>2. ASSUME IInv, [Next]_vars PROVE [Table!Next]_table
  <2>1. CASE \A p \in Procs : ~Write(p)
    BY <1>2, <2>1, OnlyWriteChangesTheTable
  <2>2. ASSUME NEW p \in Procs, Write(p) PROVE [Table!Next]_table
    <3>1. proc[p].copy = table /\ proc[p].item \in Binding
      BY <1>2, <2>2 DEF IInv, ProcOK, Holding, Write
    <3>2. \/ table' = Stored(table, proc[p].item)
          \/ table' = Removed(table, proc[p].item.label)
      BY <2>2, <3>1 DEF Write
    <3> QED BY <3>1, <3>2 DEF Stored, Removed, Table!Next, Table!Put, Table!Delete,
                             Table!Stored, Table!Removed
  <2> QED BY <2>1, <2>2
<1>3. Table!Init /\ [][Table!Next]_table => ImplementsTable
  BY PTL DEF ImplementsTable, Table!Spec
<1> QED BY <1>1, <1>2, <1>3, InductiveInvariant, PTL DEF Spec

-----------------------------------------------------------------------------
(* One step of a started command p.                                         *)
Moves(p) == \/ LockAndRead(p) \/ Step(p)
            \/ StoreFails(p) \/ ReclaimFails(p) \/ Crash(p)

LEMMA MovesAlone ==
  ASSUME proc \in [Procs -> Process], NEW p \in Procs, Moves(p), NEW q \in Procs \ {p}
  PROVE  proc'[q] = proc[q]
<1>1. \A todo : NextItem(p, todo) => proc'[q] = proc[q]
  BY DEF NextItem
<1>2. \A pc : Goto(p, pc) => proc'[q] = proc[q]
  BY DEF Goto
<1>3. Return(p) => proc'[q] = proc[q]
  BY DEF Return
<1>4. AfterStore(p) \/ AfterStoreFailed(p) => proc'[q] = proc[q]
  BY <1>1, <1>3 DEF AfterStore, AfterStoreFailed
<1>5. Step(p) => proc'[q] = proc[q]
  BY <1>1, <1>2, <1>3, <1>4
  DEF Step, Write, ConvertCreatesSandbox, ConvertRefused, UndoConvert,
      UndoSpaceCreate,
      CloseItsWorkspace, SpaceCleanup, RMCloses, ListWorkspaces, Keep, Reclaim,
      RunningCheck, FirstRemove, StopRunning, SecondRemove, GiveUpItem
<1> QED BY <1>1, <1>2, <1>3, <1>4, <1>5
        DEF Moves, LockAndRead, StoreFails, ReclaimFails, Crash, GiveUpItem

(* A step of prune that takes the sandbox or the record of the binding it   *)
(* judged: it is in the middle of reclaiming it.                            *)
LEMMA TakesWhileReclaiming ==
  ASSUME IInv, [Next]_vars, NEW p \in Procs, Takes(p)
  PROVE  proc[p].pc \in Reclaiming
<1>1. /\ proc[p].verb = "prune" /\ proc[p].item \in Binding /\ proc'[p] # proc[p]
      /\ table' # table \/ box' # box
      /\ proc[p].pc # "idle" /\ proc \in [Procs -> Process]
  BY ConstantsAssumption DEF Takes, IInv, TypeOK, ProcOK
<1>2. CASE Herdr
  BY <1>1, <1>2 DEF Herdr, WorktreeCreate, WorktreeRemove, WorkspaceClose,
     CheckoutVanishes
<1>3. CASE ByHand
  BY <1>1, <1>3 DEF ByHand, Create, Start, Stop
<1>4. ASSUME NEW u \in Users, Command(u) PROVE FALSE
  BY <1>1, <1>4
  DEF Command, SpaceConvert, SpaceCreate, RM, SpacePrune, Begin, Procs
<1>5. CASE \E w \in Linked : HookPrunes(w)
  BY <1>1, <1>5 DEF HookPrunes
<1>6. ASSUME NEW q \in Procs, Moves(q) PROVE proc[p].pc \in Reclaiming
  <2>1. proc'[p] = proc[p] \/ q = p
    BY <1>1, <1>6, MovesAlone
  <2>2. ASSUME q = p PROVE proc[p].pc \in Reclaiming
    BY <1>1, <1>6, <2>2
    DEF Moves, Step, At, LockAndRead, Write, StoreFails, ConvertCreatesSandbox,
        ConvertRefused,
        UndoConvert, UndoSpaceCreate, CloseItsWorkspace, SpaceCleanup, RMCloses,
        ListWorkspaces, Keep, Reclaim, RunningCheck, FirstRemove, StopRunning,
        SecondRemove, ReclaimFails, Crash, Reclaiming
  <2> QED BY <1>1, <2>1, <2>2
<1>7. CASE UNCHANGED vars
  BY <1>1, <1>7 DEF vars
<1> QED BY <1>2, <1>3, <1>4, <1>5, <1>6, <1>7 DEF Next, Moves

(* prune neither stops or removes the sandbox of an open workspace that it  *)
(* judged gone nor deletes its record: that a workspace is gone is the one  *)
(* thing prune reads that cannot become false.                              *)
THEOREM PruneTakesOnlyTheGone == Spec => PruneSparesTheOpen
<1>1. ASSUME IInv, [Next]_vars, NEW p \in Procs, Takes(p)
      PROVE  ws[proc[p].item.ws] = "closed"
  BY <1>1, TakesWhileReclaiming DEF Takes, IInv, ProcOK, Gone
<1>2. IInv /\ [Next]_vars =>
        [\A p \in Procs : Takes(p) => ws[proc[p].item.ws] = "closed"]_vars
  BY <1>1
<1> QED BY <1>2, InductiveInvariant, PTL DEF Spec, PruneSparesTheOpen

(* prune goes on to delete a record only from a step that left no sandbox   *)
(* under its handle.                                                        *)
THEOREM RecordsAreDeletedLast == Spec => RecordOutlivesSandbox
<1> DEFINE Locks(p) == At(p, "prune", "lock")' /\ ~At(p, "prune", "lock")
<1>1. ASSUME IInv, [Next]_vars, NEW p \in Procs, Locks(p)
      PROVE  box'[proc'[p].item.handle] = "none"
  <2>1. /\ TypeOK /\ proc \in [Procs -> Process] /\ ProcOK(p)
        /\ proc[p] \in Process /\ proc[p].todo \in SUBSET Binding
    BY <1>1 DEF IInv, TypeOK, Process
  <2>2. /\ proc'[p].pc = "lock" /\ proc'[p].verb = "prune" /\ proc'[p] # proc[p]
        /\ ~(proc[p].pc = "lock" /\ proc[p].verb = "prune")
    BY <1>1 DEF At
  <2>3. Idle.pc = "idle" /\ Idle.verb = "prune"
    BY DEF Idle
  <2>4. ~Herdr
    <3>1. \A w \in Linked : ~WorktreeRemove(w)
      BY <2>1, <2>2 DEF WorktreeRemove, Procs, Idle
    <3>2. /\ \A w \in Linked : ~WorktreeCreate(w)
          /\ \A w \in Workspaces : ~WorkspaceClose(w)
          /\ \A t \in Paths : ~CheckoutVanishes(t)
      BY <2>2 DEF WorktreeCreate, WorkspaceClose, CheckoutVanishes
    <3> QED BY <3>1, <3>2 DEF Herdr
  <2>5. ~ByHand
    BY <2>2 DEF ByHand, Create, Start, Stop
  <2>6. \A u \in Users : ~Command(u)
    <3>1. \A x, b, verb, pc :
            Begin(x, verb, pc, b) /\ x = p => proc'[p].verb = verb
      BY <2>1 DEF Begin, Idle
    <3>2. \A x, b, verb, pc :
            Begin(x, verb, pc, b) /\ x # p => proc'[p] = proc[p]
      BY <2>1 DEF Begin
    <3>3. \A x, b, verb, pc : Begin(x, verb, pc, b) => verb = "prune"
      BY <2>2, <3>1, <3>2
    <3>4. /\ \A u \in Users, w \in Linked : ~SpaceConvert(u, w)
          /\ \A u \in Users, w \in Spaces : ~SpaceCreate(u, w)
      BY <3>3 DEF SpaceConvert, SpaceCreate
    <3>5. \A u \in Users, h \in Handles : ~RM(u, h)
      BY <2>1, <2>2 DEF RM, Procs, Idle
    <3>6. \A u \in Users : ~SpacePrune(u)
      BY <2>1, <2>2 DEF SpacePrune, Procs, Idle
    <3> QED BY <3>4, <3>5, <3>6 DEF Command
  <2>7. \A w \in Linked : ~HookPrunes(w)
    BY <2>1, <2>2 DEF HookPrunes, Procs, Process
  <2>8. ~UNCHANGED vars
    BY <2>2 DEF vars
  <2>9. Moves(p)
    BY <1>1, <2>1, <2>2, <2>4, <2>5, <2>6, <2>7, <2>8, MovesAlone DEF Next, Moves
  <2>10. /\ \A todo \in SUBSET Binding : ~NextItem(p, todo)
         /\ ~Return(p)
    BY <2>1, <2>2, <2>3, NextItemState DEF Return
  <2>11. FirstRemove(p) \/ SecondRemove(p)
    <3>1. ~AfterStore(p) /\ ~AfterStoreFailed(p) /\ ~GiveUpItem(p)
      BY <2>1, <2>2, <2>10 DEF AfterStore, AfterStoreFailed, GiveUpItem, Process
    <3>2. ~(Write(p) \/ StoreFails(p))
      BY <3>1 DEF Write, StoreFails
    <3>3. ~(ConvertRefused(p) \/ UndoConvert(p) \/ UndoSpaceCreate(p) \/ RMCloses(p)
            \/ Crash(p))
      BY <2>10 DEF ConvertRefused, UndoConvert, UndoSpaceCreate, RMCloses,
         CloseItsWorkspace, Crash
    <3>4. ~(ListWorkspaces(p) \/ Keep(p))
      BY <2>1, <2>10 DEF ListWorkspaces, Keep
    <3>5. ~(LockAndRead(p) \/ ConvertCreatesSandbox(p) \/ SpaceCleanup(p)
            \/ Reclaim(p))
      <4>1. ~LockAndRead(p)
        <5>1. [proc[p] EXCEPT !.pc = "write", !.copy = table].pc = "write"
          BY <2>1 DEF Process
        <5> QED BY <2>1, <2>2, <5>1 DEF LockAndRead
      <4>2. ~Reclaim(p)
        <5>1. ASSUME NEW b \in proc[p].todo
              PROVE  [proc[p] EXCEPT !.todo = @ \ {b}, !.item = b, !.pc = "check"].pc
                       = "check"
          BY <2>1 DEF Process
        <5> QED BY <2>1, <2>2, <5>1 DEF Reclaim
      <4>3. ~ConvertCreatesSandbox(p)
        BY <2>1, <2>2 DEF ConvertCreatesSandbox, At, Goto, Process
      <4>4. ~SpaceCleanup(p)
        BY <2>1, <2>2, <2>10 DEF SpaceCleanup, At, Process
      <4> QED BY <4>1, <4>2, <4>3, <4>4
    <3>6. ~(RunningCheck(p) \/ StopRunning(p) \/ ReclaimFails(p))
      BY <2>1, <2>2, <3>1 DEF RunningCheck, StopRunning, ReclaimFails, Goto, Process
    <3> QED BY <2>9, <3>2, <3>3, <3>4, <3>5, <3>6 DEF Moves, Step
  <2>12. /\ proc'[p].item = proc[p].item
         /\ proc[p].item \in Binding
    BY <2>1, <2>10, <2>11
    DEF FirstRemove, SecondRemove, Goto, GiveUpItem, ProcOK, Holding, Process
  <2>13. /\ RemoveSandbox(proc[p].item.handle)
         /\ box[proc[p].item.handle] # "running"
    BY <2>1, <2>2, <2>10, <2>11
    DEF FirstRemove, SecondRemove, Goto, GiveUpItem, Process
  <2> QED BY <2>1, <2>12, <2>13 DEF RemoveSandbox, TypeOK, Binding
<1>2. IInv /\ [Next]_vars =>
        [\A p \in Procs : Locks(p) => box'[proc'[p].item.handle] = "none"]_vars
  BY <1>1
<1> QED BY <1>2, InductiveInvariant, PTL DEF Spec, RecordOutlivesSandbox

-----------------------------------------------------------------------------
(* OneToOne needs that herdr gives every linked workspace a label: then a   *)
(* binding carries the label of its workspace, and the label that Put       *)
(* compares stands for the workspace, which it does not compare.            *)
AllLabelled == \A w \in Linked : LabelOf[w] # None

Puts(p) ==
  proc[p].verb \in {"convert", "space-create"} /\ proc[p].pc \in {"create", "lock", "write"}

Labelled(b) == label[b.ws] = b.label

LabelsOK ==
  /\ \A w \in Linked : ws[w] # "unborn" => label[w] = LabelOf[w]
  /\ \A b \in table : Labelled(b)
  /\ \A p \in Procs : Puts(p) => Labelled(proc[p].item)
  /\ \A b, c \in table : b.label = c.label \/ b.handle = c.handle => b = c

LabelsStay ==
  /\ \A w \in Workspaces : ws[w] # "unborn" => label'[w] = label[w]
  /\ \A w \in Linked : ws'[w] # "unborn" => ws[w] # "unborn" \/ label'[w] = LabelOf[w]

LEMMA NextLabelsStay == IInv /\ [Next]_vars => LabelsStay
<1> SUFFICES ASSUME IInv, [Next]_vars PROVE LabelsStay
  OBVIOUS
<1>0. /\ TypeOK /\ Linked \subseteq Workspaces /\ Spaces \subseteq Workspaces
      /\ Linked \cap Spaces = {}
  BY ConstantsAssumption DEF IInv, Workspaces
<1> DEFINE Same == label' = label /\ \A w \in Linked : ws'[w] # "unborn" => ws[w] # "unborn"
<1>1. Same => LabelsStay
  BY DEF LabelsStay
<1>2. ASSUME NEW w \in Linked, WorktreeCreate(w) PROVE LabelsStay
  BY <1>0, <1>2 DEF TypeOK, WorktreeCreate, LabelsStay
<1>3. ASSUME NEW p \in Users, NEW w \in Spaces, SpaceCreate(p, w) PROVE LabelsStay
  BY <1>0, <1>3 DEF TypeOK, SpaceCreate, LabelsStay
<1>4. CASE \E w \in Linked : WorktreeRemove(w)
  BY <1>0, <1>4, <1>1 DEF TypeOK, WorktreeRemove
<1>5. CASE \E w \in Workspaces : WorkspaceClose(w)
  BY <1>0, <1>5, <1>1 DEF TypeOK, WorkspaceClose
<1>6. CASE \E t \in Paths : CheckoutVanishes(t)
  BY <1>6, <1>1 DEF CheckoutVanishes
<1>7. CASE ByHand
  BY <1>7, <1>1 DEF ByHand, Create, Start, Stop, herdrVars
<1>8. ASSUME NEW p \in Procs, CloseItsWorkspace(p), Born(proc[p].item)
      PROVE  LabelsStay
  BY <1>0, <1>8, <1>1 DEF TypeOK, CloseItsWorkspace, Born
<1>9. ASSUME NEW p \in Procs, UndoSpaceCreate(p) \/ RMCloses(p) PROVE LabelsStay
  <2>1. ProcOK(p) /\ proc[p].item # None
    BY <1>9, ConstantsAssumption
    DEF IInv, ProcOK, Holding, UndoSpaceCreate, RMCloses, At
  <2> QED BY <1>8, <1>9, <2>1 DEF ProcOK, UndoSpaceCreate, RMCloses
<1>10. ASSUME NEW p \in Procs, Moves(p)
       PROVE LabelsStay
  BY <1>1, <1>9, <1>10
  DEF Moves, Step, LockAndRead, Write, StoreFails, ConvertCreatesSandbox, ConvertRefused,
      UndoConvert, SpaceCleanup, ListWorkspaces, Keep, Reclaim, RunningCheck,
      FirstRemove, StopRunning, SecondRemove, ReclaimFails, Crash, herdrVars
<1>11. ASSUME NEW p \in Users, Command(p) PROVE LabelsStay
  BY <1>1, <1>3, <1>11 DEF Command, SpaceConvert, RM, SpacePrune, herdrVars
<1>12. CASE \E w \in Linked : HookPrunes(w)
  BY <1>1, <1>12 DEF HookPrunes, herdrVars
<1>13. CASE UNCHANGED vars
  BY <1>1, <1>13 DEF vars, herdrVars
<1> QED BY <1>2, <1>4, <1>5, <1>6, <1>7, <1>10, <1>11, <1>12, <1>13 DEF Next, Herdr, Moves

(* A command that is to Put was to Put the same binding before, or starts   *)
(* with one that carries the label of its workspace.                        *)
LEMMA PutsItsLabel ==
  ASSUME IInv, LabelsOK, AllLabelled, [Next]_vars, NEW p \in Procs, Puts(p)'
  PROVE  \/ Puts(p) /\ proc'[p].item = proc[p].item
         \/ proc'[p].item.ws \in Workspaces /\ label'[proc'[p].item.ws] = proc'[p].item.label
<1>1. /\ TypeOK /\ proc \in [Procs -> Process] /\ proc[p] \in Process
      /\ proc[p].todo \in SUBSET Binding
  BY DEF IInv, TypeOK, Process
<1>2. Idle.pc = "idle" /\ Idle.verb = "prune"
  BY DEF Idle
<1>3. /\ proc'[p].verb \in {"convert", "space-create"}
      /\ proc'[p].pc \in {"create", "lock", "write"}
  BY DEF Puts
<1>4. CASE proc'[p] = proc[p]
  BY <1>4 DEF Puts
<1>5. CASE Herdr
  BY <1>1, <1>3, <1>4, <1>5
  DEF Herdr, WorktreeCreate, WorktreeRemove, WorkspaceClose,
     CheckoutVanishes, Procs, Idle
<1>6. CASE ByHand
  BY <1>4, <1>6 DEF ByHand, Create, Start, Stop
<1>7. ASSUME NEW u \in Users, NEW w \in Linked, SpaceConvert(u, w), u = p
      PROVE  /\ proc'[p].item.ws \in Workspaces
             /\ label'[proc'[p].item.ws] = proc'[p].item.label
  <2>1. PICK h \in NamesOf[w] :
          proc' = [proc EXCEPT ![p] = [Idle EXCEPT !.pc = "create", !.verb = "convert",
                     !.item = Conversion(Named(label[w], h), w, h)]]
    BY <1>7 DEF SpaceConvert, Begin
  <2>2. proc'[p].item = Conversion(Named(label[w], h), w, h)
    BY <1>1, <2>1 DEF Idle
  <2>3. label[w] # None /\ label' = label
    BY <1>7 DEF LabelsOK, AllLabelled, SpaceConvert, herdrVars
  <2>4. proc'[p].item.ws = w /\ proc'[p].item.label = label[w]
    BY <2>2, <2>3 DEF Conversion, Named
  <2> QED BY <2>3, <2>4 DEF Workspaces
<1>8. ASSUME NEW u \in Users, NEW w \in Spaces, SpaceCreate(u, w), u = p
      PROVE  /\ proc'[p].item.ws \in Workspaces
             /\ label'[proc'[p].item.ws] = proc'[p].item.label
  <2>1. PICK h \in Handles :
          /\ label' = [label EXCEPT ![w] = MsbLabel[h]]
          /\ Begin(p, "space-create", "lock",
                   [label |-> MsbLabel[h], ws |-> w, handle |-> h, path |-> NoPath])
    BY <1>8 DEF SpaceCreate
  <2> DEFINE b == [label |-> MsbLabel[h], ws |-> w, handle |-> h, path |-> NoPath]
             next == [Idle EXCEPT !.pc = "lock", !.verb = "space-create", !.item = b]
  <2>2. next.item = b /\ b.ws = w /\ b.label = MsbLabel[h]
    BY DEF Idle
  <2>3. proc' = [proc EXCEPT ![p] = next]
    BY <2>1 DEF Begin
  <2> HIDE DEF next, b
  <2>4. proc'[p].item = b
    BY <1>1, <2>2, <2>3
  <2>5. w \in Workspaces /\ label'[w] = MsbLabel[h]
    BY <1>1, <2>1 DEF TypeOK, Workspaces
  <2> QED BY <2>2, <2>4, <2>5
<1>9. ASSUME NEW u \in Users, Command(u), u # p PROVE proc'[p] = proc[p]
  <2>1. \A f : proc' = [proc EXCEPT ![u] = f] => proc'[p] = proc[p]
    BY <1>1, <1>9
  <2> QED BY <1>9, <2>1 DEF Command, SpaceConvert, SpaceCreate, RM, SpacePrune, Begin
<1>13. ASSUME Command(p)
       PROVE  \/ \E w \in Linked : SpaceConvert(p, w)
              \/ \E w \in Spaces : SpaceCreate(p, w)
  <2>1. ASSUME NEW h \in Handles, RM(p, h) PROVE FALSE
    BY <1>1, <1>3, <2>1 DEF RM, Idle
  <2>2. ASSUME SpacePrune(p) PROVE FALSE
    <3>1. \A kill, listed :
            [Idle EXCEPT !.pc = "live", !.kill = kill, !.todo = listed].pc = "live"
      BY DEF Idle
    <3> QED BY <1>1, <1>3, <2>2, <3>1 DEF SpacePrune
  <2> QED BY <1>13, <2>1, <2>2 DEF Command
<1>10. CASE \E w \in Linked : HookPrunes(w)
  BY <1>1, <1>3, <1>4, <1>10 DEF HookPrunes, Procs, Process
<1>11. ASSUME NEW q \in Procs, Moves(q)
       PROVE  \/ Puts(p) /\ proc'[p].item = proc[p].item
              \/ proc'[p] = proc[p]
  <2>1. CASE q # p
    BY <1>1, <1>11, <2>1, MovesAlone
  <2>2. CASE q = p
    <3>1. ProcOK(p) /\ ~Return(p) /\ \A todo \in SUBSET Binding : ~NextItem(p, todo)
      BY <1>1, <1>2, <1>3, NextItemState DEF IInv, Return
    <3>2. ~AfterStore(p) /\ ~AfterStoreFailed(p) /\ ~GiveUpItem(p)
      BY <1>1, <1>3, <3>1 DEF AfterStore, AfterStoreFailed, GiveUpItem, Process
    <3>3. ~(Write(p) \/ StoreFails(p))
      BY <3>2 DEF Write, StoreFails
    <3>4. ~(ConvertRefused(p) \/ UndoConvert(p) \/ UndoSpaceCreate(p) \/ RMCloses(p)
            \/ Crash(p))
      BY <3>1 DEF ConvertRefused, UndoConvert, UndoSpaceCreate, RMCloses,
         CloseItsWorkspace, Crash
    <3>5. ~(ListWorkspaces(p) \/ Keep(p))
      BY <1>1, <3>1 DEF ListWorkspaces, Keep
    <3>6. ~SpaceCleanup(p) /\ ~Reclaim(p)
      <4>1. ASSUME SpaceCleanup(p) PROVE FALSE
        <5>1. PICK b \in table : proc' = [proc EXCEPT ![p].pc = "lock", ![p].item = b]
          BY <3>1, <4>1 DEF SpaceCleanup
        <5>2. proc'[p].verb = proc[p].verb /\ proc[p].verb = "rm"
          BY <1>1, <4>1, <5>1 DEF SpaceCleanup, At, Process
        <5> QED BY <1>3, <5>2
      <4>2. ASSUME Reclaim(p) PROVE FALSE
        <5>1. PICK b \in proc[p].todo :
                proc' = [proc EXCEPT ![p].todo = @ \ {b}, ![p].item = b,
                                     ![p].pc = "check"]
          BY <4>2 DEF Reclaim
        <5>2. proc'[p].pc = "check"
          BY <1>1, <5>1 DEF Process
        <5> QED BY <1>3, <5>2
      <4> QED BY <4>1, <4>2
    <3>7. ~(RunningCheck(p) \/ FirstRemove(p) \/ StopRunning(p) \/ SecondRemove(p)
            \/ ReclaimFails(p))
      <4>1. ASSUME NEW pc, Goto(p, pc) PROVE proc'[p].verb = proc[p].verb
        BY <1>1, <4>1 DEF Goto, Process
      <4>2. proc[p].pc \in {"check", "remove", "stop", "again"}
              => \A pc : ~Goto(p, pc)
        BY <1>3, <3>1, <4>1 DEF ProcOK
      <4> QED BY <3>2, <4>2
              DEF RunningCheck, FirstRemove, StopRunning, SecondRemove, ReclaimFails
    <3>8. LockAndRead(p) \/ ConvertCreatesSandbox(p)
      BY <1>11, <2>2, <3>3, <3>4, <3>5, <3>6, <3>7 DEF Moves, Step
    <3> QED BY <1>1, <1>3, <3>8
            DEF LockAndRead, ConvertCreatesSandbox, At, Goto, Puts, Process
  <2> QED BY <2>1, <2>2
<1>12. CASE UNCHANGED vars
  BY <1>4, <1>12 DEF vars
<1> QED BY <1>4, <1>5, <1>6, <1>7, <1>8, <1>9, <1>10, <1>11, <1>12, <1>13 DEF Next, Moves

LEMMA NextLabelsOK == IInv /\ AllLabelled /\ LabelsOK /\ [Next]_vars => LabelsOK'
<1> SUFFICES ASSUME IInv, AllLabelled, LabelsOK, [Next]_vars PROVE LabelsOK'
  OBVIOUS
<1>1. /\ TypeOK /\ table \subseteq Binding /\ \A b \in table : Born(b) /\ b.ws \in Workspaces
      /\ LabelsStay
  BY NextLabelsStay DEF IInv, TypeOK, StoresOK, Binding
<1>2. \A w \in Linked : ws'[w] # "unborn" => label'[w] = LabelOf[w]
  BY <1>1 DEF LabelsOK, LabelsStay, Workspaces
<1>3. \A b \in Binding : Born(b) /\ Labelled(b) => Labelled(b)'
  BY <1>1 DEF LabelsStay, Labelled, Born, Binding
<1>4. ASSUME NEW p \in Procs, Puts(p)
      PROVE  proc[p].item \in Binding /\ Born(proc[p].item) /\ Labelled(proc[p].item)
  BY <1>4, ConstantsAssumption DEF IInv, ProcOK, Holding, Puts, LabelsOK
<1>5. ASSUME NEW p \in Procs, Puts(p)' PROVE Labelled(proc[p].item)'
  BY <1>3, <1>4, <1>5, PutsItsLabel DEF Labelled
<1>6. ASSUME NEW p \in Procs, Write(p)
      PROVE  /\ \A b \in table' : Labelled(b)'
             /\ \A b, c \in table' : b.label = c.label \/ b.handle = c.handle => b = c
  <2>1. proc[p].copy = table
    BY <1>6 DEF IInv, ProcOK, Write
  <2>2. CASE proc[p].verb \in {"convert", "space-create"}
    <3>1. table' = Stored(table, proc[p].item) /\ Puts(p)
      BY <1>6, <2>1, <2>2 DEF Write, Puts
    <3> QED BY <1>1, <1>3, <1>4, <3>1 DEF Stored, LabelsOK
  <2>3. CASE proc[p].verb \notin {"convert", "space-create"}
    <3>1. table' \subseteq table
      BY <1>6, <2>1, <2>3 DEF Write, Removed
    <3> QED BY <1>1, <1>3, <3>1 DEF LabelsOK
  <2> QED BY <2>2, <2>3
<1>7. CASE \A p \in Procs : ~Write(p)
  <2>1. table' = table
    BY <1>7, OnlyWriteChangesTheTable
  <2> QED BY <1>1, <1>2, <1>3, <1>5, <2>1 DEF LabelsOK
<1>8. CASE \E p \in Procs : Write(p)
  BY <1>2, <1>5, <1>6, <1>8 DEF LabelsOK
<1> QED BY <1>7, <1>8

(* No two bindings share a label, a handle or a workspace, if every linked  *)
(* workspace has a label: two commands that both found a workspace unbound  *)
(* Put the same label, and the second replaces the first.                   *)
THEOREM BindingsAreOneToOne ==
  ASSUME AllLabelled
  PROVE  Spec => []OneToOne
<1>1. Init => LabelsOK
  BY DEF Init, LabelsOK, Puts, Idle, Workspaces
<1>2. IInv /\ LabelsOK => OneToOne
  BY DEF LabelsOK, OneToOne, Labelled
<1>3. IInv /\ LabelsOK /\ [Next]_vars => LabelsOK'
  BY NextLabelsOK
<1> QED BY <1>1, <1>2, <1>3, InductiveInvariant, PTL DEF Spec
=============================================================================
