---------------------------- MODULE SpaceBindings ----------------------------
(***************************************************************************)
(* The space verbs: three stores that know nothing of each other (herdr's  *)
(* workspaces, msb's sandboxes and the bindings file) and the commands     *)
(* that join them.  Every command is a process of its own, run by a user   *)
(* or by the worktree.removed hook.  Only the read and the rename of one   *)
(* Put or Delete happen under a lock; everything else a command reads may  *)
(* have changed when it uses it.                                           *)
(*                                                                         *)
(* herdr never reuses a workspace ID and a workspace keeps its label.  The *)
(* same worktree may come back: another workspace with the same label on   *)
(* the same checkout path.  Panes are not modelled: that a guest pane does *)
(* not open leaves the binding and the sandbox as they are.                *)
(***************************************************************************)
EXTENDS Integers, FiniteSets

CONSTANTS
  Users,     \* command lines in use at once
  Linked,    \* workspaces herdr opens on linked worktrees
  Spaces,    \* workspaces space-create opens
  Paths,     \* checkout paths
  Labels,    \* workspace labels
  Handles,   \* sandbox handles: project/name
  PathOf,    \* PathOf[w]: the checkout of linked workspace w
  LabelOf,   \* LabelOf[w]: the label herdr gives it, None if it gives none
  NamesOf,   \* NamesOf[w]: handles convert may use, by label or -sandbox
  MsbLabel,  \* MsbLabel[h]: "msb:" and the name of h
  NoPath,    \* a binding without checkout path
  None,      \* no process, no binding, no label, no handle
  MaxHand,   \* bound on start and stop by hand
  MaxFaults  \* bound on crashes and failed steps

Workspaces == Linked \cup Spaces
Procs == Users \cup Linked   \* process w is the hook that w's removal runs

Binding == [label : Labels, ws : Workspaces, handle : Handles,
            path : Paths \cup {NoPath}]

ASSUME ConstantsAssumption ==
  /\ Users \cap Linked = {} /\ Linked \cap Spaces = {}
  /\ PathOf \in [Linked -> Paths] /\ LabelOf \in [Linked -> Labels \cup {None}]
  /\ NamesOf \in [Linked -> SUBSET Handles] /\ MsbLabel \in [Handles -> Labels]
  /\ NoPath \notin Paths /\ None \notin Procs \cup Labels \cup Handles \cup Binding
  /\ MaxHand \in Nat /\ MaxFaults \in Nat

VARIABLES
  table,   \* the bindings file
  lock,    \* holder of the flock, or None
  ws,      \* ws[w]: "unborn", "open" or "closed"
  label,   \* label[w]: the label of w once it was opened, or None
  trees,   \* checkout paths that exist
  box,     \* box[h]: "none", "running" or "stopped"
  proc,    \* proc[p]: local state of a command
  hand,    \* starts and stops by hand so far
  faults   \* faults spent

herdrVars == <<ws, label, trees>>
vars == <<table, lock, ws, label, trees, box, proc, hand, faults>>

-----------------------------------------------------------------------------
Verbs == {"convert", "space-create", "rm", "prune"}
Idle == [pc |-> "idle", verb |-> "prune", handle |-> None, item |-> None,
         kill |-> FALSE, todo |-> {}, copy |-> {}]

Init ==
  /\ table = {} /\ lock = None
  /\ ws = [w \in Workspaces |-> "unborn"] /\ label = [w \in Workspaces |-> None]
  /\ trees = {} /\ box = [h \in Handles |-> "none"]
  /\ proc = [p \in Procs |-> Idle] /\ hand = 0 /\ faults = 0

Goto(p, pc) == proc' = [proc EXCEPT ![p].pc = pc]
Return(p) == proc' = [proc EXCEPT ![p] = Idle]
At(p, verb, pc) == proc[p].verb = verb /\ proc[p].pc = pc
Fail == faults < MaxFaults /\ faults' = faults + 1

(* prune goes on with the bindings in todo. *)
NextItem(p, todo) ==
  proc' = [proc EXCEPT ![p] =
    IF todo = {} THEN Idle
    ELSE [proc[p] EXCEPT !.pc = "item", !.todo = todo, !.item = None, !.copy = {}]]

-----------------------------------------------------------------------------
(* herdr and its users *)

WorktreeCreate(w) ==
  /\ ws[w] = "unborn" /\ PathOf[w] \notin trees
  /\ ws' = [ws EXCEPT ![w] = "open"] /\ label' = [label EXCEPT ![w] = LabelOf[w]]
  /\ trees' = trees \cup {PathOf[w]}
  /\ UNCHANGED <<table, lock, box, proc, hand, faults>>

RemovalSparesRunning(w) ==
  /\ ws[w] = "open"
  /\ ws' = [ws EXCEPT ![w] = "closed"] /\ trees' = trees \ {PathOf[w]}
  /\ proc' = [proc EXCEPT ![w] = [Idle EXCEPT !.pc = "list"]]
  /\ UNCHANGED <<table, lock, label, box, hand, faults>>

(* The hook runs once, whatever comes of it. *)
WorktreeRemove(w) ==
  /\ ws[w] = "open"
  /\ ws' = [ws EXCEPT ![w] = "closed"] /\ trees' = trees \ {PathOf[w]}
  /\ proc' = [proc EXCEPT ![w] = [Idle EXCEPT !.pc = "list", !.kill = TRUE]]
  /\ UNCHANGED <<table, lock, label, box, hand, faults>>

WorkspaceClose(w) ==
  /\ ws[w] = "open" /\ ws' = [ws EXCEPT ![w] = "closed"]
  /\ UNCHANGED <<table, lock, label, trees, box, proc, hand, faults>>

CheckoutVanishes(t) ==
  /\ t \in trees /\ trees' = trees \ {t}
  /\ UNCHANGED <<table, lock, ws, label, box, proc, hand, faults>>

-----------------------------------------------------------------------------
(* create, start and stop by hand: one call to the daemon each *)

Create(h) ==
  /\ box[h] = "none"
  /\ \E status \in {"running", "stopped"} : box' = [box EXCEPT ![h] = status]
  /\ UNCHANGED <<table, lock, herdrVars, proc, hand, faults>>

Start(h) ==
  /\ box[h] = "stopped" /\ box' = [box EXCEPT ![h] = "running"]
  /\ hand < MaxHand /\ hand' = hand + 1
  /\ UNCHANGED <<table, lock, herdrVars, proc, faults>>

Stop(h) ==
  /\ box[h] = "running" /\ box' = [box EXCEPT ![h] = "stopped"]
  /\ hand < MaxHand /\ hand' = hand + 1
  /\ UNCHANGED <<table, lock, herdrVars, proc, faults>>

-----------------------------------------------------------------------------
(* The store: what Put and Delete do under the lock *)

StoredByHandle(t, b) == {x \in t : x.handle # b.handle} \cup {b}

Stored(t, b) == {x \in t : x.label # b.label /\ x.handle # b.handle} \cup {b}
Removed(t, l) == {x \in t : x.label # l}

(* Where a command goes after its store call returned, or failed. *)
AfterStore(p) ==
  CASE proc[p].verb = "rm" -> proc' = [proc EXCEPT ![p].pc = "close", ![p].copy = {}]
    [] proc[p].verb = "prune" -> NextItem(p, proc[p].todo)
    [] OTHER -> Return(p)
AfterStoreFailed(p) ==
  IF proc[p].verb \in {"convert", "space-create"}
  THEN proc' = [proc EXCEPT ![p].pc = "undo", ![p].copy = {}]
  ELSE AfterStore(p)

ReadUnlocked(p) ==
  /\ proc[p].pc = "lock"
  /\ lock' = p
  /\ proc' = [proc EXCEPT ![p].pc = "write", ![p].copy = table]
  /\ UNCHANGED <<table, herdrVars, box, hand, faults>>

(* flock, then readAll *)
LockAndRead(p) ==
  /\ proc[p].pc = "lock" /\ lock = None
  /\ lock' = p
  /\ proc' = [proc EXCEPT ![p].pc = "write", ![p].copy = table]
  /\ UNCHANGED <<table, herdrVars, box, hand, faults>>

(* writeAll's rename, then unlock *)
Write(p) ==
  /\ proc[p].pc = "write"
  /\ table' = IF proc[p].verb \in {"convert", "space-create"}
              THEN Stored(proc[p].copy, proc[p].item)
              ELSE Removed(proc[p].copy, proc[p].item.label)
  /\ lock' = None
  /\ AfterStore(p)
  /\ UNCHANGED <<herdrVars, box, hand, faults>>

Release(p) == lock' = IF lock = p THEN None ELSE lock

StoreFails(p) ==
  /\ proc[p].pc \in {"lock", "write"} /\ Fail
  /\ Release(p) /\ AfterStoreFailed(p)
  /\ UNCHANGED <<table, herdrVars, box, hand>>

-----------------------------------------------------------------------------
(* space-convert and space-create *)

Begin(p, verb, pc, b) ==
  proc' = [proc EXCEPT ![p] = [Idle EXCEPT !.pc = pc, !.verb = verb, !.item = b]]

Named(l, h) == IF l = None THEN MsbLabel[h] ELSE l

Conversion(l, w, h) == [label |-> l, ws |-> w, handle |-> h, path |-> PathOf[w]]

SpaceConvertUnlabelled(p, w) ==
  /\ proc[p].pc = "idle" /\ ws[w] = "open"
  /\ \A b \in table : b.ws # w
  /\ \E h \in NamesOf[w] : Begin(p, "convert", "create", Conversion(label[w], w, h))
  /\ UNCHANGED <<table, lock, herdrVars, box, hand, faults>>

(* The workspace is unbound, open and on a linked worktree. *)
SpaceConvert(p, w) ==
  /\ proc[p].pc = "idle" /\ ws[w] = "open"
  /\ \A b \in table : b.ws # w
  /\ \E h \in NamesOf[w] :
       Begin(p, "convert", "create", Conversion(Named(label[w], h), w, h))
  /\ UNCHANGED <<table, lock, herdrVars, box, hand, faults>>

ConvertCreatesSandbox(p) ==
  /\ At(p, "convert", "create") /\ box[proc[p].item.handle] = "none"
  /\ box' = [box EXCEPT ![proc[p].item.handle] = "running"]
  /\ Goto(p, "lock")
  /\ UNCHANGED <<table, lock, herdrVars, hand, faults>>

ConvertRefused(p) ==
  /\ At(p, "convert", "create")
  /\ (box[proc[p].item.handle] # "none" /\ UNCHANGED faults) \/ Fail
  /\ Return(p)
  /\ UNCHANGED <<table, lock, herdrVars, box, hand>>

SpaceCreate(p, w) ==
  /\ proc[p].pc = "idle" /\ ws[w] = "unborn"
  /\ \E h \in Handles :
       /\ label' = [label EXCEPT ![w] = MsbLabel[h]]
       /\ Begin(p, "space-create", "lock",
                [label |-> MsbLabel[h], ws |-> w, handle |-> h, path |-> NoPath])
  /\ ws' = [ws EXCEPT ![w] = "open"]
  /\ UNCHANGED <<table, lock, trees, box, hand, faults>>

(* The daemon removes a sandbox that does not run. *)
RemoveSandbox(h) == box' = [box EXCEPT ![h] = IF @ = "running" THEN @ ELSE "none"]

(* A failed Put: convert removes its sandbox, errors ignored; space-create  *)
(* closes its workspace.                                                    *)
UndoConvert(p) ==
  /\ At(p, "convert", "undo")
  /\ RemoveSandbox(proc[p].item.handle) /\ Return(p)
  /\ UNCHANGED <<table, lock, herdrVars, hand, faults>>

CloseItsWorkspace(p) ==
  /\ ws' = [ws EXCEPT ![proc[p].item.ws] = "closed"] /\ Return(p)
  /\ UNCHANGED <<table, lock, label, trees, box, hand, faults>>

UndoSpaceCreate(p) == At(p, "space-create", "undo") /\ CloseItsWorkspace(p)

-----------------------------------------------------------------------------
(* rm: remove, look the handle up, Delete, close the workspace *)

RM(p, h) ==
  /\ proc[p].pc = "idle" /\ box[h] = "stopped"
  /\ RemoveSandbox(h)
  /\ proc' = [proc EXCEPT ![p] = [Idle EXCEPT !.pc = "cleanup", !.verb = "rm",
                                              !.handle = h]]
  /\ UNCHANGED <<table, lock, herdrVars, hand, faults>>

SpaceCleanup(p) ==
  /\ At(p, "rm", "cleanup")
  /\ \/ \E b \in table :
          /\ b.handle = proc[p].handle
          /\ proc' = [proc EXCEPT ![p].pc = "lock", ![p].item = b]
     \/ (\A b \in table : b.handle # proc[p].handle) /\ Return(p)
  /\ UNCHANGED <<table, lock, herdrVars, box, hand, faults>>

RMCloses(p) == At(p, "rm", "close") /\ CloseItsWorkspace(p)

-----------------------------------------------------------------------------
(* space-prune -apply *)

(* The bindings of all workspaces (-all) or of one. *)
SpacePrune(p) ==
  /\ proc[p].pc = "idle"
  /\ \E scope \in {Workspaces} \cup {{w} : w \in Workspaces}, kill \in BOOLEAN :
       LET listed == {b \in table : b.ws \in scope} IN
         /\ listed # {}
         /\ proc' = [proc EXCEPT ![p] = [Idle EXCEPT !.pc = "live", !.kill = kill,
                                                    !.todo = listed]]
  /\ UNCHANGED <<table, lock, herdrVars, box, hand, faults>>

HookPrunes(w) ==
  /\ proc[w].pc = "list"
  /\ proc' = [proc EXCEPT ![w].pc = "live", ![w].todo = {b \in table : b.ws = w}]
  /\ UNCHANGED <<table, lock, herdrVars, box, hand, faults>>

NoFirstSignal(p) ==
  /\ proc[p].pc = "live"
  /\ NextItem(p, proc[p].todo)
  /\ UNCHANGED <<table, lock, herdrVars, box, hand, faults>>

(* The first signal, from one listing for all bindings: the workspace is    *)
(* gone.  Nothing is done about the others.                                 *)
ListWorkspaces(p) ==
  /\ proc[p].pc = "live"
  /\ NextItem(p, {b \in proc[p].todo : ws[b.ws] # "open"})
  /\ UNCHANGED <<table, lock, herdrVars, box, hand, faults>>

(* The second, when its turn comes: so is the checkout or, where none was   *)
(* recorded, the running sandbox.                                           *)
SecondSignal(b) ==
  IF b.path = NoPath THEN box[b.handle] # "running" ELSE b.path \notin trees

Keep(p) ==
  /\ proc[p].pc = "item"
  /\ \E b \in proc[p].todo :
       /\ \/ ~SecondSignal(b) /\ UNCHANGED faults
          \/ b.path = NoPath /\ Fail   \* its status cannot be read
       /\ NextItem(p, proc[p].todo \ {b})
  /\ UNCHANGED <<table, lock, herdrVars, box, hand>>

Reclaim(p) ==
  /\ proc[p].pc = "item"
  /\ \E b \in proc[p].todo :
       /\ SecondSignal(b)
       /\ proc' = [proc EXCEPT ![p].todo = @ \ {b}, ![p].item = b, ![p].pc = "check"]
  /\ UNCHANGED <<table, lock, herdrVars, box, hand, faults>>

GiveUpItem(p) == NextItem(p, proc[p].todo)

(* A running sandbox is spared without -kill-running. *)
RunningCheck(p) ==
  /\ proc[p].pc = "check"
  /\ IF box[proc[p].item.handle] = "running" /\ ~proc[p].kill
     THEN GiveUpItem(p) ELSE Goto(p, "remove")
  /\ UNCHANGED <<table, lock, herdrVars, box, hand, faults>>

FirstRemove(p) ==
  /\ proc[p].pc = "remove"
  /\ RemoveSandbox(proc[p].item.handle)
  /\ Goto(p, IF box[proc[p].item.handle] = "running" THEN "stop" ELSE "lock")
  /\ UNCHANGED <<table, lock, herdrVars, hand, faults>>

(* Stopping a sandbox that was stopped meanwhile may be an error. *)
StopRunning(p) ==
  /\ proc[p].pc = "stop"
  /\ LET h == proc[p].item.handle IN
       \/ /\ box[h] # "none" /\ box' = [box EXCEPT ![h] = "stopped"]
          /\ Goto(p, "again")
       \/ box[h] # "running" /\ GiveUpItem(p) /\ UNCHANGED box
  /\ UNCHANGED <<table, lock, herdrVars, hand, faults>>

(* The second remove has to succeed: that there is no sandbox is an error. *)
SecondRemove(p) ==
  /\ proc[p].pc = "again"
  /\ RemoveSandbox(proc[p].item.handle)
  /\ IF box[proc[p].item.handle] = "stopped" THEN Goto(p, "lock") ELSE GiveUpItem(p)
  /\ UNCHANGED <<table, lock, herdrVars, hand, faults>>

ForgetAnyway(p) ==
  /\ proc[p].pc \in {"check", "remove", "stop", "again"} /\ Fail
  /\ IF proc[p].pc = "remove" THEN Goto(p, "stop") ELSE Goto(p, "lock")
  /\ UNCHANGED <<table, lock, herdrVars, box, hand>>

(* A failed status check, stop or second remove keeps the binding; a failed *)
(* first remove is followed by the stop.                                    *)
ReclaimFails(p) ==
  /\ proc[p].pc \in {"check", "remove", "stop", "again"} /\ Fail
  /\ IF proc[p].pc = "remove" THEN Goto(p, "stop") ELSE GiveUpItem(p)
  /\ UNCHANGED <<table, lock, herdrVars, box, hand>>

-----------------------------------------------------------------------------
(* The process dies, or a step fails that makes the command return: a       *)
(* create that reports an error after the daemon made the sandbox is one,   *)
(* and so is a hook that does not find the binary.                          *)
Crash(p) ==
  /\ proc[p].pc # "idle" /\ Fail
  /\ Release(p) /\ Return(p)
  /\ UNCHANGED <<table, herdrVars, box, hand>>

Herdr ==
  \/ \E w \in Linked : WorktreeCreate(w) \/ WorktreeRemove(w)
  \/ \E w \in Workspaces : WorkspaceClose(w)
  \/ \E t \in Paths : CheckoutVanishes(t)

ByHand == \E h \in Handles : Create(h) \/ Start(h) \/ Stop(h)

Command(u) ==
  \/ \E w \in Linked : SpaceConvert(u, w)
  \/ \E w \in Spaces : SpaceCreate(u, w)
  \/ \E h \in Handles : RM(u, h)
  \/ SpacePrune(u)

(* The next step of a command that was started. *)
Step(p) ==
  \/ Write(p)
  \/ ConvertCreatesSandbox(p) \/ ConvertRefused(p)
  \/ UndoConvert(p) \/ UndoSpaceCreate(p)
  \/ SpaceCleanup(p) \/ RMCloses(p)
  \/ ListWorkspaces(p) \/ Keep(p) \/ Reclaim(p)
  \/ RunningCheck(p) \/ FirstRemove(p) \/ StopRunning(p) \/ SecondRemove(p)

Next ==
  \/ Herdr \/ ByHand
  \/ \E u \in Users : Command(u)
  \/ \E w \in Linked : HookPrunes(w)
  \/ \E p \in Procs : \/ LockAndRead(p) \/ Step(p)
                      \/ StoreFails(p) \/ ReclaimFails(p) \/ Crash(p)

Spec == Init /\ [][Next]_vars

(* A command that was started runs on, and a process that waits for the     *)
(* flock gets it in the end.  Nobody has to start a command.                *)
Fairness ==
  /\ \A p \in Procs : WF_vars(Step(p)) /\ SF_vars(LockAndRead(p))
  /\ \A w \in Linked : WF_vars(HookPrunes(w))

FairSpec == Spec /\ Fairness

-----------------------------------------------------------------------------
Process ==
  [pc : {"idle", "create", "lock", "write", "undo", "cleanup", "close", "list",
         "live", "item", "check", "remove", "stop", "again"},
   verb : Verbs, handle : Handles \cup {None}, item : Binding \cup {None},
   kill : BOOLEAN, todo : SUBSET Binding, copy : SUBSET Binding]

TypeOK ==
  /\ table \subseteq Binding /\ lock \in Procs \cup {None}
  /\ ws \in [Workspaces -> {"unborn", "open", "closed"}]
  /\ label \in [Workspaces -> Labels \cup {None}] /\ trees \subseteq Paths
  /\ box \in [Handles -> {"none", "running", "stopped"}]
  /\ proc \in [Procs -> Process]
  /\ hand \in 0 .. MaxHand /\ faults \in 0 .. MaxFaults

(* "Binding records the 1:1 relationship between a herdr workspace and an   *)
(* msb sandbox": Put only replaces what conflicts on label or handle, two   *)
(* commands may have found a workspace unbound, and yet no two bindings     *)
(* share a label, a handle or a workspace.                                  *)
OneToOne ==
  \A b, c \in table :
    b.label = c.label \/ b.handle = c.handle \/ b.ws = c.ws => b = c

(* Whatever the commands' interleaving and wherever they die, the file      *)
(* changes by one whole Put or Delete at a time: none is lost.              *)
Table == INSTANCE BindingTable WITH table <- table, Binding <- Binding
ImplementsTable == Table!Spec

(* What prune read is old when it acts on it.  Even so, it neither stops or *)
(* removes the sandbox nor deletes the record of the binding it judged      *)
(* while the workspace of that binding is open.                             *)
Takes(p) ==
  /\ proc[p].verb = "prune" /\ proc[p].item \in table /\ proc'[p] # proc[p]
  /\ proc[p].item \notin table' \/ box' # box
PruneSparesTheOpen ==
  [][\A p \in Procs : Takes(p) => ws[proc[p].item.ws] = "closed"]_vars

(* doc/worktree-events.md 3.3: a sandbox that could not be reclaimed does   *)
(* not lose its record.  prune goes on to Delete only when there is none.   *)
RecordOutlivesSandbox ==
  [][\A p \in Procs :
       At(p, "prune", "lock")' /\ ~At(p, "prune", "lock")
         => box'[proc'[p].item.handle] = "none"]_vars

(* Removing a worktree gets rid of its sandbox and its binding in the end,  *)
(* however other commands interfere: unless the checkout came back, a step  *)
(* failed or somebody started or stopped a sandbox by hand.                 *)
Recorded(w) == \E b \in table : b.ws = w
HookReclaims ==
  \A w \in Linked :
    proc[w].pc = "list" /\ Recorded(w)
      ~> ~Recorded(w) \/ PathOf[w] \in trees \/ hand > 0 \/ faults > 0

(* doc/worktree-events.md 3.1: a binding whose workspace is open is kept.   *)
PruneKeepsOpenBindings ==
  [][\A p \in Procs : At(p, "prune", "write") /\ proc'[p] # proc[p] =>
       \A b \in table \ table' : ws[b.ws] # "open"]_vars
=============================================================================
