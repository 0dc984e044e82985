----------------------------- MODULE PortForwards -----------------------------
(***************************************************************************)
(* Forwarded ports on the machine that runs the plugin: fwd-sync and the   *)
(* link handler ports-toggle, each a process of its own, and the ports     *)
(* pane.  They meet in the ssh control master, in the queue of requests    *)
(* for the laptop agent and in forwards.state, a file that two of them     *)
(* rewrite as a whole, without a lock and through one temporary name.      *)
(*                                                                         *)
(* Left out: the order of the rows (a set here), their times, and how the  *)
(* pane draws them.  The queue file is the set of ports asked for; the     *)
(* races on it are those of ForwardQueue.                                  *)
(***************************************************************************)
EXTENDS Integers, FiniteSets

CONSTANTS
  Boxes,       \* sandboxes of the daemon
  Ports,       \* ports guests listen on and links name
  Forwardable, \* those in GuestPortMin .. GuestPortMax
  Services,    \* what the guests may listen on at first
  Occupied,    \* local ports other programs may hold at first
  Syncs,       \* fwd-sync processes
  Clicks,      \* ports-toggle processes
  Panes,       \* ports panes
  None,        \* no sandbox, no port, no file
  Empty,       \* content of a file that was just truncated
  Mixed,       \* content of a file two processes wrote over each other
  MaxChanges,  \* bound on changes of guests, ports and the master
  MaxFaults    \* bound on processes that die or fail

Key == [box : Boxes, port : Ports]   \* fwdKey
Row == [box : Boxes \cup {None}, port : Ports,
        status : {"live", "pending", "out_of_range"}]
Content == (SUBSET Row) \cup {Empty, Mixed}

ASSUME ConstantsAssumption ==
  /\ Forwardable \subseteq Ports /\ Services \subseteq [Boxes -> SUBSET Ports]
  /\ Occupied \subseteq SUBSET Ports
  /\ Syncs \cap Clicks = {} /\ None \notin Boxes \cup Ports
  /\ Empty # Mixed /\ None \notin {Empty, Mixed}
  /\ \A rows \in SUBSET Row : rows \notin {None, Empty, Mixed}
  /\ MaxChanges \in Nat /\ MaxFaults \in Nat

VARIABLES
  up,        \* sandboxes that run
  listens,   \* listens[b]: the ports a listener in b is bound to
  master,    \* the control master runs
  bound,     \* ports it forwards: bound locally
  alien,     \* local ports some other program is bound to
  gone,      \* history: gone[p], ports whose listener went while p ran
  asked,     \* ports with a request in the queue
  file,      \* forwards.state: its rows, Empty or Mixed
  tmp,       \* forwards.state.tmp: the same, or None
  proc,      \* proc[p]: local state of a fwd-sync or ports-toggle
  pane,      \* pane[n]: the rows a pane shows
  overlap,   \* history: processes that ran while another rewrote the file
  changes, faults

guestVars == <<up, listens>>
sshVars == <<master, bound, alien, gone>>
fileVars == <<file, tmp>>
vars == <<guestVars, sshVars, asked, fileVars, proc, pane, overlap, changes, faults>>

-----------------------------------------------------------------------------
Procs == Syncs \cup Clicks

Idle == [pc |-> "idle", key |-> None, boxes |-> {}, desired |-> {}, applied |-> {},
         base |-> {}, rows |-> {}, fd |-> None]

(* Without a file there is nothing to show: taken for a file without rows. *)
Init ==
  /\ up = Boxes /\ listens \in Services
  /\ master \in BOOLEAN /\ bound = {} /\ alien \in Occupied
  /\ gone = [p \in Syncs |-> {}]
  /\ asked = {} /\ file = {} /\ tmp = None
  /\ proc = [p \in Procs |-> Idle]
  /\ pane = [n \in Panes |-> {}]
  /\ overlap = {} /\ changes = 0 /\ faults = 0

(* What reading the file gives: a file that does not parse shows nothing. *)
Readable == file \notin {Empty, Mixed}
Shown == IF Readable THEN file ELSE {}

Goto(p, pc) == proc' = [proc EXCEPT ![p].pc = pc]
Return(p) == proc' = [proc EXCEPT ![p] = [Idle EXCEPT !.pc = "done"]]

(* Processes between their first look at what they will write and the end. *)
Writing == {p \in Procs : proc[p].pc \in {"open", "fill", "install"}}
BeginWriting(p) ==
  overlap' = IF Writing = {} THEN overlap ELSE overlap \cup Writing \cup {p}

-----------------------------------------------------------------------------
(* Guests, other programs, the master and the laptop agent that uses it *)

Change == changes < MaxChanges /\ changes' = changes + 1
Gone(ports) == gone' = [p \in Syncs |-> gone[p] \cup ports]

GuestChanges(b) ==
  /\ Change
  /\ \/ /\ up' = IF b \in up THEN up \ {b} ELSE up \cup {b}
        /\ UNCHANGED listens
     \/ /\ \E s \in SUBSET Ports : s # listens[b] /\ listens' = [listens EXCEPT ![b] = s]
        /\ UNCHANGED up
  /\ UNCHANGED <<sshVars, asked, fileVars, proc, pane, overlap, faults>>

AlienChanges(q) ==
  /\ Change /\ q \notin bound
  /\ IF q \in alien THEN alien' = alien \ {q} /\ Gone({q})
                    ELSE alien' = alien \cup {q} /\ UNCHANGED gone
  /\ UNCHANGED <<guestVars, master, bound, asked, fileVars, proc, pane, overlap, faults>>

(* A master that exits takes its forwards with it. *)
MasterChanges ==
  /\ Change /\ master' = ~master /\ bound' = {} /\ Gone(bound)
  /\ UNCHANGED <<guestVars, alien, asked, fileVars, proc, pane, overlap, faults>>

AgentServes(q) ==
  /\ q \in asked /\ master /\ q \notin alien
  /\ bound' = bound \cup {q} /\ asked' = asked \ {q}
  /\ UNCHANGED <<guestVars, master, alien, gone, fileVars, proc, pane, overlap, changes, faults>>

-----------------------------------------------------------------------------
(* fwd-sync *)

(* DiscoverAll: list the sandboxes, then look into each one that runs. *)
SyncLists(p) ==
  /\ proc[p].pc = "idle"
  /\ proc' = [proc EXCEPT ![p].pc = IF up = {} THEN "reconcile" ELSE "probe",
                          ![p].boxes = up]
  /\ gone' = [gone EXCEPT ![p] = {}]
  /\ UNCHANGED <<guestVars, master, bound, alien, asked, fileVars, pane, overlap, changes, faults>>

(* One that cannot be entered any more makes the whole call fail. *)
DiscoverOne(p) ==
  /\ proc[p].pc = "probe"
  /\ \E b \in proc[p].boxes :
       IF b \notin up THEN Return(p)
       ELSE LET rest == proc[p].boxes \ {b} IN
            proc' = [proc EXCEPT
              ![p].pc = IF rest = {} THEN "reconcile" ELSE "probe",
              ![p].boxes = rest,
              ![p].desired = @ \cup {[box |-> b, port |-> q] : q \in listens[b]}]
  /\ UNCHANGED <<guestVars, sshVars, asked, fileVars, pane, overlap, changes, faults>>

(* A Manager knows what it applied itself, and every process has a new one. *)
NewManager == {}

Listening == bound \cup alien   \* what ss and netstat show

(* Reconcile, its first loop: cancel what is applied and not desired any more. *)
CancelStale(p) ==
  /\ proc[p].pc = "reconcile"
  /\ LET kept == NewManager \cap proc[p].desired IN
       /\ bound' = bound \ {k.port : k \in NewManager \ kept}
       /\ proc' = [proc EXCEPT ![p].pc = "present", ![p].applied = kept]
  /\ UNCHANGED <<guestVars, master, alien, gone, asked, fileVars, pane, overlap, changes, faults>>

(* Its second: a port somebody listens on counts as applied. *)
Present(p) ==
  /\ proc[p].pc = "present"
  /\ LET todo == proc[p].desired \ proc[p].applied IN
       IF todo = {} THEN Goto(p, "confirm")
       ELSE \E k \in todo :
              IF k.port \in Listening
              THEN proc' = [proc EXCEPT ![p].applied = @ \cup {k}]
              ELSE proc' = [proc EXCEPT ![p].pc = "apply", ![p].key = k]
  /\ UNCHANGED <<guestVars, sshVars, asked, fileVars, pane, overlap, changes, faults>>

Applied(p) ==
  proc' = [proc EXCEPT ![p].pc = "present", ![p].applied = @ \cup {proc[p].key}]

ApplyAnyway(p) ==   \* Defect: the exit code of ssh -O forward is ignored.
  /\ proc[p].pc = "apply"
  /\ bound' = IF master /\ proc[p].key.port \notin alien
              THEN bound \cup {proc[p].key.port} ELSE bound
  /\ Applied(p)
  /\ UNCHANGED <<guestVars, master, alien, gone, asked, fileVars, pane, overlap, changes, faults>>

(* ssh -O forward fails without a master or on a port that is taken, and    *)
(* succeeds if the master forwards that port already.                       *)
Apply(p) ==
  /\ proc[p].pc = "apply"
  /\ IF master /\ proc[p].key.port \notin alien
     THEN bound' = bound \cup {proc[p].key.port} /\ Applied(p)
     ELSE Return(p) /\ UNCHANGED bound
  /\ UNCHANGED <<guestVars, master, alien, gone, asked, fileVars, pane, overlap, changes, faults>>

(* fwd-sync --teardown: the sandbox only has to exist. *)
TeardownSandbox(p, b) ==
  /\ proc[p].pc = "idle"
  /\ LET ours == {k \in NewManager : k.box = b} IN
       /\ bound' = bound \ {k.port : k \in ours}
       /\ proc' = [proc EXCEPT ![p].pc = "confirm", ![p].applied = NewManager \ ours]
  /\ UNCHANGED <<guestVars, master, alien, gone, asked, fileVars, pane, overlap, changes, faults>>

(* writeAppliedState: a row for each applied key, live if it is present. *)
AppliedRows(p) ==
  {[box |-> k.box, port |-> k.port,
    status |-> IF k.port \in Listening THEN "live" ELSE "pending"] : k \in proc[p].applied}

WriteAppliedState(p) ==
  /\ proc[p].pc = "confirm"
  /\ proc' = [proc EXCEPT ![p].pc = "open", ![p].rows = AppliedRows(p)]
  /\ BeginWriting(p)
  /\ UNCHANGED <<guestVars, sshVars, asked, fileVars, pane, changes, faults>>

-----------------------------------------------------------------------------
(* ports-toggle *)

(* A port that can be forwarded is asked for first. *)
Click(p, q) ==
  /\ proc[p].pc = "idle"
  /\ asked' = IF q \in Forwardable THEN asked \cup {q} ELSE asked
  /\ proc' = [proc EXCEPT ![p].pc = "load", ![p].key = [box |-> None, port |-> q]]
  /\ UNCHANGED <<guestVars, sshVars, fileVars, pane, overlap, changes, faults>>

StatusOf(q) == IF q \in Forwardable THEN "pending" ELSE "out_of_range"
NewRow(q) == [box |-> None, port |-> q, status |-> StatusOf(q)]

Appended(rows, q) == {rows \cup {NewRow(q)}}   \* Defect: the old row stays.

(* The first row of that port gets the status; which one that is depends on *)
(* the order of the rows.                                                   *)
Upserted(rows, q) ==
  LET same == {r \in rows : r.port = q} IN
    IF same = {} THEN {rows \cup {NewRow(q)}}
    ELSE {(rows \ {r}) \cup {[r EXCEPT !.status = StatusOf(q)]} : r \in same}

(* Defect: what was in the file is not read first. *)
UpsertAfresh(p) ==
  /\ proc[p].pc = "load"
  /\ \E new \in Upserted({}, proc[p].key.port) :
       proc' = [proc EXCEPT ![p].pc = "open", ![p].rows = new,
                            ![p].base = IF Readable THEN file ELSE {}]
  /\ BeginWriting(p)
  /\ UNCHANGED <<guestVars, sshVars, asked, fileVars, pane, changes, faults>>

UpsertPortInState(p) ==
  /\ proc[p].pc = "load"
  /\ IF Readable
     THEN /\ \E new \in Upserted(file, proc[p].key.port) :
               proc' = [proc EXCEPT ![p].pc = "open", ![p].rows = new, ![p].base = file]
          /\ BeginWriting(p)
     ELSE Return(p) /\ UNCHANGED overlap
  /\ UNCHANGED <<guestVars, sshVars, asked, fileVars, pane, changes, faults>>

-----------------------------------------------------------------------------
(* WriteForwardsStateAtomic: open and truncate, write, rename.  A process   *)
(* that has the temporary file open writes to whatever became of it.        *)

OpenTmp(p) ==
  /\ proc[p].pc = "open"
  /\ tmp' = Empty
  /\ proc' = [proc EXCEPT ![p].pc = "fill", ![p].fd = "tmp"]
  /\ UNCHANGED <<guestVars, sshVars, asked, file, pane, overlap, changes, faults>>

(* Writing over what another process wrote leaves its tail if that was      *)
(* longer.                                                                  *)
Filled(old, rows) == IF old = Empty THEN {rows} ELSE {rows, Mixed}

Fail == faults < MaxFaults /\ faults' = faults + 1

Fill(p) ==
  /\ tmp' \in (IF proc[p].fd = "tmp" THEN Filled(tmp, proc[p].rows) ELSE {tmp})
  /\ file' \in (IF proc[p].fd = "file" THEN Filled(file, proc[p].rows) ELSE {file})
  /\ UNCHANGED faults

FillUnchecked(p) ==   \* Defect: the rename follows a write that failed, too.
  /\ proc[p].pc = "fill"
  /\ Fill(p) \/ (Fail /\ UNCHANGED fileVars)
  /\ Goto(p, "install")
  /\ UNCHANGED <<guestVars, sshVars, asked, pane, overlap, changes>>

FillTmp(p) ==
  /\ proc[p].pc = "fill"
  /\ Fill(p)
  /\ Goto(p, "install")
  /\ UNCHANGED <<guestVars, sshVars, asked, pane, overlap, changes>>

(* Where a descriptor leads after the rename. *)
Renamed(fd) == CASE fd = "tmp" -> "file" [] fd = "file" -> "lost" [] OTHER -> fd

InstallWhatever(p) ==   \* Defect: nobody looks whether there was a file to rename.
  /\ proc[p].pc = "install"
  /\ file' = tmp /\ tmp' = None /\ Return(p)
  /\ UNCHANGED <<guestVars, sshVars, asked, pane, overlap, changes, faults>>

InstallTmp(p) ==
  /\ proc[p].pc = "install"
  /\ IF tmp = None THEN Return(p) /\ UNCHANGED fileVars
     ELSE /\ file' = tmp /\ tmp' = None
          /\ proc' = [r \in Procs |-> IF r = p THEN [Idle EXCEPT !.pc = "done"]
                                      ELSE [proc[r] EXCEPT !.fd = Renamed(@)]]
  /\ UNCHANGED <<guestVars, sshVars, asked, pane, overlap, changes, faults>>

(* The process dies, or a step fails that ends it: a daemon or an ss that   *)
(* does not answer, a queue that cannot be read, a full disk.               *)
Dies(p) ==
  /\ proc[p].pc \notin {"idle", "done"} /\ Fail
  /\ Return(p)
  /\ UNCHANGED <<guestVars, sshVars, asked, fileVars, pane, overlap, changes>>

-----------------------------------------------------------------------------
(* The ports pane *)

(* Once a second and after each key. *)
PaneRenders(n) ==
  /\ pane' = [pane EXCEPT ![n] = Shown] /\ pane' # pane
  /\ UNCHANGED <<guestVars, sshVars, asked, fileVars, proc, overlap, changes, faults>>

(* Enter acts on the row under the cursor as the pane last read it. *)
PaneEnter(n) ==
  /\ \E r \in pane[n] : r.status # "pending" /\ asked' = asked \cup {r.port}
  /\ pane' = [pane EXCEPT ![n] = Shown]
  /\ UNCHANGED <<guestVars, sshVars, fileVars, proc, overlap, changes, faults>>

-----------------------------------------------------------------------------
Environment ==
  \/ \E b \in Boxes : GuestChanges(b)
  \/ \E q \in Ports : AlienChanges(q) \/ AgentServes(q)
  \/ MasterChanges

Step(p) ==
  \/ DiscoverOne(p) \/ CancelStale(p) \/ Present(p) \/ Apply(p) \/ WriteAppliedState(p)
  \/ UpsertPortInState(p)
  \/ OpenTmp(p) \/ FillTmp(p) \/ InstallTmp(p)

Next ==
  \/ Environment
  \/ \E p \in Syncs : SyncLists(p) \/ \E b \in Boxes : TeardownSandbox(p, b)
  \/ \E p \in Clicks, q \in Ports : Click(p, q)
  \/ \E p \in Procs : Step(p) \/ Dies(p)
  \/ \E n \in Panes : PaneRenders(n) \/ PaneEnter(n)

Spec == Init /\ [][Next]_vars

-----------------------------------------------------------------------------
Process ==
  [pc : {"idle", "probe", "reconcile", "present", "apply", "confirm",
         "load", "open", "fill", "install", "done"},
   key : Key \cup [box : {None}, port : Ports] \cup {None}, boxes : SUBSET Boxes,
   desired : SUBSET Key, applied : SUBSET Key, base : SUBSET Row, rows : SUBSET Row,
   fd : {"tmp", "file", "lost", None}]

TypeOK ==
  /\ up \subseteq Boxes /\ listens \in [Boxes -> SUBSET Ports]
  /\ master \in BOOLEAN /\ bound \subseteq Ports /\ alien \subseteq Ports
  /\ gone \in [Syncs -> SUBSET Ports]
  /\ asked \subseteq Ports /\ file # None /\ file \in Content /\ tmp \in Content \cup {None}
  /\ proc \in [Procs -> Process]
  /\ pane \in [Panes -> SUBSET Row]
  /\ overlap \subseteq Procs
  /\ changes \in 0 .. MaxChanges /\ faults \in 0 .. MaxFaults

(* Whatever the order of fwd-sync and ports-toggle, and although the rows   *)
(* of ports-toggle name no sandbox, forwards.state never shows one forward  *)
(* twice: two rows with one port each name a sandbox of their own.          *)
RowsDistinct ==
  \A r, s \in Shown :
    r # s /\ r.port = s.port => r.box # s.box /\ None \notin {r.box, s.box}

(* forwards.state is replaced by a rename: a reader finds it torn only if   *)
(* two processes rewrote it at once, wherever they died or failed.          *)
TornOnlyByOverlap == ~Readable => overlap # {}

(* A click that no other rewrite overlaps changes the rows of its port and  *)
(* no others, and when the file is renamed its port has a row.              *)
Finishes(p) == proc[p].pc = "install" /\ proc'[p] # proc[p]
ClickKeepsOtherRows ==
  [][\A p \in Clicks :
       file' # file /\ Finishes(p) /\ p \notin overlap =>
         LET q == proc[p].key.port
             Others(rows) == {r \in rows : r.port # q} IN
         /\ Readable' /\ \E r \in Shown' : r.port = q /\ r.status = StatusOf(q)
         /\ Others(Shown') = Others(proc[p].base)]_vars

(* A fwd-sync that reports success leaves no port of its guests without a   *)
(* listener: the master forwards it, or another program holds it, unless    *)
(* the listener it found or made has gone since by itself: with the master, *)
(* or with the other program.  No other fwd-sync takes one down.            *)
SyncEstablishes ==
  \A p \in Syncs : proc[p].pc = "confirm" =>
    \A k \in proc[p].desired : k.port \in bound \cup alien \cup gone[p]

(* doc/portfwd-teardown.md: "If the local port is already occupied, `ssh -O *)
(* forward` exits non-zero and `Apply` returns an error."  So success would *)
(* mean a forward for every port.                                           *)
SyncRefusesOccupied ==
  \A p \in Syncs : proc[p].pc = "confirm" =>
    \A k \in proc[p].desired : k.port \in bound \cup gone[p]

(* doc/portfwd-teardown.md: TeardownSandbox "does the same", cancels every  *)
(* recorded forward, "for an explicit stop signal".                         *)
TeardownRemoves ==
  [][\A p \in Syncs, b \in Boxes :
       TeardownSandbox(p, b) => \A r \in Shown : r.box = b => r.port \notin bound']_vars

(* doc/portfwd-operator-guide.md 4.2, Enter on an OUT-OF-RANGE row: "agent  *)
(* will reject".                                                            *)
AgentRejectsOutOfRange ==
  [][\A q \in asked \ asked' : q \in bound' => q \in Forwardable]_vars
=============================================================================
