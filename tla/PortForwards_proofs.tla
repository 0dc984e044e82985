------------------------- MODULE PortForwards_proofs -------------------------
(***************************************************************************)
(* Proofs about PortForwards, for any sandboxes, ports and processes.      *)
(***************************************************************************)
EXTENDS PortForwards, TLAPS

-----------------------------------------------------------------------------
(* Types *)

WritingPCs == {"open", "fill", "install"}
ClickKey == [box : {None}, port : Ports]

(* Only ports-toggle loads rows, and only fwd-sync discovers and applies. *)
ProcOK(p) ==
  /\ proc[p].pc = "apply" => proc[p].key \in Key
  /\ proc[p].pc = "load" => p \in Clicks
  /\ p \in Clicks =>
       /\ proc[p].pc \in {"idle", "load", "done"} \cup WritingPCs
       /\ proc[p].pc \in {"load"} \cup WritingPCs => proc[p].key \in ClickKey

TypeInv == TypeOK /\ \A p \in Procs : ProcOK(p)

LEMMA IdleIsProcess == Idle \in Process /\ [Idle EXCEPT !.pc = "done"] \in Process
BY DEF Idle, Process

LEMMA ProcSet ==
  ASSUME TypeInv, NEW p \in Procs, NEW x \in Process, proc' = [proc EXCEPT ![p] = x],
         x.pc = "apply" => x.key \in Key,
         x.pc = "load" => p \in Clicks,
         p \in Clicks =>
           /\ x.pc \in {"idle", "load", "done"} \cup WritingPCs
           /\ x.pc \in {"load"} \cup WritingPCs => x.key \in ClickKey
  PROVE  proc' \in [Procs -> Process] /\ \A q \in Procs : ProcOK(q)'
BY DEF TypeInv, TypeOK, ProcOK

LEMMA ReturnSet ==
  ASSUME TypeInv, NEW p \in Procs, Return(p)
  PROVE  proc' \in [Procs -> Process] /\ \A q \in Procs : ProcOK(q)'
<1> DEFINE x == [Idle EXCEPT !.pc = "done"]
<1>1. x \in Process /\ x.pc = "done"
  BY IdleIsProcess DEF Idle
<1>2. proc' = [proc EXCEPT ![p] = x]
  BY DEF Return
<1> HIDE DEF x
<1> QED BY <1>1, <1>2, ProcSet DEF WritingPCs

LEMMA GotoSet ==
  ASSUME TypeInv, NEW p \in Procs, NEW pc \in {"confirm", "install"}, Goto(p, pc),
         p \in Clicks => proc[p].pc \in WritingPCs /\ pc = "install"
  PROVE  proc' \in [Procs -> Process] /\ \A q \in Procs : ProcOK(q)'
<1> DEFINE x == [proc[p] EXCEPT !.pc = pc]
<1>1. proc[p] \in Process /\ ProcOK(p)
  BY DEF TypeInv, TypeOK
<1>2. x \in Process /\ x.pc = pc /\ x.key = proc[p].key
  BY <1>1 DEF Process
<1>3. proc' = [proc EXCEPT ![p] = x]
  BY DEF Goto
<1> HIDE DEF x
<1> QED BY <1>1, <1>2, <1>3, ProcSet DEF WritingPCs, ProcOK

(* An upsert makes rows of rows. *)
LEMMA UpsertedRows ==
  ASSUME NEW rows \in SUBSET Row, NEW q \in Ports, NEW new \in Upserted(rows, q)
  PROVE  new \in SUBSET Row
<1> DEFINE same == {r \in rows : r.port = q}
<1>1. StatusOf(q) \in {"live", "pending", "out_of_range"}
  BY DEF StatusOf
<1>2. CASE same = {}
  <2>1. NewRow(q) \in Row
    BY <1>1 DEF NewRow, Row
  <2> QED BY <1>2, <2>1 DEF Upserted
<1>3. CASE same # {}
  <2>1. PICK r \in same : new = (rows \ {r}) \cup {[r EXCEPT !.status = StatusOf(q)]}
    BY <1>3 DEF Upserted
  <2>2. [r EXCEPT !.status = StatusOf(q)] \in Row
    BY <1>1, <2>1 DEF Row
  <2> QED BY <2>1, <2>2
<1> QED BY <1>2, <1>3

LEMMA InitTypeInv == Init => TypeInv
<1> SUFFICES ASSUME Init PROVE TypeInv
  OBVIOUS
<1>1. Idle.pc = "idle"
  BY DEF Idle
<1>2. \A p \in Procs : proc[p] = Idle /\ ProcOK(p)
  BY <1>1 DEF Init, ProcOK, WritingPCs
<1>3. {} \in Content /\ file # None
  BY ConstantsAssumption DEF Init, Content
<1> QED BY <1>2, <1>3, IdleIsProcess, ConstantsAssumption DEF Init, TypeInv, TypeOK, Content

(* What the processes have in memory keeps its type in every step of one.   *)
LEMMA ProcKept ==
  ASSUME TypeInv, Next
  PROVE  proc' \in [Procs -> Process] /\ \A q \in Procs : ProcOK(q)'
<1>1. CASE UNCHANGED proc
  BY <1>1 DEF TypeInv, TypeOK, ProcOK
<1> DEFINE Goal == proc' \in [Procs -> Process] /\ \A q \in Procs : ProcOK(q)'
<1>2. \A p \in Procs : proc[p] \in Process /\ ProcOK(p)
  BY DEF TypeInv, TypeOK
<1>3. ASSUME NEW p \in Syncs, SyncLists(p) PROVE Goal
  <2> DEFINE x == [proc[p] EXCEPT !.pc = IF up = {} THEN "reconcile" ELSE "probe",
                                  !.boxes = up]
  <2>1. p \in Procs /\ p \notin Clicks
    BY ConstantsAssumption DEF Procs
  <2>2. proc[p] \in Process /\ up \subseteq Boxes
    BY <1>2, <2>1 DEF TypeInv, TypeOK
  <2>3. x \in Process /\ x.pc \in {"reconcile", "probe"}
    BY <2>2 DEF Process
  <2>4. proc' = [proc EXCEPT ![p] = x]
    BY <1>3, <2>2 DEF SyncLists, Process
  <2> HIDE DEF x
  <2> QED BY <2>1, <2>3, <2>4, ProcSet DEF Goal
<1>4. ASSUME NEW p \in Procs, DiscoverOne(p) PROVE Goal
  <2>1. PICK b \in proc[p].boxes :
          IF b \notin up THEN Return(p)
          ELSE LET rest == proc[p].boxes \ {b} IN
               proc' = [proc EXCEPT
                 ![p].pc = IF rest = {} THEN "reconcile" ELSE "probe",
                 ![p].boxes = rest,
                 ![p].desired = @ \cup {[box |-> b, port |-> q] : q \in listens[b]}]
    BY <1>4 DEF DiscoverOne
  <2>2. CASE b \notin up
    BY <2>1, <2>2, ReturnSet
  <2>3. CASE b \in up
    <3> DEFINE rest == proc[p].boxes \ {b}
               more == {[box |-> b, port |-> q] : q \in listens[b]}
               x == [proc[p] EXCEPT !.pc = IF rest = {} THEN "reconcile" ELSE "probe",
                                    !.boxes = rest,
                                    !.desired = proc[p].desired \cup more]
    <3>1. b \in Boxes /\ rest \subseteq Boxes
      BY <1>2 DEF Process
    <3>2. more \subseteq Key
      BY <3>1 DEF TypeInv, TypeOK, Key
    <3> HIDE DEF more, rest
    <3>3. x \in Process /\ x.pc \in {"reconcile", "probe"}
      BY <1>2, <3>1, <3>2 DEF Process
    <3>4. proc' = [proc EXCEPT ![p] = x]
      BY <2>1, <2>3, <1>2 DEF Process, more, rest
    <3>5. p \notin Clicks
      BY <1>2, <1>4 DEF DiscoverOne, ProcOK, WritingPCs
    <3> HIDE DEF x
    <3> QED BY <3>3, <3>4, <3>5, ProcSet
  <2> QED BY <2>2, <2>3
<1>5. ASSUME NEW p \in Procs, CancelStale(p) PROVE Goal
  <2> DEFINE x == [proc[p] EXCEPT !.pc = "present", !.applied = NewManager \cap proc[p].desired]
  <2>1. x \in Process /\ x.pc = "present"
    BY <1>2 DEF Process, NewManager
  <2>2. proc' = [proc EXCEPT ![p] = x]
    BY <1>2, <1>5 DEF CancelStale, Process
  <2>3. p \notin Clicks
    BY <1>2, <1>5 DEF CancelStale, ProcOK, WritingPCs
  <2> HIDE DEF x
  <2> QED BY <2>1, <2>2, <2>3, ProcSet
<1>6. ASSUME NEW p \in Procs, Present(p) PROVE Goal
  <2>1. p \notin Clicks
    BY <1>2, <1>6 DEF Present, ProcOK, WritingPCs
  <2>2. CASE Goto(p, "confirm")
    BY <2>1, <2>2, GotoSet
  <2>3. ASSUME NEW k \in proc[p].desired,
               proc' = [proc EXCEPT ![p].applied = @ \cup {k}], proc[p].pc = "present"
        PROVE Goal
    <3> DEFINE x == [proc[p] EXCEPT !.applied = proc[p].applied \cup {k}]
    <3>1. x \in Process /\ x.pc = "present"
      BY <1>2, <2>3 DEF Process
    <3>2. proc' = [proc EXCEPT ![p] = x]
      BY <1>2, <2>3 DEF Process
    <3> HIDE DEF x
    <3> QED BY <2>1, <3>1, <3>2, ProcSet
  <2>4. ASSUME NEW k \in proc[p].desired,
               proc' = [proc EXCEPT ![p].pc = "apply", ![p].key = k]
        PROVE Goal
    <3> DEFINE x == [proc[p] EXCEPT !.pc = "apply", !.key = k]
    <3>1. k \in Key
      BY <1>2 DEF Process
    <3>2. x \in Process /\ x.pc = "apply" /\ x.key = k
      BY <1>2, <3>1 DEF Process
    <3>3. proc' = [proc EXCEPT ![p] = x]
      BY <1>2, <2>4 DEF Process
    <3> HIDE DEF x
    <3> QED BY <2>1, <3>1, <3>2, <3>3, ProcSet
  <2> QED BY <1>6, <2>2, <2>3, <2>4 DEF Present
<1>7. ASSUME NEW p \in Procs, Apply(p) PROVE Goal
  <2>1. CASE Return(p)
    BY <2>1, ReturnSet
  <2>2. CASE Applied(p)
    <3> DEFINE x == [proc[p] EXCEPT !.pc = "present",
                                    !.applied = proc[p].applied \cup {proc[p].key}]
    <3>1. proc[p].key \in Key /\ p \notin Clicks
      BY <1>2, <1>7 DEF Apply, ProcOK, WritingPCs
    <3>2. x \in Process /\ x.pc = "present"
      BY <1>2, <3>1 DEF Process
    <3>3. proc' = [proc EXCEPT ![p] = x]
      BY <1>2, <2>2 DEF Applied, Process
    <3> HIDE DEF x
    <3> QED BY <3>1, <3>2, <3>3, ProcSet
  <2> QED BY <1>7, <2>1, <2>2 DEF Apply
<1>8. ASSUME NEW p \in Syncs, NEW b \in Boxes, TeardownSandbox(p, b) PROVE Goal
  <2> DEFINE x == [proc[p] EXCEPT !.pc = "confirm",
                    !.applied = NewManager \ {k \in NewManager : k.box = b}]
  <2>1. p \in Procs /\ p \notin Clicks
    BY ConstantsAssumption DEF Procs
  <2>2. x \in Process /\ x.pc = "confirm"
    BY <1>2, <2>1 DEF Process, NewManager
  <2>3. proc' = [proc EXCEPT ![p] = x]
    BY <1>2, <1>8, <2>1 DEF TeardownSandbox, Process
  <2> HIDE DEF x
  <2> QED BY <2>1, <2>2, <2>3, ProcSet
<1>9. ASSUME NEW p \in Procs, WriteAppliedState(p) PROVE Goal
  <2> DEFINE x == [proc[p] EXCEPT !.pc = "open", !.rows = AppliedRows(p)]
  <2>1. AppliedRows(p) \subseteq Row
    BY <1>2 DEF AppliedRows, Process, Key, Row
  <2>2. x \in Process /\ x.pc = "open" /\ x.key = proc[p].key
    BY <1>2, <2>1 DEF Process
  <2>3. proc' = [proc EXCEPT ![p] = x]
    BY <1>2, <1>9 DEF WriteAppliedState, Process
  <2>4. p \notin Clicks
    BY <1>2, <1>9 DEF WriteAppliedState, ProcOK, WritingPCs
  <2> HIDE DEF x
  <2> QED BY <2>2, <2>3, <2>4, ProcSet
<1>10. ASSUME NEW p \in Clicks, NEW q \in Ports, Click(p, q) PROVE Goal
  <2> DEFINE k == [box |-> None, port |-> q]
             x == [proc[p] EXCEPT !.pc = "load", !.key = k]
  <2>1. p \in Procs /\ k \in ClickKey
    BY DEF Procs, ClickKey
  <2>2. x \in Process /\ x.pc = "load" /\ x.key = k
    BY <1>2, <2>1 DEF Process, ClickKey
  <2>3. proc' = [proc EXCEPT ![p] = x]
    BY <1>2, <1>10, <2>1 DEF Click, Process
  <2> HIDE DEF x, k
  <2> QED BY <2>1, <2>2, <2>3, ProcSet
<1>11. ASSUME NEW p \in Procs, UpsertPortInState(p) PROVE Goal
  <2>1. p \in Clicks /\ proc[p].key \in ClickKey
    BY <1>2, <1>11 DEF UpsertPortInState, ProcOK
  <2>2. CASE Return(p)
    BY <2>2, ReturnSet
  <2>3. ASSUME Readable, NEW new \in Upserted(file, proc[p].key.port),
               proc' = [proc EXCEPT ![p].pc = "open", ![p].rows = new, ![p].base = file]
        PROVE  Goal
    <3> DEFINE x == [proc[p] EXCEPT !.pc = "open", !.rows = new, !.base = file]
    <3>1. file \in SUBSET Row
      <4>1. file \in Content
        BY DEF TypeInv, TypeOK
      <4> QED BY <2>3, <4>1 DEF Content, Readable
    <3>2. new \in SUBSET Row
      BY <2>1, <2>3, <3>1, UpsertedRows DEF ClickKey
    <3>3. x \in Process /\ x.pc = "open" /\ x.key = proc[p].key
      BY <1>2, <3>1, <3>2 DEF Process
    <3>4. proc' = [proc EXCEPT ![p] = x]
      BY <1>2, <2>3 DEF Process
    <3> HIDE DEF x
    <3> QED BY <2>1, <3>3, <3>4, ProcSet DEF WritingPCs
  <2> QED BY <1>11, <2>2, <2>3 DEF UpsertPortInState
<1>12. ASSUME NEW p \in Procs, OpenTmp(p) PROVE Goal
  <2> DEFINE x == [proc[p] EXCEPT !.pc = "fill", !.fd = "tmp"]
  <2>1. x \in Process /\ x.pc = "fill" /\ x.key = proc[p].key
    BY <1>2 DEF Process
  <2>2. proc' = [proc EXCEPT ![p] = x]
    BY <1>2, <1>12 DEF OpenTmp, Process
  <2> HIDE DEF x
  <2> QED BY <1>2, <1>12, <2>1, <2>2, ProcSet DEF OpenTmp, ProcOK, WritingPCs
<1>13. ASSUME NEW p \in Procs, FillTmp(p) PROVE Goal
  BY <1>13, GotoSet DEF FillTmp, WritingPCs
<1>14. ASSUME NEW p \in Procs, InstallTmp(p) PROVE Goal
  <2>1. CASE Return(p)
    BY <2>1, ReturnSet
  <2>2. ASSUME proc' = [r \in Procs |-> IF r = p THEN [Idle EXCEPT !.pc = "done"]
                                        ELSE [proc[r] EXCEPT !.fd = Renamed(proc[r].fd)]]
        PROVE  Goal
    <3>1. Idle.pc = "idle" /\ [Idle EXCEPT !.pc = "done"].pc = "done"
      BY DEF Idle
    <3>2. \A r \in Procs : Renamed(proc[r].fd) \in {"tmp", "file", "lost", None}
      BY <1>2 DEF Renamed, Process
    <3>3. ASSUME NEW r \in Procs PROVE proc'[r] \in Process /\ ProcOK(r)'
      <4>1. CASE r = p
        BY <2>2, <3>1, <4>1, IdleIsProcess DEF ProcOK, WritingPCs
      <4>2. CASE r # p
        <5> DEFINE x == [proc[r] EXCEPT !.fd = Renamed(proc[r].fd)]
        <5>1. x \in Process /\ x.pc = proc[r].pc /\ x.key = proc[r].key
          BY <1>2, <3>2 DEF Process
        <5>2. proc'[r] = x
          BY <2>2, <4>2
        <5> HIDE DEF x
        <5> QED BY <1>2, <5>1, <5>2 DEF ProcOK
      <4> QED BY <4>1, <4>2
    <3> QED BY <2>2, <3>3
  <2> QED BY <1>14, <2>1, <2>2 DEF InstallTmp
<1>15. ASSUME NEW p \in Procs, Dies(p) PROVE Goal
  BY <1>15, ReturnSet DEF Dies
<1>16. Environment \/ (\E n \in Panes : PaneRenders(n) \/ PaneEnter(n)) => UNCHANGED proc
  BY DEF Environment, GuestChanges, AlienChanges, AgentServes, MasterChanges, PaneRenders, PaneEnter
<1> QED BY <1>1, <1>3, <1>4, <1>5, <1>6, <1>7, <1>8, <1>9, <1>10, <1>11, <1>12, <1>13, <1>14,
           <1>15, <1>16 DEF Next, Step

LEMMA NextKeepsTypes == TypeInv /\ [Next]_vars => TypeInv'
<1>1. ASSUME TypeInv, Next PROVE TypeInv'
  <2>1. /\ proc' \in [Procs -> Process] /\ \A q \in Procs : ProcOK(q)'
        /\ \A p \in Procs : proc[p] \in Process /\ ProcOK(p)
    BY <1>1, ProcKept DEF TypeInv, TypeOK
  <2>2. /\ up \subseteq Boxes /\ listens \in [Boxes -> SUBSET Ports]
        /\ master \in BOOLEAN /\ bound \subseteq Ports /\ alien \subseteq Ports
        /\ gone \in [Syncs -> SUBSET Ports]
        /\ asked \subseteq Ports /\ file # None /\ file \in Content
        /\ tmp \in Content \cup {None} /\ pane \in [Panes -> SUBSET Row]
        /\ overlap \subseteq Procs
        /\ changes \in 0 .. MaxChanges /\ faults \in 0 .. MaxFaults
    BY <1>1 DEF TypeInv, TypeOK
  <2> DEFINE Goal ==
        /\ up' \subseteq Boxes /\ listens' \in [Boxes -> SUBSET Ports]
        /\ master' \in BOOLEAN /\ bound' \subseteq Ports /\ alien' \subseteq Ports
        /\ gone' \in [Syncs -> SUBSET Ports]
        /\ asked' \subseteq Ports /\ file' # None /\ file' \in Content
        /\ tmp' \in Content \cup {None} /\ pane' \in [Panes -> SUBSET Row]
        /\ overlap' \subseteq Procs
        /\ changes' \in 0 .. MaxChanges /\ faults' \in 0 .. MaxFaults
  <2> USE ConstantsAssumption
  <2>3. Shown \in SUBSET Row
    BY <2>2 DEF Shown, Readable, Content
  <2>4. ASSUME Environment PROVE Goal
    <3>1. ASSUME NEW b \in Boxes, GuestChanges(b) PROVE Goal
      BY <2>2, <3>1 DEF GuestChanges, Change, sshVars, fileVars
    <3>2. ASSUME NEW q \in Ports, AlienChanges(q) PROVE Goal
      BY <2>2, <3>2 DEF AlienChanges, Change, Gone, guestVars, fileVars
    <3>3. ASSUME NEW q \in Ports, AgentServes(q) PROVE Goal
      BY <2>2, <3>3 DEF AgentServes, guestVars, fileVars
    <3>4. ASSUME MasterChanges PROVE Goal
      BY <2>2, <3>4 DEF MasterChanges, Change, Gone, guestVars, fileVars
    <3> QED BY <2>4, <3>1, <3>2, <3>3, <3>4 DEF Environment
  <2>5. ASSUME NEW p \in Procs, DiscoverOne(p) \/ Present(p) \/ SyncLists(p) PROVE Goal
    BY <2>2, <2>5 DEF DiscoverOne, Present, SyncLists, guestVars, sshVars, fileVars
  <2>6. ASSUME NEW p \in Procs,
               CancelStale(p) \/ Apply(p) \/ \E b \in Boxes : TeardownSandbox(p, b)
        PROVE  Goal
    <3>1. bound' \subseteq Ports
      <4>1. CASE Apply(p)
        <5>1. proc[p].key.port \in Ports
          BY <2>1, <4>1 DEF Apply, ProcOK, Key
        <5> QED BY <2>2, <4>1, <5>1 DEF Apply
      <4> QED BY <2>2, <2>6, <4>1 DEF CancelStale, TeardownSandbox
    <3> QED BY <2>2, <2>6, <3>1 DEF CancelStale, Apply, TeardownSandbox, guestVars, fileVars
  <2>7. ASSUME NEW p \in Procs, WriteAppliedState(p) \/ UpsertPortInState(p) PROVE Goal
    <3>1. overlap' \subseteq Procs
      BY <2>2, <2>7 DEF WriteAppliedState, UpsertPortInState, BeginWriting, Writing
    <3> QED BY <2>2, <2>7, <3>1
            DEF WriteAppliedState, UpsertPortInState, guestVars, sshVars, fileVars
  <2>8. ASSUME NEW p \in Procs, NEW q \in Ports, Click(p, q) PROVE Goal
    BY <2>2, <2>8 DEF Click, guestVars, sshVars, fileVars
  <2>9. ASSUME NEW p \in Procs, OpenTmp(p) PROVE Goal
    BY <2>2, <2>9 DEF OpenTmp, guestVars, sshVars, Content
  <2>10. ASSUME NEW p \in Procs, FillTmp(p) PROVE Goal
    <3>1. proc[p].rows \in SUBSET Row
      BY <2>1 DEF Process
    <3>2. \A old : Filled(old, proc[p].rows) \subseteq Content \ {None}
      BY <3>1 DEF Filled, Content
    <3>3. file' \in Content /\ file' # None /\ tmp' \in Content \cup {None} /\ faults' = faults
      <4>1. Fill(p)
        BY <2>10 DEF FillTmp
      <4> QED BY <2>2, <3>2, <4>1 DEF Fill
    <3> QED BY <2>2, <2>10, <3>3 DEF FillTmp, guestVars, sshVars
  <2>11. ASSUME NEW p \in Procs, InstallTmp(p) PROVE Goal
    <3>1. file' \in Content /\ file' # None /\ tmp' \in Content \cup {None}
      BY <2>2, <2>11 DEF InstallTmp, fileVars, Content
    <3> QED BY <2>2, <2>11, <3>1 DEF InstallTmp, guestVars, sshVars
  <2>12. ASSUME NEW p \in Procs, Dies(p) PROVE Goal
    BY <2>2, <2>12 DEF Dies, Fail, guestVars, sshVars, fileVars
  <2>13. ASSUME NEW n \in Panes, PaneRenders(n) PROVE Goal
    BY <2>2, <2>3, <2>13 DEF PaneRenders, guestVars, sshVars, fileVars
  <2>14. ASSUME NEW n \in Panes, PaneEnter(n) PROVE Goal
    <3>1. PICK r \in pane[n] : asked' = asked \cup {r.port}
      BY <2>14 DEF PaneEnter
    <3>2. r.port \in Ports
      BY <2>2, <3>1 DEF Row
    <3> QED BY <2>2, <2>3, <2>14, <3>1, <3>2 DEF PaneEnter, guestVars, sshVars, fileVars
  <2>15. Goal
    <3> HIDE DEF Goal
    <3> QED BY <1>1, <2>4, <2>5, <2>6, <2>7, <2>8, <2>9, <2>10, <2>11, <2>12, <2>13, <2>14
            DEF Next, Step, Procs
  <2> QED BY <2>1, <2>15 DEF TypeInv, TypeOK
<1>2. ASSUME TypeInv, UNCHANGED vars PROVE TypeInv'
  BY <1>2 DEF TypeInv, TypeOK, ProcOK, vars, guestVars, sshVars, fileVars
<1> QED BY <1>1, <1>2

LEMMA TypesHold == Spec => []TypeInv
BY InitTypeInv, NextKeepsTypes, PTL DEF Spec

(* Rows, queue, ports and the locals of any number of fwd-syncs and clicks  *)
(* keep their types; forwards.state is there from the first write on.       *)
THEOREM TypeCorrect == Spec => []TypeOK
<1>1. TypeInv => TypeOK
  BY DEF TypeInv
<1> QED BY <1>1, TypesHold, PTL

-----------------------------------------------------------------------------
(* Steps *)

(* What process p can do. *)
Acts(p) ==
  \/ SyncLists(p) \/ \E b \in Boxes : TeardownSandbox(p, b)
  \/ \E q \in Ports : Click(p, q)
  \/ Step(p) \/ Dies(p)

(* What everything else can do. *)
Outside == Environment \/ \E n \in Panes : PaneRenders(n) \/ PaneEnter(n)

Unmoved(q) ==
  /\ proc'[q].pc = proc[q].pc /\ proc'[q].key = proc[q].key
  /\ proc'[q].desired = proc[q].desired /\ proc'[q].applied = proc[q].applied
  /\ proc'[q].base = proc[q].base /\ proc'[q].rows = proc[q].rows

LEMMA NextIs == Next => Outside \/ \E p \in Procs : Acts(p)
BY DEF Next, Outside, Acts, Procs

LEMMA OutsideIs ==
  ASSUME Outside
  PROVE  UNCHANGED <<proc, fileVars, overlap>>
BY DEF Outside, Environment, GuestChanges, AlienChanges, AgentServes, MasterChanges,
       PaneRenders, PaneEnter, fileVars

LEMMA MovesAlone ==
  ASSUME TypeInv, NEW p \in Procs, Acts(p), NEW q \in Procs \ {p}
  PROVE  Unmoved(q) /\ (proc'[q] = proc[q] \/ (InstallTmp(p) /\ tmp # None))
<1>1. proc \in [Procs -> Process]
  BY DEF TypeInv, TypeOK
<1>2. ASSUME proc'[q] = proc[q] PROVE Unmoved(q)
  BY <1>2 DEF Unmoved
<1>3. CASE InstallTmp(p)
  <2>1. CASE Return(p)
    BY <1>1, <1>2, <2>1 DEF Return
  <2>2. CASE tmp # None
    <3>1. proc'[q] = [proc[q] EXCEPT !.fd = Renamed(proc[q].fd)]
      BY <1>3, <2>2 DEF InstallTmp
    <3>2. proc[q] \in Process
      BY <1>1
    <3> QED BY <1>3, <2>2, <3>1, <3>2 DEF Unmoved, Process
  <2> QED BY <1>3, <2>1, <2>2 DEF InstallTmp
<1>4. CASE SyncLists(p) \/ DiscoverOne(p) \/ CancelStale(p) \/ WriteAppliedState(p)
           \/ OpenTmp(p) \/ FillTmp(p) \/ Dies(p)
  <2>1. proc'[q] = proc[q]
    BY <1>1, <1>4 DEF SyncLists, DiscoverOne, CancelStale, WriteAppliedState, OpenTmp,
                      FillTmp, Goto, Dies, Return
  <2> QED BY <1>2, <2>1
<1>5. CASE Present(p) \/ Apply(p) \/ UpsertPortInState(p)
  <2>1. proc'[q] = proc[q]
    BY <1>1, <1>5 DEF Present, Apply, Applied, UpsertPortInState, Goto, Return
  <2> QED BY <1>2, <2>1
<1>6. ASSUME NEW b \in Boxes, TeardownSandbox(p, b) PROVE proc'[q] = proc[q]
  BY <1>1, <1>6 DEF TeardownSandbox
<1>7. ASSUME NEW c \in Ports, Click(p, c) PROVE proc'[q] = proc[q]
  BY <1>1, <1>7 DEF Click
<1> QED BY <1>2, <1>3, <1>4, <1>5, <1>6, <1>7 DEF Acts, Step

-----------------------------------------------------------------------------
(* What fwd-sync does to the forwards of the master *)

LEMMA BoundGrows ==
  ASSUME TypeInv, NEW p \in Procs, Acts(p)
  PROVE  /\ bound \subseteq bound' /\ alien' = alien
         /\ gone' = gone \/ (SyncLists(p) /\ gone' = [gone EXCEPT ![p] = {}])
BY DEF Acts, Step, SyncLists, TeardownSandbox, Click, DiscoverOne, CancelStale, Present, Apply,
       WriteAppliedState, UpsertPortInState, OpenTmp, FillTmp, InstallTmp, Dies,
       NewManager, sshVars

(* Ports that have a listener, or had one when p looked. *)
Held(p) == Listening \cup gone[p]

(* What a fwd-sync took for applied is held, and what it took for desired   *)
(* is applied when it is done.                                              *)
FoundBy(p) ==
  /\ proc[p].pc = "idle" => proc[p].desired = {} /\ proc[p].applied = {}
  /\ p \in Syncs => \A k \in proc[p].applied : k.port \in Held(p)
  /\ proc[p].pc = "confirm" => proc[p].desired \subseteq proc[p].applied
AllFound == \A p \in Procs : FoundBy(p)

(* No process takes a listener away that another one counts on. *)
LEMMA HeldKept ==
  ASSUME TypeInv, NEW q \in Syncs,
         Outside \/ \E p \in Procs : Acts(p) /\ (p # q \/ ~SyncLists(p))
  PROVE  Held(q) \subseteq Held(q)'
<1>1. gone \in [Syncs -> SUBSET Ports]
  BY DEF TypeInv, TypeOK
<1>2. ASSUME NEW p \in Procs, Acts(p), p # q \/ ~SyncLists(p)
      PROVE  Held(q) \subseteq Held(q)'
  <2>1. gone'[q] = gone[q] /\ bound \subseteq bound' /\ alien' = alien
    BY <1>1, <1>2, BoundGrows
  <2> QED BY <2>1 DEF Held, Listening
<1>3. CASE Outside
  <2>1. ASSUME NEW c \in Ports, AlienChanges(c) PROVE Held(q) \subseteq Held(q)'
    BY <1>1, <2>1 DEF AlienChanges, Gone, Held, Listening
  <2>2. CASE MasterChanges
    BY <1>1, <2>2 DEF MasterChanges, Gone, Held, Listening
  <2>3. CASE UNCHANGED gone /\ bound \subseteq bound' /\ alien' = alien
    BY <2>3 DEF Held, Listening
  <2> QED BY <1>3, <2>1, <2>2, <2>3 DEF Outside, Environment, GuestChanges, AgentServes,
            PaneRenders, PaneEnter, sshVars
<1> QED BY <1>2, <1>3

LEMMA FoundByActor ==
  ASSUME TypeInv, NEW p \in Procs, Acts(p), FoundBy(p)
  PROVE  FoundBy(p)'
<1>1. proc \in [Procs -> Process] /\ proc[p] \in Process
  BY DEF TypeInv, TypeOK
<1>2. p \in Syncs /\ ~SyncLists(p) => Held(p) \subseteq Held(p)'
  BY HeldKept
<1>3. CASE Return(p)
  <2>1. proc'[p] = [Idle EXCEPT !.pc = "done"]
    BY <1>1, <1>3 DEF Return
  <2>2. proc'[p].pc = "done" /\ proc'[p].applied = {}
    BY <2>1 DEF Idle
  <2> QED BY <2>2 DEF FoundBy
<1>4. CASE /\ proc'[p].applied = proc[p].applied /\ ~SyncLists(p)
           /\ proc'[p].pc \notin {"idle", "confirm"}
  BY <1>2, <1>4 DEF FoundBy
<1>5. CASE SyncLists(p) \/ DiscoverOne(p) \/ WriteAppliedState(p) \/ UpsertPortInState(p)
           \/ OpenTmp(p) \/ FillTmp(p)
  <2> DEFINE Goes == /\ proc'[p].applied = proc[p].applied /\ ~SyncLists(p)
                     /\ proc'[p].pc \notin {"idle", "confirm"}
  <2>0. CASE SyncLists(p)
    <3>1. proc[p].applied = {} /\ proc'[p].applied = {}
      BY <1>1, <2>0 DEF SyncLists, FoundBy, Process
    <3>2. proc'[p].pc \in {"reconcile", "probe"}
      BY <1>1, <2>0 DEF SyncLists, Process
    <3> QED BY <3>1, <3>2 DEF FoundBy
  <2>1. CASE WriteAppliedState(p) \/ OpenTmp(p) \/ FillTmp(p)
    <3>1. Goes
      BY <1>1, <2>1 DEF SyncLists, WriteAppliedState, OpenTmp, FillTmp, Goto, Process
    <3> QED BY <1>4, <3>1
  <2>2. CASE DiscoverOne(p) /\ ~Return(p)
    <3>1. PICK b \in proc[p].boxes :
            LET rest == proc[p].boxes \ {b} IN
            proc' = [proc EXCEPT
              ![p].pc = IF rest = {} THEN "reconcile" ELSE "probe",
              ![p].boxes = rest,
              ![p].desired = @ \cup {[box |-> b, port |-> q] : q \in listens[b]}]
      BY <2>2 DEF DiscoverOne
    <3>2. Goes
      BY <1>1, <2>2, <3>1 DEF Process, DiscoverOne, SyncLists
    <3> QED BY <1>4, <3>2
  <2>3. CASE UpsertPortInState(p) /\ ~Return(p)
    <3>1. PICK new \in Upserted(file, proc[p].key.port) :
            proc' = [proc EXCEPT ![p].pc = "open", ![p].rows = new, ![p].base = file]
      BY <2>3 DEF UpsertPortInState
    <3>2. Goes
      BY <1>1, <2>3, <3>1 DEF Process, UpsertPortInState, SyncLists
    <3> QED BY <1>4, <3>2
  <2> QED BY <1>3, <1>5, <2>0, <2>1, <2>2, <2>3
<1>6. CASE CancelStale(p)
  <2>1. proc'[p].pc = "present" /\ proc'[p].applied = {}
    BY <1>1, <1>6 DEF CancelStale, NewManager, Process
  <2> QED BY <2>1 DEF FoundBy
<1>7. CASE Present(p)
  <2>0. ~SyncLists(p)
    BY <1>7 DEF Present, SyncLists
  <2>1. CASE proc[p].desired \ proc[p].applied = {} /\ Goto(p, "confirm")
    <3>1. /\ proc'[p].pc = "confirm" /\ proc'[p].applied = proc[p].applied
          /\ proc'[p].desired = proc[p].desired
      BY <1>1, <2>1 DEF Goto, Process
    <3> QED BY <1>2, <2>0, <2>1, <3>1 DEF FoundBy
  <2>2. ASSUME NEW k \in proc[p].desired, k.port \in Listening,
               proc' = [proc EXCEPT ![p].applied = @ \cup {k}]
        PROVE  FoundBy(p)'
    <3>1. proc'[p].pc = "present" /\ proc'[p].applied = proc[p].applied \cup {k}
      BY <1>1, <1>7, <2>2 DEF Present, Process
    <3>2. k.port \in Listening => k.port \in Held(p)
      BY DEF Held
    <3> QED BY <1>2, <2>0, <2>2, <3>1, <3>2 DEF FoundBy
  <2>3. ASSUME NEW k \in proc[p].desired,
               proc' = [proc EXCEPT ![p].pc = "apply", ![p].key = k]
        PROVE  FoundBy(p)'
    <3>1. proc'[p].pc = "apply" /\ proc'[p].applied = proc[p].applied
      BY <1>1, <2>3 DEF Process
    <3> QED BY <1>4, <2>0, <3>1
  <2> QED BY <1>7, <2>1, <2>2, <2>3 DEF Present
<1>8. CASE Apply(p) /\ ~Return(p)
  <2>1. bound' = bound \cup {proc[p].key.port} /\ Applied(p)
    BY <1>8 DEF Apply
  <2>2. proc'[p].pc = "present" /\ proc'[p].applied = proc[p].applied \cup {proc[p].key}
    BY <1>1, <2>1 DEF Applied, Process
  <2>3. proc[p].key.port \in Held(p)' /\ ~SyncLists(p)
    BY <1>8, <2>1 DEF Held, Listening, Apply, SyncLists
  <2> QED BY <1>2, <2>2, <2>3 DEF FoundBy
<1>9. ASSUME NEW b \in Boxes, TeardownSandbox(p, b) PROVE FoundBy(p)'
  <2>1. /\ proc'[p].pc = "confirm" /\ proc'[p].applied = {}
        /\ proc'[p].desired = proc[p].desired /\ proc[p].pc = "idle"
    BY <1>1, <1>9 DEF TeardownSandbox, NewManager, Process
  <2> QED BY <2>1 DEF FoundBy
<1>10. ASSUME NEW c \in Ports, Click(p, c) PROVE FoundBy(p)'
  <2>1. proc'[p].pc = "load" /\ proc'[p].applied = proc[p].applied
    BY <1>1, <1>10 DEF Click, Process
  <2>2. ~SyncLists(p)
    BY <1>1, <2>1 DEF SyncLists, Process
  <2> QED BY <1>4, <2>1, <2>2
<1>11. CASE InstallTmp(p)
  <2>1. CASE tmp # None
    <3>1. proc'[p] = [Idle EXCEPT !.pc = "done"]
      BY <1>11, <2>1 DEF InstallTmp
    <3>2. proc'[p].pc = "done" /\ proc'[p].applied = {}
      BY <3>1 DEF Idle
    <3> QED BY <3>2 DEF FoundBy
  <2> QED BY <1>3, <1>11, <2>1 DEF InstallTmp
<1>12. CASE Dies(p)
  BY <1>3, <1>12 DEF Dies
<1> QED BY <1>3, <1>5, <1>6, <1>7, <1>8, <1>9, <1>10, <1>11, <1>12 DEF Acts, Step

LEMMA FoundKept == TypeInv /\ AllFound /\ [Next]_vars => AllFound'
<1>1. ASSUME TypeInv, AllFound, NEW p \in Procs, Acts(p) PROVE AllFound'
  <2>1. ASSUME NEW q \in Procs \ {p} PROVE FoundBy(q)'
    <3>1. Unmoved(q)
      BY <1>1, MovesAlone
    <3>2. q \in Syncs => Held(q) \subseteq Held(q)'
      BY <1>1, HeldKept
    <3> QED BY <1>1, <3>1, <3>2 DEF AllFound, FoundBy, Unmoved
  <2>2. FoundBy(p)'
    BY <1>1, FoundByActor DEF AllFound
  <2> QED BY <2>1, <2>2 DEF AllFound
<1>2. ASSUME TypeInv, AllFound, Outside PROVE AllFound'
  <2>1. proc' = proc
    BY <1>2, OutsideIs
  <2>2. \A q \in Syncs : Held(q) \subseteq Held(q)'
    BY <1>2, HeldKept
  <2> QED BY <1>2, <2>1, <2>2 DEF AllFound, FoundBy
<1>3. ASSUME AllFound, UNCHANGED vars PROVE AllFound'
  BY <1>3 DEF AllFound, FoundBy, Held, Listening, vars, sshVars
<1> QED BY <1>1, <1>2, <1>3, NextIs

(* However many run at once, and whatever sandboxes, other programs and the *)
(* master do: of a fwd-sync that is done no port is left without a listener *)
(* unless that listener went by itself.                                     *)
THEOREM SyncsEstablish == Spec => []SyncEstablishes
<1>1. Init => AllFound
  BY DEF Init, AllFound, FoundBy, Idle, Procs
<1>2. TypeInv /\ AllFound => SyncEstablishes
  BY DEF AllFound, FoundBy, SyncEstablishes, Procs, Held, Listening
<1> QED BY <1>1, <1>2, FoundKept, TypesHold, PTL DEF Spec

-----------------------------------------------------------------------------
(* The rows of forwards.state *)

Distinct(rows) ==
  \A r, s \in rows : r # s /\ r.port = s.port => r.box # s.box /\ None \notin {r.box, s.box}

(* Rows stand in either file and in the memory of who is about to write.    *)
RowsInv ==
  /\ file \notin {Empty, Mixed} => Distinct(file)
  /\ tmp \notin {None, Empty, Mixed} => Distinct(tmp)
  /\ \A p \in Procs : Distinct(proc[p].rows)

LEMMA UpsertedDistinct ==
  ASSUME NEW rows \in SUBSET Row, Distinct(rows), NEW q \in Ports, NEW new \in Upserted(rows, q)
  PROVE  Distinct(new)
<1> DEFINE same == {r \in rows : r.port = q}
<1>1. CASE same = {}
  <2>1. new = rows \cup {NewRow(q)} /\ NewRow(q).port = q
    BY <1>1 DEF Upserted, NewRow
  <2>2. \A r \in rows : r.port # q
    BY <1>1
  <2> QED BY <2>1, <2>2 DEF Distinct
<1>2. CASE same # {}
  <2>1. PICK r \in same : new = (rows \ {r}) \cup {[r EXCEPT !.status = StatusOf(q)]}
    BY <1>2 DEF Upserted
  <2> DEFINE x == [r EXCEPT !.status = StatusOf(q)]
  <2>2. x.port = r.port /\ x.box = r.box
    BY <2>1 DEF Row
  <2>3. new = (rows \ {r}) \cup {x} /\ r \in rows
    BY <2>1
  <2> HIDE DEF x
  <2> QED BY <2>2, <2>3 DEF Distinct
<1> QED BY <1>1, <1>2

LEMMA AppliedDistinct ==
  ASSUME NEW p \in Procs, proc[p] \in Process
  PROVE  Distinct(AppliedRows(p))
<1>1. proc[p].applied \subseteq Key
  BY DEF Process
<1>2. ASSUME NEW r \in AppliedRows(p), NEW s \in AppliedRows(p), r # s, r.port = s.port
      PROVE  r.box # s.box /\ None \notin {r.box, s.box}
  <2>1. PICK k \in proc[p].applied :
          r = [box |-> k.box, port |-> k.port,
               status |-> IF k.port \in Listening THEN "live" ELSE "pending"]
    BY DEF AppliedRows
  <2>2. PICK l \in proc[p].applied :
          s = [box |-> l.box, port |-> l.port,
               status |-> IF l.port \in Listening THEN "live" ELSE "pending"]
    BY DEF AppliedRows
  <2>3. /\ r.box = k.box /\ r.port = k.port /\ s.box = l.box /\ s.port = l.port
        /\ k.box \in Boxes /\ l.box \in Boxes
    BY <1>1, <2>1, <2>2 DEF Key
  <2> QED BY <1>2, <2>1, <2>2, <2>3, ConstantsAssumption
<1> QED BY <1>2 DEF Distinct

LEMMA EmptyDistinct == Distinct({})
BY DEF Distinct

LEMMA RowsOfActor ==
  ASSUME TypeInv, RowsInv, NEW p \in Procs, Acts(p)
  PROVE  Distinct(proc'[p].rows)
<1>1. proc \in [Procs -> Process] /\ proc[p] \in Process /\ Distinct(proc[p].rows) /\ ProcOK(p)
  BY DEF TypeInv, TypeOK, RowsInv
<1>2. CASE Return(p)
  <2>1. proc'[p] = [Idle EXCEPT !.pc = "done"]
    BY <1>1, <1>2 DEF Return
  <2>2. proc'[p].rows = {}
    BY <2>1 DEF Idle
  <2> QED BY <2>2, EmptyDistinct
<1>3. CASE proc'[p].rows = proc[p].rows
  BY <1>1, <1>3
<1>4. CASE SyncLists(p) \/ CancelStale(p) \/ OpenTmp(p) \/ FillTmp(p)
  <2>1. proc'[p].rows = proc[p].rows
    BY <1>1, <1>4 DEF SyncLists, CancelStale, OpenTmp, FillTmp, Goto, Process
  <2> QED BY <1>3, <2>1
<1>5. CASE DiscoverOne(p) /\ ~Return(p)
  <2>1. PICK b \in proc[p].boxes :
          LET rest == proc[p].boxes \ {b} IN
          proc' = [proc EXCEPT
            ![p].pc = IF rest = {} THEN "reconcile" ELSE "probe",
            ![p].boxes = rest,
            ![p].desired = @ \cup {[box |-> b, port |-> q] : q \in listens[b]}]
    BY <1>5 DEF DiscoverOne
  <2>2. proc'[p].rows = proc[p].rows
    BY <1>1, <2>1 DEF Process
  <2> QED BY <1>3, <2>2
<1>6. CASE Present(p) \/ (Apply(p) /\ ~Return(p))
  <2>1. proc'[p].rows = proc[p].rows
    BY <1>1, <1>6 DEF Present, Apply, Applied, Goto, Process
  <2> QED BY <1>3, <2>1
<1>7. CASE WriteAppliedState(p)
  <2>1. proc'[p].rows = AppliedRows(p)
    BY <1>1, <1>7 DEF WriteAppliedState, Process
  <2> QED BY <1>1, <2>1, AppliedDistinct
<1>8. CASE UpsertPortInState(p) /\ ~Return(p)
  <2>1. PICK new \in Upserted(file, proc[p].key.port) :
          proc' = [proc EXCEPT ![p].pc = "open", ![p].rows = new, ![p].base = file]
    BY <1>8 DEF UpsertPortInState
  <2>2. proc'[p].rows = new
    BY <1>1, <2>1 DEF Process
  <2>3. file \in Content /\ file \notin {Empty, Mixed}
    BY <1>8 DEF TypeInv, TypeOK, UpsertPortInState, Readable
  <2>4. file \in SUBSET Row /\ Distinct(file)
    BY <2>3 DEF Content, RowsInv
  <2>5. proc[p].key.port \in Ports
    BY <1>1, <1>8 DEF UpsertPortInState, ProcOK, ClickKey
  <2> QED BY <2>1, <2>2, <2>4, <2>5, UpsertedDistinct
<1>9. ASSUME NEW b \in Boxes, TeardownSandbox(p, b) PROVE proc'[p].rows = proc[p].rows
  BY <1>1, <1>9 DEF TeardownSandbox, Process
<1>10. ASSUME NEW c \in Ports, Click(p, c) PROVE proc'[p].rows = proc[p].rows
  BY <1>1, <1>10 DEF Click, Process
<1>11. CASE InstallTmp(p)
  <2>1. CASE tmp # None
    <3>1. proc'[p] = [Idle EXCEPT !.pc = "done"]
      BY <1>11, <2>1 DEF InstallTmp
    <3>2. proc'[p].rows = {}
      BY <3>1 DEF Idle
    <3> QED BY <3>2, EmptyDistinct
  <2> QED BY <1>2, <1>11, <2>1 DEF InstallTmp
<1>12. CASE Dies(p)
  BY <1>2, <1>12 DEF Dies
<1> QED BY <1>2, <1>3, <1>4, <1>5, <1>6, <1>7, <1>8, <1>9, <1>10, <1>11, <1>12 DEF Acts, Step

(* Whoever changes a file writes its rows there, spoils it, or installs.    *)
LEMMA FilesAre ==
  ASSUME NEW p \in Procs, Acts(p)
  PROVE  \/ UNCHANGED fileVars
         \/ OpenTmp(p) /\ tmp' = Empty /\ file' = file
         \/ InstallTmp(p) /\ file' = tmp /\ tmp # None /\ tmp' = None
         \/ /\ FillTmp(p)
            /\ tmp' \in {tmp, Mixed, proc[p].rows} /\ file' \in {file, Mixed, proc[p].rows}
<1>1. CASE FillTmp(p)
  <2>1. \A old : Filled(old, proc[p].rows) \subseteq {Mixed, proc[p].rows}
    BY DEF Filled
  <2> QED BY <1>1, <2>1 DEF FillTmp, Fill
<1>2. CASE Step(p) /\ ~FillTmp(p)
  BY <1>2 DEF Step, DiscoverOne, CancelStale, Present, Apply, WriteAppliedState,
              UpsertPortInState, OpenTmp, InstallTmp
<1>3. CASE ~Step(p)
  BY <1>3 DEF Acts, SyncLists, TeardownSandbox, Click, Dies
<1> QED BY <1>1, <1>2, <1>3

LEMMA RowsKept == TypeInv /\ RowsInv /\ [Next]_vars => RowsInv'
<1>1. ASSUME TypeInv, RowsInv, NEW p \in Procs, Acts(p) PROVE RowsInv'
  <2>1. Distinct(proc[p].rows) /\ Distinct(proc'[p].rows)
    BY <1>1, RowsOfActor DEF RowsInv
  <2>2. ASSUME NEW q \in Procs PROVE Distinct(proc'[q].rows)
    <3>1. CASE q # p
      BY <1>1, <3>1, MovesAlone DEF RowsInv, Unmoved
    <3> QED BY <2>1, <3>1
  <2>3. file' \notin {Empty, Mixed} => Distinct(file')
    BY <1>1, <2>1, FilesAre DEF RowsInv, fileVars
  <2>4. tmp' \notin {None, Empty, Mixed} => Distinct(tmp')
    BY <1>1, <2>1, FilesAre DEF RowsInv, fileVars
  <2> QED BY <2>2, <2>3, <2>4 DEF RowsInv, Distinct
<1>2. ASSUME RowsInv, UNCHANGED <<proc, fileVars>> PROVE RowsInv'
  BY <1>2 DEF RowsInv, Distinct, fileVars
<1> QED BY <1>1, <1>2, NextIs, OutsideIs DEF vars

(* For any number of fwd-syncs, clicks and crashes, forwards.state shows no *)
(* forward twice.                                                           *)
THEOREM RowsStayDistinct == Spec => []RowsDistinct
<1>1. Init => RowsInv
  <2>1. Init => file = {} /\ tmp = None /\ \A p \in Procs : proc[p] = Idle
    BY DEF Init
  <2>2. Idle.rows = {}
    BY DEF Idle
  <2> QED BY <2>1, <2>2, EmptyDistinct DEF RowsInv
<1>2. RowsInv => RowsDistinct
  BY DEF RowsInv, RowsDistinct, Distinct, Shown, Readable
<1> QED BY <1>1, <1>2, RowsKept, TypesHold, PTL DEF Spec

-----------------------------------------------------------------------------
(* Who rewrites forwards.state undisturbed *)

(* One whose rewriting nobody overlapped is the only one that writes: the   *)
(* temporary file is its own, and what it read is what is still there.      *)
Alone(p) ==
  proc[p].pc \in WritingPCs /\ p \notin overlap =>
    /\ \A q \in Procs : proc[q].pc \in WritingPCs => q = p
    /\ proc[p].pc = "fill" => proc[p].fd = "tmp" /\ tmp = Empty
    /\ proc[p].pc = "install" => tmp = proc[p].rows
    /\ p \in Clicks => file = proc[p].base /\ proc[p].rows \in Upserted(file, proc[p].key.port)

WriteInv == TornOnlyByOverlap /\ \A p \in Procs : Alone(p)

Begins(p) == WriteAppliedState(p) \/ (UpsertPortInState(p) /\ ~Return(p))

(* What does not write leaves the files alone. *)
LEMMA Quiet ==
  ASSUME TypeInv, NEW p \in Procs, Acts(p),
         ~Begins(p), ~OpenTmp(p), ~FillTmp(p), ~InstallTmp(p)
  PROVE  proc'[p].pc \notin WritingPCs /\ UNCHANGED <<fileVars, overlap>>
<1>1. proc \in [Procs -> Process] /\ proc[p] \in Process
  BY DEF TypeInv, TypeOK
<1>2. CASE Return(p)
  <2>1. proc'[p] = [Idle EXCEPT !.pc = "done"]
    BY <1>1, <1>2 DEF Return
  <2>2. proc'[p].pc \notin WritingPCs
    BY <2>1 DEF Idle, WritingPCs
  <2>3. UpsertPortInState(p) => UNCHANGED overlap
    <3>1. SUFFICES ASSUME UpsertPortInState(p), NEW new, Readable,
                          proc' = [proc EXCEPT ![p].pc = "open", ![p].rows = new,
                                               ![p].base = file]
                   PROVE  FALSE
      BY DEF UpsertPortInState
    <3>2. proc'[p].pc = "open"
      BY <1>1, <3>1 DEF Process
    <3> QED BY <2>2, <3>2 DEF WritingPCs
  <2>4. ~WriteAppliedState(p)
    BY DEF Begins
  <2> QED BY <2>2, <2>3, <2>4 DEF Acts, Step, SyncLists, TeardownSandbox, Click, DiscoverOne,
             CancelStale, Present, Apply, UpsertPortInState, Dies
<1>3. CASE SyncLists(p) \/ CancelStale(p) \/ (\E b \in Boxes : TeardownSandbox(p, b))
           \/ (\E c \in Ports : Click(p, c))
  BY <1>1, <1>3 DEF SyncLists, CancelStale, TeardownSandbox, Click, Process, WritingPCs
<1>4. CASE Present(p)
  BY <1>1, <1>4 DEF Present, Goto, Process, WritingPCs
<1>5. CASE Apply(p) /\ ~Return(p)
  BY <1>1, <1>5 DEF Apply, Applied, Process, WritingPCs
<1>6. CASE DiscoverOne(p) /\ ~Return(p)
  <2>1. PICK b \in proc[p].boxes :
          LET rest == proc[p].boxes \ {b} IN
          proc' = [proc EXCEPT
            ![p].pc = IF rest = {} THEN "reconcile" ELSE "probe",
            ![p].boxes = rest,
            ![p].desired = @ \cup {[box |-> b, port |-> q] : q \in listens[b]}]
    BY <1>6 DEF DiscoverOne
  <2>2. proc'[p].pc \in {"reconcile", "probe"}
    BY <1>1, <2>1 DEF Process
  <2> QED BY <1>6, <2>2 DEF DiscoverOne, WritingPCs
<1>7. Dies(p) => Return(p)
  BY DEF Dies
<1> QED BY <1>2, <1>3, <1>4, <1>5, <1>6, <1>7 DEF Acts, Step, Begins

LEMMA BeginsAre ==
  ASSUME TypeInv, NEW p \in Procs, Begins(p)
  PROVE  /\ proc'[p].pc = "open" /\ proc[p].pc \notin WritingPCs
         /\ UNCHANGED fileVars /\ BeginWriting(p)
         /\ p \in Clicks =>
              file = proc'[p].base /\ proc'[p].rows \in Upserted(file, proc'[p].key.port)
<1>1. proc \in [Procs -> Process] /\ proc[p] \in Process /\ ProcOK(p)
  BY DEF TypeInv, TypeOK
<1>2. CASE WriteAppliedState(p)
  <2>1. proc'[p].pc = "open" /\ p \notin Clicks
    BY <1>1, <1>2 DEF WriteAppliedState, Process, ProcOK, WritingPCs
  <2> QED BY <1>2, <2>1 DEF WriteAppliedState, WritingPCs
<1>3. CASE UpsertPortInState(p) /\ ~Return(p)
  <2>1. PICK new \in Upserted(file, proc[p].key.port) :
          proc' = [proc EXCEPT ![p].pc = "open", ![p].rows = new, ![p].base = file]
    BY <1>3 DEF UpsertPortInState
  <2>2. /\ proc'[p].pc = "open" /\ proc'[p].rows = new /\ proc'[p].base = file
        /\ proc'[p].key = proc[p].key
    BY <1>1, <2>1 DEF Process
  <2> QED BY <1>3, <2>1, <2>2 DEF UpsertPortInState, WritingPCs
<1> QED BY <1>2, <1>3 DEF Begins

LEMMA OverlapGrows ==
  ASSUME TypeInv, NEW p \in Procs, Acts(p)
  PROVE  overlap \subseteq overlap'
<1>1. CASE Begins(p)
  BY <1>1, BeginsAre DEF BeginWriting
<1> QED BY <1>1, Quiet DEF OpenTmp, FillTmp, InstallTmp

(* The write of one that is alone goes to its own, empty temporary file.    *)
LEMMA FillAlone ==
  ASSUME TypeInv, NEW p \in Procs, FillTmp(p), Alone(p), p \notin overlap
  PROVE  /\ tmp' = proc[p].rows /\ file' = file
         /\ proc'[p] = [proc[p] EXCEPT !.pc = "install"]
<1>1. proc[p].pc = "fill" /\ proc[p].fd = "tmp" /\ tmp = Empty
  BY DEF FillTmp, Alone, WritingPCs
<1>2. Filled(tmp, proc[p].rows) = {proc[p].rows}
  BY <1>1 DEF Filled
<1> QED BY <1>1, <1>2 DEF FillTmp, Fill, Goto, TypeInv, TypeOK

LEMMA AloneOfActor ==
  ASSUME TypeInv, WriteInv, NEW p \in Procs, Acts(p)
  PROVE  Alone(p)'
<1> SUFFICES ASSUME proc'[p].pc \in WritingPCs, p \notin overlap' PROVE Alone(p)'
  BY DEF Alone
<1>1. /\ proc \in [Procs -> Process] /\ proc[p] \in Process /\ Alone(p) /\ p \notin overlap
  BY OverlapGrows DEF TypeInv, TypeOK, WriteInv
<1>2. \A q \in Procs \ {p} : proc'[q].pc = proc[q].pc
  BY MovesAlone DEF Unmoved
<1>3. CASE Begins(p)
  <2>1. Writing = {}
    BY <1>3, BeginsAre DEF BeginWriting
  <2>2. \A q \in Procs : proc[q].pc \notin WritingPCs
    BY <2>1 DEF Writing, WritingPCs
  <2> QED BY <1>2, <1>3, <2>2, BeginsAre DEF Alone, fileVars
<1>4. CASE OpenTmp(p)
  <2>1. /\ proc'[p].pc = "fill" /\ proc'[p].fd = "tmp" /\ proc'[p].rows = proc[p].rows
        /\ proc'[p].base = proc[p].base /\ proc'[p].key = proc[p].key
    BY <1>1, <1>4 DEF OpenTmp, Process
  <2>2. tmp' = Empty /\ file' = file /\ proc[p].pc \in WritingPCs
    BY <1>4 DEF OpenTmp, WritingPCs
  <2> QED BY <1>1, <1>2, <2>1, <2>2 DEF Alone
<1>5. CASE FillTmp(p)
  <2>1. /\ tmp' = proc[p].rows /\ file' = file
        /\ proc'[p] = [proc[p] EXCEPT !.pc = "install"]
    BY <1>1, <1>5, FillAlone
  <2>2. /\ proc'[p].pc = "install" /\ proc'[p].rows = proc[p].rows
        /\ proc'[p].base = proc[p].base /\ proc'[p].key = proc[p].key
    BY <1>1, <2>1 DEF Process
  <2>3. proc[p].pc \in WritingPCs
    BY <1>5 DEF FillTmp, WritingPCs
  <2> QED BY <1>1, <1>2, <2>1, <2>2, <2>3 DEF Alone
<1>6. CASE InstallTmp(p)
  <2>1. proc'[p] = [Idle EXCEPT !.pc = "done"]
    BY <1>1, <1>6 DEF InstallTmp, Return
  <2>2. proc'[p].pc = "done"
    BY <2>1 DEF Idle
  <2> QED BY <2>2 DEF WritingPCs
<1> QED BY <1>3, <1>4, <1>5, <1>6, Quiet

LEMMA AloneOfOther ==
  ASSUME TypeInv, WriteInv, NEW p \in Procs, Acts(p), NEW q \in Procs \ {p}
  PROVE  Alone(q)'
<1> SUFFICES ASSUME proc'[q].pc \in WritingPCs, q \notin overlap' PROVE Alone(q)'
  BY DEF Alone
<1>1. /\ proc[q].pc \in WritingPCs /\ q \notin overlap /\ Alone(q)
      /\ \A r \in Procs \ {p} : proc'[r].pc = proc[r].pc
  BY OverlapGrows, MovesAlone DEF WriteInv, Unmoved
<1>2. proc[p].pc \notin WritingPCs
  BY <1>1 DEF Alone
<1>3. ~OpenTmp(p) /\ ~FillTmp(p) /\ ~InstallTmp(p)
  BY <1>2 DEF OpenTmp, FillTmp, InstallTmp, WritingPCs
<1>4. ~Begins(p)
  BY <1>1, BeginsAre DEF BeginWriting, Writing, WritingPCs
<1>5. proc'[p].pc \notin WritingPCs /\ UNCHANGED <<fileVars, overlap>>
  BY <1>3, <1>4, Quiet
<1>6. proc'[q] = proc[q]
  BY <1>3, MovesAlone
<1> QED BY <1>1, <1>5, <1>6 DEF Alone, fileVars

LEMMA TornKept ==
  ASSUME TypeInv, WriteInv, NEW p \in Procs, Acts(p)
  PROVE  TornOnlyByOverlap'
<1> SUFFICES ASSUME overlap' = {} PROVE Readable'
  BY DEF TornOnlyByOverlap
<1>1. overlap = {} /\ Readable /\ Alone(p) /\ proc[p].rows \in SUBSET Row
  BY OverlapGrows DEF WriteInv, TornOnlyByOverlap, TypeInv, TypeOK, Process
<1>2. CASE FillTmp(p)
  BY <1>1, <1>2, FillAlone DEF Readable
<1>3. CASE InstallTmp(p) /\ file' = tmp
  <2>1. tmp = proc[p].rows
    BY <1>1, <1>3 DEF InstallTmp, Alone, WritingPCs
  <2> QED BY <1>1, <1>3, <2>1, ConstantsAssumption DEF Readable
<1> QED BY <1>1, <1>2, <1>3, FilesAre DEF Readable, fileVars

LEMMA WriteKept == TypeInv /\ WriteInv /\ [Next]_vars => WriteInv'
<1>1. ASSUME TypeInv, WriteInv, NEW p \in Procs, Acts(p) PROVE WriteInv'
  BY <1>1, AloneOfActor, AloneOfOther, TornKept DEF WriteInv
<1>2. ASSUME WriteInv, UNCHANGED <<proc, fileVars, overlap>> PROVE WriteInv'
  BY <1>2 DEF WriteInv, TornOnlyByOverlap, Readable, Alone, fileVars
<1> QED BY <1>1, <1>2, NextIs, OutsideIs DEF vars

LEMMA WriteHolds == Spec => []WriteInv
<1>1. Init => WriteInv
  <2> SUFFICES ASSUME Init PROVE WriteInv
    OBVIOUS
  <2>1. TornOnlyByOverlap
    BY ConstantsAssumption DEF Init, TornOnlyByOverlap, Readable
  <2>2. \A p \in Procs : proc[p].pc \notin WritingPCs
    BY DEF Init, Idle, WritingPCs
  <2> QED BY <2>1, <2>2 DEF WriteInv, Alone
<1> QED BY <1>1, WriteKept, TypesHold, PTL DEF Spec

(* Wherever processes die or fail, forwards.state is torn only if two of    *)
(* them rewrote it at once.                                                 *)
THEOREM TornByOverlap == Spec => []TornOnlyByOverlap
<1>1. WriteInv => TornOnlyByOverlap
  BY DEF WriteInv
<1> QED BY <1>1, WriteHolds, PTL

(* An upsert gives the port its status and leaves other rows as they were.  *)
LEMMA UpsertedKeeps ==
  ASSUME NEW rows \in SUBSET Row, NEW q \in Ports, NEW new \in Upserted(rows, q)
  PROVE  /\ \E r \in new : r.port = q /\ r.status = StatusOf(q)
         /\ {r \in new : r.port # q} = {r \in rows : r.port # q}
<1> DEFINE same == {r \in rows : r.port = q}
<1>1. CASE same = {}
  <2>1. new = rows \cup {NewRow(q)}
    BY <1>1 DEF Upserted
  <2>2. NewRow(q).port = q /\ NewRow(q).status = StatusOf(q)
    BY DEF NewRow
  <2> QED BY <2>1, <2>2
<1>2. CASE same # {}
  <2>1. PICK r \in same : new = (rows \ {r}) \cup {[r EXCEPT !.status = StatusOf(q)]}
    BY <1>2 DEF Upserted
  <2> DEFINE x == [r EXCEPT !.status = StatusOf(q)]
  <2>2. x.port = q /\ x.status = StatusOf(q) /\ r.port = q
    BY <2>1 DEF Row
  <2>3. new = (rows \ {r}) \cup {x}
    BY <2>1
  <2> HIDE DEF x
  <2> QED BY <2>2, <2>3
<1> QED BY <1>1, <1>2

(* Whatever else runs, a click that no rewriting overlapped shows its port  *)
(* and leaves the rows of the others.                                       *)
THEOREM ClicksKeepRows == Spec => ClickKeepsOtherRows
<1> DEFINE Keeps(p) ==
      LET q == proc[p].key.port
          Others(rows) == {r \in rows : r.port # q} IN
      /\ Readable' /\ \E r \in Shown' : r.port = q /\ r.status = StatusOf(q)
      /\ Others(Shown') = Others(proc[p].base)
<1>1. ASSUME TypeInv, WriteInv, Next, NEW p \in Clicks,
             file' # file, Finishes(p), p \notin overlap
      PROVE  Keeps(p)
  <2>1. PICK a \in Procs : Acts(a)
    BY <1>1, NextIs, OutsideIs DEF fileVars
  <2>2. /\ p \in Procs /\ Alone(p) /\ proc[p].pc = "install" /\ proc'[p] # proc[p]
        /\ proc[p] \in Process /\ ProcOK(p)
    BY <1>1 DEF Procs, WriteInv, TypeInv, TypeOK, Finishes
  <2>3. /\ tmp = proc[p].rows /\ file = proc[p].base
        /\ proc[p].rows \in Upserted(file, proc[p].key.port)
        /\ \A q \in Procs : proc[q].pc \in WritingPCs => q = p
    BY <1>1, <2>2 DEF Alone, WritingPCs
  <2>4. InstallTmp(a) /\ file' = tmp
    <3>1. a # p => InstallTmp(a)
      BY <1>1, <2>1, <2>2, MovesAlone
    <3>2. OpenTmp(a) \/ FillTmp(a) \/ InstallTmp(a) => a = p
      BY <2>3 DEF OpenTmp, FillTmp, InstallTmp, WritingPCs
    <3> QED BY <1>1, <2>1, <2>2, <3>1, <3>2, FilesAre DEF FillTmp, fileVars
  <2>5. proc[p].rows \in SUBSET Row /\ proc[p].base \in SUBSET Row /\ proc[p].key.port \in Ports
    BY <1>1, <2>2 DEF Process, ProcOK, ClickKey, WritingPCs
  <2>6. Readable' /\ Shown' = proc[p].rows
    BY <2>3, <2>4, <2>5, ConstantsAssumption DEF Readable, Shown
  <2> QED BY <2>3, <2>5, <2>6, UpsertedKeeps
<1>2. TypeInv /\ WriteInv /\ [Next]_vars =>
        [\A p \in Clicks :
           file' # file /\ Finishes(p) /\ p \notin overlap =>
             LET q == proc[p].key.port
                 Others(rows) == {r \in rows : r.port # q} IN
             /\ Readable' /\ \E r \in Shown' : r.port = q /\ r.status = StatusOf(q)
             /\ Others(Shown') = Others(proc[p].base)]_vars
  BY <1>1
<1> QED BY <1>2, TypesHold, WriteHolds, PTL DEF Spec, ClickKeepsOtherRows

=============================================================================
