----------------------- MODULE EngineProvisioning_proofs -----------------------
(* Proofs of the invariants of EngineProvisioning. *)
EXTENDS EngineProvisioning, TLAPS

CopyingRun(r) == run[r].pc \in Copying

(* Of the run that copies alone: it is the one that copied last, it has not *)
(* written its marker, and the files are as far as it is.                   *)
FilesFollow(r) ==
  /\ last = run[r].version /\ marker # last
  /\ run[r].pc = "sendingBinary" => binary = Cut(last)
  /\ run[r].pc = "sendingManifest" => manifest = Cut(last)
  /\ run[r].pc \in {"manifest", "sendingManifest", "marker"} => binary = Whole(last)
  /\ run[r].pc = "marker" => manifest = Whole(last)

Alone ==
  ~blind =>
    /\ \A r, q \in Runs : CopyingRun(r) /\ CopyingRun(q) => r = q
    /\ \A r \in Runs : CopyingRun(r) => FilesFollow(r)

IInv == TypeOK /\ Alone /\ MarkerNamesInstalled

(* A step of r, what it leaves of the other runs. *)
Others(r) == \A q \in Runs \ {r} : run'[q] = run[q]

Local == {Idle} \cup [pc : Copying \cup {"consent", "version", "stat"}, version : Versions]

LEMMA FaultsOK ==
  ASSUME TypeOK, Fail \/ UNCHANGED faults
  PROVE  faults' \in 0 .. MaxFaults
BY ConstantsAssumption DEF Fail, TypeOK

LEMMA EndsLocal ==
  ASSUME TypeOK, NEW r \in Runs, Ends(r)
  PROVE  /\ run' \in [Runs -> Local] /\ run'[r] = Idle /\ Others(r)
         /\ ~CopyingRun(r)'
BY DEF TypeOK, Ends, Local, Others, CopyingRun, Idle, Copying

LEMMA GotoLocal ==
  ASSUME TypeOK, NEW r \in Runs, ~At(r, "idle"),
         NEW pc \in Copying \cup {"consent", "version", "stat"}, Goto(r, pc)
  PROVE  /\ run' \in [Runs -> Local] /\ Others(r)
         /\ run'[r].pc = pc /\ run'[r].version = run[r].version
         /\ run[r].version \in Versions
<1>1. run[r] \in [pc : Copying \cup {"consent", "version", "stat"}, version : Versions]
  BY DEF TypeOK, At, Idle
<1>2. [run[r] EXCEPT !.pc = pc]
        \in [pc : Copying \cup {"consent", "version", "stat"}, version : Versions]
  BY <1>1
<1> QED BY <1>1, <1>2 DEF TypeOK, Goto, Local, Others

LEMMA WholeCut ==
  ASSUME NEW v \in Versions
  PROVE  Whole(v) \in Files /\ Cut(v) \in Files
BY DEF Whole, Cut, Files

LEMMA FilesSent ==
  ASSUME NEW r, NEW pc, NEW file \in Files
  PROVE  Sent(r, pc, file) \subseteq Files
BY DEF Sent, Files

(* What a laptop does outside of a run begins at most one, which copies     *)
(* nothing yet.                                                             *)
Laptop(l) ==
  Startup(l) \/ ProvisionByHand(l) \/ Revoke(l) \/ ConsentFileChanges(l) \/ PluginChanges(l)

LEMMA BeginsLocal ==
  ASSUME TypeOK, NEW r \in Runs, NEW agreed \in BOOLEAN, Begins(r, agreed)
  PROVE  /\ run' \in [Runs -> Local] /\ Others(r) /\ ~CopyingRun(r) /\ ~CopyingRun(r)'
         /\ asked' \in [Runs -> BOOLEAN] /\ runs' \in 0 .. MaxRuns
<1>1. LaptopOf(r) \in Laptops
  BY DEF Runs, LaptopOf
<1>2. [pc |-> "consent", version |-> version[LaptopOf(r)]] \in Local
  BY <1>1 DEF TypeOK, Local
<1>3. run' \in [Runs -> Local] /\ Others(r) /\ ~CopyingRun(r)'
  BY <1>2 DEF TypeOK, Begins, Others, CopyingRun, Copying, Local
<1>4. ~CopyingRun(r)
  BY DEF Begins, At, CopyingRun, Copying
<1>5. asked' \in [Runs -> BOOLEAN]
  BY Zenon DEF Begins, TypeOK
<1>6. runs' \in 0 .. MaxRuns
  BY ConstantsAssumption DEF Begins, TypeOK
<1> QED BY <1>3, <1>4, <1>5, <1>6

LEMMA LaptopKeepsIInv ==
  ASSUME IInv, NEW l \in Laptops, Laptop(l) PROVE IInv'
<1>1. \A k \in {"startup", "hand"} : <<l, k>> \in Runs
  BY DEF Runs
<1>2. changes' \in 0 .. MaxChanges
  <2>1. Change \/ UNCHANGED changes
    BY DEF Laptop, Startup, ProvisionByHand, Revoke, ConsentFileChanges, PluginChanges
  <2> QED BY <2>1, ConstantsAssumption DEF IInv, TypeOK, Change
<1>3. /\ UNCHANGED <<binary, manifest, marker, faults>>
      /\ UNCHANGED <<last, blind>>
  BY DEF Laptop, Startup, ProvisionByHand, Revoke, ConsentFileChanges, PluginChanges, files
<1>4. consent' \in [Laptops -> {"none", "given", "unreadable"}]
  BY DEF IInv, TypeOK, Laptop, Startup, ProvisionByHand, Revoke, ConsentFileChanges,
     PluginChanges
<1>5. version' \in [Laptops -> Versions]
  BY DEF IInv, TypeOK, Laptop, Startup, ProvisionByHand, Revoke, ConsentFileChanges,
     PluginChanges
<1>6. /\ run' \in [Runs -> Local] /\ asked' \in [Runs -> BOOLEAN] /\ runs' \in 0 .. MaxRuns
      /\ \A q \in Runs : (CopyingRun(q)' <=> CopyingRun(q))
                         /\ (CopyingRun(q) => run'[q] = run[q])
  <2>1. CASE Startup(l) \/ ProvisionByHand(l)
    <3>1. PICK r \in Runs, agreed \in BOOLEAN : Begins(r, agreed)
      BY <1>1, <2>1 DEF Startup, ProvisionByHand
    <3> QED BY <3>1, BeginsLocal DEF IInv, Others, CopyingRun
  <2>2. CASE Revoke(l) \/ ConsentFileChanges(l) \/ PluginChanges(l)
    BY <2>2 DEF IInv, TypeOK, Local, CopyingRun, Revoke, ConsentFileChanges, PluginChanges
  <2> QED BY <2>1, <2>2 DEF Laptop
<1>7. TypeOK'
  BY <1>2, <1>3, <1>4, <1>5, <1>6 DEF IInv, TypeOK, Local
<1> QED BY <1>3, <1>6, <1>7 DEF IInv, Alone, FilesFollow, MarkerNamesInstalled, CopyingRun

(* Steps before the copies. *)
LEMMA CheckKeepsIInv ==
  ASSUME IInv, NEW r \in Runs, CheckConsent(r) \/ ReadRemoteVersion(r) \/ NoSourceBinary(r)
  PROVE  IInv'
<1>1. At(r, "consent") \/ At(r, "version") \/ At(r, "stat")
  BY DEF CheckConsent, ReadRemoteVersion, NoSourceBinary
<1>2. Ends(r) \/ Goto(r, "version") \/ Goto(r, "stat")
  BY DEF CheckConsent, ReadRemoteVersion, NoSourceBinary
<1>3. /\ run' \in [Runs -> Local] /\ Others(r) /\ ~CopyingRun(r) /\ ~CopyingRun(r)'
  BY <1>1, <1>2, EndsLocal, GotoLocal DEF IInv, CopyingRun, Copying, At
<1>4. Fail \/ UNCHANGED faults
  BY DEF CheckConsent, ReadRemoteVersion, NoSourceBinary, budget
<1>5. /\ UNCHANGED <<version, consent, binary, manifest, marker>>
      /\ UNCHANGED <<runs, changes, asked, last, blind>>
  BY DEF CheckConsent, ReadRemoteVersion, NoSourceBinary, budget, files
<1>6. TypeOK'
  BY <1>3, <1>4, <1>5, FaultsOK DEF IInv, TypeOK, Local
<1> QED BY <1>3, <1>5, <1>6 DEF IInv, Alone, FilesFollow, MarkerNamesInstalled, CopyingRun, Others

LEMMA BeginCopiesKeepsIInv ==
  ASSUME IInv, NEW r \in Runs, BeginCopies(r) PROVE IInv'
<1>1. /\ run' \in [Runs -> Local] /\ Others(r) /\ ~CopyingRun(r)
      /\ run'[r].pc = "binary" /\ run'[r].version = run[r].version
      /\ run[r].version \in Versions /\ last' = run[r].version
  BY GotoLocal DEF IInv, BeginCopies, At, CopyingRun, Copying
<1>2. UNCHANGED <<version, consent, binary, manifest, marker, runs, changes, faults, asked>>
  BY DEF BeginCopies, files, budget
<1>3. blind' \in BOOLEAN
  BY DEF BeginCopies
<1>4. TypeOK'
  BY <1>1, <1>2, <1>3 DEF IInv, TypeOK, Local
<1>5. ~blind' => marker # run[r].version /\ \A q \in Runs \ {r} : ~CopyingRun(q)
  BY DEF BeginCopies, CopyingRun
<1>6. CopyingRun(r)' /\ \A q \in Runs \ {r} : CopyingRun(q)' => CopyingRun(q)
  BY <1>1 DEF CopyingRun, Copying, Others
<1>7. ~blind' => FilesFollow(r)'
  BY <1>1, <1>2, <1>5 DEF FilesFollow
<1>8. Alone'
  BY <1>5, <1>6, <1>7 DEF Alone
<1> QED BY <1>4, <1>6, <1>8 DEF IInv, MarkerNamesInstalled, CopyingRun

(* A step of a run that copies and goes on. *)
LEMMA CopyKeepsIInv ==
  ASSUME IInv, NEW r \in Runs,
         OpenBinary(r) \/ SendBinary(r) \/ OpenManifest(r) \/ SendManifest(r)
  PROVE  IInv'
<1>1. PICK pc \in Copying : Goto(r, pc)
  BY DEF OpenBinary, SendBinary, OpenManifest, SendManifest, Copying
<1>2. CopyingRun(r) /\ ~At(r, "idle")
  BY DEF OpenBinary, SendBinary, OpenManifest, SendManifest, Copying, At, CopyingRun
<1>3. /\ run' \in [Runs -> Local] /\ Others(r)
      /\ run'[r].pc = pc /\ run'[r].version = run[r].version
      /\ run[r].version \in Versions
  BY <1>1, <1>2, GotoLocal DEF IInv
<1>4. /\ UNCHANGED <<version, consent, marker, runs, changes, faults, asked, last>>
  BY DEF OpenBinary, SendBinary, OpenManifest, SendManifest, budget
<1>5. binary' \in Files /\ manifest' \in Files /\ blind' \in BOOLEAN /\ (blind => blind')
  <2>1. Sources(r) \subseteq Versions
    BY DEF Sources, Runs, LaptopOf, IInv, TypeOK
  <2>2. CASE OpenBinary(r)
    <3>1. PICK v \in Sources(r) : binary' = Cut(v) /\ blind' = (blind \/ v # run[r].version)
      BY <2>2 DEF OpenBinary
    <3>2. UNCHANGED manifest
      BY <2>2 DEF OpenBinary
    <3> QED BY <2>1, <3>1, <3>2, WholeCut DEF IInv, TypeOK
  <2>3. CASE OpenManifest(r)
    <3>1. PICK v \in Sources(r) : manifest' = Cut(v) /\ blind' = (blind \/ v # run[r].version)
      BY <2>3 DEF OpenManifest
    <3>2. UNCHANGED binary
      BY <2>3 DEF OpenManifest
    <3> QED BY <2>1, <3>1, <3>2, WholeCut DEF IInv, TypeOK
  <2>4. CASE SendBinary(r)
    BY <2>4, FilesSent DEF SendBinary, IInv, TypeOK
  <2>5. CASE SendManifest(r)
    BY <2>5, FilesSent DEF SendManifest, IInv, TypeOK
  <2> QED BY <2>2, <2>3, <2>4, <2>5
<1>6. TypeOK'
  BY <1>3, <1>4, <1>5 DEF IInv, TypeOK, Local
<1>7. \A q \in Runs : CopyingRun(q)' <=> CopyingRun(q)
  BY <1>2, <1>3 DEF CopyingRun, Others
<1>8. ASSUME ~blind' PROVE FilesFollow(r)'
  <2>1. FilesFollow(r) /\ \A q \in Runs \ {r} : ~CopyingRun(q)
    BY <1>2, <1>5, <1>8 DEF IInv, Alone
  <2>2. ~\E q \in Runs \ {r} : At(q, "sendingBinary") \/ At(q, "sendingManifest")
    BY <2>1 DEF CopyingRun, Copying, At
  <2>3. CASE OpenBinary(r)
    <3>1. run'[r].pc = "sendingBinary"
      BY <2>3 DEF OpenBinary, Goto, IInv, TypeOK
    <3>2. binary' = Cut(run[r].version)
      BY <1>8, <2>3 DEF OpenBinary
    <3> QED BY <1>3, <1>4, <2>1, <3>1, <3>2 DEF FilesFollow
  <2>4. CASE SendBinary(r)
    <3>1. run'[r].pc = "manifest" /\ run[r].pc = "sendingBinary"
      BY <2>4 DEF SendBinary, Goto, At, IInv, TypeOK
    <3>2. binary' = Whole(last)
      BY <2>1, <2>2, <2>4, <3>1 DEF FilesFollow, SendBinary, Sent, Whole, Cut
    <3> QED BY <1>3, <1>4, <2>1, <3>1, <3>2 DEF FilesFollow
  <2>5. CASE OpenManifest(r)
    <3>1. run[r].pc = "manifest" /\ run'[r].pc = "sendingManifest" /\ binary' = binary
      BY <2>5 DEF OpenManifest, Goto, At, IInv, TypeOK
    <3>2. manifest' = Cut(run[r].version)
      BY <1>8, <2>5 DEF OpenManifest
    <3> QED BY <1>3, <1>4, <2>1, <3>1, <3>2 DEF FilesFollow
  <2>6. CASE SendManifest(r)
    <3>1. run[r].pc = "sendingManifest" /\ run'[r].pc = "marker" /\ binary' = binary
      BY <2>6 DEF SendManifest, Goto, At, IInv, TypeOK
    <3>2. manifest' = Whole(last)
      BY <2>1, <2>2, <2>6, <3>1 DEF FilesFollow, SendManifest, Sent, Whole, Cut
    <3> QED BY <1>3, <1>4, <2>1, <3>1, <3>2 DEF FilesFollow
  <2> QED BY <2>3, <2>4, <2>5, <2>6
<1>9. Alone'
  BY <1>2, <1>4, <1>5, <1>7, <1>8 DEF IInv, Alone
<1> QED BY <1>2, <1>6, <1>7, <1>9 DEF IInv, MarkerNamesInstalled, CopyingRun

(* A run ends, with its marker or without: if it copied alone, the marker   *)
(* named another version before, and all of its own is there.               *)
LEMMA EndKeepsIInv ==
  ASSUME IInv, NEW r \in Runs, CopyFails(r) \/ WriteMarker(r) \/ Dies(r) PROVE IInv'
<1>1. /\ run' \in [Runs -> Local] /\ Others(r) /\ ~CopyingRun(r)'
  BY EndsLocal DEF IInv, CopyFails, WriteMarker, Dies
<1>2. ~At(r, "idle") /\ (WriteMarker(r) => At(r, "marker"))
  BY DEF CopyFails, WriteMarker, Dies, At, Copying
<1>3. run[r].version \in Versions
  BY <1>2 DEF IInv, TypeOK, Idle, At
<1>4. /\ UNCHANGED <<version, consent, binary, manifest>>
      /\ UNCHANGED <<runs, changes, asked, last, blind>>
  BY DEF CopyFails, WriteMarker, Dies, files
<1>5. marker' \in {marker, None} \/ (WriteMarker(r) /\ marker' = run[r].version)
  BY DEF CopyFails, WriteMarker, Dies, files
<1>6. Fail \/ UNCHANGED faults
  BY DEF CopyFails, WriteMarker, Dies
<1>7. TypeOK'
  BY <1>1, <1>3, <1>4, <1>5, <1>6, FaultsOK DEF IInv, TypeOK, Local
<1>8. \A q \in Runs : CopyingRun(q)' => q # r /\ CopyingRun(q) /\ run'[q] = run[q]
  BY <1>1 DEF CopyingRun, Others
<1>9. ASSUME ~blind PROVE Alone'
  <2>1. \A q \in Runs \ {r} : CopyingRun(r) => ~CopyingRun(q)
    BY <1>9 DEF IInv, Alone
  <2>2. CASE CopyingRun(r)
    BY <1>8, <2>1, <2>2 DEF Alone
  <2>3. CASE ~CopyingRun(r)
    <3>1. UNCHANGED marker
      BY <2>3 DEF CopyFails, WriteMarker, Dies, files, CopyingRun, Copying, At
    <3> QED BY <1>4, <1>8, <1>9, <3>1 DEF IInv, Alone, FilesFollow
  <2> QED BY <2>2, <2>3
<1>10. MarkerNamesInstalled'
  <2> SUFFICES ASSUME marker' # None, marker' = last', ~blind',
                      \A q \in Runs : ~CopyingRun(q)'
               PROVE  binary' = Whole(marker') /\ manifest' = Whole(marker')
    BY DEF MarkerNamesInstalled, CopyingRun
  <2>1. CASE CopyingRun(r)
    <3>1. FilesFollow(r)
      BY <1>4, <2>1 DEF IInv, Alone
    <3>2. WriteMarker(r) /\ At(r, "marker") /\ marker' = last
      BY <1>2, <1>4, <1>5, <3>1 DEF FilesFollow
    <3> QED BY <1>4, <3>1, <3>2 DEF FilesFollow, At
  <2>2. CASE ~CopyingRun(r)
    <3>1. UNCHANGED marker
      BY <2>2 DEF CopyFails, WriteMarker, Dies, files, CopyingRun, Copying, At
    <3>2. \A q \in Runs : ~CopyingRun(q)
      BY <1>1, <2>2 DEF CopyingRun, Others
    <3> QED BY <1>4, <3>1, <3>2 DEF IInv, MarkerNamesInstalled, CopyingRun
  <2> QED BY <2>1, <2>2
<1> QED BY <1>4, <1>7, <1>8, <1>9, <1>10 DEF IInv, Alone

LEMMA NextKeepsIInv == IInv /\ [Next]_vars => IInv'
<1> SUFFICES ASSUME IInv, [Next]_vars PROVE IInv'
  OBVIOUS
<1>1. CASE UNCHANGED vars
  BY <1>1 DEF IInv, TypeOK, Alone, FilesFollow, MarkerNamesInstalled, CopyingRun, vars,
     files, budget
<1> QED BY <1>1, LaptopKeepsIInv, CheckKeepsIInv, BeginCopiesKeepsIInv, CopyKeepsIInv,
       EndKeepsIInv DEF Next, Laptop, Step

LEMMA Inductive == Spec => []IInv
<1>1. ASSUME Init PROVE IInv
  <2>1. 0 \in 0 .. MaxRuns /\ 0 \in 0 .. MaxChanges /\ 0 \in 0 .. MaxFaults
    BY ConstantsAssumption
  <2>2. TypeOK
    BY <1>1, <2>1 DEF Init, TypeOK, Files, NoFile
  <2>3. \A r \in Runs : ~CopyingRun(r)
    BY <1>1 DEF Init, Idle, CopyingRun, Copying
  <2> QED BY <1>1, <2>2, <2>3 DEF Init, IInv, Alone, MarkerNamesInstalled
<1> QED BY <1>1, NextKeepsIInv, PTL DEF Spec

(* Of any number of laptops and runs: the files on the engine are of some   *)
(* version, and who is past the consent has one to install.                 *)
THEOREM TypeCorrect == Spec => []TypeOK
<1>1. IInv => TypeOK
  BY DEF IInv
<1> QED BY <1>1, Inductive, PTL

(* Wherever runs fail or die, and whatever versions come and go, a marker   *)
(* that names the version copied last has all of it behind it, unless two   *)
(* runs copied at once or one copied over its own marker.                   *)
THEOREM MarkerVouches == Spec => []MarkerNamesInstalled
<1>1. IInv => MarkerNamesInstalled
  BY DEF IInv
<1> QED BY <1>1, Inductive, PTL

(* Consent that is recorded covers the run that is about to read it. *)
Covered(r) ==
  /\ consent[LaptopOf(r)] = "given" /\ At(r, "consent") => asked[r]
  /\ run[r].pc \in Copying \cup {"version", "stat"} => asked[r]

(* If the name of the engine collides with no other, nobody writes to it    *)
(* without a consent of that laptop's operator to this engine.              *)
THEOREM ConsentCovers ==
  ASSUME ~Collides
  PROVE  Spec => []ConsentCoversWrites
<1> DEFINE AllCovered == \A r \in Runs : Covered(r)
<1>1. Init => AllCovered
  BY DEF Init, Covered, Idle, At, Copying
<1>2. AllCovered => ConsentCoversWrites
  BY DEF Covered, ConsentCoversWrites
<1>3. IInv /\ AllCovered /\ [Next]_vars => AllCovered'
  <2> SUFFICES ASSUME IInv, AllCovered, [Next]_vars, NEW r \in Runs PROVE Covered(r)'
    OBVIOUS
  <2>1. LaptopOf(r) \in Laptops /\ TypeOK /\ Covered(r)
    BY DEF Runs, LaptopOf, IInv
  <2>2. CASE UNCHANGED vars
    BY <2>1, <2>2 DEF vars, Covered, At
  <2>3. ASSUME NEW q \in Runs, NEW agreed \in BOOLEAN, Begins(q, agreed),
               \A l \in Laptops : consent'[l] = "given" =>
                  consent[l] = "given" \/ (agreed /\ l = LaptopOf(q)),
               consent[LaptopOf(q)] = "given" => agreed
        PROVE  Covered(r)'
    <3>1. CASE r = q
      BY <2>1, <2>3, <3>1 DEF Begins, Covered, At, TypeOK, Copying
    <3>2. CASE r # q
      BY <2>1, <2>3, <3>2 DEF Begins, Covered, At, TypeOK
    <3> QED BY <3>1, <3>2
  <2>4. ASSUME NEW l \in Laptops, Startup(l) \/ ProvisionByHand(l) PROVE Covered(r)'
    <3>1. /\ <<l, "startup">> \in Runs /\ LaptopOf(<<l, "startup">>) = l
          /\ <<l, "hand">> \in Runs /\ LaptopOf(<<l, "hand">>) = l
      BY DEF Runs, LaptopOf
    <3>2. CASE Startup(l)
      BY <2>3, <3>1, <3>2 DEF Startup
    <3>3. CASE ProvisionByHand(l)
      <4>1. \A m \in Laptops : consent'[m] = "given" => consent[m] = "given" \/ m = l
        BY <3>3 DEF ProvisionByHand, IInv, TypeOK
      <4> QED BY <2>3, <3>1, <3>3, <4>1 DEF ProvisionByHand
    <3> QED BY <2>4, <3>2, <3>3
  <2>5. ASSUME NEW l \in Laptops, Revoke(l) \/ ConsentFileChanges(l) \/ PluginChanges(l)
        PROVE  Covered(r)'
    <3>1. UNCHANGED <<run, asked>>
      BY <2>5 DEF Revoke, ConsentFileChanges, PluginChanges
    <3>2. consent'[LaptopOf(r)] = "given" => consent[LaptopOf(r)] = "given"
      BY <2>1, <2>5 DEF Revoke, ConsentFileChanges, PluginChanges, TypeOK
    <3> QED BY <2>1, <3>1, <3>2 DEF Covered, At
  <2>6. ASSUME NEW q \in Runs, Step(q) PROVE Covered(r)'
    <3>1. UNCHANGED <<consent, asked>>
      BY <2>6 DEF Step, CheckConsent, ReadRemoteVersion, NoSourceBinary, BeginCopies,
         OpenBinary, SendBinary, OpenManifest, SendManifest, CopyFails, WriteMarker, Dies
    <3>2. \/ Ends(q)
          \/ \E pc \in Copying \cup {"version", "stat"} : Goto(q, pc)
      BY <2>6 DEF Step, CheckConsent, ReadRemoteVersion, NoSourceBinary, BeginCopies,
         OpenBinary, SendBinary, OpenManifest, SendManifest, CopyFails, WriteMarker, Dies,
         Copying
    <3>3. CASE r # q
      <4>1. run'[r] = run[r]
        BY <3>2, <3>3 DEF Ends, Goto, TypeOK, IInv
      <4> QED BY <2>1, <3>1, <4>1 DEF Covered, At
    <3>4. CASE r = q
      <4>1. CASE Ends(q)
        <5>1. run'[r].pc = "idle"
          BY <2>1, <3>4, <4>1 DEF Ends, Idle, TypeOK
        <5> QED BY <5>1 DEF Covered, At, Copying
      <4>2. CASE CheckConsent(q) /\ ~Ends(q)
        BY <2>1, <3>1, <3>4, <4>2 DEF CheckConsent, Refused, Goto, Covered, At, TypeOK
      <4>3. CASE ~CheckConsent(q) /\ ~Ends(q)
        <5>1. run[q].pc \in Copying \cup {"version", "stat"}
          BY <2>6, <4>3 DEF Step, ReadRemoteVersion, NoSourceBinary, BeginCopies, OpenBinary,
             SendBinary, OpenManifest, SendManifest, CopyFails, WriteMarker, Dies, Copying, At
        <5>2. run'[q].pc # "consent"
          <6>1. PICK pc \in Copying \cup {"version", "stat"} : Goto(q, pc)
            BY <3>2, <4>3
          <6> QED BY <2>1, <6>1 DEF Goto, TypeOK, Copying
        <5> QED BY <2>1, <3>1, <3>4, <5>1, <5>2 DEF Covered, At
      <4> QED BY <4>1, <4>2, <4>3
    <3> QED BY <3>3, <3>4
  <2> QED BY <2>2, <2>4, <2>5, <2>6 DEF Next
<1> QED BY <1>1, <1>2, <1>3, Inductive, PTL DEF Spec
=============================================================================
