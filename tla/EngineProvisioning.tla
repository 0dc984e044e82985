-------------------------- MODULE EngineProvisioning --------------------------
(***************************************************************************)
(* How laptops install the plugin on one engine: EnsureProvisioned, which  *)
(* local-agent-startup runs for every enabled machine and the operator     *)
(* runs by hand, behind the consent the operator recorded on that laptop.  *)
(* An install is a series of remote commands without a lock; each of them  *)
(* may fail, and the laptop may die between any two.                       *)
(*                                                                         *)
(* Engines share nothing but a laptop's consent directory, and there only  *)
(* if their names differ in nothing but the punctuation that sanitizeTarget *)
(* replaces; Collides says so.  mkdir, chmod and herdr plugin link are run *)
(* for effects no property tells apart; that mkdir failed shows in the     *)
(* copy that follows.                                                      *)
(***************************************************************************)
EXTENDS Integers, FiniteSets

CONSTANTS
  Laptops,     \* machines the plugin is installed on
  Versions,    \* values of PluginVersion
  None,        \* no file
  Collides,    \* another engine's name is sanitized to the same file name
  MaxRuns,     \* bound on runs of EnsureProvisioned
  MaxChanges,  \* bound on upgrades and downgrades, and on revocations
  MaxFaults    \* bound on failed steps and deaths

ASSUME ConstantsAssumption ==
  /\ None \notin Versions /\ Collides \in BOOLEAN
  /\ MaxRuns \in Nat /\ MaxChanges \in Nat /\ MaxFaults \in Nat

VARIABLES
  version,   \* version[l]: of the plugin that is installed on laptop l
  consent,   \* consent[l]: "none", "given", or "unreadable"
  binary, manifest,   \* on the engine: whose version, and whether all of it
  marker,    \* the version file on the engine
  run,       \* run[r]: where run r is, and the PluginVersion it was started as
  runs, changes, faults,
  asked,     \* asked[r]: consent to this engine was given since r began, or before
  last,      \* the version of the run that copied last
  blind      \* it copied beside another run, or over its own version's marker,
             \* or files of another version than its own

files == <<binary, manifest, marker>>
budget == <<runs, changes, faults>>
vars == <<version, consent, files, run, budget, asked, last, blind>>

-----------------------------------------------------------------------------
Runs == Laptops \X {"startup", "hand"}
LaptopOf(r) == r[1]

NoFile == [of |-> None, whole |-> FALSE]
Whole(v) == [of |-> v, whole |-> TRUE]
Cut(v) == [of |-> v, whole |-> FALSE]
Idle == [pc |-> "idle", version |-> None]

Init ==
  /\ version \in [Laptops -> Versions]
  /\ consent = [l \in Laptops |-> "none"]
  /\ binary = NoFile /\ manifest = NoFile /\ marker = None
  /\ run = [r \in Runs |-> Idle]
  /\ runs = 0 /\ changes = 0 /\ faults = 0
  /\ asked = [r \in Runs |-> FALSE] /\ last = None /\ blind = FALSE

Copying == {"binary", "manifest", "marker", "sendingBinary", "sendingManifest"}
At(r, pc) == run[r].pc = pc
Goto(r, pc) == run' = [run EXCEPT ![r].pc = pc]
Ends(r) == run' = [run EXCEPT ![r] = Idle]
Fail == faults < MaxFaults /\ faults' = faults + 1

-----------------------------------------------------------------------------
(* Laptops *)

BeginsUnversioned(r, agreed) ==   \* Defect: LocalVersion is not set.
  /\ At(r, "idle") /\ runs < MaxRuns /\ runs' = runs + 1
  /\ run' = [run EXCEPT ![r].pc = "consent"]
  /\ asked' = [asked EXCEPT ![r] = agreed]

Begins(r, agreed) ==
  /\ At(r, "idle") /\ runs < MaxRuns /\ runs' = runs + 1
  /\ run' = [run EXCEPT ![r] = [pc |-> "consent", version |-> version[LaptopOf(r)]]]
  /\ asked' = [q \in Runs |->
       IF q = r THEN agreed
       ELSE asked[q] \/ (agreed /\ LaptopOf(q) = LaptopOf(r))]

(* local-agent-startup: consent is what was recorded before. *)
Startup(l) ==
  /\ Begins(<<l, "startup">>, consent[l] = "given")
  /\ UNCHANGED <<version, consent, files, changes, faults, last, blind>>

(* The operator answers y: the record is saved, over any older one.  Any    *)
(* other answer, and a record that cannot be saved, ends the command.       *)
ProvisionByHand(l) ==
  /\ Begins(<<l, "hand">>, TRUE)
  /\ consent' = [consent EXCEPT ![l] = "given"]
  /\ UNCHANGED <<version, files, changes, faults, last, blind>>

Change == changes < MaxChanges /\ changes' = changes + 1

Revoke(l) ==
  /\ consent[l] # "none" /\ Change
  /\ consent' = [consent EXCEPT ![l] = "none"]
  /\ UNCHANGED <<version, files, run, runs, faults, asked, last, blind>>

(* The operator consents to the engine whose name collides, or the file is  *)
(* damaged.                                                                 *)
ConsentFileChanges(l) ==
  /\ Change
  /\ \E c \in {"unreadable"} \cup IF Collides THEN {"given"} ELSE {} :
       consent' = [consent EXCEPT ![l] = c]
  /\ UNCHANGED <<version, files, run, runs, faults, asked, last, blind>>

(* An upgrade or a downgrade, which replaces the files: a process that runs *)
(* stays what it was, and scp sends the file that it opened.                *)
PluginChanges(l) ==
  /\ Change
  /\ \E v \in Versions \ {version[l]} : version' = [version EXCEPT ![l] = v]
  /\ UNCHANGED <<consent, files, run, runs, faults, asked, last, blind>>

-----------------------------------------------------------------------------
(* EnsureProvisioned *)

(* Defect: only a record that is missing is an error. *)
RefusedIfAbsent(r) == consent[LaptopOf(r)] = "none"

Refused(r) == consent[LaptopOf(r)] # "given"

CheckConsent(r) ==
  /\ At(r, "consent")
  /\ IF Refused(r) THEN Ends(r) ELSE Goto(r, "version")
  /\ UNCHANGED <<version, consent, files, budget, asked, last, blind>>

(* What the run takes for the engine's version: an ssh that fails reads     *)
(* nothing, and nothing is no version.                                      *)
ReadRemoteVersion(r) ==
  /\ At(r, "version")
  /\ \/ marker = run[r].version /\ Ends(r) /\ UNCHANGED faults
     \/ marker # run[r].version /\ Goto(r, "stat") /\ UNCHANGED faults
     \/ Fail /\ Goto(r, "stat")
  /\ UNCHANGED <<version, consent, files, runs, changes, asked, last, blind>>

NoSourceBinary(r) ==
  /\ At(r, "stat") /\ Ends(r)
  /\ UNCHANGED <<version, consent, files, budget, asked, last, blind>>

BeginCopies(r) ==
  /\ At(r, "stat") /\ Goto(r, "binary")
  /\ last' = run[r].version
  /\ blind' = (marker = run[r].version \/ \E q \in Runs \ {r} : run[q].pc \in Copying)
  /\ UNCHANGED <<version, consent, files, budget, asked>>

(* What is installed by now, or what the operator named with -bin or -toml. *)
Sources(r) == {version[LaptopOf(r)]} \cup IF r[2] = "hand" THEN Versions ELSE {}

(* scp truncates the file and writes it; two at once leave either's bytes.  *)
Sent(r, pc, file) ==
  {[file EXCEPT !.whole = TRUE]} \cup
    IF \E q \in Runs \ {r} : At(q, pc) THEN {[file EXCEPT !.whole = FALSE]} ELSE {}

OpenBinary(r) ==
  /\ At(r, "binary") /\ Goto(r, "sendingBinary")
  /\ \E v \in Sources(r) : binary' = Cut(v) /\ blind' = (blind \/ v # run[r].version)
  /\ UNCHANGED <<version, consent, manifest, marker, budget, asked, last>>

SendBinary(r) ==
  /\ At(r, "sendingBinary") /\ Goto(r, "manifest")
  /\ binary' \in Sent(r, "sendingBinary", binary)
  /\ UNCHANGED <<version, consent, manifest, marker, budget, asked, last, blind>>

OpenManifest(r) ==
  /\ At(r, "manifest") /\ Goto(r, "sendingManifest")
  /\ \E v \in Sources(r) : manifest' = Cut(v) /\ blind' = (blind \/ v # run[r].version)
  /\ UNCHANGED <<version, consent, binary, marker, budget, asked, last>>

SendManifest(r) ==
  /\ At(r, "sendingManifest") /\ Goto(r, "marker")
  /\ manifest' \in Sent(r, "sendingManifest", manifest)
  /\ UNCHANGED <<version, consent, binary, marker, budget, asked, last, blind>>

CopyFailureIgnored(r) ==   \* Defect: the run goes on to the marker.
  /\ run[r].pc \in Copying \ {"marker"} /\ Fail /\ Goto(r, "marker")
  /\ UNCHANGED <<version, consent, files, runs, changes, asked, last, blind>>

(* scp exits with an error, at any point. *)
CopyFails(r) ==
  /\ run[r].pc \in Copying \ {"marker"} /\ Fail /\ Ends(r)
  /\ UNCHANGED <<version, consent, files, runs, changes, asked, last, blind>>

(* echo > version: the shell truncates first.  A failure is not noticed.    *)
WriteMarker(r) ==
  /\ At(r, "marker") /\ Ends(r)
  /\ \/ marker' = run[r].version /\ UNCHANGED faults
     \/ marker' \in {marker, None} /\ Fail
  /\ UNCHANGED <<version, consent, binary, manifest, runs, changes, asked, last, blind>>

Dies(r) ==
  /\ ~At(r, "idle") /\ Fail /\ Ends(r)
  /\ UNCHANGED <<version, consent, files, runs, changes, asked, last, blind>>

-----------------------------------------------------------------------------
Step(r) ==
  \/ CheckConsent(r) \/ ReadRemoteVersion(r) \/ NoSourceBinary(r) \/ BeginCopies(r)
  \/ OpenBinary(r) \/ SendBinary(r) \/ OpenManifest(r) \/ SendManifest(r)
  \/ CopyFails(r) \/ WriteMarker(r) \/ Dies(r)

Next ==
  \/ \E l \in Laptops :
       \/ Startup(l) \/ ProvisionByHand(l)
       \/ Revoke(l) \/ ConsentFileChanges(l) \/ PluginChanges(l)
  \/ \E r \in Runs : Step(r)

Spec == Init /\ [][Next]_vars

-----------------------------------------------------------------------------
Files == [of : Versions \cup {None}, whole : BOOLEAN]

TypeOK ==
  /\ version \in [Laptops -> Versions]
  /\ consent \in [Laptops -> {"none", "given", "unreadable"}]
  /\ binary \in Files /\ manifest \in Files /\ marker \in Versions \cup {None}
  /\ run \in [Runs -> {Idle} \cup
       [pc : Copying \cup {"consent", "version", "stat"}, version : Versions]]
  /\ runs \in 0 .. MaxRuns /\ changes \in 0 .. MaxChanges /\ faults \in 0 .. MaxFaults
  /\ asked \in [Runs -> BOOLEAN] /\ last \in Versions \cup {None} /\ blind \in BOOLEAN

(* EnsureProvisioned believes the marker.  Whatever failed, died, was       *)
(* upgraded or downgraded before: when nobody copies and the marker names   *)
(* the version that was copied last, all of that version is on the engine,  *)
(* unless that run copied beside another one, or over an install of its own *)
(* version that a failed or an early read had not shown it, or sent files   *)
(* of another version: updated since it was started, or named by -bin.      *)
MarkerNamesInstalled ==
  (marker # None /\ marker = last /\ ~blind /\ \A r \in Runs : run[r].pc \notin Copying)
    => binary = Whole(marker) /\ manifest = Whole(marker)

(* No run writes to an engine unless its operator consented, on that        *)
(* laptop, before the run began and not revoked by then, or while it ran.   *)
(* It holds if no names collide: Load does not compare the record's target. *)
ConsentCoversWrites ==
  \A r \in Runs : run[r].pc \in Copying => asked[r]
=============================================================================
