-------------------------- MODULE CredentialRefresh --------------------------
(***************************************************************************)
(* The credential file that the host and the sandboxes share, and the      *)
(* processes that refresh it: RefreshFile on the host, saving by rename or *)
(* in place, and Claude Code in a sandbox, which reaches the file through  *)
(* the directory mount, captures nothing and renames.  Nobody locks.       *)
(*                                                                         *)
(* Each grant of the token endpoint makes a new access token and, as a     *)
(* rule, a new refresh token; the old ones are dead at once.  Tokens are   *)
(* numbered in the order of their making, so credentials are a pair of     *)
(* numbers; the shape of the file, expiry and foreign keys are left out.   *)
(***************************************************************************)
EXTENDS Integers

CONSTANTS
  Refreshers,  \* processes that refresh
  InPlace,     \* those that save in place
  Capturing,   \* those with a RawDir
  None,        \* also: no access token
  Damaged,     \* a file that does not parse
  MaxGrants,   \* bound on refreshes the server grants
  MaxFaults    \* bound on failed steps and deaths

ASSUME ConstantsAssumption ==
  /\ InPlace \subseteq Refreshers /\ Capturing \subseteq Refreshers
  /\ MaxGrants \in Nat /\ MaxFaults \in Nat
  /\ None \notin Nat /\ Damaged \notin [access : Nat \cup {None}, refresh : Nat]

VARIABLES
  store,    \* the file: credentials, or Damaged
  server,   \* the tokens that are valid
  proc,     \* proc[p]: where p is, its credentials, and whether the file it
            \* opened is still the one the path names
  raw,      \* refresh tokens in captured responses
  told,     \* refresh tokens in an error shown to the operator
  faults,
  lost,     \* a response was lost on its way, or with the process that had it
  cutShort, \* a save in place did not end
  kept,     \* an answer was taken that left the refresh token as it was
  blank     \* an answer was taken that had no access token

vars == <<store, server, proc, raw, told, faults, lost, cutShort, kept, blank>>
history == <<lost, cutShort, kept, blank>>

-----------------------------------------------------------------------------
Pairs == [access : 0 .. MaxGrants, refresh : 0 .. MaxGrants]
Credentials == [access : (0 .. MaxGrants) \cup {None}, refresh : 0 .. MaxGrants]
Idle == [pc |-> "idle", creds |-> None, linked |-> TRUE]
Fresh == [access |-> 0, refresh |-> 0]

Init ==
  /\ store = Fresh /\ server = Fresh
  /\ proc = [p \in Refreshers |-> Idle]
  /\ raw = {} /\ told = {} /\ faults = 0
  /\ lost = FALSE /\ cutShort = FALSE /\ kept = FALSE /\ blank = FALSE

At(p, pc) == proc[p].pc = pc
Goto(p, pc) == proc' = [proc EXCEPT ![p].pc = pc]
Ends(p) == proc' = [proc EXCEPT ![p] = Idle]
Fail == faults < MaxFaults /\ faults' = faults + 1

-----------------------------------------------------------------------------
(* RefreshFile: Load, then Refresh *)

LoadAnything(p) ==   \* Defect: a file that does not parse is used.
  /\ At(p, "idle")
  /\ proc' = [proc EXCEPT ![p] = [pc |-> "post", creds |-> store, linked |-> TRUE]]
  /\ UNCHANGED <<store, server, raw, told, faults, history>>

(* Load refuses a file that does not parse, or has an empty access token. *)
Loadable == store # Damaged /\ store.access # None

Load(p) ==
  /\ At(p, "idle") /\ Loadable
  /\ proc' = [proc EXCEPT ![p] = [pc |-> "post", creds |-> store, linked |-> TRUE]]
  /\ UNCHANGED <<store, server, raw, told, faults, history>>

Accepts(p) == proc[p].creds.refresh = server.refresh /\ server.access < MaxGrants

(* What the server makes valid by accepting. *)
Granted == [access : {server.access + 1}, refresh : {server.refresh, server.refresh + 1}]

(* p has a 2xx answer and has made creds of it. *)
Answered(p, creds) ==
  proc' = [proc EXCEPT ![p] =
    [pc |-> IF p \in Capturing THEN "capture" ELSE "parse", creds |-> creds, linked |-> TRUE]]

PostKeepsSent(p) ==   \* Defect: the refresh token of the response is not taken.
  /\ At(p, "post") /\ Accepts(p)
  /\ \E g \in Granted :
       /\ server' = g
       /\ Answered(p, [g EXCEPT !.refresh = server.refresh])
       /\ kept' = (kept \/ g.refresh = server.refresh)
  /\ UNCHANGED <<store, raw, told, faults, lost, cutShort, blank>>

(* A response without a refresh token leaves the one that was sent. *)
Post(p) ==
  /\ At(p, "post") /\ Accepts(p)
  /\ \E g \in Granted :
       /\ server' = g
       /\ Answered(p, g)
       /\ kept' = (kept \/ g.refresh = server.refresh)
  /\ UNCHANGED <<store, raw, told, faults, lost, cutShort, blank>>

(* A 2xx answer in JSON without an access token, from a server that did or  *)
(* did not grant one, or from something on the way: nothing looks whether   *)
(* there is a token, and without a refresh token the one sent stays.        *)
BlankAnswer(p) ==
  /\ At(p, "post") /\ Fail
  /\ \E g \in {server} \cup IF Accepts(p) THEN Granted ELSE {} :
       /\ server' = g
       /\ Answered(p, [access |-> None,
            refresh |-> IF g = server THEN proc[p].creds.refresh ELSE g.refresh])
       /\ kept' = (kept \/ g.refresh = server.refresh)
  /\ blank' = TRUE
  /\ UNCHANGED <<store, raw, told, lost, cutShort>>

(* The request timed out, or the response broke off and parses as nothing:  *)
(* an error, and the server has rotated.                                    *)
ResponseLost(p) ==
  /\ At(p, "post") /\ Accepts(p) /\ Fail /\ Ends(p)
  /\ server' \in Granted /\ lost' = TRUE
  /\ kept' = (kept \/ server'.refresh = server.refresh)
  /\ UNCHANGED <<store, raw, told, cutShort, blank>>

(* Any other status than 2xx: 429 or 5xx for whoever asks, 400 for a dead   *)
(* refresh token.  Nothing is written.                                      *)
NotGranted(p) ==
  /\ At(p, "post") /\ Ends(p)
  /\ UNCHANGED <<store, server, raw, told, faults, history>>

Tells(p) == told' = told \cup {proc[p].creds.refresh}

(* The body goes to a file of its own, synced, before it is parsed. *)
Capture(p) ==
  /\ At(p, "capture") /\ Goto(p, "parse")
  /\ raw' = raw \cup {proc[p].creds.refresh}
  /\ UNCHANGED <<store, server, told, faults, history>>

CaptureFails(p) ==
  /\ At(p, "capture") /\ Fail /\ Ends(p) /\ Tells(p)
  /\ UNCHANGED <<store, server, raw, history>>

Parse(p) ==
  /\ At(p, "parse") /\ Goto(p, IF p \in InPlace THEN "open" ELSE "rename")
  /\ UNCHANGED <<store, server, raw, told, faults, history>>

ParseFailsSilently(p) ==   \* Defect: the error does not quote the body.
  /\ At(p, "parse") /\ Fail /\ Ends(p)
  /\ UNCHANGED <<store, server, raw, told, history>>

ParseFails(p) ==
  /\ At(p, "parse") /\ Fail /\ Ends(p) /\ Tells(p)
  /\ UNCHANGED <<store, server, raw, history>>

-----------------------------------------------------------------------------
(* Save and SaveInPlace *)

(* A temporary file of its own, written, synced and renamed.  Who has the   *)
(* old file open no longer writes to the path.                              *)
Save(p) ==
  /\ At(p, "rename") /\ store' = proc[p].creds
  /\ proc' = [q \in Refreshers |->
       IF q = p THEN Idle ELSE [proc[q] EXCEPT !.linked = @ /\ ~At(q, "write")]]
  /\ UNCHANGED <<server, raw, told, faults, history>>

OpenAlways(p) ==   \* Defect: the file is truncated on either way.
  /\ proc[p].pc \in {"open", "rename"} /\ Goto(p, "write") /\ store' = Damaged
  /\ UNCHANGED <<server, raw, told, faults, history>>

(* O_TRUNC *)
Open(p) ==
  /\ At(p, "open")
  /\ Goto(p, "write") /\ store' = Damaged
  /\ UNCHANGED <<server, raw, told, faults, history>>

(* Over what another process wrote in the meantime, a longer text leaves    *)
(* its tail.                                                                *)
WriteInPlace(p) ==
  /\ At(p, "write") /\ Ends(p)
  /\ IF proc[p].linked
     THEN store' \in {proc[p].creds} \cup IF store = Damaged THEN {} ELSE {Damaged}
     ELSE UNCHANGED store
  /\ UNCHANGED <<server, raw, told, faults, history>>

(* The error quotes both tokens. *)
SaveFails(p) ==
  /\ proc[p].pc \in {"rename", "open", "write"} /\ Fail /\ Ends(p) /\ Tells(p)
  /\ cutShort' = (cutShort \/ At(p, "write"))
  /\ UNCHANGED <<store, server, raw, lost, kept, blank>>

(* With a process that has not captured the response, the response goes. *)
Dies(p) ==
  /\ ~At(p, "idle") /\ Fail /\ Ends(p)
  /\ lost' = (lost \/ (~At(p, "post") /\ proc[p].creds.refresh \notin raw))
  /\ cutShort' = (cutShort \/ At(p, "write"))
  /\ UNCHANGED <<store, server, raw, told, kept, blank>>

-----------------------------------------------------------------------------
Refresh(p) ==
  \/ Load(p) \/ Post(p) \/ BlankAnswer(p) \/ ResponseLost(p) \/ NotGranted(p)
  \/ Capture(p) \/ CaptureFails(p) \/ Parse(p) \/ ParseFails(p)

Step(p) == Refresh(p) \/ Save(p) \/ Open(p) \/ WriteInPlace(p) \/ SaveFails(p) \/ Dies(p)

Next == \E p \in Refreshers : Step(p)

Spec == Init /\ [][Next]_vars

-----------------------------------------------------------------------------
Holding == {"capture", "parse", "rename", "open", "write"}   \* p has a response

TypeOK ==
  /\ store = Damaged \/ store \in Credentials
  /\ server \in Pairs
  /\ proc \in [Refreshers ->
       {Idle} \cup [pc : {"post"} \cup Holding, creds : Credentials, linked : BOOLEAN]]
  /\ raw \subseteq 0 .. MaxGrants /\ told \subseteq 0 .. MaxGrants
  /\ faults \in 0 .. MaxFaults
  /\ {lost, cutShort, kept, blank} \subseteq BOOLEAN

(* doc/credential-mount.md, "Standing rules": the rotated pair stays        *)
(* recoverable.  The one refresh token the server still honours is in the   *)
(* file, in a captured response, in an error the operator has seen or with  *)
(* a process that is about to save it, whoever else refreshes, unless the   *)
(* network or a death took it, or an answer left the refresh token alone.   *)
(* It may be in a file that Load refuses.                                   *)
Recoverable ==
  \/ store # Damaged /\ store.refresh = server.refresh
  \/ server.refresh \in raw \cup told
  \/ \E p \in Refreshers : proc[p].pc \in Holding /\ proc[p].creds.refresh = server.refresh
PairIsRecoverable == lost \/ kept \/ Recoverable

(* The next refresh can load the file, whoever refreshed before and however *)
(* their saves overlapped, unless a save in place is under way or did not   *)
(* end, an answer without an access token was taken, or one that left the   *)
(* refresh token alone: no rename damages it.                               *)
StaysLoadable == Loadable \/ kept \/ blank \/ cutShort \/ \E p \in InPlace : At(p, "write")

(* doc/credential-mount.md, "Defect 1": an empty access token is an error.  *)
(* Load keeps to it and Refresh does not, so this fails: a blank answer is  *)
(* saved over a good file, and from then on every Load is refused.          *)
NoEmptyToken == store # Damaged => store.access # None

(* Of processes that refresh at once, without a lock, none saves a dead     *)
(* pair over the live one: rotation makes the server refuse all but one of  *)
(* them, and nobody gets the next pair before this one is saved.  An answer *)
(* that leaves the refresh token alone is exempt: two may then hold answers *)
(* at once, and the last to save wins.                                      *)
SavesTheLivePair ==
  [][store' # store /\ store' # Damaged => kept \/ store'.refresh = server.refresh]_vars
=============================================================================
