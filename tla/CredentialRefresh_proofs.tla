----------------------- MODULE CredentialRefresh_proofs -----------------------
(* Proofs of the invariants of CredentialRefresh and of SavesTheLivePair. *)
EXTENDS CredentialRefresh, TLAPS

Holds(p) == proc[p].pc \in Holding
Somebody == \E p \in Refreshers : Holds(p)

(* Only who saves in place opens and writes. *)
OpensInPlace == \A p \in Refreshers : proc[p].pc \in {"open", "write"} => p \in InPlace

(* As long as the server rotates, one process at a time has a response, and *)
(* what it has is live.  While it has it, the file and whoever loaded it    *)
(* are behind: the server refuses them.                                     *)
OneHolder == \A p, q \in Refreshers : Holds(p) /\ Holds(q) => p = q
HolderIsLive == \A p \in Refreshers : Holds(p) => proc[p].creds.refresh = server.refresh
Behind(n) == n <= server.refresh /\ (Somebody => n < server.refresh)
OthersBehind ==
  /\ \A p \in Refreshers : At(p, "post") => Behind(proc[p].creds.refresh)
  /\ store # Damaged => Behind(store.refresh)
WritesItsOwn ==
  \A p \in Refreshers :
    /\ Holds(p) => proc[p].linked
    /\ At(p, "write") => store = Damaged

Rotating == OneHolder /\ HolderIsLive /\ OthersBehind /\ WritesItsOwn

(* Each grant makes an access token. *)
Numbered == server.refresh <= server.access

(* Only an answer without an access token makes credentials without one. *)
Whole ==
  /\ store # Damaged => store.access # None
  /\ \A p \in Refreshers : Holds(p) => proc[p].creds.access # None

IInv == TypeOK /\ Numbered /\ OpensInPlace /\ (kept \/ Rotating)

LEMMA PairsAreCredentials == Pairs \subseteq Credentials
BY DEF Pairs, Credentials

LEMMA TypeInit == Init => TypeOK
<1>1. 0 \in 0 .. MaxGrants /\ 0 \in 0 .. MaxFaults
  BY ConstantsAssumption
<1>2. Fresh \in Pairs /\ Fresh \in Credentials
  BY <1>1 DEF Fresh, Pairs, Credentials
<1> QED BY <1>1, <1>2 DEF Init, TypeOK

(* The local state of a process that does something. *)
Local == [pc : {"post"} \cup Holding, creds : Credentials, linked : BOOLEAN]

(* A step of p other than Save changes p alone. *)
Others(p) == \A q \in Refreshers \ {p} : proc'[q] = proc[q]

LEMMA Locals ==
  ASSUME TypeOK, NEW p \in Refreshers, ~At(p, "idle")
  PROVE  proc[p] \in Local
BY DEF TypeOK, At, Idle, Local

LEMMA EndsLocal ==
  ASSUME TypeOK, NEW p \in Refreshers, Ends(p)
  PROVE  /\ proc' \in [Refreshers -> {Idle} \cup Local]
         /\ proc'[p].pc = "idle" /\ Others(p)
BY DEF TypeOK, Ends, Idle, Local, Others

LEMMA GotoLocal ==
  ASSUME TypeOK, NEW p \in Refreshers, ~At(p, "idle"), NEW pc \in Holding, Goto(p, pc)
  PROVE  /\ proc' \in [Refreshers -> {Idle} \cup Local]
         /\ proc'[p].pc = pc /\ proc'[p].creds = proc[p].creds
         /\ proc'[p].linked = proc[p].linked /\ Others(p)
<1>1. proc[p] \in Local /\ proc \in [Refreshers -> {Idle} \cup Local]
  BY Locals DEF TypeOK, Local
<1>2. [proc[p] EXCEPT !.pc = pc] \in Local
  BY <1>1 DEF Local
<1> QED BY <1>1, <1>2 DEF Goto, Others, Local

LEMMA GrantedType ==
  ASSUME TypeOK, Numbered, NEW p \in Refreshers, Accepts(p), NEW g \in Granted
  PROVE  /\ g \in Pairs /\ g.refresh <= g.access
         /\ g.refresh = server.refresh \/ g.refresh = server.refresh + 1
BY ConstantsAssumption DEF TypeOK, Numbered, Accepts, Granted, Pairs

LEMMA LoadKeepsIInv ==
  ASSUME IInv, NEW p \in Refreshers, Load(p) PROVE IInv'
<1>1. TypeOK'
  BY DEF IInv, TypeOK, Load, Loadable, history, Holding
<1>2. /\ Others(p) /\ proc'[p].pc = "post" /\ proc'[p].creds = store
      /\ store # Damaged /\ proc[p].pc = "idle"
      /\ UNCHANGED <<store, server, kept>>
  BY DEF IInv, TypeOK, Load, Loadable, history, Others, At
<1> QED BY <1>1, <1>2 DEF IInv, Numbered, OpensInPlace, Rotating, OneHolder, HolderIsLive,
      OthersBehind, WritesItsOwn, Behind, Somebody, Holds, Others, At, Holding

(* A response: the server has granted g or nothing at all, and p goes on    *)
(* with the refresh token of g unless an answer that leaves the refresh     *)
(* token alone was taken.                                                   *)
LEMMA AnsweredKeepsIInv ==
  ASSUME IInv, NEW p \in Refreshers, At(p, "post"), NEW g \in Pairs, NEW c \in Credentials,
         Answered(p, c), server' = g, kept' = (kept \/ g.refresh = server.refresh),
         g.refresh <= g.access,
         g.refresh = server.refresh \/ g.refresh = server.refresh + 1,
         ~kept' => proc[p].creds.refresh = server.refresh /\ c.refresh = g.refresh,
         UNCHANGED <<store, raw, told, lost, cutShort>>,
         faults' \in 0 .. MaxFaults, blank' \in BOOLEAN
  PROVE  IInv'
<1>1. TypeOK'
  BY DEF IInv, TypeOK, Answered, Holding
<1>2. /\ Others(p) /\ proc'[p].pc \in {"capture", "parse"} /\ proc'[p].creds = c
      /\ proc'[p].linked = TRUE
  BY DEF IInv, TypeOK, Answered, Others
<1>3. ASSUME ~kept' PROVE ~Somebody /\ Rotating /\ g.refresh = server.refresh + 1
  <2>1. Rotating /\ g.refresh = server.refresh + 1
    BY <1>3 DEF IInv
  <2> QED BY <1>3, <2>1 DEF Rotating, OthersBehind, Behind, IInv, TypeOK, Pairs
<1>4. ASSUME ~kept' PROVE Rotating'
  <2>1. \A q \in Refreshers : Holds(q)' => q = p
    BY <1>2, <1>3, <1>4 DEF Somebody, Holds, Others
  <2>2. \A n \in 0 .. MaxGrants : Behind(n) => Behind(n)'
    BY <1>3, <1>4 DEF Behind, IInv, TypeOK, Pairs
  <2>3. OneHolder' /\ HolderIsLive'
    BY <1>2, <1>4, <2>1 DEF OneHolder, HolderIsLive
  <2>4. \A q \in Refreshers : At(q, "post")' => q # p
    BY <1>2 DEF At
  <2>5. \A q \in Refreshers : At(q, "post") => proc[q].creds.refresh \in 0 .. MaxGrants
    BY Locals DEF IInv, Local, Credentials, At
  <2>6. OthersBehind'
    <3>1. (store # Damaged => Behind(store.refresh))'
      BY <1>3, <1>4, <2>2 DEF Rotating, OthersBehind, IInv, TypeOK, Credentials
    <3>2. ASSUME NEW q \in Refreshers
          PROVE  (At(q, "post") => Behind(proc[q].creds.refresh))'
      BY <1>2, <1>3, <1>4, <2>2, <2>4, <2>5, <3>2 DEF Rotating, OthersBehind, Others, At
    <3> QED BY <3>1, <3>2 DEF OthersBehind
  <2>7. WritesItsOwn'
    BY <1>2, <1>3, <1>4 DEF Rotating, WritesItsOwn, Others, At, Holds
  <2> QED BY <2>3, <2>6, <2>7 DEF Rotating
<1>5. OpensInPlace'
  BY <1>2 DEF IInv, OpensInPlace, Others
<1> QED BY <1>1, <1>4, <1>5 DEF IInv, Numbered

LEMMA PostKeepsIInv ==
  ASSUME IInv, NEW p \in Refreshers, Post(p) PROVE IInv'
<1>1. PICK g \in Granted :
        server' = g /\ Answered(p, g) /\ kept' = (kept \/ g.refresh = server.refresh)
  BY DEF Post
<1>2. /\ g \in Pairs /\ g.refresh <= g.access
      /\ g.refresh = server.refresh \/ g.refresh = server.refresh + 1
  BY GrantedType DEF IInv, Post
<1>3. g \in Credentials
  BY <1>2, PairsAreCredentials
<1>4. proc[p].creds.refresh = server.refresh /\ At(p, "post")
  BY DEF Post, Accepts
<1>5. faults' \in 0 .. MaxFaults /\ blank' \in BOOLEAN /\ UNCHANGED <<store, raw, told, lost, cutShort>>
  BY DEF Post, IInv, TypeOK
<1> QED BY <1>1, <1>2, <1>3, <1>4, <1>5, AnsweredKeepsIInv

LEMMA BlankAnswerKeepsIInv ==
  ASSUME IInv, NEW p \in Refreshers, BlankAnswer(p) PROVE IInv'
<1>1. PICK g \in {server} \cup IF Accepts(p) THEN Granted ELSE {} :
        /\ server' = g
        /\ Answered(p, [access |-> None,
             refresh |-> IF g = server THEN proc[p].creds.refresh ELSE g.refresh])
        /\ kept' = (kept \/ g.refresh = server.refresh)
  BY DEF BlankAnswer
<1> DEFINE c == [access |-> None,
                 refresh |-> IF g = server THEN proc[p].creds.refresh ELSE g.refresh]
<1>2. /\ g \in Pairs /\ g.refresh <= g.access
      /\ g.refresh = server.refresh \/ g.refresh = server.refresh + 1
  <2>1. CASE g = server
    BY <2>1 DEF IInv, TypeOK, Numbered
  <2>2. CASE Accepts(p) /\ g \in Granted
    BY <2>2, GrantedType DEF IInv
  <2> QED BY <1>1, <2>1, <2>2
<1>3. c \in Credentials
  <2>1. proc[p].creds.refresh \in 0 .. MaxGrants /\ g.refresh \in 0 .. MaxGrants
    BY <1>2, Locals DEF IInv, BlankAnswer, At, Local, Credentials, Pairs
  <2> QED BY <2>1 DEF Credentials
<1>4. ASSUME ~kept' PROVE proc[p].creds.refresh = server.refresh /\ c.refresh = g.refresh
  <2>1. g # server
    BY <1>1, <1>4
  <2> QED BY <1>1, <2>1 DEF Accepts
<1>5. faults' \in 0 .. MaxFaults
  BY ConstantsAssumption DEF BlankAnswer, Fail, IInv, TypeOK
<1>6. At(p, "post") /\ blank' \in BOOLEAN /\ UNCHANGED <<store, raw, told, lost, cutShort>>
  BY DEF BlankAnswer
<1>7. Answered(p, c)
  BY <1>1
<1> HIDE DEF c
<1> QED BY <1>1, <1>2, <1>3, <1>4, <1>5, <1>6, <1>7, AnsweredKeepsIInv

LEMMA ResponseLostKeepsIInv ==
  ASSUME IInv, NEW p \in Refreshers, ResponseLost(p) PROVE IInv'
<1>1. /\ server' \in Pairs /\ server'.refresh <= server'.access
      /\ server'.refresh = server.refresh \/ server'.refresh = server.refresh + 1
  BY GrantedType DEF IInv, ResponseLost
<1>2. /\ proc' \in [Refreshers -> {Idle} \cup Local]
      /\ proc'[p].pc = "idle" /\ Others(p)
  BY EndsLocal DEF IInv, ResponseLost
<1>3. TypeOK'
  <2>1. faults' \in 0 .. MaxFaults
    BY ConstantsAssumption DEF IInv, TypeOK, ResponseLost, Fail
  <2>2. {lost', cutShort', kept', blank'} \subseteq BOOLEAN
    BY DEF ResponseLost, IInv, TypeOK
  <2> QED BY <1>1, <1>2, <2>1, <2>2 DEF IInv, TypeOK, Local, ResponseLost
<1>4. /\ UNCHANGED store /\ (kept => kept')
      /\ At(p, "post") /\ proc[p].creds.refresh = server.refresh
      /\ server'.refresh = server.refresh => kept'
  BY DEF ResponseLost, Accepts
<1>5. ASSUME ~kept' PROVE Rotating'
  <2>1. Rotating /\ server'.refresh = server.refresh + 1
    BY <1>1, <1>4, <1>5 DEF IInv
  <2>2. ~Somebody
    BY <1>4, <2>1 DEF Rotating, OthersBehind, Behind, IInv, TypeOK, Pairs
  <2>3. ~Somebody' /\ \A q \in Refreshers : ~Holds(q)'
    BY <1>2, <2>2 DEF Somebody, Holds, Others, Holding
  <2>4. \A n \in 0 .. MaxGrants : Behind(n) => Behind(n)'
    BY <2>1, <2>3 DEF Behind, IInv, TypeOK, Pairs
  <2>5. \A q \in Refreshers : At(q, "post") => proc[q].creds.refresh \in 0 .. MaxGrants
    BY Locals DEF IInv, Local, Credentials, At
  <2>6. \A q \in Refreshers : At(q, "post")' => At(q, "post") /\ proc'[q] = proc[q]
    BY <1>2 DEF Others, At
  <2>7. OthersBehind'
    <3>1. (store # Damaged => Behind(store.refresh))'
      BY <1>4, <2>1, <2>4 DEF Rotating, OthersBehind, IInv, TypeOK, Credentials
    <3>2. ASSUME NEW q \in Refreshers
          PROVE  (At(q, "post") => Behind(proc[q].creds.refresh))'
      BY <2>1, <2>4, <2>5, <2>6, <3>2 DEF Rotating, OthersBehind
    <3> QED BY <3>1, <3>2 DEF OthersBehind
  <2> QED BY <2>3, <2>7 DEF Rotating, OneHolder, HolderIsLive, WritesItsOwn, Holds, At, Holding
<1>6. OpensInPlace'
  BY <1>2 DEF IInv, OpensInPlace, Others
<1> QED BY <1>1, <1>3, <1>4, <1>5, <1>6 DEF IInv, Numbered

(* Steps that end p and leave the file as it is. *)
LEMMA EndKeepsIInv ==
  ASSUME IInv, NEW p \in Refreshers, Ends(p), TypeOK', UNCHANGED <<store, server, kept>>
  PROVE  IInv'
<1>1. /\ proc' \in [Refreshers -> {Idle} \cup Local]
      /\ proc'[p].pc = "idle" /\ Others(p)
  BY EndsLocal DEF IInv
<1> QED BY <1>1 DEF IInv, Numbered, OpensInPlace, Rotating, OneHolder, HolderIsLive,
      OthersBehind, WritesItsOwn, Behind, Somebody, Holds, Others, At, Holding

(* Steps that take p, with its response, further. *)
LEMMA GotoKeepsIInv ==
  ASSUME IInv, NEW p \in Refreshers, Holds(p),
         NEW pc \in {"parse", "rename", "open"}, Goto(p, pc),
         pc = "open" => p \in InPlace, TypeOK', UNCHANGED <<store, server, kept>>
  PROVE  IInv'
<1>1. /\ ~At(p, "idle") /\ pc \in Holding
  BY DEF Holds, Holding, At
<1>2. /\ proc'[p].pc = pc /\ proc'[p].creds = proc[p].creds
      /\ proc'[p].linked = proc[p].linked /\ Others(p)
  BY <1>1, GotoLocal DEF IInv
<1> QED BY <1>2 DEF IInv, Numbered, OpensInPlace, Rotating, OneHolder, HolderIsLive,
      OthersBehind, WritesItsOwn, Behind, Somebody, Holds, Others, At, Holding

(* The file gets the response of p, the last one there is. *)
LEMMA StoredKeepsRotating ==
  ASSUME IInv, Rotating, NEW p \in Refreshers, Holds(p), store' = proc[p].creds,
         proc'[p].pc = "idle", UNCHANGED server,
         \A q \in Refreshers \ {p} :
           proc'[q].pc = proc[q].pc /\ proc'[q].creds = proc[q].creds
  PROVE  Rotating'
<1>1. \A q \in Refreshers \ {p} : ~Holds(q)
  BY DEF Rotating, OneHolder
<1>2. ~Somebody' /\ \A q \in Refreshers : ~Holds(q)'
  BY <1>1 DEF Somebody, Holds, Holding
<1>3. store'.refresh = server.refresh /\ server.refresh \in 0 .. MaxGrants
  BY DEF Rotating, HolderIsLive, IInv, TypeOK, Pairs
<1> QED BY <1>2, <1>3 DEF IInv, Numbered, OpensInPlace, Rotating, OneHolder, HolderIsLive,
      OthersBehind, WritesItsOwn, Behind, Somebody, Holds, Others, At, Holding

(* A field that is set to what it was; over any value, since the prover is  *)
(* better at it without the Booleans.                                       *)
LEMMA SetToItself ==
  ASSUME NEW x
  PROVE  [[pc |-> "idle", creds |-> None, linked |-> x] EXCEPT !.linked = x]
           = [pc |-> "idle", creds |-> None, linked |-> x]
OBVIOUS

LEMMA SaveKeepsIInv ==
  ASSUME IInv, NEW p \in Refreshers, Save(p) PROVE IInv'
<1>1. proc[p] \in Local /\ At(p, "rename")
  BY Locals DEF IInv, Save, At
<1>2. /\ proc'[p] = Idle
      /\ \A q \in Refreshers \ {p} :
           /\ proc'[q] = [proc[q] EXCEPT !.linked = @ /\ ~At(q, "write")]
           /\ proc'[q].pc = proc[q].pc /\ proc'[q].creds = proc[q].creds
  BY DEF Save, IInv, TypeOK, Idle
<1>3. \A q \in Refreshers \ {p} : proc'[q] \in {Idle} \cup Local
  <2>1. ASSUME NEW q \in Refreshers \ {p}, proc[q] = Idle PROVE proc'[q] = Idle
    <3>1. proc[q].linked = TRUE /\ ~At(q, "write")
      BY <2>1 DEF Idle, At
    <3>2. proc'[q] = [proc[q] EXCEPT !.linked = TRUE]
      BY <1>2, <3>1
    <3>3. [Idle EXCEPT !.linked = TRUE] = Idle
      BY SetToItself DEF Idle
    <3> QED BY <2>1, <3>2, <3>3
  <2>2. ASSUME NEW q \in Refreshers \ {p}, proc[q] \in Local PROVE proc'[q] \in Local
    BY <1>2, <2>2 DEF Local, At
  <2> QED BY <2>1, <2>2 DEF IInv, TypeOK, Local
<1>4. TypeOK'
  BY <1>1, <1>2, <1>3 DEF IInv, TypeOK, Local, Save, history
<1>5. kept' = kept /\ UNCHANGED server /\ store' = proc[p].creds /\ Holds(p)
  BY DEF Save, history, Holds, Holding, At
<1>6. ASSUME ~kept' PROVE Rotating'
  <2>1. proc'[p].pc = "idle" /\ Rotating
    BY <1>2, <1>5, <1>6 DEF IInv, Idle
  <2> QED BY <1>2, <1>5, <2>1, StoredKeepsRotating
<1>7. OpensInPlace'
  <2>1. proc'[p].pc = "idle"
    BY <1>2 DEF Idle
  <2> QED BY <1>2, <2>1 DEF IInv, OpensInPlace
<1> QED BY <1>4, <1>5, <1>6, <1>7 DEF IInv, Numbered

LEMMA OpenKeepsIInv ==
  ASSUME IInv, NEW p \in Refreshers, Open(p) PROVE IInv'
<1>1. /\ proc' \in [Refreshers -> {Idle} \cup Local]
      /\ proc'[p].pc = "write" /\ proc'[p].creds = proc[p].creds
      /\ proc'[p].linked = proc[p].linked /\ Others(p)
  BY GotoLocal DEF IInv, Open, At, Holding
<1>2. TypeOK'
  BY <1>1 DEF IInv, TypeOK, Local, Open, history
<1>3. At(p, "open") /\ store' = Damaged /\ UNCHANGED <<server, kept>>
  BY DEF Open, history
<1>4. \A q \in Refreshers : Holds(q)' <=> Holds(q)
  BY <1>1, <1>3 DEF Holds, Others, Holding, At
<1>5. \A q \in Refreshers : proc'[q].creds = proc[q].creds
  BY <1>1 DEF Others
<1>6. ASSUME ~kept' PROVE Rotating'
  <2>1. Rotating
    BY <1>3, <1>6 DEF IInv
  <2>2. OneHolder' /\ HolderIsLive'
    BY <1>3, <1>4, <1>5, <2>1 DEF Rotating, OneHolder, HolderIsLive
  <2>3. OthersBehind'
    <3>1. (Somebody' <=> Somebody) /\ \A q \in Refreshers : At(q, "post")' => At(q, "post")
      BY <1>1, <1>4 DEF Somebody, Others, At
    <3> QED BY <1>3, <1>5, <2>1, <3>1 DEF Rotating, OthersBehind, Behind
  <2>4. WritesItsOwn'
    BY <1>1, <1>3, <2>1, Locals DEF Rotating, WritesItsOwn, OneHolder, Holds, Holding, Others, At
  <2> QED BY <2>2, <2>3, <2>4 DEF Rotating
<1>7. OpensInPlace'
  BY <1>1, <1>3 DEF IInv, OpensInPlace, Others, At
<1> QED BY <1>2, <1>3, <1>6, <1>7 DEF IInv, Numbered

LEMMA WriteInPlaceKeepsIInv ==
  ASSUME IInv, NEW p \in Refreshers, WriteInPlace(p) PROVE IInv'
<1>1. /\ proc' \in [Refreshers -> {Idle} \cup Local]
      /\ proc'[p].pc = "idle" /\ Others(p)
  BY EndsLocal DEF IInv, WriteInPlace
<1>2. proc[p] \in Local /\ At(p, "write") /\ Holds(p)
  BY Locals DEF IInv, WriteInPlace, At, Holds, Holding
<1>3. TypeOK'
  BY <1>1, <1>2 DEF IInv, TypeOK, Local, WriteInPlace, history
<1>4. kept' = kept /\ UNCHANGED server
  BY DEF WriteInPlace, history
<1>5. ASSUME ~kept' PROVE Rotating'
  <2>1. Rotating /\ store' = proc[p].creds
    BY <1>2, <1>4, <1>5 DEF IInv, Rotating, WritesItsOwn, WriteInPlace
  <2> QED BY <1>1, <1>2, <1>4, <2>1, StoredKeepsRotating DEF Others
<1> QED BY <1>1, <1>3, <1>4, <1>5 DEF IInv, Numbered, OpensInPlace, Others

LEMMA NextKeepsIInv == IInv /\ [Next]_vars => IInv'
<1> SUFFICES ASSUME IInv, [Next]_vars PROVE IInv'
  OBVIOUS
<1>1. ASSUME NEW p \in Refreshers, NotGranted(p) PROVE IInv'
  <2>1. TypeOK'
    BY <1>1, EndsLocal DEF IInv, TypeOK, Local, NotGranted, history
  <2> QED BY <1>1, <2>1, EndKeepsIInv DEF NotGranted, history
<1>2. ASSUME NEW p \in Refreshers, Capture(p) PROVE IInv'
  <2>1. proc[p].creds.refresh \in 0 .. MaxGrants
    BY <1>2, Locals DEF IInv, Capture, At, Local, Credentials
  <2>2. TypeOK'
    BY <1>2, <2>1, GotoLocal DEF IInv, TypeOK, Local, Capture, history, At, Holding
  <2> QED BY <1>2, <2>2, GotoKeepsIInv DEF Capture, history, Holds, Holding, At
<1>3. ASSUME NEW p \in Refreshers, Parse(p) PROVE IInv'
  <2>1. TypeOK'
    BY <1>3, GotoLocal DEF IInv, TypeOK, Local, Parse, history, At, Holding
  <2> QED BY <1>3, <2>1, GotoKeepsIInv DEF Parse, history, Holds, Holding, At
<1>4. ASSUME NEW p \in Refreshers,
             CaptureFails(p) \/ ParseFails(p) \/ SaveFails(p) \/ Dies(p)
      PROVE  IInv'
  <2>1. proc[p] \in Local
    BY <1>4, Locals DEF IInv, CaptureFails, ParseFails, SaveFails, Dies, At
  <2>2. Ends(p) /\ UNCHANGED <<store, server, kept>>
    BY <1>4 DEF CaptureFails, ParseFails, SaveFails, Dies, history
  <2>3. faults' \in 0 .. MaxFaults
    BY <1>4, ConstantsAssumption
       DEF IInv, TypeOK, CaptureFails, ParseFails, SaveFails, Dies, Fail
  <2>4. raw' \subseteq 0 .. MaxGrants /\ told' \subseteq 0 .. MaxGrants
    BY <1>4, <2>1 DEF IInv, TypeOK, CaptureFails, ParseFails, SaveFails, Dies, Tells,
       Local, Credentials
  <2>5. {lost', cutShort', kept', blank'} \subseteq BOOLEAN
    BY <1>4 DEF IInv, TypeOK, CaptureFails, ParseFails, SaveFails, Dies, history
  <2>6. TypeOK'
    BY <2>2, <2>3, <2>4, <2>5, EndsLocal DEF IInv, TypeOK, Local
  <2> QED BY <2>2, <2>6, EndKeepsIInv
<1>5. CASE UNCHANGED vars
  BY <1>5 DEF vars, history, TypeOK, IInv, Numbered, OpensInPlace, Rotating, OneHolder, HolderIsLive,
      OthersBehind, WritesItsOwn, Behind, Somebody, Holds, Others, At, Holding
<1> QED BY <1>1, <1>2, <1>3, <1>4, <1>5, LoadKeepsIInv, PostKeepsIInv, BlankAnswerKeepsIInv,
      ResponseLostKeepsIInv, SaveKeepsIInv, OpenKeepsIInv, WriteInPlaceKeepsIInv
      DEF Next, Step, Refresh

LEMMA CredentialsReadable == Damaged \notin Credentials
<1>1. Credentials \subseteq [access : Nat \cup {None}, refresh : Nat]
  BY ConstantsAssumption DEF Credentials
<1> QED BY <1>1, ConstantsAssumption

LEMMA Inductive == Spec => []IInv
<1>1. Init => IInv
  BY TypeInit DEF Init, IInv, Numbered, OpensInPlace, Rotating, OneHolder, HolderIsLive,
     OthersBehind, WritesItsOwn, Behind, Somebody, Holds, Holding, At, Idle, Fresh
<1> QED BY <1>1, NextKeepsIInv, PTL DEF Spec

(* The file holds credentials or nothing readable, and processes hold what  *)
(* they read or were granted, within the grants made.                       *)
THEOREM TypeCorrect == Spec => []TypeOK
<1>1. IInv => TypeOK
  BY DEF IInv
<1> QED BY <1>1, Inductive, PTL

(* Of any number of processes that refresh at once, by rename or in place,  *)
(* none saves a dead pair over the live one, as long as the server rotates. *)
THEOREM LivePairSaved == Spec => SavesTheLivePair
<1>1. ASSUME IInv, Next, store' # store, store' # Damaged, ~kept
      PROVE  store'.refresh = server.refresh
  <2>1. PICK p \in Refreshers : Save(p) \/ WriteInPlace(p)
    BY <1>1 DEF Next, Step, Refresh, Load, Post, BlankAnswer, ResponseLost, NotGranted, Capture,
       CaptureFails, Parse, ParseFails, Open, SaveFails, Dies
  <2>2. Holds(p) /\ store' = proc[p].creds
    BY <1>1, <2>1 DEF Save, WriteInPlace, Holds, Holding, At
  <2> QED BY <1>1, <2>2 DEF IInv, Rotating, HolderIsLive
<1>2. IInv /\ [Next]_vars
        => [store' # store /\ store' # Damaged => kept \/ store'.refresh = server.refresh]_vars
  BY <1>1 DEF vars
<1> QED BY <1>2, Inductive, PTL DEF Spec, SavesTheLivePair

(* A step that does not write: what it does not do. *)
LEMMA Quiet ==
  ASSUME IInv, NEW p \in Refreshers, Step(p), ~Save(p), ~Open(p), ~WriteInPlace(p)
  PROVE  /\ UNCHANGED store
         /\ \A q \in Refreshers \ {p} : proc'[q] = proc[q]
         /\ At(p, "write") => cutShort'
<1>1. UNCHANGED store
  BY DEF Step, Refresh, Load, Post, BlankAnswer, ResponseLost, NotGranted, Capture, CaptureFails, Parse,
     ParseFails, SaveFails, Dies
<1>2. \E x : proc' = [proc EXCEPT ![p] = x]
  <2>1. \A x : Goto(p, x) => \E y : proc' = [proc EXCEPT ![p] = y]
    BY DEF Goto
  <2>2. Ends(p) => \E y : proc' = [proc EXCEPT ![p] = y]
    BY DEF Ends
  <2>3. Load(p) => \E y : proc' = [proc EXCEPT ![p] = y]
    BY DEF Load
  <2>4. Post(p) \/ BlankAnswer(p) => \E y : proc' = [proc EXCEPT ![p] = y]
    BY DEF Post, BlankAnswer, Answered
  <2> QED BY <2>1, <2>2, <2>3, <2>4 DEF Step, Refresh, ResponseLost, NotGranted, Capture,
          CaptureFails, Parse, ParseFails, SaveFails, Dies
<1>3. At(p, "write") => cutShort'
  BY DEF Step, Refresh, Load, Post, BlankAnswer, ResponseLost, NotGranted, Capture, CaptureFails, Parse,
     ParseFails, SaveFails, Dies, At
<1> QED BY <1>1, <1>2, <1>3 DEF IInv, TypeOK

(* What is past stays past. *)
LEMMA HistoryStays ==
  [Next]_vars => (kept => kept') /\ (cutShort => cutShort') /\ (lost => lost') /\ (blank => blank')
<1> DEFINE Actions(p) ==
      \/ Load(p) \/ NotGranted(p) \/ Capture(p) \/ CaptureFails(p) \/ Parse(p)
      \/ ParseFails(p) \/ Save(p) \/ Open(p) \/ WriteInPlace(p)
<1>1. ASSUME NEW p \in Refreshers, Actions(p)
      PROVE  UNCHANGED <<kept, cutShort, lost, blank>>
  BY <1>1 DEF Load, NotGranted, Capture, CaptureFails, Parse, ParseFails, Save, Open,
     WriteInPlace, vars, history
<1>2. ASSUME NEW p \in Refreshers, Post(p) \/ BlankAnswer(p) \/ ResponseLost(p)
      PROVE  (kept => kept') /\ (cutShort => cutShort') /\ (lost => lost') /\ (blank => blank')
  <2>1. /\ UNCHANGED cutShort /\ (UNCHANGED lost \/ lost')
        /\ (UNCHANGED blank \/ blank')
    BY <1>2 DEF Post, BlankAnswer, ResponseLost
  <2>2. kept => kept'
    BY <1>2, Zenon DEF Post, BlankAnswer, ResponseLost
  <2> QED BY <2>1, <2>2
<1>3. ASSUME NEW p \in Refreshers, SaveFails(p) \/ Dies(p)
      PROVE  (kept => kept') /\ (cutShort => cutShort') /\ (lost => lost') /\ (blank => blank')
  <2>1. UNCHANGED <<kept, blank>> /\ (UNCHANGED lost \/ Dies(p))
    BY <1>3 DEF SaveFails, Dies
  <2>2. (cutShort => cutShort') /\ (Dies(p) => (lost => lost'))
    BY <1>3, Zenon DEF SaveFails, Dies
  <2> QED BY <2>1, <2>2
<1>4. UNCHANGED vars => UNCHANGED <<kept, cutShort, lost, blank>>
  BY DEF vars, history
<1> QED BY <1>1, <1>2, <1>3, <1>4 DEF Next, Step, Refresh

(* What a step makes of the access tokens. *)
LEMMA WholeStays ==
  ASSUME IInv, Whole, NEW p \in Refreshers, Step(p), ~blank' PROVE Whole'
<1>1. CASE Save(p) \/ WriteInPlace(p)
  <2>1. store' \in {store, proc[p].creds, Damaged} /\ Holds(p)
    BY <1>1 DEF Save, WriteInPlace, Holds, Holding, At
  <2>2. \A q \in Refreshers : Holds(q)' => Holds(q) /\ proc'[q].creds = proc[q].creds
    BY <1>1 DEF Save, WriteInPlace, Ends, Idle, Holds, Holding, IInv, TypeOK
  <2> QED BY <2>1, <2>2 DEF Whole
<1>2. CASE Post(p)
  <2>1. PICK g \in Granted : Answered(p, g)
    BY <1>2 DEF Post
  <2>2. g.access # None /\ UNCHANGED store
    BY <1>2, ConstantsAssumption DEF Granted, Post, IInv, TypeOK, Pairs
  <2>3. \A q \in Refreshers : proc'[q] = proc[q] \/ proc'[q].creds = g
    BY <2>1 DEF Answered, IInv, TypeOK
  <2> QED BY <2>2, <2>3 DEF Whole, Holds
<1>3. CASE Load(p)
  BY <1>3 DEF Load, Whole, Holds, Holding, IInv, TypeOK
<1>4. ASSUME NEW pc \in Holding, ~At(p, "idle"), Holds(p), Goto(p, pc), store' \in {store, Damaged}
      PROVE  Whole'
  BY <1>4, GotoLocal DEF IInv, Whole, Holds, Others
<1>5. ASSUME Ends(p), UNCHANGED store PROVE Whole'
  BY <1>5, EndsLocal DEF IInv, Whole, Holds, Holding, Others
<1>6. CASE Capture(p) \/ Parse(p) \/ Open(p)
  <2>1. ~At(p, "idle") /\ Holds(p) /\ store' \in {store, Damaged}
    BY <1>6 DEF Capture, Parse, Open, Holds, Holding, At
  <2>2. \E pc \in Holding : Goto(p, pc)
    BY <1>6 DEF Capture, Parse, Open, Holding
  <2> QED BY <1>4, <2>1, <2>2
<1>7. CASE \/ ResponseLost(p) \/ NotGranted(p) \/ CaptureFails(p) \/ ParseFails(p)
           \/ SaveFails(p) \/ Dies(p)
  BY <1>5, <1>7 DEF ResponseLost, NotGranted, CaptureFails, ParseFails, SaveFails, Dies
<1> QED BY <1>1, <1>2, <1>3, <1>6, <1>7 DEF Step, Refresh, BlankAnswer

LEMMA OnlyBlanksAreBlank == Spec => [](blank \/ Whole)
<1>1. Init => Whole
  BY ConstantsAssumption DEF Init, Whole, Fresh, Idle, Holds, Holding
<1>2. IInv /\ (blank \/ Whole) /\ [Next]_vars => (blank \/ Whole)'
  <2>1. ASSUME IInv, Whole, Next, ~blank' PROVE Whole'
    BY <2>1, WholeStays DEF Next
  <2>2. ASSUME Whole, UNCHANGED vars PROVE Whole'
    BY <2>2 DEF vars, Whole, Holds
  <2> QED BY <2>1, <2>2, HistoryStays
<1> QED BY <1>1, <1>2, Inductive, PTL DEF Spec

(* Any number of processes that refresh at once leave a file that the next  *)
(* one can load, unless a save in place is under way or was cut short, or   *)
(* an answer without an access token was taken, or the server does not      *)
(* always rotate.                                                           *)
THEOREM FileStaysLoadable == Spec => []StaysLoadable
<1> DEFINE Parses ==
      store = Damaged => kept \/ cutShort \/ \E p \in InPlace : At(p, "write")
<1>1. Init => Parses
  <2>1. Fresh \in Credentials
    BY TypeInit, ConstantsAssumption DEF Fresh, Credentials
  <2> QED BY <2>1, CredentialsReadable DEF Init
<1>2. IInv /\ Parses /\ [Next]_vars => Parses'
  <2> SUFFICES ASSUME IInv, Parses, [Next]_vars,
                      ~kept', ~cutShort', store' = Damaged
               PROVE  \E q \in InPlace : At(q, "write")'
    OBVIOUS
  <2>1. ~kept /\ ~cutShort /\ Rotating
    BY HistoryStays DEF IInv
  <2>2. CASE UNCHANGED vars
    BY <2>1, <2>2 DEF vars, At
  <2>3. ASSUME NEW p \in Refreshers, Step(p) PROVE \E q \in InPlace : At(q, "write")'
    <3>1. ~Save(p)
      BY CredentialsReadable, Locals DEF Save, IInv, Local, At
    <3>2. ~WriteInPlace(p)
      BY <2>1, CredentialsReadable, Locals
         DEF WriteInPlace, Rotating, WritesItsOwn, Holds, Holding, IInv, Local, At
    <3>3. CASE Open(p)
      <4>1. proc'[p].pc = "write" /\ p \in InPlace
        BY <3>3, GotoLocal DEF Open, IInv, OpensInPlace, At, Holding
      <4> QED BY <4>1 DEF At
    <3>4. CASE ~Open(p)
      <4>1. /\ UNCHANGED store /\ ~At(p, "write")
            /\ \A q \in Refreshers \ {p} : proc'[q] = proc[q]
        BY <2>3, <3>1, <3>2, <3>4, Quiet
      <4> QED BY <2>1, <4>1, ConstantsAssumption DEF At
    <3> QED BY <3>3, <3>4
  <2> QED BY <2>2, <2>3 DEF Next, Step
<1>3. Parses /\ (blank \/ Whole) => StaysLoadable
  BY DEF Whole, StaysLoadable, Loadable
<1> QED BY <1>1, <1>2, <1>3, Inductive, OnlyBlanksAreBlank, PTL DEF Spec

(* Who gives up a response it holds has saved it, told the operator what is *)
(* in it, or captured it, or it is lost.                                    *)
LEMMA LetsGo ==
  ASSUME IInv, NEW p \in Refreshers, Step(p), Holds(p), ~Holds(p)', ~kept', ~lost'
  PROVE  \/ store' # Damaged /\ store'.refresh = server'.refresh
         \/ server'.refresh \in raw' \cup told'
<1>1. ~kept /\ Rotating /\ proc[p] \in Local /\ ~At(p, "idle") /\ ~At(p, "post")
  BY HistoryStays, Locals DEF IInv, Next, Step, Holds, Holding, At
<1>2. proc[p].creds.refresh = server.refresh /\ proc[p].creds \in Credentials
  BY <1>1 DEF Rotating, HolderIsLive, Local
<1>3. ASSUME NEW pc \in Holding, Goto(p, pc) PROVE FALSE
  BY <1>1, <1>3, GotoLocal DEF IInv, Holds
<1>4. ~Capture(p) /\ ~Parse(p) /\ ~Open(p)
  BY <1>3 DEF Capture, Parse, Open, Holding
<1>5. CASE Save(p) \/ WriteInPlace(p)
  <2>1. store' = proc[p].creds /\ UNCHANGED server
    BY <1>1, <1>5 DEF Save, WriteInPlace, Rotating, WritesItsOwn
  <2> QED BY <1>2, <2>1, CredentialsReadable
<1>6. CASE CaptureFails(p) \/ ParseFails(p) \/ SaveFails(p)
  BY <1>2, <1>6 DEF CaptureFails, ParseFails, SaveFails, Tells
<1>7. CASE Dies(p)
  BY <1>1, <1>2, <1>7 DEF Dies
<1>8. ~(Load(p) \/ Post(p) \/ BlankAnswer(p) \/ ResponseLost(p) \/ NotGranted(p))
  BY <1>1 DEF Load, Post, BlankAnswer, ResponseLost, NotGranted
<1> QED BY <1>4, <1>5, <1>6, <1>7, <1>8 DEF Step, Refresh

(* The one live refresh token is never lost by what the processes do.       *)
THEOREM PairStaysRecoverable == Spec => []PairIsRecoverable
<1>1. Init => PairIsRecoverable
  <2>1. Fresh \in Credentials
    BY ConstantsAssumption DEF Fresh, Credentials
  <2> QED BY <2>1, CredentialsReadable DEF Init, PairIsRecoverable, Recoverable
<1>2. IInv /\ PairIsRecoverable /\ [Next]_vars => PairIsRecoverable'
  <2> SUFFICES ASSUME IInv, PairIsRecoverable, [Next]_vars, ~kept', ~lost'
               PROVE  Recoverable'
    BY DEF PairIsRecoverable
  <2>1. ~kept /\ ~lost /\ Rotating /\ Recoverable
    BY HistoryStays DEF IInv, PairIsRecoverable
  <2>2. CASE UNCHANGED vars
    BY <2>1, <2>2 DEF vars, history, Recoverable
  <2>3. ASSUME NEW p \in Refreshers, Step(p) PROVE Recoverable'
    <3>1. CASE Somebody'
      <4>1. Rotating'
        BY NextKeepsIInv DEF IInv
      <4> QED BY <3>1, <4>1 DEF Rotating, HolderIsLive, Somebody, Holds, Recoverable
    <3>2. CASE ~Somebody'
      <4>1. ~Post(p) /\ ~BlankAnswer(p)
        <5>1. ASSUME Post(p) \/ BlankAnswer(p) PROVE Holds(p)'
          <6>1. PICK c : Answered(p, c)
            BY <5>1 DEF Post, BlankAnswer
          <6> QED BY <6>1 DEF Answered, IInv, TypeOK, Holds, Holding
        <5> QED BY <3>2, <5>1 DEF Somebody
      <4>2. UNCHANGED server /\ raw \subseteq raw' /\ told \subseteq told'
        BY <2>3, <4>1 DEF Step, Refresh, Load, ResponseLost, NotGranted, Capture,
           CaptureFails, Parse, ParseFails, Save, Open, WriteInPlace, SaveFails, Dies, Tells
      <4>3. CASE Holds(p)
        BY <2>3, <3>2, <4>3, LetsGo DEF Somebody, Recoverable
      <4>4. CASE ~Holds(p)
        <5>1. /\ UNCHANGED store
              /\ \A q \in Refreshers \ {p} : proc'[q] = proc[q]
          BY <2>3, <4>4, Quiet DEF Save, Open, WriteInPlace, Holds, Holding, At
        <5>2. \A q \in Refreshers : ~Holds(q)
          BY <3>2, <4>4, <5>1 DEF Somebody, Holds
        <5> QED BY <2>1, <4>2, <5>1, <5>2 DEF Recoverable, Holds
      <4> QED BY <4>3, <4>4
    <3> QED BY <3>1, <3>2
  <2> QED BY <2>2, <2>3 DEF Next, Step
<1> QED BY <1>1, <1>2, Inductive, PTL DEF Spec
=============================================================================
