----------------------- MODULE SandboxCreate_proofs -----------------------
(* Proofs of the safety properties of SandboxCreate. *)
EXTENDS SandboxCreate, FiniteSetTheorems, WellFoundedInduction, TLAPS

(* Whether c's look at the list no longer depends on sandbox d: c was       *)
(* handed back, or its collision check is past d or need not show d.        *)
Checked(c, d) ==
  \/ c \in returned
  \/ /\ call[c].pc = "list" /\ call[c].phase = "check"
     /\ d \in call[c].list.listed \/ d \notin call[c].list.due

(* Of two sandboxes with a block in common, one is still to be looked at by *)
(* the creator of the other.                                                *)
BlocksApart ==
  \A c, d \in Allocating :
    /\ c # d /\ box[c] # NoBox /\ box[d] # NoBox
    /\ Checked(c, d) /\ Checked(d, c)
    => box[c].blocks \cap box[d].blocks = {}

(* What the local state of creator c says of its sandbox. *)
CallOK(c) ==
  /\ call[c].pc = "begin" => call[c].list.listed = {}
  /\ call[c].pc = "create" /\ UsesAllocator(c) => call[c].base \in Blocks
  /\ c \in returned => call[c].pc \notin {"verify", "teardown"} /\ call[c].phase # "check"
  /\ call[c].phase = "check" => call[c].pc \in {"begin", "list", "teardown"}
  /\ call[c].phase = "check" \/ (call[c].pc = "verify" /\ UsesAllocator(c))
       => box[c] = NoBox \/ box[c].blocks = {call[c].base}

IInv == TypeOK /\ (\A c \in Creators : CallOK(c)) /\ BlocksApart

(* A step of c leaves the other creators alone, except that their listings  *)
(* need no longer show a sandbox that is gone.                              *)
SameCall(d, c) ==
  /\ call'[d].pc = call[d].pc /\ call'[d].phase = call[d].phase
  /\ call'[d].path = call[d].path /\ call'[d].base = call[d].base
  /\ \/ /\ call'[d].list.due = call[d].list.due
        /\ call'[d].list.listed = call[d].list.listed
     \/ /\ box'[c] = NoBox /\ call'[d].list.due = call[d].list.due \ {c}
        /\ call'[d].list.listed = call[d].list.listed \ {c}

Frame(c) ==
  \A d \in Creators \ {c} :
    /\ box'[d] = box[d] /\ (d \in returned' <=> d \in returned)
    /\ SameCall(d, c)

LEMMA WithoutType ==
  ASSUME NEW c \in Creators, NEW calls \in [Creators -> Call]
  PROVE  /\ Without(c, calls) \in [Creators -> Call]
         /\ \A d \in Creators :
              /\ Without(c, calls)[d].pc = calls[d].pc
              /\ Without(c, calls)[d].phase = calls[d].phase
              /\ Without(c, calls)[d].path = calls[d].path
              /\ Without(c, calls)[d].base = calls[d].base
              /\ Without(c, calls)[d].list.listed = calls[d].list.listed \ {c}
              /\ Without(c, calls)[d].list.due = calls[d].list.due \ {c}
<1>1. ASSUME NEW d \in Creators
      PROVE  /\ Without(c, calls)[d] \in Call
             /\ Without(c, calls)[d].pc = calls[d].pc
             /\ Without(c, calls)[d].phase = calls[d].phase
             /\ Without(c, calls)[d].path = calls[d].path
             /\ Without(c, calls)[d].base = calls[d].base
             /\ Without(c, calls)[d].list.listed = calls[d].list.listed \ {c}
             /\ Without(c, calls)[d].list.due = calls[d].list.due \ {c}
  <2>1. calls[d] \in Call
    BY <1>1
  <2>2. calls[d].list \in Listing
    BY <2>1 DEF Call
  <2>3. [due |-> calls[d].list.due \ {c}, listed |-> calls[d].list.listed \ {c},
         pages |-> calls[d].list.pages, sum |-> calls[d].list.sum,
         occupied |-> calls[d].list.occupied] \in Listing
    BY <2>2 DEF Listing
  <2>4. calls[d].counted \ {c} \in SUBSET Creators
    BY <2>1 DEF Call
  <2>5. Without(c, calls)[d] =
          [pc |-> calls[d].pc, phase |-> calls[d].phase, path |-> calls[d].path,
           mem |-> calls[d].mem, base |-> calls[d].base,
           list |-> [due |-> calls[d].list.due \ {c}, listed |-> calls[d].list.listed \ {c},
                     pages |-> calls[d].list.pages, sum |-> calls[d].list.sum,
                     occupied |-> calls[d].list.occupied],
           counted |-> calls[d].counted \ {c}]
    BY <2>1, <2>2 DEF Without, Call, Listing
  <2>6. Without(c, calls)[d] \in Call
    BY <2>1, <2>3, <2>4, <2>5 DEF Call
  <2> QED BY <2>5, <2>6
<1>2. Without(c, calls) \in [Creators -> Call]
  <2> DEFINE f == Without(c, calls)
  <2>1. f = [d \in Creators |-> f[d]]
    BY DEF Without
  <2>2. \A d \in Creators : f[d] \in Call
    BY <1>1
  <2> HIDE DEF f
  <2>3. f \in [Creators -> Call]
    BY <2>1, <2>2
  <2> QED BY <2>3 DEF f
<1> QED BY <1>1, <1>2

LEMMA IdleType == Idle \in Call /\ NoListing \in Listing
BY ConstantsAssumption DEF Idle, NoListing, Call, Listing, CreatePaths

LEMMA InitIInv == Init => IInv
<1> SUFFICES ASSUME Init PROVE IInv
  OBVIOUS
<1>1. TypeOK
  BY IdleType DEF Init, TypeOK
<1>2. \A c \in Creators : CallOK(c)
  BY DEF Init, CallOK, Idle
<1>3. BlocksApart
  BY ConstantsAssumption DEF Init, BlocksApart
<1> QED BY <1>1, <1>2, <1>3 DEF IInv

(* What c's step has to show of its own sandbox. *)
Keeps(c) ==
  \A d \in Creators \ {c} :
    /\ c \in Allocating /\ box'[c] # NoBox /\ box[d] # NoBox /\ Checked(c, d)'
    => box'[c] = box[c] /\ (Checked(c, d) \/ box[c].blocks \cap box[d].blocks = {})

LEMMA StepKeepsIInv ==
  ASSUME IInv, NEW c \in Creators, TypeOK', CallOK(c)', Frame(c), Keeps(c)
  PROVE  IInv'
<1>1. \A d \in Creators : CallOK(d)'
  <2> SUFFICES ASSUME NEW d \in Creators \ {c} PROVE CallOK(d)'
    OBVIOUS
  <2>1. CallOK(d)
    BY DEF IInv
  <2> QED BY <2>1 DEF Frame, SameCall, CallOK, UsesAllocator
<1>2. ASSUME NEW d \in Creators \ {c}, NEW e \in Creators, box'[c] # NoBox \/ e # c,
             Checked(d, e)'
      PROVE  Checked(d, e)
  BY <1>2 DEF Frame, SameCall, Checked
<1>3. ASSUME NEW d \in Creators \ {c}, c \in Allocating, d \in Allocating,
             box'[c] # NoBox, box'[d] # NoBox, Checked(c, d)', Checked(d, c)'
      PROVE  box'[c].blocks \cap box'[d].blocks = {}
  <2>1. Checked(d, c)
    BY <1>2, <1>3
  <2>2. box'[d] = box[d]
    BY DEF Frame
  <2>3. box'[c] = box[c] /\ (Checked(c, d) \/ box[c].blocks \cap box[d].blocks = {})
    BY <1>3, <2>2 DEF Keeps
  <2> QED BY <1>3, <2>1, <2>2, <2>3 DEF IInv, BlocksApart
<1>4. BlocksApart'
  <2> SUFFICES ASSUME NEW d \in Allocating, NEW e \in Allocating, d # e,
                      box'[d] # NoBox, box'[e] # NoBox, Checked(d, e)', Checked(e, d)'
               PROVE  box'[d].blocks \cap box'[e].blocks = {}
    BY DEF BlocksApart
  <2>1. d \in Creators /\ e \in Creators
    BY ConstantsAssumption
  <2>2. CASE d = c
    BY <1>3, <2>1, <2>2
  <2>3. CASE e = c
    <3>1. box'[e].blocks \cap box'[d].blocks = {}
      BY <1>3, <2>1, <2>3
    <3> QED BY <3>1
  <2>4. CASE d # c /\ e # c
    <3>1. Checked(d, e) /\ Checked(e, d)
      BY <1>2, <2>1, <2>4
    <3>2. box'[d] = box[d] /\ box'[e] = box[e]
      BY <2>1, <2>4 DEF Frame
    <3> QED BY <3>1, <3>2 DEF IInv, BlocksApart
  <2> QED BY <2>2, <2>3, <2>4
<1> QED BY <1>1, <1>4 DEF IInv

(* A step that only sets the locals of c. *)
Local(c) ==
  /\ call'[c] \in Call /\ \A d \in Creators \ {c} : call'[d] = call[d]
  /\ DOMAIN call' = Creators /\ call' = [d \in Creators |-> call'[d]]
  /\ box' = box /\ returned' = returned /\ faults' \in Nat

LEMMA LocalStep ==
  ASSUME IInv, NEW c \in Creators, Local(c)
  PROVE  TypeOK' /\ Frame(c)
<1>1. TypeOK
  BY DEF IInv
<1>2. \A d \in Creators : call'[d] \in Call
  BY <1>1 DEF TypeOK, Local
<1>3. call' \in [Creators -> Call]
  BY <1>2 DEF Local
<1> QED BY <1>1, <1>3 DEF TypeOK, Frame, SameCall, Local

(* A step that leaves c idle. *)
LEMMA IdleStep ==
  ASSUME IInv, NEW c \in Creators, GiveUp(c), box' = box, returned' = returned,
         faults' \in Nat
  PROVE  IInv'
<1>1. call \in [Creators -> Call] /\ CallOK(c)
  BY DEF IInv, TypeOK
<1>2. call'[c] = Idle /\ Local(c)
  BY <1>1, IdleType DEF GiveUp, Local
<1>3. CallOK(c)'
  BY <1>1, <1>2 DEF CallOK, Idle, Local, NoListing
<1>4. Keeps(c)
  BY <1>2 DEF Keeps, Local, Checked, Idle
<1> QED BY <1>2, <1>3, <1>4, LocalStep, StepKeepsIInv

-----------------------------------------------------------------------------
(* One lemma per action or group of actions. *)

LEMMA FailType == IInv => faults \in Nat /\ (Fail => faults' \in Nat)
BY DEF IInv, TypeOK, Fail

LEMMA SumType == \A a, b \in 0 .. MaxUint32 : SaturatingAdd(a, b) \in 0 .. MaxUint32
BY ConstantsAssumption DEF SaturatingAdd

(* The call of c can be taken apart. *)
LEMMA CallParts ==
  ASSUME IInv, NEW c \in Creators
  PROVE  /\ call \in [Creators -> Call] /\ call[c] \in Call
         /\ call[c].list \in Listing /\ CallOK(c) /\ faults \in Nat
         /\ box \in [Creators -> Box \cup {NoBox}]
BY DEF IInv, TypeOK, Call

LEMMA StartsIInv ==
  ASSUME IInv, NEW c \in Creators, NEW path \in CreatePaths, NEW m \in MemorySizes,
         StartCall(c, path, m), box' = box, returned' = returned, faults' \in Nat
  PROVE  IInv'
<1>1. m \in 0 .. MaxUint32
  BY ConstantsAssumption
<1>2. /\ call'[c].pc = "begin" /\ call'[c].phase \in {"service", "admit"}
      /\ call'[c].list = NoListing /\ call'[c] \in Call
  BY <1>1, CallParts, IdleType DEF StartCall, Idle, Call
<1>3. Local(c)
  BY <1>2, CallParts DEF StartCall, Local
<1>4. CallOK(c)'
  BY <1>2, CallParts DEF CallOK, NoListing
<1>5. Keeps(c)
  BY <1>2, <1>3 DEF Keeps, Local, Checked
<1> QED BY <1>3, <1>4, <1>5, LocalStep, StepKeepsIInv

LEMMA ListBeginIInv == ASSUME IInv, NEW c \in Creators, ListBegin(c) PROVE IInv'
<1>1. /\ call'[c].pc = "list" /\ call'[c].list.due = Present
      /\ call'[c].list.listed = call[c].list.listed
      /\ call'[c].phase = call[c].phase /\ call'[c].base = call[c].base
      /\ call'[c].path = call[c].path /\ call'[c] \in Call
  <2> DEFINE l == [call[c].list EXCEPT !.due = Present]
  <2>1. l \in Listing /\ l.due = Present /\ l.listed = call[c].list.listed
    BY CallParts DEF Listing, Present
  <2>2. call'[c] = [call[c] EXCEPT !.pc = "list", !.list = l]
    BY CallParts DEF ListBegin, Call
  <2> HIDE DEF l
  <2>3. call'[c] = [pc |-> "list", phase |-> call[c].phase, path |-> call[c].path,
                    mem |-> call[c].mem, base |-> call[c].base, list |-> l,
                    counted |-> call[c].counted]
    BY <2>2, CallParts DEF Call
  <2>4. call'[c] \in Call
    BY <2>1, <2>3, CallParts DEF Call
  <2> QED BY <2>1, <2>3, <2>4
<1>2. Local(c)
  BY <1>1, CallParts DEF ListBegin, Local
<1>3. CallOK(c)'
  BY <1>1, <1>2, CallParts DEF ListBegin, CallOK, Local
<1>4. Keeps(c)
  BY <1>1, <1>2, CallParts DEF ListBegin, CallOK, Local, Keeps, Checked, Present
<1> QED BY <1>2, <1>3, <1>4, LocalStep, StepKeepsIInv

(* What a page may leave of a listing. *)
LEMMA PagedListing ==
  ASSUME NEW l \in Listing, NEW t \in SUBSET Creators, NEW p \in Nat
  PROVE  /\ \A s \in 0 .. MaxUint32 :
              [l EXCEPT !.listed = t, !.pages = p, !.sum = s] \in Listing
         /\ \A o \in SUBSET Blocks :
              [l EXCEPT !.listed = t, !.pages = p, !.occupied = o] \in Listing
<1>1. ASSUME NEW s \in 0 .. MaxUint32
      PROVE  [l EXCEPT !.listed = t, !.pages = p, !.sum = s] \in Listing
  BY <1>1, Zenon DEF Listing
<1>2. ASSUME NEW o \in SUBSET Blocks
      PROVE  [l EXCEPT !.listed = t, !.pages = p, !.occupied = o] \in Listing
  BY <1>2, Zenon DEF Listing
<1> QED BY <1>1, <1>2

(* The pages that look at memory or at occupancy. *)
LEMMA CountingPageIInv ==
  ASSUME IInv, NEW c \in Creators, CountPage(c) \/ OccupancyPage(c)
  PROVE  IInv'
<1>1. PICK d \in Creators :
        /\ NextPage(c, d)
        /\ \/ call' = [call EXCEPT ![c].list.listed = @ \cup {d},
                          ![c].list.pages = PageRead(@),
                          ![c].list.sum = SaturatingAdd(@, box[d].mem),
                          ![c].counted = @ \cup {d}]
           \/ call' = [call EXCEPT ![c].list.listed = @ \cup {d},
                          ![c].list.pages = PageRead(@),
                          ![c].list.occupied = @ \cup box[d].blocks]
  BY DEF CountPage, OccupancyPage
<1>2. box[d] \in Box
  BY <1>1, CallParts DEF NextPage, Present
<1>3. box[d].mem \in 0 .. MaxUint32 /\ box[d].blocks \in SUBSET Blocks
  BY <1>2 DEF Box
<1>4. SaturatingAdd(call[c].list.sum, box[d].mem) \in 0 .. MaxUint32
  BY <1>3, SumType, CallParts DEF Listing
<1>5. /\ call'[c].pc = call[c].pc /\ call'[c].phase = call[c].phase
      /\ call'[c] \in Call
  <2> DEFINE g == call[c]
             p == PageRead(g.list.pages)
             l == [g.list EXCEPT !.listed = @ \cup {d}, !.pages = p,
                     !.sum = SaturatingAdd(@, box[d].mem)]
             k == [g.list EXCEPT !.listed = @ \cup {d}, !.pages = p,
                     !.occupied = @ \cup box[d].blocks]
  <2>1. g \in Call /\ g.list \in Listing /\ p \in Nat /\ g.counted \cup {d} \in SUBSET Creators
    BY CallParts DEF Listing, Call, PageRead
  <2>2. g.list.listed \cup {d} \in SUBSET Creators
    BY <2>1 DEF Listing
  <2>3. g.list.occupied \cup box[d].blocks \in SUBSET Blocks
    BY <1>3, <2>1 DEF Listing
  <2> HIDE DEF p
  <2>4. g.list.sum \in 0 .. MaxUint32 /\ SaturatingAdd(g.list.sum, box[d].mem) \in 0 .. MaxUint32
    BY <1>4, <2>1 DEF Listing
  <2>5. l \in Listing /\ k \in Listing
    BY <2>1, <2>2, <2>3, <2>4, PagedListing
  <2>6. CASE call' = [call EXCEPT ![c].list.listed = @ \cup {d},
                        ![c].list.pages = PageRead(@),
                        ![c].list.sum = SaturatingAdd(@, box[d].mem),
                        ![c].counted = @ \cup {d}]
    <3>1. [g EXCEPT !.list.listed = @ \cup {d}, !.list.pages = PageRead(@),
                    !.list.sum = SaturatingAdd(@, box[d].mem), !.counted = @ \cup {d}]
            = [g EXCEPT !.list = l, !.counted = g.counted \cup {d}]
      BY <2>1 DEF Call, Listing, p
    <3>2. call'[c] = [g EXCEPT !.list = l, !.counted = g.counted \cup {d}]
      BY <2>6, <3>1, CallParts
    <3> HIDE DEF l
    <3> QED BY <2>1, <2>5, <3>2 DEF Call
  <2>7. CASE call' = [call EXCEPT ![c].list.listed = @ \cup {d},
                        ![c].list.pages = PageRead(@),
                        ![c].list.occupied = @ \cup box[d].blocks]
    <3>1. [g EXCEPT !.list.listed = @ \cup {d}, !.list.pages = PageRead(@),
                    !.list.occupied = @ \cup box[d].blocks]
            = [g EXCEPT !.list = k]
      BY <2>1 DEF Call, Listing, p
    <3>2. call'[c] = [g EXCEPT !.list = k]
      BY <2>7, <3>1, CallParts
    <3> HIDE DEF k
    <3> QED BY <2>1, <2>5, <3>2 DEF Call
  <2> QED BY <1>1, <2>6, <2>7
<1>6. Local(c) /\ call[c].phase # "check"
  BY <1>1, <1>5, CallParts DEF CountPage, OccupancyPage, Local
<1>7. CallOK(c)'
  BY <1>1, <1>5, <1>6, CallParts DEF NextPage, CallOK, Local
<1>8. Keeps(c)
  BY <1>5, <1>6 DEF Keeps, Local, Checked
<1> QED BY <1>6, <1>7, <1>8, LocalStep, StepKeepsIInv

(* A page of the collision check shows a sandbox outside the block of c. *)
LEMMA CheckPageIInv == ASSUME IInv, NEW c \in Creators, CheckPage(c) PROVE IInv'
<1>1. PICK d \in Creators :
        /\ NextPage(c, d) /\ ~Collides(c, d)
        /\ call' = [call EXCEPT ![c].list.listed = @ \cup {d},
                                ![c].list.pages = PageRead(@)]
  BY DEF CheckPage
<1>2. /\ call'[c].pc = "list" /\ call'[c].phase = "check"
      /\ call'[c].base = call[c].base /\ call'[c].path = call[c].path
      /\ call'[c].list.listed = call[c].list.listed \cup {d}
      /\ call'[c].list.due = call[c].list.due /\ call'[c] \in Call
  <2> DEFINE p == PageRead(call[c].list.pages)
             t == call[c].list.listed \cup {d}
             l == [call[c].list EXCEPT !.listed = t, !.pages = p]
  <2>1. /\ l \in Listing /\ l.listed = call[c].list.listed \cup {d}
        /\ l.due = call[c].list.due
    <3>1. p \in Nat
      BY CallParts DEF Listing, PageRead
    <3>2. t \in SUBSET Creators
      BY CallParts DEF Listing
    <3> HIDE DEF p, t
    <3>3. PICK o \in Listing : o = call[c].list
      BY CallParts
    <3>4. PICK q : q = [o EXCEPT !.listed = t, !.pages = p]
      OBVIOUS
    <3>5. q \in Listing
      BY ONLY <3>1, <3>2, <3>4, Zenon DEF Listing
    <3>6. q.listed = t
      BY ONLY <3>1, <3>2, <3>4, Zenon DEF Listing
    <3>7. q.due = o.due
      BY ONLY <3>1, <3>2, <3>4, Zenon DEF Listing
    <3> QED BY <3>3, <3>4, <3>5, <3>6, <3>7 DEF t
  <2>2. call'[c] = [call[c] EXCEPT !.list = l]
    <3>1. PICK g \in Call : g = call[c] /\ g.list \in Listing
      BY CallParts
    <3>2. [g EXCEPT !.list.listed = @ \cup {d}, !.list.pages = PageRead(@)] =
            [g EXCEPT !.list = [g.list EXCEPT !.listed = @ \cup {d}, !.pages = PageRead(@)]]
      BY <3>1 DEF Call, Listing
    <3>3. call'[c] = [g EXCEPT !.list.listed = @ \cup {d}, !.list.pages = PageRead(@)]
      BY <1>1, <3>1, CallParts
    <3> QED BY <3>1, <3>2, <3>3
  <2> HIDE DEF l
  <2>3. call'[c] = [pc |-> "list", phase |-> "check", path |-> call[c].path,
                    mem |-> call[c].mem, base |-> call[c].base, list |-> l,
                    counted |-> call[c].counted]
    BY <1>1, <2>2, CallParts DEF CheckPage, NextPage, Call
  <2>4. call'[c] \in Call
    BY <2>1, <2>3, CallParts DEF Call
  <2> QED BY <2>1, <2>3, <2>4
<1>3. Local(c)
  BY <1>1, <1>2, CallParts DEF CheckPage, Local
<1>4. CallOK(c)'
  <2>1. CallOK(c) /\ call[c].phase = "check" /\ box' = box /\ returned' = returned
    BY <1>3, CallParts DEF CheckPage, Local
  <2> QED BY <1>2, <2>1 DEF CallOK
<1>5. ASSUME d # c, box[c] # NoBox PROVE box[c].blocks \cap box[d].blocks = {}
  <2>1. box[c].blocks = {call[c].base}
    BY <1>5, CallParts DEF CallOK, CheckPage
  <2> QED BY <1>1, <1>5, <2>1 DEF Collides
<1>6. Keeps(c)
  <2> SUFFICES ASSUME NEW e \in Creators \ {c}, box'[c] # NoBox, Checked(c, e)'
               PROVE  /\ box'[c] = box[c]
                      /\ Checked(c, e) \/ box[c].blocks \cap box[e].blocks = {}
    BY DEF Keeps
  <2>1. box'[c] = box[c]
    BY <1>3 DEF Local
  <2>2. CASE e = d
    BY <1>5, <2>1, <2>2
  <2>3. CASE e # d
    BY <1>1, <1>2, <1>3, <2>3 DEF CheckPage, NextPage, Local, Checked
  <2> QED BY <2>1, <2>2, <2>3
<1> QED BY <1>3, <1>4, <1>6, LocalStep, StepKeepsIInv

LEMMA BeginTeardownIInv ==
  ASSUME IInv, NEW c \in Creators, BeginTeardown(c), c \notin returned,
         box' = box, returned' = returned, faults' \in Nat
  PROVE  IInv'
<1>1. /\ call'[c].pc = "teardown" /\ call'[c].phase = call[c].phase
      /\ call'[c].base = call[c].base /\ call'[c].path = call[c].path
      /\ call'[c] \in Call
  BY CallParts, IdleType DEF BeginTeardown, Call
<1>2. Local(c)
  BY <1>1, CallParts DEF BeginTeardown, Local
<1>3. CallOK(c)'
  BY <1>1, <1>2, CallParts DEF CallOK, Local
<1>4. Keeps(c)
  BY <1>1, <1>2 DEF Keeps, Local, Checked
<1> QED BY <1>2, <1>3, <1>4, LocalStep, StepKeepsIInv

LEMMA BeginListingIInv ==
  ASSUME IInv, NEW c \in Creators,
         NEW phase \in {"service", "admit", "occupancy", "check"},
         BeginListing(c, phase),
         phase = "check" => call[c].pc = "verify" /\ UsesAllocator(c),
         box' = box, returned' = returned, faults' \in Nat
  PROVE  IInv'
<1>1. /\ call'[c].pc = "begin" /\ call'[c].phase = phase
      /\ call'[c].base = call[c].base /\ call'[c].path = call[c].path
      /\ call'[c].list = NoListing /\ call'[c] \in Call
  BY CallParts, IdleType DEF BeginListing, Call
<1>2. Local(c)
  BY <1>1, CallParts DEF BeginListing, Local
<1>3. CallOK(c)'
  BY <1>1, <1>2, CallParts DEF CallOK, Local, NoListing
<1>4. Keeps(c)
  BY <1>1, <1>2 DEF Keeps, Local, Checked
<1> QED BY <1>2, <1>3, <1>4, LocalStep, StepKeepsIInv

LEMMA ListFailsIInv == ASSUME IInv, NEW c \in Creators, ListFails(c) PROVE IInv'
<1>1. faults' \in Nat
  BY FailType DEF ListFails
<1>2. CASE call[c].phase = "check"
  BY <1>1, <1>2, CallParts, BeginTeardownIInv DEF ListFails, CallOK
<1>3. CASE call[c].phase # "check"
  BY <1>1, <1>3, IdleStep DEF ListFails
<1> QED BY <1>2, <1>3

LEMMA RuntimeAdmitsIInv == ASSUME IInv, NEW c \in Creators, RuntimeAdmits(c) PROVE IInv'
<1>1. /\ call'[c].list = NoListing /\ call'[c].pc \in {"begin", "create"}
      /\ call'[c].pc = "create" => ~UsesAllocator(c)
      /\ call'[c].phase \in {"occupancy", "admit"} /\ call'[c].path = call[c].path
      /\ call'[c] \in Call
  BY IdleType, CallParts DEF RuntimeAdmits, Call
<1>2. Local(c)
  BY <1>1, CallParts DEF RuntimeAdmits, Local
<1>3. CallOK(c)'
  BY <1>1, <1>2, CallParts DEF CallOK, NoListing, UsesAllocator
<1>4. Keeps(c)
  BY <1>1, <1>2 DEF Keeps, Local, Checked
<1> QED BY <1>2, <1>3, <1>4, LocalStep, StepKeepsIInv

LEMMA AllocateIInv == ASSUME IInv, NEW c \in Creators, Allocate(c) PROVE IInv'
<1>1. PICK b \in Blocks :
        call' = [call EXCEPT ![c].base = b, ![c].pc = "create", ![c].list = NoListing]
  BY DEF Allocate
<1>2. b \in Nat
  BY ConstantsAssumption DEF Blocks
<1>3. /\ call'[c].list = NoListing /\ call'[c].pc = "create" /\ call'[c].base = b
      /\ call'[c].phase = "occupancy" /\ call'[c] \in Call
  BY <1>1, <1>2, IdleType, CallParts DEF Allocate, ListEnded, Call
<1>4. Local(c)
  BY <1>1, <1>3, CallParts DEF Allocate, Local
<1>5. CallOK(c)'
  BY <1>3, <1>4, CallParts DEF CallOK
<1>6. Keeps(c)
  BY <1>3, <1>4 DEF Keeps, Local, Checked
<1> QED BY <1>4, <1>5, <1>6, LocalStep, StepKeepsIInv

(* When the listing of the check has ended, every sandbox that exists was   *)
(* either on one of its pages or was created after it began.                *)
LEMMA CollisionFreeIInv == ASSUME IInv, NEW c \in Creators, CollisionFree(c) PROVE IInv'
<1>1. /\ call' = [call EXCEPT ![c] = Idle] /\ returned' = returned \cup {c}
      /\ box' = box /\ faults' = faults
  BY DEF CollisionFree, GiveUp
<1>2. TypeOK'
  BY <1>1, IdleType DEF IInv, TypeOK
<1>3. Frame(c)
  BY <1>1, CallParts DEF Frame, SameCall
<1>4. CallOK(c)'
  BY <1>1, CallParts DEF CallOK, Idle, NoListing
<1>5. \A d \in Creators : Checked(c, d)
  BY CallParts DEF CollisionFree, ListEnded, Checked
<1>6. Keeps(c)
  BY <1>1, <1>5 DEF Keeps
<1> QED BY <1>2, <1>3, <1>4, <1>6, StepKeepsIInv

LEMMA CreateSandboxIInv == ASSUME IInv, NEW c \in Creators, CreateSandbox(c) PROVE IInv'
<1>1. PICK deny \in Policies,
           blocks \in IF UsesAllocator(c) THEN {{call[c].base}} ELSE Published :
        box' = [box EXCEPT ![c] = [mem |-> call[c].mem, blocks |-> blocks,
                                   deny |-> deny]]
  BY DEF CreateSandbox
<1>2. call[c].mem \in 0 .. MaxUint32
  BY CallParts DEF Call
<1>3. blocks \in SUBSET Blocks /\ deny \in BOOLEAN
  <2>1. CASE UsesAllocator(c)
    <3>1. call[c].base \in Blocks
      BY <2>1, CallParts DEF CreateSandbox, CallOK
    <3> QED BY <1>1, <2>1, <3>1, ConstantsAssumption
  <2>2. CASE ~UsesAllocator(c)
    BY <1>1, <2>2, ConstantsAssumption
  <2> QED BY <2>1, <2>2
<1>4. /\ box'[c] \in Box /\ box'[c].blocks = blocks
      /\ box' \in [Creators -> Box \cup {NoBox}]
  BY <1>1, <1>2, <1>3, CallParts DEF Box
<1>5. /\ call'[c].pc = "verify" /\ call'[c].phase = call[c].phase
      /\ call'[c].path = call[c].path /\ call'[c].base = call[c].base
      /\ call'[c] \in Call
  BY CallParts DEF CreateSandbox, Call
<1>6. call' \in [Creators -> Call]
  BY <1>5, CallParts DEF CreateSandbox
<1>7. TypeOK'
  BY <1>4, <1>6 DEF IInv, TypeOK, CreateSandbox
<1>8. Frame(c)
  BY <1>1, CallParts DEF CreateSandbox, Frame, SameCall
<1>9. CallOK(c)'
  BY <1>1, <1>4, <1>5, CallParts DEF CreateSandbox, CallOK, UsesAllocator
<1>10. Keeps(c)
  BY <1>5 DEF CreateSandbox, Keeps, Checked
<1> QED BY <1>7, <1>8, <1>9, <1>10, StepKeepsIInv

(* A sandbox handed back without a look at the list has no allocated block. *)
LEMMA PolicyHoldsIInv == ASSUME IInv, NEW c \in Creators, PolicyHolds(c) PROVE IInv'
<1>1. faults' \in Nat /\ box' = box /\ c \notin returned /\ faults' = faults
  BY CallParts DEF PolicyHolds, CallOK
<1>2. CASE call[c].path = "ephemeral"
  <2>1. BeginTeardown(c) /\ returned' = returned
    BY <1>2 DEF PolicyHolds, UsesAllocator
  <2> QED BY <1>1, <2>1, BeginTeardownIInv
<1>3. CASE UsesAllocator(c)
  <2>1. BeginListing(c, "check") /\ returned' = returned /\ call[c].pc = "verify"
    BY <1>3 DEF PolicyHolds, UsesAllocator
  <2> QED BY <1>1, <1>3, <2>1, BeginListingIInv
<1>4. CASE call[c].path # "ephemeral" /\ ~UsesAllocator(c)
  <2>1. /\ call' = [call EXCEPT ![c] = Idle] /\ returned' = returned \cup {c}
        /\ c \notin Allocating
    BY <1>4 DEF PolicyHolds, GiveUp, UsesAllocator
  <2>2. TypeOK'
    BY <1>1, <2>1, IdleType DEF IInv, TypeOK
  <2>3. Frame(c)
    BY <1>1, <2>1, CallParts DEF Frame, SameCall
  <2>4. CallOK(c)'
    BY <2>1, CallParts DEF CallOK, Idle, NoListing
  <2>5. Keeps(c)
    BY <2>1 DEF Keeps
  <2> QED BY <2>2, <2>3, <2>4, <2>5, StepKeepsIInv
<1> QED BY <1>2, <1>3, <1>4

(* The sandbox of c goes away while the call of c becomes h. *)
LEMMA GoneIInv ==
  ASSUME IInv, NEW c \in Creators, NEW calls \in [Creators -> Call],
         \A d \in Creators \ {c} : calls[d] = call[d],
         call' = Without(c, calls), box' = [box EXCEPT ![c] = NoBox],
         returned' \in SUBSET Creators,
         \A d \in Creators \ {c} : d \in returned' <=> d \in returned,
         faults' \in Nat,
         calls[c].pc = "create" /\ c \in Allocating /\ calls[c].path # "ephemeral"
           => calls[c].base \in Blocks,
         calls[c].pc = "begin" => calls[c].list.listed = {},
         c \in returned' => calls[c].pc \notin {"verify", "teardown"}
                           /\ calls[c].phase # "check",
         calls[c].phase = "check" => calls[c].pc \in {"begin", "list", "teardown"}
  PROVE  IInv'
<1>1. box' \in [Creators -> Box \cup {NoBox}] /\ box'[c] = NoBox
  BY CallParts
<1>2. TypeOK'
  BY <1>1, WithoutType DEF TypeOK
<1>3. Frame(c)
  BY <1>1, WithoutType, CallParts DEF Frame, SameCall
<1>4. CallOK(c)'
  BY <1>1, WithoutType DEF CallOK, UsesAllocator
<1>5. Keeps(c)
  BY <1>1 DEF Keeps
<1> QED BY <1>2, <1>3, <1>4, <1>5, StepKeepsIInv

LEMMA TeardownIInv == ASSUME IInv, NEW c \in Creators, Teardown(c) PROVE IInv'
<1>1. faults' \in Nat /\ returned' = returned
  BY FailType DEF Teardown
<1>2. CASE box' = [box EXCEPT ![c] = NoBox]
  <2> DEFINE calls == [call EXCEPT ![c] = Idle]
  <2>1. /\ calls \in [Creators -> Call] /\ calls[c] = Idle
        /\ \A d \in Creators \ {c} : calls[d] = call[d]
    BY IdleType, CallParts
  <2>2. call' = Without(c, calls)
    BY <1>2, CallParts DEF Teardown
  <2>3. returned' \in SUBSET Creators
    BY <1>1 DEF IInv, TypeOK
  <2> HIDE DEF calls
  <2>4. Idle.pc = "idle" /\ Idle.phase = "none"
    BY DEF Idle
  <2> QED BY <1>1, <1>2, <2>1, <2>2, <2>3, <2>4, GoneIInv
<1>3. CASE box' = box /\ box[c] # NoBox
  BY <1>1, <1>3, IdleStep DEF Teardown, GiveUp
<1>4. CASE box' = box /\ box[c] = NoBox
  <2>1. box' = [box EXCEPT ![c] = NoBox]
    BY <1>4, CallParts
  <2> QED BY <1>2, <2>1
<1> QED BY <1>2, <1>3, <1>4 DEF Teardown

LEMMA RemoveIInv == ASSUME IInv, NEW c \in Creators, Remove(c) PROVE IInv'
<1>1. returned' \in SUBSET Creators /\ faults' \in Nat
  BY DEF Remove, IInv, TypeOK
<1>2. CallOK(c)
  BY CallParts
<1>3. /\ box' = [box EXCEPT ![c] = NoBox] /\ call' = Without(c, call)
      /\ returned' = returned \ {c}
  BY DEF Remove
<1> QED BY <1>1, <1>2, <1>3, CallParts, GoneIInv DEF CallOK, UsesAllocator

LEMMA PublishAnewIInv == ASSUME IInv, NEW c \in Creators, PublishAnew(c) PROVE IInv'
<1>1. PICK m \in MemorySizes :
        call' = Without(c, [call EXCEPT ![c] = [Idle EXCEPT
                  !.pc = "begin", !.phase = "admit", !.path = "publish", !.mem = m]])
  BY DEF PublishAnew
<1> DEFINE h == [Idle EXCEPT !.pc = "begin", !.phase = "admit", !.path = "publish",
                             !.mem = m]
           calls == [call EXCEPT ![c] = h]
<1>2. m \in 0 .. MaxUint32
  BY ConstantsAssumption
<1>3. h \in Call /\ h.pc = "begin" /\ h.phase = "admit" /\ h.list.listed = {}
  BY <1>2, IdleType DEF Idle, NoListing, Call, CreatePaths
<1> HIDE DEF h
<1>4. /\ calls \in [Creators -> Call] /\ calls[c] = h
      /\ \A d \in Creators \ {c} : calls[d] = call[d]
  BY <1>3, CallParts
<1>5. call' = Without(c, calls)
  BY <1>1 DEF h
<1> HIDE DEF calls
<1>6. returned' \in SUBSET Creators /\ faults' \in Nat
  BY DEF PublishAnew, IInv, TypeOK
<1>7. box' = [box EXCEPT ![c] = NoBox] /\ returned' = returned \ {c}
  BY DEF PublishAnew
<1> QED BY <1>3, <1>4, <1>5, <1>6, <1>7, GoneIInv

LEMMA StepIInv == ASSUME IInv, NEW c \in Creators, Step(c) PROVE IInv'
<1>1. CASE ListBegin(c)
  BY <1>1, ListBeginIInv
<1>2. CASE CountPage(c) \/ OccupancyPage(c)
  BY <1>2, CountingPageIInv
<1>3. CASE CheckPage(c)
  BY <1>3, CheckPageIInv
<1>4. CASE CollisionFound(c)
  BY <1>4, CallParts, BeginTeardownIInv DEF CollisionFound, CallOK
<1>5. CASE ListFails(c)
  BY <1>5, ListFailsIInv
<1>6. CASE Refuse(c) \/ AllocateFails(c)
  BY <1>6, CallParts, IdleStep DEF Refuse, AllocateFails
<1>7. CASE ServiceAdmits(c)
  BY <1>7, CallParts, BeginListingIInv DEF ServiceAdmits
<1>8. CASE RuntimeAdmits(c)
  BY <1>8, RuntimeAdmitsIInv
<1>9. CASE Allocate(c)
  BY <1>9, AllocateIInv
<1>10. CASE CollisionFree(c)
  BY <1>10, CollisionFreeIInv
<1>11. CASE CreateSandbox(c)
  BY <1>11, CreateSandboxIInv
<1>12. CASE CreateSandboxFails(c)
  BY <1>12, FailType, IdleStep DEF CreateSandboxFails
<1>13. CASE PolicyHolds(c)
  BY <1>13, PolicyHoldsIInv
<1>14. CASE PolicyMissing(c)
  BY <1>14, CallParts, BeginTeardownIInv DEF PolicyMissing, CallOK
<1>15. CASE VerifyFails(c)
  <2>1. c \notin returned /\ faults' \in Nat
    BY <1>15, CallParts, FailType DEF VerifyFails, CallOK
  <2> QED BY <1>15, <2>1, BeginTeardownIInv, IdleStep DEF VerifyFails
<1>16. CASE Teardown(c)
  BY <1>16, TeardownIInv
<1> QED
  BY <1>1, <1>2, <1>3, <1>4, <1>5, <1>6, <1>7, <1>8, <1>9, <1>10, <1>11, <1>12,
     <1>13, <1>14, <1>15, <1>16 DEF Step

LEMMA DetachWedgesIInv == ASSUME IInv, NEW c \in Creators, DetachWedges(c) PROVE IInv'
<1>1. /\ call'[c].pc = "wedged" /\ call'[c].phase = call[c].phase
      /\ call[c].pc = "verify" /\ call'[c] \in Call
  BY CallParts DEF DetachWedges, Call
<1>2. Local(c)
  BY <1>1, CallParts, FailType DEF DetachWedges, Local
<1>3. CallOK(c)'
  BY <1>1, <1>2, CallParts DEF CallOK, Local
<1>4. Keeps(c)
  BY <1>1, <1>2 DEF Keeps, Local, Checked
<1> QED BY <1>2, <1>3, <1>4, LocalStep, StepKeepsIInv

LEMMA NextIInv == IInv /\ [Next]_vars => IInv'
<1> SUFFICES ASSUME IInv, [Next]_vars PROVE IInv'
  OBVIOUS
<1>1. CASE UNCHANGED vars
  BY <1>1 DEF IInv, TypeOK, CallOK, BlocksApart, Checked, UsesAllocator, vars
<1>2. ASSUME NEW c \in Creators, Create(c) PROVE IInv'
  <2>1. PICK path \in Paths \ {"publish"}, m \in MemorySizes : StartCall(c, path, m)
    BY <1>2 DEF Create
  <2>2. path \in CreatePaths /\ faults' \in Nat
    BY <1>2, ConstantsAssumption DEF Create, IInv, TypeOK
  <2> QED BY <1>2, <2>1, <2>2, StartsIInv DEF Create
<1>3. ASSUME NEW c \in Creators, Publish(c) PROVE IInv'
  <2>1. "publish" \in CreatePaths /\ faults' \in Nat
    BY <1>3, FailType, CallParts DEF Publish, CreatePaths
  <2> QED BY <1>3, <2>1, StartsIInv DEF Publish
<1>4. ASSUME NEW c \in Creators, Crash(c) PROVE IInv'
  BY <1>4, FailType, IdleStep DEF Crash
<1> QED
  BY <1>1, <1>2, <1>3, <1>4, PublishAnewIInv, StepIInv, RemoveIInv,
     DetachWedgesIInv DEF Next

LEMMA InvariantIInv == Spec => []IInv
BY InitIInv, NextIInv, PTL DEF Spec

-----------------------------------------------------------------------------
(* For any number of callers, with or without an allocator, over any of the *)
(* entry points: the daemon's records and the locals of CreateAndBoot keep  *)
(* their types; in particular an allocated block is one of the managed      *)
(* range, and the memory sum never leaves uint32.                           *)
THEOREM TypeCorrect == Spec => []TypeOK
<1>1. IInv => TypeOK
  BY DEF IInv
<1> QED BY <1>1, InvariantIInv, PTL

(* CheckCollision is enough: whatever the number of concurrent callers,     *)
(* two sandboxes that allocating runtimes handed back never share a block.  *)
THEOREM BlocksDisjoint == Spec => []NoSharedBlock
<1>1. IInv => NoSharedBlock
  BY DEF IInv, BlocksApart, Checked, NoSharedBlock
<1> QED BY <1>1, InvariantIInv, PTL

-----------------------------------------------------------------------------
(* The read-back of the policy. *)

(* Past the read-back of its policy a sandbox denies egress, or is gone.    *)
ProtectedAt(c) ==
  c \in returned \/ call[c].phase = "check" => box[c] = NoBox \/ box[c].deny

Protected == \A c \in Creators : ProtectedAt(c)

(* A step of c has to show ProtectedAt for c only. *)
Elsewhere(c) ==
  \A d \in Creators \ {c} :
    /\ box'[d] = box[d] /\ (d \in returned' <=> d \in returned)
    /\ call'[d].phase = call[d].phase

LEMMA StepKeepsProtected ==
  ASSUME Protected, NEW c \in Creators, Elsewhere(c), ProtectedAt(c)'
  PROVE  Protected'
BY DEF Protected, ProtectedAt, Elsewhere

LEMMA IdleProtected ==
  ASSUME IInv, Protected, NEW c \in Creators, GiveUp(c), box' = box, returned' = returned
  PROVE  Protected'
BY CallParts, StepKeepsProtected DEF GiveUp, Idle, Elsewhere, Protected, ProtectedAt

(* Nothing is left to protect once the sandbox of c is gone. *)
LEMMA GoneProtected ==
  ASSUME Protected, NEW c \in Creators, NEW calls \in [Creators -> Call],
         \A d \in Creators \ {c} : calls[d] = call[d], call' = Without(c, calls),
         box \in [Creators -> Box \cup {NoBox}], box' = [box EXCEPT ![c] = NoBox],
         \A d \in Creators \ {c} : d \in returned' <=> d \in returned
  PROVE  Protected'
BY WithoutType, StepKeepsProtected DEF Elsewhere, ProtectedAt

LEMMA PageKeepsPhase ==
  ASSUME IInv, NEW c \in Creators, CountPage(c) \/ OccupancyPage(c) \/ CheckPage(c)
  PROVE  /\ box' = box /\ returned' = returned
         /\ \A d \in Creators : call'[d].phase = call[d].phase
<1>1. ASSUME NEW h, call' = [call EXCEPT ![c] = h], h.phase = call[c].phase
      PROVE  \A d \in Creators : call'[d].phase = call[d].phase
  BY <1>1, CallParts
<1>2. PICK g \in Call : g = call[c]
  BY CallParts
<1>3. CASE CountPage(c)
  <2>1. PICK d \in Creators :
          call' = [call EXCEPT ![c].list.listed = @ \cup {d}, ![c].list.pages = PageRead(@),
                     ![c].list.sum = SaturatingAdd(@, box[d].mem), ![c].counted = @ \cup {d}]
    BY <1>3 DEF CountPage
  <2>2. PICK h : h = [g EXCEPT !.list.listed = @ \cup {d}, !.list.pages = PageRead(@),
                        !.list.sum = SaturatingAdd(@, box[d].mem), !.counted = @ \cup {d}]
    OBVIOUS
  <2>3. h.phase = g.phase
    BY <2>2 DEF Call
  <2>4. call' = [call EXCEPT ![c] = h]
    BY <1>2, <2>1, <2>2
  <2>5. box' = box /\ returned' = returned
    BY <1>3 DEF CountPage
  <2> QED BY <1>1, <1>2, <2>3, <2>4, <2>5
<1>4. CASE OccupancyPage(c)
  <2>1. PICK d \in Creators :
          call' = [call EXCEPT ![c].list.listed = @ \cup {d}, ![c].list.pages = PageRead(@),
                     ![c].list.occupied = @ \cup box[d].blocks]
    BY <1>4 DEF OccupancyPage
  <2>2. PICK h : h = [g EXCEPT !.list.listed = @ \cup {d}, !.list.pages = PageRead(@),
                        !.list.occupied = @ \cup box[d].blocks]
    OBVIOUS
  <2>3. h.phase = g.phase
    BY <2>2 DEF Call
  <2>4. call' = [call EXCEPT ![c] = h]
    BY <1>2, <2>1, <2>2
  <2>5. box' = box /\ returned' = returned
    BY <1>4 DEF OccupancyPage
  <2> QED BY <1>1, <1>2, <2>3, <2>4, <2>5
<1>5. CASE CheckPage(c)
  <2>1. PICK d \in Creators :
          call' = [call EXCEPT ![c].list.listed = @ \cup {d}, ![c].list.pages = PageRead(@)]
    BY <1>5 DEF CheckPage
  <2>2. PICK h : h = [g EXCEPT !.list.listed = @ \cup {d}, !.list.pages = PageRead(@)]
    OBVIOUS
  <2>3. h.phase = g.phase
    BY <2>2 DEF Call
  <2>4. call' = [call EXCEPT ![c] = h]
    BY <1>2, <2>1, <2>2
  <2>5. box' = box /\ returned' = returned
    BY <1>5 DEF CheckPage
  <2> QED BY <1>1, <1>2, <2>3, <2>4, <2>5
<1> QED BY <1>3, <1>4, <1>5

LEMMA StepProtected ==
  ASSUME IInv, Protected, NEW c \in Creators, Step(c)
  PROVE  Protected'
<1>1. CASE ListBegin(c)
  BY <1>1, CallParts, StepKeepsProtected
  DEF ListBegin, Call, Elsewhere, Protected, ProtectedAt
<1>2. CASE CountPage(c) \/ OccupancyPage(c) \/ CheckPage(c)
  BY <1>2, PageKeepsPhase, StepKeepsProtected DEF Elsewhere, Protected, ProtectedAt
<1>5. ASSUME BeginTeardown(c), box' = box, returned' = returned PROVE Protected'
  BY <1>5, CallParts, StepKeepsProtected
  DEF BeginTeardown, Call, Elsewhere, Protected, ProtectedAt
<1>6. CASE ListFails(c)
  BY <1>5, <1>6, IdleProtected DEF ListFails
<1>7. CASE Refuse(c) \/ AllocateFails(c) \/ CreateSandboxFails(c)
  BY <1>7, IdleProtected DEF Refuse, AllocateFails, CreateSandboxFails
<1>8. CASE CollisionFound(c) \/ PolicyMissing(c)
  BY <1>5, <1>8 DEF CollisionFound, PolicyMissing
<1>9. CASE VerifyFails(c)
  BY <1>5, <1>9, IdleProtected DEF VerifyFails
<1>10. CASE ServiceAdmits(c)
  BY <1>10, CallParts, StepKeepsProtected
  DEF ServiceAdmits, BeginListing, Call, Elsewhere, Protected, ProtectedAt
<1>11. CASE RuntimeAdmits(c)
  BY <1>11, CallParts, StepKeepsProtected
  DEF RuntimeAdmits, Call, Elsewhere, Protected, ProtectedAt
<1>12. CASE Allocate(c)
  BY <1>12, CallParts, StepKeepsProtected
  DEF Allocate, Call, Elsewhere, Protected, ProtectedAt
<1>13. CASE CollisionFree(c)
  BY <1>13, CallParts, StepKeepsProtected
  DEF CollisionFree, ListEnded, GiveUp, Idle, Elsewhere, Protected, ProtectedAt
<1>14. CASE CreateSandbox(c)
  BY <1>14, CallParts, StepKeepsProtected
  DEF CreateSandbox, CallOK, Call, Elsewhere, Protected, ProtectedAt
<1>15. CASE PolicyHolds(c)
  <2>1. ProtectedAt(c)'
    BY <1>15 DEF PolicyHolds, ProtectedAt
  <2>2. Elsewhere(c)
    BY <1>15, CallParts
    DEF PolicyHolds, BeginTeardown, BeginListing, GiveUp, Call, Elsewhere
  <2> QED BY <2>1, <2>2, StepKeepsProtected
<1>16. CASE Teardown(c)
  <2>1. CASE box' = box /\ box[c] # NoBox
    BY <1>16, <2>1, IdleProtected DEF Teardown, GiveUp
  <2>2. CASE box' = [box EXCEPT ![c] = NoBox]
    <3> DEFINE calls == [call EXCEPT ![c] = Idle]
    <3>1. /\ calls \in [Creators -> Call] /\ \A d \in Creators \ {c} : calls[d] = call[d]
          /\ call' = Without(c, calls) /\ returned' = returned
      BY <1>16, <2>2, IdleType, CallParts DEF Teardown
    <3> HIDE DEF calls
    <3> QED BY <2>2, <3>1, CallParts, GoneProtected
  <2>3. CASE box' = box /\ box[c] = NoBox
    <3>1. box' = [box EXCEPT ![c] = NoBox]
      BY <2>3, CallParts
    <3> QED BY <2>2, <3>1
  <2> QED BY <1>16, <2>1, <2>2, <2>3 DEF Teardown
<1> QED
  BY <1>1, <1>2, <1>6, <1>7, <1>8, <1>9, <1>10, <1>11, <1>12, <1>13,
     <1>14, <1>15, <1>16 DEF Step

LEMMA NextProtected == IInv /\ Protected /\ [Next]_vars => Protected'
<1> SUFFICES ASSUME IInv, Protected, [Next]_vars PROVE Protected'
  OBVIOUS
<1>1. CASE UNCHANGED vars
  BY <1>1 DEF Protected, ProtectedAt, vars
<1>2. ASSUME NEW c \in Creators, NEW path \in CreatePaths, NEW m \in MemorySizes,
             StartCall(c, path, m), box' = box, returned' = returned
      PROVE  Protected'
  BY <1>2, CallParts, StepKeepsProtected
  DEF StartCall, Idle, Elsewhere, Protected, ProtectedAt
<1>3. ASSUME NEW c \in Creators, Create(c) PROVE Protected'
  BY <1>2, <1>3, ConstantsAssumption DEF Create
<1>4. ASSUME NEW c \in Creators, Publish(c) PROVE Protected'
  BY <1>2, <1>4 DEF Publish, CreatePaths
<1>5. ASSUME NEW c \in Creators, PublishAnew(c) PROVE Protected'
  <2>1. PICK m \in MemorySizes :
          call' = Without(c, [call EXCEPT ![c] = [Idle EXCEPT
                    !.pc = "begin", !.phase = "admit", !.path = "publish", !.mem = m]])
    BY <1>5 DEF PublishAnew
  <2> DEFINE h == [Idle EXCEPT !.pc = "begin", !.phase = "admit", !.path = "publish",
                               !.mem = m]
             calls == [call EXCEPT ![c] = h]
  <2>2. h \in Call
    BY ConstantsAssumption, IdleType DEF Idle, Call, CreatePaths
  <2> HIDE DEF h
  <2>3. calls \in [Creators -> Call] /\ \A d \in Creators \ {c} : calls[d] = call[d]
    BY <2>2, CallParts
  <2>4. call' = Without(c, calls)
    BY <2>1 DEF h
  <2> HIDE DEF calls
  <2> QED BY <1>5, <2>3, <2>4, CallParts, GoneProtected DEF PublishAnew
<1>6. ASSUME NEW c \in Creators, Remove(c) PROVE Protected'
  BY <1>6, CallParts, GoneProtected DEF Remove
<1>7. ASSUME NEW c \in Creators, Crash(c) PROVE Protected'
  BY <1>7, IdleProtected DEF Crash
<1>8. ASSUME NEW c \in Creators, DetachWedges(c) PROVE Protected'
  BY <1>8, CallParts, StepKeepsProtected
  DEF DetachWedges, Call, Elsewhere, Protected, ProtectedAt
<1> QED BY <1>1, <1>3, <1>4, <1>5, <1>6, <1>7, <1>8, StepProtected DEF Next

(* The egress floor: whatever answers the daemon gives and whoever crashes, *)
(* every sandbox CreateAndBoot hands back has a record that denies egress.  *)
THEOREM EgressDenied == Spec => []ReturnedProtected
<1>1. Init => Protected
  BY DEF Init, Protected, ProtectedAt, Idle
<1>2. Protected /\ IInv => ReturnedProtected
  BY DEF Protected, ProtectedAt, ReturnedProtected, IInv, TypeOK
<1> QED BY <1>1, <1>2, NextProtected, InvariantIInv, PTL DEF Spec

-----------------------------------------------------------------------------
(* What the callers see of all this is SandboxLedger. *)

(* A step of c changes what somebody holds only if c is handed its sandbox, *)
(* which is then as it was, or loses it.                                    *)
Holds(c) ==
  /\ box'[c] = box[c] \/ box'[c] = NoBox \/ c \notin returned'
  /\ \A d \in Creators \ {c} : box'[d] = box[d] /\ (d \in returned' <=> d \in returned)

LEMMA NextHolds ==
  ASSUME IInv, NEW c \in Creators,
         \/ Create(c) \/ Publish(c) \/ PublishAnew(c) \/ Step(c)
         \/ DetachWedges(c) \/ Remove(c) \/ Crash(c)
  PROVE  Holds(c)
<1>1. box \in [Creators -> Box \cup {NoBox}]
  BY DEF IInv, TypeOK
<1>2. CASE box' = box /\ (returned' = returned \/ returned' = returned \cup {c})
  BY <1>2 DEF Holds
<1>3. CASE PublishAnew(c) \/ CreateSandbox(c) \/ Teardown(c) \/ Remove(c)
  <2>1. /\ returned' \in {returned, returned \ {c}}
        /\ \A d \in Creators \ {c} : box'[d] = box[d]
        /\ box'[c] \in {box[c], NoBox} \/ c \notin returned'
    BY <1>1, <1>3 DEF PublishAnew, CreateSandbox, Teardown, Remove
  <2> QED BY <2>1 DEF Holds
<1>4. CASE ~(PublishAnew(c) \/ CreateSandbox(c) \/ Teardown(c) \/ Remove(c))
  <2>1. CASE Create(c) \/ Publish(c) \/ DetachWedges(c) \/ Crash(c)
    BY <1>2, <2>1 DEF Create, Publish, DetachWedges, Crash
  <2>2. CASE PolicyHolds(c) \/ CollisionFree(c)
    BY <1>2, <2>2 DEF PolicyHolds, CollisionFree
  <2>3. CASE Step(c) /\ ~(PolicyHolds(c) \/ CollisionFree(c))
    <3>1. box' = box /\ returned' = returned
      BY <1>4, <2>3
      DEF Step, ListBegin, CountPage, OccupancyPage, CheckPage, CollisionFound, ListFails,
          Refuse, ServiceAdmits, RuntimeAdmits, Allocate, AllocateFails,
          CreateSandboxFails, PolicyMissing, VerifyFails
    <3> QED BY <1>2, <3>1
  <2> QED BY <1>4, <2>1, <2>2, <2>3
<1> QED BY <1>3, <1>4

LEMMA StepLedger ==
  ASSUME IInv, IInv', Protected', [Next]_vars
  PROVE  [Ledger!Next]_HandedBack
<1>1. ASSUME NEW c \in Creators, Holds(c) PROVE [Ledger!Next]_HandedBack
  <2>1. /\ HandedBack = [d \in Creators |-> HandedBack[d]]
        /\ HandedBack' = [d \in Creators |-> HandedBack'[d]]
        /\ \A d \in Creators : HandedBack[d] = IF d \in returned THEN box[d] ELSE NoBox
        /\ \A d \in Creators : HandedBack'[d] = IF d \in returned' THEN box'[d] ELSE NoBox
    BY DEF HandedBack
  <2>2. \A d \in Creators \ {c} : HandedBack'[d] = HandedBack[d]
    BY <1>1, <2>1 DEF Holds
  <2>3. HandedBack' = [HandedBack EXCEPT ![c] = HandedBack'[c]]
    BY <2>1, <2>2
  <2>4. CASE HandedBack'[c] = HandedBack[c]
    BY <2>1, <2>2, <2>4
  <2>5. CASE HandedBack'[c] = NoBox
    BY <2>3, <2>5 DEF Ledger!Next, Ledger!Remove
  <2>6. CASE HandedBack'[c] # NoBox /\ HandedBack'[c] # HandedBack[c]
    <3>1. /\ c \in returned' /\ c \notin returned /\ box'[c] # NoBox
          /\ HandedBack[c] = NoBox /\ HandedBack'[c] = box'[c]
      BY <1>1, <2>1, <2>6 DEF Holds
    <3>2. box'[c] \in Box /\ box'[c].deny
      BY <3>1 DEF IInv, TypeOK, Protected, ProtectedAt
    <3>3. ASSUME c \in Allocating, NEW d \in Allocating \ {c}, HandedBack[d] # NoBox
          PROVE  box'[c].blocks \cap HandedBack[d].blocks = {}
      <4>1. d \in Creators
        BY ConstantsAssumption
      <4>2. d \in returned' /\ box'[d] # NoBox /\ HandedBack[d] = box'[d]
        BY <2>1, <2>2, <3>3, <4>1
      <4>3. Checked(c, d)' /\ Checked(d, c)'
        BY <3>1, <4>2 DEF Checked
      <4> QED BY <3>1, <3>3, <4>2, <4>3 DEF IInv, BlocksApart
    <3>4. Ledger!HandBack(c)
      BY <2>3, <3>1, <3>2, <3>3 DEF Ledger!HandBack
    <3> QED BY <3>4 DEF Ledger!Next
  <2> QED BY <2>4, <2>5, <2>6
<1>2. CASE UNCHANGED vars
  BY <1>2 DEF vars, HandedBack
<1> QED BY <1>1, <1>2, NextHolds DEF Next

(* However many creates overlap and whatever fails, their callers see the   *)
(* ledger of SandboxLedger.                                                 *)
THEOREM Implements == Spec => ImplementsLedger
<1>1. Init => Ledger!Init
  BY DEF Init, HandedBack, Ledger!Init
<1>2. Init => Protected
  BY DEF Init, Protected, ProtectedAt, Idle
<1>3. IInv /\ IInv' /\ Protected' /\ [Next]_vars => [Ledger!Next]_HandedBack
  BY StepLedger
<1> QED BY <1>1, <1>2, <1>3, NextProtected, InvariantIInv, PTL
        DEF Spec, ImplementsLedger, Ledger!Spec

-----------------------------------------------------------------------------
(* Memory of a set of sandboxes.  A sum over a finite set is a fold in an    *)
(* order nobody fixes; it is shown to be the one function that adds the      *)
(* sandboxes in any order.                                                   *)

LEMMA LeastNatural ==
  ASSUME NEW T \in SUBSET Nat, T # {}
  PROVE  \E m \in T : \A n \in T : m <= n
<1> DEFINE R == OpToRel(<, Nat)
<1>1. IsWellFoundedOn(R, Nat)
  BY NatLessThanWellFounded
<1>2. \A x, y \in Nat : <<y, x>> \in R <=> y < x
  BY DEF OpToRel
<1> HIDE DEF R
<1>3. PICK m \in T : \A n \in T : ~ (<<n, m>> \in R)
  BY <1>1, WFMin
<1>4. ASSUME NEW n \in T PROVE m <= n
  <2>1. m \in Nat /\ n \in Nat /\ ~ (<<n, m>> \in R)
    BY <1>3
  <2>2. ~ (n < m)
    BY <1>2, <2>1
  <2> QED BY <2>1, <2>2
<1> QED BY <1>4

Mem(b, S) == MapThenSumSet(LAMBDA d : b[d].mem, S)

HasMem(b, S) == \A d \in S : b[d].mem \in Nat

(* Function f adds up the memory of every subset of S. *)
Adds(f, b, S) ==
  /\ f \in [SUBSET S -> Nat] /\ f[{}] = 0
  /\ \A s \in SUBSET S : \A x \in s : f[s] = b[x].mem + f[s \ {x}]

LEMMA AddsOneMore ==
  ASSUME NEW b, NEW S, NEW x, x \notin S, HasMem(b, S \cup {x}), NEW f, Adds(f, b, S)
  PROVE  \E g : Adds(g, b, S \cup {x})
<1> DEFINE g == [s \in SUBSET (S \cup {x}) |->
                   IF x \in s THEN b[x].mem + f[s \ {x}] ELSE f[s]]
<1>1. b[x].mem \in Nat /\ \A d \in S : b[d].mem \in Nat
  BY DEF HasMem
<1>2. \A s \in SUBSET S : f[s] \in Nat
  BY DEF Adds
<1>3. \A s \in SUBSET (S \cup {x}) : s \ {x} \in SUBSET S /\ (x \notin s => s \in SUBSET S)
  OBVIOUS
<1>4. \A s \in SUBSET (S \cup {x}) :
        g[s] = IF x \in s THEN b[x].mem + f[s \ {x}] ELSE f[s]
  OBVIOUS
<1>5. ASSUME NEW s \in SUBSET (S \cup {x})
      PROVE  (IF x \in s THEN b[x].mem + f[s \ {x}] ELSE f[s]) \in Nat
  BY <1>1, <1>2, <1>3
<1>6. g \in [SUBSET (S \cup {x}) -> Nat]
  BY <1>5
<1>7. {} \in SUBSET (S \cup {x}) /\ x \notin {} /\ f[{}] = 0
  BY DEF Adds
<1>8. g[{}] = 0
  BY <1>4, <1>7
<1> HIDE DEF g
<1>9. ASSUME NEW s \in SUBSET (S \cup {x}), NEW y \in s
      PROVE  g[s] = b[y].mem + g[s \ {y}]
  <2>1. s \ {y} \in SUBSET (S \cup {x})
    OBVIOUS
  <2>2. CASE y = x
    BY <1>4, <2>1, <2>2
  <2>3. CASE y # x /\ x \notin s
    <3>1. s \in SUBSET S /\ x \notin s \ {y}
      BY <1>3, <2>3
    <3>2. f[s] = b[y].mem + f[s \ {y}]
      BY <3>1 DEF Adds
    <3> QED BY <1>4, <2>1, <2>3, <3>1, <3>2
  <2>4. CASE y # x /\ x \in s
    <3> DEFINE r == s \ {x}
    <3>1. r \in SUBSET S /\ y \in r /\ (s \ {y}) \ {x} = r \ {y} /\ r \ {y} \in SUBSET S
      BY <1>3, <2>4
    <3>2. f[r] = b[y].mem + f[r \ {y}]
      BY <3>1 DEF Adds
    <3>3. g[s] = b[x].mem + f[r] /\ g[s \ {y}] = b[x].mem + f[r \ {y}]
      BY <1>4, <2>1, <2>4, <3>1
    <3>4. b[y].mem \in Nat /\ f[r] \in Nat /\ f[r \ {y}] \in Nat
      BY <1>1, <1>2, <3>1
    <3> HIDE DEF r
    <3> QED BY <1>1, <3>2, <3>3, <3>4
  <2> QED BY <2>2, <2>3, <2>4
<1>10. Adds(g, b, S \cup {x})
  BY <1>6, <1>8, <1>9 DEF Adds
<1> QED BY <1>10

LEMMA AddsExists ==
  ASSUME NEW b, NEW S, IsFiniteSet(S), HasMem(b, S)
  PROVE  \E f : Adds(f, b, S)
<1> DEFINE Bad == {s \in SUBSET S : ~ \E f : Adds(f, b, s)}
           T == {Cardinality(s) : s \in Bad}
<1>1. \A s \in SUBSET S : IsFiniteSet(s) /\ Cardinality(s) \in Nat
  BY FS_Subset, FS_CardinalityType
<1>2. SUFFICES ASSUME Bad # {} PROVE FALSE
  OBVIOUS
<1>3. T \in SUBSET Nat /\ T # {}
  BY <1>1, <1>2
<1>4. PICK s \in Bad : \A t \in Bad : Cardinality(s) <= Cardinality(t)
  <2>1. PICK m \in T : \A n \in T : m <= n
    BY <1>3, LeastNatural
  <2>2. PICK s \in Bad : m = Cardinality(s)
    OBVIOUS
  <2> QED BY <2>1, <2>2
<1>5. s # {}
  <2> DEFINE f == [t \in SUBSET {} |-> 0]
  <2>1. f \in [SUBSET {} -> Nat] /\ f[{}] = 0
    OBVIOUS
  <2>2. Adds(f, b, {})
    BY <2>1 DEF Adds
  <2> QED BY <2>2
<1>6. PICK x \in s : TRUE
  BY <1>5
<1>7. s \ {x} \in SUBSET S /\ Cardinality(s \ {x}) = Cardinality(s) - 1
  BY <1>1, <1>6, FS_RemoveElement
<1>8. s \ {x} \notin Bad
  BY <1>1, <1>4, <1>7
<1>9. PICK f : Adds(f, b, s \ {x})
  BY <1>7, <1>8
<1>10. PICK r : r = s \ {x}
  OBVIOUS
<1>11. r \cup {x} = s /\ x \notin r
  BY <1>6, <1>10
<1>12. HasMem(b, r \cup {x}) /\ Adds(f, b, r)
  BY <1>9, <1>10, <1>11 DEF HasMem
<1>13. \E g : Adds(g, b, r \cup {x})
  BY <1>11, <1>12, AddsOneMore
<1>14. \E g : Adds(g, b, s)
  BY <1>11, <1>13
<1> QED BY <1>4, <1>14

(* The step of the fold. *)
Folds(g, b, S) ==
  g = [s \in SUBSET S |->
         IF s = {} THEN 0
         ELSE b[CHOOSE x \in s : TRUE].mem + g[s \ {CHOOSE x \in s : TRUE}]]

LEMMA AddsFolds ==
  ASSUME NEW b, NEW S, NEW f, Adds(f, b, S)
  PROVE  Folds(f, b, S)
<1>1. ASSUME NEW s \in SUBSET S
      PROVE  f[s] = IF s = {} THEN 0
                    ELSE b[CHOOSE x \in s : TRUE].mem + f[s \ {CHOOSE x \in s : TRUE}]
  <2>1. CASE s = {}
    BY <2>1 DEF Adds
  <2>2. CASE s # {}
    <3>1. (CHOOSE x \in s : TRUE) \in s
      BY <2>2
    <3> QED BY <2>2, <3>1 DEF Adds
  <2> QED BY <2>1, <2>2
<1>2. f = [s \in SUBSET S |-> f[s]]
  BY DEF Adds
<1> QED BY <1>1, <1>2 DEF Folds

LEMMA FoldsIsAdds ==
  ASSUME NEW b, NEW S, IsFiniteSet(S), NEW f, Adds(f, b, S), NEW g, Folds(g, b, S)
  PROVE  g[S] = f[S]
<1> DEFINE Bad == {s \in SUBSET S : g[s] # f[s]}
           T == {Cardinality(s) : s \in Bad}
<1>1. \A s \in SUBSET S : IsFiniteSet(s) /\ Cardinality(s) \in Nat
  BY FS_Subset, FS_CardinalityType
<1>2. SUFFICES ASSUME Bad # {} PROVE FALSE
  OBVIOUS
<1>3. T \in SUBSET Nat /\ T # {}
  BY <1>1, <1>2
<1>4. PICK s \in Bad : \A t \in Bad : Cardinality(s) <= Cardinality(t)
  <2>1. PICK m \in T : \A n \in T : m <= n
    BY <1>3, LeastNatural
  <2>2. PICK s \in Bad : m = Cardinality(s)
    OBVIOUS
  <2> QED BY <2>1, <2>2
<1> DEFINE x == CHOOSE x \in s : TRUE
<1>5. g[s] = IF s = {} THEN 0 ELSE b[x].mem + g[s \ {x}]
  BY <1>4 DEF Folds
<1>6. f[s] = IF s = {} THEN 0 ELSE b[x].mem + f[s \ {x}]
  <2>1. Folds(f, b, S)
    BY AddsFolds
  <2> QED BY <1>4, <2>1 DEF Folds
<1>7. s # {}
  BY <1>4, <1>5, <1>6
<1>8. x \in s
  BY <1>7
<1> HIDE DEF x
<1>9. s \ {x} \in SUBSET S /\ Cardinality(s \ {x}) = Cardinality(s) - 1
  BY <1>1, <1>8, FS_RemoveElement
<1>10. g[s \ {x}] = f[s \ {x}]
  BY <1>1, <1>4, <1>9
<1> QED BY <1>4, <1>5, <1>6, <1>10

LEMMA MemAdds ==
  ASSUME NEW b, NEW S, IsFiniteSet(S), NEW f, Adds(f, b, S)
  PROVE  Mem(b, S) = f[S]
<1>1. Folds(f, b, S)
  BY AddsFolds
<1>2. \E g : Folds(g, b, S) /\ Mem(b, S) = g[S]
  BY <1>1, Zenon DEF Mem, MapThenSumSet, MapThenFoldSet, Folds
<1> QED BY <1>2, FoldsIsAdds

(* One sandbox less. *)
LEMMA MemRemove ==
  ASSUME NEW b, NEW S, IsFiniteSet(S), HasMem(b, S), NEW x \in S
  PROVE  /\ Mem(b, S \ {x}) \in Nat
         /\ Mem(b, S) = Mem(b, S \ {x}) + b[x].mem
<1> DEFINE r == S \ {x}
<1>1. IsFiniteSet(r) /\ r \in SUBSET S /\ S \in SUBSET S
  BY FS_RemoveElement
<1>2. PICK f : Adds(f, b, S)
  BY AddsExists
<1>3. f[S] = b[x].mem + f[r] /\ f[r] \in Nat
  BY <1>1, <1>2 DEF Adds
<1>4. Mem(b, S) = f[S]
  BY <1>2, MemAdds
<1> DEFINE h == [t \in SUBSET r |-> f[t]]
<1>5. \A t \in SUBSET r : h[t] = f[t] /\ t \in SUBSET S
  OBVIOUS
<1>6. h \in [SUBSET r -> Nat] /\ h[{}] = 0
  BY <1>2, <1>5 DEF Adds
<1>7. ASSUME NEW s \in SUBSET r, NEW y \in s PROVE h[s] = b[y].mem + h[s \ {y}]
  <2>1. s \ {y} \in SUBSET r
    OBVIOUS
  <2>2. f[s] = b[y].mem + f[s \ {y}]
    BY <1>2, <1>5 DEF Adds
  <2> QED BY <1>5, <2>1, <2>2
<1> HIDE DEF h, r
<1>8. Adds(h, b, r)
  BY <1>6, <1>7 DEF Adds
<1>9. r \in SUBSET r
  OBVIOUS
<1>10. Mem(b, r) = f[r]
  BY <1>1, <1>5, <1>8, <1>9, MemAdds
<1>11. b[x].mem \in Nat
  BY DEF HasMem
<1> QED BY <1>3, <1>4, <1>10, <1>11 DEF r

LEMMA MemType ==
  ASSUME NEW b, NEW S, IsFiniteSet(S), HasMem(b, S)
  PROVE  Mem(b, S) \in Nat
<1>1. PICK f : Adds(f, b, S)
  BY AddsExists
<1>2. f[S] \in Nat
  BY <1>1 DEF Adds
<1> QED BY <1>1, <1>2, MemAdds

LEMMA MemEmpty == \A b : Mem(b, {}) = 0
<1> TAKE b
<1>1. IsFiniteSet({}) /\ HasMem(b, {})
  BY FS_EmptySet DEF HasMem
<1>2. PICK f : Adds(f, b, {})
  BY <1>1, AddsExists
<1> QED BY <1>1, <1>2, MemAdds DEF Adds

(* Only the records of the set count. *)
LEMMA MemSame ==
  ASSUME NEW b, NEW c, NEW S, IsFiniteSet(S), HasMem(b, S), \A d \in S : c[d] = b[d]
  PROVE  Mem(c, S) = Mem(b, S)
<1>1. PICK f : Adds(f, b, S)
  BY AddsExists
<1>2. Adds(f, c, S)
  BY <1>1 DEF Adds
<1> QED BY <1>1, <1>2, MemAdds

-----------------------------------------------------------------------------
(* Admission. *)

(* What the local state g of a call says of the memory committed in b: while *)
(* it lists, the sum covers the sandboxes counted that are still there;      *)
(* once it has been admitted, these and its own fit the budget.              *)
AccountOf(g, b) ==
  /\ IsFiniteSet(g.counted) /\ \A d \in g.counted : b[d] # NoBox
  /\ g.pc \in {"begin", "list"} /\ g.phase \in {"service", "admit"}
       => /\ g.counted \subseteq g.list.listed
          /\ g.list.sum = MaxUint32 \/ Mem(b, g.counted) <= g.list.sum
  /\ g.pc = "create" \/ (g.pc \in {"begin", "list"} /\ g.phase = "occupancy")
       => Mem(b, g.counted) + g.mem <= Budget

Accounts == \A c \in Creators : AccountOf(call[c], box)

LEMMA NothingCounted ==
  ASSUME NEW g, g.counted = {}, NEW b,
         \/ g.pc = "begin" /\ g.phase \in {"service", "admit"} /\ g.list = NoListing
         \/ g.pc \notin {"begin", "list", "create"}
         \/ g.phase = "check" /\ g.pc # "create"
  PROVE  AccountOf(g, b)
<1>1. IsFiniteSet({}) /\ Mem(b, {}) = 0 /\ NoListing.sum = 0
  BY FS_EmptySet, MemEmpty DEF NoListing
<1> QED BY <1>1 DEF AccountOf

(* An account stays good when the other counts no more than before, the same *)
(* or all but c, and nothing else of it changes.                             *)
SameAccount(h, g, c) ==
  /\ h.pc = g.pc /\ h.phase = g.phase /\ h.mem = g.mem
  /\ h.list.sum = g.list.sum
  /\ \/ h.list.listed = g.list.listed /\ h.counted = g.counted
     \/ h.list.listed = g.list.listed \ {c} /\ h.counted = g.counted \ {c}

LEMMA AccountKept ==
  ASSUME IInv, NEW g \in Call, AccountOf(g, box), NEW c, NEW h, SameAccount(h, g, c),
         NEW b, \A d \in h.counted : b[d] = box[d]
  PROVE  AccountOf(h, b)
<1>1. /\ g.counted \subseteq Creators /\ g.mem \in Nat /\ Budget \in Nat
      /\ g.list.sum \in Nat /\ IsFiniteSet(g.counted)
  BY ConstantsAssumption DEF Call, Listing, AccountOf
<1>2. HasMem(box, g.counted)
  BY <1>1, ConstantsAssumption DEF IInv, TypeOK, Box, HasMem, AccountOf
<1>3. /\ IsFiniteSet(h.counted) /\ h.counted \subseteq g.counted
      /\ Mem(box, h.counted) \in Nat /\ Mem(box, g.counted) \in Nat
      /\ Mem(box, h.counted) <= Mem(box, g.counted)
  <2>1. Mem(box, g.counted) \in Nat
    BY <1>1, <1>2, MemType
  <2>2. CASE h.counted = g.counted
    BY <1>1, <2>1, <2>2
  <2>3. CASE h.counted = g.counted \ {c} /\ c \in g.counted
    <3>1. /\ Mem(box, g.counted \ {c}) \in Nat /\ box[c].mem \in Nat
          /\ Mem(box, g.counted) = Mem(box, g.counted \ {c}) + box[c].mem
      BY <1>1, <1>2, <2>3, MemRemove DEF HasMem
    <3>2. IsFiniteSet(g.counted \ {c})
      BY <1>1, FS_RemoveElement
    <3> QED BY <2>1, <2>3, <3>1, <3>2
  <2> QED BY <2>2, <2>3 DEF SameAccount
<1>4. HasMem(box, h.counted)
  BY <1>2, <1>3 DEF HasMem
<1>5. Mem(b, h.counted) = Mem(box, h.counted)
  BY <1>3, <1>4, MemSame
<1>6. \A d \in h.counted : b[d] # NoBox
  BY <1>3 DEF AccountOf
<1>7. ASSUME g.pc \in {"begin", "list"}, g.phase \in {"service", "admit"}
      PROVE  /\ h.counted \subseteq h.list.listed
             /\ h.list.sum = MaxUint32 \/ Mem(b, h.counted) <= h.list.sum
  BY <1>1, <1>3, <1>5, <1>7 DEF AccountOf, SameAccount
<1>8. ASSUME g.pc = "create" \/ (g.pc \in {"begin", "list"} /\ g.phase = "occupancy")
      PROVE  Mem(b, h.counted) + h.mem <= Budget
  BY <1>1, <1>3, <1>5, <1>8 DEF AccountOf, SameAccount
<1> QED BY <1>3, <1>6, <1>7, <1>8 DEF AccountOf, SameAccount

(* A step of c has to show its own account. *)
LEMMA StepKeepsAccounts ==
  ASSUME IInv, Accounts, NEW c \in Creators, AccountOf(call'[c], box'),
         \A d \in Creators \ {c} :
           /\ box'[d] = box[d]
           /\ \/ call'[d] = call[d] /\ (box'[c] = box[c] \/ box[c] = NoBox)
              \/ /\ SameAccount(call'[d], call[d], c)
                 /\ call'[d].counted = call[d].counted \ {c}
  PROVE  Accounts'
<1> SUFFICES ASSUME NEW d \in Creators \ {c} PROVE AccountOf(call'[d], box')
  BY DEF Accounts
<1>1. call[d] \in Call /\ AccountOf(call[d], box) /\ call[d].counted \subseteq Creators
  BY CallParts DEF Accounts, Call
<1>2. SameAccount(call'[d], call[d], c)
  BY DEF SameAccount
<1>3. \A e \in call'[d].counted : box'[e] = box[e]
  BY <1>1 DEF AccountOf
<1> QED BY <1>1, <1>2, <1>3, AccountKept

(* A step that only sets the locals of c. *)
LEMMA LocalKeepsAccounts ==
  ASSUME IInv, Accounts, NEW c \in Creators, box' = box,
         NEW g, call' = [call EXCEPT ![c] = g], AccountOf(g, box)
  PROVE  Accounts'
<1>1. call'[c] = g /\ \A d \in Creators \ {c} : call'[d] = call[d]
  BY CallParts
<1>2. AccountOf(call'[c], box')
  BY <1>1
<1> QED BY <1>1, <1>2, StepKeepsAccounts

LEMMA IdleAccount == \A b : AccountOf(Idle, b)
BY NothingCounted DEF Idle

LEMMA WithoutAccount ==
  ASSUME NEW c, NEW calls \in [Creators -> Call], NEW d \in Creators
  PROVE  /\ SameAccount(Without(c, calls)[d], calls[d], c)
         /\ Without(c, calls)[d].counted = calls[d].counted \ {c}
<1> DEFINE g == calls[d]
           l == [g.list EXCEPT !.due = @ \ {c}, !.listed = @ \ {c}]
<1>1. g \in Call /\ g.list \in Listing
  BY DEF Call
<1>2. l.sum = g.list.sum /\ l.listed = g.list.listed \ {c}
  BY <1>1 DEF Listing
<1>3. Without(c, calls)[d] = [g EXCEPT !.list = l, !.counted = g.counted \ {c}]
  BY <1>1 DEF Without, Call, Listing
<1> HIDE DEF l
<1> QED BY <1>1, <1>2, <1>3 DEF SameAccount, Call

LEMMA GoneKeepsAccounts ==
  ASSUME IInv, Accounts, NEW c \in Creators, NEW calls \in [Creators -> Call],
         \A d \in Creators \ {c} : calls[d] = call[d], AccountOf(calls[c], box),
         call' = Without(c, calls), box' = [box EXCEPT ![c] = NoBox]
  PROVE  Accounts'
<1>1. /\ SameAccount(call'[c], calls[c], c)
      /\ call'[c].counted = calls[c].counted \ {c}
  BY WithoutAccount
<1>2. \A d \in Creators \ {c} :
        box'[d] = box[d] /\ SameAccount(call'[d], call[d], c)
        /\ call'[d].counted = call[d].counted \ {c}
  BY WithoutAccount, CallParts
<1>3. calls[c] \in Call /\ \A d \in call'[c].counted : box'[d] = box[d]
  BY <1>1, CallParts DEF Call
<1>4. AccountOf(call'[c], box')
  <2>1. PICK g \in Call : g = calls[c]
    BY <1>3
  <2>2. PICK h, b : h = call'[c] /\ b = box'
    OBVIOUS
  <2>3. /\ SameAccount(h, g, c) /\ AccountOf(g, box)
        /\ \A d \in h.counted : b[d] = box[d]
    BY <1>1, <1>3, <2>1, <2>2
  <2>4. AccountOf(h, b)
    BY <2>3, AccountKept
  <2> QED BY <2>2, <2>4
<1> QED BY <1>2, <1>4, StepKeepsAccounts

LEMMA TeardownAccounts ==
  ASSUME IInv, Accounts, NEW c \in Creators, Teardown(c)
  PROVE  Accounts'
<1>1. ASSUME box' = box, call' = [call EXCEPT ![c] = Idle] PROVE Accounts'
  BY <1>1, IdleAccount, LocalKeepsAccounts
<1>2. CASE box' = box /\ box[c] # NoBox
  BY <1>1, <1>2 DEF Teardown
<1>3. CASE box' = [box EXCEPT ![c] = NoBox]
  <2> DEFINE calls == [call EXCEPT ![c] = Idle]
  <2>1. /\ calls \in [Creators -> Call] /\ \A d \in Creators \ {c} : calls[d] = call[d]
        /\ call' = Without(c, calls) /\ calls[c] = Idle
    BY <1>3, IdleType, CallParts DEF Teardown
  <2> HIDE DEF calls
  <2>2. AccountOf(calls[c], box)
    BY <2>1, IdleAccount
  <2> QED BY <1>3, <2>1, <2>2, GoneKeepsAccounts
<1>4. CASE box' = box /\ box[c] = NoBox
  <2>1. box' = [box EXCEPT ![c] = NoBox]
    BY <1>4, CallParts
  <2> QED BY <1>3, <2>1
<1> QED BY <1>2, <1>3, <1>4 DEF Teardown

LEMMA PublishAnewAccounts ==
  ASSUME IInv, Accounts, NEW c \in Creators, PublishAnew(c)
  PROVE  Accounts'
<1>1. PICK m \in MemorySizes :
        call' = Without(c, [call EXCEPT ![c] = [Idle EXCEPT
                  !.pc = "begin", !.phase = "admit", !.path = "publish", !.mem = m]])
  BY DEF PublishAnew
<1> DEFINE h == [Idle EXCEPT !.pc = "begin", !.phase = "admit", !.path = "publish",
                             !.mem = m]
           calls == [call EXCEPT ![c] = h]
<1>2. /\ h \in Call /\ h.counted = {} /\ h.list = NoListing
      /\ h.pc = "begin" /\ h.phase = "admit"
  BY ConstantsAssumption, IdleType DEF Idle, Call, CreatePaths
<1> HIDE DEF h
<1>3. /\ calls \in [Creators -> Call] /\ \A d \in Creators \ {c} : calls[d] = call[d]
      /\ calls[c] = h
  BY <1>2, CallParts
<1>4. call' = Without(c, calls)
  BY <1>1 DEF h
<1> HIDE DEF calls
<1>5. AccountOf(calls[c], box)
  BY <1>2, <1>3, NothingCounted
<1> QED BY <1>3, <1>4, <1>5, GoneKeepsAccounts DEF PublishAnew

(* A page adds to the sum what the set counted grows by. *)
LEMMA CountPageAccounts ==
  ASSUME IInv, Accounts, NEW c \in Creators, CountPage(c)
  PROVE  Accounts'
<1> DEFINE g == call[c]
<1>1. PICK d \in Creators :
        /\ NextPage(c, d)
        /\ call' = [call EXCEPT ![c].list.listed = @ \cup {d},
                      ![c].list.pages = PageRead(@),
                      ![c].list.sum = SaturatingAdd(@, box[d].mem),
                      ![c].counted = @ \cup {d}]
  BY DEF CountPage
<1>2. /\ g \in Call /\ g.list \in Listing /\ AccountOf(g, box) /\ g.pc = "list"
      /\ g.phase \in {"service", "admit"} /\ box' = box
      /\ d \notin g.list.listed /\ box[d] \in Box
  <2>1. g \in Call /\ g.list \in Listing /\ box \in [Creators -> Box \cup {NoBox}]
    BY CallParts
  <2>2. AccountOf(g, box)
    BY DEF Accounts
  <2>3. g.phase \in {"service", "admit"} /\ box' = box
    BY DEF CountPage
  <2>4. g.pc = "list" /\ d \notin g.list.listed /\ box[d] # NoBox
    BY <1>1 DEF NextPage, Present
  <2> QED BY <2>1, <2>2, <2>3, <2>4
<1> DEFINE s == SaturatingAdd(g.list.sum, box[d].mem)
           p == PageRead(g.list.pages)
           l == [g.list EXCEPT !.listed = @ \cup {d}, !.pages = p, !.sum = s]
           h == [g EXCEPT !.list = l, !.counted = @ \cup {d}]
<1>3. call' = [call EXCEPT ![c] = h]
  <2>1. h = [g EXCEPT !.list.listed = @ \cup {d}, !.list.pages = PageRead(@),
                      !.list.sum = s, !.counted = @ \cup {d}]
    BY <1>2 DEF Call, Listing
  <2> QED BY <1>1, <2>1
<1>4. l.listed = g.list.listed \cup {d} /\ l.sum = s
  BY <1>2 DEF Listing
<1>5. /\ h.pc = "list" /\ h.phase = g.phase /\ h.list = l
      /\ h.counted = g.counted \cup {d}
  BY <1>2 DEF Call
<1>6. /\ g.counted \subseteq g.list.listed /\ d \notin g.counted
      /\ IsFiniteSet(g.counted) /\ g.counted \subseteq Creators
      /\ \A e \in g.counted : box[e] # NoBox
  BY <1>2 DEF AccountOf, Call
<1> DEFINE n == g.counted \cup {d}
<1>7. HasMem(box, n) /\ IsFiniteSet(n) /\ d \in n /\ n \ {d} = g.counted
  <2>1. HasMem(box, n)
    BY <1>2, <1>6, CallParts, ConstantsAssumption DEF Box, HasMem
  <2> QED BY <1>6, <2>1, FS_AddElement
<1> HIDE DEF n
<1>8. Mem(box, g.counted) \in Nat /\ Mem(box, n) = Mem(box, g.counted) + box[d].mem
  <2>1. Mem(box, n \ {d}) \in Nat /\ Mem(box, n) = Mem(box, n \ {d}) + box[d].mem
    BY ONLY <1>7, MemRemove
  <2> QED BY <1>7, <2>1
<1>9. box[d].mem \in 0 .. MaxUint32 /\ g.list.sum \in 0 .. MaxUint32 /\ MaxUint32 \in Nat
  <2>1. MaxUint32 \in Nat
    BY ConstantsAssumption
  <2>2. box[d].mem \in 0 .. MaxUint32
    BY <1>2 DEF Box
  <2>3. g.list.sum \in 0 .. MaxUint32
    BY <1>2 DEF Listing
  <2> QED BY <2>1, <2>2, <2>3
<1>10. s = MaxUint32 \/ Mem(box, n) <= s
  <2>1. CASE g.list.sum = MaxUint32
    BY <1>9, <2>1 DEF SaturatingAdd
  <2>2. CASE Mem(box, g.counted) <= g.list.sum
    BY <1>8, <1>9, <2>2 DEF SaturatingAdd
  <2> QED BY <1>2, <2>1, <2>2 DEF AccountOf
<1> HIDE DEF h, l, s
<1>11. AccountOf(h, box)
  <2>1. h.counted = n /\ h.counted \subseteq h.list.listed /\ \A e \in n : box[e] # NoBox
    BY <1>1, <1>4, <1>5, <1>6 DEF n, NextPage, Present
  <2> QED BY <1>2, <1>4, <1>5, <1>7, <1>10, <2>1 DEF AccountOf
<1> QED BY <1>2, <1>3, <1>11, LocalKeepsAccounts

(* The sum did not saturate when the call is admitted, for then it would     *)
(* have exceeded the budget.                                                 *)
LEMMA RuntimeAdmitsAccounts ==
  ASSUME IInv, Accounts, NEW c \in Creators, RuntimeAdmits(c)
  PROVE  Accounts'
<1> DEFINE g == call[c]
<1>1. /\ g \in Call /\ AccountOf(g, box) /\ g.pc = "list" /\ g.phase = "admit"
      /\ Decide(g.list.sum, g.mem) /\ box' = box
  BY CallParts DEF Accounts, RuntimeAdmits, ListEnded
<1>2. PICK h : h = [g EXCEPT !.list = NoListing,
                      !.pc = IF UsesAllocator(c) THEN "begin" ELSE "create",
                      !.phase = IF UsesAllocator(c) THEN "occupancy" ELSE "admit"]
  OBVIOUS
<1>3. call' = [call EXCEPT ![c] = h]
  BY <1>2, CallParts DEF RuntimeAdmits
<1>4. /\ h.pc = "create" \/ (h.pc = "begin" /\ h.phase = "occupancy")
      /\ h.counted = g.counted /\ h.mem = g.mem
  BY <1>1, <1>2 DEF Call
<1>5. /\ g.counted \subseteq Creators /\ IsFiniteSet(g.counted)
      /\ \A d \in g.counted : box[d] # NoBox
  BY <1>1 DEF AccountOf, Call
<1>6. Mem(box, g.counted) \in Nat
  <2>1. HasMem(box, g.counted)
    BY <1>5, CallParts, ConstantsAssumption DEF Box, HasMem
  <2> QED BY <1>5, <2>1, MemType
<1>7. g.list.sum \in 0 .. MaxUint32 /\ g.mem \in 0 .. MaxUint32
  BY <1>1 DEF Call, Listing
<1>8. Mem(box, g.counted) <= g.list.sum
  BY <1>1, <1>7, ConstantsAssumption DEF AccountOf, Decide
<1>9. Mem(box, g.counted) + g.mem <= Budget
  BY <1>1, <1>6, <1>7, <1>8, ConstantsAssumption DEF Decide
<1>10. AccountOf(h, box)
  BY <1>4, <1>5, <1>9 DEF AccountOf
<1> QED BY <1>1, <1>3, <1>10, LocalKeepsAccounts

LEMMA CreatedBox ==
  ASSUME IInv, NEW c \in Creators, CreateSandbox(c)
  PROVE  \E r : /\ box' = [box EXCEPT ![c] = r] /\ box[c] = NoBox
                /\ r # NoBox /\ r.mem = call[c].mem
<1>1. PICK deny \in Policies,
           blocks \in IF UsesAllocator(c) THEN {{call[c].base}} ELSE Published :
        box' = [box EXCEPT ![c] = [mem |-> call[c].mem, blocks |-> blocks,
                                   deny |-> deny]]
  BY DEF CreateSandbox
<1>2. call[c].mem \in 0 .. MaxUint32 /\ deny \in BOOLEAN
  BY CallParts, ConstantsAssumption DEF Call
<1>3. blocks \in SUBSET Blocks
  BY CallParts, ConstantsAssumption DEF CallOK, CreateSandbox
<1>4. [mem |-> call[c].mem, blocks |-> blocks, deny |-> deny] \in Box
  BY <1>2, <1>3 DEF Box
<1>5. [mem |-> call[c].mem, blocks |-> blocks, deny |-> deny] # NoBox
  BY <1>4, ConstantsAssumption DEF Box
<1>6. PICK r : r = [mem |-> call[c].mem, blocks |-> blocks, deny |-> deny]
  OBVIOUS
<1>7. r.mem = call[c].mem
  BY <1>6
<1>8. box' = [box EXCEPT ![c] = r] /\ box[c] = NoBox /\ r # NoBox
  BY <1>1, <1>5, <1>6 DEF CreateSandbox
<1> QED BY <1>7, <1>8

LEMMA CreateSandboxAccounts ==
  ASSUME IInv, Accounts, NEW c \in Creators, CreateSandbox(c)
  PROVE  Accounts'
<1>1. PICK r : box' = [box EXCEPT ![c] = r] /\ box[c] = NoBox /\ r # NoBox
  BY CreatedBox
<1>2. PICK h : h = [call[c] EXCEPT !.pc = "verify"]
  OBVIOUS
<1>3. /\ call'[c] = h /\ h.pc = "verify" /\ h.counted = call[c].counted
      /\ \A d \in Creators \ {c} : call'[d] = call[d] /\ box'[d] = box[d]
      /\ box'[c] = r
  BY <1>1, <1>2, CallParts DEF CreateSandbox, Call
<1>4. IsFiniteSet(h.counted) /\ \A d \in h.counted : box[d] # NoBox /\ d \in Creators
  BY <1>3, CallParts DEF Accounts, AccountOf, Call
<1>5. AccountOf(call'[c], box')
  BY <1>1, <1>3, <1>4 DEF AccountOf
<1> QED BY <1>1, <1>3, <1>5, StepKeepsAccounts

LEMMA StepAccounts ==
  ASSUME IInv, Accounts, NEW c \in Creators, Step(c)
  PROVE  Accounts'
<1> DEFINE g == call[c]
<1>1. /\ g \in Call /\ g.list \in Listing /\ AccountOf(g, box)
      /\ call \in [Creators -> Call]
  BY CallParts DEF Accounts
<1>2. ASSUME NEW h, call' = [call EXCEPT ![c] = h], box' = box,
             h.counted = g.counted, h.phase = g.phase, h.mem = g.mem,
             \/ h.pc \in {"verify", "teardown"}
             \/ /\ h.pc = "list" /\ g.pc \in {"begin", "list"}
                /\ h.list.listed = g.list.listed /\ h.list.sum = g.list.sum
             \/ h.pc \in {"list", "create"} /\ g.pc = "list"
                /\ g.phase \in {"occupancy", "check"} /\ (h.pc = "create" => g.phase = "occupancy")
      PROVE  Accounts'
  <2>1. AccountOf(h, box)
    BY <1>1, <1>2 DEF AccountOf
  <2> QED BY <1>2, <2>1, LocalKeepsAccounts
<1>3. CASE ListBegin(c)
  <2>1. PICK l : l = [g.list EXCEPT !.due = Present]
    OBVIOUS
  <2>2. PICK h : h = [g EXCEPT !.pc = "list", !.list = l]
    OBVIOUS
  <2>3. call' = [call EXCEPT ![c] = h] /\ box' = box /\ g.pc = "begin"
    BY <1>1, <1>3, <2>1, <2>2 DEF ListBegin
  <2>4. l.listed = g.list.listed /\ l.sum = g.list.sum
    BY <1>1, <2>1 DEF Listing
  <2>5. /\ h.counted = g.counted /\ h.phase = g.phase /\ h.mem = g.mem
        /\ h.pc = "list" /\ h.list = l
    BY <1>1, <2>2 DEF Call
  <2> QED BY <1>2, <2>3, <2>4, <2>5
<1>4. ASSUME NEW l, NEW n, NEW pc \in {"list", "create"}, g.pc = "list", box' = box,
             call' = [call EXCEPT ![c] = [g EXCEPT !.pc = pc, !.base = n, !.list = l]],
             g.phase \in {"occupancy", "check"}, pc = "create" => g.phase = "occupancy"
      PROVE  Accounts'
  <2>1. PICK h : h = [g EXCEPT !.pc = pc, !.base = n, !.list = l]
    OBVIOUS
  <2>2. h.counted = g.counted /\ h.phase = g.phase /\ h.mem = g.mem /\ h.pc = pc
    BY <1>1, <2>1 DEF Call
  <2> QED BY <1>2, <1>4, <2>1, <2>2
<1>5. ASSUME NEW l, g.pc = "list", g.phase \in {"occupancy", "check"}, box' = box,
             call' = [call EXCEPT ![c] = [g EXCEPT !.list = l]]
      PROVE  Accounts'
  <2>1. [g EXCEPT !.list = l] = [g EXCEPT !.pc = "list", !.base = g.base, !.list = l]
    BY <1>1, <1>5 DEF Call
  <2> QED BY <1>4, <1>5, <2>1
<1>6. CASE OccupancyPage(c)
  <2>1. PICK d \in Creators : call' = [call EXCEPT ![c].list.listed = @ \cup {d},
                                         ![c].list.pages = PageRead(@),
                                         ![c].list.occupied = @ \cup box[d].blocks]
    BY <1>6 DEF OccupancyPage
  <2>2. PICK l : l = [g.list EXCEPT !.listed = @ \cup {d}, !.pages = PageRead(@),
                                    !.occupied = @ \cup box[d].blocks]
    OBVIOUS
  <2>3. call' = [call EXCEPT ![c] = [g EXCEPT !.list = l]]
    BY <1>1, <2>1, <2>2 DEF Call, Listing
  <2>4. g.pc = "list" /\ g.phase = "occupancy" /\ box' = box
    BY <1>6 DEF OccupancyPage, NextPage
  <2> QED BY <1>5, <2>3, <2>4
<1>7. CASE CheckPage(c)
  <2>1. PICK d \in Creators : call' = [call EXCEPT ![c].list.listed = @ \cup {d},
                                                  ![c].list.pages = PageRead(@)]
    BY <1>7 DEF CheckPage
  <2>2. PICK l : l = [g.list EXCEPT !.listed = @ \cup {d}, !.pages = PageRead(@)]
    OBVIOUS
  <2>3. call' = [call EXCEPT ![c] = [g EXCEPT !.list = l]]
    BY <1>1, <2>1, <2>2 DEF Call, Listing
  <2>4. g.pc = "list" /\ g.phase = "check" /\ box' = box
    BY <1>7 DEF CheckPage, NextPage
  <2> QED BY <1>5, <2>3, <2>4
<1>8. CASE Allocate(c)
  <2>1. PICK b : call' = [call EXCEPT ![c].base = b, ![c].pc = "create",
                                      ![c].list = NoListing]
    BY <1>8 DEF Allocate
  <2>2. call' = [call EXCEPT ![c] = [g EXCEPT !.pc = "create", !.base = b,
                                              !.list = NoListing]]
    BY <1>1, <2>1 DEF Call
  <2>3. g.pc = "list" /\ g.phase = "occupancy" /\ box' = box
    BY <1>8 DEF Allocate, ListEnded
  <2> QED BY <1>4, <2>2, <2>3
<1>9. ASSUME GiveUp(c), box' = box PROVE Accounts'
  BY <1>9, IdleAccount, LocalKeepsAccounts DEF GiveUp
<1>10. ASSUME BeginTeardown(c), box' = box PROVE Accounts'
  <2>1. PICK h : h = [g EXCEPT !.pc = "teardown", !.list = NoListing]
    OBVIOUS
  <2>2. /\ h.counted = g.counted /\ h.phase = g.phase /\ h.mem = g.mem
        /\ h.pc = "teardown" /\ call' = [call EXCEPT ![c] = h]
    BY <1>1, <1>10, <2>1 DEF Call, BeginTeardown
  <2> QED BY <1>2, <1>10, <2>2
<1>11. ASSUME NEW phase \in {"admit", "check"}, BeginListing(c, phase), box' = box
       PROVE  Accounts'
  <2>1. PICK h : h = [g EXCEPT !.pc = "begin", !.phase = phase, !.list = NoListing,
                               !.counted = {}]
    OBVIOUS
  <2>2. call' = [call EXCEPT ![c] = h]
    BY <1>1, <1>11, <2>1 DEF BeginListing
  <2>3. h.counted = {} /\ h.pc = "begin" /\ h.phase = phase /\ h.list = NoListing
    BY <1>1, <2>1 DEF Call
  <2>4. AccountOf(h, box)
    BY <2>3, NothingCounted
  <2> QED BY <1>11, <2>2, <2>4, LocalKeepsAccounts
<1>12. CASE ListFails(c) \/ VerifyFails(c)
  BY <1>9, <1>10, <1>12 DEF ListFails, VerifyFails
<1>13. CASE Refuse(c) \/ AllocateFails(c) \/ CreateSandboxFails(c) \/ CollisionFree(c)
  BY <1>9, <1>13 DEF Refuse, AllocateFails, CreateSandboxFails, CollisionFree
<1>14. CASE CollisionFound(c) \/ PolicyMissing(c)
  BY <1>10, <1>14 DEF CollisionFound, PolicyMissing
<1>15. CASE ServiceAdmits(c)
  BY <1>11, <1>15 DEF ServiceAdmits
<1>16. CASE PolicyHolds(c)
  BY <1>9, <1>10, <1>11, <1>16 DEF PolicyHolds
<1> QED
  BY <1>3, <1>6, <1>7, <1>8, <1>12, <1>13, <1>14, <1>15, <1>16, CountPageAccounts,
     RuntimeAdmitsAccounts, CreateSandboxAccounts, TeardownAccounts
  DEF Step

LEMMA NextAccounts == IInv /\ Accounts /\ [Next]_vars => Accounts'
<1> SUFFICES ASSUME IInv, Accounts, [Next]_vars PROVE Accounts'
  OBVIOUS
<1>1. CASE UNCHANGED vars
  BY <1>1 DEF Accounts, vars
<1>2. ASSUME NEW c \in Creators, NEW path \in CreatePaths, NEW m,
             StartCall(c, path, m), box' = box
      PROVE  Accounts'
  <2>1. PICK h : h = [Idle EXCEPT !.pc = "begin", !.path = path, !.mem = m,
                        !.phase = IF path = "service" THEN "service" ELSE "admit"]
    OBVIOUS
  <2>2. call' = [call EXCEPT ![c] = h]
    BY <1>2, <2>1 DEF StartCall
  <2>3. /\ h.counted = {} /\ h.pc = "begin" /\ h.phase \in {"service", "admit"}
        /\ h.list = NoListing
    BY <2>1 DEF Idle
  <2>4. AccountOf(h, box)
    BY <2>3, NothingCounted
  <2> QED BY <1>2, <2>2, <2>4, LocalKeepsAccounts
<1>3. ASSUME NEW c \in Creators, Create(c) \/ Publish(c) PROVE Accounts'
  BY <1>2, <1>3, ConstantsAssumption DEF Create, Publish, CreatePaths
<1>4. ASSUME NEW c \in Creators, Remove(c) PROVE Accounts'
  BY <1>4, CallParts, GoneKeepsAccounts DEF Remove, Accounts
<1>5. ASSUME NEW c \in Creators, Crash(c) PROVE Accounts'
  BY <1>5, IdleAccount, LocalKeepsAccounts DEF Crash, GiveUp
<1>6. ASSUME NEW c \in Creators, DetachWedges(c) PROVE Accounts'
  <2>1. PICK h : h = [call[c] EXCEPT !.pc = "wedged"]
    OBVIOUS
  <2>2. /\ h.pc = "wedged" /\ h.counted = call[c].counted
        /\ call' = [call EXCEPT ![c] = h] /\ box' = box
    BY <1>6, <2>1, CallParts DEF DetachWedges, Call
  <2>3. AccountOf(h, box)
    BY <2>2 DEF Accounts, AccountOf
  <2> QED BY <2>2, <2>3, LocalKeepsAccounts
<1> QED BY <1>1, <1>3, <1>4, <1>5, <1>6, PublishAnewAccounts, StepAccounts DEF Next

LEMMA CommittedIsMem == Committed = Mem(box, Present)
BY DEF Committed, Mem

LEMMA CreateFits ==
  ASSUME IInv, Accounts, NEW c \in Creators, CreateSandbox(c), Committed' > Budget
  PROVE  Present \ call[c].counted # {}
<1> DEFINE S == call[c].counted
<1> SUFFICES ASSUME Present \subseteq S PROVE FALSE
  OBVIOUS
<1>1. /\ AccountOf(call[c], box) /\ S \subseteq Creators /\ call[c].pc = "create"
      /\ call[c].mem \in 0 .. MaxUint32
  BY CallParts DEF Accounts, Call, CreateSandbox
<1>2. S = Present /\ IsFiniteSet(S) /\ Mem(box, S) + call[c].mem <= Budget
  BY <1>1 DEF AccountOf, Present
<1>3. PICK r : box' = [box EXCEPT ![c] = r] /\ box[c] = NoBox /\ r # NoBox
               /\ r.mem = call[c].mem
  BY CreatedBox
<1>4. PICK n : n = S \cup {c}
  OBVIOUS
<1>5. /\ Present' = n /\ c \in n /\ n \ {c} = S /\ box'[c].mem = call[c].mem
      /\ \A d \in S : box'[d] = box[d]
  BY <1>2, <1>3, <1>4, CallParts DEF Present
<1>6. HasMem(box, S)
  BY <1>2, CallParts, ConstantsAssumption DEF Box, HasMem, Present
<1>7. PICK b : b = box'
  OBVIOUS
<1>8. HasMem(b, n) /\ IsFiniteSet(n)
  BY <1>1, <1>2, <1>4, <1>5, <1>6, <1>7, FS_AddElement DEF HasMem
<1>9. Mem(b, S) = Mem(box, S)
  BY <1>2, <1>5, <1>6, <1>7, MemSame
<1>10. Mem(b, n) = Mem(b, S) + b[c].mem
  BY <1>5, <1>8, MemRemove
<1>11. Committed' = Mem(b, n)
  <2>1. (Committed = Mem(box, Present))'
    BY CommittedIsMem, PTL
  <2> QED BY <1>5, <1>7, <2>1
<1>12. Mem(box, S) \in Nat
  BY <1>2, <1>6, MemType
<1> QED BY <1>1, <1>2, <1>5, <1>7, <1>9, <1>10, <1>11, <1>12, ConstantsAssumption

(* Admission: however many callers list and create at once, a create that    *)
(* lifts the committed memory over the budget missed, in its own admission   *)
(* listing, a sandbox that is there when it creates; what it did count, and  *)
(* its own memory, fit, though the sum saturates.                            *)
THEOREM OvershootIsARace == Spec => OnlyRacesOvershoot
<1>1. Init => Accounts
  BY IdleAccount DEF Init, Accounts
<1>2. IInv /\ Accounts /\ [Next]_vars
        => [\A c \in Creators :
              CreateSandbox(c) /\ Committed' > Budget
                => Present \ call[c].counted # {}]_vars
  BY CreateFits
<1> QED BY <1>1, <1>2, NextAccounts, InvariantIInv, PTL DEF Spec, OnlyRacesOvershoot

=============================================================================
