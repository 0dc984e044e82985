---------------------------- MODULE SandboxCreate ----------------------------
(***************************************************************************)
(* Concurrent creation of sandboxes through internal/runtime/msb.          *)
(*                                                                         *)
(* A create call pages through the daemon's list to sum the committed      *)
(* memory, pages through it again to find a free block of host ports,      *)
(* creates the sandbox, reads its network policy back and, when a block    *)
(* was allocated, pages a third time to see whether somebody else took     *)
(* the same block meanwhile.  Nothing is reserved and no lock is held:     *)
(* every page is a separate request, so sandboxes come and go during a     *)
(* listing.  What the daemon owes a listing is only that a sandbox that    *)
(* is there from its first page to its last is on one of the pages.        *)
(*                                                                         *)
(* Creator c creates the sandbox named c; the daemon refuses a second one  *)
(* of that name.  Published host ports are abstracted to the set of        *)
(* 10,000-port blocks they touch.                                          *)
(***************************************************************************)
EXTENDS Integers, FiniteSets, FiniteSetsExt

CONSTANTS
  Creators,     \* callers, each with the name of the sandbox it creates
  Allocating,   \* creators whose Runtime has a RangeAllocator
  Paths,        \* entry points in use, out of CreatePaths
  MemorySizes,  \* values of SandboxSpec.MemoryMiB
  Budget,       \* the host RAM budget
  MaxUint32,    \* where the committed sum saturates
  NumBlocks,    \* rangeMaxBlocks
  Published,    \* block sets a caller without allocator may publish in
  Policies,     \* subset of BOOLEAN: may the daemon's record deny egress?
  MaxPages,     \* maxCommittedPages
  MaxFaults,    \* bound on crashes and failed requests
  NoBox         \* no sandbox of that name

CreatePaths == {"service", "runtime", "ephemeral", "publish"}
Blocks == 0 .. NumBlocks - 1

ASSUME ConstantsAssumption ==
  /\ Allocating \subseteq Creators /\ Paths \subseteq CreatePaths
  /\ MaxUint32 \in Nat /\ Budget \in 0 .. MaxUint32
  /\ MemorySizes \subseteq 0 .. MaxUint32
  /\ NumBlocks \in Nat /\ Published \subseteq SUBSET Blocks
  /\ Policies \subseteq BOOLEAN /\ MaxPages \in Nat /\ MaxFaults \in Nat
  /\ NoBox \notin [mem : 0 .. MaxUint32, blocks : SUBSET Blocks, deny : BOOLEAN]

VARIABLES
  box,       \* box[c]: the daemon's record of sandbox c, or NoBox
  call,      \* call[c]: local state of creator c
  returned,  \* history: sandboxes handed back to their caller
  faults     \* faults spent

vars == <<box, call, returned, faults>>

-----------------------------------------------------------------------------
Box == [mem : 0 .. MaxUint32, blocks : SUBSET Blocks, deny : BOOLEAN]
Present == {c \in Creators : box[c] # NoBox}

(* A listing in progress knows what it has seen and, for the contract of    *)
(* the daemon, which sandboxes have been there since it began.  counted is  *)
(* history: of the sandboxes there now, those its last admission counted.    *)
NoListing == [due |-> {}, listed |-> {}, pages |-> 0, sum |-> 0, occupied |-> {}]

Idle == [pc |-> "idle", phase |-> "none", path |-> "runtime", mem |-> 0,
         base |-> 0, list |-> NoListing, counted |-> {}]

Init ==
  /\ box = [c \in Creators |-> NoBox]
  /\ call = [c \in Creators |-> Idle]
  /\ returned = {} /\ faults = 0

Fail == faults < MaxFaults /\ faults' = faults + 1

(* The call returns with an error. *)
GiveUp(c) == call' = [call EXCEPT ![c] = Idle]

BeginListing(c, phase) ==
  call' = [call EXCEPT ![c].pc = "begin", ![c].phase = phase,
                       ![c].list = NoListing, ![c].counted = {}]

BeginTeardown(c) ==
  call' = [call EXCEPT ![c].pc = "teardown", ![c].list = NoListing]

(* Sandbox c goes away: a listing under way need no longer show it, and may  *)
(* show a newcomer of the same name.                                         *)
Without(c, calls) ==
  [d \in Creators |-> [calls[d] EXCEPT !.list.due = @ \ {c},
                                       !.list.listed = @ \ {c},
                                       !.counted = @ \ {c}]]

-----------------------------------------------------------------------------
(* Entry points *)

StartCall(c, path, m) ==
  call' = [call EXCEPT ![c] = [Idle EXCEPT
             !.pc = "begin", !.path = path, !.mem = m,
             !.phase = IF path = "service" THEN "service" ELSE "admit"]]

(* service.Create, or CreateAndBoot and RunEphemeral called directly. *)
Create(c) ==
  /\ call[c].pc = "idle"
  /\ \E path \in Paths \ {"publish"}, m \in MemorySizes : StartCall(c, path, m)
  /\ UNCHANGED <<box, returned, faults>>

(* Publish kills and removes the existing sandbox before anything decides   *)
(* whether its successor will be admitted.  When it cannot look the sandbox *)
(* up it goes on to create; when it cannot remove it, it returns.           *)
Publish(c) ==
  /\ call[c].pc = "idle" /\ "publish" \in Paths
  /\ \E m \in MemorySizes : StartCall(c, "publish", m)
  /\ (box[c] = NoBox /\ UNCHANGED faults) \/ Fail
  /\ UNCHANGED <<box, returned>>

PublishAnew(c) ==
  /\ call[c].pc = "idle" /\ "publish" \in Paths /\ box[c] # NoBox
  /\ \E m \in MemorySizes :
       call' = Without(c, [call EXCEPT ![c] = [Idle EXCEPT
                 !.pc = "begin", !.phase = "admit", !.path = "publish", !.mem = m]])
  /\ box' = [box EXCEPT ![c] = NoBox]
  /\ returned' = returned \ {c}
  /\ UNCHANGED faults

-----------------------------------------------------------------------------
(* Listing, one sandbox per page *)

ListBegin(c) ==
  /\ call[c].pc = "begin"
  /\ call' = [call EXCEPT ![c].pc = "list", ![c].list.due = Present]
  /\ UNCHANGED <<box, returned, faults>>

(* Defect: the addition wraps. *)
WrappingAdd(a, b) == (a + b) % (MaxUint32 + 1)

(* uint32 addition that saturates instead of wrapping. *)
SaturatingAdd(a, b) == IF a > MaxUint32 - b THEN MaxUint32 ELSE a + b

NextPage(c, d) ==
  /\ call[c].pc = "list" /\ call[c].list.pages < MaxPages
  /\ d \in Present \ call[c].list.listed

(* Defect: the loop over the pages counts none. *)
PageUncounted(pages) == pages

PageRead(pages) == pages + 1

(* Whether sandbox d publishes a port in the block c was given. *)
Collides(c, d) == d # c /\ call[c].base \in box[d].blocks

CountPage(c) ==
  /\ call[c].phase \in {"service", "admit"}
  /\ \E d \in Creators :
       /\ NextPage(c, d)
       /\ call' = [call EXCEPT ![c].list.listed = @ \cup {d},
                     ![c].list.pages = PageRead(@),
                     ![c].list.sum = SaturatingAdd(@, box[d].mem),
                     ![c].counted = @ \cup {d}]
  /\ UNCHANGED <<box, returned, faults>>

OccupancyPage(c) ==
  /\ call[c].phase = "occupancy"
  /\ \E d \in Creators :
       /\ NextPage(c, d)
       /\ call' = [call EXCEPT ![c].list.listed = @ \cup {d},
                     ![c].list.pages = PageRead(@),
                     ![c].list.occupied = @ \cup box[d].blocks]
  /\ UNCHANGED <<box, returned, faults>>

CheckPage(c) ==
  /\ call[c].phase = "check"
  /\ \E d \in Creators :
       /\ NextPage(c, d) /\ ~Collides(c, d)
       /\ call' = [call EXCEPT ![c].list.listed = @ \cup {d},
                     ![c].list.pages = PageRead(@)]
  /\ UNCHANGED <<box, returned, faults>>

(* checkCollisionFrom returns at the first port found in the block. *)
CollisionFound(c) ==
  /\ call[c].phase = "check"
  /\ \E d \in Creators : NextPage(c, d) /\ Collides(c, d)
  /\ BeginTeardown(c)
  /\ UNCHANGED <<box, returned, faults>>

(* A page fails, the daemon repeats a cursor or there are too many pages:   *)
(* nothing is concluded from a partial list.                                *)
ListFails(c) ==
  /\ call[c].pc = "list"
  /\ \/ call[c].list.pages >= MaxPages /\ UNCHANGED faults
     \/ Fail
  /\ IF call[c].phase = "check" THEN BeginTeardown(c) ELSE GiveUp(c)
  /\ UNCHANGED <<box, returned>>

ListEnded(c, phase) ==
  /\ call[c].pc = "list" /\ call[c].phase = phase
  /\ call[c].list.due \subseteq call[c].list.listed

-----------------------------------------------------------------------------
(* What a finished listing decides *)

Decide(committed, requested) ==
  Budget > 0 /\ requested > 0 /\ committed + requested <= Budget

Refuse(c) ==
  /\ \E phase \in {"service", "admit"} : ListEnded(c, phase)
  /\ ~Decide(call[c].list.sum, call[c].mem)
  /\ GiveUp(c)
  /\ UNCHANGED <<box, returned, faults>>

ServiceAdmits(c) ==
  /\ ListEnded(c, "service") /\ Decide(call[c].list.sum, call[c].mem)
  /\ BeginListing(c, "admit")
  /\ UNCHANGED <<box, returned, faults>>

UsesAllocator(c) == c \in Allocating /\ call[c].path # "ephemeral"

RuntimeAdmits(c) ==
  /\ ListEnded(c, "admit") /\ Decide(call[c].list.sum, call[c].mem)
  /\ call' = [call EXCEPT ![c].list = NoListing,
                ![c].pc = IF UsesAllocator(c) THEN "begin" ELSE "create",
                ![c].phase = IF UsesAllocator(c) THEN "occupancy" ELSE "admit"]
  /\ UNCHANGED <<box, returned, faults>>

(* Sandboxes exist but none publishes in the managed range. *)
SchemaDrift(c) == call[c].list.pages > 0 /\ call[c].list.occupied = {}

(* Defect: the search tries one block too many. *)
AllocateOneMore(c) ==
  /\ ListEnded(c, "occupancy") /\ ~SchemaDrift(c)
  /\ \E b \in (0 .. NumBlocks) \ call[c].list.occupied :
       /\ \A k \in 0 .. b - 1 : k \in call[c].list.occupied
       /\ call' = [call EXCEPT ![c].base = b, ![c].pc = "create",
                     ![c].list = NoListing]
  /\ UNCHANGED <<box, returned, faults>>

Allocate(c) ==
  /\ ListEnded(c, "occupancy") /\ ~SchemaDrift(c)
  /\ \E b \in Blocks \ call[c].list.occupied :
       /\ \A k \in 0 .. b - 1 : k \in call[c].list.occupied
       /\ call' = [call EXCEPT ![c].base = b, ![c].pc = "create",
                     ![c].list = NoListing]
  /\ UNCHANGED <<box, returned, faults>>

AllocateFails(c) ==
  /\ ListEnded(c, "occupancy")
  /\ SchemaDrift(c) \/ Blocks \subseteq call[c].list.occupied
  /\ GiveUp(c)
  /\ UNCHANGED <<box, returned, faults>>

(* Defect: the check concludes from the first page. *)
CollisionFreeAfterOnePage(c) ==
  /\ call[c].pc = "list" /\ call[c].phase = "check"
  /\ call[c].list.listed # {} \/ call[c].list.due = {}
  /\ GiveUp(c)
  /\ returned' = returned \cup {c}
  /\ UNCHANGED <<box, faults>>

CollisionFree(c) ==
  /\ ListEnded(c, "check")
  /\ GiveUp(c)
  /\ returned' = returned \cup {c}
  /\ UNCHANGED <<box, faults>>

-----------------------------------------------------------------------------
(* Creation, read-back of the policy, teardown *)

CreateSandbox(c) ==
  /\ call[c].pc = "create" /\ box[c] = NoBox
  /\ \E deny \in Policies,
        blocks \in IF UsesAllocator(c) THEN {{call[c].base}} ELSE Published :
       box' = [box EXCEPT ![c] = [mem |-> call[c].mem, blocks |-> blocks,
                                  deny |-> deny]]
  /\ call' = [call EXCEPT ![c].pc = "verify"]
  /\ returned' = returned \ {c}
  /\ UNCHANGED faults

CreateSandboxFails(c) ==
  /\ call[c].pc = "create"
  /\ (box[c] # NoBox /\ UNCHANGED faults) \/ Fail
  /\ GiveUp(c)
  /\ UNCHANGED <<box, returned>>

(* Defect: a policy in the record is enough, whatever it says of egress. *)
PolicyPresent(c) ==
  /\ call[c].pc = "verify" /\ box[c] # NoBox
  /\ \/ ~UsesAllocator(c) /\ GiveUp(c) /\ returned' = returned \cup {c}
     \/ UsesAllocator(c) /\ BeginListing(c, "check") /\ UNCHANGED returned
  /\ UNCHANGED <<box, faults>>

(* Detach, GetSandbox and assertNetworkPolicy all succeed. *)
PolicyHolds(c) ==
  /\ call[c].pc = "verify" /\ box[c] # NoBox /\ box[c].deny
  /\ \/ /\ call[c].path = "ephemeral"      \* runs its command, then destroys
        /\ BeginTeardown(c) /\ UNCHANGED returned
     \/ UsesAllocator(c) /\ BeginListing(c, "check") /\ UNCHANGED returned
     \/ /\ call[c].path # "ephemeral" /\ ~UsesAllocator(c)
        /\ GiveUp(c) /\ returned' = returned \cup {c}
  /\ UNCHANGED <<box, faults>>

PolicyMissing(c) ==
  /\ call[c].pc = "verify" /\ box[c] # NoBox /\ ~box[c].deny
  /\ BeginTeardown(c)
  /\ UNCHANGED <<box, returned, faults>>

(* CreateAndBoot and Publish wait for Detach with no time limit of their     *)
(* own, and the SDK does not return from it on a cancel: such a call may     *)
(* never go on.  RunEphemeral does not detach.                               *)
DetachWedges(c) ==
  /\ call[c].pc = "verify" /\ call[c].path # "ephemeral" /\ Fail
  /\ call' = [call EXCEPT ![c].pc = "wedged"]
  /\ UNCHANGED <<box, returned>>

(* Detach or GetSandbox fails: CreateAndBoot returns the error at once,     *)
(* RunEphemeral destroys what it created.                                   *)
VerifyFails(c) ==
  /\ call[c].pc = "verify"
  /\ (box[c] = NoBox /\ UNCHANGED faults) \/ Fail
  /\ IF call[c].path = "ephemeral"
     THEN BeginTeardown(c) ELSE GiveUp(c)
  /\ UNCHANGED <<box, returned>>

Teardown(c) ==
  /\ call[c].pc = "teardown"
  /\ \/ box' = [box EXCEPT ![c] = NoBox] /\ UNCHANGED faults
     \/ Fail /\ UNCHANGED box
  /\ call' = IF box'[c] = NoBox THEN Without(c, [call EXCEPT ![c] = Idle])
                                ELSE [call EXCEPT ![c] = Idle]
  /\ UNCHANGED returned

-----------------------------------------------------------------------------
(* Around the calls *)

(* `rm`, `space-prune` or the msb CLI removes a sandbox. *)
Remove(c) ==
  /\ box[c] # NoBox
  /\ box' = [box EXCEPT ![c] = NoBox]
  /\ call' = Without(c, call)
  /\ returned' = returned \ {c}
  /\ UNCHANGED faults

(* The calling process dies; the daemon keeps the sandbox. *)
Crash(c) ==
  /\ call[c].pc # "idle" /\ Fail
  /\ GiveUp(c)
  /\ UNCHANGED <<box, returned>>

Step(c) ==
  \/ ListBegin(c) \/ CountPage(c) \/ OccupancyPage(c) \/ CheckPage(c)
  \/ CollisionFound(c) \/ ListFails(c)
  \/ Refuse(c) \/ ServiceAdmits(c) \/ RuntimeAdmits(c)
  \/ Allocate(c) \/ AllocateFails(c) \/ CollisionFree(c)
  \/ CreateSandbox(c) \/ CreateSandboxFails(c)
  \/ PolicyHolds(c) \/ PolicyMissing(c) \/ VerifyFails(c) \/ Teardown(c)

Next ==
  \E c \in Creators :
    \/ Create(c) \/ Publish(c) \/ PublishAnew(c) \/ Step(c)
    \/ DetachWedges(c) \/ Remove(c) \/ Crash(c)

Spec == Init /\ [][Next]_vars

(* A process that is inside a call keeps executing it, and the daemon        *)
(* answers, except that a Detach that wedged need never come back.           *)
FairSpec == Spec /\ \A c \in Creators : WF_vars(Step(c))

-----------------------------------------------------------------------------
(* Properties *)

Listing == [due : SUBSET Creators, listed : SUBSET Creators, pages : Nat,
            sum : 0 .. MaxUint32, occupied : SUBSET Blocks]

Call == [pc : {"idle", "begin", "list", "create", "verify", "wedged", "teardown"},
         phase : {"none", "service", "admit", "occupancy", "check"},
         path : CreatePaths, mem : 0 .. MaxUint32, base : Nat,
         list : Listing, counted : SUBSET Creators]

(* Every variable holds a value of its type: the daemon's records and the   *)
(* locals of CreateAndBoot and the listings it makes.                       *)
TypeOK ==
  /\ box \in [Creators -> Box \cup {NoBox}]
  /\ call \in [Creators -> Call]
  /\ returned \in SUBSET Creators
  /\ faults \in Nat

(* CheckCollision: two sandboxes that allocating runtimes handed back never *)
(* publish in the same block, although Allocate reserves nothing.           *)
NoSharedBlock ==
  \A c, d \in returned \cap Allocating :
    c # d /\ box[c] # NoBox /\ box[d] # NoBox
      => box[c].blocks \cap box[d].blocks = {}

(* Only a sandbox whose record denies egress by default is handed back.     *)
ReturnedProtected ==
  \A c \in returned : box[c] # NoBox => box[c].deny

(* Seen by those who got a sandbox, a create is one step: the pages, checks *)
(* and tear-downs that overlap with it are invisible, and nothing changes   *)
(* what they were handed.                                                   *)
HandedBack == [c \in Creators |-> IF c \in returned THEN box[c] ELSE NoBox]
Ledger == INSTANCE SandboxLedger WITH held <- HandedBack
ImplementsLedger == Ledger!Spec

Committed == MapThenSumSet(LAMBDA c : box[c].mem, Present)

(* A create that lifts the committed memory over the budget missed, in its  *)
(* admission listing, a sandbox that exists when it creates.                *)
OnlyRacesOvershoot ==
  [][\A c \in Creators :
       CreateSandbox(c) /\ Committed' > Budget
         => Present \ call[c].counted # {}]_vars

(* Every call returns, or its Detach never does, however many sandboxes are *)
(* removed and created again in front of its listings: a listing that does  *)
(* not come to an end is given up at the page limit.                        *)
CallsReturn ==
  \A c \in Creators : call[c].pc # "idle" ~> call[c].pc \in {"idle", "wedged"}

(* egress-profile.md: a create whose policy was not confirmed fails, and    *)
(* the sandbox is torn down before the call returns.                        *)
UnconfirmedIsTornDown ==
  \A c \in Present : call[c].pc = "idle" => box[c].deny

=============================================================================
