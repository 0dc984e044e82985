---------------------------- MODULE SandboxLedger ----------------------------
(***************************************************************************)
(* What the msb runtime promises to the callers it hands sandboxes back    *)
(* to, as if a create were one step: the sandbox denies egress, its blocks *)
(* are nobody else's, and its record stays as it is until it is removed.   *)
(***************************************************************************)
CONSTANTS
  Creators,    \* callers, each with a sandbox name of its own
  Allocating,  \* those whose runtime allocates port blocks
  Box,         \* records the daemon keeps of sandboxes
  NoBox

VARIABLE held  \* held[c]: what was handed back to c and still exists, or NoBox

Init == held = [c \in Creators |-> NoBox]

HandBack(c) ==
  /\ held[c] = NoBox
  /\ \E b \in Box :
       /\ b.deny
       /\ c \in Allocating =>
            \A d \in Allocating \ {c} :
              held[d] # NoBox => b.blocks \cap held[d].blocks = {}
       /\ held' = [held EXCEPT ![c] = b]

Remove(c) == held' = [held EXCEPT ![c] = NoBox]

Next == \E c \in Creators : HandBack(c) \/ Remove(c)
Spec == Init /\ [][Next]_held
=============================================================================
