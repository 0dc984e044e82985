--------------------------- MODULE RequestMailbox ---------------------------
(***************************************************************************)
(* What the request queue promises the two machines that share it, as long *)
(* as enqueue calls do not overlap and no request outlives its TTL: a      *)
(* mailbox, in which an ID stands for one request for ever and from which  *)
(* nothing is taken before it was served.                                  *)
(***************************************************************************)
EXTENDS Integers

VARIABLES
  waiting,  \* the requests in the file
  served    \* history: those some forward succeeded for

Init == waiting = {} /\ served = {}

(* What an enqueue call adds has IDs above all there ever were, and it      *)
(* takes out only what was served.                                          *)
Rewrite ==
  /\ waiting \ waiting' \subseteq served
  /\ \A n \in waiting' \ waiting : \A r \in waiting \cup served : r.id < n.id
  /\ \A m, n \in waiting' \ waiting : m.id = n.id => m = n
  /\ UNCHANGED served

Serve ==
  /\ \E r \in waiting : served' = served \cup {r}
  /\ UNCHANGED waiting

Next == Rewrite \/ Serve
Spec == Init /\ [][Next]_<<waiting, served>>

(* No ID is given out twice, even after its request left the file: the mark *)
(* an agent leaves never speaks of another request.                         *)
OneRequestPerID == \A r, s \in waiting \cup served : r.id = s.id => r = s
=============================================================================
