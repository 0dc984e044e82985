---------------------------- MODULE MCPortForwards ----------------------------
(* A small instance of PortForwards. *)
EXTENDS PortForwards, TLC

CONSTANTS b1, b2, q1, q2, s1, s2, c1, n1

(* Both sandboxes listen on q1. *)
SharedPort == {[b \in Boxes |-> IF b = b1 THEN {q1, q2} ELSE {q1}]}

(* The shared port may be taken on the laptop. *)
NoneOrShared == {{}, {q1}}

AlikeSyncs == Permutations(Syncs)
=============================================================================
