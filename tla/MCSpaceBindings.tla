---------------------------- MODULE MCSpaceBindings ----------------------------
(* Small instances of SpaceBindings. *)
EXTENDS SpaceBindings, TLC

CONSTANTS u1, u2, w1, w2, s1, s2, t1, h1, h2, feature, msb1, msb2

(* The worktree of w1 may come back as w2, under the same label and with    *)
(* the same sandbox name.                                                   *)
OneCheckout == [w \in Linked |-> t1]
OneLabel == [w \in Linked |-> feature]
NoLabel == [w \in Linked |-> None]
MsbLabels == [h \in Handles |-> IF h = h1 THEN msb1 ELSE msb2]
NameFromLabel == [w \in Linked |-> {h1}]
AnyName == [w \in Linked |-> Handles]
=============================================================================
