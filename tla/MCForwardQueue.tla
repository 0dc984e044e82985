--------------------------- MODULE MCForwardQueue ---------------------------
(* Small instances of ForwardQueue. *)
EXTENDS ForwardQueue, TLC

CONSTANTS w1, w2, a1, a2, p1, p2, here, elsewhere

MCPorts == {p1, p2}
MCHosts == {here, elsewhere}

(* Both laptops reach this engine under its own name. *)
AllServeHere == [a \in Agents |-> here]

(* The second laptop reaches it under another name. *)
TwoNames == [a \in Agents |-> IF a = a1 THEN here ELSE elsewhere]

OnePort == {<<p>> : p \in MCPorts}
OneOrTwoPorts == OnePort \cup {<<p1, p2>>}

(* `declare` is run with the name of either engine; the pane names none. *)
HereOrElsewhere == {here, elsewhere}
OnlyHere == {here}
=============================================================================
