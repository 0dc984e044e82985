--------------------------- MODULE MCSandboxCreate ---------------------------
(* Small instances of SandboxCreate. *)
EXTENDS SandboxCreate, TLC

CONSTANTS c1, c2, c3

NoPorts == {{}}
AnyBlock == {{}, {0}, {1}}
OneTwo == {1, 2}
One == {1}
AllowedOrNot == BOOLEAN
AlwaysDeny == {TRUE}
Interchangeable == Permutations(Creators)
=============================================================================
