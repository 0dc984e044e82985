---------------------------- MODULE BindingTable ----------------------------
(***************************************************************************)
(* What internal/core/herdrspace promises its callers: the bindings file   *)
(* is a table that changes only by one whole Put or one whole Delete,      *)
(* however many processes call them.                                       *)
(***************************************************************************)
CONSTANT Binding   \* records with at least the fields label and handle

VARIABLE table

(* Put replaces what conflicts on the label or on the sandbox handle. *)
Stored(t, b) == {x \in t : x.label # b.label /\ x.handle # b.handle} \cup {b}

Removed(t, l) == {x \in t : x.label # l}

Put(b) == table' = Stored(table, b)
Delete(b) == table' = Removed(table, b.label)

Init == table = {}
Next == \E b \in Binding : Put(b) \/ Delete(b)
Spec == Init /\ [][Next]_table
=============================================================================
