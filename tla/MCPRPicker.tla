----------------------------- MODULE MCPRPicker -----------------------------
(* PRPicker for TLC: two pull requests, each from a branch of its own. *)
EXTENDS PRPicker

CONSTANTS p1, p2, b1, b2

MCBranch == [p \in {p1, p2} |-> IF p = p1 THEN b1 ELSE b2]

=============================================================================
