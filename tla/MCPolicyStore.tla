--------------------------- MODULE MCPolicyStore ---------------------------
(***************************************************************************)
(* Instances of PolicyStore for TLC.                                       *)
(***************************************************************************)
EXTENDS PolicyStore, TLC

CONSTANT p1   \* the profile of every asset in a seeded document

MCSeedDoc == [a \in Asset |-> p1]

Symmetry == Permutations(Session)
SeededSymmetry == Permutations(Session) \cup Permutations(Seeded)
=============================================================================
