----------------------------- MODULE MCGateway -----------------------------
(***************************************************************************)
(* Instances of Gateway for TLC.                                           *)
(***************************************************************************)
EXTENDS Gateway, TLC

Symmetry == Permutations(Submission) \cup Permutations(Tx) \cup Permutations(Thread)
              \cup Permutations(Policy) \cup Permutations(Reading)
=============================================================================
