--------------------------- MODULE MCOTInterface ---------------------------
(***************************************************************************)
(* Instances of OTInterface for TLC.                                       *)
(***************************************************************************)
EXTENDS OTInterface, TLC

\* Transactions and threads are interchangeable in the safety runs.
Symmetry == Permutations(Tx) \cup Permutations(Thread)
=============================================================================
