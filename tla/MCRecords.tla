------------------------------ MODULE MCRecords ------------------------------
(***************************************************************************)
(* Values of the constants of Records for TLC.                             *)
(***************************************************************************)
EXTENDS Records, TLC

\* Requests are only compared.
Symmetry == Permutations(Requests)
=============================================================================
