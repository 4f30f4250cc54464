--------------------------- MODULE MCLoaderProofs ---------------------------
(***************************************************************************)
(* The inductive invariant of Loader on two processes.                     *)
(***************************************************************************)
EXTENDS Loader_proofs, MCLoader
=============================================================================
