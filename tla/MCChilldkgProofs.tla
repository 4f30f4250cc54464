-------------------------- MODULE MCChilldkgProofs --------------------------
(***************************************************************************)
(* ChilldkgSession and its inductive invariant on three participants.      *)
(***************************************************************************)
EXTENDS ChilldkgSession_proofs, MCChilldkgSession
=============================================================================
