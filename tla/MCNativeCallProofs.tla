------------------------- MODULE MCNativeCallProofs -------------------------
(***************************************************************************)
(* The release discipline and the inductive invariant, evaluated on the    *)
(* programs of the bindings.                                               *)
(***************************************************************************)
EXTENDS NativeCall_proofs, MCNativeCall
=============================================================================
