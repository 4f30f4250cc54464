-------------------------- MODULE MCNativeContext ---------------------------
(***************************************************************************)
(* Three threads whose first calls meet.                                   *)
(***************************************************************************)
EXTENDS NativeContext

CONSTANTS t1, t2, t3

Three == {t1, t2, t3}
=============================================================================
