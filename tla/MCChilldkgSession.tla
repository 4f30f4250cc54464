------------------------- MODULE MCChilldkgSession --------------------------
(***************************************************************************)
(* Three participants and a coordinator.                                   *)
(***************************************************************************)
EXTENDS ChilldkgSession

CONSTANTS p1, p2, p3

Three == {p1, p2, p3}
=============================================================================
