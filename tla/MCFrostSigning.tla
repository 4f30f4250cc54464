--------------------------- MODULE MCFrostSigning ---------------------------
(***************************************************************************)
(* Two members who both sign, with two nonces each, so that two sessions   *)
(* can be open without sharing one; and three members of whom two sign.    *)
(***************************************************************************)
EXTENDS FrostSigning_proofs

CONSTANTS m1, m2, m3, a, b

Two == {m1, m2}
Three == {m1, m2, m3}
OneMessage == {a}
TwoMessages == {a, b}

Taproot == <<"xonly">>
TweakKinds == {"xonly", "ec"}
=============================================================================
