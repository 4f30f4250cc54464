------------------------------ MODULE MCLoader ------------------------------
(***************************************************************************)
(* Two processes that share a temporary directory.                         *)
(***************************************************************************)
EXTENDS Loader

CONSTANTS j1, j2

TwoJVMs == {j1, j2}

(* The second process extracts once; the first may leave two libraries.    *)
NextOnce == Next /\ loads'[j2] <= 1

SpecOnce == Init /\ [][NextOnce]_vars /\ Fairness
=============================================================================
