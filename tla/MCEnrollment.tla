---------------------------- MODULE MCEnrollment ----------------------------
(***************************************************************************)
(* A group of four, three of whom may help.                                *)
(***************************************************************************)
EXTENDS Enrollment

Call(ids, newId, n) == [ids |-> ids, newId |-> newId, n |-> n, t |-> 2]

(* A repair by two in two orders, a repair by three, an enrollment at the  *)
(* limit, and a helper as its own target.                                  *)
Calls == {Call(<<0, 1>>, 3, 4), Call(<<1, 0>>, 3, 4), Call(<<2, 0, 1>>, 3, 4),
          Call(<<0, 1, 2>>, 4, 4), Call(<<0, 1>>, 1, 4)}
=============================================================================
