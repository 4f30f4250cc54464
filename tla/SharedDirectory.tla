--------------------------- MODULE SharedDirectory ---------------------------
(***************************************************************************)
(* What processes that keep files in one directory promise each other: a   *)
(* file comes into use under a name nobody has used before, it is deleted  *)
(* only when nobody uses it, and it does not come back.                    *)
(*                                                                         *)
(* Loader implements this with its lock files and random names.            *)
(***************************************************************************)
CONSTANT Files

VARIABLES present,               \* the files in the directory
          used,                  \* those that their process still uses
          past                   \* names that will not be used again

vars == <<present, used, past>>

Init == present = {} /\ used = {} /\ past \in SUBSET Files

(* A new file; its process may be about to end and not use it any more.    *)
Create(f) ==
    /\ f \notin past
    /\ present' = present \cup {f}
    /\ used' \in {used, used \cup {f}}
    /\ past' = past \cup {f}

(* The process fails or ends: of its file, if it has one, it lets go.      *)
LetGo(f) ==
    /\ used' = used \ {f}
    /\ past' = past \cup {f}
    /\ UNCHANGED present

Delete(f) ==
    /\ f \in present \ used
    /\ present' = present \ {f}
    /\ UNCHANGED <<used, past>>

Next == \E f \in Files : Create(f) \/ LetGo(f) \/ Delete(f)

Spec == Init /\ [][Next]_vars
=============================================================================
