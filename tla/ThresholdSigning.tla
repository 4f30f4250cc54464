-------------------------- MODULE ThresholdSigning --------------------------
(***************************************************************************)
(* What threshold signing promises: a message is signed under a key only   *)
(* when enough members have each agreed to sign that message under that    *)
(* key.  FrostSigning implements this.                                     *)
(***************************************************************************)
CONSTANTS Members, Keys, Messages,
          Quorums                \* the sets of members that may sign

VARIABLES agreed,                \* who agreed to sign what under which key
          signed                 \* what is signed under which key

vars == <<agreed, signed>>

Init == agreed = {} /\ signed = {}

Agree(m, key, msg) ==
    /\ agreed' = agreed \cup {[who |-> m, key |-> key, msg |-> msg]}
    /\ UNCHANGED signed

Sign(key, msg) ==
    /\ \E Q \in Quorums :
          \A m \in Q : [who |-> m, key |-> key, msg |-> msg] \in agreed
    /\ signed' = signed \cup {[key |-> key, msg |-> msg]}
    /\ UNCHANGED agreed

Next ==
    \E key \in Keys, msg \in Messages :
        \/ \E m \in Members : Agree(m, key, msg)
        \/ Sign(key, msg)

Spec == Init /\ [][Next]_vars
=============================================================================
