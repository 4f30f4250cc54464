---------------------------- MODULE DkgAgreement ----------------------------
(***************************************************************************)
(* What a distributed key generation promises its participants.  They sign *)
(* transcripts, one that all of them have signed can be certified, and     *)
(* whoever holds anything holds something certified.  All who deem the     *)
(* generation successful by its certificate have the same key.  Recovery   *)
(* promises less: something certified, not the key.                        *)
(*                                                                         *)
(* ChilldkgSession implements this.                                        *)
(***************************************************************************)
CONSTANTS Participants, Transcripts,
          None                   \* not a transcript

VARIABLES signed,                \* the transcripts each participant signed
          certified,             \* those with a certificate
          key,                   \* the transcript of the key, None at first
          holds                  \* what each participant holds, or None

vars == <<signed, certified, key, holds>>

TypeOK ==
    /\ signed \in [Participants -> SUBSET Transcripts]
    /\ certified \subseteq Transcripts
    /\ key \in Transcripts \cup {None}
    /\ holds \in [Participants -> Transcripts \cup {None}]

Init ==
    /\ signed = [p \in Participants |-> {}]
    /\ certified = {}
    /\ key = None
    /\ holds = [p \in Participants |-> None]

(* Who holds something signs nothing more.                                 *)
Sign(p, T) ==
    /\ holds[p] = None
    /\ signed' = [signed EXCEPT ![p] = @ \cup {T}]
    /\ UNCHANGED <<certified, key, holds>>

Certify(T) ==
    /\ \A p \in Participants : T \in signed[p]
    /\ certified' = certified \cup {T}
    /\ UNCHANGED <<signed, key, holds>>

(* A participant deems the generation successful: the first one decides    *)
(* the key.                                                                *)
Finalize(p, T) ==
    /\ holds[p] = None /\ T \in certified
    /\ key \in {None, T} /\ key' = T
    /\ holds' = [holds EXCEPT ![p] = T]
    /\ UNCHANGED <<signed, certified>>

Recover(p, T) ==
    /\ holds[p] = None /\ T \in certified
    /\ holds' = [holds EXCEPT ![p] = T]
    /\ UNCHANGED <<signed, certified, key>>

Lose(p) ==
    /\ holds' = [holds EXCEPT ![p] = None]
    /\ UNCHANGED <<signed, certified, key>>

Next ==
    \/ \E T \in Transcripts : Certify(T)
    \/ \E p \in Participants :
          \/ \E T \in Transcripts : Sign(p, T) \/ Finalize(p, T) \/ Recover(p, T)
          \/ Lose(p)

Spec == Init /\ [][Next]_vars
=============================================================================
