-------------------------- MODULE ChilldkgSession ---------------------------
(***************************************************************************)
(* ChillDKG between participants and a coordinator that exchange messages  *)
(* over a network which loses, repeats, delays and reorders them, with     *)
(* crashes, restarts, retries, lost data and recovery.                     *)
(*                                                                         *)
(* Each call of chilldkgParticipantStep1 is an attempt with randomness of  *)
(* its own, so a transcript is one attempt per participant.  Everything    *)
(* ever sent can be received any number of times, at any time or never.    *)
(* What the library does with a message (the cryptography) is external: it *)
(* accepts a cmsg1 that contains the participant's own contribution, and a *)
(* certificate of exactly the transcript that the state is about.          *)
(*                                                                         *)
(* Callers keep to the API's documentation: a state is used for a single   *)
(* call, and who has no result recovers it from the recovery data of       *)
(* another participant or of the coordinator.  What the model adds: states *)
(* are in memory and do not survive a restart; who has a result takes no   *)
(* further part (another key would be another generation); and recovery    *)
(* data that the coordinator got stays available.  The coordinator may run *)
(* sessions side by side, crash and start over, after success too.         *)
(***************************************************************************)
EXTENDS Naturals, FiniteSets

CONSTANTS Participants,
          None,                  \* no transcript
          MaxAttempts,           \* bound: step1 calls of a participant
          MaxSessions,           \* bound: step1 calls of the coordinator
          MaxFaults              \* bound: crashes and losses of data

ASSUME BoundsAssumption ==
    /\ MaxAttempts \in Nat /\ MaxSessions \in Nat /\ MaxFaults \in Nat

Transcripts == [Participants -> 1..MaxAttempts]

ASSUME NoneAssumption == None \notin Transcripts

ASSUME ParticipantsAssumption == IsFiniteSet(Participants)

VARIABLES attempts,              \* step1 calls so far; each has sent a pmsg1
          phase,                 \* what a participant has in its hands
          seen,                  \* the transcript of its state2 or result
          state,                 \* the coordinator's state of each session, or None
          sessions,              \* step1 calls of the coordinator
          cmsgs1,                \* transcripts whose cmsg1 was broadcast
          sigs,                  \* transcripts each participant signed (pmsg2)
          cmsgs2,                \* certified transcripts: certificate, recovery data
          keys,                  \* transcripts some participant deemed successful
          acks,                  \* recovery data each participant acknowledged
          faults                 \* crashes and losses so far

vars == <<attempts, phase, seen, state, sessions, cmsgs1, sigs, cmsgs2,
          keys, acks, faults>>

(* No state, state1, state2, a result with its recovery data, a lost one.  *)
Phases == {"out", "state1", "state2", "success", "lost"}

TypeOK ==
    /\ attempts \in [Participants -> 0..MaxAttempts]
    /\ phase \in [Participants -> Phases]
    /\ seen \in [Participants -> Transcripts \cup {None}]
    /\ \A p \in Participants : seen[p] # None <=> phase[p] \in {"state2", "success"}
    /\ state \in [1..MaxSessions -> Transcripts \cup {None}]
    /\ sessions \in 0..MaxSessions
    /\ cmsgs1 \subseteq Transcripts /\ cmsgs2 \subseteq Transcripts
    /\ keys \subseteq Transcripts
    /\ sigs \in [Participants -> SUBSET Transcripts]
    /\ acks \in [Participants -> SUBSET Transcripts]
    /\ faults \in 0..MaxFaults

Init ==
    /\ attempts = [p \in Participants |-> 0]
    /\ phase = [p \in Participants |-> "out"]
    /\ seen = [p \in Participants |-> None]
    /\ state = [s \in 1..MaxSessions |-> None] /\ sessions = 0
    /\ cmsgs1 = {} /\ cmsgs2 = {} /\ keys = {}
    /\ sigs = [p \in Participants |-> {}]
    /\ acks = [p \in Participants |-> {}]
    /\ faults = 0

Goes(p, where, T) ==
    /\ phase' = [phase EXCEPT ![p] = where]
    /\ seen' = [seen EXCEPT ![p] = T]

coordinatorVars == <<state, sessions>>
messages == <<cmsgs1, sigs, cmsgs2, keys, acks>>

-----------------------------------------------------------------------------
(* chilldkgParticipantStep1, the first time or anew; an older state is     *)
(* dropped.                                                                *)
ParticipantStep1(p) ==
    /\ phase[p] \in {"out", "state1", "state2"}
    /\ attempts[p] < MaxAttempts
    /\ attempts' = [attempts EXCEPT ![p] = @ + 1]
    /\ Goes(p, "state1", None)
    /\ UNCHANGED <<coordinatorVars, messages, faults>>

(* chilldkgCoordinatorStep1: one pmsg1 of every participant, whichever     *)
(* attempts they are from.                                                 *)
CoordinatorStep1(T) ==
    /\ sessions < MaxSessions
    /\ \A p \in Participants : T[p] <= attempts[p]
    /\ sessions' = sessions + 1
    /\ state' = [state EXCEPT ![sessions'] = T]
    /\ cmsgs1' = cmsgs1 \cup {T}
    /\ UNCHANGED <<attempts, phase, seen, sigs, cmsgs2, keys, acks, faults>>

(* state1 used for a second call.                                          *)
ParticipantStep2Again(p, T) ==
    /\ phase[p] \in {"state1", "state2"} /\ T \in cmsgs1
    /\ IF T[p] = attempts[p]
       THEN Goes(p, "state2", T) /\ sigs' = [sigs EXCEPT ![p] = @ \cup {T}]
       ELSE Goes(p, "out", None) /\ UNCHANGED sigs
    /\ UNCHANGED <<attempts, coordinatorVars, cmsgs1, cmsgs2, keys, acks, faults>>

(* chilldkgParticipantStep2: a signature if the message contains what the  *)
(* participant contributed, otherwise a fault; state1 is spent either way. *)
ParticipantStep2(p, T) ==
    /\ phase[p] = "state1" /\ T \in cmsgs1
    /\ IF T[p] = attempts[p]
       THEN Goes(p, "state2", T) /\ sigs' = [sigs EXCEPT ![p] = @ \cup {T}]
       ELSE Goes(p, "out", None) /\ UNCHANGED sigs
    /\ UNCHANGED <<attempts, coordinatorVars, cmsgs1, cmsgs2, keys, acks, faults>>

(* All but one of the signatures are verified.                             *)
CoordinatorFinalizeMost(s) ==
    /\ state[s] # None
    /\ \E S \in [Participants -> UNION {sigs[p] : p \in Participants}] :
          /\ \A p \in Participants : S[p] \in sigs[p]
          /\ cmsgs2' = IF \E q \in Participants : \A p \in Participants \ {q} : S[p] = state[s]
                       THEN cmsgs2 \cup {state[s]} ELSE cmsgs2
    /\ state' = [state EXCEPT ![s] = None]
    /\ UNCHANGED <<attempts, phase, seen, sessions, cmsgs1, sigs, keys, acks, faults>>

(* Called as soon as there is some signature.                              *)
CoordinatorFinalizeEarly(s) ==
    /\ state[s] # None /\ UNION {sigs[p] : p \in Participants} # {}
    /\ cmsgs2' = IF \A p \in Participants : state[s] \in sigs[p]
                 THEN cmsgs2 \cup {state[s]} ELSE cmsgs2
    /\ state' = [state EXCEPT ![s] = None]
    /\ UNCHANGED <<attempts, phase, seen, sessions, cmsgs1, sigs, keys, acks, faults>>

(* chilldkgCoordinatorFinalize: one signature of every participant, of     *)
(* whatever transcript; the certificate if all verify, else a fault.  The  *)
(* state is spent either way.                                              *)
CoordinatorFinalize(s) ==
    /\ state[s] # None
    /\ \E S \in [Participants -> UNION {sigs[p] : p \in Participants}] :
          /\ \A p \in Participants : S[p] \in sigs[p]
          /\ cmsgs2' = IF \A p \in Participants : S[p] = state[s]
                       THEN cmsgs2 \cup {state[s]} ELSE cmsgs2
    /\ state' = [state EXCEPT ![s] = None]
    /\ UNCHANGED <<attempts, phase, seen, sessions, cmsgs1, sigs, keys, acks, faults>>

(* A certificate accepted whatever it certifies.                           *)
ParticipantFinalizeAny(p, T) ==
    /\ phase[p] = "state2" /\ T \in cmsgs2
    /\ Goes(p, "success", seen[p]) /\ keys' = keys \cup {seen[p]}
    /\ UNCHANGED <<attempts, coordinatorVars, cmsgs1, sigs, cmsgs2, acks, faults>>

(* chilldkgParticipantFinalize: the participant deems the session          *)
(* successful if the certificate is for the transcript of state2,          *)
(* otherwise a fault; state2 is spent either way.                          *)
ParticipantFinalize(p, T) ==
    /\ phase[p] = "state2" /\ T \in cmsgs2
    /\ IF T = seen[p]
       THEN Goes(p, "success", T) /\ keys' = keys \cup {T}
       ELSE Goes(p, "out", None) /\ UNCHANGED keys
    /\ UNCHANGED <<attempts, coordinatorVars, cmsgs1, sigs, cmsgs2, acks, faults>>

(* Only a participant that has, or had, a state2 or result is recovered.   *)
ParticipantRecoverLate(p, T) ==
    /\ phase[p] \in {"state2", "lost"} /\ T \in cmsgs2
    /\ Goes(p, "success", T)
    /\ UNCHANGED <<attempts, coordinatorVars, messages, faults>>

(* chilldkgParticipantRecover with the host secret key and the recovery    *)
(* data of any certified transcript: the coordinator has it from           *)
(* chilldkgCoordinatorFinalize on, another participant from its result on. *)
(* A state that is still there is dropped.                                 *)
ParticipantRecover(p, T) ==
    /\ phase[p] # "success" /\ T \in cmsgs2
    /\ Goes(p, "success", T)
    /\ UNCHANGED <<attempts, coordinatorVars, messages, faults>>

(* The acknowledgment given on the strength of state2.                     *)
RecoveryAckSignEarly(p) ==
    /\ phase[p] \in {"state2", "success"}
    /\ acks' = [acks EXCEPT ![p] = @ \cup {seen[p]}]
    /\ UNCHANGED <<attempts, phase, seen, coordinatorVars, cmsgs1, sigs, cmsgs2, keys, faults>>

(* chilldkgRecoveryAckSign: the participant has the recovery data.         *)
RecoveryAckSign(p) ==
    /\ phase[p] = "success"
    /\ acks' = [acks EXCEPT ![p] = @ \cup {seen[p]}]
    /\ UNCHANGED <<attempts, phase, seen, coordinatorVars, cmsgs1, sigs, cmsgs2, keys, faults>>

(* chilldkgRecoveryAcksVerify: everybody has acknowledged.                 *)
AcksVerify(T) == \A p \in Participants : T \in acks[p]

Holders == {p \in Participants : phase[p] = "success"}

-----------------------------------------------------------------------------
(* The states are in memory; host secret keys and results are not.         *)
Crash(p) ==
    /\ faults < MaxFaults /\ faults' = faults + 1
    /\ phase[p] \in {"state1", "state2"}
    /\ Goes(p, "out", None)
    /\ UNCHANGED <<attempts, coordinatorVars, messages>>

CoordinatorCrash ==
    /\ faults < MaxFaults /\ faults' = faults + 1
    /\ \E s \in 1..MaxSessions : state[s] # None
    /\ state' = [s \in 1..MaxSessions |-> None]
    /\ UNCHANGED <<attempts, phase, seen, sessions, messages>>

(* A participant loses its result and recovery data, and keeps its host    *)
(* secret key.                                                             *)
LoseData(p) ==
    /\ faults < MaxFaults /\ faults' = faults + 1
    /\ phase[p] = "success"
    /\ Goes(p, "lost", None)
    /\ UNCHANGED <<attempts, coordinatorVars, messages>>

Participant(p) ==
    \/ ParticipantStep1(p)
    \/ \E T \in cmsgs1 : ParticipantStep2(p, T)
    \/ \E T \in cmsgs2 : ParticipantFinalize(p, T)
    \/ \E T \in cmsgs2 : ParticipantRecover(p, T)
    \/ RecoveryAckSign(p)

Coordinator ==
    \/ \E T \in Transcripts : CoordinatorStep1(T)
    \/ \E s \in 1..MaxSessions : CoordinatorFinalize(s)

Fault == CoordinatorCrash \/ \E p \in Participants : Crash(p) \/ LoseData(p)

Next == Coordinator \/ Fault \/ \E p \in Participants : Participant(p)

(* Callers begin, go on with the message that is there, and ask for        *)
(* recovery data.  Nothing makes them begin again.                         *)
Fairness ==
    /\ WF_vars(sessions = 0 /\ \E T \in Transcripts : CoordinatorStep1(T))
    /\ WF_vars(\E s \in 1..MaxSessions : CoordinatorFinalize(s))
    /\ \A p \in Participants :
          /\ WF_vars(attempts[p] = 0 /\ ParticipantStep1(p))
          /\ WF_vars(\E T \in cmsgs1 : ParticipantStep2(p, T))
          /\ WF_vars(\E T \in cmsgs2 : ParticipantFinalize(p, T))
          /\ WF_vars(\E T \in cmsgs2 : ParticipantRecover(p, T))

Spec == Init /\ [][Next]_vars /\ Fairness

-----------------------------------------------------------------------------
(* All participants that deem a session successful got the same key from   *)
(* it, however many attempts and sessions overlapped on the way: a state   *)
(* is used once, so all participants signed two certified transcripts in   *)
(* the same order, and who finalized the earlier never signed the later.   *)
Agreement == \A T, U \in keys : T = U

(* Recovery data can be of a session that nobody finalized, and then of    *)
(* another key than the one in use (Secp256k1.kt:801-803 does not say so). *)
(* It is always an older one: once a participant has deemed a session      *)
(* successful, no transcript with a later contribution of anybody is ever  *)
(* certified, so the transcript to prefer is the latest certified one.     *)
KeyIsLast ==
    \A U \in keys, T \in cmsgs2 : T = U \/ \A p \in Participants : T[p] < U[p]

(* Whatever a participant holds every participant has signed, so each one, *)
(* also one that has restarted since, can recover its share with its host  *)
(* secret key: the reason why that key must outlive the signature.         *)
SuccessIsSigned == \A p \in Holders : \A q \in Participants : seen[p] \in sigs[q]

Without(T) == {p \in Participants : ~(p \in Holders /\ seen[p] = T)}

(* When all acknowledgments of some recovery data verify, everybody has it *)
(* but those who have lost data since, one for each fault at most: also if *)
(* they have recovered since, from other data.                             *)
AcksMeanBackups ==
    \A T \in Transcripts : AcksVerify(T) => Cardinality(Without(T)) <= faults

(* A success of one becomes a success of all: a participant that missed    *)
(* the certificate, crashed, started again or lost its data ends with a    *)
(* key.                                                                    *)
SuccessSpreads == Holders # {} ~> Holders = Participants

Smooth ==
    []((\A p \in Participants : attempts[p] <= 1) /\ sessions <= 1 /\ faults = 0)

(* A session in which nothing fails and nobody starts again ends with a    *)
(* key.                                                                    *)
Completes == Smooth => <>(Holders = Participants)

(* The transcript of the key, once there is one.                           *)
Key == IF keys = {} THEN None ELSE CHOOSE T \in keys : TRUE

Held == [p \in Participants |-> IF p \in Holders THEN seen[p] ELSE None]

(* What the participants are promised.                                     *)
Agreed == INSTANCE DkgAgreement
    WITH signed <- sigs, certified <- cmsgs2, key <- Key, holds <- Held

(* The promise is kept: what is held everybody signed, and all that deem   *)
(* the key generation successful have one and the same key.                *)
OneKey == Agreed!Spec
=============================================================================
