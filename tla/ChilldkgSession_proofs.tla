----------------------- MODULE ChilldkgSession_proofs -----------------------
(***************************************************************************)
(* Agreement of ChillDKG sessions for any number of participants,          *)
(* attempts, sessions, crashes and losses, and the refinement of           *)
(* DkgAgreement.                                                           *)
(*                                                                         *)
(* The heart of it is NoCross: if p signed T and a later attempt of p is   *)
(* in U, then U was made after T; so no other participant can have signed  *)
(* U before an attempt of its own that is in T.  Two transcripts that all  *)
(* have signed are therefore ordered the same way by all, and Finalized    *)
(* puts whatever was finalized last in that order: nobody can recover a    *)
(* later one.                                                              *)
(***************************************************************************)
EXTENDS ChilldkgSession, FiniteSetTheorems, TLAPS

(* A transcript is made of contributions that were sent.                   *)
MadeBefore == \A T \in cmsgs1 : \A p \in Participants : T[p] <= attempts[p]

SignedSent == \A p \in Participants : sigs[p] \subseteq cmsgs1

(* An attempt signs at most one transcript, in its second step.            *)
OneEach ==
    \A p \in Participants : \A T, U \in sigs[p] : T[p] = U[p] => T = U

Unsigned ==
    \A p \in Participants :
        phase[p] = "state1" => \A T \in sigs[p] : T[p] < attempts[p]

Own ==
    \A p \in Participants :
        phase[p] = "state2" => seen[p] \in sigs[p] /\ seen[p][p] = attempts[p]

Certified == \A T \in cmsgs2 : \A p \in Participants : T \in sigs[p]

NoCross ==
    \A p, q \in Participants : \A T \in sigs[p], U \in sigs[q] :
        ~(T[p] < U[p] /\ U[q] < T[q])

HeldIsCertified == \A p \in Holders : seen[p] \in cmsgs2

(* Some participant finalized the key and has not started again.           *)
Finalized ==
    \A U \in keys :
        /\ U \in cmsgs2
        /\ \E p \in Participants :
              phase[p] \in {"success", "lost"} /\ U[p] = attempts[p]

(* Participants that acknowledged what they do not hold.                   *)
Forgot == {p \in Participants : \E T \in acks[p] : p \in Without(T)}

(* Whoever acknowledged anything has data or lost it, once for each fault. *)
Acknowledged ==
    /\ \A p \in Participants : acks[p] # {} => phase[p] \in {"success", "lost"}
    /\ Cardinality(Forgot) <= faults

IInv ==
    /\ TypeOK /\ MadeBefore /\ SignedSent /\ OneEach /\ Unsigned /\ Own
    /\ Certified /\ NoCross /\ HeldIsCertified /\ Finalized /\ Acknowledged

-----------------------------------------------------------------------------
LEMMA Initially == Init => IInv
<1> SUFFICES ASSUME Init PROVE IInv
  OBVIOUS
<1>1. TypeOK
  BY BoundsAssumption, NoneAssumption DEF Init, TypeOK, Phases
<1>2. MadeBefore /\ SignedSent /\ OneEach /\ Unsigned /\ Own /\ Certified /\ NoCross
  BY DEF Init, MadeBefore, SignedSent, OneEach, Unsigned, Own, Certified, NoCross
<1>3. HeldIsCertified /\ Finalized
  BY DEF Init, HeldIsCertified, Finalized, Holders
<1>4. Forgot = {}
  BY DEF Init, Forgot
<1>5. Acknowledged
  BY <1>4, FS_EmptySet DEF Init, Acknowledged
<1> QED
  BY <1>1, <1>2, <1>3, <1>5 DEF IInv

(* Counting those who forgot: nobody new, or one new for one more fault.   *)
LEMMA FewForgot ==
    ASSUME IInv, NEW F, NEW n \in Nat,
           \/ F \subseteq Forgot /\ faults <= n
           \/ \E p \in Participants : F \subseteq Forgot \cup {p} /\ faults + 1 <= n
    PROVE  Cardinality(F) <= n
<1>1. /\ IsFiniteSet(Forgot) /\ Cardinality(Forgot) \in Nat
      /\ Cardinality(Forgot) <= faults /\ faults \in Nat
  <2>1. IsFiniteSet(Forgot)
    BY ParticipantsAssumption, FS_Subset DEF Forgot
  <2> QED
    BY <2>1, FS_CardinalityType, BoundsAssumption DEF IInv, TypeOK, Acknowledged
<1>2. CASE F \subseteq Forgot /\ faults <= n
  <2>1. Cardinality(F) \in Nat /\ Cardinality(F) <= Cardinality(Forgot)
    BY <1>1, <1>2, FS_Subset, FS_CardinalityType
  <2> QED
    BY <1>1, <1>2, <2>1
<1>3. ASSUME NEW p \in Participants, F \subseteq Forgot \cup {p}, faults + 1 <= n
      PROVE  Cardinality(F) <= n
  <2> DEFINE G == Forgot \cup {p}
  <2>1. /\ IsFiniteSet(G)
        /\ Cardinality(G) = Cardinality(Forgot) \/ Cardinality(G) = Cardinality(Forgot) + 1
    BY <1>1, FS_AddElement
  <2>2. F \subseteq G
    BY <1>3
  <2> HIDE DEF G
  <2>3. Cardinality(F) \in Nat /\ Cardinality(G) \in Nat /\ Cardinality(F) <= Cardinality(G)
    BY <2>1, <2>2, FS_Subset, FS_CardinalityType
  <2> QED
    BY <1>1, <1>3, <2>1, <2>3
<1> QED
  BY <1>2, <1>3

(* A participant without a result has forgotten all it acknowledged, so    *)
(* its steps make nobody forget.                                           *)
LEMMA NobodyForgets ==
    ASSUME IInv, NEW p \in Participants, NEW where, NEW T,
           phase[p] # "success", Goes(p, where, T), UNCHANGED <<acks, faults>>
    PROVE  Cardinality(Forgot') <= faults'
<1>1. phase' = [phase EXCEPT ![p] = where] /\ seen' = [seen EXCEPT ![p] = T]
  BY DEF Goes
<1>2. ASSUME NEW q \in Forgot' PROVE q \in Forgot
  <2>1. PICK U \in acks[q] : q \in Without(U)'
    BY DEF Forgot
  <2>2. CASE q = p
    BY <2>1, <2>2 DEF Forgot, Without, Holders
  <2>3. CASE q # p
    BY <1>1, <2>1, <2>3 DEF Forgot, Without, Holders, IInv, TypeOK
  <2> QED
    BY <2>2, <2>3
<1>3. Forgot' \subseteq Forgot /\ faults' \in Nat /\ faults <= faults'
  BY <1>2, BoundsAssumption DEF IInv, TypeOK
<1> HIDE DEF Forgot
<1> QED
  BY <1>3, FewForgot

(* Steps that change neither results nor acknowledgments.                  *)
LEMMA SameResultsKeep ==
    ASSUME IInv, UNCHANGED <<phase, seen, acks>>, faults' \in 0..MaxFaults, faults <= faults'
    PROVE  Acknowledged' /\ Holders' = Holders
<1>1. Forgot' = Forgot
  BY DEF Forgot, Without, Holders
<1>2. Cardinality(Forgot') <= faults'
  <2>1. Forgot' \subseteq Forgot /\ faults' \in Nat
    BY <1>1, BoundsAssumption
  <2> HIDE DEF Forgot
  <2> QED
    BY <2>1, FewForgot
<1> QED
  BY <1>2 DEF Acknowledged, IInv, Holders

-----------------------------------------------------------------------------
(* A new attempt: its number is greater than any that was sent.            *)
LEMMA Step1Keeps ==
    ASSUME IInv, NEW p \in Participants, ParticipantStep1(p)
    PROVE  IInv'
<1> USE DEF IInv
<1>1. attempts' = [attempts EXCEPT ![p] = attempts[p] + 1]
      /\ attempts[p] \in 0..MaxAttempts /\ attempts[p] < MaxAttempts
      /\ phase[p] \notin {"success", "lost"}
      /\ phase' = [phase EXCEPT ![p] = "state1"] /\ seen' = [seen EXCEPT ![p] = None]
  BY DEF ParticipantStep1, TypeOK, Goes
<1>2. UNCHANGED <<state, sessions, cmsgs1, sigs, cmsgs2, keys, acks, faults>>
  BY DEF ParticipantStep1, messages, coordinatorVars
<1>3. TypeOK'
  BY <1>1, <1>2, BoundsAssumption DEF TypeOK, Phases
<1>4. Holders' = Holders /\ \A h \in Holders : seen'[h] = seen[h]
  BY <1>1 DEF Holders, TypeOK
<1>5. MadeBefore'
  BY <1>1, <1>2, BoundsAssumption DEF MadeBefore, TypeOK, Transcripts
<1>6. SignedSent' /\ OneEach' /\ Certified' /\ NoCross'
  BY <1>2 DEF SignedSent, OneEach, Certified, NoCross
<1>7. Unsigned'
  <2> SUFFICES ASSUME NEW q \in Participants, phase'[q] = "state1", NEW T \in sigs[q]
               PROVE  T[q] < attempts'[q]
    BY <1>2 DEF Unsigned
  <2>1. CASE q = p
    <3>1. T[p] <= attempts[p] /\ T \in Transcripts
      BY <2>1 DEF SignedSent, MadeBefore, TypeOK
    <3> QED
      BY <3>1, <2>1, <1>1 DEF TypeOK, Transcripts
  <2>2. CASE q # p
    BY <2>2, <1>1 DEF Unsigned, TypeOK
  <2> QED
    BY <2>1, <2>2
<1>8. Own'
  BY <1>1, <1>2 DEF Own, TypeOK
<1>9. HeldIsCertified'
  BY <1>2, <1>4 DEF HeldIsCertified
<1>10. Finalized'
  <2> SUFFICES ASSUME NEW U \in keys
               PROVE  /\ U \in cmsgs2
                      /\ \E q \in Participants :
                            phase'[q] \in {"success", "lost"} /\ U[q] = attempts'[q]
    BY <1>2 DEF Finalized
  <2>1. PICK q \in Participants : phase[q] \in {"success", "lost"} /\ U[q] = attempts[q]
    BY DEF Finalized
  <2>2. phase'[q] \in {"success", "lost"} /\ U[q] = attempts'[q]
    BY <1>1, <2>1 DEF TypeOK
  <2> QED
    BY <2>2 DEF Finalized
<1>11. Acknowledged'
  <2>1. Cardinality(Forgot') <= faults'
    BY <1>1, <1>2, NobodyForgets DEF ParticipantStep1
  <2> QED
    BY <1>1, <1>2, <2>1 DEF Acknowledged, TypeOK
<1> QED
  BY <1>3, <1>5, <1>6, <1>7, <1>8, <1>9, <1>10, <1>11

(* A new transcript is made of what was sent.                              *)
LEMMA CoordinatorStep1Keeps ==
    ASSUME IInv, NEW T \in Transcripts, CoordinatorStep1(T)
    PROVE  IInv'
<1> USE DEF IInv, CoordinatorStep1
<1>1. sessions' \in 1..MaxSessions
  BY BoundsAssumption DEF TypeOK
<1>2. TypeOK'
  BY <1>1 DEF TypeOK
<1>3. MadeBefore' /\ SignedSent'
  BY DEF MadeBefore, SignedSent
<1>4. OneEach' /\ Unsigned' /\ Own' /\ Certified' /\ NoCross'
  BY DEF OneEach, Unsigned, Own, Certified, NoCross
<1>5. HeldIsCertified' /\ Finalized' /\ Acknowledged'
  BY BoundsAssumption, SameResultsKeep DEF HeldIsCertified, Finalized, TypeOK
<1> QED
  BY <1>2, <1>3, <1>4, <1>5

(* A participant that gives up what it has in its hands: a fault, a crash, *)
(* or the loss of a result.                                                *)
LEMMA DropKeeps ==
    ASSUME IInv, NEW p \in Participants, NEW where \in {"out", "lost"},
           \/ where = "out" /\ phase[p] \in {"state1", "state2"} /\ faults <= faults'
           \/ where = "lost" /\ phase[p] = "success" /\ faults' = faults + 1,
           Goes(p, where, None), faults' \in 0..MaxFaults,
           UNCHANGED <<attempts, state, sessions, cmsgs1, sigs, cmsgs2, keys, acks>>
    PROVE  IInv'
<1> USE DEF IInv
<1>1. phase' = [phase EXCEPT ![p] = where] /\ seen' = [seen EXCEPT ![p] = None]
  BY DEF Goes
<1>2. TypeOK'
  BY <1>1 DEF TypeOK, Phases
<1>3. Holders' \subseteq Holders /\ \A h \in Holders' : seen'[h] = seen[h]
  BY <1>1 DEF Holders, TypeOK
<1>4. MadeBefore' /\ SignedSent' /\ OneEach' /\ Certified' /\ NoCross'
  BY DEF MadeBefore, SignedSent, OneEach, Certified, NoCross
<1>5. Unsigned' /\ Own'
  BY <1>1 DEF Unsigned, Own, TypeOK
<1>6. HeldIsCertified'
  BY <1>3 DEF HeldIsCertified
<1>7. \A q \in Participants :
          phase[q] \in {"success", "lost"} => phase'[q] \in {"success", "lost"}
  BY <1>1 DEF TypeOK
<1>8. Finalized'
  BY <1>7 DEF Finalized
<1>9. Forgot' \subseteq Forgot \cup {p}
  BY <1>1 DEF Forgot, Without, Holders, TypeOK
<1>10. where = "out" => p \notin Forgot'
  BY <1>1 DEF Acknowledged, Forgot
<1>11. Cardinality(Forgot') <= faults'
  <2>1. \/ Forgot' \subseteq Forgot /\ faults <= faults'
        \/ Forgot' \subseteq Forgot \cup {p} /\ faults + 1 <= faults'
    BY <1>9, <1>10, BoundsAssumption DEF TypeOK
  <2>2. faults' \in Nat
    BY BoundsAssumption
  <2> HIDE DEF Forgot
  <2> QED
    BY <2>1, <2>2, FewForgot
<1>12. Acknowledged'
  BY <1>7, <1>11 DEF Acknowledged
<1> QED
  BY <1>2, <1>4, <1>5, <1>6, <1>8, <1>12

(* A signature: the contribution it is about is the participant's latest,  *)
(* so no transcript has a later one and NoCross is kept.                   *)
LEMMA SignKeeps ==
    ASSUME IInv, NEW p \in Participants, NEW T \in cmsgs1,
           phase[p] = "state1", T[p] = attempts[p],
           Goes(p, "state2", T), sigs' = [sigs EXCEPT ![p] = @ \cup {T}],
           UNCHANGED <<attempts, state, sessions, cmsgs1, cmsgs2, keys, acks, faults>>
    PROVE  IInv'
<1> USE DEF IInv
<1>1. phase' = [phase EXCEPT ![p] = "state2"] /\ seen' = [seen EXCEPT ![p] = T]
  BY DEF Goes
<1>2. T \in Transcripts /\ T # None
  BY NoneAssumption DEF TypeOK
<1>3. TypeOK'
  BY <1>1, <1>2 DEF TypeOK, Phases
<1>4. Holders' = Holders /\ \A h \in Holders : seen'[h] = seen[h]
  BY <1>1 DEF Holders, TypeOK
<1>5. \A q \in Participants : sigs'[q] = IF q = p THEN sigs[q] \cup {T} ELSE sigs[q]
  BY DEF TypeOK
<1>6. MadeBefore' /\ SignedSent' /\ Certified' /\ HeldIsCertified'
  BY <1>4, <1>5 DEF MadeBefore, SignedSent, Certified, HeldIsCertified
<1>7. \A U \in sigs[p] : U[p] < T[p]
  BY DEF Unsigned
<1>8. \A q \in Participants : \A U \in sigs[q] :
          U \in Transcripts /\ U[p] <= T[p]
  BY DEF SignedSent, MadeBefore, TypeOK
<1>9. OneEach'
  <2> SUFFICES ASSUME NEW q \in Participants, NEW U \in sigs'[q], NEW V \in sigs'[q],
                      U[q] = V[q]
               PROVE  U = V
    BY DEF OneEach
  <2>1. \A W \in sigs[p] : W[p] # T[p]
    BY <1>2, <1>7, <1>8 DEF Transcripts
  <2> QED
    BY <1>5, <2>1 DEF OneEach
<1>10. Unsigned' /\ Own'
  BY <1>1, <1>5 DEF Unsigned, Own, TypeOK
<1>11. NoCross'
  <2> SUFFICES ASSUME NEW q \in Participants, NEW r \in Participants,
                      NEW U \in sigs'[q], NEW V \in sigs'[r],
                      U[q] < V[q], V[r] < U[r]
               PROVE  FALSE
    BY DEF NoCross
  <2>1. U \in Transcripts /\ V \in Transcripts /\ U[p] <= T[p] /\ V[p] <= T[p]
    BY <1>2, <1>5, <1>8 DEF Transcripts
  <2>2. CASE U \in sigs[q] /\ V \in sigs[r]
    BY <2>2 DEF NoCross
  <2>3. CASE q = p /\ U = T
    BY <2>1, <2>3, <1>2 DEF Transcripts
  <2>4. CASE r = p /\ V = T
    BY <2>1, <2>4, <1>2 DEF Transcripts
  <2> QED
    BY <1>5, <2>2, <2>3, <2>4
<1>12. \A q \in Participants :
          phase[q] \in {"success", "lost"} => phase'[q] \in {"success", "lost"}
  BY <1>1 DEF TypeOK
<1>13. Finalized'
  BY <1>12 DEF Finalized
<1>14. Acknowledged'
  <2>1. Cardinality(Forgot') <= faults'
    BY NobodyForgets
  <2> QED
    BY <1>12, <2>1 DEF Acknowledged
<1> QED
  BY <1>3, <1>6, <1>9, <1>10, <1>11, <1>13, <1>14

(* A participant that comes to hold certified data, from the certificate   *)
(* of its own latest attempt or by recovery.                               *)
LEMMA JoinKeeps ==
    ASSUME IInv, NEW p \in Participants, NEW T \in cmsgs2,
           phase[p] # "success", Goes(p, "success", T),
           keys' = keys \/ (keys' = keys \cup {T} /\ T[p] = attempts[p]),
           UNCHANGED <<attempts, state, sessions, cmsgs1, sigs, cmsgs2, acks, faults>>
    PROVE  IInv'
<1> USE DEF IInv
<1>1. phase' = [phase EXCEPT ![p] = "success"] /\ seen' = [seen EXCEPT ![p] = T]
  BY DEF Goes
<1>2. T \in Transcripts /\ T # None
  BY NoneAssumption DEF TypeOK
<1>3. TypeOK'
  BY <1>1, <1>2 DEF TypeOK, Phases
<1>4. Holders' = Holders \cup {p} /\ \A h \in Holders' : seen'[h] = IF h = p THEN T ELSE seen[h]
  BY <1>1 DEF Holders, TypeOK
<1>5. MadeBefore' /\ SignedSent' /\ OneEach' /\ Certified' /\ NoCross'
  BY DEF MadeBefore, SignedSent, OneEach, Certified, NoCross
<1>6. Unsigned' /\ Own'
  BY <1>1 DEF Unsigned, Own, TypeOK
<1>7. HeldIsCertified'
  BY <1>4 DEF HeldIsCertified
<1>8. \A q \in Participants :
          phase[q] \in {"success", "lost"} => phase'[q] \in {"success", "lost"}
  BY <1>1 DEF TypeOK
<1>9. phase'[p] = "success"
  BY <1>1 DEF TypeOK
<1>10. Finalized'
  <2> SUFFICES ASSUME NEW U \in keys'
               PROVE  U \in cmsgs2 /\ \E q \in Participants :
                          phase'[q] \in {"success", "lost"} /\ U[q] = attempts[q]
    BY DEF Finalized
  <2>1. CASE U \in keys
    BY <1>8, <2>1 DEF Finalized
  <2>2. CASE U = T /\ T[p] = attempts[p]
    BY <1>9, <2>2
  <2> QED
    BY <2>1, <2>2
<1>11. Acknowledged'
  <2>1. Cardinality(Forgot') <= faults'
    BY NobodyForgets
  <2> QED
    BY <1>8, <2>1 DEF Acknowledged
<1> QED
  BY <1>3, <1>5, <1>6, <1>7, <1>10, <1>11

LEMMA ParticipantStep2Keeps ==
    ASSUME IInv, NEW p \in Participants, NEW T \in cmsgs1, ParticipantStep2(p, T)
    PROVE  IInv'
<1>1. UNCHANGED <<attempts, state, sessions, cmsgs1, cmsgs2, keys, acks, faults>>
  BY DEF ParticipantStep2, coordinatorVars
<1>2. CASE T[p] = attempts[p]
  BY <1>1, <1>2, SignKeeps DEF ParticipantStep2
<1>3. CASE T[p] # attempts[p]
  BY <1>1, <1>3, DropKeeps, BoundsAssumption DEF ParticipantStep2, IInv, TypeOK
<1> QED
  BY <1>2, <1>3

LEMMA CoordinatorFinalizeKeeps ==
    ASSUME IInv, NEW s \in 1..MaxSessions, CoordinatorFinalize(s)
    PROVE  IInv'
<1> USE DEF IInv
<1>1. /\ UNCHANGED <<attempts, phase, seen, sessions, cmsgs1, sigs, keys, acks, faults>>
      /\ state' = [state EXCEPT ![s] = None] /\ state[s] # None
  BY DEF CoordinatorFinalize
<1>2. \/ cmsgs2' = cmsgs2
      \/ cmsgs2' = cmsgs2 \cup {state[s]} /\ \A p \in Participants : state[s] \in sigs[p]
  BY DEF CoordinatorFinalize
<1>3. state[s] \in Transcripts
  BY <1>1 DEF TypeOK
<1>4. TypeOK'
  BY <1>1, <1>2, <1>3 DEF TypeOK
<1>5. Certified'
  BY <1>1, <1>2 DEF Certified
<1>6. MadeBefore' /\ SignedSent' /\ OneEach' /\ Unsigned' /\ Own' /\ NoCross'
  BY <1>1 DEF MadeBefore, SignedSent, OneEach, Unsigned, Own, NoCross
<1>7. HeldIsCertified' /\ Finalized' /\ Acknowledged'
  <2>1. Acknowledged' /\ Holders' = Holders
    BY <1>1, SameResultsKeep, BoundsAssumption DEF TypeOK
  <2> QED
    BY <1>1, <1>2, <2>1 DEF HeldIsCertified, Finalized
<1> QED
  BY <1>4, <1>5, <1>6, <1>7

LEMMA ParticipantFinalizeKeeps ==
    ASSUME IInv, NEW p \in Participants, NEW T \in cmsgs2, ParticipantFinalize(p, T)
    PROVE  IInv'
<1>1. /\ UNCHANGED <<attempts, state, sessions, cmsgs1, sigs, cmsgs2, acks, faults>>
      /\ phase[p] = "state2"
  BY DEF ParticipantFinalize, coordinatorVars
<1>2. CASE T = seen[p]
  <2>1. T[p] = attempts[p]
    BY <1>1, <1>2 DEF IInv, Own
  <2>2. Goes(p, "success", T) /\ keys' = keys \cup {T}
    BY <1>2 DEF ParticipantFinalize
  <2> QED
    BY <1>1, <2>1, <2>2, JoinKeeps
<1>3. CASE T # seen[p]
  <2>1. Goes(p, "out", None) /\ UNCHANGED keys
    BY <1>3 DEF ParticipantFinalize
  <2> QED
    BY <1>1, <2>1, DropKeeps, BoundsAssumption DEF IInv, TypeOK
<1> QED
  BY <1>2, <1>3

LEMMA ParticipantRecoverKeeps ==
    ASSUME IInv, NEW p \in Participants, NEW T \in cmsgs2, ParticipantRecover(p, T)
    PROVE  IInv'
BY JoinKeeps DEF ParticipantRecover, coordinatorVars, messages

LEMMA RecoveryAckSignKeeps ==
    ASSUME IInv, NEW p \in Participants, RecoveryAckSign(p)
    PROVE  IInv'
<1> USE DEF IInv
<1>1. /\ UNCHANGED <<attempts, phase, seen, state, sessions, cmsgs1, sigs, cmsgs2, keys, faults>>
      /\ p \in Holders /\ acks' = [acks EXCEPT ![p] = @ \cup {seen[p]}]
  BY DEF RecoveryAckSign, coordinatorVars, Holders
<1>2. TypeOK'
  BY <1>1 DEF TypeOK, Holders
<1>3. MadeBefore' /\ SignedSent' /\ OneEach' /\ Unsigned' /\ Own' /\ Certified' /\ NoCross'
  BY <1>1 DEF MadeBefore, SignedSent, OneEach, Unsigned, Own, Certified, NoCross
<1>4. HeldIsCertified' /\ Finalized'
  BY <1>1 DEF HeldIsCertified, Finalized, Holders
<1>5. Cardinality(Forgot') <= faults'
  <2>1. p \notin Without(seen[p]) /\ Holders' = Holders
    BY <1>1 DEF Without, Holders
  <2>2. Forgot' \subseteq Forgot
    BY <1>1, <2>1 DEF Forgot, Without, TypeOK
  <2>3. faults' \in Nat /\ faults <= faults'
    BY <1>1, BoundsAssumption DEF TypeOK
  <2> HIDE DEF Forgot
  <2> QED
    BY <2>2, <2>3, FewForgot
<1>6. Acknowledged'
  BY <1>1, <1>5 DEF Acknowledged, Holders, TypeOK
<1> QED
  BY <1>2, <1>3, <1>4, <1>6

LEMMA FaultKeeps ==
    ASSUME IInv, Fault
    PROVE  IInv'
<1>1. faults' = faults + 1 /\ faults' \in 0..MaxFaults /\ faults <= faults'
  BY BoundsAssumption DEF Fault, CoordinatorCrash, Crash, LoseData, IInv, TypeOK
<1>2. CASE CoordinatorCrash
  <2> USE DEF IInv
  <2>1. /\ UNCHANGED <<attempts, phase, seen, sessions, cmsgs1, sigs, cmsgs2, keys, acks>>
        /\ state' = [s \in 1..MaxSessions |-> None]
    BY <1>2 DEF CoordinatorCrash, messages
  <2>2. TypeOK'
    BY <1>1, <2>1 DEF TypeOK
  <2>3. /\ MadeBefore' /\ SignedSent' /\ OneEach' /\ Unsigned' /\ Own'
        /\ Certified' /\ NoCross'
    BY <2>1 DEF MadeBefore, SignedSent, OneEach, Unsigned, Own, Certified, NoCross
  <2>4. HeldIsCertified' /\ Finalized' /\ Acknowledged'
    BY <1>1, <2>1, SameResultsKeep DEF HeldIsCertified, Finalized
  <2> QED
    BY <2>2, <2>3, <2>4
<1>3. ASSUME NEW p \in Participants, Crash(p) PROVE IInv'
  BY <1>1, <1>3, DropKeeps DEF Crash, coordinatorVars, messages
<1>4. ASSUME NEW p \in Participants, LoseData(p) PROVE IInv'
  BY <1>1, <1>4, DropKeeps DEF LoseData, coordinatorVars, messages
<1> QED
  BY <1>2, <1>3, <1>4 DEF Fault

LEMMA StutterKeeps == IInv /\ UNCHANGED vars => IInv'
BY DEF IInv, vars, TypeOK, MadeBefore, SignedSent, OneEach, Unsigned, Own,
       Certified, NoCross, HeldIsCertified, Finalized, Acknowledged, Forgot, Without, Holders

-----------------------------------------------------------------------------
(* IInv is an invariant of ChilldkgSession.                                *)
THEOREM Inductive == Spec => []IInv
<1>1. IInv /\ [Next]_vars => IInv'
  <2> SUFFICES ASSUME IInv, [Next]_vars PROVE IInv'
    OBVIOUS
  <2>1. ASSUME NEW T \in Transcripts, CoordinatorStep1(T) PROVE IInv'
    BY <2>1, CoordinatorStep1Keeps
  <2>2. ASSUME NEW s \in 1..MaxSessions, CoordinatorFinalize(s) PROVE IInv'
    BY <2>2, CoordinatorFinalizeKeeps
  <2>3. CASE Fault
    BY <2>3, FaultKeeps
  <2>4. ASSUME NEW p \in Participants, Participant(p) PROVE IInv'
    BY <2>4, Step1Keeps, ParticipantStep2Keeps, ParticipantFinalizeKeeps,
       ParticipantRecoverKeeps, RecoveryAckSignKeeps DEF Participant
  <2>5. CASE UNCHANGED vars
    BY <2>5, StutterKeeps
  <2> QED
    BY <2>1, <2>2, <2>3, <2>4, <2>5 DEF Next, Coordinator
<1> QED
  BY Initially, <1>1, PTL DEF Spec

(* The variables keep their types (of ChilldkgSession).                    *)
THEOREM SessionTypes == Spec => []TypeOK
<1>1. IInv => TypeOK
  BY DEF IInv
<1> QED
  BY Inductive, <1>1, PTL

(* What was finalized comes after everything else that is certified, in    *)
(* the contributions of every participant.                                 *)
LEMMA FinalizedIsLast ==
    ASSUME IInv, NEW U \in keys, NEW T \in cmsgs2, T # U, NEW q \in Participants
    PROVE  T[q] < U[q]
<1> USE DEF IInv
<1>1. PICK p \in Participants : phase[p] \in {"success", "lost"} /\ U[p] = attempts[p]
  BY DEF Finalized
<1>2. /\ \A r \in Participants : T \in sigs[r] /\ U \in sigs[r]
      /\ T \in Transcripts /\ U \in Transcripts
  BY DEF Certified, Finalized, TypeOK
<1>3. \A r \in Participants : T[r] # U[r] /\ T[r] \in Nat /\ U[r] \in Nat
  BY <1>2 DEF OneEach, Transcripts
<1>4. T[p] < U[p]
  <2>1. T[p] <= attempts[p] /\ attempts[p] \in Nat
    BY <1>2 DEF SignedSent, MadeBefore, TypeOK
  <2> QED
    BY <1>1, <1>3, <2>1
<1>5. ~(U[q] < T[q])
  BY <1>2, <1>4 DEF NoCross
<1> QED
  BY <1>3, <1>5

LEMMA OneFinalized ==
    ASSUME IInv, NEW T \in keys, NEW U \in keys
    PROVE  T = U
<1> SUFFICES ASSUME T # U PROVE FALSE
  OBVIOUS
<1>1. T \in cmsgs2 /\ U \in cmsgs2 /\ \E p \in Participants : TRUE
  BY DEF IInv, Finalized
<1>2. PICK p \in Participants : T[p] < U[p] /\ U[p] < T[p]
  BY <1>1, FinalizedIsLast
<1>3. T[p] \in Nat /\ U[p] \in Nat
  BY <1>1 DEF IInv, TypeOK, Transcripts
<1> QED
  BY <1>2, <1>3

LEMMA AgreementFollows == IInv => Agreement
BY OneFinalized DEF Agreement

(* All participants that deem a session successful got the same key, for   *)
(* any number of participants, attempts, sessions and faults.              *)
THEOREM SessionsAgree == Spec => []Agreement
BY Inductive, AgreementFollows, PTL

(* Nothing later than the key is ever certified, so recovery data is never *)
(* of a later key than the one the participants finalized.                 *)
THEOREM NothingLater == Spec => []KeyIsLast
<1>1. IInv => KeyIsLast
  BY FinalizedIsLast DEF KeyIsLast
<1> QED
  BY Inductive, <1>1, PTL

(* What a participant holds every participant has signed.                  *)
THEOREM HeldKeysAreSigned == Spec => []SuccessIsSigned
<1>1. IInv => SuccessIsSigned
  BY DEF IInv, SuccessIsSigned, HeldIsCertified, Certified
<1> QED
  BY Inductive, <1>1, PTL

(* When all acknowledgments verify, everybody has this recovery data but   *)
(* as many participants as there were faults.                              *)
THEOREM AcknowledgedIsBackedUp == Spec => []AcksMeanBackups
<1>1. IInv => AcksMeanBackups
  <2> SUFFICES ASSUME IInv, NEW T \in Transcripts, AcksVerify(T)
               PROVE  Cardinality(Without(T)) <= faults
    BY DEF AcksMeanBackups
  <2>1. Without(T) \subseteq Forgot
    BY DEF AcksVerify, Forgot, Without
  <2>2. faults \in Nat
    BY BoundsAssumption DEF IInv, TypeOK
  <2> QED
    BY <2>1, <2>2, FewForgot
<1> QED
  BY Inductive, <1>1, PTL

-----------------------------------------------------------------------------
(* The key is the one transcript that was finalized.                       *)
LEMMA KeyIsFinalized ==
    ASSUME IInv
    PROVE  (keys = {} => Key = None) /\ \A U \in keys : Key = U
<1>1. \A U \in keys : (CHOOSE T \in keys : TRUE) \in keys
  OBVIOUS
<1> QED
  BY <1>1, OneFinalized DEF Key

LEMMA SameView ==
    ASSUME UNCHANGED <<phase, seen>>
    PROVE  Held' = Held
BY DEF Held, Holders

(* Nothing changes for the others while one has no result to show.         *)
LEMMA ReleaseIsUnseen ==
    ASSUME IInv, NEW p \in Participants, NEW where, NEW T,
           phase[p] # "success", where # "success", Goes(p, where, T)
    PROVE  Held' = Held /\ Held[p] = None
BY DEF Held, Holders, Goes, IInv, TypeOK

LEMMA LossIsSeen ==
    ASSUME IInv, NEW p \in Participants, Goes(p, "lost", None)
    PROVE  Held' = [Held EXCEPT ![p] = None]
BY DEF Held, Holders, Goes, IInv, TypeOK

LEMMA JoinIsSeen ==
    ASSUME IInv, NEW p \in Participants, NEW T,
           phase[p] # "success", Goes(p, "success", T)
    PROVE  Held' = [Held EXCEPT ![p] = T] /\ Held[p] = None
BY DEF Held, Holders, Goes, IInv, TypeOK

LEMMA SameKey == UNCHANGED keys => Key' = Key
BY DEF Key

LEMMA ParticipantIsSeen ==
    ASSUME IInv, IInv', NEW p \in Participants, Participant(p)
    PROVE  [Agreed!Next]_(Agreed!vars)
<1> USE DEF Agreed!vars
<1>1. CASE ParticipantStep1(p)
  <2>1. UNCHANGED <<sigs, cmsgs2, keys>> /\ phase[p] # "success" /\ Goes(p, "state1", None)
    BY <1>1 DEF ParticipantStep1, messages
  <2> QED
    BY <2>1, ReleaseIsUnseen, SameKey
<1>2. ASSUME NEW T \in cmsgs1, ParticipantStep2(p, T) PROVE [Agreed!Next]_(Agreed!vars)
  <2>1. phase[p] = "state1" /\ UNCHANGED <<cmsgs2, keys>>
    BY <1>2 DEF ParticipantStep2
  <2>2. CASE T[p] = attempts[p]
    <3>1. Goes(p, "state2", T) /\ sigs' = [sigs EXCEPT ![p] = @ \cup {T}]
      BY <1>2, <2>2 DEF ParticipantStep2
    <3>2. Held' = Held /\ Held[p] = None /\ Key' = Key
      BY <2>1, <3>1, ReleaseIsUnseen, SameKey
    <3>3. T \in Transcripts
      BY DEF IInv, TypeOK
    <3>4. Agreed!Sign(p, T)
      BY <2>1, <3>1, <3>2 DEF Agreed!Sign
    <3> QED
      BY <3>3, <3>4 DEF Agreed!Next
  <2>3. CASE T[p] # attempts[p]
    <3>1. Goes(p, "out", None) /\ UNCHANGED sigs
      BY <1>2, <2>3 DEF ParticipantStep2
    <3> QED
      BY <2>1, <3>1, ReleaseIsUnseen, SameKey
  <2> QED
    BY <2>2, <2>3
<1>3. ASSUME NEW T \in cmsgs2, ParticipantFinalize(p, T) PROVE [Agreed!Next]_(Agreed!vars)
  <2>1. phase[p] = "state2" /\ UNCHANGED <<sigs, cmsgs2>>
    BY <1>3 DEF ParticipantFinalize
  <2>2. CASE T = seen[p]
    <3>1. Goes(p, "success", T) /\ keys' = keys \cup {T}
      BY <1>3, <2>2 DEF ParticipantFinalize
    <3>2. Held' = [Held EXCEPT ![p] = T] /\ Held[p] = None
      BY <2>1, <3>1, JoinIsSeen
    <3>3. \A U, V \in keys' : U = V
      <4>1. Agreement'
        BY AgreementFollows, PTL
      <4> QED
        BY <4>1 DEF Agreement
    <3>4. Key' = T
      <4>1. (CHOOSE U \in keys' : TRUE) \in keys' /\ T \in keys'
        BY <3>1
      <4> QED
        BY <3>3, <4>1 DEF Key
    <3>5. Key \in {None, T} /\ T \in Transcripts
      <4>1. \A U \in keys : U = T
        BY <3>1, <3>3
      <4> QED
        BY <4>1, KeyIsFinalized DEF IInv, TypeOK
    <3>6. Agreed!Finalize(p, T)
      BY <2>1, <3>2, <3>4, <3>5 DEF Agreed!Finalize
    <3> QED
      BY <3>5, <3>6 DEF Agreed!Next
  <2>3. CASE T # seen[p]
    <3>1. Goes(p, "out", None) /\ UNCHANGED keys
      BY <1>3, <2>3 DEF ParticipantFinalize
    <3> QED
      BY <2>1, <3>1, ReleaseIsUnseen, SameKey
  <2> QED
    BY <2>2, <2>3
<1>4. ASSUME NEW T \in cmsgs2, ParticipantRecover(p, T) PROVE [Agreed!Next]_(Agreed!vars)
  <2>1. /\ phase[p] # "success" /\ Goes(p, "success", T)
        /\ UNCHANGED <<sigs, cmsgs2, keys>>
    BY <1>4 DEF ParticipantRecover, messages
  <2>2. Held' = [Held EXCEPT ![p] = T] /\ Held[p] = None /\ Key' = Key
    BY <2>1, JoinIsSeen, SameKey
  <2>3. Agreed!Recover(p, T) /\ T \in Transcripts
    BY <2>1, <2>2 DEF Agreed!Recover, IInv, TypeOK
  <2> QED
    BY <2>3 DEF Agreed!Next
<1>5. CASE RecoveryAckSign(p)
  BY <1>5, SameView, SameKey DEF RecoveryAckSign
<1> QED
  BY <1>1, <1>2, <1>3, <1>4, <1>5 DEF Participant

LEMMA StepIsSeen == IInv /\ IInv' /\ [Next]_vars => [Agreed!Next]_(Agreed!vars)
<1> SUFFICES ASSUME IInv, IInv', [Next]_vars PROVE [Agreed!Next]_(Agreed!vars)
  OBVIOUS
<1> USE DEF Agreed!vars
<1>1. CASE (\E T \in Transcripts : CoordinatorStep1(T)) \/ CoordinatorCrash \/ UNCHANGED vars
  <2>1. UNCHANGED <<phase, seen, sigs, cmsgs2, keys>>
    BY <1>1 DEF CoordinatorStep1, CoordinatorCrash, messages, vars
  <2> QED
    BY <2>1, SameView, SameKey
<1>2. ASSUME NEW s \in 1..MaxSessions, CoordinatorFinalize(s) PROVE [Agreed!Next]_(Agreed!vars)
  <2>1. UNCHANGED <<sigs, Held, Key>> /\ state[s] \in Transcripts
    BY <1>2, SameView, SameKey DEF CoordinatorFinalize, IInv, TypeOK
  <2>2. \/ UNCHANGED cmsgs2
        \/ Agreed!Certify(state[s])
    BY <1>2, <2>1 DEF CoordinatorFinalize, Agreed!Certify
  <2> QED
    BY <2>1, <2>2 DEF Agreed!Next
<1>3. ASSUME NEW p \in Participants, Crash(p) PROVE [Agreed!Next]_(Agreed!vars)
  <2>1. /\ phase[p] # "success" /\ Goes(p, "out", None)
        /\ UNCHANGED <<sigs, cmsgs2, keys>>
    BY <1>3 DEF Crash, messages
  <2> QED
    BY <2>1, ReleaseIsUnseen, SameKey
<1>4. ASSUME NEW p \in Participants, LoseData(p) PROVE [Agreed!Next]_(Agreed!vars)
  <2>1. Goes(p, "lost", None) /\ UNCHANGED <<sigs, cmsgs2, keys>>
    BY <1>4 DEF LoseData, messages
  <2>2. Agreed!Lose(p)
    BY <2>1, LossIsSeen, SameKey DEF Agreed!Lose
  <2> QED
    BY <2>2 DEF Agreed!Next
<1>5. ASSUME NEW p \in Participants, Participant(p) PROVE [Agreed!Next]_(Agreed!vars)
  BY <1>5, ParticipantIsSeen
<1> QED
  BY <1>1, <1>2, <1>3, <1>4, <1>5 DEF Next, Coordinator, Fault

(* ChilldkgSession implements DkgAgreement, for every value of the         *)
(* constants: whatever is lost, repeated, crashed and tried again, one key *)
(* is finalized, it stays, and nothing uncertified is ever held.           *)
THEOREM ImplementsAgreement == Spec => OneKey
<1>1. Init => Agreed!Init
  BY DEF Init, Agreed!Init, Held, Holders, Key
<1>2. IInv /\ IInv' /\ [Next]_vars => [Agreed!Next]_(Agreed!vars)
  BY StepIsSeen
<1>3. Spec => Init /\ [][Next]_vars
  BY DEF Spec
<1> QED
  BY <1>1, <1>2, <1>3, Inductive, PTL DEF OneKey, Agreed!Spec
=============================================================================
