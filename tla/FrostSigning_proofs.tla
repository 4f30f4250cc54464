------------------------ MODULE FrostSigning_proofs ------------------------
(***************************************************************************)
(* For any group, any plan of tweaks and any number of nonces, sessions    *)
(* and faults: what a group signs, enough of its members agreed to sign,   *)
(* and another key than planned takes a failed call of every signer.       *)
(***************************************************************************)
EXTENDS FrostSigning, FiniteSetTheorems, TLAPS

(* A cache is longer than its owner knows by at most one tweak per fault.  *)
CacheBound == \A p \in Parties : Len(cache[p]) <= done[p] + faults

IInv == TypeOK /\ CacheBound

(* The key of a session.  The first tweaks of the plan are what a cache    *)
(* holds as long as no call fails.                                         *)
Prefix(n) == [i \in 1..n |-> Plan[i]]

OnPlan(p) == cache[p] = Prefix(done[p])

(* The parties that have another key than planned, or have told others     *)
(* about one: a member by a partial signature, the coordinator by a        *)
(* session.                                                                *)
Strays ==
    {p \in Parties :
        \/ ~OnPlan(p)
        \/ \E q \in psigs : q.who = p /\ q.session.tweaks # Plan
        \/ p = Coordinator /\ \E s \in announced : s.tweaks # Plan}

(* Each of them has had a failed call of its own.                          *)
StraysFailed == Cardinality(Strays) <= faults

(* What is signed, all signers have signed.                                *)
SignedByAll == \A s \in signed : \A m \in Signers(s) : PartialSigVerify(m, s)

KeyInv == StraysFailed /\ SignedByAll

-----------------------------------------------------------------------------
(* What a well-made session is made of.                                    *)
LEMMA SessionParts ==
    ASSUME NEW s, WellMade(s), NEW m \in Signers(s)
    PROVE  m \in Members /\ s.nonces[m] \in 1..MaxNonces
BY DEF WellMade, SignerSets

(* A sequence of tweaks that is not too long is a key.                     *)
LEMMA AppendIsKey ==
    ASSUME NEW q \in Keys, NEW k \in Kinds, Len(q) < Len(Plan) + MaxFaults
    PROVE  Append(q, k) \in Keys
<1>1. PICK n \in 0..(Len(Plan) + MaxFaults) : q \in [1..n -> Kinds]
  BY DEF Keys
<1>2. Len(Plan) \in Nat /\ MaxFaults \in Nat
  BY GroupAssumption
<1>3. q \in Seq(Kinds) /\ Len(q) = n
  BY <1>1, <1>2
<1>4. Append(q, k) \in [1..(n + 1) -> Kinds]
  <2>1. Append(q, k) \in Seq(Kinds) /\ Len(Append(q, k)) = n + 1
    BY <1>3
  <2>2. ASSUME NEW r \in Seq(Kinds) PROVE r \in [1..Len(r) -> Kinds]
    OBVIOUS
  <2> QED
    BY <2>1, <2>2
<1>5. n + 1 \in 0..(Len(Plan) + MaxFaults)
  BY <1>2, <1>3
<1> QED
  BY <1>4, <1>5 DEF Keys

LEMMA EmptyIsKey == <<>> \in Keys
<1>1. <<>> \in [1..0 -> Kinds]
  OBVIOUS
<1>2. 0 \in 0..(Len(Plan) + MaxFaults)
  BY GroupAssumption
<1> QED
  BY <1>1, <1>2 DEF Keys

LEMMA InitIInv == Init => IInv
<1> SUFFICES ASSUME Init PROVE IInv
  OBVIOUS
<1>1. Len(Plan) \in Nat /\ MaxFaults \in Nat /\ MaxNonces \in Nat
  BY GroupAssumption
<1>2. TypeOK
  BY <1>1, EmptyIsKey DEF Init, TypeOK
<1>3. CacheBound
  BY <1>1 DEF Init, CacheBound
<1> QED
  BY <1>2, <1>3 DEF IInv

(* A tweak, counted by its owner or not.                                   *)
LEMMA TweakIInv ==
    ASSUME IInv, NEW p \in Parties, TweakAdd(p) \/ TweakThrows(p)
    PROVE  IInv'
<1>1. /\ Len(Plan) \in Nat /\ MaxFaults \in Nat
      /\ done[p] \in 0..Len(Plan) /\ done[p] < Len(Plan)
      /\ faults \in 0..MaxFaults /\ cache[p] \in Keys
      /\ cache \in [Parties -> Keys] /\ done \in [Parties -> 0..Len(Plan)]
  BY GroupAssumption DEF IInv, TypeOK, TweakAdd, TweakThrows, Tweak
<1> DEFINE k == Plan[done[p] + 1]
<1>2. k \in Kinds
  BY <1>1, GroupAssumption
<1>3. /\ cache' = [cache EXCEPT ![p] = Append(@, k)]
      /\ UNCHANGED <<made, held, announced, open, psigs, signed>>
  BY DEF TweakAdd, TweakThrows, Tweak
<1>4. \/ done' = [done EXCEPT ![p] = @ + 1] /\ faults' = faults
      \/ done' = done /\ faults' = faults + 1 /\ faults < MaxFaults
  BY DEF TweakAdd, TweakThrows, Fault
<1>5. Len(cache[p]) <= done[p] + faults /\ Len(cache[p]) < Len(Plan) + MaxFaults
  BY <1>1 DEF IInv, CacheBound, Keys
<1>6. cache' \in [Parties -> Keys]
  BY <1>1, <1>2, <1>3, <1>5, AppendIsKey
<1>7. done' \in [Parties -> 0..Len(Plan)] /\ faults' \in 0..MaxFaults
  BY <1>1, <1>4
<1>8. TypeOK'
  BY <1>3, <1>6, <1>7 DEF IInv, TypeOK, WellMade
<1>9. CacheBound'
  <2> SUFFICES ASSUME NEW q \in Parties
               PROVE  Len(cache'[q]) <= done'[q] + faults'
    BY DEF CacheBound, Parties
  <2>1. /\ Len(cache[q]) <= done[q] + faults /\ Len(cache[q]) \in Nat
        /\ done[q] \in Nat /\ faults \in Nat
    BY <1>1 DEF IInv, CacheBound, Keys
  <2>2. CASE q = p
    <3>1. Len(cache'[p]) = Len(cache[p]) + 1
      BY <1>1, <1>2, <1>3 DEF Keys
    <3> QED
      BY <1>1, <1>4, <2>1, <2>2, <3>1
  <2>3. CASE q # p
    BY <1>1, <1>3, <1>4, <2>1, <2>3
  <2> QED
    BY <2>2, <2>3
<1> QED
  BY <1>8, <1>9 DEF IInv

LEMMA NonceGenIInv == ASSUME IInv, NEW m \in Members, NonceGen(m) PROVE IInv'
<1>1. /\ MaxNonces \in Nat /\ made[m] \in 0..MaxNonces /\ made[m] < MaxNonces
      /\ made \in [Members -> 0..MaxNonces]
      /\ held \in [Members -> SUBSET (1..MaxNonces)]
  BY GroupAssumption DEF IInv, TypeOK, NonceGen
<1>2. /\ made' = [made EXCEPT ![m] = @ + 1]
      /\ held' = [held EXCEPT ![m] = @ \cup {made[m] + 1}]
      /\ UNCHANGED <<cache, done, announced, open, psigs, signed, faults>>
  BY <1>1 DEF NonceGen
<1>3. made' \in [Members -> 0..MaxNonces]
  BY <1>1, <1>2
<1>4. held' \in [Members -> SUBSET (1..MaxNonces)]
  BY <1>1, <1>2
<1>5. TypeOK'
  BY <1>2, <1>3, <1>4 DEF IInv, TypeOK, WellMade
<1>6. CacheBound'
  BY <1>2 DEF IInv, CacheBound
<1> QED
  BY <1>5, <1>6 DEF IInv

(* The session has enough signers, and the caches are not touched.         *)
LEMMA SessionInitIInv ==
    ASSUME IInv, NEW S \in SUBSET Members, NEW nonces \in [S -> 1..MaxNonces],
           NEW msg \in Messages, SessionInit(S, nonces, msg)
    PROVE  IInv'
<1> DEFINE s == Session(nonces, cache[Coordinator], msg)
<1>1. /\ announced' = announced \cup {s} /\ open' = open \cup {s}
      /\ UNCHANGED <<made, held, cache, done, psigs, signed, faults>>
      /\ Cardinality(S) >= Threshold
  BY DEF SessionInit, SessionInitWith
<1>2. WellMade(s)
  <2>1. Signers(s) = S /\ s.nonces = nonces /\ s.msg = msg /\ s.tweaks = cache[Coordinator]
    BY DEF Session, Signers
  <2>2. cache[Coordinator] \in Keys
    BY DEF IInv, TypeOK, Parties
  <2> QED
    BY <1>1, <2>1, <2>2 DEF WellMade, SignerSets
<1>3. TypeOK'
  <2>1. \A t \in announced' : WellMade(t)
    BY <1>1, <1>2 DEF IInv, TypeOK
  <2>2. open' \subseteq announced' /\ signed' \subseteq announced'
    BY <1>1 DEF IInv, TypeOK
  <2> QED
    BY <1>1, <2>1, <2>2 DEF IInv, TypeOK
<1> QED
  BY <1>1, <1>3 DEF IInv, CacheBound

(* A partial signature is made in the session of its signer.               *)
LEMMA SignIInv ==
    ASSUME IInv, NEW s \in announced, NEW m \in Members, Sign(m, s)
    PROVE  IInv'
<1> DEFINE t == Own(m, s)
           k == s.nonces[m]
           x == [who |-> m, session |-> t]
<1>1. /\ m \in Signers(s) /\ k \in held[m]
      /\ psigs' = psigs \cup {x}
      /\ UNCHANGED <<made, held, cache, done, announced, open, signed, faults>>
  BY DEF Sign, CanSign
<1>2. WellMade(s) /\ cache[m] \in Keys
  BY DEF IInv, TypeOK, Parties
<1>3. /\ t.nonces = s.nonces /\ t.tweaks = cache[m] /\ t.msg = s.msg
      /\ Signers(t) = Signers(s)
  BY DEF Own, Session, Signers
<1>4. WellMade(t)
  BY <1>2, <1>3 DEF WellMade
<1>6. TypeOK'
  <2>1. \A p \in psigs' : p.who \in Signers(p.session) /\ WellMade(p.session)
    BY <1>1, <1>3, <1>4 DEF IInv, TypeOK
  <2> QED
    BY <1>1, <2>1 DEF IInv, TypeOK
<1>7. CacheBound'
  BY <1>1 DEF IInv, CacheBound
<1> QED
  BY <1>6, <1>7 DEF IInv

LEMMA AggIInv == ASSUME IInv, NEW s \in open, PartialSigAgg(s) PROVE IInv'
<1>1. /\ signed' = signed \cup {s}
      /\ UNCHANGED <<made, held, cache, done, announced, open, psigs, faults>>
  BY DEF PartialSigAgg
<1>2. TypeOK'
  BY <1>1 DEF IInv, TypeOK, WellMade
<1> QED
  BY <1>1, <1>2 DEF IInv, CacheBound

(* A restart empties the cache of one party.                               *)
LEMMA RestartBound ==
    ASSUME IInv, NEW p \in Parties, Restarted(p)
    PROVE  /\ cache' \in [Parties -> Keys] /\ done' \in [Parties -> 0..Len(Plan)]
           /\ faults' \in 0..MaxFaults /\ CacheBound'
<1>1. /\ cache' = [cache EXCEPT ![p] = <<>>] /\ done' = [done EXCEPT ![p] = 0]
      /\ faults' = faults + 1 /\ faults < MaxFaults
      /\ faults \in 0..MaxFaults /\ MaxFaults \in Nat /\ Len(Plan) \in Nat
      /\ cache \in [Parties -> Keys] /\ done \in [Parties -> 0..Len(Plan)]
  BY GroupAssumption DEF Restarted, Fault, IInv, TypeOK
<1>2. /\ cache' \in [Parties -> Keys] /\ done' \in [Parties -> 0..Len(Plan)]
      /\ faults' \in 0..MaxFaults
  BY <1>1, EmptyIsKey
<1>3. CacheBound'
  <2> SUFFICES ASSUME NEW q \in Parties
               PROVE  Len(cache'[q]) <= done'[q] + faults'
    BY DEF CacheBound, Parties
  <2>1. /\ Len(cache[q]) <= done[q] + faults /\ Len(cache[q]) \in Nat
        /\ done[q] \in Nat
    BY <1>1 DEF IInv, CacheBound, Keys
  <2>2. CASE q = p
    BY <1>1, <2>2
  <2>3. CASE q # p
    BY <1>1, <2>1, <2>3
  <2> QED
    BY <2>2, <2>3
<1> QED
  BY <1>2, <1>3

LEMMA CrashIInv == ASSUME IInv, NEW m \in Members, Crash(m) PROVE IInv'
<1>1. Restarted(m) /\ m \in Parties
  BY DEF Crash, Parties
<1>2. /\ held' = [held EXCEPT ![m] = {}]
      /\ UNCHANGED <<made, announced, open, psigs, signed>>
  BY DEF Crash
<1>3. TypeOK'
  BY <1>1, <1>2, RestartBound DEF IInv, TypeOK, WellMade
<1> QED
  BY <1>1, <1>3, RestartBound DEF IInv

LEMMA CoordinatorCrashIInv == ASSUME IInv, CoordinatorCrash PROVE IInv'
<1>1. Restarted(Coordinator) /\ Coordinator \in Parties
  BY DEF CoordinatorCrash, Parties
<1>2. open' = {} /\ UNCHANGED <<made, held, announced, psigs, signed>>
  BY DEF CoordinatorCrash
<1>3. TypeOK'
  BY <1>1, <1>2, RestartBound DEF IInv, TypeOK, WellMade
<1> QED
  BY <1>1, <1>2, <1>3, RestartBound DEF IInv

LEMMA NextIInv == IInv /\ [Next]_vars => IInv'
<1> SUFFICES ASSUME IInv, [Next]_vars PROVE IInv'
  OBVIOUS
<1>1. ASSUME NEW p \in Parties, TweakAdd(p) \/ TweakThrows(p) PROVE IInv'
  BY <1>1, TweakIInv
<1>2. ASSUME NEW m \in Members, Member(m) PROVE IInv'
  BY <1>2, NonceGenIInv, SignIInv, CrashIInv DEF Member
<1>3. ASSUME NEW S \in SUBSET Members, NEW nonces \in [S -> 1..MaxNonces],
             NEW msg \in Messages, SessionInit(S, nonces, msg)
      PROVE  IInv'
  BY <1>3, SessionInitIInv
<1>4. ASSUME NEW s \in open, PartialSigAgg(s) PROVE IInv'
  BY <1>4, AggIInv
<1>5. CASE CoordinatorCrash
  BY <1>5, CoordinatorCrashIInv
<1>6. CASE UNCHANGED vars
  BY <1>6 DEF vars, IInv, TypeOK, WellMade, CacheBound
<1> QED
  BY <1>1, <1>2, <1>3, <1>4, <1>5, <1>6 DEF Next

(* The invariant holds in every state of every run.                        *)
THEOREM Inductive == Spec => []IInv
BY InitIInv, NextIInv, PTL DEF Spec

-----------------------------------------------------------------------------
(* The state of the group keeps its type.                                  *)
THEOREM GroupTypes == Spec => []TypeOK
<1>1. IInv => TypeOK
  BY DEF IInv
<1> QED
  BY <1>1, Inductive, PTL

-----------------------------------------------------------------------------
(* The key.                                                                *)

LEMMA PrefixGrows ==
    ASSUME NEW n \in Nat, n < Len(Plan)
    PROVE  Append(Prefix(n), Plan[n + 1]) = Prefix(n + 1)
<1>1. Plan \in Seq(Kinds) /\ Len(Plan) \in Nat
  BY GroupAssumption
<1>2. \A i \in 1..(n + 1) : Plan[i] \in Kinds
  BY <1>1
<1>3. Prefix(n) \in Seq(Kinds) /\ Len(Prefix(n)) = n /\ \A i \in 1..n : Prefix(n)[i] = Plan[i]
  <2>1. Prefix(n) \in [1..n -> Kinds]
    BY <1>2 DEF Prefix
  <2> QED
    BY <2>1 DEF Prefix
<1>4. /\ Prefix(n + 1) \in [1..(n + 1) -> Kinds]
      /\ \A i \in 1..(n + 1) : Prefix(n + 1)[i] = Plan[i]
  BY <1>2 DEF Prefix
<1> DEFINE grown == Append(Prefix(n), Plan[n + 1])
<1>5. /\ grown \in [1..(n + 1) -> Kinds]
      /\ \A i \in 1..n : grown[i] = Prefix(n)[i]
      /\ grown[n + 1] = Plan[n + 1]
  <2>1. Plan[n + 1] \in Kinds
    BY <1>2
  <2>2. grown \in Seq(Kinds) /\ Len(grown) = n + 1
    BY <1>3, <2>1
  <2>3. ASSUME NEW r \in Seq(Kinds) PROVE r \in [1..Len(r) -> Kinds]
    OBVIOUS
  <2>4. grown \in [1..(n + 1) -> Kinds]
    BY <2>2, <2>3
  <2> QED
    BY <1>3, <2>1, <2>4
<1> HIDE DEF grown
<1>6. \A i \in 1..(n + 1) : grown[i] = Prefix(n + 1)[i]
  BY <1>3, <1>4, <1>5
<1>7. grown = Prefix(n + 1)
  BY <1>4, <1>5, <1>6
<1> QED
  BY <1>7 DEF grown

LEMMA PrefixEnds == Prefix(0) = <<>> /\ Prefix(Len(Plan)) = Plan
<1>1. Plan \in Seq(Kinds)
  BY GroupAssumption
<1>2. Prefix(0) = <<>>
  BY DEF Prefix
<1>3. Prefix(Len(Plan)) = Plan
  BY <1>1 DEF Prefix
<1> QED
  BY <1>2, <1>3

LEMMA StraysFinite == IsFiniteSet(Strays) /\ Cardinality(Strays) \in Nat
<1>1. IsFiniteSet(Parties)
  BY GroupAssumption, FS_AddElement DEF Parties
<1>2. Strays \in SUBSET Parties
  BY DEF Strays
<1> QED
  BY <1>1, <1>2, FS_Subset, FS_CardinalityType

(* A step that leads nobody astray, and one that leads one party astray    *)
(* and is a fault.                                                         *)
LEMMA NoNewStray ==
    ASSUME TypeOK, TypeOK', StraysFailed, Strays' \subseteq Strays,
           faults' \in {faults, faults + 1}
    PROVE  StraysFailed'
<1>1. IsFiniteSet(Strays) /\ Cardinality(Strays) \in Nat
  BY StraysFinite
<1>2. Cardinality(Strays') <= Cardinality(Strays) /\ Cardinality(Strays') \in Nat
  BY <1>1, FS_Subset, FS_CardinalityType
<1>3. faults \in Nat
  BY GroupAssumption DEF TypeOK
<1> QED
  BY <1>1, <1>2, <1>3 DEF StraysFailed

LEMMA OneNewStray ==
    ASSUME TypeOK, StraysFailed, NEW p, Strays' \subseteq Strays \cup {p},
           faults' = faults + 1
    PROVE  StraysFailed'
<1>1. IsFiniteSet(Strays) /\ Cardinality(Strays) \in Nat
  BY StraysFinite
<1>2. /\ IsFiniteSet(Strays \cup {p})
      /\ Cardinality(Strays \cup {p}) \in Nat
      /\ Cardinality(Strays \cup {p}) <= Cardinality(Strays) + 1
  <2>1. /\ IsFiniteSet(Strays \cup {p})
        /\ Cardinality(Strays \cup {p}) =
              IF p \in Strays THEN Cardinality(Strays) ELSE Cardinality(Strays) + 1
    BY <1>1, FS_AddElement
  <2>2. Cardinality(Strays) \in Nat
    BY <1>1
  <2> QED
    BY <2>1, <2>2
<1>3. /\ Cardinality(Strays') <= Cardinality(Strays \cup {p})
      /\ Cardinality(Strays') \in Nat
  BY <1>2, FS_Subset, FS_CardinalityType
<1>4. faults \in Nat
  BY GroupAssumption DEF TypeOK
<1> QED
  BY <1>1, <1>2, <1>3, <1>4 DEF StraysFailed

(* A party that is ready and not astray has the planned key.               *)
LEMMA ReadyOnPlan ==
    ASSUME NEW p \in Parties, Ready(p), p \notin Strays
    PROVE  cache[p] = Plan
BY PrefixEnds DEF Strays, OnPlan, Ready

LEMMA TweakStrays ==
    ASSUME TypeOK, TypeOK', StraysFailed, NEW p \in Parties, TweakAdd(p) \/ TweakThrows(p)
    PROVE  StraysFailed'
<1>1. /\ done[p] \in Nat /\ done[p] < Len(Plan)
      /\ done \in [Parties -> 0..Len(Plan)] /\ cache \in [Parties -> Keys]
      /\ cache' = [cache EXCEPT ![p] = Append(@, Plan[done[p] + 1])]
      /\ psigs' = psigs /\ announced' = announced
  BY GroupAssumption DEF TypeOK, TweakAdd, TweakThrows, Tweak
<1>2. CASE TweakAdd(p)
  <2>1. done' = [done EXCEPT ![p] = @ + 1] /\ faults' = faults
    BY <1>2 DEF TweakAdd
  <2>2. OnPlan(p) => OnPlan(p)'
    BY <1>1, <2>1, PrefixGrows DEF OnPlan
  <2>3. ASSUME NEW q \in Parties, q # p PROVE OnPlan(q)' <=> OnPlan(q)
    BY <1>1, <2>1, <2>3 DEF OnPlan
  <2>4. Strays' \subseteq Strays
    BY <1>1, <2>2, <2>3 DEF Strays
  <2> QED
    BY <2>1, <2>4, NoNewStray
<1>3. CASE TweakThrows(p)
  <2>1. done' = done /\ faults' = faults + 1
    BY <1>3 DEF TweakThrows, Fault
  <2>2. ASSUME NEW q \in Parties, q # p PROVE OnPlan(q)' <=> OnPlan(q)
    BY <1>1, <2>1, <2>2 DEF OnPlan
  <2>3. Strays' \subseteq Strays \cup {p}
    BY <1>1, <2>2 DEF Strays
  <2> QED
    BY <2>1, <2>3, OneNewStray
<1> QED
  BY <1>2, <1>3

(* A session, and a partial signature, tell others about the key that the  *)
(* coordinator, or the member, has.                                        *)
LEMMA SessionInitStrays ==
    ASSUME TypeOK, TypeOK', StraysFailed, NEW S, NEW nonces, NEW msg,
           SessionInit(S, nonces, msg)
    PROVE  StraysFailed'
<1> DEFINE s == Session(nonces, cache[Coordinator], msg)
<1>1. /\ Ready(Coordinator) /\ announced' = announced \cup {s}
      /\ UNCHANGED <<cache, done, psigs, faults>>
  BY DEF SessionInit, SessionInitWith
<1>2. s.tweaks = cache[Coordinator] /\ Coordinator \in Parties
  BY DEF Session, Parties
<1>3. s.tweaks # Plan => Coordinator \in Strays
  BY <1>1, <1>2, ReadyOnPlan
<1> HIDE DEF s
<1>4. \A p \in Parties : OnPlan(p)' <=> OnPlan(p)
  BY <1>1 DEF OnPlan
<1>5. Strays' \subseteq Strays
  BY <1>1, <1>3, <1>4 DEF Strays
<1> QED
  BY <1>1, <1>5, NoNewStray

LEMMA SignStrays ==
    ASSUME TypeOK, TypeOK', StraysFailed, NEW s \in announced, NEW m \in Members,
           Sign(m, s)
    PROVE  StraysFailed'
<1> DEFINE x == [who |-> m, session |-> Own(m, s)]
<1>1. /\ Ready(m) /\ psigs' = psigs \cup {x}
      /\ UNCHANGED <<cache, done, announced, faults>>
  BY DEF Sign
<1>2. m \in Parties /\ x.who = m /\ x.session.tweaks = cache[m]
  BY DEF Parties, Own, Session
<1>3. x.session.tweaks # Plan => m \in Strays
  BY <1>1, <1>2, ReadyOnPlan
<1> HIDE DEF x
<1>4. \A p \in Parties : OnPlan(p)' <=> OnPlan(p)
  BY <1>1 DEF OnPlan
<1>5. Strays' \subseteq Strays
  BY <1>1, <1>2, <1>3, <1>4 DEF Strays
<1> QED
  BY <1>1, <1>5, NoNewStray

(* Whoever starts again, starts on the plan.                               *)
LEMMA RestartStrays ==
    ASSUME TypeOK, TypeOK', StraysFailed, NEW p \in Parties, Restarted(p),
           psigs' = psigs, announced' = announced
    PROVE  StraysFailed'
<1>1. /\ cache' = [cache EXCEPT ![p] = <<>>] /\ done' = [done EXCEPT ![p] = 0]
      /\ faults' = faults + 1
  BY DEF Restarted, Fault
<1>2. OnPlan(p)'
  BY <1>1, PrefixEnds DEF OnPlan, TypeOK
<1>3. ASSUME NEW q \in Parties, q # p PROVE OnPlan(q)' <=> OnPlan(q)
  BY <1>1, <1>3 DEF OnPlan
<1>4. Strays' \subseteq Strays
  BY <1>2, <1>3 DEF Strays
<1> QED
  BY <1>1, <1>4, NoNewStray

LEMMA QuietStrays ==
    ASSUME TypeOK, TypeOK', StraysFailed, UNCHANGED <<cache, done, announced, psigs>>,
           faults' \in {faults, faults + 1}
    PROVE  StraysFailed'
<1>1. Strays' = Strays
  BY DEF Strays, OnPlan
<1> QED
  BY <1>1, NoNewStray

LEMMA InitKeyInv == Init => KeyInv
<1> SUFFICES ASSUME Init PROVE KeyInv
  OBVIOUS
<1>1. Strays = {}
  BY PrefixEnds DEF Init, Strays, OnPlan
<1> QED
  BY <1>1, FS_EmptySet DEF Init, KeyInv, StraysFailed, SignedByAll

LEMMA NextKeyInv ==
    ASSUME TypeOK, TypeOK', KeyInv, [Next]_vars
    PROVE  KeyInv'
<1>1. StraysFailed
  BY DEF KeyInv
<1>2. psigs \subseteq psigs'
  BY DEF Next, vars, Member, TweakAdd, TweakThrows, Tweak, NonceGen, Sign,
         Crash, SessionInit, SessionInitWith, PartialSigAgg, CoordinatorCrash
<1>3. SignedByAll'
  <2> SUFFICES ASSUME NEW s \in signed', NEW m \in Signers(s)
               PROVE  [who |-> m, session |-> s] \in psigs'
    BY DEF SignedByAll, PartialSigVerify
  <2>1. s \in signed \/ \E t \in open : PartialSigAgg(t) /\ s = t
    BY DEF Next, vars, Member, TweakAdd, TweakThrows, Tweak, NonceGen, Sign,
           Crash, SessionInit, SessionInitWith, PartialSigAgg, CoordinatorCrash
  <2>2. [who |-> m, session |-> s] \in psigs
    BY <2>1 DEF PartialSigAgg, PartialSigVerify, KeyInv, SignedByAll
  <2> QED
    BY <1>2, <2>2
<1>4. StraysFailed'
  <2>1. ASSUME NEW p \in Parties, TweakAdd(p) \/ TweakThrows(p) PROVE StraysFailed'
    BY <1>1, <2>1, TweakStrays
  <2>2. ASSUME NEW m \in Members, NonceGen(m) PROVE StraysFailed'
    BY <1>1, <2>2, QuietStrays DEF NonceGen
  <2>3. ASSUME NEW m \in Members, NEW s \in announced, Sign(m, s) PROVE StraysFailed'
    BY <1>1, <2>3, SignStrays
  <2>5. ASSUME NEW m \in Members, Crash(m) PROVE StraysFailed'
    BY <1>1, <2>5, RestartStrays DEF Crash, Parties
  <2>6. ASSUME NEW S, NEW nonces, NEW msg, SessionInit(S, nonces, msg) PROVE StraysFailed'
    BY <1>1, <2>6, SessionInitStrays
  <2>7. ASSUME NEW s \in open, PartialSigAgg(s) PROVE StraysFailed'
    BY <1>1, <2>7, QuietStrays DEF PartialSigAgg
  <2>8. CASE CoordinatorCrash
    BY <1>1, <2>8, RestartStrays DEF CoordinatorCrash, Parties
  <2>9. CASE UNCHANGED vars
    BY <1>1, <2>9, QuietStrays DEF vars
  <2> QED
    BY <2>1, <2>2, <2>3, <2>5, <2>6, <2>7, <2>8, <2>9 DEF Next, Member
<1> QED
  BY <1>3, <1>4 DEF KeyInv

(* The signers of a session with another key are strays, and so is the     *)
(* coordinator that announced it.                                          *)
LEMMA SignersStray == TypeOK /\ KeyInv => KeyIsPlanned
<1> SUFFICES ASSUME TypeOK, KeyInv, NEW s \in signed, s.tweaks # Plan
             PROVE  faults > Cardinality(Signers(s))
  BY DEF KeyIsPlanned
<1>1. s \in announced /\ WellMade(s)
  BY DEF TypeOK
<1>2. Signers(s) \subseteq Members /\ Coordinator \notin Signers(s)
  BY <1>1, GroupAssumption DEF WellMade, SignerSets
<1>3. IsFiniteSet(Signers(s))
  BY <1>2, GroupAssumption, FS_Subset
<1> DEFINE all == Signers(s) \cup {Coordinator}
<1>4. all \subseteq Strays
  <2>1. ASSUME NEW m \in Signers(s) PROVE m \in Strays
    <3>1. [who |-> m, session |-> s] \in psigs
      BY DEF KeyInv, SignedByAll, PartialSigVerify
    <3> QED
      BY <1>2, <3>1 DEF Strays, Parties
  <2>2. Coordinator \in Strays
    BY <1>1 DEF Strays, Parties
  <2> QED
    BY <2>1, <2>2
<1>5. /\ Cardinality(all) = Cardinality(Signers(s)) + 1
      /\ Cardinality(Signers(s)) \in Nat
  BY <1>2, <1>3, FS_AddElement, FS_CardinalityType
<1>6. Cardinality(all) <= Cardinality(Strays) /\ Cardinality(Strays) \in Nat
  BY <1>4, StraysFinite, FS_Subset
<1>7. Cardinality(Strays) <= faults /\ faults \in Nat
  BY GroupAssumption DEF KeyInv, StraysFailed, TypeOK
<1> QED
  BY <1>5, <1>6, <1>7

(* A signature under another key than planned takes a failed call of each  *)
(* signer and one of the coordinator, however the caches got their tweaks. *)
THEOREM KeysArePlanned == Spec => []KeyIsPlanned
<1>1. TypeOK /\ TypeOK' /\ KeyInv /\ [Next]_vars => KeyInv'
  BY NextKeyInv
<1> QED
  BY <1>1, InitKeyInv, SignersStray, GroupTypes, PTL DEF Spec

-----------------------------------------------------------------------------
(* Every step of the group is a step of ThresholdSigning, or none.         *)
THEOREM ImplementsThresholdSigning == Spec => EnoughAgree
<1> DEFINE agreement == {[who |-> p.who, key |-> p.session.tweaks, msg |-> p.session.msg] : p \in psigs}
           results == {[key |-> s.tweaks, msg |-> s.msg] : s \in signed}
<1>1. Init => Group!Init
  BY DEF Init, Group!Init
<1>2. IInv /\ [Next]_vars => [Group!Next]_(Group!vars)
  <2> SUFFICES ASSUME IInv, [Next]_vars PROVE [Group!Next]_(Group!vars)
    OBVIOUS
  <2>1. ASSUME NEW m \in Members, NEW s \in announced, Sign(m, s)
        PROVE  Group!Next
    <3> DEFINE t == Own(m, s)
    <3>1. /\ psigs' = psigs \cup {[who |-> m, session |-> t]}
          /\ signed' = signed
      BY <2>1 DEF Sign
    <3>2. PICK key \in Keys, msg \in Messages : key = t.tweaks /\ msg = t.msg
      BY DEF IInv, TypeOK, WellMade, Own, Session, Parties
    <3>3. agreement' = agreement \cup {[who |-> m, key |-> key, msg |-> msg]}
      <4> DEFINE view(p) == [who |-> p.who, key |-> p.session.tweaks, msg |-> p.session.msg]
                 x == [who |-> m, session |-> t]
      <4>1. view(x) = [who |-> m, key |-> key, msg |-> msg]
        BY <3>2
      <4>2. agreement' = {view(p) : p \in psigs'} /\ agreement = {view(p) : p \in psigs}
        OBVIOUS
      <4> HIDE DEF view, x, agreement
      <4>3. {view(p) : p \in psigs'} = {view(p) : p \in psigs} \cup {view(x)}
        BY <3>1 DEF x
      <4> QED
        BY <4>1, <4>2, <4>3
    <3>4. Group!Agree(m, key, msg)
      BY <3>1, <3>3 DEF Group!Agree
    <3> QED
      BY <3>4 DEF Group!Next
  <2>2. ASSUME NEW s \in open, PartialSigAgg(s) PROVE Group!Next
    <3>1. /\ signed' = signed \cup {s} /\ psigs' = psigs
          /\ \A m \in Signers(s) : [who |-> m, session |-> s] \in psigs
      BY <2>2 DEF PartialSigAgg, PartialSigVerify
    <3>2. WellMade(s)
      BY DEF IInv, TypeOK
    <3>3. /\ Signers(s) \in SignerSets
          /\ s.tweaks \in Keys /\ s.msg \in Messages
      BY <3>2 DEF WellMade
    <3>4. ASSUME NEW m \in Signers(s)
          PROVE  [who |-> m, key |-> s.tweaks, msg |-> s.msg] \in agreement
      <4> DEFINE p == [who |-> m, session |-> s]
      <4>1. p \in psigs
        BY <3>1
      <4>2. [who |-> p.who, key |-> p.session.tweaks, msg |-> p.session.msg] \in agreement
        BY <4>1
      <4> QED
        BY <4>2
    <3>5. results' = results \cup {[key |-> s.tweaks, msg |-> s.msg]}
      BY <3>1
    <3>6. Group!Sign(s.tweaks, s.msg)
      BY <3>1, <3>3, <3>4, <3>5 DEF Group!Sign
    <3> QED
      BY <3>3, <3>6 DEF Group!Next
  <2>3. CASE UNCHANGED <<psigs, signed>>
    BY <2>3 DEF Group!vars
  <2>4. ASSUME NEW p \in Parties, TweakAdd(p) \/ TweakThrows(p)
        PROVE  UNCHANGED <<psigs, signed>>
    BY <2>4 DEF TweakAdd, TweakThrows, Tweak
  <2>5. ASSUME NEW m \in Members, Member(m)
        PROVE  Group!Next \/ UNCHANGED <<psigs, signed>>
    BY <2>1, <2>5 DEF Member, NonceGen, Crash
  <2>6. ASSUME NEW S \in SUBSET Members, NEW nonces \in [S -> 1..MaxNonces],
               NEW msg \in Messages, SessionInit(S, nonces, msg)
        PROVE  UNCHANGED <<psigs, signed>>
    BY <2>6 DEF SessionInit, SessionInitWith
  <2>7. CASE CoordinatorCrash \/ UNCHANGED vars
    BY <2>3, <2>7 DEF CoordinatorCrash, vars
  <2> QED
    BY <2>2, <2>3, <2>4, <2>5, <2>6, <2>7 DEF Next
<1> QED
  BY <1>1, <1>2, Inductive, PTL DEF Spec, EnoughAgree, Group!Spec
=============================================================================
