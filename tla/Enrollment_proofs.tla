-------------------------- MODULE Enrollment_proofs --------------------------
(***************************************************************************)
(* Theorems about FROST enrollment, for any helpers, calls and bounds.     *)
(***************************************************************************)
EXTENDS Enrollment, TLAPS

(* A run keeps its number and its parameters.                              *)
Extended ==
    \A h \in Helpers : \A r \in DOMAIN runs[h] :
        r \in DOMAIN runs'[h] /\ runs'[h][r] = runs[h][r]

Runs(h) == DOMAIN runs[h]

(* Run number f[g] of each helper g was under the parameters with this     *)
(* hash.                                                                   *)
Under(hash, f) ==
    /\ f \in [hash.ids -> 1..MaxRuns]
    /\ \A g \in hash.ids :
          g \in Helpers /\ f[g] \in Runs(g) /\ Hash(runs[g][f[g]]) = hash

(* A sum holds one message of each helper, of runs with the same hash.     *)
SigmasAreWhole ==
    \A s \in sigmas : \E f :
        /\ Under(s.hash, f)
        /\ s.shares = UNION {SharesFor(s.by, g, f[g]) : g \in s.hash.ids}

(* All runs passed the checks of the arguments.                            *)
RunsAreChecked ==
    \A h \in Helpers : \A r \in Runs(h) : r <= MaxRuns /\ RequireEnrollmentIds(runs[h][r])

BlamersRan == \A b \in blamed : b.by \in Helpers /\ b.run \in Runs(b.by)

IInv ==
    /\ TypeOK /\ RunsAreChecked
    /\ BlamersRan /\ BlameIsTrue
    /\ SigmasAreWhole /\ SharesAddUp

USE EnrollmentAssumption

-----------------------------------------------------------------------------
LEMMA HashFields ==
    ASSUME NEW p \in Parameters
    PROVE  Hash(p).ids = IdsOf(p)
BY DEF Hash

LEMMA SameHashSameIds ==
    ASSUME NEW p \in Parameters, NEW q \in Parameters, Hash(p) = Hash(q)
    PROVE  IdsOf(p) = IdsOf(q)
BY HashFields

LEMMA SameHashSamePlaces ==
    ASSUME NEW p \in Parameters, NEW q \in Parameters, Hash(p) = Hash(q),
           RequireHelpers(p), RequireHelpers(q)
    PROVE  DOMAIN p.ids = DOMAIN q.ids
<1>1. Len(p.ids) = Len(q.ids)
  BY SameHashSameIds DEF RequireHelpers
<1>2. p.ids \in Seq(Nat) /\ q.ids \in Seq(Nat)
  OBVIOUS
<1> QED
  BY <1>1, <1>2

LEMMA AppendKeeps ==
    ASSUME NEW S, NEW s \in Seq(S), NEW e \in S, NEW i \in DOMAIN s
    PROVE  i \in DOMAIN Append(s, e) /\ Append(s, e)[i] = s[i]
OBVIOUS

LEMMA AppendAdds ==
    ASSUME NEW S, NEW s \in Seq(S), NEW e \in S
    PROVE  /\ Append(s, e) \in Seq(S) /\ Len(s) \in Nat
           /\ DOMAIN Append(s, e) = DOMAIN s \cup {Len(s) + 1}
           /\ Append(s, e)[Len(s) + 1] = e
OBVIOUS

(* The steps there are.                                                    *)
LEMMA StepCases ==
    ASSUME [Next]_vars
    PROVE  \/ \E h \in Helpers, p \in Parameters : SharesGen(h, p)
           \/ \E h \in Helpers : \E r \in kept[h] : \E from : ShareAgg(h, r, from)
           \/ \E h \in Helpers : \E r \in kept[h] : \E from :
                 \E bad \in SUBSET IdsOf(runs[h][r]) : ShareAggMismatch(h, r, from, bad)
           \/ \E p \in Parameters, checked \in BOOLEAN :
                 \E expected : \E from \in [IdsOf(p) -> sigmas] :
                     /\ \A h \in IdsOf(p) : from[h].by = h
                     /\ SecshareGen(p, from, expected, checked)
           \/ \E h \in Helpers : Crash(h)
           \/ UNCHANGED vars
<1>1. ASSUME NEW h \in Helpers, Helper(h)
      PROVE  \/ \E p \in Parameters : SharesGen(h, p)
             \/ \E r \in kept[h] : \E from : ShareAgg(h, r, from)
             \/ \E r \in kept[h] : \E from :
                   \E bad \in SUBSET IdsOf(runs[h][r]) : ShareAggMismatch(h, r, from, bad)
             \/ Crash(h)
  BY <1>1 DEF Helper
<1>2. CASE Target
  BY <1>2 DEF Target
<1> QED
  BY <1>1, <1>2 DEF Next

(* Runs are only added.                                                    *)
LEMMA RunsExtend ==
    ASSUME TypeOK, [Next]_vars
    PROVE  Extended
<1>1. CASE runs' = runs
  BY <1>1 DEF Extended
<1>2. ASSUME NEW h \in Helpers, NEW p \in Parameters, SharesGen(h, p)
      PROVE  Extended
  <2>1. runs[h] \in Seq(Parameters) /\ runs' = [runs EXCEPT ![h] = Append(@, p)]
    BY <1>2 DEF TypeOK, SharesGen
  <2>2. \A r \in DOMAIN runs[h] :
            r \in DOMAIN Append(runs[h], p) /\ Append(runs[h], p)[r] = runs[h][r]
    BY <2>1, AppendKeeps
  <2> QED
    BY <2>1, <2>2 DEF Extended, TypeOK
<1> QED
  BY <1>1, <1>2, StepCases DEF ShareAgg, ShareAggMismatch, SecshareGen, Crash, vars

(* What was said about runs stays true of them.                            *)
LEMMA UnderStays ==
    ASSUME Extended, NEW hash, NEW f, Under(hash, f)
    PROVE  Under(hash, f)'
BY DEF Under, Extended, Runs, Hash

LEMMA SharesStay ==
    ASSUME Extended, NEW h, NEW g \in Helpers, NEW r \in Runs(g)
    PROVE  SharesFor(h, g, r)' = SharesFor(h, g, r)
BY DEF SharesFor, Extended, Runs, Share

LEMMA AddsUpStays ==
    ASSUME Extended, NEW p, NEW sum, AddsUp(p, sum)
    PROVE  AddsUp(p, sum)'
<1>1. PICK r \in [IdsOf(p) -> 1..MaxRuns] :
        /\ \A g \in IdsOf(p) :
              g \in Helpers /\ r[g] \in DOMAIN runs[g] /\ Hash(runs[g][r[g]]) = Hash(p)
        /\ sum = AllShares(p, r)
  BY DEF AddsUp
<1>2. \A g \in IdsOf(p) : r[g] \in DOMAIN runs'[g] /\ runs'[g][r[g]] = runs[g][r[g]]
  BY <1>1 DEF Extended
<1>3. \A g \in IdsOf(p) : Hash(runs'[g][r[g]]) = Hash(p)
  BY <1>1, <1>2
<1> QED
  BY <1>1, <1>2, <1>3 DEF AddsUp

-----------------------------------------------------------------------------
(* The argument of SharesAddUp: when each helper has only one run with the *)
(* hash, all sums are made of the shares of these runs.                    *)

LEMMA SharesOfAll ==
    ASSUME RunsAreChecked, TypeOK,
           NEW p \in Parameters, RequireEnrollmentIds(p),
           NEW f, Under(Hash(p), f)
    PROVE  UNION {UNION {SharesFor(h, g, f[g]) : g \in IdsOf(p)} : h \in IdsOf(p)}
             = AllShares(p, f)
<1>1. Hash(p).ids = IdsOf(p)
  BY HashFields
<1>2. ASSUME NEW g \in IdsOf(p)
      PROVE  /\ g \in Helpers /\ runs[g][f[g]] \in Parameters
             /\ IdsOf(runs[g][f[g]]) = IdsOf(p)
             /\ DOMAIN runs[g][f[g]].ids = DOMAIN p.ids
  <2>1. g \in Helpers /\ f[g] \in DOMAIN runs[g] /\ Hash(runs[g][f[g]]) = Hash(p)
    BY <1>1, <1>2 DEF Under, Runs
  <2>2. runs[g][f[g]] \in Parameters /\ RequireEnrollmentIds(runs[g][f[g]])
    BY <2>1 DEF RunsAreChecked, Runs, TypeOK, Proper
  <2> QED
    BY <2>1, <2>2, SameHashSameIds, SameHashSamePlaces DEF RequireEnrollmentIds
<1> DEFINE Of(h) == UNION {SharesFor(h, g, f[g]) : g \in IdsOf(p)}
<1>3. ASSUME NEW h \in IdsOf(p), NEW g \in IdsOf(p), NEW s \in SharesFor(h, g, f[g])
      PROVE  s \in AllShares(p, f)
  BY <1>2, <1>3 DEF SharesFor, AllShares
<1>4. ASSUME NEW s \in AllShares(p, f)
      PROVE  \E h \in IdsOf(p) : s \in Of(h)
  <2>1. PICK g \in IdsOf(p), i \in DOMAIN p.ids : s = Share(g, f[g], i)
    BY <1>4 DEF AllShares
  <2>2. i \in DOMAIN runs[g][f[g]].ids /\ runs[g][f[g]].ids[i] \in IdsOf(p)
    BY <1>2, <2>1 DEF IdsOf
  <2>3. s \in SharesFor(runs[g][f[g]].ids[i], g, f[g])
    BY <2>1, <2>2 DEF SharesFor
  <2> QED
    BY <2>2, <2>3
<1> QED
  BY <1>3, <1>4

LEMMA OneRunAddsUp ==
    ASSUME RunsAreChecked, TypeOK, SigmasAreWhole,
           NEW p \in Parameters, RequireEnrollmentIds(p), OneRun(p),
           NEW from \in [IdsOf(p) -> sigmas],
           \A h \in IdsOf(p) : from[h].by = h /\ from[h].hash = Hash(p)
    PROVE  AddsUp(p, UNION {from[h].shares : h \in IdsOf(p)})
<1>1. Hash(p).ids = IdsOf(p)
  BY HashFields
<1>2. PICK first \in IdsOf(p) : TRUE
  <2>1. p.ids \in Seq(Nat) /\ Len(p.ids) >= 2
    BY DEF RequireEnrollmentIds, RequireHelpers
  <2>2. 1 \in DOMAIN p.ids
    BY <2>1
  <2>3. p.ids[1] \in IdsOf(p)
    BY <2>2 DEF IdsOf
  <2> QED
    BY <2>3
<1>3. PICK f : Under(Hash(p), f)
  BY <1>2 DEF SigmasAreWhole
<1>4. ASSUME NEW h \in IdsOf(p)
      PROVE  from[h].shares = UNION {SharesFor(h, g, f[g]) : g \in IdsOf(p)}
  <2>1. from[h] \in sigmas /\ from[h].by = h /\ from[h].hash = Hash(p)
    BY <1>4
  <2>2. PICK e : /\ Under(from[h].hash, e)
                 /\ from[h].shares =
                      UNION {SharesFor(from[h].by, g, e[g]) : g \in from[h].hash.ids}
    BY <2>1 DEF SigmasAreWhole
  <2>3. /\ Under(Hash(p), e)
        /\ from[h].shares = UNION {SharesFor(h, g, e[g]) : g \in IdsOf(p)}
    BY <1>1, <2>1, <2>2
  <2>4. ASSUME NEW g \in IdsOf(p)
        PROVE  e[g] = f[g]
    <3>1. g \in Helpers /\ e[g] \in DOMAIN runs[g] /\ Hash(runs[g][e[g]]) = Hash(p)
      BY <1>1, <2>3 DEF Under, Runs
    <3>2. f[g] \in DOMAIN runs[g] /\ Hash(runs[g][f[g]]) = Hash(p)
      BY <1>1, <1>3 DEF Under, Runs
    <3> QED
      BY <3>1, <3>2 DEF OneRun
  <2> QED
    BY <2>3, <2>4
<1>5. UNION {from[h].shares : h \in IdsOf(p)}
        = UNION {UNION {SharesFor(h, g, f[g]) : g \in IdsOf(p)} : h \in IdsOf(p)}
  BY <1>4
<1>6. UNION {from[h].shares : h \in IdsOf(p)} = AllShares(p, f)
  BY <1>3, <1>5, SharesOfAll
<1>7. /\ f \in [IdsOf(p) -> 1..MaxRuns]
      /\ \A g \in IdsOf(p) :
            g \in Helpers /\ f[g] \in DOMAIN runs[g] /\ Hash(runs[g][f[g]]) = Hash(p)
  BY <1>1, <1>3 DEF Under, Runs
<1> QED
  BY <1>6, <1>7 DEF AddsUp

-----------------------------------------------------------------------------
(* Everything but a new run keeps the runs; then only what it adds to has  *)
(* to be looked at.                                                        *)

LEMMA InitInductive ==
    ASSUME Init
    PROVE  IInv
<1>1. TypeOK
  BY DEF Init, TypeOK
<1>2. RunsAreChecked
  BY DEF Init, RunsAreChecked, Runs
<1>3. BlamersRan /\ BlameIsTrue /\ SigmasAreWhole /\ SharesAddUp
  BY DEF Init, BlamersRan, BlameIsTrue, SigmasAreWhole, SharesAddUp
<1> QED
  BY <1>1, <1>2, <1>3 DEF IInv

LEMMA SharesGenTyped ==
    ASSUME TypeOK, RunsAreChecked,
           NEW h \in Helpers, NEW p \in Parameters, SharesGen(h, p)
    PROVE  TypeOK' /\ RunsAreChecked'
<1>1. Proper(p)
  BY DEF SharesGen, RequireEnrollmentIds, RequireHelpers, Proper
<1>2. runs[h] \in Seq(Parameters) /\ runs' = [runs EXCEPT ![h] = Append(@, p)]
  BY DEF SharesGen, TypeOK
<1>3. /\ Append(runs[h], p) \in Seq(Parameters)
      /\ DOMAIN Append(runs[h], p) = DOMAIN runs[h] \cup {Len(runs[h]) + 1}
      /\ Append(runs[h], p)[Len(runs[h]) + 1] = p
      /\ Len(runs[h]) + 1 <= MaxRuns
  <2>1. Len(runs[h]) < MaxRuns
    BY DEF SharesGen
  <2> QED
    BY <1>2, <2>1, AppendAdds
<1>4. \A r \in DOMAIN runs[h] : Append(runs[h], p)[r] = runs[h][r]
  BY <1>2, AppendKeeps
<1>5. runs' \in [Helpers -> Seq(Parameters)]
  BY <1>2, <1>3 DEF TypeOK
<1>6. ASSUME NEW g \in Helpers
      PROVE  kept'[g] \subseteq DOMAIN runs'[g]
  <2>1. DOMAIN runs[g] \subseteq DOMAIN runs'[g] /\ Len(runs[h]) + 1 \in DOMAIN runs'[h]
    BY <1>2, <1>3 DEF TypeOK
  <2> QED
    BY <1>2, <2>1 DEF SharesGen, TypeOK
<1>8. kept' \in [Helpers -> SUBSET (1..MaxRuns)]
  <2>1. Len(runs[h]) + 1 \in 1..MaxRuns
    BY <1>2, <1>3, AppendAdds
  <2> QED
    BY <2>1 DEF SharesGen, TypeOK
<1>7. ASSUME NEW g \in Helpers, NEW r \in DOMAIN runs'[g]
      PROVE  /\ r <= MaxRuns /\ RequireEnrollmentIds(runs'[g][r])
             /\ Proper(runs'[g][r]) /\ g \in IdsOf(runs'[g][r])
  <2>1. CASE r \in DOMAIN runs[g]
    <3>1. runs'[g][r] = runs[g][r]
      BY <1>2, <1>4, <2>1 DEF TypeOK
    <3> QED
      BY <2>1, <3>1 DEF TypeOK, RunsAreChecked, Runs
  <2>2. CASE r \notin DOMAIN runs[g]
    <3>1. g = h /\ r = Len(runs[h]) + 1 /\ runs'[g][r] = p
      BY <1>2, <1>3, <1>7, <2>2 DEF TypeOK
    <3> QED
      BY <1>1, <1>3, <3>1 DEF SharesGen
  <2> QED
    BY <2>1, <2>2
<1> QED
  BY <1>5, <1>6, <1>7, <1>8 DEF TypeOK, RunsAreChecked, Runs, SharesGen

LEMMA TypesStay ==
    ASSUME TypeOK, RunsAreChecked, [Next]_vars
    PROVE  TypeOK' /\ RunsAreChecked'
<1>1. ASSUME NEW h \in Helpers, NEW p \in Parameters, SharesGen(h, p)
      PROVE  TypeOK' /\ RunsAreChecked'
  BY <1>1, SharesGenTyped
<1>2. ASSUME NEW h \in Helpers, NEW r, NEW from, NEW bad,
             ShareAgg(h, r, from) \/ ShareAggMismatch(h, r, from, bad)
      PROVE  TypeOK' /\ RunsAreChecked'
  BY <1>2 DEF ShareAgg, ShareAggMismatch, TypeOK, RunsAreChecked, Runs
<1>3. ASSUME NEW p \in Parameters, NEW checked \in BOOLEAN, NEW from, NEW expected,
             SecshareGen(p, from, expected, checked)
      PROVE  TypeOK' /\ RunsAreChecked'
  <2>1. Proper(p)
    BY <1>3 DEF SecshareGen, RequireEnrollmentIds, RequireHelpers, Proper
  <2>2. \A s \in secshare' : s.params = p
    BY <1>3 DEF SecshareGen
  <2>3. UNCHANGED <<runs, kept, crashes>>
    BY <1>3 DEF SecshareGen
  <2> QED
    BY <2>1, <2>2, <2>3 DEF TypeOK, RunsAreChecked, Runs
<1>4. ASSUME NEW h \in Helpers, Crash(h)
      PROVE  TypeOK' /\ RunsAreChecked'
  <2>1. /\ kept' = [kept EXCEPT ![h] = {}] /\ crashes' \in 0..MaxCrashes
        /\ UNCHANGED <<runs, secshare>>
    BY <1>4 DEF Crash, TypeOK
  <2>2. \A g \in Helpers : kept'[g] \subseteq DOMAIN runs[g]
    BY <2>1 DEF TypeOK
  <2> QED
    BY <2>1, <2>2 DEF TypeOK, RunsAreChecked, Runs
<1>5. CASE UNCHANGED vars
  BY <1>5 DEF vars, TypeOK, RunsAreChecked, Runs
<1> QED
  BY <1>1, <1>2, <1>3, <1>4, <1>5, StepCases

(* Whoever is named is named for a run that stays, or for a damaged share. *)
LEMMA BlameStays ==
    ASSUME TypeOK, BlamersRan, BlameIsTrue, [Next]_vars
    PROVE  BlamersRan' /\ BlameIsTrue'
<1>1. Extended
  BY RunsExtend
<1> DEFINE Holds(b) ==
        /\ b.by \in Helpers /\ b.run \in Runs(b.by)
        /\ b.who \in IdsOf(runs[b.by][b.run])
        /\ \/ /\ b.who \in Helpers \ {b.by}
              /\ \E r \in DOMAIN runs[b.who] : Hash(runs[b.who][r]) # Hash(runs[b.by][b.run])
           \/ \E r \in 1..MaxRuns : <<b.by, b.who, r>> \in damaged'
      Then(b) ==
        /\ b.by \in Helpers /\ b.run \in DOMAIN runs'[b.by]
        /\ b.who \in IdsOf(runs'[b.by][b.run])
        /\ \/ /\ b.who \in Helpers \ {b.by}
              /\ \E r \in DOMAIN runs'[b.who] : Hash(runs'[b.who][r]) # Hash(runs'[b.by][b.run])
           \/ \E r \in 1..MaxRuns : <<b.by, b.who, r>> \in damaged'
<1>2. ASSUME NEW b, Holds(b)
      PROVE  Then(b)
  <2>1. b.run \in DOMAIN runs'[b.by] /\ runs'[b.by][b.run] = runs[b.by][b.run]
    BY <1>1, <1>2 DEF Extended, Runs
  <2>2. ASSUME b.who \in Helpers, NEW r \in DOMAIN runs[b.who],
               Hash(runs[b.who][r]) # Hash(runs[b.by][b.run])
        PROVE  r \in DOMAIN runs'[b.who] /\ Hash(runs'[b.who][r]) # Hash(runs'[b.by][b.run])
    <3>1. r \in DOMAIN runs'[b.who] /\ runs'[b.who][r] = runs[b.who][r]
      BY <1>1, <2>2 DEF Extended
    <3> QED
      BY <2>1, <2>2, <3>1
  <2> QED
    BY <1>2, <2>1, <2>2
<1>3. damaged \subseteq damaged'
  BY StepCases DEF SharesGen, ShareAgg, ShareAggMismatch, SecshareGen, Crash, vars
<1>4. \A b \in blamed : Holds(b)
  BY <1>3 DEF BlamersRan, BlameIsTrue
<1>5. \A b \in blamed' : Then(b)
  <2>1. CASE blamed' = blamed
    BY <1>2, <1>4, <2>1
  <2>2. ASSUME NEW h \in Helpers, NEW r \in kept[h], NEW from,
               NEW bad \in SUBSET IdsOf(runs[h][r]), ShareAggMismatch(h, r, from, bad)
        PROVE  \A b \in blamed' : Then(b)
    <3>1. PICK g \in Differing(h, r, from) \cup bad :
              blamed' = blamed \cup {[by |-> h, run |-> r, who |-> g]}
      BY <2>2 DEF ShareAggMismatch
    <3> DEFINE new == [by |-> h, run |-> r, who |-> g]
    <3>2. Holds(new)
      <4>1. r \in DOMAIN runs[h] /\ new.by = h /\ new.run = r /\ new.who = g
        BY <2>2 DEF TypeOK
      <4>2. CASE g \in Differing(h, r, from)
        <5>1. g \in IdsOf(runs[h][r]) \ {h} /\ Hash(runs[g][from[g]]) # Hash(runs[h][r])
          BY <4>2 DEF Differing
        <5>2. g \in Helpers /\ from[g] \in DOMAIN runs[g]
          BY <2>2, <5>1 DEF ShareAggMismatch, InHand, Sent
        <5> HIDE DEF new
        <5> QED
          BY <4>1, <5>1, <5>2 DEF Runs
      <4>3. CASE g \in bad
        <5>1. g \in IdsOf(runs[h][r]) /\ from[g] \in 1..MaxRuns
          BY <2>2, <4>3 DEF ShareAggMismatch, InHand
        <5>2. <<h, g, from[g]>> \in damaged'
          BY <2>2, <4>3 DEF ShareAggMismatch
        <5> HIDE DEF new
        <5> QED
          BY <4>1, <5>1, <5>2 DEF Runs
      <4> QED
        BY <4>2, <4>3
    <3> QED
      BY <1>2, <1>4, <3>1, <3>2
  <2> QED
    BY <2>1, <2>2, StepCases DEF SharesGen, ShareAgg, SecshareGen, Crash, vars
<1> QED
  BY <1>5 DEF BlamersRan, BlameIsTrue, Runs

(* The runs a sum was made of stay, and their shares with them.            *)
LEMMA SigmasStay ==
    ASSUME TypeOK, SigmasAreWhole, [Next]_vars
    PROVE  SigmasAreWhole'
<1>1. Extended
  BY RunsExtend
<1> DEFINE Whole(s) == \E f : /\ Under(s.hash, f)
                              /\ s.shares = UNION {SharesFor(s.by, g, f[g]) : g \in s.hash.ids}
<1>2. ASSUME NEW s, Whole(s)
      PROVE  \E f : /\ Under(s.hash, f)'
                    /\ s.shares = UNION {SharesFor(s.by, g, f[g])' : g \in s.hash.ids}
  <2>1. PICK f : /\ Under(s.hash, f)
                 /\ s.shares = UNION {SharesFor(s.by, g, f[g]) : g \in s.hash.ids}
    BY <1>2
  <2>2. \A g \in s.hash.ids : g \in Helpers /\ f[g] \in Runs(g)
    BY <2>1 DEF Under
  <2>3. \A g \in s.hash.ids : SharesFor(s.by, g, f[g])' = SharesFor(s.by, g, f[g])
    BY <1>1, <2>2, SharesStay
  <2>4. Under(s.hash, f)'
    BY <1>1, <2>1, UnderStays
  <2>5. s.shares = UNION {SharesFor(s.by, g, f[g])' : g \in s.hash.ids}
    BY <2>1, <2>3
  <2> QED
    BY <2>4, <2>5
<1>3. \A s \in sigmas : Whole(s)
  BY DEF SigmasAreWhole
<1>4. \A s \in sigmas' : Whole(s)
  <2>1. CASE sigmas' = sigmas
    BY <1>3, <2>1
  <2>2. ASSUME NEW h \in Helpers, NEW r \in kept[h], NEW from, ShareAgg(h, r, from)
        PROVE  \A s \in sigmas' : Whole(s)
    <3> DEFINE p == runs[h][r]
               new == [by |-> h, hash |-> Hash(p),
                       shares |-> UNION {SharesFor(h, g, from[g]) : g \in IdsOf(p)}]
    <3>1. sigmas' = sigmas \cup {new}
      BY <2>2 DEF ShareAgg
    <3>2. p \in Parameters
      <4>1. r \in DOMAIN runs[h]
        BY <2>2 DEF TypeOK
      <4> QED
        BY <4>1 DEF TypeOK, Proper
    <3>3. Hash(p).ids = IdsOf(p)
      BY <3>2, HashFields
    <3>4. Under(Hash(p), from)
      <4>1. from \in [IdsOf(p) -> 1..MaxRuns]
        BY <2>2 DEF ShareAgg, InHand
      <4>2. \A g \in IdsOf(p) : g \in Helpers /\ from[g] \in DOMAIN runs[g]
        BY <2>2 DEF ShareAgg, InHand, Sent
      <4>3. \A g \in IdsOf(p) : Hash(runs[g][from[g]]) = Hash(p)
        BY <2>2 DEF ShareAgg, InHand, Differing
      <4> QED
        BY <3>3, <4>1, <4>2, <4>3 DEF Under, Runs
    <3>5. new.by = h /\ new.hash = Hash(p)
          /\ new.shares = UNION {SharesFor(h, g, from[g]) : g \in IdsOf(p)}
      OBVIOUS
    <3>6. Whole(new)
      BY <3>3, <3>4, <3>5
    <3> QED
      BY <1>3, <3>1, <3>6
  <2> QED
    BY <2>1, <2>2, StepCases DEF SharesGen, ShareAggMismatch, SecshareGen, Crash, vars
<1> QED
  BY <1>2, <1>4 DEF SigmasAreWhole

(* A sum that is right stays right, and that a helper has run once was     *)
(* true before it is.                                                      *)
LEMMA SharesStayRight ==
    ASSUME TypeOK, RunsAreChecked, SigmasAreWhole, SharesAddUp, [Next]_vars
    PROVE  SharesAddUp'
<1>1. Extended
  BY RunsExtend
<1>2. ASSUME NEW q, OneRun(q)'
      PROVE  OneRun(q)
  <2>1. ASSUME NEW h \in IdsOf(q) \cap Helpers, NEW r \in DOMAIN runs[h], NEW k \in DOMAIN runs[h],
               Hash(runs[h][r]) = Hash(q), Hash(runs[h][k]) = Hash(q)
        PROVE  r = k
    <3>1. /\ r \in DOMAIN runs'[h] /\ runs'[h][r] = runs[h][r]
          /\ k \in DOMAIN runs'[h] /\ runs'[h][k] = runs[h][k]
      BY <1>1, <2>1 DEF Extended
    <3>2. Hash(runs'[h][r]) = Hash(q) /\ Hash(runs'[h][k]) = Hash(q)
      BY <2>1, <3>1
    <3>3. \A i, j \in DOMAIN runs'[h] :
              Hash(runs'[h][i]) = Hash(q) /\ Hash(runs'[h][j]) = Hash(q) => i = j
      BY <1>2, <2>1 DEF OneRun
    <3> QED
      BY <3>1, <3>2, <3>3
  <2> QED
    BY <2>1 DEF OneRun
<1>3. CASE secshare' = secshare
  <2> SUFFICES ASSUME NEW s \in secshare, s.checked \/ (s.agreed /\ OneRun(s.params)')
               PROVE  AddsUp(s.params, s.sum)'
    BY <1>3 DEF SharesAddUp
  <2>1. AddsUp(s.params, s.sum)
    BY <1>2 DEF SharesAddUp
  <2> QED
    BY <1>1, <2>1, AddsUpStays
<1>4. ASSUME NEW p \in Parameters, NEW checked \in BOOLEAN, NEW from \in [IdsOf(p) -> sigmas],
             NEW expected, \A h \in IdsOf(p) : from[h].by = h,
             SecshareGen(p, from, expected, checked)
      PROVE  SharesAddUp'
  <2> DEFINE sum == UNION {from[h].shares : h \in IdsOf(p)}
             agreed == \A h \in IdsOf(p) : from[h].hash \in expected
             new == [params |-> p, sum |-> sum, checked |-> checked, agreed |-> agreed]
  <2>1. /\ secshare' = {new}
        /\ RequireEnrollmentIds(p)
        /\ expected \subseteq {Hash(p)}
        /\ checked => AddsUp(p, sum)
    BY <1>4 DEF SecshareGen
  <2>2. agreed /\ OneRun(p) => AddsUp(p, sum)
    BY <1>4, <2>1, OneRunAddsUp
  <2>3. checked \/ (agreed /\ OneRun(p)') => AddsUp(p, sum)'
    BY <1>1, <1>2, <2>1, <2>2, AddsUpStays
  <2>4. /\ new.params = p /\ new.sum = sum
        /\ new.checked = checked /\ new.agreed = agreed
    OBVIOUS
  <2>5. ASSUME NEW s \in secshare', s.checked \/ (s.agreed /\ OneRun(s.params)')
        PROVE  AddsUp(s.params, s.sum)'
    <3>1. s = new
      BY <2>1, <2>5
    <3>2. s.params = p /\ s.sum = sum /\ s.checked = checked /\ s.agreed = agreed
      BY <2>4, <3>1
    <3> HIDE DEF sum, agreed, new
    <3> QED
      BY <2>3, <2>5, <3>2
  <2> QED
    BY <2>5 DEF SharesAddUp
<1> QED
  BY <1>3, <1>4, StepCases DEF SharesGen, ShareAgg, ShareAggMismatch, Crash, vars

-----------------------------------------------------------------------------
(* IInv holds from the start and in every step.                            *)
THEOREM Inductive == Spec => []IInv
<1>1. Init => IInv
  BY InitInductive
<1>2. ASSUME IInv, [Next]_vars
      PROVE  IInv'
  <2>1. /\ TypeOK /\ RunsAreChecked /\ BlamersRan /\ BlameIsTrue
        /\ SigmasAreWhole /\ SharesAddUp
    BY <1>2 DEF IInv
  <2>2. TypeOK' /\ RunsAreChecked'
    BY <1>2, <2>1, TypesStay
  <2>3. BlamersRan' /\ BlameIsTrue'
    BY <1>2, <2>1, BlameStays
  <2>4. SigmasAreWhole' /\ SharesAddUp'
    BY <1>2, <2>1, SigmasStay, SharesStayRight
  <2> QED
    BY <2>2, <2>3, <2>4 DEF IInv
<1> QED
  BY <1>1, <1>2, PTL DEF Spec

(* Every accepted call is within the limits of the group.                  *)
THEOREM EnrollmentTypes == Spec => []TypeOK
<1>1. IInv => TypeOK
  BY DEF IInv
<1> QED
  BY <1>1, Inductive, PTL

(* For any number of helpers, runs and crashes, equal hashes and one run   *)
(* of each helper, or the check of the public share, give the right share. *)
THEOREM TargetsGetTheirShare == Spec => []SharesAddUp
<1>1. IInv => SharesAddUp
  BY DEF IInv
<1> QED
  BY <1>1, Inductive, PTL

(* Whoever is named used other parameters than the caller, or its share is *)
(* damaged where the caller has it.                                        *)
THEOREM OnlyFaultyAreNamed == Spec => []BlameIsTrue
<1>1. IInv => BlameIsTrue
  BY DEF IInv
<1> QED
  BY <1>1, Inductive, PTL
=============================================================================
