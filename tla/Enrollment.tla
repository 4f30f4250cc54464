----------------------------- MODULE Enrollment -----------------------------
(***************************************************************************)
(* FROST enrollment: helpers give a share to a new participant, or give an *)
(* existing one its share again.  In round 1.1 every helper splits its     *)
(* contribution into one share per helper, in round 1.2 it adds up what it *)
(* got from every helper, in round 2 the target adds up these sums.        *)
(*                                                                         *)
(* Helpers begin again with fresh randomness when they like, and lose what *)
(* they keep when they stop.  Messages are lost, repeated and reordered: a *)
(* share, a sum and the hash sent with it can be received at any time.     *)
(* The copy of a share that a helper has in hand can be damaged so that it *)
(* is no scalar any more; one that is changed to another scalar is not     *)
(* modelled, only the expected public share would tell.                    *)
(* Helpers may list their identifiers in different orders and may disagree *)
(* about the parameters.                                                   *)
(*                                                                         *)
(* The arithmetic is the library's and external: a share is known by the   *)
(* run it was made in and its place, and a sum by the shares in it.        *)
(***************************************************************************)
EXTENDS Naturals, Sequences, FiniteSets

CONSTANTS Helpers,               \* identifiers of the participants that help
          Parameters,            \* what the application passes to the calls
          MaxParticipants,       \* FROST_MAX_PARTICIPANTS
          MaxRuns,               \* bound: runs of round 1.1 of a helper
          MaxAgain,              \* bound: helpers that run more than once
          MaxNamed,              \* bound: faults reported
          MaxDamaged,            \* bound: damaged shares in one call
          MaxCrashes             \* bound: crashes

ASSUME EnrollmentAssumption ==
    /\ Helpers \subseteq Nat
    /\ Parameters \subseteq [ids : Seq(Nat), newId : Nat, n : Nat, t : Nat]
    /\ MaxParticipants \in Nat /\ MaxRuns \in Nat /\ MaxAgain \in Nat
    /\ MaxNamed \in Nat /\ MaxDamaged \in Nat /\ MaxCrashes \in Nat

VARIABLES runs,                  \* the parameters of each helper's runs
          kept,                  \* the runs a helper has in memory
          damaged,               \* <<h, g, r>>: what h has of g's run r is no scalar
          sigmas,                \* the sums sent to the target
          blamed,                \* who was named by which helper, in which run
          secshare,              \* what the target has made, if anything
          crashes                \* crashes so far

vars == <<runs, kept, damaged, sigmas, blamed, secshare, crashes>>

IdsOf(p) == {p.ids[i] : i \in DOMAIN p.ids}

(* The parameters hash binds everything but the order of the identifiers.  *)
Hash(p) == [p EXCEPT !.ids = IdsOf(p)]

(* A sharing of the group that is within the limits but for the target.    *)
RequireHelpers(p) ==
    /\ p.n \in 1..MaxParticipants
    /\ p.t \in 2..p.n
    /\ Len(p.ids) \in p.t..p.n
    /\ Cardinality(IdsOf(p)) = Len(p.ids)
    /\ \A id \in IdsOf(p) : id < p.n
    /\ p.newId <= p.n
    /\ p.newId \notin IdsOf(p)

(* Enrollment, the target being number n, as long as there is room.        *)
RequireEnrollmentIds(p) ==
    /\ RequireHelpers(p)
    /\ p.newId < p.n \/ p.n < MaxParticipants

Init ==
    /\ runs = [h \in Helpers |-> <<>>]
    /\ kept = [h \in Helpers |-> {}]
    /\ damaged = {}
    /\ sigmas = {} /\ blamed = {} /\ secshare = {}
    /\ crashes = 0

-----------------------------------------------------------------------------
(* Round 1.1, with fresh randomness: one share for each identifier, in the *)
(* order of this helper's list.                                            *)
SharesGen(h, p) ==
    /\ RequireEnrollmentIds(p)
    /\ h \in IdsOf(p)
    /\ Len(runs[h]) < MaxRuns
    /\ runs[h] # <<>> => Cardinality({g \in Helpers \ {h} : Len(runs[g]) > 1}) < MaxAgain
    /\ runs' = [runs EXCEPT ![h] = Append(@, p)]
    /\ kept' = [kept EXCEPT ![h] = @ \cup {Len(runs[h]) + 1}]
    /\ UNCHANGED <<damaged, sigmas, blamed, secshare, crashes>>

Share(g, r, i) == [from |-> g, run |-> r, at |-> i]

(* The shares of a list that was not transposed: the entry at the sender's *)
(* place in its own list.                                                  *)
UntransposedFor(h, g, r) ==
    {Share(g, r, i) : i \in {i \in DOMAIN runs[g][r].ids : runs[g][r].ids[i] = g}}

(* What g sends to h, or keeps for itself, of its run r.                   *)
SharesFor(h, g, r) ==
    {Share(g, r, i) : i \in {i \in DOMAIN runs[g][r].ids : runs[g][r].ids[i] = h}}

Sent(h, g, r) == r \in DOMAIN runs[g] /\ h \in IdsOf(runs[g][r])

(* What h has in hand when it ends its run r: its own shares, and one      *)
(* message of each other helper.                                           *)
InHand(h, r, from) ==
    LET p == runs[h][r] IN
    /\ from \in [IdsOf(p) -> 1..MaxRuns]
    /\ from[h] = r
    /\ \A g \in IdsOf(p) : g \in Helpers /\ Sent(h, g, from[g])

(* The helpers whose hash is not the one h computes; its own is not read.  *)
Differing(h, r, from) ==
    {g \in IdsOf(runs[h][r]) \ {h} : Hash(runs[g][from[g]]) # Hash(runs[h][r])}

(* Round 1.2, when all hashes agree and all shares are scalars; a share    *)
(* of another helper that is damaged can be sent again.                    *)
ShareAgg(h, r, from) ==
    /\ r \in kept[h]
    /\ InHand(h, r, from)
    /\ Differing(h, r, from) = {}
    /\ <<h, h, r>> \notin damaged
    /\ sigmas' = sigmas \cup
          {[by |-> h, hash |-> Hash(runs[h][r]),
            shares |-> UNION {SharesFor(h, g, from[g]) : g \in IdsOf(runs[h][r])}]}
    /\ UNCHANGED <<runs, kept, damaged, blamed, secshare, crashes>>

(* A helper is named by its place in the list.                             *)
ShareAggNamingPlace(h, r, from, bad) ==
    /\ r \in kept[h]
    /\ InHand(h, r, from)
    /\ <<h, h, r>> \in damaged => h \in bad
    /\ Cardinality(blamed) < MaxNamed
    /\ \E i \in DOMAIN runs[h][r].ids :
          /\ runs[h][r].ids[i] \in Differing(h, r, from) \cup bad
          /\ blamed' = blamed \cup {[by |-> h, run |-> r, who |-> i - 1]}
    /\ damaged' = damaged \cup {<<h, g, from[g]>> : g \in bad}
    /\ UNCHANGED <<runs, kept, sigmas, secshare, crashes>>

(* Round 1.2, when a hash differs or the shares of the helpers in bad are  *)
(* damaged, in memory or on the way, so that they are no scalars: one at   *)
(* fault is named by its identifier, the caller too for the share it kept. *)
ShareAggMismatch(h, r, from, bad) ==
    /\ r \in kept[h]
    /\ InHand(h, r, from)
    /\ <<h, h, r>> \in damaged => h \in bad
    /\ Cardinality(blamed) < MaxNamed
    /\ \E g \in Differing(h, r, from) \cup bad :
          blamed' = blamed \cup {[by |-> h, run |-> r, who |-> g]}
    /\ damaged' = damaged \cup {<<h, g, from[g]>> : g \in bad}
    /\ UNCHANGED <<runs, kept, sigmas, secshare, crashes>>

-----------------------------------------------------------------------------
(* All shares of run r[g] of each helper g.                                *)
AllShares(p, r) == {Share(g, r[g], i) : g \in IdsOf(p), i \in DOMAIN p.ids}

(* The sum is the share of the target: all shares of one run of each       *)
(* helper under these parameters, and nothing else.                        *)
AddsUp(p, sum) ==
    \E r \in [IdsOf(p) -> 1..MaxRuns] :
        /\ \A g \in IdsOf(p) :
              g \in Helpers /\ r[g] \in DOMAIN runs[g] /\ Hash(runs[g][r[g]]) = Hash(p)
        /\ sum = AllShares(p, r)

(* Round 2, from one sum of each helper.  The target may pass one hash     *)
(* that a helper sent, expected, to be compared with its own, or none, and *)
(* it may have the result compared with the public share that it derives   *)
(* from those of the helpers.  Whether the hash is the one that all        *)
(* helpers sent is for the target to see to.                               *)
SecshareGen(p, from, expected, checked) ==
    LET sum == UNION {from[h].shares : h \in IdsOf(p)} IN
    /\ RequireEnrollmentIds(p)
    /\ expected \subseteq {Hash(p)}
    /\ checked => AddsUp(p, sum)
    /\ secshare' = {[params |-> p, sum |-> sum, checked |-> checked,
                     agreed |-> \A h \in IdsOf(p) : from[h].hash \in expected]}
    /\ UNCHANGED <<runs, kept, damaged, sigmas, blamed, crashes>>

(* A helper that stops forgets the shares it kept.                         *)
Crash(h) ==
    /\ crashes < MaxCrashes
    /\ crashes' = crashes + 1
    /\ kept' = [kept EXCEPT ![h] = {}]
    /\ UNCHANGED <<runs, damaged, sigmas, blamed, secshare>>

-----------------------------------------------------------------------------
Helper(h) ==
    \/ \E p \in Parameters : SharesGen(h, p)
    \/ \E r \in kept[h] : \E from \in [IdsOf(runs[h][r]) -> 1..MaxRuns] :
          \/ ShareAgg(h, r, from)
          \/ \E bad \in SUBSET IdsOf(runs[h][r]) :
                Cardinality(bad) <= MaxDamaged /\ ShareAggMismatch(h, r, from, bad)
    \/ Crash(h)

(* The target makes one share.                                             *)
Target ==
    /\ secshare = {}
    /\ \E p \in Parameters : \E from \in [IdsOf(p) -> sigmas] :
          /\ \A h \in IdsOf(p) : from[h].by = h
          /\ \E expected \in {{}} \cup {{from[h].hash} : h \in IdsOf(p)}, checked \in BOOLEAN :
                SecshareGen(p, from, expected, checked)

Next == Target \/ \E h \in Helpers : Helper(h)

Spec == Init /\ [][Next]_vars

-----------------------------------------------------------------------------
(* Nobody gets a share of a group that has no place for it: the target is  *)
(* below the greatest number of participants and does not help itself.     *)
Proper(p) ==
    /\ p \in Parameters
    /\ p.newId \in 0..MaxParticipants - 1
    /\ p.newId \notin IdsOf(p)

TypeOK ==
    /\ runs \in [Helpers -> Seq(Parameters)]
    /\ kept \in [Helpers -> SUBSET (1..MaxRuns)]
    /\ \A h \in Helpers : kept[h] \subseteq DOMAIN runs[h]
    /\ \A h \in Helpers : \A r \in DOMAIN runs[h] : Proper(runs[h][r]) /\ h \in IdsOf(runs[h][r])
    /\ \A s \in secshare : Proper(s.params)
    /\ crashes \in 0..MaxCrashes

(* Each helper has run round 1.1 at most once with these parameters.       *)
OneRun(p) ==
    \A h \in IdsOf(p) \cap Helpers : \A r, q \in DOMAIN runs[h] :
        Hash(runs[h][r]) = Hash(p) /\ Hash(runs[h][q]) = Hash(p) => r = q

(* A target that passed the hash on which all helpers agree gets its share *)
(* in whatever order each party lists the helpers and whatever stale       *)
(* messages it uses, unless a helper ran twice; then, and when it passed   *)
(* no hash, it takes the expected public share ("the only check that a     *)
(* helper contributed a correct value").                                   *)
SharesAddUp ==
    \A s \in secshare : s.checked \/ (s.agreed /\ OneRun(s.params)) => AddsUp(s.params, s.sum)

(* Whoever is named takes part in the run, and is another helper that has  *)
(* used other parameters, or one, maybe the caller itself, whose share is  *)
(* damaged where the caller has it.                                        *)
BlameIsTrue ==
    \A b \in blamed :
        /\ b.who \in IdsOf(runs[b.by][b.run])
        /\ \/ /\ b.who \in Helpers \ {b.by}
              /\ \E r \in DOMAIN runs[b.who] : Hash(runs[b.who][r]) # Hash(runs[b.by][b.run])
           \/ \E r \in 1..MaxRuns : <<b.by, b.who, r>> \in damaged
=============================================================================
