---------------------------- MODULE FrostSigning ----------------------------
(***************************************************************************)
(* FROST signing sessions of a group: members with secret nonces that are  *)
(* never stored, a coordinator, tweak caches that everybody updates in     *)
(* place, and a network that loses, repeats, delays and reorders messages. *)
(* A public nonce, the announcement of a session and a partial signature   *)
(* can be received any number of times, at any time or never.              *)
(*                                                                         *)
(* The order of the calls is that of FrostTest.runSigningSession.  Every   *)
(* signer makes the session for itself from the announcement and its own   *)
(* cache.  What the library computes is external: nonces are fresh, and a  *)
(* partial signature verifies in exactly the session it was made in.       *)
(*                                                                         *)
(* The bindings work on a copy of the secret nonce and leave the caller's  *)
(* alone, so that it can sign again; a caller that drops its own after a   *)
(* call, as bitcoin-kmp's Frost.SecretNonce does, does fewer of these      *)
(* steps.  musigPartialSign and prefractalSign take theirs the same way.   *)
(* A call of frostSign that fails changes nothing.                         *)
(***************************************************************************)
EXTENDS Naturals, FiniteSets, Sequences

CONSTANTS Members, Threshold, Messages,
          Coordinator,           \* not a member
          Kinds,                 \* of tweaks: x-only or plain
          Plan,                  \* the tweaks that make the key to sign with
          MaxNonces,             \* bound: calls of frostNonceGen of a member
          MaxSessions,           \* bound: announced sessions
          MaxFaults              \* bound: crashes and failed calls

ASSUME GroupAssumption ==
    /\ IsFiniteSet(Members) /\ Coordinator \notin Members
    /\ Threshold \in 1..Cardinality(Members)
    /\ Plan \in Seq(Kinds)
    /\ MaxNonces \in Nat /\ MaxSessions \in Nat /\ MaxFaults \in Nat

VARIABLES made,                  \* nonces made so far; each public one is sent
          held,                  \* the secret nonces a member has in memory
          cache,                 \* tweaks in the cache of a member or coordinator
          done,                  \* tweaks its owner knows to be in there
          announced,             \* sessions sent to the members
          open,                  \* sessions the coordinator has in memory
          psigs,                 \* partial signatures sent
          signed,                \* sessions whose signature is out
          faults                 \* crashes and failed calls so far

vars == <<made, held, cache, done, announced, open, psigs, signed, faults>>

Parties == Members \cup {Coordinator}

(* A key is the threshold key with these tweaks applied; each failed call  *)
(* can make a cache one tweak longer than planned.                         *)
Keys == UNION {[1..n -> Kinds] : n \in 0..(Len(Plan) + MaxFaults)}

(* A session: the nonce of each signer, the tweaks in the cache it was     *)
(* made from, and the message.                                             *)
Session(nonces, tweaks, msg) == [nonces |-> nonces, tweaks |-> tweaks, msg |-> msg]

Signers(s) == DOMAIN s.nonces

SignerSets == {S \in SUBSET Members : Cardinality(S) >= Threshold}

WellMade(s) ==
    /\ Signers(s) \in SignerSets
    /\ s.nonces \in [Signers(s) -> 1..MaxNonces]
    /\ s.tweaks \in Keys /\ s.msg \in Messages

TypeOK ==
    /\ made \in [Members -> 0..MaxNonces]
    /\ held \in [Members -> SUBSET (1..MaxNonces)]
    /\ cache \in [Parties -> Keys]
    /\ done \in [Parties -> 0..Len(Plan)]
    /\ open \subseteq announced /\ signed \subseteq announced
    /\ \A s \in announced : WellMade(s)
    /\ \A p \in psigs : p.who \in Signers(p.session) /\ WellMade(p.session)
    /\ faults \in 0..MaxFaults

Init ==
    /\ made = [m \in Members |-> 0]
    /\ held = [m \in Members |-> {}]
    /\ cache = [p \in Parties |-> <<>>]
    /\ done = [p \in Parties |-> 0]
    /\ announced = {} /\ open = {} /\ psigs = {} /\ signed = {}
    /\ faults = 0

Fault == faults < MaxFaults /\ faults' = faults + 1

-----------------------------------------------------------------------------
(* Tweak caches.  frostPubkeyXonlyTweakAdd and frostPubkeyEcTweakAdd write *)
(* the cache back into the caller's array before they allocate the result. *)

Tweak(p) ==
    /\ done[p] < Len(Plan)
    /\ cache' = [cache EXCEPT ![p] = Append(@, Plan[done[p] + 1])]
    /\ UNCHANGED <<made, held, announced, open, psigs, signed>>

TweakAdd(p) ==
    /\ Tweak(p)
    /\ done' = [done EXCEPT ![p] = @ + 1]
    /\ UNCHANGED faults

(* The allocation of the result fails: the call throws although the tweak  *)
(* is in the cache, and the caller will add it again.                      *)
TweakThrows(p) ==
    /\ Tweak(p)
    /\ Fault
    /\ UNCHANGED done

Ready(p) == done[p] = Len(Plan)

-----------------------------------------------------------------------------
(* frostNonceGen with fresh randomness; the public nonce goes out.         *)
NonceGen(m) ==
    /\ made[m] < MaxNonces
    /\ made' = [made EXCEPT ![m] = @ + 1]
    /\ held' = [held EXCEPT ![m] = @ \cup {made'[m]}]
    /\ UNCHANGED <<cache, done, announced, open, psigs, signed, faults>>

(* The coordinator aggregates public nonces it received, of this or of an  *)
(* earlier session, makes the session and announces it.                    *)
SessionInitWith(S, nonces, msg) ==
    LET s == Session(nonces, cache[Coordinator], msg) IN
    /\ \A m \in S : nonces[m] <= made[m]
    /\ Cardinality(announced \cup {s}) <= MaxSessions
    /\ announced' = announced \cup {s}
    /\ open' = open \cup {s}
    /\ UNCHANGED <<made, held, cache, done, psigs, signed, faults>>

(* One signer too few.                                                     *)
SessionInitFewer(S, nonces, msg) ==
    /\ Ready(Coordinator) /\ Cardinality(S) + 1 >= Threshold
    /\ SessionInitWith(S, nonces, msg)

(* A session made of the key before it has its tweaks.                     *)
SessionInitEarly(S, nonces, msg) ==
    /\ Cardinality(S) >= Threshold
    /\ SessionInitWith(S, nonces, msg)

(* frostSessionInit refuses fewer signers than the threshold.              *)
SessionInit(S, nonces, msg) ==
    /\ Ready(Coordinator) /\ Cardinality(S) >= Threshold
    /\ SessionInitWith(S, nonces, msg)

-----------------------------------------------------------------------------
(* The session a signer makes of an announcement.                          *)
Own(m, s) == Session(s.nonces, cache[m], s.msg)

CanSign(m, s) ==
    /\ m \in Signers(s)
    /\ s.nonces[m] \in held[m]

(* frostSign, with a copy of the nonce.                                    *)
Sign(m, s) ==
    /\ CanSign(m, s) /\ Ready(m)
    /\ psigs' = psigs \cup {[who |-> m, session |-> Own(m, s)]}
    /\ UNCHANGED <<made, held, cache, done, announced, open, signed, faults>>

-----------------------------------------------------------------------------
(* Verification that does not look at the key.                             *)
PartialSigVerifyAnyKey(m, s) ==
    \E p \in psigs : p.who = m /\ p.session = [s EXCEPT !.tweaks = p.session.tweaks]

(* frostPartialSigVerify for the signer's place in the session.            *)
PartialSigVerify(m, s) == [who |-> m, session |-> s] \in psigs

(* frostPartialSigAgg, once all partial signatures verify.                 *)
PartialSigAgg(s) ==
    /\ \A m \in Signers(s) : PartialSigVerify(m, s)
    /\ s \notin signed
    /\ signed' = signed \cup {s}
    /\ UNCHANGED <<made, held, cache, done, announced, open, psigs, faults>>

-----------------------------------------------------------------------------
(* Nothing of a process that stops is kept; the cache is made anew from    *)
(* the threshold key, and sessions in progress are forgotten.              *)
Restarted(p) ==
    /\ Fault
    /\ cache' = [cache EXCEPT ![p] = <<>>]
    /\ done' = [done EXCEPT ![p] = 0]

Crash(m) ==
    /\ Restarted(m)
    /\ held' = [held EXCEPT ![m] = {}]
    /\ UNCHANGED <<made, announced, open, psigs, signed>>

CoordinatorCrash ==
    /\ Restarted(Coordinator)
    /\ open' = {}
    /\ UNCHANGED <<made, held, announced, psigs, signed>>

-----------------------------------------------------------------------------
Member(m) ==
    \/ NonceGen(m)
    \/ \E s \in announced : Sign(m, s)
    \/ Crash(m)

Next ==
    \/ \E p \in Parties : TweakAdd(p) \/ TweakThrows(p)
    \/ \E m \in Members : Member(m)
    \/ \E S \in SUBSET Members : \E nonces \in [S -> 1..MaxNonces], msg \in Messages :
          SessionInit(S, nonces, msg)
    \/ \E s \in open : PartialSigAgg(s)
    \/ CoordinatorCrash

(* Callers go on with what they have: they finish their tweaks, sign what  *)
(* is announced to them and aggregate what verifies.  Nobody has to open a *)
(* session or to make a nonce.                                             *)
Fairness ==
    /\ \A p \in Parties : WF_vars(TweakAdd(p))
    /\ \A m \in Members : WF_vars(\E s \in announced : Sign(m, s))
    /\ WF_vars(\E s \in open : PartialSigAgg(s))

Spec == Init /\ [][Next]_vars /\ Fairness

-----------------------------------------------------------------------------
(* A signature under another key than the one planned takes more failed    *)
(* calls than there are signers: caches that a failed tweak call changed   *)
(* in one place, or in too few, only make signing fail.                    *)
KeyIsPlanned ==
    \A s \in signed : s.tweaks # Plan => faults > Cardinality(Signers(s))

(* prefractalSign: the secret nonce "is wiped and must not be reused".     *)
SecnonceIsWiped ==
    \A p \in psigs : p.session.nonces[p.who] \notin held[p.who]

(* What is signed under a key enough members agreed to sign under it.      *)
Group == INSTANCE ThresholdSigning WITH
    Quorums <- SignerSets,
    agreed <- {[who |-> p.who, key |-> p.session.tweaks, msg |-> p.session.msg] : p \in psigs},
    signed <- {[key |-> s.tweaks, msg |-> s.msg] : s \in signed}

EnoughAgree == Group!Spec

(* Without faults, and as long as no nonce is in two sessions, every open  *)
(* session comes to its signature.                                         *)
Apart == \A s, t \in announced : s = t \/ \A m \in Signers(s) \cap Signers(t) : s.nonces[m] # t.nonces[m]

Completes == <>[](faults = 0 /\ Apart => open \subseteq signed)
=============================================================================
