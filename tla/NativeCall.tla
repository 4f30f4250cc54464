----------------------------- MODULE NativeCall -----------------------------
(***************************************************************************)
(* A JVM thread that calls the native methods one after the other.  The    *)
(* machine runs a method's program step by step: a step is skipped when    *)
(* its optional argument is absent, goes on when it succeeds, or ends the  *)
(* call with a Java exception after its error path has freed its buffers.  *)
(*                                                                         *)
(* C locals belong to the calling thread and the context is only read, so  *)
(* calls of different threads do not interact here; what they share, the   *)
(* Java arrays of the caller, appears as the set of arrays a call writes.  *)
(***************************************************************************)
EXTENDS GlueSteps

CONSTANTS Methods,                \* the names of the native methods
          Program                 \* a sequence of steps for each of them

VARIABLES method,                 \* the method that runs, or ran last
          code,                   \* its program
          absent,                 \* the optional arguments passed as null
          pc,                     \* the step to execute next
          held,                   \* buffers allocated and not freed
          freed,                  \* buffers freed by this call
          ready,                  \* locals and buffers that have a value
          vetted,                 \* locals whose magic has been compared
          written,                \* arrays of the caller that were written
          verdict,                \* the status code of the library call
          throws,                 \* calls of ThrowNew, or OutOfMemoryError
          status                  \* how far the call is

vars == <<method, code, absent, pc, held, freed, ready, vetted, written, verdict,
          throws, status>>

NoMethod == "none"

Options(p) == {p[i].opt : i \in DOMAIN p} \ {Always}

Buffers(p) == UNION {p[i].allocs : i \in DOMAIN p}

Running == status = "running"

AtStep == Running /\ pc <= Len(code)

(* The step at pc is executed, not skipped.                                *)
Applies == AtStep /\ code[pc].opt \notin absent /\ verdict \in code[pc].on

TypeOK ==
    /\ method \in Methods \cup {NoMethod}
    /\ code = IF method = NoMethod THEN <<>> ELSE Program[method]
    /\ absent \subseteq STRING
    /\ pc \in Nat \ {0}
    /\ held \subseteq STRING /\ freed \subseteq STRING
    /\ ready \subseteq STRING /\ vetted \subseteq STRING
    /\ written \subseteq STRING
    /\ verdict \in Verdicts
    /\ throws \in 0..2
    /\ status \in {"idle", "running", "returned", "threw", "oom"}

Init ==
    /\ method = NoMethod /\ code = <<>> /\ absent = {} /\ pc = 1
    /\ held = {} /\ freed = {} /\ ready = {} /\ vetted = {} /\ written = {}
    /\ verdict = "none" /\ throws = 0 /\ status = "idle"

(* Java calls m with the arguments in a absent.                            *)
Call(m, a) ==
    /\ status = "idle"
    /\ method' = m /\ code' = Program[m] /\ absent' = a
    /\ status' = "running"
    /\ UNCHANGED <<pc, held, freed, ready, vetted, written, verdict, throws>>

(* Java takes the result or handles the exception.  The locals of the call *)
(* are gone; a buffer it leaked stays allocated.                           *)
BackInJava ==
    /\ status \in {"returned", "threw", "oom"}
    /\ method' = NoMethod /\ code' = <<>> /\ absent' = {} /\ pc' = 1
    /\ freed' = {} /\ ready' = {} /\ vetted' = {} /\ written' = {}
    /\ verdict' = "none" /\ throws' = 0 /\ status' = "idle"
    /\ UNCHANGED held

Skip ==
    /\ AtStep /\ ~Applies
    /\ pc' = pc + 1
    /\ UNCHANGED <<method, code, absent, held, freed, ready, vetted, written,
                   verdict, throws, status>>

(* What a step does to memory when it goes on.                             *)
Effect(s) ==
    /\ held' = (held \cup s.allocs) \ s.frees
    /\ freed' = (freed \ s.allocs) \cup (s.frees \cap held)
    /\ vetted' = vetted \cup s.vets
    /\ written' = written \cup s.writes
    /\ pc' = pc + 1

Proceed ==
    /\ Applies
    /\ code[pc].rejects \cap absent = {}
    /\ DOMAIN code[pc].outs = {}
    /\ Effect(code[pc])
    /\ ready' = ready \cup code[pc].yields
    /\ UNCHANGED <<method, code, absent, verdict, throws, status>>

(* The library returns status code v and fills the outputs of that code.   *)
Verdict(v) ==
    /\ Applies
    /\ v \in DOMAIN code[pc].outs
    /\ Effect(code[pc])
    /\ ready' = ready \cup code[pc].outs[v]
    /\ verdict' = v
    /\ UNCHANGED <<method, code, absent, throws, status>>

(* An error path that returns without freeing.                             *)
BareReturn(s, got) ==
    /\ got \subseteq s.allocs /\ (s.allocs # {} => got # s.allocs)
    /\ held' = held \cup got
    /\ throws' = s.raises
    /\ UNCHANGED <<method, code, absent, pc, freed, ready, vetted, written, verdict>>

(* The error path of a step: of several allocations some may have          *)
(* succeeded; the buffers in undo are freed, then the exception is thrown. *)
Unwind(s, got) ==
    /\ got \subseteq s.allocs /\ (s.allocs # {} => got # s.allocs)
    /\ held' = (held \cup got) \ s.undo
    /\ throws' = s.raises
    /\ UNCHANGED <<method, code, absent, pc, freed, ready, vetted, written, verdict>>

Throw(got) ==
    /\ Applies /\ code[pc].raises > 0 /\ code[pc].op # "new"
    /\ Unwind(code[pc], got)
    /\ status' = "threw"

(* The VM cannot allocate the Java array of the result.                    *)
OutOfMemory ==
    /\ Applies /\ code[pc].raises > 0 /\ code[pc].op = "new"
    /\ Unwind(code[pc], {})
    /\ status' = "oom"

Return ==
    /\ Running /\ pc > Len(code)
    /\ status' = "returned"
    /\ UNCHANGED <<method, code, absent, pc, held, freed, ready, vetted, written,
                   verdict, throws>>

Next ==
    \/ \E m \in Methods : \E a \in SUBSET Options(Program[m]) : Call(m, a)
    \/ Skip
    \/ Proceed
    \/ \E v \in Verdicts : Verdict(v)
    \/ \E got \in SUBSET (IF AtStep THEN code[pc].allocs ELSE {}) : Throw(got)
    \/ OutOfMemory
    \/ Return
    \/ BackInJava

Spec == Init /\ [][Next]_vars

-----------------------------------------------------------------------------
(* No call leaves a buffer behind: whatever step fails, whatever arguments *)
(* are absent, malloc'ed and pinned memory is released before the method   *)
(* returns to Java.                                                        *)
NoLeak == ~Running => held = {}

(* No step frees a buffer the call has freed before, on its way or on its  *)
(* error path (free of a pointer that is still NULL is harmless).          *)
NoDoubleFree ==
    Applies => (code[pc].frees \cup code[pc].undo) \cap freed = {}

(* A buffer the next step reads or fills is allocated; one that belongs to *)
(* an absent argument is passed as NULL.                                   *)
BuffersLive ==
    Applies =>
        /\ (code[pc].reads \cup code[pc].yields) \cap Buffers(code)
               \subseteq held \cup code[pc].allocs
        /\ code[pc].given \cap Buffers(code) \subseteq held \cup absent

(* The argument of method m whose absence excuses that x is read unfilled: *)
(* the bindings copy the share of a recovery to the caller although a call *)
(* without host secret key, which the Kotlin side never makes, has none.   *)
Needs(m, x) ==
    IF m = "chilldkg_participant_recover" /\ x = "secshare32" THEN {"hostseckey"} ELSE {}

(* What may be read although nothing has filled it: that share, and under  *)
(* a fault the sum of the shares, which the Kotlin side drops.             *)
UnsetUnder(m, a, v) ==
    {x \in {"secshare32"} : Needs(m, x) \cap a # {}}
    \cup (IF m = "enrollment_share_agg" /\ v = "fault" THEN {"sigma"} ELSE {})

(* Neither the library nor an array of Java is ever given a C local that   *)
(* nothing has filled, but for those two.                                  *)
OnlyInitialisedReads ==
    Applies =>
        /\ code[pc].reads \subseteq ready \cup UnsetUnder(method, absent, verdict)
        /\ code[pc].given \subseteq ready \cup absent

(* An opaque blob that came from Java reaches the library only after its   *)
(* magic prefix has been compared, so the library's own check, whose       *)
(* default reaction is to abort the process, is never the first one.       *)
OnlyVettedBlobs ==
    Applies /\ code[pc].op = "lib" =>
        (code[pc].reads \cup code[pc].given) \cap Opaque
            \subseteq vetted \cup absent

(* The glue does not throw while an exception of its own is pending; the   *)
(* one exception is the OutOfMemoryError of the VM, on top of which        *)
(* copy_bytes_to_java throws again.                                        *)
ThrowsWhenNonePending == throws > 1 => status = "oom"

(* The enrollment methods that throw again after a helper has thrown.      *)
RethrowingMethods ==
    {"enrollment_share_agg", "enrollment_pubshare_derive",
     "enrollment_secshare_gen"}

(* All the other methods throw at most one exception of their own.         *)
OneThrow == method \notin RethrowingMethods => ThrowsWhenNonePending

(* Methods that write an array of the caller before the allocation of      *)
(* their result can fail.                                                  *)
WriteBeforeResult ==
    {"frost_pubkey_xonly_tweak_add", "frost_pubkey_ec_tweak_add",
     "chilldkg_participant_step1", "enrollment_share_agg"}

(* A call that throws has not touched the arrays of its caller, so that it *)
(* can be retried; when the VM is out of memory this holds for every       *)
(* method but the four above.                                              *)
ThrowLeavesArrays ==
    /\ status = "threw" => written = {}
    /\ status = "oom" => written = {} \/ method \in WriteBeforeResult

Java == INSTANCE JavaCall WITH
            Arrays <- STRING,
            Partial <- WriteBeforeResult,
            Rethrowing <- RethrowingMethods,
            changed <- IF Running THEN {} ELSE written,
            leaked <- IF Running THEN {} ELSE held

(* Java sees each call as one event: it ends once, and what it leaves      *)
(* behind, arrays, memory and exceptions, is what its outcome allows.      *)
CallsAreAtomic == Java!Spec
=============================================================================
