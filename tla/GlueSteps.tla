------------------------------ MODULE GlueSteps ------------------------------
(***************************************************************************)
(* The vocabulary in which the JNI bindings are written down: a native     *)
(* method of fr_acinq_secp256k1_Secp256k1CFunctions.c is straight-line     *)
(* code, so it is a sequence of steps, each of which either goes on or     *)
(* ends the call with a Java exception.  The operators below are the       *)
(* helpers and macros of that file (get_bytes, CHECKMAGIC, CHECKRESULT1,   *)
(* get_signer_ids, ...); each yields a short sequence, and a method is     *)
(* their concatenation.                                                    *)
(*                                                                         *)
(* What a step keeps of the code: which C buffers it allocates and frees   *)
(* (also on its error path), which locals it fills and reads, which        *)
(* optional Java argument guards it, how often it throws when it fails,    *)
(* and which caller-supplied Java arrays it writes.  Contents and lengths  *)
(* are abstracted: a check may pass or fail.  Consecutive tests with the   *)
(* same error path are one step, and so is a loop over array elements.     *)
(***************************************************************************)
EXTENDS Naturals, Sequences, FiniteSets

Always == "-"                     \* the guard of a step no argument controls

Verdicts == {"none", "ok", "fault", "unknown"}

(* The opaque structs of libsecp256k1 that Java carries as raw bytes and   *)
(* that CHECKMAGIC protects.                                               *)
Opaque == {"musigSecnonce", "keyaggCache", "musigSession",
           "frostSecnonce", "tweakCache", "frostSession",
           "state1", "state2", "coordinatorState", "invData",
           "shareCache"}

(* A step that does nothing.                                               *)
(*   opt     the Java argument whose absence (null) skips the step         *)
(*   on      the library verdicts under which the step is executed         *)
(*   raises  throws on failure: 0 = cannot fail, 1 = throws and returns,   *)
(*           2 = throws although an exception is already pending           *)
(*   undo    buffers freed before a failing step returns                   *)
(*   rejects arguments whose absence makes the step fail                   *)
(*   outs    for a library call with a status code: per verdict, the       *)
(*           locals it fills                                               *)
Nop == [op |-> "check", opt |-> Always, on |-> Verdicts, raises |-> 0,
        allocs |-> {}, frees |-> {}, undo |-> {}, rejects |-> {},
        reads |-> {}, given |-> {}, yields |-> {}, vets |-> {},
        writes |-> {}, outs |-> <<>>]

(* Every step of program p is guarded by the optional argument x.          *)
IfGiven(x, p) == [i \in DOMAIN p |-> [p[i] EXCEPT !.opt = x]]

-----------------------------------------------------------------------------
(* Macros and small helpers.                                               *)

(* CHECKRESULT / CHECKRESULT1 on a condition of the arguments.             *)
Check(undo) == <<[Nop EXCEPT !.raises = 1, !.undo = undo]>>

(* The test of the context pointer every method starts with.             *)
CheckContext == Check({})

(* CHECKRESULT1 that also refuses a null argument.                         *)
Refuse(args, undo) ==
    <<[Nop EXCEPT !.raises = 1, !.undo = undo, !.rejects = args]>>

(* get_bytes, get_bytes32, get_pubkey, get_signature: copy an argument to  *)
(* a C local; on failure they throw and the caller frees and returns.      *)
Get(x, undo) == <<[Nop EXCEPT !.raises = 1, !.undo = undo, !.yields = {x}]>>

GetIf(x, undo) == IfGiven(x, Get(x, undo))

(* CHECKMAGIC.                                                             *)
CheckMagic(x, undo) ==
    <<[Nop EXCEPT !.raises = 1, !.undo = undo, !.reads = {x}, !.vets = {x}]>>

(* An opaque blob taken in without the comparison.                         *)
UncheckedBlob(x, undo) == Get(x, undo)

(* get_bytes and CHECKMAGIC: how an opaque blob comes in from Java.        *)
Blob(x, undo) == Get(x, undo) \o CheckMagic(x, undo)

BlobIf(x, undo) == IfGiven(x, Blob(x, undo))

(* malloc or calloc of each of bs, then one test for NULL.                 *)
Alloc(bs, undo) ==
    <<[Nop EXCEPT !.op = "alloc", !.raises = 1, !.allocs = bs, !.undo = undo]>>

(* Two buffers allocated and tested one after the other, the second        *)
(* freeing the first on failure, and both filled by a loop over a Java     *)
(* array that reads and parses one element at a time.                      *)
ParsedArray(items, ptrs) ==
    Check({}) \o Alloc({items}, {}) \o Alloc({ptrs}, {items})
    \o <<[Nop EXCEPT !.raises = 1, !.undo = {items, ptrs},
                     !.yields = {items, ptrs}]>>

(* A library call that fills outs and returns 0 or 1, tested by            *)
(* CHECKRESULT; frees are freed before the test, and undo is all that is   *)
(* freed when it fails.                                                    *)
LibUndo(reads, given, yields, frees, undo) ==
    <<[Nop EXCEPT !.op = "lib", !.raises = 1, !.frees = frees, !.undo = undo,
                  !.reads = reads, !.given = given, !.yields = yields,
                  !.vets = yields]>>

LibFree(reads, given, yields, frees) ==
    LibUndo(reads, given, yields, frees, frees)

Lib(reads, given, yields) == LibFree(reads, given, yields, {})

(* A library call whose result is the method's own result: nothing throws. *)
Verify(reads, frees) ==
    <<[Nop EXCEPT !.op = "lib", !.reads = reads, !.frees = frees]>>

(* A library call that returns a status code (the chilldkg functions): it  *)
(* never throws, and fills the locals in outs[v] under verdict v.          *)
Decide(reads, given, outs, frees) ==
    <<[Nop EXCEPT !.op = "lib", !.reads = reads, !.given = given,
                  !.outs = outs, !.frees = frees]>>

(* What the call has filled besides, when the optional argument x was      *)
(* given, under verdict v.                                                 *)
FillsIf(x, v, locals) ==
    <<[Nop EXCEPT !.op = "lib", !.opt = x, !.on = {v}, !.yields = locals]>>

Free(bs) == <<[Nop EXCEPT !.frees = bs]>>

(* SetByteArrayRegion / SetIntArrayRegion into an array of the caller.     *)
Set(array, local) ==
    <<[Nop EXCEPT !.op = "set", !.reads = {local}, !.writes = {array}]>>

On(v, p) == [i \in DOMAIN p |-> [p[i] EXCEPT !.on = {v}]]

(* copy_bytes_to_java (and the NewByteArray of the musig functions).  When *)
(* the VM cannot allocate, OutOfMemoryError is pending and CHECKRESULT     *)
(* throws on top of it.  The buffers in held are freed either way.         *)
NewArrayThenFree(local, held) ==
    <<[Nop EXCEPT !.op = "new", !.raises = 2, !.reads = {local},
                  !.frees = held, !.undo = held]>>

NewArray(local) == NewArrayThenFree(local, {})

-----------------------------------------------------------------------------
(* Helpers that hand a malloc'ed buffer to their caller.  undo is what the *)
(* caller frees when they fail; they free their own buffers themselves.    *)

(* get_var_bytes: a null array gives a NULL buffer.                        *)
GetVarBytes(x, undo) ==
    IfGiven(x, Alloc({x}, undo) \o <<[Nop EXCEPT !.yields = {x}]>>)

(* get_signer_ids that returns on a negative id without freeing its copy.  *)
LeakySignerIds ==
    Alloc({"elems"}, {}) \o Alloc({"ids"}, {"elems"})
    \o <<[Nop EXCEPT !.raises = 1, !.undo = {"elems"}, !.yields = {"ids"}],
         [Nop EXCEPT !.frees = {"elems"}]>>

(* get_signer_ids: pins the Java ints, copies them one by one, unpins.     *)
GetSignerIds ==
    Alloc({"elems"}, {}) \o Alloc({"ids"}, {"elems"})
    \o <<[Nop EXCEPT !.raises = 1, !.undo = {"ids", "elems"},
                     !.yields = {"ids"}],
         [Nop EXCEPT !.frees = {"elems"}]>>

(* get_pubshares, get_hostpubkeys33, get_flat32: a single buffer filled    *)
(* element by element.  raises is 2 where the caller passes the NULL on to *)
(* CHECKRESULT1 instead of returning.                                      *)
GetFlat(buf, undo, raises) ==
    <<[Nop EXCEPT !.op = "alloc", !.raises = raises, !.allocs = {buf},
                  !.undo = undo],
      [Nop EXCEPT !.raises = raises, !.undo = undo \cup {buf},
                  !.yields = {buf}]>>

(* The public shares handed to CHECKRESULT1 although get_pubshares has     *)
(* already thrown.                                                         *)
PubsharesTestedAgain(undo) ==
    IfGiven("pubshares", GetFlat("pubshares", undo, 2)
                         \o Check(undo \cup {"pubshares"}))

(* get_pubshares on an optional array, and the count test that follows it. *)
PubsharesIfGiven(undo) ==
    IfGiven("pubshares", GetFlat("pubshares", undo, 1)
                         \o Check(undo \cup {"pubshares"}))

(* get_msg_ptrs: a flat copy of the messages and an array of pointers into *)
(* it.                                                                     *)
GetMsgPtrs(flat, ptrs, undo) ==
    Check(undo) \o Alloc({flat}, undo) \o Alloc({ptrs}, undo \cup {flat})
    \o <<[Nop EXCEPT !.raises = 1, !.undo = undo \cup {flat, ptrs},
                     !.yields = {flat, ptrs}]>>

(* get_iceberg_share: a variable-length copy parsed and freed at once.     *)
GetIcebergShare ==
    Check({}) \o Alloc({"shareBytes"}, {})
    \o <<[Nop EXCEPT !.yields = {"shareBytes"}]>>
    \o LibFree({"shareBytes"}, {}, {"share"}, {"shareBytes"})
=============================================================================
