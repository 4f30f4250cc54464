# A verification project for secp256k1-kmp

secp256k1-kmp gives Kotlin programs the functions of libsecp256k1: ECDSA, Schnorr,
MuSig2, FROST, prefractal (FROST nested in MuSig2), ChillDKG, FROST share
enrollment and Iceberg. The cryptography is in a C library (a git submodule, not
part of this repository). What the repository adds is the code around it: JNI
bindings in C, a Kotlin layer that validates arguments, a second backend for
Kotlin/Native, and a loader that brings the native library into a JVM. That code
is what this project models.

Paths below are relative to the repository; `C:123` is a line of
`jni/c/src/fr_acinq_secp256k1_Secp256k1CFunctions.c`.

## 1. Inventory

| Component | State it keeps | Operations | Hard part |
| --- | --- | --- | --- |
| JNI bindings (`C`, `Secp256k1CFunctions.java`), 80 native methods: context create and destroy, and 78 in six families | none between calls; within a call: heap buffers, pinned Java arrays, locals, a pending exception | copy arguments in, vet them, call the library, copy results out | about 120 error paths, each with its own list of buffers to free; outputs that depend on a verdict; write-back into arrays of the caller |
| Context (`Secp256k1Context.kt`, `C:125-147`, `Secp256k1Native.ctx`) | one library context per process | create once, read by every call | created at class initialisation, never retried |
| JVM loader (`Secp256k1JniJvmLoader.kt`) | `extracted`; library and lock files in a temporary directory shared by all JVMs | `load`, `cleanup`, extraction, deletion at exit | several processes, crashes, failed attempts, exit during extraction, Windows |
| Android loader, backend selection (`Secp256k1JniAndroidLoader.kt`, `Secp256k1Jvm.kt`) | none | try Android, then JVM | fallback order |
| Kotlin API over JNI (`Secp256k1Jni.kt`) | none | one method per native method | sizes, identifiers and thresholds checked here and again in C |
| Kotlin/Native backend (`Secp256k1Native.kt`) | the lazy context | the same API | threads that meet at the lazy context; must refuse what the JNI backend refuses |
| Common API (`Secp256k1.kt`) | none; all protocol state is in byte arrays of the caller | MuSig2, FROST, prefractal, ChillDKG, enrollment, Iceberg | single use of nonces and session states, order of calls, messages between participants, recovery |

Interactions. Kotlin calls JNI with byte arrays; C copies them (so a library call
works on private copies), and writes back only caches, session states and outputs.
Protocol state therefore travels as opaque arrays (key aggregation and tweak
caches, sessions, secret nonces, ChillDKG states) whose four-byte prefix the
bindings compare before the library sees them. Calls share no C state but the
context, which is read-only after creation. JVMs share the temporary directory.

What makes each component correct:

* bindings: every buffer is freed once on every path; nothing is used after it
  was freed or before it was filled; the library never sees an unvetted blob; one
  exception at a time; a call that throws has not touched its caller's arrays;
* loader: a library in use is not deleted by the clean-up of another process;
  leftovers do not accumulate;
* context and start: one context, created once and complete before its first use,
  one outcome of the start for all threads, no thread that waits for ever;
* protocols: all honest participants agree on the key, recovery brings back a share
  of it or of an older one, a signature takes enough members that agreed to it, an
  enrolled participant holds the right share, and who is named is at fault.

## 2. Modules

| Module | Models | Depends on |
| --- | --- | --- |
| `GlueSteps` | the macros and helpers of the bindings as steps | |
| `KeysGlue`, `MusigGlue`, `FrostGlue`, `ChilldkgGlue`, `IcebergGlue` | the native methods as sequences of steps (`IcebergGlue` also has enrollment, `FrostGlue` also prefractal) | `GlueSteps` |
| `NativeCall` | the machine that runs a method; safety properties | `GlueSteps`, `JavaCall` |
| `JavaCall` | abstract: what a native method promises its Java caller | |
| `MCNativeCall` | the table of all methods, for TLC | all of the above |
| `Loader` | JVMs extracting, loading and cleaning up | `SharedDirectory` |
| `SharedDirectory` | abstract: what processes with files in one directory promise each other | |
| `Startup` | threads of one JVM: classes, loaders, the library, the context | `SharedContext` |
| `NativeContext` | threads of a Kotlin/Native program at the lazy context | `SharedContext` |
| `SharedContext` | abstract: what both backends promise about the context | |
| `ChilldkgSession` | ChillDKG between participants and a coordinator | `DkgAgreement` |
| `DkgAgreement` | abstract: what a key generation promises | |
| `FrostSigning` | FROST signing sessions of a group | `ThresholdSigning` |
| `ThresholdSigning` | abstract: what threshold signing promises | |
| `Enrollment` | FROST enrollment and repair between helpers and a target | |
| `X_proofs` for `NativeCall`, `Loader`, `Startup`, `NativeContext`, `ChilldkgSession`, `FrostSigning`, `Enrollment` | theorems | `X` |
| `MCX` and `MCXProofs` | instances for TLC; those with `Proofs` (and `MCFrostSigning`) extend the proof module, so that the run evaluates its inductive invariant or its assumptions | `X`, `X_proofs` |

### The bindings as programs

A native method is straight-line C: each statement goes on or ends the call with an
exception after freeing what its error path lists. So a method is a sequence of
steps and a step is a record:

* `raises`: 0 if it cannot fail, 1 if a failure throws and returns, 2 if a failure
  throws although an exception is already pending;
* `allocs`, `frees`, and `undo`, the buffers its error path frees;
* `reads`, `given` (passed, NULL when the argument is absent), `yields`, `vets`;
* `opt`, the Java argument whose absence skips it; `rejects`, arguments whose
  absence makes it fail;
* `outs` and `on`: what a library call fills under each status code, and the codes
  under which a later step is executed;
* `writes`, arrays of the caller.

`GlueSteps` has one operator per macro or helper of the file (`Check` for
`CHECKRESULT1`, `Blob` for `get_bytes` with `CHECKMAGIC`, `GetSignerIds`,
`GetMsgPtrs`, `NewArray` for `copy_bytes_to_java`, ...) and a method reads like its
source: compare `frost_session_init` with `C:1603-1663`. Names of buffers are the
names of the C variables or of the Java argument they come from. Abstracted away:
contents, lengths and the wording of exceptions. A test may pass or fail whatever
its argument, which only adds behaviours. Consecutive tests with the same error
path are one step; a loop over the elements of an array is one step that may fail
after its buffers exist. A fallible step whose several allocations share one NULL
test may fail with any proper subset of them made.

`NativeCall` runs the programs: `Call(m, a)` starts method `m` with the optional
arguments in `a` absent; `Skip`, `Proceed`, `Verdict(v)`, `Throw`, `OutOfMemory`
and `Return` execute steps; `BackInJava` ends the call. Leaked buffers survive
`BackInJava`. The variable `code` holds the program of the running method. There is
one thread because calls of different threads share no C state; the Java arrays
they may share are the `writes`.

`JavaCall` is the same call as Java sees it, one event: it returns and may have
changed arrays, or it throws and has changed none, or the VM is out of memory; no
memory of the call is left behind. While a call runs, what it holds and has written
is its own business (`leaked` and `changed` are empty); `CallsAreAtomic` says that
when it ends both are what the outcome allows.

### The loader

`Loader` has one loader thread per JVM (`load()` is synchronized) and the end of
the process beside it: `System.exit` from another thread runs the deletion hooks
while the loader thread goes on, and a crash runs nothing. Each extraction uses a
fresh name. The actions follow the code's order: `ListFiles`, `CheckLock` and
`DeleteVictim` (three steps, as `listFiles`, `exists` and `delete` are three system
calls), `SweptAll`, `CreateLock`, `CreateLib`, `RegisterLib`, `RegisterLock`,
`Verify`, `Load`, with `LoadFails` where an I/O error, or `deleteOnExit` on a JVM
that is exiting, ends `load()` with an exception. Deleting a library may fail,
whatever its state (`DeleteLib`): it is mapped on Windows, or another user's; the
code ignores the result and swallows a `SecurityException`. The exit hook deletes
what was registered, last first; that a process can delete the empty lock file it
made itself is assumed. `SweptAll` also covers a library path given as a system property (nothing is
extracted) and a missing resource. Not modelled: `cleanup()` called directly by the
application, `OSInfo`.

`SharedDirectory` knows nothing of locks: a file comes up under a name never used
before, is deleted only when nobody uses it, and does not come back. Its `used` are
the libraries between their creation and the end of their process, its `past` the
names (`Taken`) that `UUID.randomUUID` will not give again.

### The start on the JVM

`Startup` gives every thread a stack of tasks, the current one first. A class under
initialisation, or a loader's monitor, is held by the thread whose stack holds the
task that ends it, which makes both reentrant as they are in the JVM (JVMS 5.5; the
rules of the JVM are marked external in the map). The tasks are the statements of
the code in its order: the companion of `Secp256k1` (`Secp256k1.kt:1011`) finds a
loader (`Secp256k1Jvm.kt:22-35`), the loader opens the library and answers with
`Secp256k1Jni` (`Secp256k1JniJvmLoader.kt:26-36`), the first native method
initialises `Secp256k1Context`, which creates the context and installs the callback
(`C:125-134`). An exception takes the tasks off one by one (`Unwind`): monitors are
left, classes become erroneous for ever. Class paths are all subsets of the two
loaders; opening the library and creating the context may fail. `DefaultMethods`
says that the interface's bodies are JVM default methods, as the build makes them
(Kotlin 2.4.10, no `-jvm-default`; `build.gradle.kts:9`), so that initialising
`Secp256k1Jni` initialises the interface first; `DirectLoads` lets the application
call `load()` itself.

### The context of Kotlin/Native

`NativeContext` is `by lazy`: read without the lock, take the lock, look again, run
the initialiser (create, callback), publish (`Secp256k1Native.kt:27-34`). Unlike on
the JVM a failed creation is repeated by the next call. `Startup` and
`NativeContext` both implement `SharedContext`: one context is published, once, with
its callback installed by a thread that had it for itself.

### ChillDKG

An attempt of a participant is one call of `chilldkgParticipantStep1`; a transcript
is one attempt per participant. All messages ever sent (`attempts`, `cmsgs1`,
`sigs`, `cmsgs2`, `acks`) are sets from which a receiver takes any element at any
time, so messages are lost, repeated and reordered. `phase` and `seen` are what a
participant has in memory. Callers keep the rule of the documentation that a state
is used for one call. Recovery data is that of any certified transcript: a
participant may have it from another one or from the coordinator
(`Secp256k1.kt:801-803`). The coordinator may run sessions side by side, crash and
start over at any time, after a success too, so its recovery data can be of another
session than the one that was finalized. Three things are assumed: states do not
survive a restart, who holds a result takes no further part, and recovery data that
the coordinator once had stays available. The library's checks (own contribution in
`cmsg1`, a certificate of exactly this transcript) are external.

### FROST signing

Members make nonces, the coordinator aggregates public nonces it has received,
announces a session and aggregates the partial signatures that verify. Every party
has a tweak cache of its own, changed in place: `TweakThrows` is the call that fails
after it has changed the cache (`C:1467`). Each signer makes the session for itself
from the announcement and its own cache (`Own`), as `frostSessionInit` demands and
`FrostTest.runSigningSession` does; a partial signature verifies only in exactly the
session it was made in. Announcements, public nonces and partial signatures can be
received again at any time. A crash loses the secret nonces, the caches and the
coordinator's sessions. The bindings sign with a copy of the secret nonce
(`C:1683`, `C:3070`) and leave the caller's alone, so a member can sign again with
it, also in another session; a caller that drops its own does fewer of these steps.
That a nonce signs once is therefore no property of this code, and none is claimed.

### Enrollment

`SharesGen`, `ShareAgg` (with `ShareAggMismatch` for the result that names a helper)
and `SecshareGen` are the three rounds. Shares are symbols: the run they were made
in and their place in the maker's list. Helpers have lists of their own, in orders
of their own, because the parameters hash does not bind the order. A sum is right
(`AddsUp`) if it consists of all shares of one run of each helper; with arithmetic
left to the library that is what the check of the expected public share decides.
`RequireEnrollmentIds` is the Kotlin check of both backends. A copy of a share that a
helper has in hand can be damaged so that it is no scalar any more: then its maker,
or the helper itself for the share it kept, is named as it is for a hash that
differs (`Secp256k1.kt:632-635`). `SecshareGen` takes one hash to compare with its
own, or none, and may have the result compared with the expected public share, as
`frostEnrollmentSecshareGen` does; whether that hash is the one all helpers sent is
for the caller to see to, and is the `agreed` of the result.

## 3. Runs

| Run | Question | Instance | Result |
| --- | --- | --- | --- |
| `native_methods` | do all methods release, initialise, vet and write as they should, and throw once; is a call one event for its caller (`JavaCall`); do the real programs obey the discipline of the theorems (part of `IInv`) | all 78 methods (every native method but context create and destroy), every subset of optional arguments, every failing step | pass, 4 553 states |
| `rethrow` | does any method throw on top of the exception of a helper | the same | violated (finding 1) |
| `loader` | is a library in use ever deleted; does an exit leave locks; does `Loader` implement `SharedDirectory`; is the inductive invariant true | 2 JVMs, 2 loads each | pass, 1 173 021 states |
| `sweeping` | does a clean-up get to each unlocked leftover it listed, when any deletion may be refused | 2 JVMs, one that loads twice and one that loads once (`SpecOnce`), fairness | pass, 127 932 states |
| `crashed` | does a clean-up at least attempt to delete the libraries of crashed JVMs | 2 JVMs, 1 load each, fairness | violated (finding 2) |
| `startup` | is the library there before a native call; one outcome of the start; one context; do threads wait for each other; do calls end | 2 threads, all class paths, all failures, direct loads | pass, 30 818 states |
| `direct_load` | does `load()` return when it has loaded the library | the same | violated (finding 3) |
| `native_context` | is the context complete before use and shared; do calls end | 3 threads, one context more than allowed | pass |
| `dkg` | do all who finish hold one key; which keys can recovery bring back; do sessions implement `DkgAgreement`; does a success spread; does a smooth session end | 3 participants, 2 attempts each, 2 coordinator sessions, 1 crash or loss | pass, 246 237 states |
| `frost` | do sessions implement `ThresholdSigning`; which key comes out; do sessions end | 2 members who both sign, 2 nonces each, 1 tweak, 2 sessions, 3 faults | pass, 132 550 states |
| `frost_wiped` | is the nonce gone after the signing call | 3 members, threshold 2, 1 nonce each, 2 messages | violated (finding 4) |
| `enrollment` | is the share right; is blame deserved; are limits kept | 3 helpers, lists of two and three in two orders, a second run, a damaged share, a crash, one report | pass, 297 517 states |

The properties that say most:

* `StartIsFinal`: whatever the first call met, every later one meets, in every
  thread. `NoWaitingChain` (safety) and `CallsEnd` (liveness) hold under the
  condition that nobody calls a loader directly: with direct loads a thread in
  `load()` that initialises `Secp256k1Jni` and a thread in the initialiser of
  `Secp256k1` that waits for the loader's monitor can wait for each other for ever.
* `Agreement` and the refinement `OneKey` of ChillDKG, with overlapping attempts and
  sessions: all who finalize a session got the same key. `KeyIsLast`: recovery data
  can be of another key (TLC finds a participant that recovers it from a coordinator
  that ran two sessions), but only of one all of whose attempts are older, so the
  latest certified transcript is the one to prefer; the documentation says neither.
  `AcksMeanBackups` holds all the same: a participant that acknowledged and has
  something else now has lost data in between.
* The refinement `EnoughAgree` of FROST, although a member may sign any number of
  sessions with a nonce. `KeyIsPlanned`: a key other than the planned one needs more
  failed calls than there are signers, because all signers and the coordinator must
  have made the same mistake; fewer only make signing fail. With two signers and
  three faults the run does reach such a signature.
* `SharesAddUp`: a hash on which all agree is enough for the right share as long as
  no helper ran twice with these parameters; otherwise it takes the expected public
  share (without it TLC finds the mixture of two runs). `BlameIsTrue`: whoever is
  named used other parameters, or its share is damaged where the caller has it;
  naming oneself is possible for the second cause only.

Bounds. The bindings have none: programs are finite and all are in the table; one
call after another is enough because only leaked buffers outlive a call. The loader
bounds the calls of `load()` per process by `MaxLoads`: two allow a failed attempt
and a retry whose clean-up meets the files of the failure. The liveness run has one
process that may leave two libraries for the other (`SpecOnce`), so that a refused
deletion is followed by another file. Two processes suffice to
have one clean up while the other is at any point of its own extraction, exit or
crash; the theorem covers any number. `Startup` needs two threads for every race of
the initialisers; a context above the first is already one too many (`Contexts`).
`ChilldkgSession` needs a second attempt (`MaxAttempts`) and a second coordinator
session (`MaxSessions`) to mix transcripts, and `MaxFaults` a crash or loss on top;
`FrostSigning` needs two sessions (`MaxSessions`) over two nonces per member
(`MaxNonces`), which they may share or not, and three faults (`MaxFaults`) to spoil
the caches of two signers and the coordinator; `Enrollment` lets one helper
(`MaxAgain`) run twice (`MaxRuns`), with one damaged share in a call (`MaxDamaged`),
one crash (`MaxCrashes`) and one report (`MaxNamed`). Deadlock is checked for `NativeCall` and `NativeContext`; in the
others processes, sessions and bounded counters end.

Fairness. `NativeCall` and `Enrollment` have none, their properties are safety.
`Loader` assumes weak fairness of the steps of a clean-up that has begun: a loop of
system calls on a thread nothing blocks. `Startup` and `NativeContext` assume that a
thread that is not waiting runs; nothing makes it call, and who gets the lock next
is not promised. `ChilldkgSession` assumes that callers begin once, use a message
that is there and ask for recovery data once there is some; nothing makes them begin
again.
`FrostSigning` assumes that parties finish their tweaks, sign what is announced and
aggregate what verifies; nothing makes them open a session, make a nonce, fail or
crash. Both are what an application that uses the API to the end does; nothing in
the bindings retries for it.

Exceptions named in the properties of the bindings, each a fact about the code:

* `WriteBeforeResult`: four methods write an array of the caller before the
  allocation of their result can fail (`C:1467`, `C:1497`, `C:2054`, `C:3369`), so
  an `OutOfMemoryError` leaves the array changed. The MuSig2 functions
  (`C:935-939`) do it the other way round. `FrostSigning` shows what that means for
  a group.
* `UnsetUnder` names two reads of what nothing has filled.
  `chilldkg_participant_recover` with a NULL host secret key calls the library as the
  coordinator does, and still copies the local `secshare32` to an array for the share
  (`C:2310-2318`); `Secp256k1Jni.kt:546-566` always passes the key. And
  `enrollment_share_agg` returns the array made from `sigma32` even
  when it names a helper to blame (`C:3366-3371`); what the library leaves there is
  not visible in this repository. `Secp256k1Jni.kt:458` drops it.
* `ThrowsWhenNonePending` excludes the `OutOfMemoryError` of the VM, on top of which
  `copy_bytes_to_java` throws in every method. `OneThrow` also excludes the three
  methods of finding 1 (`RethrowingMethods`).

## 4. Findings

1. Throwing on a pending exception (`C:3356`, `C:3358`, `C:3399`, `C:3443`). The
   helpers' comment (`C:149-152`) expects callers "to return as soon as one of them
   fails"; three enrollment methods pass the NULL to `CHECKRESULT1`, which calls
   `FindClass` and `ThrowNew` with the helper's exception pending. Run `rethrow`.
2. Libraries of crashed JVMs (`Secp256k1JniJvmLoader.kt:63`). The comment of
   `cleanup` promises that old native libraries are deleted; a killed JVM leaves
   its lock file, and the lock keeps its library from every later clean-up. Run
   `crashed`. An attempt that fails between lock and library leaves a lone lock
   file in the same way.
3. A direct `load()` before the first use of `Secp256k1` loads the library and then
   throws (`Secp256k1JniJvmLoader.kt:35`): `return Secp256k1Jni` initialises the
   interface, whose companion calls `load()` again on the same thread, and the inner
   call returns an instance that is still null. The comment of `load()` promises an
   answer "if secp256k1 native library is successfully loaded". Run `direct_load`.
4. `prefractalSign`: the secret nonce "is wiped" (`Secp256k1.kt:478`), but the
   bindings wipe a copy and the caller's array keeps it (`C:3070`), as
   `PrefractalTest.nonceWipeIsNotPropagatedToTheCaller` asserts. Run `frost_wiped`.
   `frostSign` and `musigPartialSign` take the nonce in the same way; their
   comments only say that it must not be reused.

## 5. Proofs

`NativeCall_proofs` proves, for any table of methods of any length, that the
machine is safe if the programs obey a discipline that is a property of their text:

* `LeakFree`: a buffer that no step between its allocation and step i releases is
  in the `undo` of i, and no buffer is left at the end; `Releases` requires the
  freeing step to run whenever the allocating one did;
* `FreedOnce`: what one step frees no later step frees;
* `WritesLast`: nothing throws after a write to an array of the caller, but the
  allocation of the result in the listed methods;
* `ThrowsOnce`: only the allocation of a result throws on a pending exception, in
  all but the three methods of finding 1;
* `AllocatedFirst`, `FilledFirst`, `ComparedFirst`: a buffer, a local or an opaque
  blob that step i uses was allocated, filled or compared by an earlier step that is
  executed whenever i is (`SureBefore`): under every status code, and under no
  argument but those that are present at i (`Present`), because they guard i or
  because an earlier step refuses their absence. After a call with a status code
  only the codes under which i runs count. `FilledFirst` makes the two exceptions of
  `OnlyInitialisedReads`, by `Needs` and `UnsetUnder`.

The theorems assume `Discipline`, which states these of every method. It is an
assumption of the theorems and not of the model; a conjunct of `IInv` states it of
the running method, so the run `native_methods` evaluates it on every real program.
The inductive invariant `IInv` says
what `NoLeak` alone cannot: what a running call holds was allocated by a step
already executed and not released since (`HeldIsDue`), what it has freed was freed
by an earlier step (`FreedIsPast`), and likewise for written arrays
(`WrittenIsPast`). `FlowInv` says it the other way round: what an executed step
allocated is held until a step frees it, what it filled is ready, what it compared
is vetted, what it insists on is present. `SkipIInv` is where optional arguments
matter, `UnwindReleases` where error paths do. Results: `TypeCorrect`, `MemoryReleased` (`NoLeak`),
`FreedAtMostOnce` (`NoDoubleFree`), `FailedCallsAreClean` (`ThrowLeavesArrays`),
`ThrowsWhenClear` (`OneThrow`), `LiveBuffers` (`BuffersLive`), `InitialisedReads`
(`OnlyInitialisedReads`), `VettedBlobs` (`OnlyVettedBlobs`), `ImplementsJavaCall`
(`CallsAreAtomic`). The last puts the others together: a step inside a call is a
stutter of `JavaCall`, and the step that ends the call is the one of `Return`,
`Throw` and `OutOfMemory` that its status names.

`Loader_proofs` proves `LibraryKept` and `ExitUnlocks` for any number of JVMs and any
`MaxLoads`. The invariant adds that a name seen in the directory, in a listing or as a victim is
never extracted again (`SeenTaken`, fresh UUIDs), that the lock exists from before
the library until the process exits (`LockHeld`), that a victim is not in use even
if it came into use after the lock was looked for (`VictimIdle`), and that a
process registers only its own files (`OwnEntries`). For the exit, a loader past the
registration whose lock is still there has it in its exit list (`LockOnExit`).
`ImplementsDirectory` is the refinement of `SharedDirectory`: creating the library
is `Create` because its name is not `Taken` before, a failure or the end of a process
is `LetGo`, and both deletions (of a clean-up and of an exit hook) are `Delete`
because of `VictimIdle` and `OwnEntries`; all steps of lock files are stutters.

`Startup_proofs` proves `LibraryFirst`, `StartIsFinal` and the refinement of
`SharedContext` for any number of threads, whatever fails. There is no
induction over a stack; instead `Shape` says which stacks there are: the tasks of a
call of the API have ranks that grow from top to bottom and end in the answer, the
tasks that find the loader are above the end of the companion, each class is
initialised once. `Local` relates a stack to the rest of the state: an exception
below the initialisers means that the start has failed for good (`Unwinds`), a call
whose companion is done has a loaded library unless the cast of the loader's answer
is still to come (`AnswerCast`), the context is created before the call goes on
(`ContextFirst`) and only once (`ContextFresh`). `OneInitialiser`, `LibraryKnown`,
`OneContext` and `Decided` say what all threads share. The lemma `Others` is the
frame: what a thread does in the initialiser it holds leaves the `Local` of every
other thread true, because no other thread is in that initialiser. For the
refinement, a thread's place in `SharedContext` is read off its stack.

`NoCycle` proves `NoWaitingChain`: if nobody calls a loader directly, a thread that
somebody waits for does not wait. Whoever is in a loader, or initialises
`Secp256k1Jni`, does it inside an API call and so holds the initialisation of the
companion (`ApiInside`), which only one thread does; whoever waits for that one has
begun nothing (`NoneBegun`). `Secp256k1Context` is initialised only after the
companion (`ContextAfterApi`), so the one who does it waits for nobody. The argument
is about stacks of any depth and needs no order on the locks.

`NativeContext_proofs` proves `ExclusiveSetup`, `OnlySuccessIsFinal` and the
refinement of `SharedContext` for any number of threads: one thread is in the
initialiser and finds no context (`OneInitialiser`), the context on its way to be
published is the only one (`FirstContext`), and whoever uses a context or has had
success finds it published (`UsedWhenPublished`).

`ChilldkgSession_proofs` proves `Agreement`, `KeyIsLast`, `SuccessIsSigned`,
`AcksMeanBackups` and the refinement of `DkgAgreement` for any number of
participants, attempts, sessions and faults, and recovery from any certified
transcript. The argument is `NoCross`: if p signed T and a later attempt of p is in U,
then U was made after T, so nobody else signed U before an attempt of its own that
is in T. Two transcripts that all have signed are thus ordered the same way by all,
and `Finalized` puts the finalized one last in that order: somebody who finalized it
has not started again, and signs nothing more. What is recovered is older
(`KeyIsLast`) or the same. For the acknowledgments, `Acknowledged` counts the
participants that do not have what they acknowledged (`Forgot`): each of them has
lost data at least once.

`FrostSigning_proofs` proves `TypeOK` and the refinement of `ThresholdSigning` for any
group, threshold, plan of tweaks and faults. `CacheBound` keeps the caches within the
keys there are: each failed call makes a cache one tweak longer at most.

`KeysArePlanned` proves `KeyIsPlanned`. A party strays (`Strays`) if its cache is not
the part of the plan that it has done (`OnPlan`), or if it has told others of another
key, a member by a partial signature, the coordinator by a session. Only a call of
its own that failed makes a party stray, so there are at most as many strays as
faults (`StraysFailed`). A partial signature enters an aggregate only if signer and
coordinator made the same session, key included (`SignedByAll`); so when a signature
comes out under another key, all its signers and the coordinator are strays, one
party more than there are signers.

`Enrollment_proofs` proves `TypeOK`, `SharesAddUp` and `BlameIsTrue` for any helpers,
calls and bounds. `SigmasAreWhole` says that a sum is made of one message of each
helper, all of runs with its hash; if each helper has one such run, the sums of the
target are made of the same runs, and `SharesOfAll` shows that every share of these
runs is then in exactly one place, whatever the order of the lists. `RunsExtend`
carries what was said about runs from one state to the next; a damaged copy stays
damaged, so who was named for it stays rightly named.

Every safety property and every refinement that a run checks is stated by a theorem.
Only model-checked: liveness (`LeftoversSwept`, `CallsEnd`, `SuccessSpreads`,
`Completes`), because fairness is out of the prover's reach, and whether each real
method has the discipline, which is a finite table. That the four `violation` runs
fail is TLC's word too.

## 6. Plan

Done: the bindings, the loader, the start, the context, ChillDKG, FROST signing,
enrollment, and theorems for every safety property and refinement that is checked.
What is left to prove: lemmas about what the operators of `GlueSteps` build (that a
helper which allocates and fails leaves nothing to its caller), from which the
discipline of a method could be composed instead of evaluated. What is left to
model: the outer MuSig2 session of prefractal around `FrostSigning`, with nonces of
other MuSig2 signers and the coefficient that the inner group applies.

## 7. Not modelled

* The arithmetic of libsecp256k1, a submodule whose source is not in the repository:
  what it decides is external in every module. So are the investigations of ChillDKG
  (who is to blame is computed inside the library) and participants that deviate.
* Iceberg as a protocol: the bindings keep nothing between calls, nonces are derived
  from share and label inside the library, and the record of the labels is the
  caller's. A model could only restate the rule that a label is used once. The glue
  of its methods is modelled.
* The comparison of all argument checks of the two backends: they differ in lengths
  they compare (`Secp256k1Native.kt:761`), which no protocol step gets wrong, and no
  documentation says which wrong arguments each must refuse.
* Two threads that pass the same cache array: an array has one owner, the API
  promises nothing else.
* A share of an enrollment that is changed to another valid scalar: hashes do not tell,
  only the expected public share does, inside the library.
* Two newcomers enrolled at the same time under one identifier: who gets which
  identifier is decided outside the API.
* Contents and lengths of arguments in the bindings: a length test is a step that
  may fail, so a missing or wrong length test is not found here.
* `cleanup()` called directly by the application, operating system detection
  (string tables), build and publishing scripts; tests are read as documentation.
