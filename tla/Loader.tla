------------------------------- MODULE Loader -------------------------------
(***************************************************************************)
(* How JVMs that share a temporary directory extract the native library,   *)
(* load it and clean up after each other (Secp256k1JniJvmLoader).          *)
(*                                                                         *)
(* Each extraction picks a fresh name (a UUID).  An empty lock file, made  *)
(* before the library file, tells the clean-up of other JVMs that the      *)
(* library is in use; the JVM deletes both when it exits, the lock first.  *)
(* A JVM that crashes deletes neither.  load() is synchronized, so a JVM   *)
(* has one loader at a time; what another of its threads may do meanwhile  *)
(* is to exit.  A later load() of a JVM that has loaded is a no-op.        *)
(***************************************************************************)
EXTENDS Naturals, Sequences

CONSTANTS JVMs,                  \* the processes that share the directory
          MaxLoads               \* bound: calls of load() per process

ASSUME MaxLoadsAssumption == MaxLoads \in Nat \ {0}

VARIABLES libs,                  \* library files in the directory, by name
          lcks,                  \* names that have a lock file
          pc,                    \* where the loader thread of each JVM is
          loads,                 \* extractions each JVM has begun
          todo,                  \* files its clean-up has still to visit
          victim,                \* the file its clean-up found unlocked
          onExit,                \* deletions registered with deleteOnExit,
                                 \* the last one first
          life                   \* "up", "exiting", "exited" or "crashed"

vars == <<libs, lcks, pc, loads, todo, victim, onExit, life>>

(* The name of the files of the current extraction, a fresh UUID.          *)
Name(j) == <<j, loads[j]>>

Names == JVMs \X (0..MaxLoads)

(* What deleteOnExit is given: the library or the lock of a name.          *)
Entries == {"lib", "lck"} \X Names

(* Between loads, sweeping, extracting, and loaded from the extracted file *)
(* or from the path in a system property.                                  *)
Places == {"idle", "sweep", "delete", "lock", "create", "copy", "closing",
           "verify", "load", "loaded", "loadedFromPath"}

TypeOK ==
    /\ libs \subseteq Names /\ lcks \subseteq Names
    /\ pc \in [JVMs -> Places]
    /\ loads \in [JVMs -> 0..MaxLoads]
    /\ todo \in [JVMs -> SUBSET Names]
    /\ victim \in [JVMs -> Names]
    /\ onExit \in [JVMs -> Seq(Entries)]
    /\ life \in [JVMs -> {"up", "exiting", "exited", "crashed"}]

Init ==
    /\ libs = {} /\ lcks = {}
    /\ pc = [j \in JVMs |-> "idle"]
    /\ loads = [j \in JVMs |-> 0]
    /\ todo = [j \in JVMs |-> {}]
    /\ victim = [j \in JVMs |-> <<j, 0>>]
    /\ onExit = [j \in JVMs |-> <<>>]
    /\ life = [j \in JVMs |-> "up"]

-----------------------------------------------------------------------------
(* The process has not ended; its loader thread runs on while it exits.    *)
Alive(j) == life[j] \in {"up", "exiting"}

At(j, place) == Alive(j) /\ pc[j] = place

Goto(j, place) == pc' = [pc EXCEPT ![j] = place]

(* load(): cleanup() lists the libraries, whatever their locks.            *)
ListFiles(j) ==
    /\ At(j, "idle") /\ loads[j] < MaxLoads
    /\ todo' = [todo EXCEPT ![j] = libs]
    /\ loads' = [loads EXCEPT ![j] = @ + 1]
    /\ Goto(j, "sweep")
    /\ UNCHANGED <<libs, lcks, victim, onExit, life>>

CheckLock(j, f) ==
    /\ At(j, "sweep") /\ f \in todo[j]
    /\ todo' = [todo EXCEPT ![j] = @ \ {f}]
    /\ IF f \in lcks THEN UNCHANGED <<pc, victim>>
       ELSE Goto(j, "delete") /\ victim' = [victim EXCEPT ![j] = f]
    /\ UNCHANGED <<libs, lcks, loads, onExit, life>>

(* File.delete may refuse: Windows keeps a library that is mapped, another *)
(* user's file is not this process's to delete.  Nobody looks at the       *)
(* result, and the SecurityException it may throw is caught.               *)
DeleteLib(f) == libs' \in {libs, libs \ {f}}

(* The clean-up ends with the first deletion that is refused.              *)
DeleteVictimOrStop(j) ==
    /\ At(j, "delete")
    /\ DeleteLib(victim[j])
    /\ Goto(j, "sweep")
    /\ IF victim[j] \in libs' THEN todo' = [todo EXCEPT ![j] = {}] ELSE UNCHANGED todo
    /\ UNCHANGED <<lcks, loads, victim, onExit, life>>

DeleteVictim(j) ==
    /\ At(j, "delete")
    /\ DeleteLib(victim[j])
    /\ Goto(j, "sweep")
    /\ UNCHANGED <<lcks, loads, todo, victim, onExit, life>>

(* The sweep is over.  With fr.acinq.secp256k1.lib.path set nothing is     *)
(* extracted: the library is loaded from there, or load() fails.           *)
SweptAll(j) ==
    /\ At(j, "sweep") /\ todo[j] = {}
    /\ \E place \in {"lock", "loadedFromPath", "idle"} : Goto(j, place)
    /\ UNCHANGED <<libs, lcks, loads, todo, victim, onExit, life>>

(* The test for an existing lock file inverted: none is ever made.         *)
CreateNoLock(j) ==
    /\ At(j, "lock")
    /\ Goto(j, "create")
    /\ UNCHANGED <<libs, lcks, loads, todo, victim, onExit, life>>

CreateLock(j) ==
    /\ At(j, "lock")
    /\ lcks' = lcks \cup {Name(j)}
    /\ Goto(j, "create")
    /\ UNCHANGED <<libs, loads, todo, victim, onExit, life>>

CreateLib(j) ==
    /\ At(j, "create")
    /\ libs' = libs \cup {Name(j)}
    /\ Goto(j, "copy")
    /\ UNCHANGED <<lcks, loads, todo, victim, onExit, life>>

(* The copy ends, with or without an error, in the finally block, which    *)
(* registers the library and then its lock.  deleteOnExit throws once the  *)
(* JVM is exiting.                                                         *)
RegisterLib(j) ==
    /\ At(j, "copy") /\ life[j] = "up"
    /\ onExit' = [onExit EXCEPT ![j] = <<<<"lib", Name(j)>>>> \o @]
    /\ Goto(j, "closing")
    /\ UNCHANGED <<libs, lcks, loads, todo, victim, life>>

(* The lock registered under a name that is not its own.                   *)
RegisterWrongName(j) ==
    /\ At(j, "closing") /\ life[j] = "up"
    /\ onExit' = [onExit EXCEPT ![j] = <<<<"lck.lck", Name(j)>>>> \o @]
    /\ \E place \in {"verify", "idle"} : Goto(j, place)
    /\ UNCHANGED <<libs, lcks, loads, todo, victim, life>>

RegisterLock(j) ==
    /\ At(j, "closing") /\ life[j] = "up"
    /\ onExit' = [onExit EXCEPT ![j] = <<<<"lck", Name(j)>>>> \o @]
    /\ \E place \in {"verify", "idle"} : Goto(j, place)
    /\ UNCHANGED <<libs, lcks, loads, todo, victim, life>>

(* The contents of the file are compared with the resource.                *)
Verify(j) ==
    /\ At(j, "verify") /\ Name(j) \in libs
    /\ Goto(j, "load")
    /\ UNCHANGED <<libs, lcks, loads, todo, victim, onExit, life>>

(* System.load maps the file, which must still be there.                   *)
Load(j) ==
    /\ At(j, "load") /\ Name(j) \in libs
    /\ Goto(j, "loaded")
    /\ UNCHANGED <<libs, lcks, loads, todo, victim, onExit, life>>

(* A file cannot be created, written or read back, or deleteOnExit throws: *)
(* load() throws, and the caller may try again.                            *)
LoadFails(j) ==
    /\ \/ pc[j] \in {"lock", "create", "verify", "load"} /\ Alive(j)
       \/ pc[j] \in {"copy", "closing"} /\ life[j] = "exiting"
    /\ Goto(j, "idle")
    /\ UNCHANGED <<libs, lcks, loads, todo, victim, onExit, life>>

-----------------------------------------------------------------------------
(* The end of a process.                                                   *)

BeginExit(j) ==
    /\ life[j] = "up"
    /\ life' = [life EXCEPT ![j] = "exiting"]
    /\ UNCHANGED <<libs, lcks, pc, loads, todo, victim, onExit>>

(* The exit hook deletes what was registered, last first.  A process can   *)
(* delete the empty lock file it made: nobody maps or opens it.            *)
ExitHook(j) ==
    /\ life[j] = "exiting" /\ onExit[j] # <<>>
    /\ LET entry == Head(onExit[j]) IN
       IF entry[1] = "lck" THEN lcks' = lcks \ {entry[2]} /\ UNCHANGED libs
                           ELSE DeleteLib(entry[2]) /\ UNCHANGED lcks
    /\ onExit' = [onExit EXCEPT ![j] = Tail(@)]
    /\ UNCHANGED <<pc, loads, todo, victim, life>>

Exited(j) ==
    /\ life[j] = "exiting" /\ onExit[j] = <<>>
    /\ life' = [life EXCEPT ![j] = "exited"]
    /\ UNCHANGED <<libs, lcks, pc, loads, todo, victim, onExit>>

(* Killed, or the power is lost: no hook runs.                             *)
Crash(j) ==
    /\ Alive(j)
    /\ life' = [life EXCEPT ![j] = "crashed"]
    /\ UNCHANGED <<libs, lcks, pc, loads, todo, victim, onExit>>

Sweep(j) == (\E f \in todo[j] : CheckLock(j, f)) \/ DeleteVictim(j) \/ SweptAll(j)

Extract(j) ==
    \/ CreateLock(j) \/ CreateLib(j) \/ RegisterLib(j) \/ RegisterLock(j)
    \/ Verify(j) \/ Load(j) \/ LoadFails(j)

End(j) == BeginExit(j) \/ ExitHook(j) \/ Exited(j) \/ Crash(j)

Next == \E j \in JVMs : ListFiles(j) \/ Sweep(j) \/ Extract(j) \/ End(j)

(* A load() that has begun runs on; nothing else is promised.              *)
Fairness == \A j \in JVMs : WF_vars(Sweep(j))

Spec == Init /\ [][Next]_vars /\ Fairness

-----------------------------------------------------------------------------
(* The file a JVM is extracting or has mapped.                             *)
InUse(j) ==
    /\ life[j] = "up"
    /\ pc[j] \in {"copy", "closing", "verify", "load", "loaded"}

(* No clean-up, of whatever process, takes away a library between the      *)
(* moment its owner creates the file and the moment the owner exits: the   *)
(* lock that protects it is there first and goes last.                     *)
LibraryKept == \A j \in JVMs : InUse(j) => Name(j) \in libs \cap lcks

(* A JVM that exits after load() has succeeded leaves no lock behind, so   *)
(* what remains of its library can be swept by the next JVM (on Windows,   *)
(* the library itself cannot be deleted by its owner).                     *)
ExitUnlocks ==
    \A j \in JVMs :
        life[j] = "exited" /\ pc[j] = "loaded" => Name(j) \notin lcks

Ended(j) == life[j] \in {"exited", "crashed"}

(* The clean-up has found the library unlocked and is about to delete it.  *)
Attempted(j, f) == At(j, "delete") /\ victim[j] = f

(* A clean-up gets to each left-over library without a lock that it has    *)
(* listed, whatever becomes of the others: the library is gone, or its     *)
(* deletion is attempted, unless the JVM that cleans up ends before.       *)
LeftoversSwept ==
    \A j \in JVMs : \A f \in (JVMs \ {j}) \X (1..MaxLoads) :
        (At(j, "sweep") /\ f \in todo[j] \ lcks /\ Ended(f[1]))
            ~> (f \notin libs \/ Attempted(j, f) \/ Ended(j))

(* "Deleted old native libraries": a clean-up at least attempts to delete  *)
(* what it finds of a process that has ended, however that process ended.  *)
OldLibrariesDeleted ==
    \A j \in JVMs : \A f \in (JVMs \ {j}) \X (1..MaxLoads) :
        (At(j, "sweep") /\ f \in todo[j] /\ Ended(f[1]))
            ~> (f \notin libs \/ Attempted(j, f) \/ Ended(j))

(* The loader is on its way to a name whose library does not exist yet.    *)
Fresh(j) == pc[j] \in {"sweep", "delete", "lock", "create"}

(* A name that no extraction will use again.                               *)
Taken(f) ==
    \/ f[2] < loads[f[1]]
    \/ f[2] = loads[f[1]] /\ ~Fresh(f[1])

Directory == INSTANCE SharedDirectory WITH
                 Files <- Names,
                 present <- libs,
                 used <- {Name(j) : j \in {k \in JVMs : InUse(k)}},
                 past <- {f \in Names : Taken(f)}

(* The directory works as if no process ever deleted a file another one    *)
(* uses, and no name ever came up twice, although a clean-up looks at a    *)
(* lock file first and deletes the library later.                          *)
DirectoryShared == Directory!Spec
=============================================================================
