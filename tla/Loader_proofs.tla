---------------------------- MODULE Loader_proofs ----------------------------
(***************************************************************************)
(* The lock files protect a library from the clean-up of any number of     *)
(* processes, each of which may extract and fail any number of times.      *)
(***************************************************************************)
EXTENDS Loader, TLAPS

(* What exists, and what a clean-up has seen, has been created.            *)
SeenTaken ==
    /\ \A f \in libs : Taken(f)
    /\ \A k \in JVMs : \A f \in todo[k] : Taken(f)
    /\ \A k \in JVMs : pc[k] = "delete" => Taken(victim[k])

(* The lock is there from before the library until the process exits.      *)
LockHeld ==
    \A j \in JVMs :
        life[j] = "up" /\ (pc[j] = "create" \/ InUse(j)) => Name(j) \in lcks

(* A clean-up never decides to delete a library in use, not even when it   *)
(* came into use after the decision.                                       *)
VictimIdle ==
    \A k \in JVMs : pc[k] = "delete" =>
        \A j \in JVMs : InUse(j) => victim[k] # Name(j)

(* A process registers its own files only.                                 *)
OwnEntries ==
    \A j \in JVMs : \A i \in 1..Len(onExit[j]) : onExit[j][i][2][1] = j

(* From the end of the finally block on, a lock that is still there is one *)
(* the exit hook has yet to delete.                                        *)
LockOnExit ==
    \A j \in JVMs :
        Alive(j) /\ pc[j] \in {"verify", "load", "loaded"} /\ Name(j) \in lcks =>
            \E i \in 1..Len(onExit[j]) : onExit[j][i] = <<"lck", Name(j)>>

IInv ==
    /\ TypeOK /\ SeenTaken /\ LockHeld /\ VictimIdle /\ OwnEntries
    /\ LibraryKept /\ LockOnExit /\ ExitUnlocks

Step(j) == ListFiles(j) \/ Sweep(j) \/ Extract(j) \/ End(j)

-----------------------------------------------------------------------------
(* The name a loader is working on is one of the names there are.          *)
LEMMA NameTyped == ASSUME TypeOK, NEW j \in JVMs PROVE Name(j) \in Names
BY DEF TypeOK, Name, Names

(* Every step keeps the type.                                              *)
LEMMA TypeStep ==
    ASSUME TypeOK, NEW j \in JVMs, Step(j)
    PROVE  TypeOK'
<1>1. CASE ListFiles(j)
  BY <1>1, NameTyped, MaxLoadsAssumption DEF ListFiles, TypeOK, At, Goto, Alive, Places, DeleteLib, Entries
<1>2. ASSUME NEW f \in todo[j], CheckLock(j, f) PROVE TypeOK'
  <2>1. f \in Names
    BY DEF TypeOK
  <2>2. todo' \in [JVMs -> SUBSET Names] /\ victim' \in [JVMs -> Names]
    BY <1>2, <2>1 DEF CheckLock, TypeOK
  <2>3. pc' \in [JVMs -> Places]
    BY <1>2 DEF CheckLock, TypeOK, Goto, Places
  <2> QED
    BY <1>2, <2>2, <2>3 DEF CheckLock, TypeOK
<1>3. CASE DeleteVictim(j)
  BY <1>3, NameTyped, MaxLoadsAssumption DEF DeleteVictim, TypeOK, At, Goto, Alive, Places, DeleteLib, Entries
<1>4. CASE SweptAll(j)
  BY <1>4, NameTyped, MaxLoadsAssumption DEF SweptAll, TypeOK, At, Goto, Alive, Places, DeleteLib, Entries
<1>5. CASE CreateLock(j)
  BY <1>5, NameTyped, MaxLoadsAssumption DEF CreateLock, TypeOK, At, Goto, Alive, Places, DeleteLib, Entries
<1>6. CASE CreateLib(j)
  BY <1>6, NameTyped, MaxLoadsAssumption DEF CreateLib, TypeOK, At, Goto, Alive, Places, DeleteLib, Entries
<1>7. CASE RegisterLib(j)
  BY <1>7, NameTyped, MaxLoadsAssumption DEF RegisterLib, TypeOK, At, Goto, Alive, Places, DeleteLib, Entries
<1>8. CASE RegisterLock(j)
  BY <1>8, NameTyped, MaxLoadsAssumption DEF RegisterLock, TypeOK, At, Goto, Alive, Places, DeleteLib, Entries
<1>9. CASE Verify(j)
  BY <1>9, NameTyped, MaxLoadsAssumption DEF Verify, TypeOK, At, Goto, Alive, Places, DeleteLib, Entries
<1>10. CASE Load(j)
  BY <1>10, NameTyped, MaxLoadsAssumption DEF Load, TypeOK, At, Goto, Alive, Places, DeleteLib, Entries
<1>11. CASE LoadFails(j)
  BY <1>11, NameTyped, MaxLoadsAssumption DEF LoadFails, TypeOK, At, Goto, Alive, Places, DeleteLib, Entries
<1>12. CASE BeginExit(j)
  BY <1>12, NameTyped, MaxLoadsAssumption DEF BeginExit, TypeOK, At, Goto, Alive, Places, DeleteLib, Entries
<1>13. CASE ExitHook(j)
  BY <1>13, NameTyped, MaxLoadsAssumption DEF ExitHook, TypeOK, At, Goto, Alive, Places, DeleteLib, Entries
<1>14. CASE Exited(j)
  BY <1>14, NameTyped, MaxLoadsAssumption DEF Exited, TypeOK, At, Goto, Alive, Places, DeleteLib, Entries
<1>15. CASE Crash(j)
  BY <1>15, NameTyped, MaxLoadsAssumption DEF Crash, TypeOK, At, Goto, Alive, Places, DeleteLib, Entries
<1> QED
  BY <1>1, <1>2, <1>3, <1>4, <1>5, <1>6, <1>7, <1>8, <1>9, <1>10, <1>11, <1>12, <1>13, <1>14, <1>15
     DEF Step, Sweep, Extract, End

(* A process adds its own names to its exit hook, and otherwise only takes *)
(* names away.                                                             *)
LEMMA OwnStep ==
    ASSUME TypeOK, OwnEntries, NEW j \in JVMs, Step(j)
    PROVE  OwnEntries'
<1>1. CASE ListFiles(j)
  BY <1>1 DEF ListFiles, OwnEntries, TypeOK, Name
<1>2. ASSUME NEW f \in todo[j], CheckLock(j, f) PROVE OwnEntries'
  BY <1>2 DEF CheckLock, OwnEntries, TypeOK, Name
<1>3. CASE DeleteVictim(j)
  BY <1>3 DEF DeleteVictim, OwnEntries, TypeOK, Name
<1>4. CASE SweptAll(j)
  BY <1>4 DEF SweptAll, OwnEntries, TypeOK, Name
<1>5. CASE CreateLock(j)
  BY <1>5 DEF CreateLock, OwnEntries, TypeOK, Name
<1>6. CASE CreateLib(j)
  BY <1>6 DEF CreateLib, OwnEntries, TypeOK, Name
<1>7. CASE RegisterLib(j)
  BY <1>7 DEF RegisterLib, OwnEntries, TypeOK, Name
<1>8. CASE RegisterLock(j)
  BY <1>8 DEF RegisterLock, OwnEntries, TypeOK, Name
<1>9. CASE Verify(j)
  BY <1>9 DEF Verify, OwnEntries, TypeOK, Name
<1>10. CASE Load(j)
  BY <1>10 DEF Load, OwnEntries, TypeOK, Name
<1>11. CASE LoadFails(j)
  BY <1>11 DEF LoadFails, OwnEntries, TypeOK, Name
<1>12. CASE BeginExit(j)
  BY <1>12 DEF BeginExit, OwnEntries, TypeOK, Name
<1>13. CASE ExitHook(j)
  BY <1>13 DEF ExitHook, OwnEntries, TypeOK, Name
<1>14. CASE Exited(j)
  BY <1>14 DEF Exited, OwnEntries, TypeOK, Name
<1>15. CASE Crash(j)
  BY <1>15 DEF Crash, OwnEntries, TypeOK, Name
<1> QED
  BY <1>1, <1>2, <1>3, <1>4, <1>5, <1>6, <1>7, <1>8, <1>9, <1>10, <1>11, <1>12, <1>13, <1>14, <1>15
     DEF Step, Sweep, Extract, End

(* A name that is taken stays taken: a loader that leaves "idle" counts up. *)
LEMMA TakenStable ==
    ASSUME TypeOK, NEW j \in JVMs, Step(j), NEW f \in Names, Taken(f)
    PROVE  Taken(f)'
<1> USE DEF Taken, Fresh, TypeOK, Names
<1>1. CASE ListFiles(j)
  BY <1>1 DEF ListFiles, At, Goto
<1>2. CASE Sweep(j)
  BY <1>2 DEF Sweep, CheckLock, DeleteVictim, SweptAll, At, Goto
<1>3. CASE Extract(j)
  BY <1>3 DEF Extract, CreateLock, CreateLib, RegisterLib, RegisterLock, Verify,
              Load, LoadFails, At, Goto
<1>4. CASE End(j)
  BY <1>4 DEF End, BeginExit, ExitHook, Exited, Crash
<1> QED
  BY <1>1, <1>2, <1>3, <1>4 DEF Step

(* Which files a step may create.                                          *)
LEMMA LibsChange ==
    ASSUME NEW j \in JVMs, Step(j), ~CreateLib(j)
    PROVE  libs' \subseteq libs
BY DEF Step, ListFiles, Sweep, CheckLock, DeleteVictim, SweptAll, Extract, CreateLock,
       RegisterLib, RegisterLock, Verify, Load, LoadFails, End, BeginExit, ExitHook,
       Exited, Crash, DeleteLib

(* What a clean-up has to visit it has listed.                             *)
LEMMA TodoChange ==
    ASSUME TypeOK, NEW j \in JVMs, Step(j), NEW k \in JVMs
    PROVE  todo'[k] \subseteq todo[k] \cup libs
<1> USE DEF TypeOK
<1>1. CASE ListFiles(j)
  BY <1>1 DEF ListFiles
<1>2. ASSUME NEW f \in todo[j], CheckLock(j, f) PROVE todo'[k] \subseteq todo[k]
  BY <1>2 DEF CheckLock
<1>3. CASE DeleteVictim(j) \/ SweptAll(j) \/ Extract(j) \/ End(j)
  BY <1>3 DEF DeleteVictim, SweptAll, Extract, CreateLock, CreateLib, RegisterLib,
              RegisterLock, Verify, Load, LoadFails, End, BeginExit, ExitHook, Exited,
              Crash
<1> QED
  BY <1>1, <1>2, <1>3 DEF Step, Sweep

(* A clean-up that is about to delete a file has just found it unlocked,   *)
(* or was about to before.                                                 *)
LEMMA VictimChange ==
    ASSUME TypeOK, NEW j \in JVMs, Step(j), NEW k \in JVMs, pc'[k] = "delete"
    PROVE  \/ pc[k] = "delete" /\ victim'[k] = victim[k]
           \/ victim'[k] \in todo[k] \ lcks /\ k = j /\ UNCHANGED <<libs, loads, life>>
<1> USE DEF TypeOK, At, Goto
<1>1. ASSUME NEW f \in todo[j], CheckLock(j, f)
      PROVE  \/ pc[k] = "delete" /\ victim'[k] = victim[k]
             \/ victim'[k] \in todo[k] \ lcks /\ k = j
                /\ UNCHANGED <<libs, loads, life>>
  BY <1>1 DEF CheckLock
<1>2. CASE ListFiles(j) \/ DeleteVictim(j) \/ SweptAll(j)
  BY <1>2 DEF ListFiles, DeleteVictim, SweptAll
<1>3. CASE Extract(j)
  BY <1>3 DEF Extract, CreateLock, CreateLib, RegisterLib, RegisterLock, Verify, Load,
              LoadFails
<1>4. CASE End(j)
  BY <1>4 DEF End, BeginExit, ExitHook, Exited, Crash
<1> QED
  BY <1>1, <1>2, <1>3, <1>4 DEF Step, Sweep

(* What exists or has been seen stays taken; a new library's name is taken *)
(* by the step that creates it.                                            *)
LEMMA SeenStep ==
    ASSUME TypeOK, SeenTaken, NEW j \in JVMs, Step(j)
    PROVE  SeenTaken'
<1>1. \A f \in libs : Taken(f)'
  BY TakenStable DEF SeenTaken, TypeOK
<1>2. \A k \in JVMs : \A f \in todo[k] : Taken(f)'
  BY TakenStable DEF SeenTaken, TypeOK
<1>3. \A f \in libs' : Taken(f)'
  <2>1. CASE CreateLib(j)
    <3>1. Taken(Name(j))'
      BY <2>1 DEF CreateLib, Goto, Taken, Fresh, Name, TypeOK
    <3> QED
      BY <1>1, <2>1, <3>1 DEF CreateLib, Name, Taken, Fresh
  <2> QED
    BY <1>1, <2>1, LibsChange
<1>4. \A k \in JVMs : \A f \in todo'[k] : Taken(f)'
  BY <1>1, <1>2, TodoChange
<1>5. ASSUME NEW k \in JVMs, pc'[k] = "delete" PROVE Taken(victim[k])' 
  <2>1. CASE pc[k] = "delete" /\ victim'[k] = victim[k]
    <3>1. victim[k] \in Names /\ Taken(victim[k])
      BY <2>1 DEF SeenTaken, TypeOK
    <3>2. \A f \in Names : Taken(f) => Taken(f)'
      BY TakenStable
    <3> QED
      BY <2>1, <3>1, <3>2 DEF Taken, Fresh
  <2>2. CASE victim'[k] \in todo[k]
    BY <1>2, <2>2 DEF Taken, Fresh
  <2> QED
    BY <1>5, <2>1, <2>2, VictimChange
<1> QED
  BY <1>3, <1>4, <1>5 DEF SeenTaken

(* A process makes its lock before its library and removes it only when it *)
(* exits; the exit hook of another process removes other names.            *)
LEMMA LockStep ==
    ASSUME TypeOK, OwnEntries, LockHeld, NEW j \in JVMs, Step(j)
    PROVE  LockHeld'
<1>1. CASE ListFiles(j)
  BY <1>1 DEF ListFiles, LockHeld, InUse, Name, TypeOK, At, Goto
<1>2. ASSUME NEW f \in todo[j], CheckLock(j, f) PROVE LockHeld'
  BY <1>2 DEF CheckLock, LockHeld, InUse, Name, TypeOK, At, Goto
<1>3. CASE DeleteVictim(j)
  BY <1>3 DEF DeleteVictim, LockHeld, InUse, Name, TypeOK, At, Goto
<1>4. CASE SweptAll(j)
  BY <1>4 DEF SweptAll, LockHeld, InUse, Name, TypeOK, At, Goto
<1>5. CASE CreateLock(j)
  BY <1>5 DEF CreateLock, LockHeld, InUse, Name, TypeOK, At, Goto
<1>6. CASE CreateLib(j)
  BY <1>6 DEF CreateLib, LockHeld, InUse, Name, TypeOK, At, Goto
<1>7. CASE RegisterLib(j)
  BY <1>7 DEF RegisterLib, LockHeld, InUse, Name, TypeOK, At, Goto
<1>8. CASE RegisterLock(j)
  BY <1>8 DEF RegisterLock, LockHeld, InUse, Name, TypeOK, At, Goto
<1>9. CASE Verify(j)
  BY <1>9 DEF Verify, LockHeld, InUse, Name, TypeOK, At, Goto
<1>10. CASE Load(j)
  BY <1>10 DEF Load, LockHeld, InUse, Name, TypeOK, At, Goto
<1>11. CASE LoadFails(j)
  BY <1>11 DEF LoadFails, LockHeld, InUse, Name, TypeOK, At, Goto
<1>12. CASE BeginExit(j)
  BY <1>12 DEF BeginExit, LockHeld, InUse, Name, TypeOK, At, Goto
<1>13. CASE ExitHook(j)
  <2>1. Head(onExit[j]) = onExit[j][1] /\ 1 \in 1..Len(onExit[j])
    BY <1>13 DEF ExitHook, TypeOK
  <2>2. \A k \in JVMs : life[k] = "up" => Head(onExit[j])[2] # Name(k)
    BY <1>13, <2>1 DEF ExitHook, OwnEntries, Name
  <2> QED
    BY <1>13, <2>2 DEF ExitHook, LockHeld, InUse, Name
<1>14. CASE Exited(j)
  BY <1>14 DEF Exited, LockHeld, InUse, Name, TypeOK, At, Goto
<1>15. CASE Crash(j)
  BY <1>15 DEF Crash, LockHeld, InUse, Name, TypeOK, At, Goto
<1> QED
  BY <1>1, <1>2, <1>3, <1>4, <1>5, <1>6, <1>7, <1>8, <1>9, <1>10, <1>11, <1>12, <1>13, <1>14, <1>15
     DEF Step, Sweep, Extract, End

(* A library in use is deleted neither by a clean-up, which does not take  *)
(* it for a victim, nor by an exit hook, which holds other names.          *)
LEMMA KeptStep ==
    ASSUME TypeOK, OwnEntries, LockHeld, VictimIdle, LibraryKept, LockHeld', NEW j \in JVMs, Step(j)
    PROVE  LibraryKept'
<1>1. CASE ListFiles(j)
  BY <1>1 DEF ListFiles, LibraryKept, LockHeld, InUse, Name, TypeOK, At, Goto, Alive
<1>2. ASSUME NEW f \in todo[j], CheckLock(j, f) PROVE LibraryKept'
  BY <1>2 DEF CheckLock, LibraryKept, LockHeld, InUse, Name, TypeOK, At, Goto, Alive
<1>3. CASE DeleteVictim(j)
  <2>1. \A k \in JVMs : InUse(k) => victim[j] # Name(k)
    BY <1>3 DEF DeleteVictim, At, VictimIdle
  <2>2. \A k \in JVMs : InUse(k)' => InUse(k)
    BY <1>3 DEF DeleteVictim, InUse, Goto, TypeOK
  <2> QED
    BY <1>3, <2>1, <2>2 DEF DeleteVictim, LibraryKept, LockHeld, InUse, Name, DeleteLib
<1>4. CASE SweptAll(j)
  BY <1>4 DEF SweptAll, LibraryKept, LockHeld, InUse, Name, TypeOK, At, Goto, Alive
<1>5. CASE CreateLock(j)
  BY <1>5 DEF CreateLock, LibraryKept, LockHeld, InUse, Name, TypeOK, At, Goto, Alive
<1>6. CASE CreateLib(j)
  BY <1>6 DEF CreateLib, LibraryKept, LockHeld, InUse, Name, TypeOK, At, Goto, Alive
<1>7. CASE RegisterLib(j)
  BY <1>7 DEF RegisterLib, LibraryKept, LockHeld, InUse, Name, TypeOK, At, Goto, Alive
<1>8. CASE RegisterLock(j)
  BY <1>8 DEF RegisterLock, LibraryKept, LockHeld, InUse, Name, TypeOK, At, Goto, Alive
<1>9. CASE Verify(j)
  BY <1>9 DEF Verify, LibraryKept, LockHeld, InUse, Name, TypeOK, At, Goto, Alive
<1>10. CASE Load(j)
  BY <1>10 DEF Load, LibraryKept, LockHeld, InUse, Name, TypeOK, At, Goto, Alive
<1>11. CASE LoadFails(j)
  BY <1>11 DEF LoadFails, LibraryKept, LockHeld, InUse, Name, TypeOK, At, Goto, Alive
<1>12. CASE BeginExit(j)
  BY <1>12 DEF BeginExit, LibraryKept, LockHeld, InUse, Name, TypeOK, At, Goto, Alive
<1>13. CASE ExitHook(j)
  <2>1. Head(onExit[j]) = onExit[j][1] /\ 1 \in 1..Len(onExit[j])
    BY <1>13 DEF ExitHook, TypeOK
  <2>2. \A k \in JVMs : life[k] = "up" => Head(onExit[j])[2] # Name(k)
    BY <1>13, <2>1 DEF ExitHook, OwnEntries, Name
  <2> QED
    BY <1>13, <2>2 DEF ExitHook, LibraryKept, LockHeld, InUse, Name, DeleteLib
<1>14. CASE Exited(j)
  BY <1>14 DEF Exited, LibraryKept, LockHeld, InUse, Name, TypeOK, At, Goto, Alive
<1>15. CASE Crash(j)
  BY <1>15 DEF Crash, LibraryKept, LockHeld, InUse, Name, TypeOK, At, Goto, Alive
<1> QED
  BY <1>1, <1>2, <1>3, <1>4, <1>5, <1>6, <1>7, <1>8, <1>9, <1>10, <1>11, <1>12, <1>13, <1>14, <1>15
     DEF Step, Sweep, Extract, End

(* A library comes into use under a name that no clean-up can have seen.   *)
LEMMA InUseChange ==
    ASSUME TypeOK, NEW j \in JVMs, Step(j), NEW k \in JVMs, InUse(k)'
    PROVE  /\ Name(k)' = Name(k)
           /\ InUse(k) \/ (CreateLib(j) /\ k = j)
<1> USE DEF TypeOK, At, Goto, InUse, Name
<1>1. ASSUME NEW f \in todo[j], CheckLock(j, f)
      PROVE  Name(k)' = Name(k) /\ (InUse(k) \/ (CreateLib(j) /\ k = j))
  BY <1>1 DEF CheckLock
<1>2. CASE ListFiles(j) \/ DeleteVictim(j) \/ SweptAll(j)
  BY <1>2 DEF ListFiles, DeleteVictim, SweptAll
<1>3. CASE Extract(j)
  BY <1>3 DEF Extract, CreateLock, CreateLib, RegisterLib, RegisterLock, Verify, Load,
              LoadFails
<1>4. CASE End(j)
  BY <1>4 DEF End, BeginExit, ExitHook, Exited, Crash
<1> QED
  BY <1>1, <1>2, <1>3, <1>4 DEF Step, Sweep

LEMMA VictimStep ==
    ASSUME TypeOK, SeenTaken, LockHeld, VictimIdle, NEW j \in JVMs, Step(j)
    PROVE  VictimIdle'
<1> SUFFICES ASSUME NEW k \in JVMs, pc'[k] = "delete", NEW i \in JVMs, InUse(i)'
             PROVE  victim'[k] # Name(i)
  BY InUseChange DEF VictimIdle
<1>1. CASE pc[k] = "delete" /\ victim'[k] = victim[k]
  <2>1. CASE InUse(i)
    BY <1>1, <2>1 DEF VictimIdle
  <2>2. CASE CreateLib(j) /\ i = j
    <3>1. Fresh(i) /\ loads[i] \in Nat
      BY <2>2 DEF CreateLib, At, Fresh, TypeOK
    <3>2. ~Taken(Name(i))
      BY <3>1 DEF Taken, Name
    <3> QED
      BY <1>1, <3>2 DEF SeenTaken
  <2> QED
    BY <2>1, <2>2, InUseChange
<1>2. CASE victim'[k] \in todo[k] \ lcks /\ k = j /\ UNCHANGED <<libs, loads, life>>
  <2>1. CASE InUse(i)
    BY <1>2, <2>1 DEF LockHeld, InUse
  <2>2. CASE CreateLib(j) /\ i = j
    BY <1>2, <2>2 DEF CreateLib, Goto, TypeOK
  <2> QED
    BY <2>1, <2>2, InUseChange
<1> QED
  BY <1>1, <1>2, VictimChange

(* A lock on its way out of the directory.  Only its owner makes it, before *)
(* it registers it; the exit hook takes it off the list when it deletes it. *)
LEMMA OnExitStep ==
    ASSUME TypeOK, LockOnExit, NEW j \in JVMs, Step(j)
    PROVE  LockOnExit'
<1> SUFFICES ASSUME NEW k \in JVMs, Alive(k)',
                    pc'[k] \in {"verify", "load", "loaded"}, Name(k)' \in lcks'
             PROVE  \E i \in 1..Len(onExit'[k]) : onExit'[k][i] = <<"lck", Name(k)'>>
  BY DEF LockOnExit, Name
<1> DEFINE Due(seq, f) == \E i \in 1..Len(seq) : seq[i] = <<"lck", f>>
<1>1. CASE RegisterLock(j) /\ k = j
  <2>1. onExit[j] \in Seq(Entries) /\ Name(j)' = Name(j)
    BY <1>1 DEF RegisterLock, TypeOK, Name
  <2>2. <<"lck", Name(j)>> \in Entries
    BY NameTyped DEF Entries
  <2>3. onExit'[j] = << <<"lck", Name(j)>> >> \o onExit[j]
    BY <1>1 DEF RegisterLock, TypeOK
  <2>4. Len(onExit'[j]) \in Nat /\ Len(onExit'[j]) >= 1
        /\ onExit'[j][1] = <<"lck", Name(j)>>
    BY <2>1, <2>2, <2>3
  <2> QED
    BY <1>1, <2>1, <2>4
<1>2. CASE RegisterLib(j) /\ k = j
  BY <1>2 DEF RegisterLib, Goto, TypeOK
<1>3. CASE ExitHook(j)
  <2>1. Name(k)' = Name(k) /\ Alive(k) /\ pc'[k] = pc[k] /\ lcks' \subseteq lcks
    BY <1>3 DEF ExitHook, Alive, Name
  <2>2. Due(onExit[k], Name(k))
    BY <2>1 DEF LockOnExit
  <2>3. CASE k = j
    <3>1. /\ onExit[j] \in Seq(Entries) /\ onExit[j] # <<>>
          /\ onExit'[j] = Tail(onExit[j])
      BY <1>3 DEF ExitHook, TypeOK
    <3>2. PICK i \in 1..Len(onExit[j]) : onExit[j][i] = <<"lck", Name(j)>>
      BY <2>2, <2>3
    <3>3. i # 1
      <4> SUFFICES ASSUME i = 1 PROVE FALSE
        OBVIOUS
      <4>1. Head(onExit[j]) = <<"lck", Name(j)>>
        BY <3>1, <3>2
      <4>2. lcks' = lcks \ {Name(j)}
        BY <1>3, <4>1 DEF ExitHook
      <4> QED
        BY <2>1, <2>3, <4>2
    <3>4. /\ i - 1 \in 1..Len(Tail(onExit[j]))
          /\ Tail(onExit[j])[i - 1] = <<"lck", Name(j)>>
      BY <3>1, <3>2, <3>3
    <3> QED
      BY <2>1, <2>3, <3>1, <3>4
  <2>4. CASE k # j
    BY <1>3, <2>1, <2>2, <2>4 DEF ExitHook, TypeOK
  <2> QED
    BY <2>3, <2>4
<1>4. CASE CreateLock(j)
  BY <1>4 DEF CreateLock, LockOnExit, Name, Alive, Goto, TypeOK
<1>5. CASE ListFiles(j)
  BY <1>5 DEF ListFiles, LockOnExit, Name, Alive, Goto, TypeOK
<1>6. CASE Sweep(j)
  BY <1>6 DEF Sweep, CheckLock, DeleteVictim, SweptAll, LockOnExit, Name, Alive, Goto,
              At, TypeOK
<1>7. CASE CreateLib(j) \/ Verify(j) \/ Load(j) \/ LoadFails(j)
  BY <1>7 DEF CreateLib, Verify, Load, LoadFails, LockOnExit, Name, Alive, Goto, At,
              TypeOK
<1>8. CASE (RegisterLib(j) \/ RegisterLock(j)) /\ k # j
  BY <1>8 DEF RegisterLib, RegisterLock, LockOnExit, Name, Alive, Goto, TypeOK
<1>9. CASE BeginExit(j) \/ Exited(j) \/ Crash(j)
  BY <1>9 DEF BeginExit, Exited, Crash, LockOnExit, Name, Alive, TypeOK
<1> QED
  BY <1>1, <1>2, <1>3, <1>4, <1>5, <1>6, <1>7, <1>8, <1>9 DEF Step, Extract, End

(* An exit ends when nothing is left to delete, and afterwards nobody      *)
(* makes a lock of that name.                                              *)
LEMMA UnlockStep ==
    ASSUME TypeOK, LockOnExit, ExitUnlocks, NEW j \in JVMs, Step(j)
    PROVE  ExitUnlocks'
<1> SUFFICES ASSUME NEW k \in JVMs, life'[k] = "exited", pc'[k] = "loaded"
             PROVE  Name(k)' \notin lcks'
  BY DEF ExitUnlocks, Name
<1>1. CASE Exited(j) /\ k = j
  <2>1. onExit[j] = <<>> /\ Len(onExit[j]) = 0 /\ Alive(j) /\ pc[j] = "loaded"
    BY <1>1 DEF Exited, Alive
  <2>2. Name(j) \notin lcks
    BY <2>1 DEF LockOnExit
  <2> QED
    BY <1>1, <2>2 DEF Exited, Name
<1>2. CASE Exited(j) /\ k # j
  BY <1>2 DEF Exited, ExitUnlocks, Name, TypeOK
<1>3. CASE BeginExit(j) \/ Crash(j)
  BY <1>3 DEF BeginExit, Crash, ExitUnlocks, Name, TypeOK
<1>4. CASE ExitHook(j)
  BY <1>4 DEF ExitHook, ExitUnlocks, Name
<1>5. CASE CreateLock(j)
  BY <1>5 DEF CreateLock, At, Alive, Goto, ExitUnlocks, Name, TypeOK
<1>6. CASE ListFiles(j)
  BY <1>6 DEF ListFiles, At, Alive, Goto, ExitUnlocks, Name, TypeOK
<1>7. CASE Sweep(j)
  BY <1>7 DEF Sweep, CheckLock, DeleteVictim, SweptAll, At, Alive, Goto, ExitUnlocks,
              Name, TypeOK
<1>8. CASE \/ CreateLib(j) \/ RegisterLib(j) \/ RegisterLock(j) \/ Verify(j)
           \/ Load(j) \/ LoadFails(j)
  BY <1>8 DEF CreateLib, RegisterLib, RegisterLock, Verify, Load, LoadFails, At, Alive,
              Goto, ExitUnlocks, Name, TypeOK
<1> QED
  BY <1>1, <1>2, <1>3, <1>4, <1>5, <1>6, <1>7, <1>8 DEF Step, Extract, End

-----------------------------------------------------------------------------
LEMMA InitIInv == Init => IInv
<1> SUFFICES ASSUME Init PROVE IInv
  OBVIOUS
<1>1. TypeOK
  BY MaxLoadsAssumption DEF Init, TypeOK, Names, Places, Entries
<1>2. SeenTaken /\ LockHeld /\ VictimIdle /\ OwnEntries /\ LibraryKept
  BY DEF Init, SeenTaken, LockHeld, VictimIdle, OwnEntries, LibraryKept, InUse, TypeOK
<1>3. LockOnExit /\ ExitUnlocks
  BY DEF Init, LockOnExit, ExitUnlocks
<1> QED
  BY <1>1, <1>2, <1>3 DEF IInv

LEMMA NextIInv == IInv /\ [Next]_vars => IInv'
<1> SUFFICES ASSUME IInv, [Next]_vars PROVE IInv'
  OBVIOUS
<1>1. ASSUME NEW j \in JVMs, Step(j) PROVE IInv'
  <2>1. TypeOK' /\ OwnEntries' /\ SeenTaken' /\ LockHeld' /\ VictimIdle'
    BY <1>1, TypeStep, OwnStep, SeenStep, LockStep, VictimStep DEF IInv
  <2>2. LockOnExit' /\ ExitUnlocks'
    BY <1>1, OnExitStep, UnlockStep DEF IInv
  <2> QED
    BY <1>1, <2>1, <2>2, KeptStep DEF IInv
<1>2. CASE UNCHANGED vars
  <2>1. TypeOK' /\ SeenTaken' /\ LockHeld' /\ VictimIdle' /\ OwnEntries' /\ LibraryKept'
    BY <1>2 DEF vars, IInv, TypeOK, SeenTaken, Taken, Fresh, LockHeld, VictimIdle,
                OwnEntries, LibraryKept, InUse, Name
  <2>2. LockOnExit'
    BY <1>2 DEF vars, IInv, LockOnExit, Alive, Name
  <2>3. ExitUnlocks'
    BY <1>2 DEF vars, IInv, ExitUnlocks, Name
  <2> QED
    BY <2>1, <2>2, <2>3 DEF IInv
<1> QED
  BY <1>1, <1>2 DEF Next, Step

THEOREM Invariance == Spec => []IInv
BY InitIInv, NextIInv, PTL DEF Spec

(* The state of the directory and of the processes keeps its type.         *)
THEOREM TypeCorrect == Spec => []TypeOK
<1>1. IInv => TypeOK
  BY DEF IInv
<1> QED
  BY <1>1, Invariance, PTL

(* However many processes share the directory, and however often their     *)
(* loads fail, no library in use is ever deleted.                          *)
THEOREM LibrariesKept == Spec => []LibraryKept
<1>1. IInv => LibraryKept
  BY DEF IInv
<1> QED
  BY <1>1, Invariance, PTL

(* A process that exits after it has loaded leaves no lock, however many   *)
(* earlier loads have failed and whatever the other processes do.          *)
THEOREM ExitsUnlock == Spec => []ExitUnlocks
<1>1. IInv => ExitUnlocks
  BY DEF IInv
<1> QED
  BY <1>1, Invariance, PTL

-----------------------------------------------------------------------------
(* The directory.                                                          *)

Users == {Name(j) : j \in {k \in JVMs : InUse(k)}}

Past == {f \in Names : Taken(f)}

LEMMA NamesDiffer ==
    ASSUME NEW j \in JVMs, NEW k \in JVMs, Name(j) = Name(k)
    PROVE  j = k
BY DEF Name

(* The other processes neither take up nor let go of a name.               *)
Beside(j) ==
    /\ UNCHANGED loads
    /\ \A k \in JVMs \ {j} : (InUse(k)' <=> InUse(k)) /\ (Fresh(k)' <=> Fresh(k))

LEMMA BesideUsers ==
    ASSUME NEW j \in JVMs, Beside(j)
    PROVE  /\ Name(j)' = Name(j)
           /\ Users' = IF InUse(j)' THEN Users \cup {Name(j)} ELSE Users \ {Name(j)}
           /\ (InUse(j)' <=> InUse(j)) => Users' = Users
<1>1. \A k \in JVMs : Name(k)' = Name(k)
  BY DEF Beside, Name
<1>2. ASSUME NEW f PROVE f \in Users' <=> \E k \in JVMs : InUse(k)' /\ f = Name(k)
  BY <1>1 DEF Users
<1>3. ASSUME NEW f PROVE f \in Users <=> \E k \in JVMs : InUse(k) /\ f = Name(k)
  BY DEF Users
<1>4. ASSUME NEW f
      PROVE  f \in Users' <=> IF f = Name(j) THEN InUse(j)' ELSE f \in Users
  <2>1. CASE f = Name(j)
    BY <1>2, <2>1, NamesDiffer
  <2>2. CASE f # Name(j)
    BY <1>2, <1>3, <2>2 DEF Beside
  <2> QED
    BY <2>1, <2>2
<1>5. InUse(j) <=> Name(j) \in Users
  BY NamesDiffer DEF Users
<1> QED
  BY <1>1, <1>4, <1>5

LEMMA BesidePast ==
    ASSUME TypeOK, NEW j \in JVMs, Beside(j)
    PROVE  /\ (Fresh(j)' <=> Fresh(j)) => Past' = Past
           /\ ~Fresh(j)' => Past' = Past \cup {Name(j)}
<1>1. ASSUME NEW f \in Names
      PROVE  /\ f[1] \in JVMs /\ f[2] \in Nat /\ loads[f[1]] \in Nat
             /\ f = Name(j) <=> (f[1] = j /\ f[2] = loads[j])
  BY DEF Names, Name, TypeOK
<1>2. ASSUME NEW f \in Names, Fresh(j)' <=> Fresh(j) PROVE Taken(f)' <=> Taken(f)
  BY <1>1, <1>2 DEF Taken, Beside
<1>3. ASSUME NEW f \in Names, ~Fresh(j)'
      PROVE  Taken(f)' <=> Taken(f) \/ f = Name(j)
  <2>1. CASE f[1] = j
    BY <1>1, <1>3, <2>1 DEF Taken, Beside
  <2>2. CASE f[1] # j
    BY <1>1, <2>2 DEF Taken, Beside
  <2> QED
    BY <2>1, <2>2
<1>4. Name(j) \in Names
  BY NameTyped
<1> QED
  BY <1>2, <1>3, <1>4 DEF Past

(* A step in which the process neither takes up nor lets go of its name.   *)
LEMMA UnseenStep ==
    ASSUME TypeOK, NEW j \in JVMs, Beside(j), UNCHANGED libs,
           InUse(j)' <=> InUse(j), Fresh(j)' <=> Fresh(j)
    PROVE  UNCHANGED Directory!vars
<1>1. Users' = Users
  BY BesideUsers
<1>2. Past' = Past
  BY BesidePast
<1> QED
  BY <1>1, <1>2 DEF Directory!vars, Users, Past

(* A step with which the process lets go of its name.                      *)
LEMMA LetGoStep ==
    ASSUME TypeOK, NEW j \in JVMs, Beside(j), UNCHANGED libs, ~InUse(j)', ~Fresh(j)'
    PROVE  Directory!LetGo(Name(j))
<1>1. Users' = Users \ {Name(j)} /\ Past' = Past \cup {Name(j)}
  BY BesideUsers, BesidePast
<1> QED
  BY <1>1 DEF Directory!LetGo, Users, Past

(* A step that deletes a file, or would have deleted it.                   *)
LEMMA DeletionStep ==
    ASSUME TypeOK, NEW j \in JVMs, Beside(j), NEW f \in Names, DeleteLib(f), f \notin Users,
           InUse(j)' <=> InUse(j), Fresh(j)' <=> Fresh(j)
    PROVE  [Directory!Next]_Directory!vars
<1>1. Users' = Users /\ Past' = Past
  BY BesideUsers, BesidePast
<1>2. CASE libs' = libs
  BY <1>1, <1>2 DEF Directory!vars, Users, Past
<1>3. CASE libs' = libs \ {f} /\ f \in libs
  <2>1. Directory!Delete(f)
    BY <1>1, <1>3 DEF Directory!Delete, Users, Past
  <2> QED
    BY <2>1 DEF Directory!Next
<1> QED
  BY <1>2, <1>3 DEF DeleteLib

LEMMA ListFilesDirectory ==
    ASSUME IInv, NEW j \in JVMs, ListFiles(j)
    PROVE  UNCHANGED Directory!vars
<1>1. TypeOK /\ libs' = libs
  BY DEF IInv, ListFiles
<1>2. /\ \A k \in JVMs : InUse(k)' <=> InUse(k)
      /\ \A k \in JVMs : InUse(k) => Name(k)' = Name(k)
  BY <1>1 DEF ListFiles, InUse, Name, TypeOK, At, Goto
<1>3. Users' = Users
  BY <1>2 DEF Users
<1>4. ASSUME NEW f \in Names PROVE Taken(f)' <=> Taken(f)
  <2>1. f[1] \in JVMs /\ f[2] \in Nat /\ loads[f[1]] \in Nat
    BY <1>1 DEF Names, TypeOK
  <2>2. CASE f[1] = j
    <3>1. ~Fresh(j) /\ Fresh(j)' /\ loads'[j] = loads[j] + 1
      BY <1>1 DEF ListFiles, At, Goto, Fresh, TypeOK
    <3> QED
      BY <2>1, <2>2, <3>1 DEF Taken
  <2>3. CASE f[1] # j
    BY <1>1, <2>1, <2>3 DEF ListFiles, Goto, Taken, Fresh, TypeOK
  <2> QED
    BY <2>2, <2>3
<1>5. Past' = Past
  BY <1>4 DEF Past
<1> QED
  BY <1>1, <1>3, <1>5 DEF Directory!vars, Users, Past

LEMMA SweepDirectory ==
    ASSUME IInv, NEW j \in JVMs, Sweep(j)
    PROVE  [Directory!Next]_Directory!vars
<1>t. TypeOK /\ VictimIdle
  BY DEF IInv
<1>n. ASSUME Directory!LetGo(Name(j)) PROVE Directory!Next
  BY <1>n, <1>t, NameTyped DEF Directory!Next
<1> USE DEF At, Goto, InUse, Fresh, TypeOK, Beside
<1>1. ASSUME NEW f \in todo[j], CheckLock(j, f) PROVE UNCHANGED Directory!vars
  BY <1>t, <1>1, UnseenStep DEF CheckLock
<1>2. CASE DeleteVictim(j)
  <2>1. victim[j] \in Names /\ DeleteLib(victim[j]) /\ pc[j] = "delete"
    BY <1>t, <1>2 DEF DeleteVictim
  <2>2. victim[j] \notin Users
    BY <1>t, <2>1 DEF VictimIdle, Users
  <2>3. Beside(j) /\ (InUse(j)' <=> InUse(j)) /\ (Fresh(j)' <=> Fresh(j))
    BY <1>t, <1>2 DEF DeleteVictim
  <2> QED
    BY <1>t, <2>1, <2>2, <2>3, DeletionStep
<1>3. CASE SweptAll(j)
  <2>1. Beside(j) /\ UNCHANGED libs /\ ~InUse(j) /\ ~InUse(j)' /\ Fresh(j)
    BY <1>t, <1>3 DEF SweptAll
  <2>2. CASE Fresh(j)'
    BY <1>t, <2>1, <2>2, UnseenStep
  <2>3. CASE ~Fresh(j)'
    <3>1. Directory!LetGo(Name(j))
      BY <1>t, <2>1, <2>3, LetGoStep
    <3> QED
      BY <1>n, <3>1
  <2> QED
    BY <2>2, <2>3
<1> QED
  BY <1>1, <1>2, <1>3 DEF Sweep

LEMMA CreateDirectory ==
    ASSUME IInv, NEW j \in JVMs, CreateLib(j)
    PROVE  Directory!Create(Name(j))
<1>t. TypeOK
  BY DEF IInv
<1>1. /\ Beside(j) /\ ~InUse(j) /\ Fresh(j) /\ ~Fresh(j)'
      /\ libs' = libs \cup {Name(j)}
  BY <1>t DEF CreateLib, At, Goto, InUse, Fresh, TypeOK, Beside
<1>2. Past' = Past \cup {Name(j)}
  BY <1>t, <1>1, BesidePast
<1>3. Name(j) \notin Past
  BY <1>1, <1>t DEF Past, Taken, Name, TypeOK
<1>4. Users' \in {Users, Users \cup {Name(j)}}
  <2>1. Name(j) \notin Users
    BY <1>1, NamesDiffer DEF Users
  <2> QED
    BY <1>1, <2>1, BesideUsers
<1> QED
  BY <1>1, <1>2, <1>3, <1>4 DEF Directory!Create, Users, Past

LEMMA ExtractDirectory ==
    ASSUME IInv, NEW j \in JVMs, Extract(j)
    PROVE  [Directory!Next]_Directory!vars
<1>t. TypeOK /\ Name(j) \in Names
  BY NameTyped DEF IInv
<1>1. CASE CreateLib(j)
  BY <1>t, <1>1, CreateDirectory DEF Directory!Next
<1>2. CASE CreateLock(j) \/ RegisterLib(j) \/ Verify(j) \/ Load(j)
  <2>1. Beside(j) /\ UNCHANGED libs /\ (InUse(j)' <=> InUse(j)) /\ (Fresh(j)' <=> Fresh(j))
    BY <1>t, <1>2
       DEF CreateLock, RegisterLib, Verify, Load, At, Goto, InUse, Fresh, TypeOK, Beside
  <2> QED
    BY <1>t, <2>1, UnseenStep
<1>3. CASE RegisterLock(j)
  <2>1. Beside(j) /\ UNCHANGED libs /\ InUse(j) /\ ~Fresh(j) /\ ~Fresh(j)'
    BY <1>t, <1>3 DEF RegisterLock, At, Goto, InUse, Fresh, TypeOK, Beside
  <2>2. CASE InUse(j)'
    BY <1>t, <2>1, <2>2, UnseenStep
  <2>3. CASE ~InUse(j)'
    BY <1>t, <2>1, <2>3, LetGoStep DEF Directory!Next
  <2> QED
    BY <2>2, <2>3
<1>4. CASE LoadFails(j)
  <2>1. Beside(j) /\ UNCHANGED libs /\ ~InUse(j)' /\ ~Fresh(j)'
    BY <1>t, <1>4 DEF LoadFails, Goto, InUse, Fresh, TypeOK, Beside
  <2> QED
    BY <1>t, <2>1, LetGoStep DEF Directory!Next
<1> QED
  BY <1>1, <1>2, <1>3, <1>4 DEF Extract

LEMMA EndDirectory ==
    ASSUME IInv, NEW j \in JVMs, End(j)
    PROVE  [Directory!Next]_Directory!vars
<1>t. TypeOK /\ OwnEntries /\ Name(j) \in Names
  BY NameTyped DEF IInv
<1>1. CASE BeginExit(j) \/ Crash(j)
  <2>1. Beside(j) /\ UNCHANGED libs /\ ~InUse(j)' /\ (Fresh(j)' <=> Fresh(j))
    BY <1>t, <1>1 DEF BeginExit, Crash, InUse, Fresh, TypeOK, Beside
  <2>2. CASE InUse(j)
    <3>1. ~Fresh(j)
      BY <2>2 DEF InUse, Fresh
    <3> QED
      BY <1>t, <2>1, <3>1, LetGoStep DEF Directory!Next
  <2>3. CASE ~InUse(j)
    BY <1>t, <2>1, <2>3, UnseenStep
  <2> QED
    BY <2>2, <2>3
<1>2. CASE ExitHook(j)
  <2>1. Beside(j) /\ ~InUse(j) /\ ~InUse(j)' /\ (Fresh(j)' <=> Fresh(j))
    BY <1>t, <1>2 DEF ExitHook, InUse, Fresh, TypeOK, Beside
  <2>2. PICK f : f = Head(onExit[j])[2]
    OBVIOUS
  <2>3. Head(onExit[j]) = onExit[j][1] /\ 1 \in 1..Len(onExit[j]) /\ onExit[j][1] \in Entries
    BY <1>t, <1>2 DEF ExitHook, TypeOK
  <2>4. f[1] = j /\ f \in Names
    BY <1>t, <2>2, <2>3 DEF OwnEntries, Entries
  <2>5. f \notin Users
    BY <2>1, <2>4 DEF Users, Name
  <2>6. UNCHANGED libs \/ DeleteLib(f)
    BY <1>2, <2>2 DEF ExitHook
  <2> QED
    BY <1>t, <2>1, <2>4, <2>5, <2>6, UnseenStep, DeletionStep
<1>3. CASE Exited(j)
  <2>1. Beside(j) /\ UNCHANGED libs /\ (InUse(j)' <=> InUse(j)) /\ (Fresh(j)' <=> Fresh(j))
    BY <1>t, <1>3 DEF Exited, InUse, Fresh, TypeOK, Beside
  <2> QED
    BY <1>t, <2>1, UnseenStep
<1> QED
  BY <1>1, <1>2, <1>3 DEF End

(* Every step of the loaders is a step of the shared directory: nobody     *)
(* deletes a file another process uses, and no name comes up twice.        *)
THEOREM ImplementsDirectory == Spec => DirectoryShared
<1>1. Init => Directory!Init
  BY DEF Init, Directory!Init, InUse
<1>2. IInv /\ [Next]_vars => [Directory!Next]_Directory!vars
  <2> SUFFICES ASSUME IInv, [Next]_vars PROVE [Directory!Next]_Directory!vars
    OBVIOUS
  <2>1. ASSUME NEW j \in JVMs, ListFiles(j) \/ Sweep(j) \/ Extract(j) \/ End(j)
        PROVE  [Directory!Next]_Directory!vars
    BY <2>1, ListFilesDirectory, SweepDirectory, ExtractDirectory, EndDirectory
  <2>2. CASE UNCHANGED vars
    BY <2>2 DEF vars, Directory!vars, Name, InUse, Taken, Fresh
  <2> QED
    BY <2>1, <2>2 DEF Next
<1> QED
  BY <1>1, <1>2, Invariance, PTL DEF Spec, DirectoryShared, Directory!Spec
=============================================================================
