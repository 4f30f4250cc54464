------------------------ MODULE NativeContext_proofs ------------------------
(***************************************************************************)
(* The lazy context for any number of threads whose calls meet in any way  *)
(* and whose creations fail any number of times.                           *)
(***************************************************************************)
EXTENDS NativeContext, TLAPS

Initialising(t) == pc[t] \in {"create", "hook", "publish"}

(* At most one thread runs the initialiser, and only while the value is    *)
(* unset.                                                                  *)
OneInitialiser ==
    \A t \in Threads : Initialising(t) =>
        ctx = 0 /\ \A u \in Threads : Initialising(u) => u = t

(* The context on its way to be published is the only one there is.        *)
FirstContext ==
    /\ \A t \in Threads : pc[t] \in {"hook", "publish"} => mine[t] = 1
    /\ \A t \in Threads : pc[t] = "publish" => 1 \in hooked
    /\ \A t \in Threads : pc[t] = "create" => made = 0
    /\ (ctx = 0 /\ \A t \in Threads : pc[t] \notin {"hook", "publish"}) => made = 0

(* Once published it stays, and only then it is used.                      *)
UsedWhenPublished ==
    /\ ctx = 0 \/ (ctx = 1 /\ 1 \in hooked)
    /\ \A t \in Threads : pc[t] \in {"ready", "native"} \/ res[t] = "ok" => ctx = 1

IInv == TypeOK /\ OneInitialiser /\ FirstContext /\ UsedWhenPublished

-----------------------------------------------------------------------------
LEMMA InitIInv == Init => IInv
BY BoundAssumption
   DEF Init, IInv, TypeOK, Contexts, Places, OneInitialiser, Initialising, FirstContext,
       UsedWhenPublished

(* Every step keeps the type.                                              *)
LEMMA TypeStep ==
    ASSUME TypeOK, NEW t \in Threads, Call(t) \/ Step(t)
    PROVE  TypeOK'
<1> USE BoundAssumption DEF TypeOK, Goto, Contexts, Places
<1>1. CASE Call(t)
  BY <1>1 DEF Call
<1>2. CASE Lock(t)
  BY <1>2 DEF Lock
<1>3. CASE Create(t)
  BY <1>3 DEF Create
<1>4. CASE Hook(t)
  BY <1>4 DEF Hook
<1>5. CASE Publish(t)
  BY <1>5 DEF Publish
<1>6. CASE Begin(t)
  BY <1>6 DEF Begin
<1>7. CASE Return(t)
  BY <1>7 DEF Return
<1> QED
  BY <1>1, <1>2, <1>3, <1>4, <1>5, <1>6, <1>7 DEF Step

(* The lock lets one thread at a time into the initialiser, which it       *)
(* leaves with the value set or with nothing made.                         *)
LEMMA StepIInv ==
    ASSUME IInv, NEW t \in Threads, Call(t) \/ Step(t)
    PROVE  IInv'
<1> USE BoundAssumption
    DEF IInv, TypeOK, Contexts, Goto, OneInitialiser, Initialising, FirstContext,
        UsedWhenPublished
<1>0. TypeOK'
  BY TypeStep
<1>1. CASE Call(t)
  BY <1>0, <1>1 DEF Call
<1>2. CASE Lock(t)
  BY <1>0, <1>2 DEF Lock, Locked
<1>3. CASE Create(t)
  BY <1>0, <1>3 DEF Create
<1>4. CASE Hook(t)
  BY <1>0, <1>4 DEF Hook
<1>5. CASE Publish(t)
  BY <1>0, <1>5 DEF Publish
<1>6. CASE Begin(t)
  BY <1>0, <1>6 DEF Begin
<1>7. CASE Return(t)
  BY <1>0, <1>7 DEF Return
<1> QED
  BY <1>1, <1>2, <1>3, <1>4, <1>5, <1>6, <1>7 DEF Step

LEMMA NextIInv == IInv /\ [Next]_vars => IInv'
<1>1. IInv /\ UNCHANGED vars => IInv'
  BY DEF vars, IInv, TypeOK, OneInitialiser, Initialising, FirstContext, UsedWhenPublished
<1> QED
  BY <1>1, StepIInv DEF Next

THEOREM Invariance == Spec => []IInv
BY InitIInv, NextIInv, PTL DEF Spec

(* The state of the threads and of the context keeps its type.             *)
THEOREM TypeCorrect == Spec => []TypeOK
<1>1. IInv => TypeOK
  BY DEF IInv
<1> QED
  BY <1>1, Invariance, PTL

(* However the first calls meet, the library runs on a context whose       *)
(* callback is installed, and no callback is installed while it runs.      *)
THEOREM SetUpAlone == Spec => []ExclusiveSetup
<1>1. IInv => ExclusiveSetup
  BY DEF IInv, OneInitialiser, Initialising, UsedWhenPublished, ExclusiveSetup
<1> QED
  BY <1>1, Invariance, PTL

-----------------------------------------------------------------------------
(* After a call that answered nobody is in the initialiser any more, which *)
(* is the only place where a call fails.                                   *)
LEMMA NoNewFailure ==
    ASSUME IInv, [Next]_vars, NEW t \in Threads, NEW u \in Threads, res[t] = "ok"
    PROVE  ~(res[u] # "failed" /\ res'[u] = "failed")
<1>1. ctx = 1
  BY DEF IInv, UsedWhenPublished
<1>2. \A v \in Threads : pc[v] # "create"
  BY <1>1 DEF IInv, OneInitialiser, Initialising
<1>3. \A v \in Threads : ~Create(v)
  BY <1>2 DEF Create, Goto
<1>4. ASSUME NEW v \in Threads, Call(v) \/ Step(v)
      PROVE  ~(res[u] # "failed" /\ res'[u] = "failed")
  BY <1>3, <1>4 DEF Step, Call, Lock, Hook, Publish, Begin, Return, IInv, TypeOK
<1>5. CASE UNCHANGED vars
  BY <1>5 DEF vars
<1> QED
  BY <1>4, <1>5 DEF Next

(* A success of any thread is final for all of them.                       *)
THEOREM SuccessIsFinal == Spec => OnlySuccessIsFinal
<1>1. IInv /\ [Next]_vars =>
        [\A t, u \in Threads : res[t] = "ok" => ~(res[u] # "failed" /\ res'[u] = "failed")]_vars
  BY NoNewFailure
<1> QED
  BY <1>1, Invariance, PTL DEF Spec, OnlySuccessIsFinal

-----------------------------------------------------------------------------
(* The refinement.                                                         *)

LEMMA SharedInit == Init => Shared!Init
BY DEF Init, Shared!Init

(* Publishing maps to Publish, a library call to Begin and End, everything *)
(* else to a stutter.                                                      *)
LEMMA SharedStep ==
    ASSUME IInv, NEW t \in Threads, Call(t) \/ Step(t)
    PROVE  [Shared!Next]_Shared!vars
<1> DEFINE uses == [u \in Threads |-> IF pc[u] = "native" THEN ctx ELSE 0]
<1> USE DEF IInv, TypeOK, Goto
<1>1. CASE Call(t) \/ Lock(t) \/ Create(t) \/ Hook(t)
  <2>1. ctx' = ctx
    BY <1>1 DEF Call, Lock, Create, Hook
  <2>2. \A u \in Threads : pc'[u] = "native" <=> pc[u] = "native"
    BY <1>1 DEF Call, Lock, Create, Hook
  <2>3. uses' = uses
    BY <2>1, <2>2
  <2> QED
    BY <2>1, <2>3 DEF Shared!vars
<1>2. CASE Publish(t)
  <2>1. ctx = 0 /\ ctx' = 1
    BY <1>2 DEF Publish, OneInitialiser, Initialising, FirstContext
  <2>2. \A u \in Threads : pc[u] # "native" /\ pc'[u] # "native"
    BY <1>2, <2>1 DEF Publish, UsedWhenPublished
  <2>3. uses' = uses
    BY <2>2
  <2> QED
    BY <2>1, <2>3 DEF Shared!Next, Shared!Publish
<1>3. CASE Begin(t)
  <2>1. ctx = 1 /\ ctx' = ctx
    BY <1>3 DEF Begin, UsedWhenPublished
  <2>2. uses[t] = 0 /\ uses' = [uses EXCEPT ![t] = ctx]
    BY <1>3, <2>1 DEF Begin
  <2>3. Shared!Begin(t)
    BY <2>1, <2>2 DEF Shared!Begin
  <2> QED
    BY <2>3 DEF Shared!Next
<1>4. CASE Return(t)
  <2>1. ctx = 1 /\ ctx' = ctx
    BY <1>4 DEF Return, UsedWhenPublished
  <2>2. uses[t] = 1 /\ uses' = [uses EXCEPT ![t] = 0]
    BY <1>4, <2>1 DEF Return
  <2>3. Shared!End(t)
    BY <2>1, <2>2 DEF Shared!End
  <2> QED
    BY <2>3 DEF Shared!Next
<1> QED
  BY <1>1, <1>2, <1>3, <1>4 DEF Step

(* The lazy context is the one context both backends promise.              *)
THEOREM ImplementsShared == Spec => ContextShared
<1>1. IInv /\ [Next]_vars => [Shared!Next]_Shared!vars
  <2>1. UNCHANGED vars => UNCHANGED Shared!vars
    BY DEF vars, Shared!vars
  <2> QED
    BY <2>1, SharedStep DEF Next
<1> QED
  BY <1>1, SharedInit, Invariance, PTL DEF Spec, ContextShared, Shared!Spec
=============================================================================
