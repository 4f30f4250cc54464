---------------------------- MODULE NativeContext ----------------------------
(***************************************************************************)
(* The lazy context of the Kotlin/Native backend (Secp256k1Native.ctx).    *)
(*                                                                         *)
(* "by lazy" is synchronized: a thread that finds no value takes the lock, *)
(* looks again, runs the initialiser and publishes what it returns.  The   *)
(* initialiser creates the context, fails when it gets none, and installs  *)
(* the callback.  When it fails the value stays unset, and a later call    *)
(* runs it again.                                                          *)
(***************************************************************************)
EXTENDS Naturals

CONSTANTS Threads,
          MaxContexts            \* bound on contexts created, above the one
                                 \* there may be

ASSUME BoundAssumption == MaxContexts \in Nat \ {0, 1}

VARIABLES pc,                    \* where each thread is in a call
          made,                  \* contexts created so far
          mine,                  \* the context a thread's initialiser made
          hooked,                \* contexts whose callback is installed
          ctx,                   \* the published value, 0 while unset
          res                    \* the outcome of a thread's last call

vars == <<pc, made, mine, hooked, ctx, res>>

Contexts == 0..MaxContexts

(* Outside, about to take the lock, in the initialiser, about to publish,  *)
(* with the value, in a library call.                                      *)
Places == {"idle", "lock", "create", "hook", "publish", "ready", "native"}

TypeOK ==
    /\ pc \in [Threads -> Places]
    /\ made \in Contexts /\ ctx \in Contexts
    /\ mine \in [Threads -> Contexts]
    /\ hooked \subseteq Contexts
    /\ res \in [Threads -> {"none", "ok", "failed"}]

Init ==
    /\ pc = [t \in Threads |-> "idle"]
    /\ made = 0 /\ ctx = 0
    /\ mine = [t \in Threads |-> 0]
    /\ hooked = {}
    /\ res = [t \in Threads |-> "none"]

-----------------------------------------------------------------------------
Goto(t, from, to) == pc[t] = from /\ pc' = [pc EXCEPT ![t] = to]

(* The lock is held by the thread that runs the initialiser.               *)
Locked == \E t \in Threads : pc[t] \in {"create", "hook", "publish"}

(* A use of ctx: the published value is read without the lock.             *)
Call(t) ==
    /\ IF ctx # 0 THEN Goto(t, "idle", "ready") ELSE Goto(t, "idle", "lock")
    /\ UNCHANGED <<made, mine, hooked, ctx, res>>

(* The value is not looked at again once the lock is held.                 *)
LockBlindly(t) ==
    /\ ~Locked
    /\ Goto(t, "lock", "create")
    /\ UNCHANGED <<made, mine, hooked, ctx, res>>

(* The lock not released to waiters when the value is already there.       *)
LockWhenUnset(t) ==
    /\ ~Locked /\ ctx = 0
    /\ Goto(t, "lock", "create")
    /\ UNCHANGED <<made, mine, hooked, ctx, res>>

Lock(t) ==
    /\ ~Locked
    /\ IF ctx # 0 THEN Goto(t, "lock", "ready") ELSE Goto(t, "lock", "create")
    /\ UNCHANGED <<made, mine, hooked, ctx, res>>

(* The test for NULL left out: what is kept is no context.                 *)
CreateNull(t) ==
    /\ Goto(t, "create", "hook")
    /\ \/ made < MaxContexts /\ made' = made + 1
                             /\ mine' = [mine EXCEPT ![t] = made + 1]
       \/ made' = made /\ mine' = [mine EXCEPT ![t] = MaxContexts + 1]
    /\ UNCHANGED <<hooked, ctx, res>>

(* secp256k1_context_create, or error("Could not create ..."): the         *)
(* exception leaves the lock and the call.                                 *)
Create(t) ==
    /\ \/ /\ made < MaxContexts
          /\ Goto(t, "create", "hook")
          /\ made' = made + 1
          /\ mine' = [mine EXCEPT ![t] = made + 1]
          /\ UNCHANGED res
       \/ /\ Goto(t, "create", "idle")
          /\ res' = [res EXCEPT ![t] = "failed"]
          /\ UNCHANGED <<made, mine>>
    /\ UNCHANGED <<hooked, ctx>>

(* The callback installed on a context others can already see.             *)
HookPublished(t) ==
    /\ Goto(t, "hook", "publish")
    /\ ctx' = mine[t]
    /\ UNCHANGED <<made, mine, hooked, res>>

Hook(t) ==
    /\ Goto(t, "hook", "publish")
    /\ hooked' = hooked \cup {mine[t]}
    /\ UNCHANGED <<made, mine, ctx, res>>

(* The value is set and the lock released.                                 *)
Publish(t) ==
    /\ Goto(t, "publish", "ready")
    /\ ctx' = mine[t]
    /\ UNCHANGED <<made, mine, hooked, res>>

(* A library call on the context begins.                                   *)
Begin(t) ==
    /\ Goto(t, "ready", "native")
    /\ UNCHANGED <<made, mine, hooked, ctx, res>>

(* The library call on the context returns.                                *)
Return(t) ==
    /\ Goto(t, "native", "idle")
    /\ res' = [res EXCEPT ![t] = "ok"]
    /\ UNCHANGED <<made, mine, hooked, ctx>>

Step(t) == Lock(t) \/ Create(t) \/ Hook(t) \/ Publish(t) \/ Begin(t) \/ Return(t)

Next == \E t \in Threads : Call(t) \/ Step(t)

(* A thread in a call runs; who gets the lock next is not promised.        *)
Fairness == \A t \in Threads : WF_vars(Step(t))

Spec == Init /\ [][Next]_vars /\ Fairness

-----------------------------------------------------------------------------
(* No thread runs the library on a context whose callback is not yet       *)
(* installed, and once a thread does, nobody installs a callback: setting  *)
(* it needs the context to itself.                                         *)
ExclusiveSetup ==
    /\ \A t \in Threads : pc[t] = "native" => ctx \in hooked
    /\ \A t, u \in Threads : ~(pc[t] = "native" /\ pc[u] = "hook")

(* Unlike on the JVM a failed creation is not final: a call that comes     *)
(* after it answers if this time there is memory.  What is final is a      *)
(* success.                                                                *)
OnlySuccessIsFinal ==
    [][\A t, u \in Threads : res[t] = "ok" => ~(res[u] # "failed" /\ res'[u] = "failed")]_vars

(* Once there is a context every call ends, although threads may have      *)
(* queued for the lock: the value is looked at again under it.  Before,    *)
(* others whose creations fail may overtake a waiting thread.              *)
CallsEnd == \A t \in Threads : (pc[t] # "idle" /\ ctx # 0) ~> pc[t] = "idle"

Shared == INSTANCE SharedContext WITH
              shared <- ctx,
              using <- [t \in Threads |-> IF pc[t] = "native" THEN ctx ELSE 0]

(* The context is what both backends promise.                              *)
ContextShared == Shared!Spec
=============================================================================
