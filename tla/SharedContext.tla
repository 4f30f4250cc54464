---------------------------- MODULE SharedContext ----------------------------
(***************************************************************************)
(* What both backends promise about the library context: one context is    *)
(* published, once, with its illegal-argument callback already installed   *)
(* by a thread that had it for itself; every library call of every thread  *)
(* runs on that context, and a call without it is refused.                 *)
(*                                                                         *)
(* Startup (JVM) and NativeContext (Kotlin/Native) implement this.         *)
(***************************************************************************)
EXTENDS Naturals

CONSTANT Threads

VARIABLES shared,                \* the published context, 0 before
          using                  \* the context each thread's library call
                                 \* runs on, 0 outside library calls

vars == <<shared, using>>

TypeOK == shared \in {0, 1} /\ using \in [Threads -> {0, 1}]

Init == shared = 0 /\ using = [t \in Threads |-> 0]

Publish == shared = 0 /\ shared' = 1 /\ UNCHANGED using

Begin(t) ==
    /\ shared # 0 /\ using[t] = 0
    /\ using' = [using EXCEPT ![t] = shared]
    /\ UNCHANGED shared

End(t) ==
    /\ using[t] # 0
    /\ using' = [using EXCEPT ![t] = 0]
    /\ UNCHANGED shared

Next == Publish \/ \E t \in Threads : Begin(t) \/ End(t)

Spec == Init /\ [][Next]_vars
=============================================================================
