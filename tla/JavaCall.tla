------------------------------ MODULE JavaCall ------------------------------
(***************************************************************************)
(* What a native method promises its Java caller: the call ends once, with *)
(* a result or an exception; a call that ends with an exception of its own *)
(* has left the arrays of the caller alone, so that it can be repeated;    *)
(* whatever way it ends, no native memory stays behind.                    *)
(*                                                                         *)
(* NativeCall implements this with its allocations, copies and error paths.*)
(***************************************************************************)
EXTENDS Naturals

CONSTANTS Methods, NoMethod,
          Arrays,                \* the arrays a caller may pass
          Partial,               \* methods that may have changed an array
                                 \* when the VM runs out of memory
          Rethrowing             \* methods that may throw once more while
                                 \* their exception is pending

VARIABLES method,                \* the method called last
          status,                \* "idle", "running", or how the call ended
          changed,               \* arrays the caller finds changed
          leaked,                \* native memory no call uses any more
          throws                 \* exceptions thrown by the call

vars == <<method, status, changed, leaked, throws>>

Init ==
    /\ method = NoMethod /\ status = "idle"
    /\ changed = {} /\ leaked = {} /\ throws = 0

Call(m) ==
    /\ status = "idle"
    /\ method' = m /\ status' = "running"
    /\ UNCHANGED <<changed, leaked, throws>>

Return ==
    /\ status = "running" /\ status' = "returned"
    /\ changed' \subseteq Arrays
    /\ UNCHANGED <<method, leaked, throws>>

Throw ==
    /\ status = "running" /\ status' = "threw"
    /\ throws' \in IF method \in Rethrowing THEN {1, 2} ELSE {1}
    /\ UNCHANGED <<method, changed, leaked>>

OutOfMemory ==
    /\ status = "running" /\ status' = "oom"
    /\ changed' \subseteq IF method \in Partial THEN Arrays ELSE {}
    /\ throws' \in {1, 2}
    /\ UNCHANGED <<method, leaked>>

(* The caller takes the result or handles the exception.                   *)
Back ==
    /\ status \in {"returned", "threw", "oom"} /\ status' = "idle"
    /\ method' = NoMethod /\ changed' = {} /\ throws' = 0
    /\ UNCHANGED leaked

Next == (\E m \in Methods : Call(m)) \/ Return \/ Throw \/ OutOfMemory \/ Back

Spec == Init /\ [][Next]_vars
=============================================================================
