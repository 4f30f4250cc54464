------------------------------ MODULE Startup -------------------------------
(***************************************************************************)
(* How the threads of one JVM bring the library up: the first use of       *)
(* Secp256k1 initialises its companion, which finds a loader, which loads  *)
(* the native library and answers with Secp256k1Jni; the first native      *)
(* method then initialises Secp256k1Context, which creates the context.    *)
(* An application may also call a loader itself.                           *)
(*                                                                         *)
(* A thread is a stack of tasks, the current one first.  A class under     *)
(* initialisation, or a loader's monitor, is held by the thread whose      *)
(* stack holds the task that ends it, so both are reentrant, as they are   *)
(* in the JVM.  An exception takes the tasks off one by one: it leaves the *)
(* monitors and makes the classes erroneous for ever.                      *)
(*                                                                         *)
(* Api stands for the interface Secp256k1 and its companion, which the     *)
(* interface's initialiser initialises.                                    *)
(***************************************************************************)
EXTENDS Naturals, Sequences

CONSTANTS Threads,
          DirectLoads,           \* the application may call load() itself
          DefaultMethods         \* bodies of interface functions are JVM
                                 \* default methods: initialising Secp256k1Jni
                                 \* then initialises Secp256k1 first

ASSUME SwitchesAssumption == DirectLoads \in BOOLEAN /\ DefaultMethods \in BOOLEAN

VARIABLES jars,                  \* the loaders on the class path
          stack,                 \* the tasks of each thread
          thrown,                \* the thread is unwinding an exception
          value,                 \* what its last load() returned
          cls,                   \* the state of each class
          lib,                   \* the native library is loaded
          extracted,             \* the field of Secp256k1JniJvmLoader
          made,                  \* library contexts ever created
          context,               \* the field of Secp256k1Context
          hooked,                \* contexts whose callback is installed
          calls                  \* outcome of each thread's last API call

vars == <<jars, stack, thrown, value, cls, lib, extracted, made, context,
          hooked, calls>>

Loaders == {"android", "jvm"}

Classes == {"Api", "Jni", "Context"}

Tasks ==
    ({"get", "done"} \X Classes) \cup ({"enter", "open", "leave"} \X Loaders)
        \cup {<<s>> : s \in {"find", "return", "cast", "create", "hook",
                             "check", "native", "answer"}}

Outcomes == {"none", "ok", "failed"}

Contexts == 0..2                 \* a second context is already one too many

TypeOK ==
    /\ jars \subseteq Loaders
    /\ stack \in [Threads -> Seq(Tasks)]
    /\ thrown \in [Threads -> BOOLEAN]
    /\ value \in [Threads -> {"null", "Secp256k1Jni"}]
    /\ cls \in [Classes -> {"no", "done", "failed"}]
    /\ lib \in BOOLEAN /\ extracted \in BOOLEAN
    /\ made \in Contexts /\ context \in Contexts /\ hooked \subseteq Contexts
    /\ calls \in [Threads -> Outcomes]

Init ==
    /\ jars \in SUBSET Loaders
    /\ stack = [t \in Threads |-> <<>>]
    /\ thrown = [t \in Threads |-> FALSE]
    /\ value = [t \in Threads |-> "null"]
    /\ cls = [c \in Classes |-> "no"]
    /\ lib = FALSE /\ extracted = FALSE
    /\ made = 0 /\ context = 0 /\ hooked = {}
    /\ calls = [t \in Threads |-> "none"]

-----------------------------------------------------------------------------
Idle(t) == stack[t] = <<>> /\ ~thrown[t]

Current(t, task) == stack[t] # <<>> /\ ~thrown[t] /\ Head(stack[t]) = task

(* The current task is replaced by those it consists of.                   *)
Does(t, tasks) == stack' = [stack EXCEPT ![t] = tasks \o Tail(@)]

Throws(t) == thrown' = [thrown EXCEPT ![t] = TRUE] /\ UNCHANGED stack

Has(t, task) == \E i \in DOMAIN stack[t] : stack[t][i] = task

HeldByOther(t, task) == \E u \in Threads \ {t} : Has(u, task)

loadingVars == <<jars, lib, extracted>>
contextVars == <<made, context, hooked>>

(* A call that loads the library itself before it uses the interface.      *)
CallApiLoadsFirst(t) ==
    /\ Idle(t)
    /\ \E l \in jars : stack' = [stack EXCEPT ![t] =
           <<<<"enter", l>>, <<"get", "Api">>, <<"get", "Context">>, <<"check">>,
             <<"native">>, <<"answer">>>>]
    /\ UNCHANGED <<thrown, value, cls, loadingVars, contextVars, calls>>

(* Secp256k1.verify(...) and all the others.                               *)
CallApi(t) ==
    /\ Idle(t)
    /\ stack' = [stack EXCEPT ![t] = <<<<"get", "Api">>, <<"get", "Context">>,
                                       <<"check">>, <<"native">>, <<"answer">>>>]
    /\ UNCHANGED <<thrown, value, cls, loadingVars, contextVars, calls>>

CallLoad(t, l) ==
    /\ DirectLoads /\ l \in jars
    /\ Idle(t)
    /\ stack' = [stack EXCEPT ![t] = <<<<"enter", l>>>>]
    /\ UNCHANGED <<thrown, value, cls, loadingVars, contextVars, calls>>

(* What the initialiser of a class does.                                   *)
Initialiser(c) ==
    CASE c = "Api" -> <<<<"find">>, <<"cast">>>>
      [] c = "Jni" -> IF DefaultMethods THEN <<<<"get", "Api">>>> ELSE <<>>
      [] c = "Context" -> <<<<"create">>>>

(* A class initialised without asking whether another thread is at it.     *)
GetUnguarded(t, c) ==
    /\ Current(t, <<"get", c>>)
    /\ CASE cls[c] = "failed" -> Throws(t)
         [] cls[c] = "done" \/ Has(t, <<"done", c>>) ->
                Does(t, <<>>) /\ UNCHANGED thrown
         [] OTHER ->
                Does(t, Append(Initialiser(c), <<"done", c>>)) /\ UNCHANGED thrown
    /\ UNCHANGED <<value, cls, loadingVars, contextVars, calls>>

(* A class is initialised on first use.  A thread waits for another that   *)
(* is at it, but goes on if it is at it itself; an erroneous class throws. *)
Get(t, c) ==
    /\ Current(t, <<"get", c>>)
    /\ ~HeldByOther(t, <<"done", c>>)
    /\ CASE cls[c] = "failed" -> Throws(t)
         [] cls[c] = "done" \/ Has(t, <<"done", c>>) ->
                Does(t, <<>>) /\ UNCHANGED thrown
         [] OTHER ->
                Does(t, Append(Initialiser(c), <<"done", c>>)) /\ UNCHANGED thrown
    /\ UNCHANGED <<value, cls, loadingVars, contextVars, calls>>

Done(t, c) ==
    /\ Current(t, <<"done", c>>)
    /\ cls' = [cls EXCEPT ![c] = "done"]
    /\ Does(t, <<>>)
    /\ UNCHANGED <<thrown, value, loadingVars, contextVars, calls>>

(* getSecpk256k1(): the Android loader, else the JVM one, else an error.   *)
(* Only the absence of the class makes it go on to the next.               *)
Find(t) ==
    /\ Current(t, <<"find">>)
    /\ IF jars = {} THEN Throws(t)
       ELSE /\ Does(t, <<<<"enter", IF "android" \in jars THEN "android" ELSE "jvm">>>>)
            /\ UNCHANGED thrown
    /\ UNCHANGED <<value, cls, loadingVars, contextVars, calls>>

(* "load.invoke(null) as Secp256k1": null is not a Secp256k1.              *)
Cast(t) ==
    /\ Current(t, <<"cast">>)
    /\ IF value[t] = "null" THEN Throws(t) ELSE Does(t, <<>>) /\ UNCHANGED thrown
    /\ UNCHANGED <<value, cls, loadingVars, contextVars, calls>>

(* Both load() are synchronized.                                           *)
Enter(t, l) ==
    /\ Current(t, <<"enter", l>>)
    /\ ~HeldByOther(t, <<"leave", l>>)
    /\ Does(t, <<<<"open", l>>, <<"get", "Jni">>, <<"return">>, <<"leave", l>>>>)
    /\ UNCHANGED <<thrown, value, cls, loadingVars, contextVars, calls>>

Leave(t, l) ==
    /\ Current(t, <<"leave", l>>)
    /\ Does(t, <<>>)
    /\ UNCHANGED <<thrown, value, cls, loadingVars, contextVars, calls>>

(* The field set before the library is loaded.                             *)
OpenJvmEager(t) ==
    /\ Current(t, <<"open", "jvm">>)
    /\ \/ extracted /\ Does(t, <<>>) /\ UNCHANGED <<thrown, lib>>
       \/ ~extracted /\ lib' = TRUE /\ Does(t, <<>>) /\ UNCHANGED thrown
       \/ ~extracted /\ Throws(t) /\ UNCHANGED lib
    /\ extracted' = TRUE
    /\ UNCHANGED <<jars, value, cls, contextVars, calls>>

(* loadSecp256k1NativeLibrary(): nothing once extracted; otherwise the     *)
(* library is loaded and then the field set, or it throws.                 *)
OpenJvm(t) ==
    /\ Current(t, <<"open", "jvm">>)
    /\ \/ extracted /\ Does(t, <<>>) /\ UNCHANGED <<thrown, lib, extracted>>
       \/ ~extracted /\ lib' = TRUE /\ extracted' = TRUE /\ Does(t, <<>>)
                     /\ UNCHANGED thrown
       \/ ~extracted /\ Throws(t) /\ UNCHANGED <<lib, extracted>>
    /\ UNCHANGED <<jars, value, cls, contextVars, calls>>

(* System.loadLibrary; where it cannot find the library the JVM loader is  *)
(* asked, if it is there, and its answer is returned.                      *)
OpenAndroid(t) ==
    /\ Current(t, <<"open", "android">>)
    /\ \/ lib' = TRUE /\ Does(t, <<>>) /\ UNCHANGED thrown
       \/ /\ "jvm" \in jars
          /\ stack' = [stack EXCEPT ![t] =
                 <<<<"enter", "jvm">>, <<"cast">>>> \o SubSeq(@, 4, Len(@))]
          /\ UNCHANGED <<lib, thrown>>
       \/ "jvm" \notin jars /\ Throws(t) /\ UNCHANGED lib
    /\ UNCHANGED <<jars, extracted, value, cls, contextVars, calls>>

(* The field read before its class is initialised counts as an answer.     *)
ReturnUnset(t) ==
    /\ Current(t, <<"return">>)
    /\ value' = [value EXCEPT ![t] = IF cls["Jni"] = "done" THEN "Secp256k1Jni"
                                                            ELSE "unset"]
    /\ Does(t, <<>>)
    /\ UNCHANGED <<thrown, cls, loadingVars, contextVars, calls>>

(* "return Secp256k1Jni" reads the field INSTANCE, which is null until the *)
(* class is initialised.                                                   *)
Return(t) ==
    /\ Current(t, <<"return">>)
    /\ value' = [value EXCEPT ![t] = IF cls["Jni"] = "done" THEN "Secp256k1Jni"
                                                            ELSE "null"]
    /\ Does(t, <<>>)
    /\ UNCHANGED <<thrown, cls, loadingVars, contextVars, calls>>

(* secp256k1_context_create, a native method: the context, or NULL without *)
(* memory.                                                                 *)
Create(t) ==
    /\ Current(t, <<"create">>)
    /\ IF ~lib THEN Throws(t) /\ UNCHANGED made
       ELSE /\ UNCHANGED thrown
            /\ \/ Does(t, <<>>) /\ UNCHANGED made
               \/ /\ made' = IF made = 2 THEN 2 ELSE made + 1
                  /\ Does(t, <<<<"hook">>>>)
    /\ UNCHANGED <<value, cls, loadingVars, context, hooked, calls>>

(* The callback is installed and the context returned.                     *)
Hook(t) ==
    /\ Current(t, <<"hook">>)
    /\ hooked' = hooked \cup {made}
    /\ context' = made
    /\ Does(t, <<>>)
    /\ UNCHANGED <<thrown, value, cls, loadingVars, made, calls>>

(* getContext() throws on a NULL context.                                  *)
Check(t) ==
    /\ Current(t, <<"check">>)
    /\ IF context = 0 THEN Throws(t) ELSE Does(t, <<>>) /\ UNCHANGED thrown
    /\ UNCHANGED <<value, cls, loadingVars, contextVars, calls>>

(* The native method runs on the context; its own failures are not those   *)
(* of the start.                                                           *)
Native(t) ==
    /\ Current(t, <<"native">>)
    /\ Does(t, <<>>)
    /\ UNCHANGED <<thrown, value, cls, loadingVars, contextVars, calls>>

Answer(t) ==
    /\ Current(t, <<"answer">>)
    /\ calls' = [calls EXCEPT ![t] = "ok"]
    /\ Does(t, <<>>)
    /\ UNCHANGED <<thrown, value, cls, loadingVars, contextVars>>

(* The exception ends the current task.                                    *)
EndsTask(t) ==
    LET task == Head(stack[t]) IN
    /\ cls' = IF task[1] = "done" THEN [cls EXCEPT ![task[2]] = "failed"] ELSE cls
    /\ calls' = IF task[1] = "answer" THEN [calls EXCEPT ![t] = "failed"] ELSE calls

(* A class whose initialiser failed may be initialised again.              *)
UnwindForgiving(t) ==
    /\ thrown[t]
    /\ calls' = IF Head(stack[t])[1] = "answer" THEN [calls EXCEPT ![t] = "failed"]
                                                ELSE calls
    /\ stack' = [stack EXCEPT ![t] = Tail(@)]
    /\ thrown' = [thrown EXCEPT ![t] = Len(stack[t]) > 1]
    /\ UNCHANGED <<value, cls, loadingVars, contextVars>>

(* The companion tries its loaders again until one answers.                *)
UnwindRetry(t) ==
    /\ thrown[t]
    /\ IF Head(stack[t]) = <<"done", "Api">>
       THEN /\ stack' = [stack EXCEPT ![t] = Initialiser("Api") \o @]
            /\ thrown' = [thrown EXCEPT ![t] = FALSE]
            /\ UNCHANGED <<cls, calls>>
       ELSE /\ EndsTask(t)
            /\ stack' = [stack EXCEPT ![t] = Tail(@)]
            /\ thrown' = [thrown EXCEPT ![t] = Len(stack[t]) > 1]
    /\ UNCHANGED <<value, loadingVars, contextVars>>

Unwind(t) ==
    /\ thrown[t]
    /\ EndsTask(t)
    /\ stack' = [stack EXCEPT ![t] = Tail(@)]
    /\ thrown' = [thrown EXCEPT ![t] = Len(stack[t]) > 1]
    /\ UNCHANGED <<value, loadingVars, contextVars>>

(* A task of a thread that has begun.                                      *)
Step(t) ==
    \/ \E c \in Classes : Get(t, c) \/ Done(t, c)
    \/ \E l \in Loaders : Enter(t, l) \/ Leave(t, l)
    \/ Find(t) \/ Cast(t) \/ OpenJvm(t) \/ OpenAndroid(t) \/ Return(t)
    \/ Create(t) \/ Hook(t) \/ Check(t) \/ Native(t) \/ Answer(t)
    \/ Unwind(t)

Next ==
    \E t \in Threads : CallApi(t) \/ (\E l \in Loaders : CallLoad(t, l)) \/ Step(t)

(* A thread that is not waiting runs; nothing makes it call.               *)
Fairness == \A t \in Threads : WF_vars(Step(t))

Spec == Init /\ [][Next]_vars /\ Fairness

-----------------------------------------------------------------------------
(* No native method is called before the library is loaded: neither the    *)
(* field extracted nor an initialised class promises it too early, whatever*)
(* failed before and whoever retried.                                      *)
LibraryFirst ==
    \A t \in Threads : Current(t, <<"create">>) \/ Current(t, <<"native">>) => lib

(* The start is decided once: the threads' calls all succeed or all fail,  *)
(* and what the first one met every later one meets.  A failed class       *)
(* initialiser and a NULL context are final, a success is as well.         *)
StartIsFinal ==
    [][\A t, u \in Threads : calls[t] # "none" => calls'[u] \in {"none", calls[t]}]_vars

(* Nobody calls a loader directly.                                         *)
OnlyApiNow == \A t \in Threads : stack[t] # <<>> => stack[t][Len(stack[t])] = <<"answer">>

OnlyApiCalls == []OnlyApiNow

(* As long as nobody calls a loader directly, a call always ends, with an  *)
(* answer or an exception: threads that meet in the initialisers and the   *)
(* loaders do not wait for each other for ever.                            *)
CallsEnd == OnlyApiCalls => \A t \in Threads : stack[t] # <<>> ~> stack[t] = <<>>

(* The thread t cannot go on before u has done with a class or a monitor.  *)
WaitsFor(t, u) ==
    /\ t # u
    /\ \/ \E c \in Classes : Current(t, <<"get", c>>) /\ Has(u, <<"done", c>>)
       \/ \E l \in Loaders : Current(t, <<"enter", l>>) /\ Has(u, <<"leave", l>>)

(* Between calls of the API no cycle of waiting threads can form, for the  *)
(* one that is waited for never waits: the companion's initialiser is the  *)
(* outermost, and whoever is in a loader or in another class is in it, or  *)
(* is past it.                                                             *)
NoWaitingChain ==
    OnlyApiNow => \A t, u, v \in Threads : ~(WaitsFor(t, u) /\ WaitsFor(u, v))

(* The doc comment of load(): it answers when the library is loaded and    *)
(* throws when loading fails, so nothing but opening the library throws    *)
(* inside a load().                                                        *)
LoadReturns ==
    [][\A t \in Threads :
          /\ thrown'[t] /\ ~thrown[t]
          /\ \E l \in Loaders : Has(t, <<"leave", l>>)
          => Head(stack[t]) \in {"open"} \X Loaders]_vars

(* The context as both backends promise it.                                *)
Published == IF cls["Context"] = "done" /\ context \in hooked THEN context ELSE 0

Shared == INSTANCE SharedContext WITH
              shared <- Published,
              using <- [t \in Threads |-> IF Current(t, <<"native">>) THEN context ELSE 0]

ContextShared == Shared!Spec
=============================================================================
