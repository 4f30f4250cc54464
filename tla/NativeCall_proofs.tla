-------------------------- MODULE NativeCall_proofs --------------------------
(***************************************************************************)
(* Memory safety of the native calls for every program that follows the    *)
(* release discipline of the bindings.  The discipline is a property of    *)
(* the program text; TLC evaluates it on the real programs, and the        *)
(* theorems below say what it buys at run time, for any number of methods  *)
(* of any length.                                                          *)
(***************************************************************************)
EXTENDS NativeCall, TLAPS

(* Step t frees b in every run in which step s has been executed.          *)
Releases(t, s, b) ==
    b \in t.frees /\ t.opt \in {Always, s.opt} /\ t.on = Verdicts

(* A buffer allocated at j and not released before i is freed by the error *)
(* path of i, and none is left at the end.  A step that allocates several  *)
(* buffers frees all of them when it fails.                                *)
LeakFree(p) ==
    /\ \A i \in 1..(Len(p) + 1) : \A j \in 1..(i - 1) :
          \A b \in p[j].allocs :
             (\A k \in (j + 1)..(i - 1) : ~Releases(p[k], p[j], b)) =>
                 i <= Len(p) /\ (p[i].raises > 0 => b \in p[i].undo)
    /\ \A i \in 1..Len(p) :
          \A b, c \in p[i].allocs : b # c => {b, c} \subseteq p[i].undo

(* Nothing freed at j is freed again later.                                *)
FreedOnce(p) ==
    \A i \in 1..Len(p) : \A j \in 1..(i - 1) :
        (p[i].frees \cup p[i].undo) \cap p[j].frees = {}

(* After a step that writes an array of the caller nothing throws, except  *)
(* the allocation of the result in the methods listed for it.              *)
WritesLast(m, p) ==
    \A i \in 1..Len(p) : \A j \in 1..(i - 1) :
        p[j].writes # {} /\ p[i].raises > 0 =>
            p[i].op = "new" /\ m \in WriteBeforeResult

(* The only steps that throw twice are the allocations of a result.        *)
ThrowsOnce(p) ==
    \A i \in 1..Len(p) : p[i].raises > 1 => p[i].op = "new"

(* The steps before i that have been executed whenever step i is: under no *)
(* guard but arguments that are present, and under every verdict, or under *)
(* those of i with no new verdict in between.                              *)
SureBefore(p, i, present) ==
    {j \in 1..(i - 1) :
        /\ p[j].opt \in present
        /\ \/ p[j].on = Verdicts
           \/ p[i].on \subseteq p[j].on /\ \A k \in j..(i - 1) : DOMAIN p[k].outs = {}}

(* The guards that are present at step i: its own, and the arguments that  *)
(* a step before it refuses to miss.                                       *)
Present(p, i) ==
    LET own == {Always, p[i].opt}
        tests == {j \in SureBefore(p, i, own) : DOMAIN p[j].outs = {}}
    IN own \cup UNION {p[j].rejects : j \in tests}

(* Step i may rely on buffer b: a sure step has allocated it, and nothing  *)
(* frees it before i.                                                      *)
Allocated(p, i, b, present) ==
    \E j \in SureBefore(p, i, present) :
        b \in p[j].allocs /\ \A k \in j..(i - 1) : b \notin p[k].frees

(* Step i of method m may rely on local x: a sure step fills it, a library *)
(* call that returns a status code under each verdict under which i runs.  *)
Filled(m, p, i, x, present) ==
    \E j \in SureBefore(p, i, present) :
        IF DOMAIN p[j].outs = {} THEN x \in p[j].yields
        ELSE /\ \A k \in (j + 1)..(i - 1) : DOMAIN p[k].outs = {}
             /\ \A v \in DOMAIN p[j].outs \cap p[i].on :
                   x \in p[j].outs[v] \cup UnsetUnder(m, {}, v)

(* Step i may give blob x to the library: a sure step compared its magic.  *)
Compared(p, i, x, present) ==
    \E j \in SureBefore(p, i, present) : x \in p[j].vets

(* Data flows forward: a step reads what a sure step before it provides.   *)
(* What it is given may depend on the argument of that name besides.       *)
AllocatedFirst(p) ==
    \A i \in 1..Len(p) :
        /\ \A b \in ((p[i].reads \cup p[i].yields) \cap Buffers(p)) \ p[i].allocs :
              Allocated(p, i, b, Present(p, i))
        /\ \A b \in p[i].given \cap Buffers(p) :
              Allocated(p, i, b, Present(p, i) \cup {b})

FilledFirst(m, p) ==
    \A i \in 1..Len(p) :
        /\ \A x \in p[i].reads : Filled(m, p, i, x, Present(p, i) \cup Needs(m, x))
        /\ \A x \in p[i].given : Filled(NoMethod, p, i, x, Present(p, i) \cup {x})

ComparedFirst(p) ==
    \A i \in 1..Len(p) : p[i].op = "lib" =>
        /\ \A x \in p[i].reads \cap Opaque : Compared(p, i, x, Present(p, i))
        /\ \A x \in p[i].given \cap Opaque :
              Compared(p, i, x, Present(p, i) \cup {x})

(* Well-formed programs: what the steps are made of.                       *)
WellFormed(p) ==
    /\ Len(p) \in Nat
    /\ \A i \in 1..Len(p) :
          /\ p[i].allocs \subseteq STRING /\ p[i].frees \subseteq STRING
          /\ p[i].vets \subseteq STRING /\ p[i].writes \subseteq STRING
          /\ p[i].yields \subseteq STRING
          /\ p[i].opt \in STRING /\ p[i].raises \in 0..2
          /\ \A v \in DOMAIN p[i].outs : p[i].outs[v] \subseteq STRING

(* The release discipline of the bindings: what the theorems below assume  *)
(* of every program.  The invariant IInv says it of the running one, so    *)
(* that TLC evaluates it on all the real programs.                         *)
Disciplined(m) ==
    /\ WellFormed(Program[m])
    /\ LeakFree(Program[m])
    /\ FreedOnce(Program[m])
    /\ WritesLast(m, Program[m])
    /\ AllocatedFirst(Program[m])
    /\ FilledFirst(m, Program[m])
    /\ ComparedFirst(Program[m])
    /\ m \notin RethrowingMethods => ThrowsOnce(Program[m])

Discipline == NoMethod \notin Methods /\ \A m \in Methods : Disciplined(m)

-----------------------------------------------------------------------------
(* The invariant the induction needs.                                      *)

(* What a running call holds was allocated by a step it executed, and no   *)
(* step since has released it.                                             *)
HeldIsDue ==
    \A b \in held : \E j \in 1..(pc - 1) :
        /\ b \in code[j].allocs
        /\ code[j].opt \notin absent
        /\ \A k \in (j + 1)..(pc - 1) : ~Releases(code[k], code[j], b)

FreedIsPast == \A b \in freed : \E j \in 1..(pc - 1) : b \in code[j].frees

WrittenIsPast ==
    written # {} => \E j \in 1..(pc - 1) : code[j].writes # {}

(* The steps the running call has certainly executed.                      *)
Executed ==
    {j \in 1..(pc - 1) :
        /\ code[j].opt \notin absent
        /\ \/ code[j].on = Verdicts
           \/ verdict \in code[j].on /\ \A k \in j..(pc - 1) : DOMAIN code[k].outs = {}}

(* What they did lasts: their buffers are there until a step frees them,   *)
(* their locals stay filled, the last status code tells what it filled,    *)
(* the blobs they compared stay compared, and the arguments they insist on *)
(* are present.                                                            *)
BuffersHeld ==
    \A j \in Executed : \A b \in code[j].allocs :
        (\A k \in j..(pc - 1) : b \notin code[k].frees) => b \in held

LocalsReady ==
    \A j \in Executed :
        IF DOMAIN code[j].outs = {} THEN code[j].yields \subseteq ready
        ELSE (\A k \in (j + 1)..(pc - 1) : DOMAIN code[k].outs = {}) =>
                verdict \in DOMAIN code[j].outs /\ code[j].outs[verdict] \subseteq ready

BlobsVetted == \A j \in Executed : code[j].vets \subseteq vetted

ArgumentsPresent ==
    \A j \in Executed : DOMAIN code[j].outs = {} => code[j].rejects \cap absent = {}

FlowInv == BuffersHeld /\ LocalsReady /\ BlobsVetted /\ ArgumentsPresent

RunningInv ==
    Running =>
        /\ method \in Methods /\ code = Program[method]
        /\ Disciplined(method)
        /\ pc \in 1..(Len(code) + 1)
        /\ throws = 0
        /\ Always \notin absent
        /\ HeldIsDue /\ FreedIsPast /\ WrittenIsPast
        /\ FlowInv

IdleInv ==
    status = "idle" =>
        /\ method = NoMethod /\ code = <<>> /\ absent = {} /\ pc = 1
        /\ freed = {} /\ ready = {} /\ vetted = {} /\ written = {}
        /\ verdict = "none" /\ throws = 0

IInv == TypeOK /\ RunningInv /\ IdleInv /\ NoLeak /\ ThrowLeavesArrays

-----------------------------------------------------------------------------
(* The program of a running call obeys the discipline.                     *)
LEMMA RunningCode ==
    ASSUME IInv, Running
    PROVE  /\ WellFormed(code) /\ LeakFree(code)
           /\ FreedOnce(code) /\ WritesLast(method, code)
           /\ AllocatedFirst(code) /\ FilledFirst(method, code) /\ ComparedFirst(code)
           /\ method \notin RethrowingMethods => ThrowsOnce(code)
BY DEF IInv, RunningInv, Disciplined

(* Initially nothing is held, and the thread is in Java.                   *)
LEMMA InitIInv == ASSUME Discipline PROVE Init => IInv
BY DEF Discipline, Init, IInv, TypeOK, RunningInv, IdleInv, NoLeak, ThrowLeavesArrays,
       Running, NoMethod, Verdicts

(* A call starts with the empty hands an idle thread has.                  *)
LEMMA CallIInv ==
    ASSUME Discipline, IInv, NEW m \in Methods, NEW a \in SUBSET Options(Program[m]),
           Call(m, a)
    PROVE  IInv'
<1>1. /\ WellFormed(Program[m])
      /\ method' = m /\ code' = Program[m] /\ absent' = a
      /\ status' = "running" /\ pc' = 1 /\ throws' = 0
      /\ held' = {} /\ freed' = {} /\ written' = {}
  BY DEF Discipline, Disciplined, Call, IInv, IdleInv, NoLeak, Running
<1>2. absent' \subseteq STRING /\ Always \notin absent'
  BY <1>1 DEF WellFormed, Options
<1>3. TypeOK'
  BY <1>1, <1>2 DEF Call, IInv, TypeOK, Discipline, Disciplined
<1>4. FlowInv'
  BY <1>1
     DEF FlowInv, BuffersHeld, LocalsReady, BlobsVetted, ArgumentsPresent, Executed
<1>5. RunningInv'
  BY <1>1, <1>2, <1>4
     DEF RunningInv, HeldIsDue, FreedIsPast, WrittenIsPast, WellFormed, Discipline
<1>6. IdleInv' /\ NoLeak' /\ ThrowLeavesArrays'
  BY <1>1 DEF IdleInv, NoLeak, ThrowLeavesArrays, Running
<1> QED
  BY <1>3, <1>5, <1>6 DEF IInv

(* A skipped step is not among those certainly executed.                   *)
LEMMA SkipFlow == ASSUME IInv, Skip PROVE FlowInv'
<1>1. /\ AtStep /\ ~Applies /\ pc' = pc + 1
      /\ pc \in 1..Len(code) /\ Len(code) \in Nat /\ FlowInv
  BY RunningCode DEF Skip, AtStep, IInv, RunningInv, WellFormed
<1>2. UNCHANGED <<code, absent, held, ready, vetted, verdict>>
  BY DEF Skip
<1>3. Executed' \subseteq Executed
  <2>1. code[pc].opt \in absent \/ (code[pc].on # Verdicts /\ verdict \notin code[pc].on)
    BY <1>1 DEF Applies, IInv, TypeOK
  <2> SUFFICES ASSUME NEW j \in Executed' PROVE j \in Executed
    OBVIOUS
  <2>2. /\ j \in 1..pc /\ code[j].opt \notin absent
        /\ \/ code[j].on = Verdicts
           \/ verdict \in code[j].on /\ \A k \in j..pc : DOMAIN code[k].outs = {}
    BY <1>1, <1>2 DEF Executed
  <2>3. j \in 1..(pc - 1)
    BY <1>1, <2>1, <2>2
  <2> QED
    BY <1>1, <2>2, <2>3 DEF Executed
<1>4. Executed \subseteq 1..(pc - 1)
  BY DEF Executed
<1>5. BuffersHeld'
  BY <1>1, <1>2, <1>3, <1>4 DEF FlowInv, BuffersHeld
<1>6. LocalsReady'
  BY <1>1, <1>2, <1>3, <1>4 DEF FlowInv, LocalsReady
<1>7. BlobsVetted' /\ ArgumentsPresent'
  BY <1>1, <1>2, <1>3 DEF FlowInv, BlobsVetted, ArgumentsPresent
<1> QED
  BY <1>5, <1>6, <1>7 DEF FlowInv

(* What step s does to the locals: either it fills them, or the status     *)
(* code tells which.                                                       *)
Fills(s) ==
    IF DOMAIN s.outs = {}
    THEN ready' = ready \cup s.yields /\ verdict' = verdict /\ s.rejects \cap absent = {}
    ELSE verdict' \in DOMAIN s.outs /\ ready' = ready \cup s.outs[verdict']

(* A step that goes on is among those executed, and does what they do.     *)
LEMMA EffectFlow ==
    ASSUME IInv, Applies, Effect(code[pc]), Fills(code[pc]),
           UNCHANGED <<code, absent>>
    PROVE  FlowInv'
<1>1. /\ pc \in 1..Len(code) /\ Len(code) \in Nat /\ pc' = pc + 1
      /\ FlowInv
  BY RunningCode DEF Effect, Applies, AtStep, IInv, RunningInv, WellFormed
<1>2. /\ held' = (held \cup code[pc].allocs) \ code[pc].frees
      /\ vetted' = vetted \cup code[pc].vets
  BY DEF Effect
<1>3. Executed' \subseteq Executed \cup {pc} /\ Executed \subseteq 1..(pc - 1)
  <2> SUFFICES ASSUME NEW j \in Executed', j # pc PROVE j \in Executed
    BY DEF Executed
  <2>1. /\ j \in 1..(pc - 1) /\ code[j].opt \notin absent
        /\ \/ code[j].on = Verdicts
           \/ verdict' \in code[j].on /\ \A k \in j..pc : DOMAIN code[k].outs = {}
    BY <1>1 DEF Executed
  <2>2. CASE code[j].on = Verdicts
    BY <2>1, <2>2 DEF Executed
  <2>3. CASE verdict' \in code[j].on /\ \A k \in j..pc : DOMAIN code[k].outs = {}
    <3>1. verdict' = verdict
      BY <1>1, <2>1, <2>3 DEF Fills
    <3> QED
      BY <1>1, <2>1, <2>3, <3>1 DEF Executed
  <2> QED
    BY <2>1, <2>2, <2>3
<1>4. BuffersHeld'
  <2> SUFFICES ASSUME NEW j \in Executed', NEW b \in code[j].allocs,
                      \A k \in j..pc : b \notin code[k].frees
               PROVE  b \in held'
    BY <1>1 DEF BuffersHeld
  <2>1. b \notin code[pc].frees
    BY <1>1, <1>3
  <2>2. CASE j = pc
    BY <1>2, <2>1, <2>2
  <2>3. CASE j \in Executed
    <3>1. b \in held
      BY <1>1, <1>3, <2>3 DEF FlowInv, BuffersHeld
    <3> QED
      BY <1>2, <2>1, <3>1
  <2> QED
    BY <1>3, <2>2, <2>3
<1>5. LocalsReady'
  <2> SUFFICES ASSUME NEW j \in Executed'
               PROVE  IF DOMAIN code[j].outs = {} THEN code[j].yields \subseteq ready'
                      ELSE (\A k \in (j + 1)..pc : DOMAIN code[k].outs = {}) =>
                              /\ verdict' \in DOMAIN code[j].outs
                              /\ code[j].outs[verdict'] \subseteq ready'
    BY <1>1 DEF LocalsReady
  <2>1. CASE j = pc
    BY <2>1 DEF Fills
  <2>2. ready \subseteq ready'
    BY DEF Fills
  <2>3. CASE j \in Executed /\ DOMAIN code[j].outs = {}
    BY <1>1, <2>2, <2>3 DEF FlowInv, LocalsReady
  <2>4. CASE j \in Executed /\ DOMAIN code[j].outs # {}
    <3> SUFFICES ASSUME \A k \in (j + 1)..pc : DOMAIN code[k].outs = {}
                 PROVE  /\ verdict' \in DOMAIN code[j].outs
                        /\ code[j].outs[verdict'] \subseteq ready'
      BY <2>4
    <3>1. verdict' = verdict
      BY <1>1, <1>3, <2>4 DEF Fills
    <3>2. verdict \in DOMAIN code[j].outs /\ code[j].outs[verdict] \subseteq ready
      BY <1>1, <1>3, <2>4 DEF FlowInv, LocalsReady
    <3> QED
      BY <2>2, <3>1, <3>2
  <2> QED
    BY <1>3, <2>1, <2>3, <2>4
<1>6. BlobsVetted'
  BY <1>1, <1>2, <1>3 DEF FlowInv, BlobsVetted
<1>7. ArgumentsPresent'
  BY <1>1, <1>3 DEF FlowInv, ArgumentsPresent, Fills
<1> QED
  BY <1>4, <1>5, <1>6, <1>7 DEF FlowInv

(* A skipped step releases nothing that is held: a buffer was allocated    *)
(* under the same guard as the step that frees it, or the latter has none. *)
LEMMA SkipIInv == ASSUME IInv, Skip PROVE IInv'
<1>1. /\ Running /\ pc \in 1..Len(code) /\ ~Applies /\ pc' = pc + 1
      /\ WellFormed(code)
  BY RunningCode DEF Skip, AtStep, IInv, RunningInv, WellFormed
<1>2. UNCHANGED <<method, code, absent, held, freed, ready, vetted, written,
                  verdict, throws, status>>
  BY DEF Skip
<1>3. TypeOK'
  BY <1>1, <1>2 DEF IInv, TypeOK
<1>4. HeldIsDue'
  <2> SUFFICES ASSUME NEW b \in held
               PROVE  \E j \in 1..pc :
                         /\ b \in code[j].allocs
                         /\ code[j].opt \notin absent
                         /\ \A k \in (j + 1)..pc : ~Releases(code[k], code[j], b)
    BY <1>1, <1>2 DEF HeldIsDue, WellFormed
  <2>1. PICK j \in 1..(pc - 1) :
            /\ b \in code[j].allocs
            /\ code[j].opt \notin absent
            /\ \A k \in (j + 1)..(pc - 1) : ~Releases(code[k], code[j], b)
    BY <1>1 DEF IInv, RunningInv, HeldIsDue
  <2>2. ~Releases(code[pc], code[j], b)
    BY <1>1, <2>1 DEF Releases, Applies, AtStep, IInv, RunningInv, TypeOK, WellFormed
  <2>3. \A k \in (j + 1)..pc : ~Releases(code[k], code[j], b)
    BY <1>1, <2>1, <2>2, SMTT(30) DEF WellFormed
  <2> QED
    BY <1>1, <2>1, <2>3 DEF WellFormed
<1>5. FreedIsPast' /\ WrittenIsPast'
  <2>1. FreedIsPast /\ WrittenIsPast
    BY <1>1 DEF IInv, RunningInv
  <2> QED
    BY <2>1, <1>1, <1>2 DEF FreedIsPast, WrittenIsPast, WellFormed
<1>6. RunningInv'
  BY <1>1, <1>2, <1>4, <1>5, SkipFlow DEF IInv, RunningInv, WellFormed, Running
<1>7. IdleInv' /\ NoLeak' /\ ThrowLeavesArrays'
  BY <1>1, <1>2 DEF IdleInv, NoLeak, ThrowLeavesArrays, Running
<1> QED
  BY <1>3, <1>6, <1>7 DEF IInv

(* A step that goes on accounts for what it allocates and frees.           *)
LEMMA EffectIInv ==
    ASSUME IInv, Applies, Effect(code[pc]),
           UNCHANGED <<method, code, absent, throws, status>>,
           ready' \subseteq STRING, verdict' \in Verdicts, Fills(code[pc])
    PROVE  IInv'
<1> DEFINE s == code[pc]
<1>1. /\ Running /\ pc \in 1..Len(code) /\ Len(code) \in Nat
      /\ WellFormed(code)
  BY RunningCode DEF Applies, AtStep, IInv, RunningInv, WellFormed
<1>2. /\ held' = (held \cup s.allocs) \ s.frees
      /\ freed' = (freed \ s.allocs) \cup (s.frees \cap held)
      /\ vetted' = vetted \cup s.vets /\ written' = written \cup s.writes
      /\ pc' = pc + 1 /\ pc' - 1 = pc
  BY <1>1 DEF Effect
<1>3. TypeOK'
  <2>1. /\ s.allocs \subseteq STRING /\ s.frees \subseteq STRING
        /\ s.vets \subseteq STRING /\ s.writes \subseteq STRING
    BY <1>1 DEF WellFormed
  <2>2. TypeOK
    BY DEF IInv
  <2>3. held' \subseteq STRING /\ freed' \subseteq STRING
    BY <1>2, <2>1, <2>2 DEF TypeOK
  <2>4. vetted' \subseteq STRING /\ written' \subseteq STRING
    BY <1>2, <2>1, <2>2 DEF TypeOK
  <2>5. pc' \in Nat \ {0}
    BY <1>1, <1>2
  <2> QED
    BY <2>2, <2>3, <2>4, <2>5 DEF TypeOK
<1>4. HeldIsDue'
  <2> SUFFICES ASSUME NEW b \in held'
               PROVE  \E j \in 1..pc :
                         /\ b \in code[j].allocs
                         /\ code[j].opt \notin absent
                         /\ \A k \in (j + 1)..pc : ~Releases(code[k], code[j], b)
    BY <1>2 DEF HeldIsDue
  <2>1. CASE b \in s.allocs
    BY <1>1, <2>1 DEF Applies
  <2>2. CASE b \in held
    <3>1. PICK j \in 1..(pc - 1) :
              /\ b \in code[j].allocs
              /\ code[j].opt \notin absent
              /\ \A k \in (j + 1)..(pc - 1) : ~Releases(code[k], code[j], b)
      BY <1>1, <2>2 DEF IInv, RunningInv, HeldIsDue
    <3>2. ~Releases(code[pc], code[j], b)
      BY <1>2 DEF Releases
    <3>3. \A k \in (j + 1)..pc : ~Releases(code[k], code[j], b)
      BY <1>1, <3>1, <3>2
    <3> QED
      BY <1>1, <3>1, <3>3
  <2> QED
    BY <1>2, <2>1, <2>2
<1>5. FreedIsPast'
  <2> SUFFICES ASSUME NEW b \in freed'
               PROVE  \E j \in 1..pc : b \in code[j].frees
    BY <1>2 DEF FreedIsPast
  <2>1. CASE b \in freed
    BY <1>1, <2>1 DEF IInv, RunningInv, FreedIsPast
  <2>2. CASE b \in s.frees
    BY <1>1, <2>2
  <2> QED
    BY <1>2, <2>1, <2>2
<1>6. WrittenIsPast'
  <2> SUFFICES ASSUME written' # {}
               PROVE  \E j \in 1..pc : code[j].writes # {}
    BY <1>2 DEF WrittenIsPast
  <2>1. CASE written # {}
    BY <1>1, <2>1 DEF IInv, RunningInv, WrittenIsPast
  <2>2. CASE s.writes # {}
    BY <1>1, <2>2
  <2> QED
    BY <1>2, <2>1, <2>2
<1>7. RunningInv'
  BY <1>1, <1>2, <1>4, <1>5, <1>6, EffectFlow DEF IInv, RunningInv
<1>8. IdleInv' /\ NoLeak' /\ ThrowLeavesArrays'
  BY <1>1 DEF IdleInv, NoLeak, ThrowLeavesArrays, Running
<1> QED
  BY <1>3, <1>7, <1>8 DEF IInv

LEMMA ProceedIInv == ASSUME IInv, Proceed PROVE IInv'
<1>1. code[pc].yields \subseteq STRING
  BY RunningCode DEF Proceed, Applies, AtStep, IInv, RunningInv, WellFormed
<1> QED
  BY <1>1, EffectIInv DEF Proceed, Fills, IInv, TypeOK

LEMMA VerdictIInv == ASSUME IInv, NEW v \in Verdicts, Verdict(v) PROVE IInv'
<1>1. code[pc].outs[v] \subseteq STRING
  BY RunningCode DEF Verdict, Applies, AtStep, IInv, RunningInv, WellFormed
<1> QED
  BY <1>1, EffectIInv DEF Verdict, Fills, IInv, TypeOK

(* An error path frees all that is held, and all that was allocated by the *)
(* step that failed.                                                       *)
LEMMA UnwindReleases ==
    ASSUME IInv, Applies, code[pc].raises > 0, NEW got, Unwind(code[pc], got)
    PROVE  held' = {}
<1>1. /\ Running /\ pc \in 1..Len(code) /\ Len(code) \in Nat
      /\ LeakFree(code)
  BY RunningCode DEF Applies, AtStep, IInv, RunningInv, WellFormed
<1>2. held \subseteq code[pc].undo
  <2> SUFFICES ASSUME NEW b \in held PROVE b \in code[pc].undo
    OBVIOUS
  <2>1. PICK j \in 1..(pc - 1) :
            /\ b \in code[j].allocs
            /\ \A k \in (j + 1)..(pc - 1) : ~Releases(code[k], code[j], b)
    BY <1>1 DEF IInv, RunningInv, HeldIsDue
  <2>2. pc \in 1..(Len(code) + 1)
    BY <1>1
  <2> QED
    BY <1>1, <2>1, <2>2 DEF LeakFree
<1>3. got \subseteq code[pc].undo
  <2> SUFFICES ASSUME NEW b \in got PROVE b \in code[pc].undo
    OBVIOUS
  <2>1. PICK c \in code[pc].allocs : c \notin got
    BY DEF Unwind
  <2>2. b \in code[pc].allocs /\ b # c
    BY <2>1 DEF Unwind
  <2> QED
    BY <1>1, <2>1, <2>2 DEF LeakFree
<1> QED
  BY <1>2, <1>3 DEF Unwind

(* Whichever way a call fails, the invariant holds afterwards.             *)
LEMMA FailureIInv ==
    ASSUME IInv, Applies, code[pc].raises > 0, NEW got, Unwind(code[pc], got),
           \/ status' = "threw" /\ code[pc].op # "new"
           \/ status' = "oom"
    PROVE  IInv'
<1>1. /\ Running /\ pc \in 1..Len(code) /\ Len(code) \in Nat
      /\ WellFormed(code) /\ WritesLast(method, code)
  BY RunningCode DEF Applies, AtStep, IInv, RunningInv, WellFormed
<1>2. /\ UNCHANGED <<method, code, absent, pc, freed, ready, vetted, written,
                     verdict>>
      /\ throws' = code[pc].raises
  BY DEF Unwind
<1>3. held' = {}
  BY UnwindReleases
<1>4. TypeOK'
  <2>1. code[pc].raises \in 0..2
    BY <1>1 DEF WellFormed
  <2> QED
    BY <1>2, <1>3, <2>1 DEF IInv, TypeOK
<1>5. written # {} => code[pc].op = "new" /\ method \in WriteBeforeResult
  <2> SUFFICES ASSUME written # {}
               PROVE  code[pc].op = "new" /\ method \in WriteBeforeResult
    OBVIOUS
  <2>1. PICK j \in 1..(pc - 1) : code[j].writes # {}
    BY <1>1 DEF IInv, RunningInv, WrittenIsPast
  <2> QED
    BY <1>1, <2>1 DEF WritesLast
<1>6. RunningInv' /\ IdleInv' /\ NoLeak'
  BY <1>3 DEF RunningInv, IdleInv, NoLeak, Running
<1>7. ThrowLeavesArrays'
  BY <1>2, <1>5 DEF ThrowLeavesArrays
<1> QED
  BY <1>4, <1>6, <1>7 DEF IInv

(* At the end of the program nothing is held.                              *)
LEMMA ReturnIInv == ASSUME IInv, Return PROVE IInv'
<1>1. /\ Running /\ pc = Len(code) + 1 /\ Len(code) \in Nat
      /\ LeakFree(code)
  BY RunningCode DEF Return, IInv, RunningInv, WellFormed
<1>2. held = {}
  <2> SUFFICES ASSUME NEW b \in held PROVE FALSE
    OBVIOUS
  <2>1. PICK j \in 1..(pc - 1) :
            /\ b \in code[j].allocs
            /\ \A k \in (j + 1)..(pc - 1) : ~Releases(code[k], code[j], b)
    BY <1>1 DEF IInv, RunningInv, HeldIsDue
  <2>2. pc \in 1..(Len(code) + 1) /\ ~(pc <= Len(code))
    BY <1>1
  <2> QED
    BY <2>1, <2>2, <1>1 DEF LeakFree
<1>3. TypeOK'
  BY DEF Return, IInv, TypeOK
<1>4. RunningInv' /\ IdleInv' /\ NoLeak' /\ ThrowLeavesArrays'
  BY <1>2 DEF Return, RunningInv, IdleInv, NoLeak, ThrowLeavesArrays, Running
<1> QED
  BY <1>3, <1>4 DEF IInv

(* Java takes over from a call that holds nothing.                         *)
LEMMA BackInJavaIInv == ASSUME Discipline, IInv, BackInJava PROVE IInv'
<1>1. held' = {}
  BY DEF BackInJava, IInv, NoLeak, Running
<1>2. TypeOK'
  BY <1>1 DEF Discipline, BackInJava, IInv, TypeOK, NoMethod, Verdicts
<1>3. RunningInv' /\ IdleInv' /\ NoLeak' /\ ThrowLeavesArrays'
  BY <1>1 DEF BackInJava, RunningInv, IdleInv, NoLeak, ThrowLeavesArrays, Running
<1> QED
  BY <1>2, <1>3 DEF IInv

LEMMA StutterIInv == ASSUME IInv, UNCHANGED vars PROVE IInv'
<1>1. Executed' = Executed
  BY DEF vars, Executed
<1>2. FlowInv => FlowInv'
  BY <1>1 DEF vars, FlowInv, BuffersHeld, LocalsReady, BlobsVetted, ArgumentsPresent
<1> QED
  BY <1>2 DEF vars, IInv, TypeOK, RunningInv, IdleInv, NoLeak, ThrowLeavesArrays, Running,
              HeldIsDue, FreedIsPast, WrittenIsPast

(* Every step of the machine preserves the invariant.                      *)
LEMMA NextIInv == ASSUME Discipline PROVE IInv /\ [Next]_vars => IInv'
<1> SUFFICES ASSUME IInv, [Next]_vars PROVE IInv'
  OBVIOUS
<1>1. CASE \E m \in Methods : \E a \in SUBSET Options(Program[m]) : Call(m, a)
  BY <1>1, CallIInv
<1>2. CASE Skip
  BY <1>2, SkipIInv
<1>3. CASE Proceed
  BY <1>3, ProceedIInv
<1>4. CASE \E v \in Verdicts : Verdict(v)
  BY <1>4, VerdictIInv
<1>5. CASE \E got \in SUBSET (IF AtStep THEN code[pc].allocs ELSE {}) : Throw(got)
  <2>1. PICK got : Throw(got)
    BY <1>5
  <2> QED
    BY <2>1, FailureIInv DEF Throw
<1>6. CASE OutOfMemory
  BY <1>6, FailureIInv DEF OutOfMemory
<1>7. CASE Return
  BY <1>7, ReturnIInv
<1>8. CASE BackInJava
  BY <1>8, BackInJavaIInv
<1>9. CASE UNCHANGED vars
  BY <1>9, StutterIInv
<1> QED
  BY <1>1, <1>2, <1>3, <1>4, <1>5, <1>6, <1>7, <1>8, <1>9 DEF Next

(* The invariant holds in every state of every run.                        *)
THEOREM Invariance ==
    ASSUME Discipline PROVE Spec => []IInv
BY InitIInv, NextIInv, PTL DEF Spec

-----------------------------------------------------------------------------
(* The state of the machine keeps its type.                                *)
THEOREM TypeCorrect ==
    ASSUME Discipline PROVE Spec => []TypeOK
<1>1. IInv => TypeOK
  BY DEF IInv
<1> QED
  BY <1>1, Invariance, PTL

(* No native method returns to Java, with a result, with an exception or   *)
(* out of memory, while it still holds memory it allocated.                *)
THEOREM MemoryReleased ==
    ASSUME Discipline PROVE Spec => []NoLeak
<1>1. IInv => NoLeak
  BY DEF IInv
<1> QED
  BY <1>1, Invariance, PTL

(* No native method frees the same allocation twice.                       *)
THEOREM FreedAtMostOnce ==
    ASSUME Discipline PROVE Spec => []NoDoubleFree
<1>1. IInv => NoDoubleFree
  <2> SUFFICES ASSUME IInv, Applies,
                      NEW b \in (code[pc].frees \cup code[pc].undo) \cap freed
               PROVE  FALSE
    BY DEF NoDoubleFree
  <2>1. /\ pc \in 1..Len(code) /\ FreedOnce(code)
        /\ \E j \in 1..(pc - 1) : b \in code[j].frees
    BY RunningCode
       DEF Applies, AtStep, IInv, RunningInv, FreedIsPast, WellFormed
  <2> QED
    BY <2>1 DEF FreedOnce
<1> QED
  BY <1>1, Invariance, PTL

(* A call that throws has not touched the arrays of its caller.            *)
THEOREM FailedCallsAreClean ==
    ASSUME Discipline PROVE Spec => []ThrowLeavesArrays
<1>1. IInv => ThrowLeavesArrays
  BY DEF IInv
<1> QED
  BY <1>1, Invariance, PTL

(* Bindings in which only the allocation of the result throws twice, the   *)
(* listed methods excepted, never throw while an exception of their own is *)
(* pending.                                                                *)
THEOREM ThrowsWhenClear ==
    ASSUME Discipline PROVE Spec => []OneThrow
<1>1. Init => OneThrow
  BY DEF Init, OneThrow, ThrowsWhenNonePending
<1>2. IInv /\ OneThrow /\ [Next]_vars => OneThrow'
  <2> SUFFICES ASSUME IInv, OneThrow, [Next]_vars PROVE OneThrow'
    OBVIOUS
  <2>1. ASSUME NEW got, Throw(got) PROVE OneThrow'
    <3> SUFFICES ASSUME method \notin RethrowingMethods PROVE OneThrow'
      BY <2>1 DEF Throw, Unwind, OneThrow
    <3>1. /\ ThrowsOnce(code) /\ WellFormed(code) /\ pc \in 1..Len(code)
          /\ code[pc].op # "new" /\ throws' = code[pc].raises
      BY <2>1, RunningCode
         DEF Throw, Unwind, Applies, AtStep, IInv, RunningInv, WellFormed
    <3> QED
      BY <3>1 DEF ThrowsOnce, WellFormed, OneThrow, ThrowsWhenNonePending
  <2>2. CASE OutOfMemory
    BY <2>2 DEF OutOfMemory, OneThrow, ThrowsWhenNonePending
  <2>3. CASE BackInJava
    BY <2>3 DEF BackInJava, OneThrow, ThrowsWhenNonePending
  <2>4. CASE Return
    BY <2>4 DEF Return, OneThrow, ThrowsWhenNonePending, IInv, RunningInv
  <2>5. CASE UNCHANGED vars
    BY <2>5 DEF vars, OneThrow, ThrowsWhenNonePending
  <2>6. ASSUME UNCHANGED <<method, throws, status>> PROVE OneThrow'
    BY <2>6 DEF OneThrow, ThrowsWhenNonePending
  <2>7. CASE \E m \in Methods : \E a \in SUBSET Options(Program[m]) : Call(m, a)
    BY <2>7 DEF Call, OneThrow, ThrowsWhenNonePending, IInv, IdleInv
  <2> QED
    BY <2>1, <2>2, <2>3, <2>4, <2>5, <2>6, <2>7 DEF Next, Skip, Proceed, Verdict
<1> QED
  BY <1>1, <1>2, Invariance, PTL DEF Spec

-----------------------------------------------------------------------------
(* What a step may rely on.                                                *)

(* An argument present at a step, by its guard or by a test before it, has *)
(* been passed in this call.                                               *)
LEMMA PresentHere == ASSUME IInv, Applies PROVE Present(code, pc) \cap absent = {}
<1>1. /\ pc \in 1..Len(code) /\ FlowInv /\ Always \notin absent
      /\ code[pc].opt \notin absent
  BY RunningCode DEF Applies, AtStep, IInv, RunningInv, WellFormed
<1>2. SureBefore(code, pc, {Always, code[pc].opt}) \subseteq Executed
  BY <1>1 DEF SureBefore, Executed, Applies
<1> QED
  BY <1>1, <1>2 DEF Present, FlowInv, ArgumentsPresent

(* The steps that are sure to come before a step have been executed.       *)
LEMMA SureExecuted ==
    ASSUME IInv, Applies, NEW present, present \cap absent = {}
    PROVE  SureBefore(code, pc, present) \subseteq Executed
BY DEF SureBefore, Executed, Applies

LEMMA AllocatedIsHeld ==
    ASSUME IInv, Applies, NEW present, present \cap absent = {}, NEW b,
           Allocated(code, pc, b, present)
    PROVE  b \in held
<1>1. Running /\ FlowInv
  BY DEF Applies, AtStep, IInv, RunningInv
<1> QED
  BY <1>1, SureExecuted DEF Allocated, FlowInv, BuffersHeld

LEMMA FilledIsReady ==
    ASSUME IInv, Applies, NEW present, present \cap absent = {}, NEW m, NEW x,
           Filled(m, code, pc, x, present)
    PROVE  x \in ready \cup UnsetUnder(m, {}, verdict)
<1>1. Running /\ FlowInv /\ verdict \in code[pc].on
  BY DEF Applies, AtStep, IInv, RunningInv
<1>2. PICK j \in SureBefore(code, pc, present) :
          IF DOMAIN code[j].outs = {} THEN x \in code[j].yields
          ELSE /\ \A k \in (j + 1)..(pc - 1) : DOMAIN code[k].outs = {}
               /\ \A v \in DOMAIN code[j].outs \cap code[pc].on :
                     x \in code[j].outs[v] \cup UnsetUnder(m, {}, v)
  BY DEF Filled
<1>3. j \in Executed
  BY <1>2, SureExecuted
<1>4. CASE DOMAIN code[j].outs = {}
  BY <1>1, <1>2, <1>3, <1>4 DEF FlowInv, LocalsReady
<1>5. CASE DOMAIN code[j].outs # {}
  <2>1. verdict \in DOMAIN code[j].outs /\ code[j].outs[verdict] \subseteq ready
    BY <1>1, <1>2, <1>3, <1>5 DEF FlowInv, LocalsReady
  <2>2. x \in code[j].outs[verdict] \cup UnsetUnder(m, {}, verdict)
    BY <1>1, <1>2, <1>5, <2>1
  <2> QED
    BY <2>1, <2>2
<1> QED
  BY <1>4, <1>5

LEMMA ComparedIsVetted ==
    ASSUME IInv, Applies, NEW present, present \cap absent = {}, NEW x,
           Compared(code, pc, x, present)
    PROVE  x \in vetted
<1>1. Running /\ FlowInv
  BY DEF Applies, AtStep, IInv, RunningInv
<1> QED
  BY <1>1, SureExecuted DEF Compared, FlowInv, BlobsVetted

(* No native method touches a buffer that it has not allocated, or has     *)
(* freed.                                                                  *)
THEOREM LiveBuffers ==
    ASSUME Discipline PROVE Spec => []BuffersLive
<1>1. IInv => BuffersLive
  <2> SUFFICES ASSUME IInv, Applies
               PROVE  /\ (code[pc].reads \cup code[pc].yields) \cap Buffers(code)
                            \subseteq held \cup code[pc].allocs
                      /\ code[pc].given \cap Buffers(code) \subseteq held \cup absent
    BY DEF BuffersLive
  <2> DEFINE present == Present(code, pc)
  <2>1. pc \in 1..Len(code) /\ AllocatedFirst(code) /\ present \cap absent = {}
    BY RunningCode, PresentHere DEF Applies, AtStep, IInv, RunningInv, WellFormed
  <2>2. ASSUME NEW b \in (code[pc].reads \cup code[pc].yields) \cap Buffers(code),
               b \notin code[pc].allocs
        PROVE  b \in held
    <3>1. Allocated(code, pc, b, present)
      BY <2>1, <2>2 DEF AllocatedFirst
    <3> QED
      BY <2>1, <3>1, AllocatedIsHeld
  <2>3. ASSUME NEW b \in code[pc].given \cap Buffers(code), b \notin absent
        PROVE  b \in held
    <3>1. Allocated(code, pc, b, present \cup {b})
      BY <2>1 DEF AllocatedFirst
    <3>2. (present \cup {b}) \cap absent = {}
      BY <2>1, <2>3
    <3> QED
      BY <3>1, <3>2, AllocatedIsHeld
  <2> QED
    BY <2>2, <2>3
<1> QED
  BY <1>1, Invariance, PTL

(* No native method gives the library or Java a local that nothing has     *)
(* filled in this call, whichever arguments are absent and whatever status *)
(* codes the library returned.                                             *)
THEOREM InitialisedReads ==
    ASSUME Discipline PROVE Spec => []OnlyInitialisedReads
<1>1. IInv => OnlyInitialisedReads
  <2> SUFFICES ASSUME IInv, Applies
               PROVE  /\ code[pc].reads \subseteq ready \cup UnsetUnder(method, absent, verdict)
                      /\ code[pc].given \subseteq ready \cup absent
    BY DEF OnlyInitialisedReads
  <2> DEFINE present == Present(code, pc)
  <2>1. pc \in 1..Len(code) /\ FilledFirst(method, code) /\ present \cap absent = {}
    BY RunningCode, PresentHere DEF Applies, AtStep, IInv, RunningInv, WellFormed
  <2>2. ASSUME NEW x \in code[pc].reads
        PROVE  x \in ready \cup UnsetUnder(method, absent, verdict)
    <3> DEFINE needed == present \cup Needs(method, x)
    <3>1. Filled(method, code, pc, x, needed)
      BY <2>1, <2>2 DEF FilledFirst
    <3>2. CASE Needs(method, x) \cap absent = {}
      <4>1. needed \cap absent = {}
        BY <2>1, <3>2
      <4>2. x \in ready \cup UnsetUnder(method, {}, verdict)
        BY <3>1, <4>1, FilledIsReady
      <4> QED
        BY <4>2 DEF UnsetUnder
    <3>3. CASE Needs(method, x) \cap absent # {}
      <4>1. x = "secshare32"
        BY <3>3 DEF Needs
      <4> QED
        BY <3>3, <4>1 DEF UnsetUnder
    <3> QED
      BY <3>2, <3>3
  <2>3. ASSUME NEW x \in code[pc].given, x \notin absent
        PROVE  x \in ready
    <3>1. Filled(NoMethod, code, pc, x, present \cup {x})
      BY <2>1 DEF FilledFirst
    <3>2. (present \cup {x}) \cap absent = {}
      BY <2>1, <2>3
    <3>3. x \in ready \cup UnsetUnder(NoMethod, {}, verdict)
      BY <3>1, <3>2, FilledIsReady
    <3>4. UnsetUnder(NoMethod, {}, verdict) = {}
      BY DEF UnsetUnder, Needs, NoMethod
    <3> QED
      BY <3>3, <3>4
  <2> QED
    BY <2>2, <2>3
<1> QED
  BY <1>1, Invariance, PTL

(* No native method hands the library a blob from Java whose magic it has  *)
(* not compared in this call.                                              *)
THEOREM VettedBlobs ==
    ASSUME Discipline PROVE Spec => []OnlyVettedBlobs
<1>1. IInv => OnlyVettedBlobs
  <2> SUFFICES ASSUME IInv, Applies, code[pc].op = "lib",
                      NEW x \in (code[pc].reads \cup code[pc].given) \cap Opaque,
                      x \notin absent
               PROVE  x \in vetted
    BY DEF OnlyVettedBlobs
  <2> DEFINE present == Present(code, pc)
  <2>1. pc \in 1..Len(code) /\ ComparedFirst(code) /\ present \cap absent = {}
    BY RunningCode, PresentHere DEF Applies, AtStep, IInv, RunningInv, WellFormed
  <2>2. CASE x \in code[pc].reads
    <3>1. Compared(code, pc, x, present)
      BY <2>1, <2>2 DEF ComparedFirst
    <3> QED
      BY <2>1, <3>1, ComparedIsVetted
  <2>3. CASE x \in code[pc].given
    <3>1. Compared(code, pc, x, present \cup {x})
      BY <2>1, <2>3 DEF ComparedFirst
    <3>2. (present \cup {x}) \cap absent = {}
      BY <2>1
    <3> QED
      BY <3>1, <3>2, ComparedIsVetted
  <2> QED
    BY <2>2, <2>3
<1> QED
  BY <1>1, Invariance, PTL

-----------------------------------------------------------------------------
(* What Java sees.                                                         *)

LEMMA CallSeen ==
    ASSUME IInv, NEW m \in Methods, NEW a, Call(m, a)
    PROVE  Java!Call(m)
<1>1. status = "idle" /\ status' = "running" /\ ~Running /\ Running'
  BY DEF Call, Running
<1>2. written = {} /\ held = {}
  BY <1>1 DEF IInv, IdleInv, NoLeak
<1> QED
  BY <1>1, <1>2 DEF Call, Java!Call

(* The steps of a call that goes on are not seen.                          *)
LEMMA InsideUnseen ==
    ASSUME Running, UNCHANGED <<method, throws, status>>
    PROVE  UNCHANGED Java!vars
BY DEF Running, Java!vars

(* A call that fails has released what it held, and Java finds its arrays  *)
(* as the invariant says.                                                  *)
LEMMA FailureSeen ==
    ASSUME IInv, IInv', OneThrow', Applies, code[pc].raises > 0, NEW got,
           Unwind(code[pc], got)
    PROVE  /\ status' = "threw" => Java!Throw
           /\ status' = "oom" => Java!OutOfMemory
<1>1. /\ Running /\ status = "running" /\ throws' \in {1, 2} /\ method' = method
  <2>1. Running /\ WellFormed(code) /\ pc \in 1..Len(code)
    BY RunningCode DEF Applies, AtStep, IInv, RunningInv, WellFormed
  <2>2. code[pc].raises \in 0..2
    BY <2>1 DEF WellFormed
  <2> QED
    BY <2>1, <2>2 DEF Unwind, Running
<1>2. status' \in {"threw", "oom"} => ~Running' /\ held' = {}
  BY DEF Running, IInv, NoLeak
<1>3. CASE status' = "threw"
  <2>1. written' = {}
    BY <1>3 DEF IInv, ThrowLeavesArrays
  <2>2. throws' \in IF method \in RethrowingMethods THEN {1, 2} ELSE {1}
    BY <1>1, <1>3 DEF OneThrow, ThrowsWhenNonePending
  <2>3. Java!Throw
    BY <1>1, <1>2, <1>3, <2>1, <2>2 DEF Java!Throw
  <2> QED
    BY <1>3, <2>3
<1>4. CASE status' = "oom"
  <2>1. written' \subseteq IF method \in WriteBeforeResult THEN STRING ELSE {}
    BY <1>1, <1>4 DEF IInv, ThrowLeavesArrays, TypeOK
  <2>2. Java!OutOfMemory
    BY <1>1, <1>2, <1>4, <2>1 DEF Java!OutOfMemory
  <2> QED
    BY <1>4, <2>2
<1> QED
  BY <1>3, <1>4

LEMMA ReturnSeen == ASSUME IInv, IInv', Return PROVE Java!Return
<1>1. status = "running" /\ status' = "returned" /\ Running /\ ~Running'
  BY DEF Return, Running
<1>2. held' = {} /\ written' \subseteq STRING
  BY <1>1 DEF IInv, NoLeak, TypeOK
<1> QED
  BY <1>1, <1>2 DEF Return, Java!Return

LEMMA BackSeen == ASSUME BackInJava PROVE Java!Back
<1>1. ~Running /\ ~Running'
  BY DEF BackInJava, Running
<1> QED
  BY <1>1 DEF BackInJava, Java!Back

(* A native call that follows the discipline is one event for Java: it     *)
(* ends once, without native memory left behind, and with the arrays and   *)
(* the exceptions its outcome allows.                                      *)
THEOREM ImplementsJavaCall ==
    ASSUME Discipline PROVE Spec => CallsAreAtomic
<1>1. Init => Java!Init
  BY DEF Init, Java!Init, Running
<1>2. IInv /\ IInv' /\ OneThrow' /\ [Next]_vars => [Java!Next]_Java!vars
  <2> SUFFICES ASSUME IInv, IInv', OneThrow', [Next]_vars
               PROVE  [Java!Next]_Java!vars
    OBVIOUS
  <2>1. ASSUME NEW m \in Methods, NEW a, Call(m, a) PROVE Java!Next
    BY <2>1, CallSeen DEF Java!Next
  <2>2. CASE Skip \/ Proceed \/ \E v \in Verdicts : Verdict(v)
    <3>1. Running /\ UNCHANGED <<method, throws, status>>
      BY <2>2 DEF Skip, Proceed, Verdict, Applies, AtStep
    <3> QED
      BY <3>1, InsideUnseen
  <2>3. ASSUME NEW got, Throw(got) PROVE Java!Next
    <3>1. Applies /\ code[pc].raises > 0 /\ Unwind(code[pc], got) /\ status' = "threw"
      BY <2>3 DEF Throw
    <3> QED
      BY <3>1, FailureSeen DEF Java!Next
  <2>4. CASE OutOfMemory
    <3>1. Applies /\ code[pc].raises > 0 /\ Unwind(code[pc], {}) /\ status' = "oom"
      BY <2>4 DEF OutOfMemory
    <3> QED
      BY <3>1, FailureSeen DEF Java!Next
  <2>5. CASE Return
    BY <2>5, ReturnSeen DEF Java!Next
  <2>6. CASE BackInJava
    BY <2>6, BackSeen DEF Java!Next
  <2>7. CASE UNCHANGED vars
    BY <2>7 DEF vars, Java!vars, Running
  <2> QED
    BY <2>1, <2>2, <2>3, <2>4, <2>5, <2>6, <2>7 DEF Next
<1> QED
  BY <1>1, <1>2, Invariance, ThrowsWhenClear, PTL DEF Spec, CallsAreAtomic, Java!Spec
=============================================================================
