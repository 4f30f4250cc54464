--------------------------- MODULE Startup_proofs ---------------------------
(***************************************************************************)
(* The start for any number of threads: the native library is loaded       *)
(* before the first native method, and the outcome of the first call is    *)
(* the outcome of all.                                                     *)
(***************************************************************************)
EXTENDS Startup, SequenceTheorems, TLAPS

In(s, x) == \E i \in DOMAIN s : s[i] = x

Cons(x, s) == <<x>> \o s

Put2(a, b, s) == <<a, b>> \o s

Put3(a, b, c, s) == <<a, b, c>> \o s

Put4(a, b, c, d, s) == <<a, b, c, d>> \o s

(* The tasks of a call of the API after its first, in the order in which   *)
(* they come: those of rank 0 belong to the first, or to a load().         *)
Rank(x) ==
    IF x \in {<<"create">>, <<"hook">>} THEN 1
    ELSE IF x \in {<<"get", "Context">>, <<"done", "Context">>} THEN 2
    ELSE IF x = <<"check">> THEN 3
    ELSE IF x = <<"native">> THEN 4
    ELSE IF x = <<"answer">> THEN 5 ELSE 0

(* Tasks that are carried out as soon as they are there.                   *)
FirstOnly == {<<"get", "Api">>} \cup ({"open"} \X Loaders)

(* What the finding of the loader consists of.                             *)
Inner(x) == Rank(x) = 0 /\ x \notin {<<"get", "Api">>, <<"done", "Api">>}

-----------------------------------------------------------------------------
(* The stacks there can be.                                                *)

Ordered(s) ==
    \A i, j \in DOMAIN s : i < j /\ Rank(s[i]) > 0 => Rank(s[i]) < Rank(s[j])

EndsInAnswer(s) ==
    \A i \in DOMAIN s : Rank(s[i]) > 0 => In(s, <<"answer">>)

NoneBelow(s) == \A i \in DOMAIN s : s[i] \in FirstOnly => i = 1

OpensLoader(s) ==
    s # <<>> /\ Head(s) \in {"open"} \X Loaders =>
        Len(s) >= 3 /\ s[2] = <<"get", "Jni">> /\ s[3] = <<"return">>

Once(s) ==
    \A i, j \in DOMAIN s : \A c \in Classes :
        s[i] = <<"done", c>> /\ s[j] = <<"done", c>> => i = j

ContextInside(s) ==
    \A i \in DOMAIN s : s[i] \in {<<"create">>, <<"hook">>} => In(s, <<"done", "Context">>)

CheckedFirst(s) ==
    \A i \in DOMAIN s : s[i] = <<"native">> /\ i # 1 => s[i - 1] = <<"check">>

ApiInside(s) ==
    In(s, <<"answer">>) =>
        /\ \A i, j \in DOMAIN s : i < j /\ s[i] = <<"done", "Api">> => Rank(s[j]) > 0
        /\ \A i \in DOMAIN s : Inner(s[i]) => In(s, <<"done", "Api">>)

Shape(s) ==
    /\ Ordered(s) /\ EndsInAnswer(s) /\ NoneBelow(s) /\ OpensLoader(s)
    /\ Once(s) /\ ContextInside(s) /\ CheckedFirst(s) /\ ApiInside(s)

-----------------------------------------------------------------------------
(* Stacks.                                                                 *)

LEMMA Ranks ==
    /\ Rank(<<"create">>) = 1 /\ Rank(<<"hook">>) = 1
    /\ Rank(<<"get", "Context">>) = 2 /\ Rank(<<"done", "Context">>) = 2
    /\ Rank(<<"check">>) = 3 /\ Rank(<<"native">>) = 4 /\ Rank(<<"answer">>) = 5
    /\ Rank(<<"get", "Api">>) = 0 /\ Rank(<<"done", "Api">>) = 0
    /\ Rank(<<"get", "Jni">>) = 0 /\ Rank(<<"done", "Jni">>) = 0
    /\ Rank(<<"find">>) = 0 /\ Rank(<<"cast">>) = 0 /\ Rank(<<"return">>) = 0
    /\ \A l \in Loaders : /\ Rank(<<"enter", l>>) = 0 /\ Rank(<<"open", l>>) = 0
                          /\ Rank(<<"leave", l>>) = 0
BY DEF Rank

LEMMA InTail ==
    ASSUME NEW s \in Seq(Tasks), s # <<>>, NEW x
    PROVE  In(s, x) <=> x = Head(s) \/ In(Tail(s), x)
<1>1. /\ Head(s) = s[1] /\ Len(s) \in Nat /\ Len(s) >= 1 /\ DOMAIN s = 1..Len(s)
      /\ Tail(s) \in Seq(Tasks) /\ Len(Tail(s)) = Len(s) - 1
      /\ DOMAIN Tail(s) = 1..(Len(s) - 1)
      /\ \A i \in 1..(Len(s) - 1) : Tail(s)[i] = s[i + 1]
  OBVIOUS
<1>2. ASSUME NEW i \in DOMAIN s, s[i] = x, i # 1 PROVE In(Tail(s), x)
  <2>1. i - 1 \in DOMAIN Tail(s) /\ Tail(s)[i - 1] = s[i]
    BY <1>1, <1>2
  <2> QED
    BY <1>2, <2>1 DEF In
<1>3. ASSUME NEW i \in DOMAIN Tail(s), Tail(s)[i] = x PROVE In(s, x)
  <2>1. i + 1 \in DOMAIN s /\ s[i + 1] = x
    BY <1>1, <1>3
  <2> QED
    BY <2>1 DEF In
<1>4. x = Head(s) => In(s, x)
  BY <1>1 DEF In
<1> QED
  BY <1>1, <1>2, <1>3, <1>4 DEF In

LEMMA TailFacts ==
    ASSUME NEW s \in Seq(Tasks), s # <<>>
    PROVE  /\ Len(s) \in Nat /\ Len(s) >= 1 /\ DOMAIN s = 1..Len(s)
           /\ Head(s) = s[1]
           /\ Tail(s) \in Seq(Tasks) /\ Len(Tail(s)) = Len(s) - 1
           /\ DOMAIN Tail(s) = 1..(Len(s) - 1)
           /\ \A i \in 1..(Len(s) - 1) : Tail(s)[i] = s[i + 1]
OBVIOUS

(* A task taken off a stack leaves a stack.                                *)
LEMMA PopShape ==
    ASSUME NEW s \in Seq(Tasks), s # <<>>, Shape(s)
    PROVE  Shape(Tail(s))
<1> DEFINE r == Tail(s)
<1>1. /\ Len(s) \in Nat /\ Len(s) >= 1 /\ DOMAIN s = 1..Len(s) /\ Head(s) = s[1]
      /\ r \in Seq(Tasks) /\ Len(r) = Len(s) - 1 /\ DOMAIN r = 1..(Len(s) - 1)
      /\ \A i \in 1..(Len(s) - 1) : r[i] = s[i + 1]
  BY TailFacts
<1>2. \A x : In(s, x) <=> x = Head(s) \/ In(r, x)
  BY InTail
<1> HIDE DEF r
<1>3. \A i \in DOMAIN r : i + 1 \in DOMAIN s /\ i + 1 # 1 /\ r[i] = s[i + 1]
  BY <1>1
<1>4. Ordered(r)
  BY <1>1, <1>3 DEF Shape, Ordered
<1>5. EndsInAnswer(r)
  <2> SUFFICES ASSUME NEW i \in DOMAIN r, Rank(r[i]) > 0 PROVE In(r, <<"answer">>)
    BY DEF EndsInAnswer
  <2>1. In(s, <<"answer">>)
    BY <1>3 DEF Shape, EndsInAnswer
  <2>2. Head(s) # <<"answer">>
    <3> SUFFICES ASSUME Head(s) = <<"answer">> PROVE FALSE
      OBVIOUS
    <3>1. Rank(s[1]) = 5
      BY <1>1, Ranks
    <3>2. 5 < Rank(s[i + 1])
      BY <1>1, <1>3, <3>1 DEF Shape, Ordered
    <3> QED
      BY <3>2 DEF Rank
  <2> QED
    BY <1>2, <2>1, <2>2
<1>6. NoneBelow(r) /\ OpensLoader(r)
  <2>1. \A i \in DOMAIN r : r[i] \notin FirstOnly
    BY <1>3 DEF Shape, NoneBelow
  <2>2. r # <<>> => Head(r) \notin FirstOnly
    BY <1>1, <2>1
  <2> QED
    BY <2>1, <2>2 DEF NoneBelow, OpensLoader, FirstOnly
<1>7. Once(r)
  BY <1>1, <1>3, SMTT(30) DEF Shape, Once
<1>8. ContextInside(r)
  <2> SUFFICES ASSUME NEW i \in DOMAIN r, r[i] \in {<<"create">>, <<"hook">>}
               PROVE  In(r, <<"done", "Context">>)
    BY DEF ContextInside
  <2>1. In(s, <<"done", "Context">>)
    BY <1>3 DEF Shape, ContextInside
  <2>2. Head(s) # <<"done", "Context">>
    <3> SUFFICES ASSUME Head(s) = <<"done", "Context">> PROVE FALSE
      OBVIOUS
    <3>1. Rank(s[1]) = 2 /\ Rank(s[i + 1]) = 1
      BY <1>1, <1>3, Ranks
    <3> QED
      BY <1>1, <1>3, <3>1 DEF Shape, Ordered
  <2> QED
    BY <1>2, <2>1, <2>2
<1>9. CheckedFirst(r)
  <2> SUFFICES ASSUME NEW i \in DOMAIN r, r[i] = <<"native">>, i # 1
               PROVE  r[i - 1] = <<"check">>
    BY DEF CheckedFirst
  <2>1. s[i + 1] = <<"native">> /\ i + 1 \in DOMAIN s /\ i + 1 # 1 /\ (i + 1) - 1 = i
    BY <1>1, <1>3
  <2>2. s[i] = <<"check">>
    BY <2>1 DEF Shape, CheckedFirst
  <2>3. i - 1 \in DOMAIN r /\ (i - 1) + 1 = i
    BY <1>1
  <2> QED
    BY <1>3, <2>2, <2>3
<1>10. ApiInside(r)
  <2> SUFFICES ASSUME In(r, <<"answer">>) PROVE ApiInside(r)
    BY DEF ApiInside
  <2>1. In(s, <<"answer">>)
    BY <1>2
  <2>2. ASSUME NEW i \in DOMAIN r, NEW j \in DOMAIN r, i < j, r[i] = <<"done", "Api">>
        PROVE  Rank(r[j]) > 0
    <3>1. /\ i + 1 \in DOMAIN s /\ s[i + 1] = <<"done", "Api">>
          /\ j + 1 \in DOMAIN s /\ s[j + 1] = r[j]
      BY <1>3, <2>2
    <3>2. i + 1 < j + 1
      BY <1>1, <2>2
    <3>3. ApiInside(s)
      BY DEF Shape
    <3> QED
      BY <2>1, <3>1, <3>2, <3>3 DEF ApiInside
  <2>3. ASSUME NEW i \in DOMAIN r, Inner(r[i]) PROVE In(r, <<"done", "Api">>)
    <3>1. In(s, <<"done", "Api">>)
      BY <1>3, <2>1, <2>3 DEF Shape, ApiInside
    <3>2. Head(s) # <<"done", "Api">>
      <4> SUFFICES ASSUME s[1] = <<"done", "Api">> PROVE FALSE
        BY <1>1
      <4>1. Rank(s[i + 1]) > 0
        <5>1. 1 \in DOMAIN s /\ i + 1 \in DOMAIN s /\ 1 < i + 1
          BY <1>1, <1>3
        <5>2. ApiInside(s)
          BY DEF Shape
        <5> QED
          BY <2>1, <5>1, <5>2 DEF ApiInside
      <4> QED
        BY <1>3, <2>3, <4>1 DEF Inner
    <3> QED
      BY <1>2, <3>1, <3>2
  <2> QED
    BY <2>2, <2>3 DEF ApiInside
<1> QED
  BY <1>4, <1>5, <1>6, <1>7, <1>8, <1>9, <1>10 DEF Shape, r

-----------------------------------------------------------------------------
(* Tasks put on a stack.                                                   *)

LEMMA ConsFacts ==
    ASSUME NEW x \in Tasks, NEW r \in Seq(Tasks)
    PROVE  /\ <<x>> \o r \in Seq(Tasks) /\ <<x>> \o r # <<>>
           /\ Len(r) \in Nat /\ DOMAIN r = 1..Len(r)
           /\ Len(<<x>> \o r) = Len(r) + 1 /\ DOMAIN (<<x>> \o r) = 1..(Len(r) + 1)
           /\ (<<x>> \o r)[1] = x /\ Head(<<x>> \o r) = x
           /\ \A i \in 1..Len(r) : (<<x>> \o r)[i + 1] = r[i]
           /\ \A i \in 1..(Len(r) + 1) : i # 1 =>
                 i - 1 \in 1..Len(r) /\ (<<x>> \o r)[i] = r[i - 1]
OBVIOUS

LEMMA InCons ==
    ASSUME NEW x \in Tasks, NEW r \in Seq(Tasks), NEW y
    PROVE  In(<<x>> \o r, y) <=> y = x \/ In(r, y)
<1> DEFINE s == <<x>> \o r
<1>1. /\ Len(r) \in Nat /\ DOMAIN r = 1..Len(r) /\ DOMAIN s = 1..(Len(r) + 1)
      /\ s[1] = x /\ \A i \in 1..Len(r) : s[i + 1] = r[i]
      /\ \A i \in 1..(Len(r) + 1) : i # 1 => i - 1 \in 1..Len(r) /\ s[i] = r[i - 1]
  BY ConsFacts
<1> HIDE DEF s
<1>2. ASSUME NEW i \in DOMAIN r, r[i] = y PROVE In(s, y)
  <2>1. i + 1 \in DOMAIN s /\ s[i + 1] = y
    BY <1>1, <1>2
  <2> QED
    BY <2>1 DEF In
<1>3. In(s, x)
  BY <1>1 DEF In
<1>4. ASSUME NEW i \in DOMAIN s, s[i] = y PROVE y = x \/ In(r, y)
  BY <1>1, <1>4 DEF In
<1> QED
  BY <1>2, <1>3, <1>4 DEF In, s

LEMMA Unfold ==
    ASSUME NEW a \in Tasks, NEW p \in Seq(Tasks), NEW r \in Seq(Tasks)
    PROVE  (<<a>> \o p) \o r = <<a>> \o (p \o r)
OBVIOUS

LEMMA Pair ==
    ASSUME NEW a \in Tasks, NEW b \in Tasks
    PROVE  <<a, b>> = <<a>> \o <<b>>
<1>1. <<a, b>> \in Seq(Tasks) /\ <<a>> \o <<b>> \in Seq(Tasks)
  OBVIOUS
<1>2. /\ Len(<<a, b>>) = 2 /\ Len(<<a>> \o <<b>>) = 2
      /\ <<a, b>>[1] = a /\ <<a, b>>[2] = b
      /\ (<<a>> \o <<b>>)[1] = a /\ (<<a>> \o <<b>>)[2] = b
  OBVIOUS
<1>3. \A i \in 1..Len(<<a, b>>) : <<a, b>>[i] = (<<a>> \o <<b>>)[i]
  BY <1>2
<1> QED
  BY <1>1, <1>2, <1>3, SeqEqual

LEMMA Triple ==
    ASSUME NEW a \in Tasks, NEW b \in Tasks, NEW c \in Tasks
    PROVE  <<a, b, c>> = <<a>> \o <<b, c>>
<1>1. <<a, b, c>> \in Seq(Tasks) /\ <<a>> \o <<b, c>> \in Seq(Tasks)
  OBVIOUS
<1>2. Len(<<a, b, c>>) = 3 /\ Len(<<a>> \o <<b, c>>) = 3
  OBVIOUS
<1>3. <<a, b, c>>[1] = a /\ <<a, b, c>>[2] = b /\ <<a, b, c>>[3] = c
  OBVIOUS
<1>4. /\ (<<a>> \o <<b, c>>)[1] = a /\ (<<a>> \o <<b, c>>)[2] = b
      /\ (<<a>> \o <<b, c>>)[3] = c
  OBVIOUS
<1> QED
  BY <1>1, <1>2, <1>3, <1>4, SeqEqual

(* Several tasks are put on a stack one by one, the last one first.        *)
LEMMA Several ==
    ASSUME NEW a \in Tasks, NEW b \in Tasks, NEW c \in Tasks, NEW d \in Tasks,
           NEW r \in Seq(Tasks)
    PROVE  /\ Put2(a, b, r) = Cons(a, Cons(b, r))
           /\ Put3(a, b, c, r) = Cons(a, Cons(b, Cons(c, r)))
           /\ Put4(a, b, c, d, r) = Cons(a, Cons(b, Cons(c, Cons(d, r))))
<1>1. <<d>> \in Seq(Tasks) /\ <<c>> \in Seq(Tasks) /\ <<b>> \in Seq(Tasks)
      /\ <<c, d>> \in Seq(Tasks) /\ <<b, c>> \in Seq(Tasks) /\ <<b, c, d>> \in Seq(Tasks)
  OBVIOUS
<1> DEFINE bc == <<b, c>>  cd == <<c, d>>  bcd == <<b, c, d>>
<1>2. /\ <<a, b>> = <<a>> \o <<b>> /\ <<a, b, c>> = <<a>> \o bc
      /\ <<a, b, c, d>> = <<a>> \o bcd
      /\ bc = <<b>> \o <<c>> /\ cd = <<c>> \o <<d>> /\ bcd = <<b>> \o cd
  <2>1. <<a, b>> = <<a>> \o <<b>> /\ bc = <<b>> \o <<c>> /\ cd = <<c>> \o <<d>>
    BY Pair
  <2>2. <<a, b, c>> = <<a>> \o bc /\ bcd = <<b>> \o cd
    BY Triple, SMTT(30)
  <2>3. <<a, b, c, d>> = <<a>> \o bcd
    <3>1. <<a, b, c, d>> \in Seq(Tasks) /\ <<a>> \o <<b, c, d>> \in Seq(Tasks)
      OBVIOUS
    <3>2. Len(<<a, b, c, d>>) = 4 /\ Len(<<a>> \o <<b, c, d>>) = 4
      OBVIOUS
    <3>3. /\ <<a, b, c, d>>[1] = a /\ <<a, b, c, d>>[2] = b /\ <<a, b, c, d>>[3] = c
          /\ <<a, b, c, d>>[4] = d
      OBVIOUS
    <3>4. /\ (<<a>> \o <<b, c, d>>)[1] = a /\ (<<a>> \o <<b, c, d>>)[2] = b
          /\ (<<a>> \o <<b, c, d>>)[3] = c /\ (<<a>> \o <<b, c, d>>)[4] = d
      OBVIOUS
    <3> QED
      BY <3>1, <3>2, <3>3, <3>4, SeqEqual
  <2> QED
    BY <2>1, <2>2, <2>3
<1>3. bc \in Seq(Tasks) /\ cd \in Seq(Tasks) /\ bcd \in Seq(Tasks)
  BY <1>1
<1> HIDE DEF bc, cd, bcd
<1>4. (<<a>> \o <<b>>) \o r = <<a>> \o (<<b>> \o r)
  BY <1>1, Unfold, SMTT(30)
<1>5. (<<b>> \o <<c>>) \o r = <<b>> \o (<<c>> \o r)
  BY <1>1, Unfold, SMTT(30)
<1>6. (<<c>> \o <<d>>) \o r = <<c>> \o (<<d>> \o r)
  BY <1>1, Unfold, SMTT(30)
<1>7. (<<a>> \o bc) \o r = <<a>> \o (bc \o r)
  BY <1>3, Unfold, SMTT(30)
<1>8. (<<b>> \o cd) \o r = <<b>> \o (cd \o r)
  BY <1>3, Unfold, SMTT(30)
<1>9. (<<a>> \o bcd) \o r = <<a>> \o (bcd \o r)
  BY <1>3, Unfold, SMTT(30)
<1> QED
  BY <1>2, <1>4, <1>5, <1>6, <1>7, <1>8, <1>9 DEF Cons, Put2, Put3, Put4

LEMMA Two ==
    ASSUME NEW a \in Tasks, NEW b \in Tasks, NEW r \in Seq(Tasks)
    PROVE  Put2(a, b, r) = Cons(a, Cons(b, r))
BY Several

LEMMA Three ==
    ASSUME NEW a \in Tasks, NEW b \in Tasks, NEW c \in Tasks, NEW r \in Seq(Tasks)
    PROVE  Put3(a, b, c, r) = Cons(a, Cons(b, Cons(c, r)))
BY Several

(* When a task may be put on a stack.                                      *)
Fits(x, r) ==
    /\ Rank(x) > 0 => /\ \A y : In(r, y) => Rank(x) < Rank(y)
                      /\ x = <<"answer">> \/ In(r, <<"answer">>)
    /\ \A y \in FirstOnly : ~In(r, y)
    /\ x \in {"open"} \X Loaders =>
          Len(r) >= 2 /\ r[1] = <<"get", "Jni">> /\ r[2] = <<"return">>
    /\ \A c \in Classes : x = <<"done", c>> => ~In(r, x)
    /\ x \in {<<"create">>, <<"hook">>} => In(r, <<"done", "Context">>)
    /\ r # <<>> /\ Head(r) = <<"native">> => x = <<"check">>
    /\ x = <<"answer">> => r = <<>>
    /\ In(r, <<"answer">>) =>
          /\ x = <<"done", "Api">> => \A y : In(r, y) => Rank(y) > 0
          /\ Inner(x) => In(r, <<"done", "Api">>)

LEMMA PushShape ==
    ASSUME NEW x \in Tasks, NEW r \in Seq(Tasks), Shape(r), Fits(x, r)
    PROVE  Shape(<<x>> \o r)
<1> DEFINE s == <<x>> \o r
<1>1. /\ Len(r) \in Nat /\ DOMAIN r = 1..Len(r)
      /\ Len(s) = Len(r) + 1 /\ DOMAIN s = 1..(Len(r) + 1)
      /\ s[1] = x /\ Head(s) = x
      /\ \A i \in 1..Len(r) : s[i + 1] = r[i]
      /\ \A i \in 1..(Len(r) + 1) : i # 1 => i - 1 \in 1..Len(r) /\ s[i] = r[i - 1]
  BY ConsFacts
<1>2. \A y : In(s, y) <=> y = x \/ In(r, y)
  BY InCons
<1>r. \A i \in DOMAIN s : i # 1 => i - 1 \in DOMAIN r /\ s[i] = r[i - 1]
  BY <1>1
<1>n. r # <<>> => Head(r) = r[1]
  BY <1>1
<1>i. \A j \in DOMAIN r : In(r, r[j])
  BY DEF In
<1> HIDE DEF s
<1>3. Ordered(s)
  <2> SUFFICES ASSUME NEW i \in DOMAIN s, NEW j \in DOMAIN s, i < j, Rank(s[i]) > 0
               PROVE  Rank(s[i]) < Rank(s[j])
    BY DEF Ordered
  <2>1. j - 1 \in DOMAIN r /\ s[j] = r[j - 1]
    BY <1>1
  <2>2. CASE i = 1
    BY <1>1, <1>i, <2>1, <2>2 DEF Fits
  <2>3. CASE i # 1
    <3>1. i - 1 \in DOMAIN r /\ s[i] = r[i - 1] /\ i - 1 < j - 1
      BY <1>1, <2>3
    <3> QED
      BY <2>1, <3>1 DEF Shape, Ordered
  <2> QED
    BY <2>2, <2>3
<1>4. EndsInAnswer(s)
  BY <1>1, <1>2 DEF Shape, EndsInAnswer, Fits
<1>5. NoneBelow(s)
  BY <1>1, <1>i, <1>r DEF NoneBelow, Fits
<1>6. OpensLoader(s)
  BY <1>1 DEF OpensLoader, Fits
<1>7. Once(s)
  <2> SUFFICES ASSUME NEW i \in DOMAIN s, NEW j \in DOMAIN s, NEW c \in Classes,
                      s[i] = <<"done", c>>, s[j] = <<"done", c>>
               PROVE  i = j
    BY DEF Once
  <2>1. ~In(r, <<"done", c>>) \/ x # <<"done", c>>
    BY DEF Fits
  <2>2. CASE i = 1 /\ j # 1
    BY <1>1, <1>r, <2>1, <2>2 DEF In
  <2>3. CASE i # 1 /\ j = 1
    BY <1>1, <1>r, <2>1, <2>3 DEF In
  <2>4. CASE i # 1 /\ j # 1
    <3>1. i - 1 \in DOMAIN r /\ j - 1 \in DOMAIN r
          /\ r[i - 1] = <<"done", c>> /\ r[j - 1] = <<"done", c>>
      BY <1>r, <2>4
    <3>2. i - 1 = j - 1
      BY <3>1 DEF Shape, Once
    <3> QED
      BY <1>1, <3>2
  <2> QED
    BY <2>2, <2>3, <2>4
<1>8. ContextInside(s)
  BY <1>1, <1>2 DEF Shape, ContextInside, Fits
<1>9. CheckedFirst(s)
  <2> SUFFICES ASSUME NEW i \in DOMAIN s, s[i] = <<"native">>, i # 1
               PROVE  s[i - 1] = <<"check">>
    BY DEF CheckedFirst
  <2>1. i - 1 \in DOMAIN r /\ r[i - 1] = <<"native">>
    BY <1>1
  <2>2. CASE i = 2
    BY <1>1, <1>n, <2>1, <2>2 DEF Fits
  <2>3. CASE i # 2
    BY <1>1, <2>1, <2>3 DEF Shape, CheckedFirst
  <2> QED
    BY <2>2, <2>3
<1>10. ApiInside(s)
  <2>1. CASE x = <<"answer">>
    BY <1>1, <2>1, Ranks DEF ApiInside, Fits, Inner
  <2>2. CASE x # <<"answer">>
    <3> SUFFICES ASSUME In(r, <<"answer">>) PROVE ApiInside(s)
      BY <1>2, <2>2 DEF ApiInside
    <3>1. ASSUME NEW i \in DOMAIN s, NEW j \in DOMAIN s, i < j, s[i] = <<"done", "Api">>
          PROVE  Rank(s[j]) > 0
      <4>1. j - 1 \in DOMAIN r /\ s[j] = r[j - 1]
        BY <1>1, <3>1
      <4>2. CASE i = 1
        BY <1>1, <1>i, <3>1, <4>1, <4>2 DEF Fits
      <4>3. CASE i # 1
        <5>1. i - 1 \in DOMAIN r /\ s[i] = r[i - 1] /\ i - 1 < j - 1
          BY <1>1, <3>1, <4>3
        <5> QED
          BY <3>1, <4>1, <5>1 DEF Shape, ApiInside
      <4> QED
        BY <4>2, <4>3
    <3>2. \A i \in DOMAIN s : Inner(s[i]) => In(s, <<"done", "Api">>)
      BY <1>1, <1>2 DEF Shape, ApiInside, Fits
    <3> QED
      BY <3>1, <3>2 DEF ApiInside
  <2> QED
    BY <2>1, <2>2
<1> QED
  BY <1>3, <1>4, <1>5, <1>6, <1>7, <1>8, <1>9, <1>10 DEF Shape, s

(* What is under the current task.                                         *)
LEMMA Under ==
    ASSUME NEW s \in Seq(Tasks), s # <<>>, Shape(s), NEW r, r = Tail(s), NEW x, x = Head(s)
    PROVE  /\ r \in Seq(Tasks) /\ Shape(r) /\ x \in Tasks
           /\ \A y : In(s, y) <=> y = x \/ In(r, y)
           /\ \A y \in FirstOnly : ~In(r, y)
           /\ Rank(x) > 0 => \A y : In(r, y) => Rank(x) < Rank(y)
           /\ \A c \in Classes : x = <<"done", c>> => ~In(r, x)
           /\ r # <<>> /\ Head(r) = <<"native">> => x = <<"check">>
           /\ Rank(x) > 0 /\ x # <<"answer">> => In(r, <<"answer">>)
           /\ x \in {<<"create">>, <<"hook">>} => In(r, <<"done", "Context">>)
           /\ In(r, <<"answer">>) /\ x = <<"done", "Api">> => \A y : In(r, y) => Rank(y) > 0
           /\ \A y : In(s, y) /\ Rank(y) > 0 => In(s, <<"answer">>)
           /\ In(s, <<"answer">>) =>
                 \A y : In(s, y) /\ Inner(y) => In(s, <<"done", "Api">>)
<1>1. /\ Len(s) \in Nat /\ Len(s) >= 1 /\ DOMAIN s = 1..Len(s) /\ x = s[1]
      /\ r \in Seq(Tasks) /\ Len(r) = Len(s) - 1 /\ DOMAIN r = 1..(Len(s) - 1)
      /\ \A i \in 1..(Len(s) - 1) : r[i] = s[i + 1]
  BY TailFacts
<1>2. \A y : In(s, y) <=> y = x \/ In(r, y)
  BY InTail
<1>3. Shape(r)
  BY PopShape
<1>4. \A y : In(r, y) => \E j \in DOMAIN s : j > 1 /\ s[j] = y
  BY <1>1 DEF In
<1>5. 1 \in DOMAIN s /\ x \in Tasks
  BY <1>1
<1>6. \A y \in FirstOnly : ~In(r, y)
  BY <1>1, <1>4 DEF Shape, NoneBelow
<1>7. Rank(x) > 0 => \A y : In(r, y) => Rank(x) < Rank(y)
  BY <1>1, <1>4, <1>5 DEF Shape, Ordered
<1>8. \A c \in Classes : x = <<"done", c>> => ~In(r, x)
  BY <1>1, <1>4, <1>5 DEF Shape, Once
<1>9. r # <<>> /\ Head(r) = <<"native">> => x = <<"check">>
  <2> SUFFICES ASSUME r # <<>>, Head(r) = <<"native">> PROVE x = <<"check">>
    OBVIOUS
  <2>1. 2 \in DOMAIN s /\ s[2] = <<"native">>
    <3>1. Head(r) = r[1] /\ Len(r) >= 1
      BY <1>1
    <3> QED
      BY <1>1, <3>1
  <2>2. s[2 - 1] = <<"check">>
    BY <2>1 DEF Shape, CheckedFirst
  <2> QED
    BY <1>1, <2>2
<1>10. Rank(x) > 0 /\ x # <<"answer">> => In(r, <<"answer">>)
  BY <1>1, <1>2, <1>5 DEF Shape, EndsInAnswer
<1>11. x \in {<<"create">>, <<"hook">>} => In(r, <<"done", "Context">>)
  <2> SUFFICES ASSUME x \in {<<"create">>, <<"hook">>} PROVE In(r, <<"done", "Context">>)
    OBVIOUS
  <2>1. In(s, <<"done", "Context">>)
    BY <1>1, <1>5 DEF Shape, ContextInside
  <2>2. x # <<"done", "Context">>
    BY Ranks
  <2> QED
    BY <1>2, <2>1, <2>2
<1>12. In(r, <<"answer">>) /\ x = <<"done", "Api">> => \A y : In(r, y) => Rank(y) > 0
  <2> SUFFICES ASSUME In(r, <<"answer">>), s[1] = <<"done", "Api">>, NEW y, In(r, y)
               PROVE  Rank(y) > 0
    BY <1>1
  <2>1. PICK j \in DOMAIN s : 1 < j /\ s[j] = y
    BY <1>1, <1>4
  <2>2. In(s, <<"answer">>)
    BY <1>2
  <2> QED
    BY <1>5, <2>1, <2>2 DEF Shape, ApiInside
<1>13. \A y : In(s, y) /\ Rank(y) > 0 => In(s, <<"answer">>)
  BY DEF In, Shape, EndsInAnswer
<1>14. In(s, <<"answer">>) => \A y : In(s, y) /\ Inner(y) => In(s, <<"done", "Api">>)
  <2> SUFFICES ASSUME In(s, <<"answer">>), NEW y, In(s, y), Inner(y)
               PROVE  In(s, <<"done", "Api">>)
    OBVIOUS
  <2>1. PICK i \in DOMAIN s : s[i] = y
    BY DEF In
  <2> QED
    BY <2>1 DEF Shape, ApiInside
<1> QED
  BY <1>1, <1>2, <1>3, <1>5, <1>6, <1>7, <1>8, <1>9, <1>10, <1>11, <1>12, <1>13, <1>14

-----------------------------------------------------------------------------
(* What the steps make of a stack.                                         *)

(* The loader's answer is still to be looked at.                           *)
ToCast(s) == \E i, j \in DOMAIN s : i < j /\ s[i] = <<"cast">> /\ s[j] = <<"done", "Api">>

LEMMA ToCastTail ==
    ASSUME NEW s \in Seq(Tasks), s # <<>>, ToCast(s), Head(s) # <<"cast">>
    PROVE  ToCast(Tail(s))
<1> DEFINE r == Tail(s)
<1>1. /\ Len(s) \in Nat /\ Len(s) >= 1 /\ DOMAIN s = 1..Len(s) /\ Head(s) = s[1]
      /\ DOMAIN r = 1..(Len(s) - 1) /\ \A i \in 1..(Len(s) - 1) : r[i] = s[i + 1]
  BY TailFacts
<1>2. PICK i \in DOMAIN s, j \in DOMAIN s :
          i < j /\ s[i] = <<"cast">> /\ s[j] = <<"done", "Api">>
  BY DEF ToCast
<1>3. i # 1
  BY <1>1, <1>2
<1> HIDE DEF r
<1>4. /\ i - 1 \in DOMAIN r /\ j - 1 \in DOMAIN r /\ i - 1 < j - 1
      /\ r[i - 1] = s[i] /\ r[j - 1] = s[j]
  BY <1>1, <1>2, <1>3
<1> QED
  BY <1>2, <1>4 DEF ToCast, r

LEMMA ToCastCons ==
    ASSUME NEW x \in Tasks, NEW r \in Seq(Tasks),
           ToCast(r) \/ (x = <<"cast">> /\ In(r, <<"done", "Api">>))
    PROVE  ToCast(<<x>> \o r)
<1> DEFINE s == <<x>> \o r
<1>1. /\ Len(r) \in Nat /\ DOMAIN r = 1..Len(r) /\ DOMAIN s = 1..(Len(r) + 1)
      /\ s[1] = x /\ \A i \in 1..Len(r) : s[i + 1] = r[i]
  BY ConsFacts
<1> HIDE DEF s
<1>2. CASE ToCast(r)
  <2>1. PICK i \in DOMAIN r, j \in DOMAIN r :
            i < j /\ r[i] = <<"cast">> /\ r[j] = <<"done", "Api">>
    BY <1>2 DEF ToCast
  <2>2. /\ i + 1 \in DOMAIN s /\ j + 1 \in DOMAIN s /\ i + 1 < j + 1
        /\ s[i + 1] = r[i] /\ s[j + 1] = r[j]
    BY <1>1, <2>1
  <2> QED
    BY <2>1, <2>2 DEF ToCast, s
<1>3. CASE x = <<"cast">> /\ In(r, <<"done", "Api">>)
  <2>1. PICK j \in DOMAIN r : r[j] = <<"done", "Api">>
    BY <1>3 DEF In
  <2>2. 1 \in DOMAIN s /\ j + 1 \in DOMAIN s /\ 1 < j + 1 /\ s[j + 1] = r[j]
    BY <1>1, <2>1
  <2> QED
    BY <1>1, <1>3, <2>1, <2>2 DEF ToCast, s
<1> QED
  BY <1>2, <1>3

(* All about a task put on a stack.                                        *)
LEMMA Push ==
    ASSUME NEW x \in Tasks, NEW r \in Seq(Tasks), Shape(r), Fits(x, r)
    PROVE  /\ Cons(x, r) \in Seq(Tasks) /\ Cons(x, r) # <<>> /\ Shape(Cons(x, r))
           /\ Head(Cons(x, r)) = x /\ Cons(x, r)[1] = x
           /\ \A y : In(Cons(x, r), y) <=> y = x \/ In(r, y)
           /\ ToCast(r) => ToCast(Cons(x, r))
           /\ x = <<"cast">> /\ In(r, <<"done", "Api">>) => ToCast(Cons(x, r))
BY ConsFacts, InCons, PushShape, ToCastCons DEF Cons

LEMMA TaskTypes ==
    /\ \A c \in Classes : <<"get", c>> \in Tasks /\ <<"done", c>> \in Tasks
    /\ \A l \in Loaders : <<"enter", l>> \in Tasks /\ <<"open", l>> \in Tasks
                          /\ <<"leave", l>> \in Tasks
    /\ <<"find">> \in Tasks /\ <<"return">> \in Tasks /\ <<"cast">> \in Tasks
    /\ <<"create">> \in Tasks /\ <<"hook">> \in Tasks /\ <<"check">> \in Tasks
    /\ <<"native">> \in Tasks /\ <<"answer">> \in Tasks
    /\ Classes = {"Api", "Jni", "Context"} /\ Loaders = {"android", "jvm"}
BY DEF Tasks, Classes, Loaders

(* The initialiser of the companion.                                       *)
LEMMA GetApiShape ==
    ASSUME NEW s \in Seq(Tasks), s # <<>>, Shape(s), Head(s) = <<"get", "Api">>,
           ~In(s, <<"done", "Api">>),
           NEW n, n = <<<<"find">>, <<"cast">>, <<"done", "Api">>>> \o Tail(s)
    PROVE  /\ n \in Seq(Tasks) /\ Shape(n) /\ Head(n) = <<"find">> /\ ToCast(n)
           /\ \A y : In(n, y) <=>
                 y = <<"find">> \/ y = <<"cast">> \/ y = <<"done", "Api">> \/ In(Tail(s), y)
<1> DEFINE x == Head(s)
           r == Tail(s)
           r1 == Cons(<<"done", "Api">>, r)
           r2 == Cons(<<"cast">>, r1)
           r3 == Cons(<<"find">>, r2)
<1>1. /\ r \in Seq(Tasks) /\ Shape(r)
      /\ \A y : In(s, y) <=> y = x \/ In(r, y)
      /\ \A y \in FirstOnly : ~In(r, y)
      /\ r # <<>> /\ Head(r) = <<"native">> => x = <<"check">>
      /\ In(s, <<"answer">>) => \A y : In(s, y) /\ Inner(y) => In(s, <<"done", "Api">>)
  BY Under
<1>t. <<"done", "Api">> \in Tasks /\ <<"cast">> \in Tasks /\ <<"find">> \in Tasks
  BY TaskTypes
<1>2. n = r3
  <2>1. n = Put3(<<"find">>, <<"cast">>, <<"done", "Api">>, r)
    BY DEF Put3
  <2> QED
    BY <1>1, <1>t, <2>1, Three, ZenonT(60)
<1>x. x = <<"get", "Api">> /\ r = Tail(s)
  OBVIOUS
<1> HIDE DEF x, r
<1>3. Fits(<<"done", "Api">>, r)
  <2>1. ASSUME In(r, <<"answer">>), NEW y, In(r, y) PROVE Rank(y) > 0
    <3>1. y \notin FirstOnly /\ ~Inner(y) /\ y # <<"done", "Api">>
      BY <1>1, <2>1
    <3>2. Rank(y) # 0 /\ Rank(y) \in Nat
      BY <3>1 DEF Inner, FirstOnly, Rank
    <3> QED
      BY <3>2
  <2>2. ~In(r, <<"done", "Api">>) /\ ~Inner(<<"done", "Api">>)
    BY <1>1 DEF Inner
  <2>3. r # <<>> => Head(r) # <<"native">>
    BY <1>1, <1>x
  <2> QED
    BY <1>1, <2>1, <2>2, <2>3, Ranks DEF Fits
<1>4. /\ r1 \in Seq(Tasks) /\ r1 # <<>> /\ Shape(r1) /\ Head(r1) = <<"done", "Api">>
      /\ \A y : In(r1, y) <=> y = <<"done", "Api">> \/ In(r, y)
  BY <1>1, <1>3, <1>t, Push
<1> HIDE DEF r1
<1>5. Fits(<<"cast">>, r1)
  BY <1>1, <1>4, Ranks DEF Fits, FirstOnly
<1>6. /\ r2 \in Seq(Tasks) /\ r2 # <<>> /\ Shape(r2) /\ Head(r2) = <<"cast">>
      /\ \A y : In(r2, y) <=> y = <<"cast">> \/ In(r1, y)
      /\ ToCast(r2)
  BY <1>4, <1>5, <1>t, Push
<1> HIDE DEF r2
<1>7. Fits(<<"find">>, r2)
  BY <1>1, <1>4, <1>6, Ranks, SMTT(30) DEF Fits, FirstOnly
<1>8. /\ r3 \in Seq(Tasks) /\ Shape(r3) /\ Head(r3) = <<"find">>
      /\ \A y : In(r3, y) <=> y = <<"find">> \/ In(r2, y)
      /\ ToCast(r3)
  BY <1>6, <1>7, <1>t, Push
<1> QED
  BY <1>2, <1>4, <1>6, <1>8, <1>x
-----------------------------------------------------------------------------
(* What a thread's stack says of the rest of the state.                    *)

(* The start has failed for good, or has succeeded for good.               *)
Doomed ==
    \/ cls["Api"] = "failed" \/ cls["Context"] = "failed"
    \/ cls["Context"] = "done" /\ context = 0

Succeeded == cls["Api"] = "done" /\ cls["Context"] = "done" /\ context # 0

Unwinds(s, th) ==
    /\ th => s # <<>>
    /\ th /\ In(s, <<"answer">>) =>
          Doomed \/ In(s, <<"done", "Api">>) \/ In(s, <<"done", "Context">>)

Initialising(s) == \A c \in Classes : In(s, <<"done", c>>) => cls[c] = "no"

(* A call of the API begins with the companion.                            *)
ApiFirst(s, th) ==
    In(s, <<"answer">>) =>
        \/ th \/ cls["Api"] = "done" \/ Head(s) = <<"get", "Api">>
        \/ In(s, <<"done", "Api">>)

(* A loader returns after it has opened the library, and the companion is  *)
(* done after a loader has returned.                                       *)
ReturnsLast(s, th) ==
    In(s, <<"return">>) =>
        \/ th \/ lib
        \/ Head(s) \in {"open"} \X Loaders /\ ~In(Tail(Tail(Tail(s))), <<"return">>)

AnswerCast(s, th) == In(s, <<"done", "Api">>) => th \/ lib \/ ToCast(s)

(* The context is there before the call goes on.                           *)
ContextFirst(s, th) ==
    In(s, <<"answer">>) =>
        /\ \/ th \/ cls["Context"] = "done"
           \/ In(s, <<"get", "Context">>) \/ In(s, <<"done", "Context">>)
        /\ th \/ In(s, <<"check">>) \/ context # 0

ContextFresh(s) ==
    /\ In(s, <<"create">>) => made = 0 /\ context = 0
    /\ In(s, <<"hook">>) => made = 1 /\ context = 0

Local(s, th) ==
    /\ Shape(s) /\ Unwinds(s, th) /\ Initialising(s) /\ ApiFirst(s, th)
    /\ ReturnsLast(s, th) /\ AnswerCast(s, th) /\ ContextFirst(s, th) /\ ContextFresh(s)

(* What holds of all of them.                                              *)

OneInitialiser ==
    \A t, u \in Threads : \A c \in Classes :
        In(stack[t], <<"done", c>>) /\ In(stack[u], <<"done", c>>) => t = u

LibraryKnown ==
    /\ extracted => lib
    /\ cls["Api"] = "done" => lib
    /\ \A t \in Threads : value[t] = "Secp256k1Jni" => lib

OneContext ==
    /\ made \in {0, 1} /\ context \in {0, 1} /\ (context = 1 => 1 \in hooked)
    /\ cls["Context"] = "no" /\ (\A t \in Threads : ~In(stack[t], <<"done", "Context">>))
          => made = 0 /\ context = 0

Decided ==
    \A t \in Threads : /\ calls[t] = "ok" => Succeeded
                       /\ calls[t] = "failed" => Doomed

IInv ==
    /\ TypeOK /\ \A t \in Threads : Local(stack[t], thrown[t])
    /\ OneInitialiser /\ LibraryKnown /\ OneContext /\ Decided

-----------------------------------------------------------------------------
(* From the threads to the whole state.                                    *)

(* The other threads do not notice a step that takes nothing back.         *)
LEMMA Others ==
    ASSUME IInv, NEW t \in Threads, NEW u \in Threads, u # t,
           stack'[u] = stack[u], thrown'[u] = thrown[u], lib => lib',
           \A c \in Classes : cls'[c] = cls[c] \/ In(stack[t], <<"done", c>>),
           In(stack[t], <<"done", "Context">>) \/ (made' = made /\ context' = context),
           context # 0 => context' # 0
    PROVE  Local(stack[u], thrown[u])'
<1> DEFINE s == stack[u]  th == thrown[u]
<1>1. Local(s, th)
  BY DEF IInv
<1>2. \A c \in Classes : In(s, <<"done", c>>) => ~In(stack[t], <<"done", c>>)
  BY DEF IInv, OneInitialiser
<1>3. \A c \in Classes : cls[c] # "no" => cls'[c] = cls[c]
  BY DEF IInv, Local, Initialising
<1>4. cls["Context"] = "done" => context' = context
  BY DEF IInv, Local, Initialising, Classes
<1>5. "Api" \in Classes /\ "Context" \in Classes
  BY DEF Classes
<1>6. Doomed => Doomed'
  BY <1>3, <1>4, <1>5 DEF Doomed
<1>7. PICK k, h : k = s /\ h = th /\ stack'[u] = k /\ thrown'[u] = h
  OBVIOUS
<1>8. Shape(k) /\ Local(k, h)
  BY <1>1, <1>7 DEF Local
<1>9. \A c \in Classes : In(k, <<"done", c>>) => ~In(stack[t], <<"done", c>>)
  BY <1>2, <1>7
<1> HIDE DEF s, th
<1>10. Unwinds(k, h)'
  BY <1>6, <1>8 DEF Local, Unwinds
<1>11. Initialising(k)'
  BY <1>8, <1>9 DEF Local, Initialising
<1>12. ApiFirst(k, h)'
  BY <1>3, <1>5, <1>8 DEF Local, ApiFirst
<1>13. ReturnsLast(k, h)' /\ AnswerCast(k, h)'
  BY <1>8 DEF Local, ReturnsLast, AnswerCast
<1>14. ContextFirst(k, h)'
  BY <1>3, <1>5, <1>8 DEF Local, ContextFirst
<1>15. ContextFresh(k)'
  <2>1. In(k, <<"create">>) \/ In(k, <<"hook">>) => In(k, <<"done", "Context">>)
    BY <1>8 DEF Local, Shape, ContextInside, In
  <2> QED
    BY <1>5, <1>8, <1>9, <2>1 DEF Local, ContextFresh
<1>16. Local(k, h)'
  BY <1>8, <1>10, <1>11, <1>12, <1>13, <1>14, <1>15 DEF Local
<1> QED
  BY <1>7, <1>16

(* A step of one thread.                                                   *)
LEMMA Frame ==
    ASSUME IInv, NEW t \in Threads, NEW n \in Seq(Tasks), NEW th \in BOOLEAN,
           stack'[t] = n, thrown'[t] = th, Local(n, th)',
           \A u \in Threads \ {t} : stack'[u] = stack[u] /\ thrown'[u] = thrown[u],
           TypeOK', LibraryKnown', OneContext', Decided', lib => lib',
           \A c \in Classes : cls'[c] = cls[c] \/ In(stack[t], <<"done", c>>),
           In(stack[t], <<"done", "Context">>) \/ (made' = made /\ context' = context),
           context # 0 => context' # 0,
           \A c \in Classes : In(n, <<"done", c>>) =>
               \/ In(stack[t], <<"done", c>>)
               \/ \A u \in Threads \ {t} : ~In(stack[u], <<"done", c>>)
    PROVE  IInv'
<1>1. \A u \in Threads \ {t} : Local(stack[u], thrown[u])'
  BY Others
<1>2. Local(stack[t], thrown[t])'
  OBVIOUS
<1>3. OneInitialiser'
  BY DEF IInv, OneInitialiser
<1> QED
  BY <1>1, <1>2, <1>3 DEF IInv

(* A step that changes nothing but the thread's stack.                     *)
LEMMA Quiet ==
    ASSUME IInv, NEW t \in Threads, NEW n \in Seq(Tasks), NEW th \in BOOLEAN,
           stack' \in [Threads -> Seq(Tasks)], thrown' \in [Threads -> BOOLEAN],
           stack'[t] = n, thrown'[t] = th, Local(n, th),
           \A u \in Threads \ {t} : stack'[u] = stack[u] /\ thrown'[u] = thrown[u],
           UNCHANGED <<value, cls, loadingVars, contextVars, calls>>,
           \A c \in Classes : In(stack[t], <<"done", c>>) => In(n, <<"done", c>>),
           \A c \in Classes : In(n, <<"done", c>>) =>
               \/ In(stack[t], <<"done", c>>)
               \/ \A u \in Threads \ {t} : ~In(stack[u], <<"done", c>>)
    PROVE  IInv'
<1> USE DEF loadingVars, contextVars
<1>1. TypeOK'
  BY DEF IInv, TypeOK
<1>2. LibraryKnown'
  BY DEF IInv, LibraryKnown
<1>3. OneContext'
  <2>1. "Context" \in Classes
    BY DEF Classes
  <2> QED
    BY <2>1 DEF IInv, OneContext
<1>4. Decided'
  BY DEF IInv, Decided, Succeeded, Doomed
<1>5. Local(n, th)'
  BY DEF Local, Unwinds, Doomed, Initialising, ApiFirst, ReturnsLast, AnswerCast,
         ContextFirst, ContextFresh
<1> QED
  BY <1>1, <1>2, <1>3, <1>4, <1>5, Frame

-----------------------------------------------------------------------------
(* What becomes of a thread's own facts.                                   *)

(* An exception that is accounted for.                                     *)
LEMMA ThrowLocal ==
    ASSUME NEW s \in Seq(Tasks), s # <<>>, Local(s, FALSE),
           In(s, <<"answer">>) =>
               Doomed \/ In(s, <<"done", "Api">>) \/ In(s, <<"done", "Context">>)
    PROVE  Local(s, TRUE)
BY DEF Local, Unwinds, ApiFirst, ReturnsLast, AnswerCast, ContextFirst

LEMMA UnderShape ==
    ASSUME NEW s \in Seq(Tasks), s # <<>>, Shape(s)
    PROVE  /\ Tail(s) \in Seq(Tasks) /\ Shape(Tail(s))
           /\ \A y : In(s, y) <=> y = Head(s) \/ In(Tail(s), y)
           /\ \A c \in Classes : Head(s) = <<"done", c>> => ~In(Tail(s), Head(s))
BY Under

LEMMA UnderRanks ==
    ASSUME NEW s \in Seq(Tasks), s # <<>>, Shape(s), NEW k, k = Rank(Head(s)), k > 0
    PROVE  \A y : In(Tail(s), y) => k < Rank(y)
BY Under

(* A task carried out.                                                     *)
LEMMA PopLocal ==
    ASSUME NEW s \in Seq(Tasks), s # <<>>, Local(s, FALSE),
           NEW x, x = Head(s), NEW r, r = Tail(s),
           lib => lib', made' = made, context' = context,
           \A c \in Classes : cls'[c] = cls[c] \/ (x = <<"done", c>> /\ cls'[c] = "done"),
           x = <<"get", "Api">> => cls[ "Api"] = "done" \/ In(s, <<"done", "Api">>),
           x = <<"done", "Api">> => cls'["Api"] = "done",
           x = <<"get", "Context">> => cls["Context"] = "done" \/ In(s, <<"done", "Context">>),
           x = <<"done", "Context">> => cls'["Context"] = "done",
           x = <<"check">> => context # 0,
           x = <<"cast">> => lib,
           x \in {"open"} \X Loaders => lib'
    PROVE  Local(r, FALSE)'
<1>0. Shape(s)
  BY DEF Local
<1>1. /\ r \in Seq(Tasks) /\ Shape(r)
      /\ \A y : In(s, y) <=> y = x \/ In(r, y)
      /\ \A c \in Classes : x = <<"done", c>> => ~In(r, x)
  BY <1>0, UnderShape
<1>2. "Api" \in Classes /\ "Context" \in Classes
  BY DEF Classes
<1>3. cls["Api"] = "done" => cls'["Api"] = "done"
  BY <1>2
<1>4. cls["Context"] = "done" => cls'["Context"] = "done"
  BY <1>2
<1>5. Unwinds(r, FALSE)'
  BY DEF Unwinds
<1>6. Initialising(r)'
  BY <1>1 DEF Local, Initialising
<1>7. ApiFirst(r, FALSE)'
  BY <1>1, <1>3 DEF Local, ApiFirst
<1>8. ReturnsLast(r, FALSE)'
  BY <1>1 DEF Local, ReturnsLast
<1>9. AnswerCast(r, FALSE)'
  <2>1. ToCast(s) /\ x # <<"cast">> => ToCast(r)
    BY ToCastTail
  <2> QED
    BY <1>1, <2>1 DEF Local, AnswerCast
<1>10. ContextFirst(r, FALSE)'
  BY <1>1, <1>4 DEF Local, ContextFirst
<1>11. ContextFresh(r)'
  BY <1>1 DEF Local, ContextFresh
<1> QED
  BY <1>1, <1>5, <1>6, <1>7, <1>8, <1>9, <1>10, <1>11 DEF Local

(* A task replaced by what it consists of.                                 *)
LEMMA ReplaceLocal ==
    ASSUME NEW s \in Seq(Tasks), s # <<>>, Local(s, FALSE), NEW n, Shape(n),
           In(n, <<"answer">>) => In(s, <<"answer">>),
           In(s, <<"check">>) => In(n, <<"check">>),
           In(s, <<"get", "Context">>) \/ In(s, <<"done", "Context">>) =>
               In(n, <<"get", "Context">>) \/ In(n, <<"done", "Context">>),
           \A c \in Classes : In(n, <<"done", c>>) => In(s, <<"done", c>>) \/ cls[c] = "no",
           Head(s) = <<"get", "Api">> \/ In(s, <<"done", "Api">>) =>
               Head(n) = <<"get", "Api">> \/ In(n, <<"done", "Api">>),
           In(n, <<"done", "Api">>) => lib \/ ToCast(n),
           ReturnsLast(n, FALSE),
           In(n, <<"create">>) => In(s, <<"create">>) \/ (made = 0 /\ context = 0),
           In(n, <<"hook">>) => In(s, <<"hook">>)
    PROVE  Local(n, FALSE)
BY DEF Local, Unwinds, Initialising, ApiFirst, AnswerCast, ContextFirst, ContextFresh

(* Where something of the finding of the loader may be put.                *)
Base(r) ==
    /\ r \in Seq(Tasks) /\ Shape(r)
    /\ \A y \in FirstOnly : ~In(r, y)
    /\ r # <<>> => Head(r) # <<"native">>
    /\ In(r, <<"answer">>) => In(r, <<"done", "Api">>)

LEMMA PushInner ==
    ASSUME NEW r, Base(r), NEW x \in Tasks, Inner(x), x \notin FirstOnly,
           \A c \in Classes : x = <<"done", c>> => ~In(r, x)
    PROVE  /\ Base(Cons(x, r)) /\ Head(Cons(x, r)) = x /\ Cons(x, r) # <<>>
           /\ \A y : In(Cons(x, r), y) <=> y = x \/ In(r, y)
           /\ ToCast(r) => ToCast(Cons(x, r))
           /\ x = <<"cast">> /\ In(r, <<"done", "Api">>) => ToCast(Cons(x, r))
<1>1. x # <<"answer">> /\ x # <<"native">> /\ x # <<"create">> /\ x # <<"hook">>
      /\ x # <<"done", "Api">>
  BY Ranks DEF Inner
<1>2. Fits(x, r)
  BY <1>1 DEF Fits, Base, Inner, FirstOnly
<1> QED
  BY <1>1, <1>2, Push DEF Base

LEMMA RankZero ==
    ASSUME NEW x, Rank(x) = 0
    PROVE  x # <<"check">> /\ x # <<"answer">>
BY Ranks

(* Under a task of the finding of the loader there is such a place.        *)
LEMMA UnderInner ==
    ASSUME NEW s \in Seq(Tasks), s # <<>>, Shape(s), NEW r, r = Tail(s),
           Inner(Head(s)) \/ (Head(s) = <<"get", "Api">> /\ In(s, <<"done", "Api">>))
    PROVE  Base(r)
<1> DEFINE x == Head(s)
<1>1. /\ r \in Seq(Tasks) /\ Shape(r)
      /\ \A y : In(s, y) <=> y = x \/ In(r, y)
      /\ \A y \in FirstOnly : ~In(r, y)
      /\ r # <<>> /\ Head(r) = <<"native">> => x = <<"check">>
      /\ In(s, <<"answer">>) => \A y : In(s, y) /\ Inner(y) => In(s, <<"done", "Api">>)
  BY Under
<1>2. Inner(x) \/ (x = <<"get", "Api">> /\ In(s, <<"done", "Api">>))
  OBVIOUS
<1> HIDE DEF x
<1>3. x # <<"check">> /\ x # <<"done", "Api">> /\ x # <<"answer">>
  <2>1. CASE Inner(x)
    <3>1. Rank(x) = 0 /\ x # <<"done", "Api">>
      BY <2>1 DEF Inner
    <3> QED
      BY <3>1, RankZero
  <2>2. CASE x = <<"get", "Api">>
    BY <2>2, Ranks
  <2> QED
    BY <1>2, <2>1, <2>2
<1>4. In(r, <<"answer">>) => In(r, <<"done", "Api">>)
  BY <1>1, <1>2, <1>3
<1> QED
  BY <1>1, <1>3, <1>4 DEF Base

-----------------------------------------------------------------------------
(* Steps that change nothing but the thread's stack.                       *)

LEMMA NewStack ==
    ASSUME TypeOK, NEW t \in Threads, stack[t] # <<>>, NEW p \in Seq(Tasks), Does(t, p)
    PROVE  /\ stack' \in [Threads -> Seq(Tasks)]
           /\ stack'[t] = p \o Tail(stack[t])
           /\ \A u \in Threads \ {t} : stack'[u] = stack[u]
<1>1. p \o Tail(stack[t]) \in Seq(Tasks)
  BY DEF TypeOK
<1> QED
  BY <1>1 DEF TypeOK, Does

LEMMA NewStackPop ==
    ASSUME TypeOK, NEW t \in Threads, stack[t] # <<>>, Does(t, <<>>)
    PROVE  /\ stack' \in [Threads -> Seq(Tasks)]
           /\ stack'[t] = Tail(stack[t])
           /\ \A u \in Threads \ {t} : stack'[u] = stack[u]
<1>1. Tail(stack[t]) \in Seq(Tasks) /\ <<>> \in Seq(Tasks)
  BY DEF TypeOK
<1>2. <<>> \o Tail(stack[t]) = Tail(stack[t])
  BY <1>1
<1> QED
  BY <1>1, <1>2, NewStack

LEMMA QuietPop ==
    ASSUME IInv, NEW t \in Threads, stack[t] # <<>>, ~thrown[t],
           Does(t, <<>>), UNCHANGED thrown,
           UNCHANGED <<value, cls, loadingVars, contextVars, calls>>,
           NEW x, x = Head(stack[t]),
           x = <<"get", "Api">> => cls["Api"] = "done" \/ In(stack[t], <<"done", "Api">>),
           x = <<"get", "Context">> =>
               cls["Context"] = "done" \/ In(stack[t], <<"done", "Context">>),
           x = <<"check">> => context # 0,
           x = <<"cast">> => lib,
           x \in {"open"} \X Loaders => lib,
           \A c \in Classes : x # <<"done", c>>
    PROVE  IInv'
<1>1. TypeOK
  BY DEF IInv
<1>2. PICK s \in Seq(Tasks) : s = stack[t]
  BY <1>1 DEF TypeOK
<1>3. PICK r \in Seq(Tasks) : r = Tail(s)
  <2>1. s # <<>>
    BY <1>2
  <2>2. Tail(s) \in Seq(Tasks)
    BY <2>1, TailFacts
  <2> QED
    BY <2>2
<1>4. s # <<>> /\ Local(s, FALSE) /\ x = Head(s)
  <2>1. thrown[t] = FALSE
    BY <1>1 DEF TypeOK
  <2> QED
    BY <1>2, <2>1 DEF IInv
<1>5. stack' \in [Threads -> Seq(Tasks)] /\ stack'[t] = r
      /\ \A u \in Threads \ {t} : stack'[u] = stack[u]
  BY <1>1, <1>2, <1>3, NewStackPop
<1>6. \A y : In(s, y) <=> y = x \/ In(r, y)
  BY <1>3, <1>4, UnderShape DEF Local
<1>7. "Api" \in Classes /\ "Context" \in Classes
  BY DEF Classes
<1>8. Local(r, FALSE)'
  <2>1. lib' = lib /\ made' = made /\ context' = context /\ cls' = cls
    BY DEF loadingVars, contextVars
  <2> QED
    BY <1>2, <1>3, <1>4, <1>7, <2>1, PopLocal
<1>9. Local(r, FALSE)
  BY <1>8 DEF loadingVars, contextVars, Local, Unwinds, Doomed, Initialising, ApiFirst,
      ReturnsLast, AnswerCast, ContextFirst, ContextFresh
<1>10. thrown' \in [Threads -> BOOLEAN] /\ thrown'[t] = FALSE
       /\ \A u \in Threads \ {t} : thrown'[u] = thrown[u]
  BY <1>1 DEF TypeOK
<1> QED
  BY <1>2, <1>5, <1>6, <1>9, <1>10, Quiet, ZenonT(60)

(* An exception.                                                           *)
LEMMA QuietThrow ==
    ASSUME IInv, NEW t \in Threads, stack[t] # <<>>, ~thrown[t], Throws(t),
           UNCHANGED <<value, cls, loadingVars, contextVars, calls>>,
           In(stack[t], <<"answer">>) =>
               \/ Doomed
               \/ In(stack[t], <<"done", "Api">>) \/ In(stack[t], <<"done", "Context">>)
    PROVE  IInv'
<1>1. TypeOK
  BY DEF IInv
<1>2. PICK s \in Seq(Tasks) : s = stack[t]
  BY <1>1 DEF TypeOK
<1>3. s # <<>> /\ Local(s, FALSE)
  <2>1. thrown[t] = FALSE
    BY <1>1 DEF TypeOK
  <2> QED
    BY <1>2, <2>1 DEF IInv
<1>4. Local(s, TRUE)
  BY <1>2, <1>3, ThrowLocal
<1>5. /\ stack' \in [Threads -> Seq(Tasks)] /\ stack'[t] = s
      /\ thrown' \in [Threads -> BOOLEAN] /\ thrown'[t] = TRUE
      /\ \A u \in Threads \ {t} : stack'[u] = stack[u] /\ thrown'[u] = thrown[u]
  BY <1>1, <1>2 DEF Throws, TypeOK
<1>6. \A c \in Classes : In(stack[t], <<"done", c>>) <=> In(s, <<"done", c>>)
  BY <1>2
<1>7. TRUE \in BOOLEAN
  OBVIOUS
<1> QED
  BY <1>4, <1>5, <1>6, <1>7, Quiet

(* A task replaced by others.                                              *)
LEMMA QuietReplace ==
    ASSUME IInv, NEW t \in Threads, NEW s \in Seq(Tasks), s = stack[t], ~thrown[t],
           NEW n \in Seq(Tasks), Local(n, FALSE),
           stack' \in [Threads -> Seq(Tasks)], stack'[t] = n,
           \A u \in Threads \ {t} : stack'[u] = stack[u],
           UNCHANGED <<thrown, value, cls, loadingVars, contextVars, calls>>,
           \A c \in Classes : In(s, <<"done", c>>) => In(n, <<"done", c>>),
           \A c \in Classes : In(n, <<"done", c>>) =>
               In(s, <<"done", c>>) \/ ~HeldByOther(t, <<"done", c>>)
    PROVE  IInv'
<1>1. TypeOK
  BY DEF IInv
<1>2. thrown' \in [Threads -> BOOLEAN] /\ thrown'[t] = FALSE
      /\ \A u \in Threads \ {t} : thrown'[u] = thrown[u]
  BY <1>1 DEF TypeOK
<1>3. \A c \in Classes : In(n, <<"done", c>>) =>
          \/ In(s, <<"done", c>>)
          \/ \A u \in Threads \ {t} : ~In(stack[u], <<"done", c>>)
  BY DEF HeldByOther, Has, In
<1>4. UNCHANGED <<value, cls, loadingVars, contextVars, calls>>
  OBVIOUS
<1>5. FALSE \in BOOLEAN
  OBVIOUS
<1> QED
  BY <1>2, <1>3, <1>4, <1>5, Quiet

-----------------------------------------------------------------------------
(* The stacks the tasks leave behind.                                      *)

LEMMA TailCons ==
    ASSUME NEW x \in Tasks, NEW r \in Seq(Tasks)
    PROVE  Tail(Cons(x, r)) = r
<1> DEFINE s == <<x>> \o r
<1>1. /\ s \in Seq(Tasks) /\ s # <<>> /\ Len(s) = Len(r) + 1
      /\ \A i \in 1..Len(r) : s[i + 1] = r[i]
  BY ConsFacts
<1>2. /\ Tail(s) \in Seq(Tasks) /\ Len(Tail(s)) = Len(s) - 1
      /\ \A i \in 1..(Len(s) - 1) : Tail(s)[i] = s[i + 1]
  BY <1>1, TailFacts
<1> HIDE DEF s
<1>3. Len(r) \in Nat /\ Len(Tail(s)) = Len(r)
  BY <1>1, <1>2
<1>4. \A i \in 1..Len(Tail(s)) : Tail(s)[i] = r[i]
  BY <1>1, <1>2, <1>3
<1>5. Tail(s) = r
  BY <1>2, <1>3, <1>4, SeqEqual
<1> QED
  BY <1>5 DEF Cons, s

LEMMA GetJniShape ==
    ASSUME NEW s \in Seq(Tasks), s # <<>>, Shape(s), Head(s) = <<"get", "Jni">>,
           ~In(s, <<"done", "Jni">>), NEW r, r = Tail(s)
    PROVE  LET m == Cons(<<"done", "Jni">>, r) IN
           /\ Base(m) /\ m \in Seq(Tasks) /\ Shape(m) /\ Head(m) = <<"done", "Jni">>
           /\ \A y : In(m, y) <=> y = <<"done", "Jni">> \/ In(r, y)
           /\ ToCast(r) => ToCast(m)
<1>t. <<"done", "Jni">> \in Tasks
  BY TaskTypes
<1>1. Inner(<<"get", "Jni">>) /\ Inner(<<"done", "Jni">>)
  BY Ranks DEF Inner
<1>2. Base(r)
  BY <1>1, UnderInner
<1>3. \A y : In(s, y) <=> y = Head(s) \/ In(r, y)
  BY UnderShape
<1>4. ~In(r, <<"done", "Jni">>) /\ <<"done", "Jni">> \notin FirstOnly
  BY <1>3 DEF FirstOnly
<1>5. \A c \in Classes : <<"done", "Jni">> = <<"done", c>> => ~In(r, <<"done", "Jni">>)
  BY <1>4
<1> DEFINE k == Cons(<<"done", "Jni">>, r)
<1>6. /\ Base(k) /\ Head(k) = <<"done", "Jni">>
      /\ \A y : In(k, y) <=> y = <<"done", "Jni">> \/ In(r, y)
      /\ ToCast(r) => ToCast(k)
  BY <1>1, <1>2, <1>4, <1>5, <1>t, PushInner
<1>7. k \in Seq(Tasks) /\ Shape(k)
  BY <1>6 DEF Base
<1> HIDE DEF k
<1> QED
  BY <1>6, <1>7 DEF k

LEMMA FirstApi ==
    ASSUME NEW m, Base(m), m # <<>>, NEW n, n = Cons(<<"get", "Api">>, m)
    PROVE  /\ n \in Seq(Tasks) /\ Shape(n) /\ Head(n) = <<"get", "Api">>
           /\ \A y : In(n, y) <=> y = <<"get", "Api">> \/ In(m, y)
           /\ ToCast(m) => ToCast(n)
<1>t. <<"get", "Api">> \in Tasks
  BY TaskTypes
<1>1. m \in Seq(Tasks) /\ Shape(m)
  BY DEF Base
<1>2. Fits(<<"get", "Api">>, m)
  BY Ranks DEF Fits, Base, Inner
<1> DEFINE k == Cons(<<"get", "Api">>, m)
<1>3. /\ k \in Seq(Tasks) /\ Shape(k) /\ Head(k) = <<"get", "Api">>
      /\ \A y : In(k, y) <=> y = <<"get", "Api">> \/ In(m, y)
      /\ ToCast(m) => ToCast(k)
  BY <1>1, <1>2, <1>t, Push
<1>4. n = k
  OBVIOUS
<1> HIDE DEF k
<1> QED
  BY <1>3, <1>4

LEMMA RankTwo ==
    LET x == <<"get", "Context">> IN Rank(x) = 2 /\ x # <<"check">> /\ x # <<"answer">>
BY Ranks

LEMMA GetContextShape ==
    ASSUME NEW s \in Seq(Tasks), s # <<>>, Shape(s), Head(s) = <<"get", "Context">>,
           ~In(s, <<"done", "Context">>), NEW r, r = Tail(s)
    PROVE  LET n == Cons(<<"create">>, Cons(<<"done", "Context">>, r)) IN
           /\ n \in Seq(Tasks) /\ Shape(n) /\ Head(n) = <<"create">>
           /\ \A y : In(n, y) <=>
                 y = <<"create">> \/ y = <<"done", "Context">> \/ In(r, y)
           /\ ToCast(r) => ToCast(n)
<1>t. <<"create">> \in Tasks /\ <<"done", "Context">> \in Tasks
  BY TaskTypes
<1>1. PICK x : x = Head(s)
  OBVIOUS
<1>2. x = <<"get", "Context">> /\ Rank(x) = 2 /\ x # <<"check">> /\ x # <<"answer">>
  BY <1>1, RankTwo
<1>3. /\ r \in Seq(Tasks) /\ Shape(r)
      /\ \A y : In(s, y) <=> y = x \/ In(r, y)
      /\ \A y \in FirstOnly : ~In(r, y)
      /\ Rank(x) > 0 => \A y : In(r, y) => Rank(x) < Rank(y)
      /\ r # <<>> /\ Head(r) = <<"native">> => x = <<"check">>
      /\ Rank(x) > 0 /\ x # <<"answer">> => In(r, <<"answer">>)
  BY <1>1, Under
<1>4. /\ \A y : In(r, y) => 2 < Rank(y)
      /\ In(r, <<"answer">>) /\ ~In(r, <<"done", "Context">>)
      /\ r # <<>> => Head(r) # <<"native">>
  BY <1>2, <1>3
<1> DEFINE m == Cons(<<"done", "Context">>, r)
           k == Cons(<<"create">>, m)
<1>5. Fits(<<"done", "Context">>, r)
  BY <1>3, <1>4, Ranks DEF Fits, Inner
<1>6. /\ m \in Seq(Tasks) /\ Shape(m) /\ m # <<>> /\ Head(m) = <<"done", "Context">>
      /\ \A y : In(m, y) <=> y = <<"done", "Context">> \/ In(r, y)
      /\ ToCast(r) => ToCast(m)
  BY <1>3, <1>5, <1>t, Push
<1> HIDE DEF m
<1>8. Fits(<<"create">>, m)
  <2>1. \A y : In(m, y) => 1 < Rank(y)
    <3> SUFFICES ASSUME NEW y, In(m, y) PROVE 1 < Rank(y)
      OBVIOUS
    <3>1. CASE y = <<"done", "Context">>
      BY <3>1, Ranks
    <3>2. CASE In(r, y)
      <4>1. 2 < Rank(y) /\ Rank(y) \in Nat
        BY <1>4, <3>2 DEF Rank
      <4> QED
        BY <4>1
    <3> QED
      BY <1>6, <3>1, <3>2
  <2>2. \A y \in FirstOnly : ~In(m, y)
    BY <1>3, <1>6 DEF FirstOnly
  <2> QED
    BY <1>4, <1>6, <2>1, <2>2, Ranks DEF Fits, Inner
<1>9. /\ k \in Seq(Tasks) /\ Shape(k) /\ Head(k) = <<"create">>
      /\ \A y : In(k, y) <=> y = <<"create">> \/ In(m, y)
      /\ ToCast(m) => ToCast(k)
  BY <1>6, <1>8, <1>t, Push
<1> HIDE DEF k
<1>10. \A y : In(k, y) <=> y = <<"create">> \/ y = <<"done", "Context">> \/ In(r, y)
  BY <1>6, <1>9
<1> QED
  BY <1>6, <1>9, <1>10 DEF k, m

LEMMA FindShape ==
    ASSUME NEW s \in Seq(Tasks), s # <<>>, Shape(s), Head(s) = <<"find">>,
           NEW r, r = Tail(s), NEW l \in Loaders
    PROVE  LET n == Cons(<<"enter", l>>, r) IN
           /\ n \in Seq(Tasks) /\ Shape(n) /\ Head(n) = <<"enter", l>>
           /\ \A y : In(n, y) <=> y = <<"enter", l>> \/ In(r, y)
           /\ ToCast(r) => ToCast(n)
<1>t. <<"enter", l>> \in Tasks
  BY TaskTypes
<1>1. Inner(<<"find">>) /\ Inner(<<"enter", l>>)
  BY Ranks DEF Inner
<1>2. Base(r)
  BY <1>1, UnderInner
<1>3. <<"enter", l>> \notin FirstOnly /\ \A c \in Classes : <<"enter", l>> # <<"done", c>>
  BY DEF FirstOnly
<1> DEFINE k == Cons(<<"enter", l>>, r)
<1>4. /\ Base(k) /\ Head(k) = <<"enter", l>>
      /\ \A y : In(k, y) <=> y = <<"enter", l>> \/ In(r, y)
      /\ ToCast(r) => ToCast(k)
  BY <1>1, <1>2, <1>3, <1>t, PushInner
<1>5. k \in Seq(Tasks) /\ Shape(k)
  BY <1>4 DEF Base
<1> HIDE DEF k
<1> QED
  BY <1>4, <1>5 DEF k

(* The tasks of a load() after the opening of the library.                 *)
LEMMA PushThree ==
    ASSUME NEW r, Base(r), NEW x \in Tasks, NEW y \in Tasks, NEW z \in Tasks,
           Inner(x), Inner(y), Inner(z),
           x \notin FirstOnly, y \notin FirstOnly, z \notin FirstOnly,
           \A c \in Classes : x # <<"done", c>> /\ y # <<"done", c>> /\ z # <<"done", c>>
    PROVE  LET n == Cons(x, Cons(y, Cons(z, r))) IN
           /\ Base(n) /\ Len(n) >= 2 /\ n[1] = x /\ n[2] = y
           /\ \A w : In(n, w) <=> w = x \/ w = y \/ w = z \/ In(r, w)
           /\ \A w : In(Tail(Tail(n)), w) => w = z \/ In(r, w)
           /\ ToCast(r) => ToCast(n)
<1> DEFINE a == Cons(z, r)
           b == Cons(y, a)
           n == Cons(x, b)
<1>1. Base(a) /\ (\A w : In(a, w) <=> w = z \/ In(r, w)) /\ (ToCast(r) => ToCast(a))
  BY PushInner
<1> HIDE DEF a
<1>2. Base(b) /\ (\A w : In(b, w) <=> w = y \/ In(a, w)) /\ (ToCast(a) => ToCast(b))
  BY <1>1, PushInner
<1>4. a \in Seq(Tasks)
  BY <1>1 DEF Base
<1>5. Tail(b) = a /\ b[1] = y /\ Len(b) = Len(a) + 1 /\ Len(a) \in Nat
  BY <1>4, TailCons, ConsFacts DEF Cons
<1> HIDE DEF b
<1>6. b \in Seq(Tasks)
  BY <1>2 DEF Base
<1>7. Base(n) /\ (\A w : In(n, w) <=> w = x \/ In(b, w)) /\ (ToCast(b) => ToCast(n))
  BY <1>2, PushInner
<1>8. Tail(n) = b /\ n[1] = x /\ Len(n) = Len(b) + 1
      /\ \A i \in 1..Len(b) : n[i + 1] = b[i]
  BY <1>6, TailCons, ConsFacts DEF Cons
<1> HIDE DEF n
<1>9. 1 \in 1..Len(b) /\ n[1 + 1] = b[1]
  BY <1>5, <1>8
<1>10. Len(n) >= 2 /\ n[2] = y
  BY <1>5, <1>8, <1>9
<1>11. \A w : In(Tail(Tail(n)), w) => w = z \/ In(r, w)
  BY <1>1, <1>5, <1>8
<1>12. \A w : In(n, w) <=> w = x \/ w = y \/ w = z \/ In(r, w)
  BY <1>1, <1>2, <1>7
<1> QED
  BY <1>1, <1>2, <1>7, <1>8, <1>10, <1>11, <1>12 DEF n, b, a

LEMMA OpenFits ==
    ASSUME NEW c, Base(c), NEW l \in Loaders, Len(c) >= 2, c[1] = <<"get", "Jni">>,
           c[2] = <<"return">>
    PROVE  Fits(<<"open", l>>, c)
<1>1. Rank(<<"open", l>>) = 0 /\ <<"open", l>> # <<"answer">>
  BY Ranks
<1>2. /\ \A k \in Classes : <<"open", l>> # <<"done", k>>
      /\ <<"open", l>> # <<"create">> /\ <<"open", l>> # <<"hook">>
  BY <1>1, Ranks
<1> QED
  BY <1>1, <1>2 DEF Fits, Base, Inner

LEMMA EnterShape ==
    ASSUME NEW s \in Seq(Tasks), s # <<>>, Shape(s),
           NEW l \in Loaders, Head(s) = <<"enter", l>>, NEW r, r = Tail(s)
    PROVE  LET n == Cons(<<"open", l>>,
                         Cons(<<"get", "Jni">>, Cons(<<"return">>, Cons(<<"leave", l>>, r))))
           IN
           /\ n \in Seq(Tasks) /\ Shape(n) /\ Head(n) = <<"open", l>>
           /\ \A y : In(n, y) <=>
                 \/ y = <<"open", l>> \/ y = <<"get", "Jni">> \/ y = <<"return">>
                 \/ y = <<"leave", l>> \/ In(r, y)
           /\ \A y : In(Tail(Tail(Tail(n))), y) => y = <<"leave", l>> \/ In(r, y)
           /\ ToCast(r) => ToCast(n)
<1>t. <<"open", l>> \in Tasks /\ <<"get", "Jni">> \in Tasks /\ <<"return">> \in Tasks
      /\ <<"leave", l>> \in Tasks
  BY TaskTypes
<1>1. Inner(<<"enter", l>>) /\ Inner(<<"leave", l>>) /\ Inner(<<"return">>)
      /\ Inner(<<"get", "Jni">>)
  BY Ranks DEF Inner
<1>2. Base(r)
  BY <1>1, UnderInner
<1>3. /\ <<"leave", l>> \notin FirstOnly /\ <<"return">> \notin FirstOnly
      /\ <<"get", "Jni">> \notin FirstOnly
      /\ \A c \in Classes : /\ <<"get", "Jni">> # <<"done", c>>
                            /\ <<"return">> # <<"done", c>> /\ <<"leave", l>> # <<"done", c>>
  BY DEF FirstOnly
<1> DEFINE c == Cons(<<"get", "Jni">>, Cons(<<"return">>, Cons(<<"leave", l>>, r)))
           n == Cons(<<"open", l>>, c)
<1>5. /\ Base(c) /\ Len(c) >= 2 /\ c[1] = <<"get", "Jni">> /\ c[2] = <<"return">>
      /\ \A y : In(c, y) <=> y = <<"get", "Jni">> \/ y = <<"return">> \/ y = <<"leave", l>>
                             \/ In(r, y)
      /\ \A y : In(Tail(Tail(c)), y) => y = <<"leave", l>> \/ In(r, y)
      /\ ToCast(r) => ToCast(c)
  <2>1. PICK x, y, z : x = <<"get", "Jni">> /\ y = <<"return">> /\ z = <<"leave", l>>
    OBVIOUS
  <2>2. /\ x \in Tasks /\ y \in Tasks /\ z \in Tasks /\ Inner(x) /\ Inner(y) /\ Inner(z)
        /\ x \notin FirstOnly /\ y \notin FirstOnly /\ z \notin FirstOnly
        /\ \A k \in Classes : x # <<"done", k>> /\ y # <<"done", k>> /\ z # <<"done", k>>
    BY <1>1, <1>3, <1>t, <2>1
  <2>3. c = Cons(x, Cons(y, Cons(z, r)))
    BY <2>1
  <2> HIDE DEF c
  <2>4. /\ Base(c) /\ Len(c) >= 2 /\ c[1] = x /\ c[2] = y
        /\ \A w : In(c, w) <=> w = x \/ w = y \/ w = z \/ In(r, w)
        /\ \A w : In(Tail(Tail(c)), w) => w = z \/ In(r, w)
        /\ ToCast(r) => ToCast(c)
    BY <1>2, <2>2, <2>3, PushThree
  <2> QED
    BY <2>1, <2>4
<1> HIDE DEF c
<1>6. c \in Seq(Tasks) /\ Shape(c)
  BY <1>5 DEF Base
<1>7. Fits(<<"open", l>>, c)
  BY <1>5, OpenFits
<1>8. /\ n \in Seq(Tasks) /\ Shape(n) /\ Head(n) = <<"open", l>>
      /\ \A y : In(n, y) <=> y = <<"open", l>> \/ In(c, y)
      /\ ToCast(c) => ToCast(n)
  BY <1>6, <1>7, <1>t, Push
<1>9. Tail(n) = c
  BY <1>6, <1>t, TailCons
<1> HIDE DEF n
<1>10. \A y : In(n, y) <=>
           \/ y = <<"open", l>> \/ y = <<"get", "Jni">> \/ y = <<"return">>
           \/ y = <<"leave", l>> \/ In(r, y)
  BY <1>5, <1>8
<1> QED
  BY <1>5, <1>8, <1>9, <1>10 DEF n, c

(* The tasks as the actions write them.                                    *)
LEMMA Literals ==
    ASSUME NEW r \in Seq(Tasks), NEW l \in Loaders
    PROVE  /\ <<<<"done", "Jni">>>> \o r = Cons(<<"done", "Jni">>, r)
           /\ <<<<"get", "Api">>, <<"done", "Jni">>>> \o r =
                 Cons(<<"get", "Api">>, Cons(<<"done", "Jni">>, r))
           /\ <<<<"create">>, <<"done", "Context">>>> \o r =
                 Cons(<<"create">>, Cons(<<"done", "Context">>, r))
           /\ <<<<"hook">>>> \o r = Cons(<<"hook">>, r)
           /\ <<<<"enter", l>>>> \o r = Cons(<<"enter", l>>, r)
           /\ <<<<"enter", l>>, <<"cast">>>> \o r = Cons(<<"enter", l>>, Cons(<<"cast">>, r))
           /\ <<<<"open", l>>, <<"get", "Jni">>, <<"return">>, <<"leave", l>>>> \o r =
                 Cons(<<"open", l>>,
                      Cons(<<"get", "Jni">>, Cons(<<"return">>, Cons(<<"leave", l>>, r))))
<1>t. /\ <<"done", "Jni">> \in Tasks /\ <<"get", "Api">> \in Tasks /\ <<"create">> \in Tasks
      /\ <<"done", "Context">> \in Tasks /\ <<"hook">> \in Tasks /\ <<"enter", l>> \in Tasks
      /\ <<"cast">> \in Tasks /\ <<"open", l>> \in Tasks /\ <<"get", "Jni">> \in Tasks
      /\ <<"return">> \in Tasks /\ <<"leave", l>> \in Tasks
  BY TaskTypes
<1>1. /\ Put2(<<"get", "Api">>, <<"done", "Jni">>, r) =
            Cons(<<"get", "Api">>, Cons(<<"done", "Jni">>, r))
      /\ Put2(<<"create">>, <<"done", "Context">>, r) =
            Cons(<<"create">>, Cons(<<"done", "Context">>, r))
      /\ Put2(<<"enter", l>>, <<"cast">>, r) = Cons(<<"enter", l>>, Cons(<<"cast">>, r))
  BY <1>t, Two
<1>2. Put4(<<"open", l>>, <<"get", "Jni">>, <<"return">>, <<"leave", l>>, r) =
          Cons(<<"open", l>>,
               Cons(<<"get", "Jni">>, Cons(<<"return">>, Cons(<<"leave", l>>, r))))
  BY <1>t, Several
<1>3. /\ <<<<"done", "Jni">>>> \o r = Cons(<<"done", "Jni">>, r)
      /\ <<<<"hook">>>> \o r = Cons(<<"hook">>, r)
      /\ <<<<"enter", l>>>> \o r = Cons(<<"enter", l>>, r)
  BY DEF Cons
<1> QED
  BY <1>1, <1>2, <1>3 DEF Put2, Put4

LEMMA LiteralTypes ==
    ASSUME NEW l \in Loaders
    PROVE  /\ <<<<"find">>, <<"cast">>, <<"done", "Api">>>> \in Seq(Tasks)
           /\ <<<<"done", "Jni">>>> \in Seq(Tasks)
           /\ <<<<"get", "Api">>, <<"done", "Jni">>>> \in Seq(Tasks)
           /\ <<<<"create">>, <<"done", "Context">>>> \in Seq(Tasks)
           /\ <<<<"hook">>>> \in Seq(Tasks)
           /\ <<<<"enter", l>>>> \in Seq(Tasks)
           /\ <<<<"enter", l>>, <<"cast">>>> \in Seq(Tasks)
           /\ <<<<"open", l>>, <<"get", "Jni">>, <<"return">>, <<"leave", l>>>> \in Seq(Tasks)
<1>t. /\ <<"done", "Jni">> \in Tasks /\ <<"get", "Api">> \in Tasks /\ <<"create">> \in Tasks
      /\ <<"done", "Context">> \in Tasks /\ <<"hook">> \in Tasks /\ <<"enter", l>> \in Tasks
      /\ <<"cast">> \in Tasks /\ <<"open", l>> \in Tasks /\ <<"get", "Jni">> \in Tasks
      /\ <<"return">> \in Tasks /\ <<"leave", l>> \in Tasks /\ <<"find">> \in Tasks
      /\ <<"done", "Api">> \in Tasks
  BY TaskTypes
<1>1. \A a, b, c, d \in Tasks :
          /\ <<a>> \in Seq(Tasks) /\ <<a, b>> \in Seq(Tasks)
          /\ <<a, b, c>> \in Seq(Tasks) /\ <<a, b, c, d>> \in Seq(Tasks)
  OBVIOUS
<1> QED
  BY <1>1, <1>t

LEMMA Appended ==
    ASSUME NEW a \in Tasks, NEW b \in Tasks, NEW c \in Tasks
    PROVE  Append(<<a, b>>, c) = <<a, b, c>> /\ Append(<<a>>, b) = <<a, b>>
           /\ Append(<<>>, a) = <<a>>
<1>1. /\ Append(<<a, b>>, c) \in Seq(Tasks) /\ <<a, b, c>> \in Seq(Tasks)
      /\ Append(<<a>>, b) \in Seq(Tasks) /\ <<a, b>> \in Seq(Tasks)
  OBVIOUS
<1>2. /\ Len(Append(<<a, b>>, c)) = 3 /\ Len(<<a, b, c>>) = 3
      /\ Len(Append(<<a>>, b)) = 2 /\ Len(<<a, b>>) = 2
  OBVIOUS
<1>3. /\ Append(<<a, b>>, c)[1] = a /\ Append(<<a, b>>, c)[2] = b
      /\ Append(<<a, b>>, c)[3] = c
      /\ <<a, b, c>>[1] = a /\ <<a, b, c>>[2] = b /\ <<a, b, c>>[3] = c
  OBVIOUS
<1>4. /\ Append(<<a>>, b)[1] = a /\ Append(<<a>>, b)[2] = b
      /\ <<a, b>>[1] = a /\ <<a, b>>[2] = b
  OBVIOUS
<1> DEFINE p == Append(<<a, b>>, c)  q == <<a, b, c>>  r == Append(<<a>>, b)  s == <<a, b>>
<1>p. /\ p \in Seq(Tasks) /\ q \in Seq(Tasks) /\ Len(p) = 3 /\ Len(q) = 3
      /\ p[1] = q[1] /\ p[2] = q[2] /\ p[3] = q[3]
      /\ r \in Seq(Tasks) /\ s \in Seq(Tasks) /\ Len(r) = 2 /\ Len(s) = 2
      /\ r[1] = s[1] /\ r[2] = s[2]
  BY <1>1, <1>2, <1>3, <1>4
<1>5. p = q
  <2> HIDE DEF p, q
  <2>1. \A i \in 1..3 : p[i] = q[i]
    BY <1>p
  <2> QED
    BY <1>p, <2>1, SeqEqual
<1>6. r = s
  <2> HIDE DEF r, s
  <2>1. \A i \in 1..2 : r[i] = s[i]
    BY <1>p
  <2> QED
    BY <1>p, <2>1, SeqEqual
<1>7. Append(<<>>, a) = <<a>>
  <2>1. Append(<<>>, a) \in Seq(Tasks) /\ <<a>> \in Seq(Tasks)
    OBVIOUS
  <2>2. Len(Append(<<>>, a)) = 1 /\ Len(<<a>>) = 1 /\ Append(<<>>, a)[1] = a /\ <<a>>[1] = a
    OBVIOUS
  <2> QED
    BY <2>1, <2>2, SeqEqual
<1> QED
  BY <1>5, <1>6, <1>7

(* What a class is initialised by, the end included.                       *)
LEMMA Initialisers ==
    /\ Append(Initialiser("Api"), <<"done", "Api">>) =
          <<<<"find">>, <<"cast">>, <<"done", "Api">>>>
    /\ Append(Initialiser("Jni"), <<"done", "Jni">>) =
          IF DefaultMethods THEN <<<<"get", "Api">>, <<"done", "Jni">>>>
          ELSE <<<<"done", "Jni">>>>
    /\ Append(Initialiser("Context"), <<"done", "Context">>) =
          <<<<"create">>, <<"done", "Context">>>>
<1>t. /\ <<"find">> \in Tasks /\ <<"cast">> \in Tasks /\ <<"done", "Api">> \in Tasks
      /\ <<"done", "Jni">> \in Tasks /\ <<"get", "Api">> \in Tasks
      /\ <<"create">> \in Tasks /\ <<"done", "Context">> \in Tasks
  BY TaskTypes
<1>1. /\ Append(<<<<"find">>, <<"cast">>>>, <<"done", "Api">>) =
            <<<<"find">>, <<"cast">>, <<"done", "Api">>>>
      /\ Append(<<<<"get", "Api">>>>, <<"done", "Jni">>) =
            <<<<"get", "Api">>, <<"done", "Jni">>>>
      /\ Append(<<>>, <<"done", "Jni">>) = <<<<"done", "Jni">>>>
      /\ Append(<<<<"create">>>>, <<"done", "Context">>) =
            <<<<"create">>, <<"done", "Context">>>>
  BY <1>t, Appended, ZenonT(60)
<1>2. Initialiser("Api") = <<<<"find">>, <<"cast">>>>
  BY DEF Initialiser
<1>3. Initialiser("Jni") = IF DefaultMethods THEN <<<<"get", "Api">>>> ELSE <<>>
  BY DEF Initialiser
<1>4. Initialiser("Context") = <<<<"create">>>>
  BY DEF Initialiser
<1> QED
  BY <1>1, <1>2, <1>3, <1>4

LEMMA CurrentFacts ==
    ASSUME IInv, NEW t \in Threads, NEW x, Current(t, x)
    PROVE  /\ stack[t] \in Seq(Tasks) /\ stack[t] # <<>> /\ Shape(stack[t])
           /\ Local(stack[t], FALSE) /\ Head(stack[t]) = x /\ ~thrown[t] /\ TypeOK
<1>1. TypeOK /\ thrown[t] = FALSE
  BY DEF IInv, TypeOK, Current
<1> QED
  BY <1>1 DEF IInv, TypeOK, Current, Local

-----------------------------------------------------------------------------
(* The actions, one by one.                                                *)

(* A class that is to be initialised now.                                  *)
LEMMA GetApi ==
    ASSUME IInv, NEW t \in Threads, Current(t, <<"get", "Api">>), UNCHANGED thrown,
           cls["Api"] = "no", ~In(stack[t], <<"done", "Api">>),
           ~HeldByOther(t, <<"done", "Api">>),
           Does(t, <<<<"find">>, <<"cast">>, <<"done", "Api">>>>),
           UNCHANGED <<value, cls, loadingVars, contextVars, calls>>
    PROVE  IInv'
<1>1. /\ stack[t] \in Seq(Tasks) /\ stack[t] # <<>> /\ Shape(stack[t])
      /\ Local(stack[t], FALSE) /\ Head(stack[t]) = <<"get", "Api">>
      /\ ~thrown[t] /\ TypeOK
  BY CurrentFacts
<1>2. PICK s \in Seq(Tasks) : s = stack[t]
  BY <1>1
<1>3. PICK r : r = Tail(s)
  OBVIOUS
<1>4. PICK n : n = <<<<"find">>, <<"cast">>, <<"done", "Api">>>> \o Tail(s)
  OBVIOUS
<1>5. /\ n \in Seq(Tasks) /\ Shape(n) /\ Head(n) = <<"find">> /\ ToCast(n)
      /\ \A y : In(n, y) <=>
            y = <<"find">> \/ y = <<"cast">> \/ y = <<"done", "Api">> \/ In(r, y)
  BY <1>1, <1>2, <1>3, <1>4, GetApiShape
<1>6. \A y : In(s, y) <=> y = <<"get", "Api">> \/ In(r, y)
  BY <1>1, <1>2, <1>3, UnderShape
<1>7. /\ stack' \in [Threads -> Seq(Tasks)] /\ stack'[t] = n
      /\ \A u \in Threads \ {t} : stack'[u] = stack[u]
  <2>1. "jvm" \in Loaders
    BY DEF Loaders
  <2> QED
    BY <1>1, <1>2, <1>4, <2>1, LiteralTypes, NewStack
<1>8. "Api" \in Classes
  BY DEF Classes
<1>9. Local(n, FALSE)
  <2>1. In(n, <<"answer">>) => In(s, <<"answer">>)
    BY <1>5, <1>6
  <2>2. \A c \in Classes : In(n, <<"done", c>>) => In(s, <<"done", c>>) \/ cls[c] = "no"
    BY <1>5, <1>6
  <2>3. ReturnsLast(n, FALSE)
    <3>1. Head(s) \notin {"open"} \X Loaders
      BY <1>1, <1>2
    <3> QED
      BY <1>1, <1>2, <1>5, <1>6, <3>1 DEF Local, ReturnsLast
  <2>4. /\ In(s, <<"check">>) => In(n, <<"check">>)
        /\ In(s, <<"get", "Context">>) => In(n, <<"get", "Context">>)
        /\ In(s, <<"done", "Context">>) => In(n, <<"done", "Context">>)
        /\ In(n, <<"create">>) => In(s, <<"create">>)
        /\ In(n, <<"hook">>) => In(s, <<"hook">>)
        /\ In(n, <<"done", "Api">>)
    BY <1>5, <1>6, Ranks
  <2> QED
    BY <1>1, <1>2, <1>5, <2>1, <2>2, <2>3, <2>4, ReplaceLocal
<1>10. \A c \in Classes : In(s, <<"done", c>>) => In(n, <<"done", c>>)
  BY <1>5, <1>6
<1>11. \A c \in Classes : In(n, <<"done", c>>) =>
           In(s, <<"done", c>>) \/ ~HeldByOther(t, <<"done", c>>)
  BY <1>5, <1>6
<1>12. UNCHANGED <<thrown, value, cls, loadingVars, contextVars, calls>>
  OBVIOUS
<1> QED
  BY <1>1, <1>2, <1>5, <1>7, <1>9, <1>10, <1>11, <1>12, QuietReplace

LEMMA GetJni ==
    ASSUME IInv, NEW t \in Threads, Current(t, <<"get", "Jni">>), UNCHANGED thrown,
           cls["Jni"] = "no", ~In(stack[t], <<"done", "Jni">>),
           ~HeldByOther(t, <<"done", "Jni">>),
           Does(t, IF DefaultMethods THEN <<<<"get", "Api">>, <<"done", "Jni">>>>
                   ELSE <<<<"done", "Jni">>>>),
           UNCHANGED <<value, cls, loadingVars, contextVars, calls>>
    PROVE  IInv'
<1>1. /\ stack[t] \in Seq(Tasks) /\ stack[t] # <<>> /\ Shape(stack[t])
      /\ Local(stack[t], FALSE) /\ Head(stack[t]) = <<"get", "Jni">>
      /\ ~thrown[t] /\ TypeOK
  BY CurrentFacts
<1>2. PICK s \in Seq(Tasks) : s = stack[t]
  BY <1>1
<1>3. PICK r : r = Tail(s)
  OBVIOUS
<1>s. s # <<>> /\ Shape(s) /\ Head(s) = <<"get", "Jni">> /\ ~In(s, <<"done", "Jni">>)
  BY <1>1, <1>2
<1> DEFINE m == Cons(<<"done", "Jni">>, r)
<1>5. /\ Base(m) /\ m \in Seq(Tasks) /\ Shape(m) /\ Head(m) = <<"done", "Jni">>
      /\ \A y : In(m, y) <=> y = <<"done", "Jni">> \/ In(r, y)
      /\ ToCast(r) => ToCast(m)
  BY <1>3, <1>s, GetJniShape
<1>4. m = Cons(<<"done", "Jni">>, r)
  OBVIOUS
<1> HIDE DEF m
<1>6. \A y : In(s, y) <=> y = <<"get", "Jni">> \/ In(r, y)
  BY <1>1, <1>2, <1>3, UnderShape
<1>r. r \in Seq(Tasks)
  BY <1>1, <1>2, <1>3, UnderShape
<1>j. "jvm" \in Loaders
  BY DEF Loaders
<1>7. ToCast(s) => ToCast(r)
  <2>1. Head(s) # <<"cast">>
    BY <1>1, <1>2
  <2> QED
    BY <1>1, <1>2, <1>3, <2>1, ToCastTail
<1>8. PICK n : n = IF DefaultMethods THEN Cons(<<"get", "Api">>, m) ELSE m
  OBVIOUS
<1>9. /\ n \in Seq(Tasks) /\ Shape(n) /\ (ToCast(r) => ToCast(n))
      /\ Head(n) \in {<<"get", "Api">>, <<"done", "Jni">>}
      /\ \A y : In(r, y) => In(n, y)
      /\ \A y : In(n, y) => \/ y = <<"get", "Api">> \/ y = <<"done", "Jni">> \/ In(r, y)
      /\ In(n, <<"done", "Jni">>)
  <2>1. m # <<>>
    <3>1. In(m, <<"done", "Jni">>)
      BY <1>5
    <3> QED
      BY <3>1 DEF In
  <2>2. CASE DefaultMethods
    <3>1. n = Cons(<<"get", "Api">>, m)
      BY <1>8, <2>2
    <3>2. /\ n \in Seq(Tasks) /\ Shape(n) /\ Head(n) = <<"get", "Api">>
          /\ \A y : In(n, y) <=> y = <<"get", "Api">> \/ In(m, y)
          /\ ToCast(m) => ToCast(n)
      BY <1>5, <2>1, <3>1, FirstApi
    <3> QED
      BY <1>5, <3>2
  <2>3. CASE ~DefaultMethods
    <3>1. n = m
      BY <1>8, <2>3
    <3> QED
      BY <1>5, <3>1
  <2> QED
    BY <2>2, <2>3
<1>10. /\ stack' \in [Threads -> Seq(Tasks)] /\ stack'[t] = n
       /\ \A u \in Threads \ {t} : stack'[u] = stack[u]
  <2>1. CASE DefaultMethods
    <3>1. Does(t, <<<<"get", "Api">>, <<"done", "Jni">>>>)
      BY <2>1
    <3>2. <<<<"get", "Api">>, <<"done", "Jni">>>> \in Seq(Tasks)
      BY <1>j, LiteralTypes
    <3>3. n = <<<<"get", "Api">>, <<"done", "Jni">>>> \o r
      BY <1>4, <1>8, <1>j, <1>r, <2>1, Literals
    <3> QED
      BY <1>1, <1>2, <1>3, <3>1, <3>2, <3>3, NewStack
  <2>2. CASE ~DefaultMethods
    <3>1. Does(t, <<<<"done", "Jni">>>>)
      BY <2>2
    <3>2. <<<<"done", "Jni">>>> \in Seq(Tasks)
      BY <1>j, LiteralTypes
    <3>3. n = <<<<"done", "Jni">>>> \o r
      BY <1>4, <1>8, <1>j, <1>r, <2>2, Literals
    <3> QED
      BY <1>1, <1>2, <1>3, <3>1, <3>2, <3>3, NewStack
  <2> QED
    BY <2>1, <2>2
<1>11. Local(n, FALSE)
  <2>1. In(n, <<"answer">>) => In(s, <<"answer">>)
    BY <1>6, <1>9, Ranks
  <2>2. \A c \in Classes : In(n, <<"done", c>>) => In(s, <<"done", c>>) \/ cls[c] = "no"
    BY <1>6, <1>9
  <2>3. ReturnsLast(n, FALSE)
    <3>1. Head(s) \notin {"open"} \X Loaders
      BY <1>1, <1>2
    <3>2. In(n, <<"return">>) => In(s, <<"return">>)
      BY <1>6, <1>9
    <3> QED
      BY <1>1, <1>2, <3>1, <3>2 DEF Local, ReturnsLast
  <2>4. /\ In(s, <<"check">>) => In(n, <<"check">>)
        /\ In(s, <<"get", "Context">>) => In(n, <<"get", "Context">>)
        /\ In(s, <<"done", "Context">>) => In(n, <<"done", "Context">>)
        /\ In(n, <<"create">>) => In(s, <<"create">>)
        /\ In(n, <<"hook">>) => In(s, <<"hook">>)
        /\ In(s, <<"done", "Api">>) <=> In(n, <<"done", "Api">>)
    BY <1>6, <1>9, Ranks
  <2>5. In(n, <<"done", "Api">>) => lib \/ ToCast(n)
    BY <1>1, <1>2, <1>7, <1>9, <2>4 DEF Local, AnswerCast
  <2>6. Head(s) # <<"get", "Api">>
    BY <1>1, <1>2
  <2> QED
    BY <1>1, <1>2, <1>9, <2>1, <2>2, <2>3, <2>4, <2>5, <2>6, ReplaceLocal
<1>12. \A c \in Classes : In(s, <<"done", c>>) => In(n, <<"done", c>>)
  BY <1>6, <1>9
<1>13. \A c \in Classes : In(n, <<"done", c>>) =>
           In(s, <<"done", c>>) \/ ~HeldByOther(t, <<"done", c>>)
  BY <1>6, <1>9
<1>14. UNCHANGED <<thrown, value, cls, loadingVars, contextVars, calls>>
  OBVIOUS
<1> QED
  BY <1>1, <1>2, <1>9, <1>10, <1>11, <1>12, <1>13, <1>14, QuietReplace

LEMMA GetContext ==
    ASSUME IInv, NEW t \in Threads, Current(t, <<"get", "Context">>), UNCHANGED thrown,
           cls["Context"] = "no", ~In(stack[t], <<"done", "Context">>),
           ~HeldByOther(t, <<"done", "Context">>),
           Does(t, <<<<"create">>, <<"done", "Context">>>>),
           UNCHANGED <<value, cls, loadingVars, contextVars, calls>>
    PROVE  IInv'
<1>1. /\ stack[t] \in Seq(Tasks) /\ stack[t] # <<>> /\ Shape(stack[t])
      /\ Local(stack[t], FALSE) /\ Head(stack[t]) = <<"get", "Context">>
      /\ ~thrown[t] /\ TypeOK
  BY CurrentFacts
<1>2. PICK s \in Seq(Tasks) : s = stack[t]
  BY <1>1
<1>3. PICK r : r = Tail(s)
  OBVIOUS
<1>s. s # <<>> /\ Shape(s) /\ Head(s) = <<"get", "Context">> /\ ~In(s, <<"done", "Context">>)
  BY <1>1, <1>2
<1> DEFINE n == Cons(<<"create">>, Cons(<<"done", "Context">>, r))
<1>5. /\ n \in Seq(Tasks) /\ Shape(n) /\ Head(n) = <<"create">>
      /\ \A y : In(n, y) <=>
            y = <<"create">> \/ y = <<"done", "Context">> \/ In(r, y)
      /\ ToCast(r) => ToCast(n)
  BY <1>3, <1>s, GetContextShape
<1>4. n = Cons(<<"create">>, Cons(<<"done", "Context">>, r))
  OBVIOUS
<1> HIDE DEF n
<1>6. r \in Seq(Tasks) /\ \A y : In(s, y) <=> y = <<"get", "Context">> \/ In(r, y)
  BY <1>1, <1>2, <1>3, UnderShape
<1>j. "jvm" \in Loaders /\ "Context" \in Classes
  BY DEF Loaders, Classes
<1>7. ToCast(s) => ToCast(r)
  <2>1. Head(s) # <<"cast">>
    BY <1>1, <1>2, Ranks
  <2> QED
    BY <1>1, <1>2, <1>3, <2>1, ToCastTail
<1>8. /\ stack' \in [Threads -> Seq(Tasks)] /\ stack'[t] = n
      /\ \A u \in Threads \ {t} : stack'[u] = stack[u]
  <2>1. <<<<"create">>, <<"done", "Context">>>> \in Seq(Tasks)
    BY <1>j, LiteralTypes
  <2>2. n = <<<<"create">>, <<"done", "Context">>>> \o r
    BY <1>4, <1>6, <1>j, Literals
  <2> QED
    BY <1>1, <1>2, <1>3, <2>1, <2>2, NewStack
<1>9. made = 0 /\ context = 0
  <2>1. \A u \in Threads : ~In(stack[u], <<"done", "Context">>)
    BY DEF HeldByOther, Has, In
  <2> QED
    BY <2>1 DEF IInv, OneContext
<1>11. Local(n, FALSE)
  <2>1. In(n, <<"answer">>) => In(s, <<"answer">>)
    BY <1>5, <1>6, Ranks
  <2>2. \A c \in Classes : In(n, <<"done", c>>) => In(s, <<"done", c>>) \/ cls[c] = "no"
    BY <1>5, <1>6, Ranks
  <2>3. ReturnsLast(n, FALSE)
    <3>1. Head(s) \notin {"open"} \X Loaders
      BY <1>1, <1>2
    <3>2. In(n, <<"return">>) => In(s, <<"return">>)
      BY <1>5, <1>6, Ranks
    <3> QED
      BY <1>1, <1>2, <3>1, <3>2 DEF Local, ReturnsLast
  <2>4. /\ In(s, <<"check">>) => In(n, <<"check">>)
        /\ In(n, <<"done", "Context">>)
        /\ In(n, <<"hook">>) => In(s, <<"hook">>)
        /\ In(s, <<"done", "Api">>) <=> In(n, <<"done", "Api">>)
    BY <1>5, <1>6, Ranks
  <2>5. In(n, <<"done", "Api">>) => lib \/ ToCast(n)
    BY <1>1, <1>2, <1>5, <1>7, <2>4 DEF Local, AnswerCast
  <2>6. Head(s) # <<"get", "Api">>
    BY <1>1, <1>2
  <2> QED
    BY <1>1, <1>2, <1>5, <1>9, <2>1, <2>2, <2>3, <2>4, <2>5, <2>6, ReplaceLocal
<1>12. \A c \in Classes : In(s, <<"done", c>>) => In(n, <<"done", c>>)
  BY <1>5, <1>6
<1>13. \A c \in Classes : In(n, <<"done", c>>) =>
           In(s, <<"done", c>>) \/ ~HeldByOther(t, <<"done", c>>)
  BY <1>5, <1>6, Ranks
<1>14. UNCHANGED <<thrown, value, cls, loadingVars, contextVars, calls>>
  OBVIOUS
<1> QED
  BY <1>1, <1>2, <1>5, <1>8, <1>11, <1>12, <1>13, <1>14, QuietReplace

LEMMA GetStep ==
    ASSUME IInv, NEW t \in Threads, NEW c \in Classes, Get(t, c)
    PROVE  IInv'
<1> USE DEF Get
<1>1. /\ stack[t] \in Seq(Tasks) /\ stack[t] # <<>> /\ Shape(stack[t])
      /\ Local(stack[t], FALSE) /\ Head(stack[t]) = <<"get", c>>
      /\ ~thrown[t] /\ TypeOK
  BY CurrentFacts
<1>2. UNCHANGED <<value, cls, loadingVars, contextVars, calls>>
  OBVIOUS
<1>3. Has(t, <<"done", c>>) <=> In(stack[t], <<"done", c>>)
  BY DEF Has, In
<1>4. CASE cls[c] = "failed"
  <2>0. ~Has(t, <<"done", c>>)
    BY <1>1, <1>3, <1>4 DEF Local, Initialising
  <2>1. Throws(t)
    BY <1>4, <2>0
  <2>2. ASSUME In(stack[t], <<"answer">>)
        PROVE  \/ Doomed
               \/ In(stack[t], <<"done", "Api">>) \/ In(stack[t], <<"done", "Context">>)
    <3>1. CASE c = "Jni"
      <4>1. In(stack[t], <<"get", "Jni">>)
        BY <1>1, <3>1, UnderShape
      <4>2. Inner(<<"get", "Jni">>)
        BY Ranks DEF Inner
      <4> QED
        BY <1>1, <2>2, <4>1, <4>2, Under
    <3> QED
      BY <1>4, <3>1 DEF Classes, Doomed
  <2> QED
    BY <1>1, <1>2, <2>1, <2>2, QuietThrow
<1>5. CASE cls[c] # "failed" /\ (cls[c] = "done" \/ Has(t, <<"done", c>>))
  <2>1. Does(t, <<>>) /\ UNCHANGED thrown
    BY <1>5
  <2>2. PICK x : x = <<"get", c>>
    OBVIOUS
  <2>3. /\ x = <<"get", "Api">> =>
              cls["Api"] = "done" \/ In(stack[t], <<"done", "Api">>)
        /\ x = <<"get", "Context">> =>
              cls["Context"] = "done" \/ In(stack[t], <<"done", "Context">>)
    BY <1>3, <1>5, <2>2
  <2>4. /\ x # <<"check">> /\ x # <<"cast">> /\ x \notin {"open"} \X Loaders
        /\ \A k \in Classes : x # <<"done", k>>
    <3>1. x # <<"check">> /\ x # <<"cast">>
      BY <2>2 DEF Classes
    <3> QED
      BY <2>2, <3>1
  <2> QED
    BY <1>1, <1>2, <2>1, <2>2, <2>3, <2>4, QuietPop
<1>6. CASE cls[c] = "no" /\ ~Has(t, <<"done", c>>)
  <2>1. Does(t, Append(Initialiser(c), <<"done", c>>)) /\ UNCHANGED thrown
    BY <1>6
  <2>2. ~In(stack[t], <<"done", c>>) /\ ~HeldByOther(t, <<"done", c>>)
        /\ Current(t, <<"get", c>>) /\ cls[c] = "no"
    BY <1>3, <1>6
  <2>3. CASE c = "Api"
    BY <1>2, <2>1, <2>2, <2>3, Initialisers, GetApi
  <2>4. CASE c = "Jni"
    BY <1>2, <2>1, <2>2, <2>4, Initialisers, GetJni
  <2>5. CASE c = "Context"
    BY <1>2, <2>1, <2>2, <2>5, Initialisers, GetContext
  <2> QED
    BY <2>3, <2>4, <2>5 DEF Classes
<1>7. cls[c] \in {"no", "done", "failed"}
  BY <1>1 DEF TypeOK
<1> QED
  BY <1>4, <1>5, <1>6, <1>7

(* A loader is found, or there is none.                                    *)
LEMMA FindStep ==
    ASSUME IInv, NEW t \in Threads, Find(t)
    PROVE  IInv'
<1> USE DEF Find
<1>1. /\ stack[t] \in Seq(Tasks) /\ stack[t] # <<>> /\ Shape(stack[t])
      /\ Local(stack[t], FALSE) /\ Head(stack[t]) = <<"find">>
      /\ ~thrown[t] /\ TypeOK
  BY CurrentFacts
<1>2. UNCHANGED <<value, cls, loadingVars, contextVars, calls>>
  OBVIOUS
<1>3. Inner(<<"find">>)
  BY Ranks DEF Inner
<1>4. CASE jars = {}
  <2>1. In(stack[t], <<"find">>)
    BY <1>1, UnderShape
  <2>2. In(stack[t], <<"answer">>) => In(stack[t], <<"done", "Api">>)
    BY <1>1, <1>3, <2>1, Under
  <2> QED
    BY <1>1, <1>2, <1>4, <2>2, QuietThrow
<1>5. CASE jars # {}
  <2>1. PICK l \in Loaders : Does(t, <<<<"enter", l>>>>)
    BY <1>5 DEF Loaders
  <2>2. PICK s \in Seq(Tasks) : s = stack[t]
    BY <1>1
  <2>3. PICK r : r = Tail(s)
    OBVIOUS
  <2>4. s # <<>> /\ Shape(s) /\ Head(s) = <<"find">> /\ Local(s, FALSE)
    BY <1>1, <2>2
  <2>5. r \in Seq(Tasks) /\ \A y : In(s, y) <=> y = <<"find">> \/ In(r, y)
    BY <2>3, <2>4, UnderShape
  <2> DEFINE n == Cons(<<"enter", l>>, r)
  <2>6. /\ n \in Seq(Tasks) /\ Shape(n) /\ Head(n) = <<"enter", l>>
        /\ \A y : In(n, y) <=> y = <<"enter", l>> \/ In(r, y)
        /\ ToCast(r) => ToCast(n)
    BY <2>3, <2>4, FindShape
  <2>7. n = <<<<"enter", l>>>> \o r
    BY <2>5, Literals
  <2> HIDE DEF n
  <2>8. /\ stack' \in [Threads -> Seq(Tasks)] /\ stack'[t] = n
        /\ \A u \in Threads \ {t} : stack'[u] = stack[u]
    BY <1>1, <2>1, <2>2, <2>3, <2>7, LiteralTypes, NewStack
  <2>9. ToCast(s) => ToCast(r)
    <3>1. Head(s) # <<"cast">>
      BY <2>4
    <3> QED
      BY <2>3, <2>4, <3>1, ToCastTail
  <2>10. /\ \A c \in Classes : In(s, <<"done", c>>) <=> In(n, <<"done", c>>)
         /\ In(s, <<"answer">>) <=> In(n, <<"answer">>)
         /\ In(s, <<"check">>) <=> In(n, <<"check">>)
         /\ In(s, <<"get", "Context">>) <=> In(n, <<"get", "Context">>)
         /\ In(s, <<"create">>) <=> In(n, <<"create">>)
         /\ In(s, <<"hook">>) <=> In(n, <<"hook">>)
         /\ In(s, <<"return">>) <=> In(n, <<"return">>)
    BY <2>5, <2>6, Ranks
  <2>11. "Api" \in Classes /\ "Context" \in Classes
    BY DEF Classes
  <2>12. Local(n, FALSE)
    <3>1. ReturnsLast(n, FALSE)
      <4>1. Head(s) \notin {"open"} \X Loaders
        BY <2>4
      <4> QED
        BY <2>4, <2>10, <4>1 DEF Local, ReturnsLast
    <3>2. In(n, <<"done", "Api">>) => lib \/ ToCast(n)
      BY <2>4, <2>6, <2>9, <2>10, <2>11 DEF Local, AnswerCast
    <3>3. Head(s) # <<"get", "Api">>
      BY <2>4, Ranks
    <3> QED
      BY <2>4, <2>6, <2>10, <2>11, <3>1, <3>2, <3>3, ReplaceLocal
  <2>13. UNCHANGED <<thrown, value, cls, loadingVars, contextVars, calls>>
    BY <1>5
  <2> QED
    BY <1>1, <2>2, <2>6, <2>8, <2>10, <2>12, <2>13, QuietReplace
<1> QED
  BY <1>4, <1>5

LEMMA CastStep ==
    ASSUME IInv, NEW t \in Threads, Cast(t)
    PROVE  IInv'
<1> USE DEF Cast
<1>1. /\ stack[t] \in Seq(Tasks) /\ stack[t] # <<>> /\ Shape(stack[t])
      /\ Local(stack[t], FALSE) /\ Head(stack[t]) = <<"cast">>
      /\ ~thrown[t] /\ TypeOK
  BY CurrentFacts
<1>2. UNCHANGED <<value, cls, loadingVars, contextVars, calls>>
  OBVIOUS
<1>3. CASE value[t] = "null"
  <2>1. In(stack[t], <<"cast">>)
    BY <1>1, UnderShape
  <2>2. Inner(<<"cast">>)
    BY Ranks DEF Inner
  <2>3. In(stack[t], <<"answer">>) => In(stack[t], <<"done", "Api">>)
    BY <1>1, <2>1, <2>2, Under
  <2> QED
    BY <1>1, <1>2, <1>3, <2>3, QuietThrow
<1>4. CASE value[t] # "null"
  <2>1. Does(t, <<>>) /\ UNCHANGED thrown
    BY <1>4
  <2>2. lib
    BY <1>1, <1>4 DEF TypeOK, IInv, LibraryKnown
  <2>3. PICK x : x = <<"cast">>
    OBVIOUS
  <2>4. /\ x # <<"get", "Api">> /\ x # <<"get", "Context">> /\ x # <<"check">>
        /\ x \notin {"open"} \X Loaders /\ \A c \in Classes : x # <<"done", c>>
    BY <2>3, Ranks
  <2> QED
    BY <1>1, <1>2, <2>1, <2>2, <2>3, <2>4, QuietPop
<1> QED
  BY <1>3, <1>4

LEMMA LeaveStep ==
    ASSUME IInv, NEW t \in Threads, NEW l \in Loaders, Leave(t, l)
    PROVE  IInv'
<1> USE DEF Leave
<1>1. /\ stack[t] # <<>> /\ Head(stack[t]) = <<"leave", l>> /\ ~thrown[t]
  BY CurrentFacts
<1>2. PICK x : x = <<"leave", l>>
  OBVIOUS
<1>3. /\ x # <<"get", "Api">> /\ x # <<"get", "Context">> /\ x # <<"check">>
      /\ x # <<"cast">>
      /\ x \notin {"open"} \X Loaders /\ \A c \in Classes : x # <<"done", c>>
  BY <1>2, Ranks
<1>4. Does(t, <<>>) /\ UNCHANGED thrown
      /\ UNCHANGED <<value, cls, loadingVars, contextVars, calls>>
  OBVIOUS
<1> QED
  BY <1>1, <1>2, <1>3, <1>4, QuietPop

LEMMA NativeStep ==
    ASSUME IInv, NEW t \in Threads, Native(t)
    PROVE  IInv'
<1> USE DEF Native
<1>1. /\ stack[t] # <<>> /\ Head(stack[t]) = <<"native">> /\ ~thrown[t]
  BY CurrentFacts
<1>2. PICK x : x = <<"native">>
  OBVIOUS
<1>3. /\ x # <<"get", "Api">> /\ x # <<"get", "Context">> /\ x # <<"check">>
      /\ x # <<"cast">>
      /\ x \notin {"open"} \X Loaders /\ \A c \in Classes : x # <<"done", c>>
  BY <1>2, Ranks
<1>4. Does(t, <<>>) /\ UNCHANGED thrown
      /\ UNCHANGED <<value, cls, loadingVars, contextVars, calls>>
  OBVIOUS
<1> QED
  BY <1>1, <1>2, <1>3, <1>4, QuietPop

(* The context missed is missed for good.                                  *)
LEMMA CheckStep ==
    ASSUME IInv, NEW t \in Threads, Check(t)
    PROVE  IInv'
<1> USE DEF Check
<1>1. /\ stack[t] \in Seq(Tasks) /\ stack[t] # <<>> /\ Shape(stack[t])
      /\ Local(stack[t], FALSE) /\ Head(stack[t]) = <<"check">>
      /\ ~thrown[t] /\ TypeOK
  BY CurrentFacts
<1>2. UNCHANGED <<value, cls, loadingVars, contextVars, calls>>
  OBVIOUS
<1>3. CASE context = 0
  <2>1. Rank(<<"check">>) = 3 /\ Rank(<<"get", "Context">>) = 2
        /\ Rank(<<"done", "Context">>) = 2
    BY Ranks
  <2>0. 3 = Rank(Head(stack[t]))
    BY <1>1, <2>1
  <2>2. \A y : In(Tail(stack[t]), y) => 3 < Rank(y)
    BY <1>1, <2>0, UnderRanks
  <2>3. \A y : In(stack[t], y) <=> y = <<"check">> \/ In(Tail(stack[t]), y)
    BY <1>1, UnderShape
  <2>4. ~In(stack[t], <<"get", "Context">>) /\ ~In(stack[t], <<"done", "Context">>)
    BY <2>1, <2>2, <2>3
  <2>5. In(stack[t], <<"answer">>) => Doomed
    BY <1>1, <1>3, <2>4 DEF Local, ContextFirst, Doomed
  <2> QED
    BY <1>1, <1>2, <1>3, <2>5, QuietThrow
<1>4. CASE context # 0
  <2>1. Does(t, <<>>) /\ UNCHANGED thrown
    BY <1>4
  <2>2. PICK x : x = <<"check">>
    OBVIOUS
  <2>3. /\ x # <<"get", "Api">> /\ x # <<"get", "Context">> /\ x # <<"cast">>
        /\ x \notin {"open"} \X Loaders /\ \A c \in Classes : x # <<"done", c>>
    BY <2>2, Ranks
  <2> QED
    BY <1>1, <1>2, <1>4, <2>1, <2>2, <2>3, QuietPop
<1> QED
  BY <1>3, <1>4

(* A load() begins.                                                        *)
LEMMA EnterStep ==
    ASSUME IInv, NEW t \in Threads, NEW l \in Loaders, Enter(t, l)
    PROVE  IInv'
<1> USE DEF Enter
<1>1. /\ stack[t] \in Seq(Tasks) /\ stack[t] # <<>> /\ Shape(stack[t])
      /\ Local(stack[t], FALSE) /\ Head(stack[t]) = <<"enter", l>>
      /\ ~thrown[t] /\ TypeOK
  BY CurrentFacts
<1>2. PICK s \in Seq(Tasks) : s = stack[t]
  BY <1>1
<1>3. PICK r : r = Tail(s)
  OBVIOUS
<1>4. s # <<>> /\ Shape(s) /\ Head(s) = <<"enter", l>> /\ Local(s, FALSE)
  BY <1>1, <1>2
<1>5. r \in Seq(Tasks) /\ \A y : In(s, y) <=> y = <<"enter", l>> \/ In(r, y)
  BY <1>3, <1>4, UnderShape
<1> DEFINE n == Cons(<<"open", l>>,
                     Cons(<<"get", "Jni">>, Cons(<<"return">>, Cons(<<"leave", l>>, r))))
<1>6. /\ n \in Seq(Tasks) /\ Shape(n) /\ Head(n) = <<"open", l>>
      /\ \A y : In(n, y) <=>
            \/ y = <<"open", l>> \/ y = <<"get", "Jni">> \/ y = <<"return">>
            \/ y = <<"leave", l>> \/ In(r, y)
      /\ \A y : In(Tail(Tail(Tail(n))), y) => y = <<"leave", l>> \/ In(r, y)
      /\ ToCast(r) => ToCast(n)
  BY <1>3, <1>4, EnterShape
<1>7. n = <<<<"open", l>>, <<"get", "Jni">>, <<"return">>, <<"leave", l>>>> \o r
  BY <1>5, Literals
<1> HIDE DEF n
<1>8. /\ stack' \in [Threads -> Seq(Tasks)] /\ stack'[t] = n
      /\ \A u \in Threads \ {t} : stack'[u] = stack[u]
  BY <1>1, <1>2, <1>3, <1>7, LiteralTypes, NewStack
<1>9. ToCast(s) => ToCast(r)
  <2>1. Head(s) # <<"cast">>
    BY <1>4
  <2> QED
    BY <1>3, <1>4, <2>1, ToCastTail
<1>10. /\ \A c \in Classes : In(s, <<"done", c>>) <=> In(n, <<"done", c>>)
       /\ In(s, <<"answer">>) <=> In(n, <<"answer">>)
       /\ In(s, <<"check">>) <=> In(n, <<"check">>)
       /\ In(s, <<"get", "Context">>) <=> In(n, <<"get", "Context">>)
       /\ In(s, <<"create">>) <=> In(n, <<"create">>)
       /\ In(s, <<"hook">>) <=> In(n, <<"hook">>)
  BY <1>5, <1>6, Ranks
<1>11. "Api" \in Classes /\ "Context" \in Classes
  BY DEF Classes
<1>12. Local(n, FALSE)
  <2>1. ReturnsLast(n, FALSE)
    <3>1. Head(s) \notin {"open"} \X Loaders /\ <<"return">> # <<"leave", l>>
      BY <1>4
    <3>2. In(r, <<"return">>) => lib
      BY <1>4, <1>5, <3>1 DEF Local, ReturnsLast
    <3>3. Head(n) \in {"open"} \X Loaders
      BY <1>6
    <3> QED
      BY <1>6, <3>1, <3>2, <3>3 DEF ReturnsLast
  <2>2. In(n, <<"done", "Api">>) => lib \/ ToCast(n)
    BY <1>4, <1>6, <1>9, <1>10, <1>11 DEF Local, AnswerCast
  <2>3. Head(s) # <<"get", "Api">>
    BY <1>4
  <2> QED
    BY <1>4, <1>6, <1>10, <1>11, <2>1, <2>2, <2>3, ReplaceLocal
<1>13. UNCHANGED <<thrown, value, cls, loadingVars, contextVars, calls>>
  OBVIOUS
<1> QED
  BY <1>1, <1>2, <1>6, <1>8, <1>10, <1>12, <1>13, QuietReplace

(* A task carried out that has an effect outside of the thread.            *)
LEMMA LoudPop ==
    ASSUME IInv, NEW t \in Threads, stack[t] # <<>>, ~thrown[t],
           Does(t, <<>>), UNCHANGED thrown, NEW x, x = Head(stack[t]),
           jars' \subseteq Loaders, value' \in [Threads -> {"null", "Secp256k1Jni"}],
           cls' \in [Classes -> {"no", "done", "failed"}],
           lib' \in BOOLEAN, extracted' \in BOOLEAN, calls' \in [Threads -> Outcomes],
           lib => lib', LibraryKnown', UNCHANGED contextVars,
           \A u \in Threads : calls'[u] = calls[u] \/ (calls'[u] = "ok" /\ Succeeded),
           \A c \in Classes : cls'[c] = cls[c] \/ (x = <<"done", c>> /\ cls'[c] = "done"),
           \A c \in Classes : x = <<"done", c>> => cls'[c] = "done",
           x # <<"get", "Api">>, x # <<"get", "Context">>, x # <<"check">>, x # <<"cast">>,
           x \in {"open"} \X Loaders => lib'
    PROVE  IInv'
<1>1. TypeOK
  BY DEF IInv
<1>2. PICK s \in Seq(Tasks) : s = stack[t]
  BY <1>1 DEF TypeOK
<1>3. PICK r \in Seq(Tasks) : r = Tail(s)
  <2>1. Tail(s) \in Seq(Tasks)
    BY <1>2, TailFacts
  <2> QED
    BY <2>1
<1>4. s # <<>> /\ Local(s, FALSE) /\ x = Head(s)
  <2>1. thrown[t] = FALSE
    BY <1>1 DEF TypeOK
  <2> QED
    BY <1>2, <2>1 DEF IInv
<1>5. stack' \in [Threads -> Seq(Tasks)] /\ stack'[t] = r
      /\ \A u \in Threads \ {t} : stack'[u] = stack[u]
  BY <1>1, <1>2, <1>3, NewStackPop
<1>6. \A y : In(s, y) <=> y = x \/ In(r, y)
  BY <1>3, <1>4, UnderShape DEF Local
<1>7. "Api" \in Classes /\ "Context" \in Classes
  BY DEF Classes
<1>8. made' = made /\ context' = context /\ hooked' = hooked
  BY DEF contextVars
<1>9. Local(r, FALSE)'
  BY <1>2, <1>3, <1>4, <1>7, <1>8, PopLocal
<1>10. thrown' \in [Threads -> BOOLEAN] /\ thrown'[t] = FALSE
       /\ \A u \in Threads \ {t} : thrown'[u] = thrown[u]
  BY <1>1 DEF TypeOK
<1>11. TypeOK'
  BY <1>1, <1>5, <1>8, <1>10 DEF TypeOK
<1>12. \A c \in Classes : cls'[c] = cls[c] \/ In(s, <<"done", c>>)
  BY <1>6
<1>13. \A c \in Classes : cls[c] # "no" => cls'[c] = cls[c]
  BY <1>4, <1>12 DEF Local, Initialising
<1>14. Decided'
  <2>1. (Succeeded => Succeeded') /\ (Doomed => Doomed')
    BY <1>7, <1>8, <1>13 DEF Succeeded, Doomed
  <2> QED
    BY <2>1 DEF IInv, Decided
<1>15. OneContext'
  <2>1. ASSUME cls'["Context"] = "no", \A u \in Threads : ~In(stack'[u], <<"done", "Context">>)
        PROVE  made = 0 /\ context = 0
    <3>1. cls["Context"] = "no"
      BY <1>1, <1>7, <1>13, <2>1 DEF TypeOK
    <3>2. ~In(s, <<"done", "Context">>)
      BY <1>5, <1>6, <1>7, <2>1
    <3>3. \A u \in Threads : ~In(stack[u], <<"done", "Context">>)
      BY <1>2, <1>5, <2>1, <3>2
    <3> QED
      BY <3>1, <3>3 DEF IInv, OneContext
  <2> QED
    BY <1>8, <2>1 DEF IInv, OneContext
<1>16. \A c \in Classes : In(r, <<"done", c>>) => In(stack[t], <<"done", c>>)
  BY <1>2, <1>6
<1>17. \A c \in Classes : cls'[c] = cls[c] \/ In(stack[t], <<"done", c>>)
  BY <1>2, <1>12
<1>18. FALSE \in BOOLEAN
  OBVIOUS
<1> QED
  BY <1>5, <1>8, <1>9, <1>10, <1>11, <1>14, <1>15, <1>16, <1>17, <1>18, Frame, ZenonT(60)

LEMMA DoneStep ==
    ASSUME IInv, NEW t \in Threads, NEW c \in Classes, Done(t, c)
    PROVE  IInv'
<1> USE DEF Done
<1>1. /\ stack[t] \in Seq(Tasks) /\ stack[t] # <<>> /\ Shape(stack[t])
      /\ Local(stack[t], FALSE) /\ Head(stack[t]) = <<"done", c>>
      /\ ~thrown[t] /\ TypeOK
  BY CurrentFacts
<1>2. PICK x : x = <<"done", c>>
  OBVIOUS
<1>3. /\ x # <<"get", "Api">> /\ x # <<"get", "Context">> /\ x # <<"check">>
      /\ x # <<"cast">> /\ x \notin {"open"} \X Loaders
      /\ \A k \in Classes : x = <<"done", k>> <=> k = c
  BY <1>2
<1>4. cls' = [cls EXCEPT ![c] = "done"] /\ cls' \in [Classes -> {"no", "done", "failed"}]
  BY <1>1 DEF TypeOK
<1>5. \A k \in Classes : /\ cls'[k] = cls[k] \/ (x = <<"done", k>> /\ cls'[k] = "done")
                         /\ x = <<"done", k>> => cls'[k] = "done"
  BY <1>1, <1>3, <1>4 DEF TypeOK
<1>6. c = "Api" => lib
  <2> SUFFICES ASSUME c = "Api", ~lib PROVE FALSE
    OBVIOUS
  <2>1. In(stack[t], <<"done", "Api">>)
    BY <1>1, UnderShape
  <2>2. ToCast(stack[t])
    BY <1>1, <2>1 DEF Local, AnswerCast
  <2>3. ToCast(Tail(stack[t]))
    <3>1. Head(stack[t]) # <<"cast">>
      BY <1>1
    <3> QED
      BY <1>1, <2>2, <3>1, ToCastTail
  <2>4. In(Tail(stack[t]), <<"done", "Api">>)
    BY <2>3 DEF ToCast, In
  <2> QED
    BY <1>1, <2>4, UnderShape
<1>7. LibraryKnown'
  <2>1. cls'["Api"] = "done" => cls["Api"] = "done" \/ c = "Api"
    BY <1>3, <1>5 DEF Classes
  <2> QED
    BY <1>6, <2>1 DEF IInv, LibraryKnown, loadingVars
<1>8. /\ jars' \subseteq Loaders /\ value' \in [Threads -> {"null", "Secp256k1Jni"}]
      /\ lib' \in BOOLEAN /\ extracted' \in BOOLEAN /\ calls' \in [Threads -> Outcomes]
      /\ lib => lib' /\ UNCHANGED contextVars
      /\ \A u \in Threads : calls'[u] = calls[u]
  BY <1>1 DEF TypeOK, loadingVars
<1>9. Does(t, <<>>) /\ UNCHANGED thrown
  OBVIOUS
<1> QED
  BY <1>1, <1>2, <1>3, <1>4, <1>5, <1>7, <1>8, <1>9, LoudPop

(* An exception out of the opening of the library ends the initialiser of  *)
(* the companion, if this is a call of the API.                            *)
LEMMA OpenThrows ==
    ASSUME IInv, NEW t \in Threads, NEW l \in Loaders, Current(t, <<"open", l>>)
    PROVE  In(stack[t], <<"answer">>) => In(stack[t], <<"done", "Api">>)
<1>1. /\ stack[t] \in Seq(Tasks) /\ stack[t] # <<>> /\ Shape(stack[t])
      /\ Head(stack[t]) = <<"open", l>>
  BY CurrentFacts
<1>2. In(stack[t], <<"open", l>>)
  BY <1>1, UnderShape
<1>3. Inner(<<"open", l>>)
  BY Ranks DEF Inner
<1> QED
  BY <1>1, <1>2, <1>3, Under

LEMMA OpenJvmStep ==
    ASSUME IInv, NEW t \in Threads, OpenJvm(t)
    PROVE  IInv'
<1> USE DEF OpenJvm
<1>j. "jvm" \in Loaders
  BY DEF Loaders
<1>1. /\ stack[t] \in Seq(Tasks) /\ stack[t] # <<>> /\ Shape(stack[t])
      /\ Head(stack[t]) = <<"open", "jvm">> /\ ~thrown[t] /\ TypeOK
  BY CurrentFacts
<1>2. PICK x : x = <<"open", "jvm">>
  OBVIOUS
<1>3. /\ x # <<"get", "Api">> /\ x # <<"get", "Context">> /\ x # <<"check">>
      /\ x # <<"cast">> /\ \A k \in Classes : x # <<"done", k>>
  BY <1>2, <1>j, Ranks
<1>4. CASE extracted /\ Does(t, <<>>) /\ UNCHANGED <<thrown, lib, extracted>>
  <2>1. lib
    BY <1>4 DEF IInv, LibraryKnown
  <2>2. UNCHANGED <<value, cls, loadingVars, contextVars, calls>> /\ UNCHANGED thrown
    BY <1>4 DEF loadingVars
  <2> QED
    BY <1>1, <1>2, <1>3, <1>4, <2>1, <2>2, QuietPop
<1>5. CASE ~extracted /\ lib' = TRUE /\ extracted' = TRUE /\ Does(t, <<>>) /\ UNCHANGED thrown
  <2>1. /\ jars' \subseteq Loaders /\ value' \in [Threads -> {"null", "Secp256k1Jni"}]
        /\ cls' \in [Classes -> {"no", "done", "failed"}]
        /\ lib' \in BOOLEAN /\ extracted' \in BOOLEAN /\ calls' \in [Threads -> Outcomes]
        /\ lib' /\ UNCHANGED contextVars
        /\ \A u \in Threads : calls'[u] = calls[u]
        /\ \A c \in Classes : cls'[c] = cls[c]
    BY <1>1, <1>5 DEF TypeOK
  <2>2. LibraryKnown'
    BY <1>5 DEF LibraryKnown
  <2> QED
    BY <1>1, <1>2, <1>3, <1>5, <2>1, <2>2, LoudPop
<1>6. CASE ~extracted /\ Throws(t) /\ UNCHANGED <<lib, extracted>>
  <2>1. In(stack[t], <<"answer">>) => In(stack[t], <<"done", "Api">>)
    BY <1>j, OpenThrows
  <2>2. UNCHANGED <<value, cls, loadingVars, contextVars, calls>>
    BY <1>6 DEF loadingVars
  <2> QED
    BY <1>1, <1>6, <2>1, <2>2, QuietThrow
<1> QED
  BY <1>4, <1>5, <1>6

(* The JVM loader asked in the place of the Android one.                   *)
LEMMA Drop3 ==
    ASSUME NEW s \in Seq(Tasks), Len(s) >= 3
    PROVE  /\ SubSeq(s, 4, Len(s)) = Tail(Tail(Tail(s)))
           /\ Tail(s) # <<>> /\ Tail(Tail(s)) # <<>>
           /\ Head(Tail(s)) = s[2] /\ Head(Tail(Tail(s))) = s[3]
<1> DEFINE a == Tail(s)  b == Tail(a)
<1>1. /\ Len(s) \in 1..Len(s) /\ Len(s) \in 2..Len(s) /\ Len(s) \in 3..Len(s)
      /\ 2 \in 1..Len(s) /\ 3 \in 1..Len(s) /\ s # <<>> /\ Len(s) \in Nat
  OBVIOUS
<1>2. a = SubSeq(s, 2, Len(s))
  BY <1>1, TailIsSubSeq
<1>3. Head(a) = s[2] /\ b = SubSeq(s, 2 + 1, Len(s))
  BY <1>1, <1>2, HeadTailOfSubSeq
<1>4. Head(SubSeq(s, 3, Len(s))) = s[3]
      /\ Tail(SubSeq(s, 3, Len(s))) = SubSeq(s, 3 + 1, Len(s))
  BY <1>1, HeadTailOfSubSeq
<1>5. 2 + 1 = 3 /\ 3 + 1 = 4
  OBVIOUS
<1>6. a \in Seq(Tasks) /\ Len(a) = Len(s) - 1
  BY <1>1, TailFacts
<1> HIDE DEF a
<1>7. a # <<>>
  BY <1>1, <1>6
<1>8. b \in Seq(Tasks) /\ Len(b) = Len(a) - 1
  BY <1>6, <1>7, TailFacts
<1> HIDE DEF b
<1>9. b # <<>>
  BY <1>1, <1>6, <1>8
<1> QED
  BY <1>3, <1>4, <1>5, <1>7, <1>9 DEF a, b

LEMMA FallBack ==
    ASSUME IInv, NEW t \in Threads, Current(t, <<"open", "android">>), UNCHANGED thrown,
           stack' = [stack EXCEPT ![t] =
                        <<<<"enter", "jvm">>, <<"cast">>>> \o SubSeq(@, 4, Len(@))],
           UNCHANGED <<value, cls, loadingVars, contextVars, calls>>
    PROVE  IInv'
<1>j. "jvm" \in Loaders /\ "android" \in Loaders /\ "Api" \in Classes /\ "Context" \in Classes
  BY DEF Loaders, Classes
<1>1. /\ stack[t] \in Seq(Tasks) /\ stack[t] # <<>> /\ Shape(stack[t])
      /\ Local(stack[t], FALSE) /\ Head(stack[t]) = <<"open", "android">>
      /\ ~thrown[t] /\ TypeOK
  BY CurrentFacts
<1>2. PICK s \in Seq(Tasks) : s = stack[t]
  BY <1>1
<1>3. s # <<>> /\ Shape(s) /\ Head(s) = <<"open", "android">> /\ Local(s, FALSE)
  BY <1>1, <1>2
<1>4. Len(s) >= 3 /\ s[2] = <<"get", "Jni">> /\ s[3] = <<"return">>
  BY <1>3, <1>j DEF Shape, OpensLoader
<1>5. PICK a : a = Tail(s)
  OBVIOUS
<1>6. PICK b : b = Tail(a)
  OBVIOUS
<1>7. PICK r : r = Tail(b)
  OBVIOUS
<1>8. /\ SubSeq(s, 4, Len(s)) = r /\ a # <<>> /\ b # <<>>
      /\ Head(a) = <<"get", "Jni">> /\ Head(b) = <<"return">>
  BY <1>4, <1>5, <1>6, <1>7, Drop3
<1>9. /\ Inner(<<"open", "android">>) /\ Inner(<<"get", "Jni">>) /\ Inner(<<"return">>)
      /\ Inner(<<"cast">>) /\ Inner(<<"enter", "jvm">>)
  BY <1>j, Ranks DEF Inner
<1>10. Base(a) /\ \A y : In(s, y) <=> y = <<"open", "android">> \/ In(a, y)
  BY <1>3, <1>5, <1>9, UnderInner, UnderShape
<1>11. Base(b) /\ \A y : In(a, y) <=> y = <<"get", "Jni">> \/ In(b, y)
  <2>1. a \in Seq(Tasks) /\ Shape(a)
    BY <1>10 DEF Base
  <2> QED
    BY <1>6, <1>8, <1>9, <2>1, UnderInner, UnderShape
<1>12. Base(r) /\ \A y : In(b, y) <=> y = <<"return">> \/ In(r, y)
  <2>1. b \in Seq(Tasks) /\ Shape(b)
    BY <1>11 DEF Base
  <2> QED
    BY <1>7, <1>8, <1>9, <2>1, UnderInner, UnderShape
<1>13. ToCast(s) => ToCast(r)
  <2>1. /\ <<"open", "android">> # <<"cast">> /\ <<"get", "Jni">> # <<"cast">>
        /\ <<"return">> # <<"cast">>
    OBVIOUS
  <2>2. ToCast(s) => ToCast(a)
    BY <1>3, <1>5, <2>1, ToCastTail
  <2>3. ToCast(a) => ToCast(b)
    <3>1. a \in Seq(Tasks)
      BY <1>10 DEF Base
    <3> QED
      BY <1>6, <1>8, <2>1, <3>1, ToCastTail
  <2>4. ToCast(b) => ToCast(r)
    <3>1. b \in Seq(Tasks)
      BY <1>11 DEF Base
    <3> QED
      BY <1>7, <1>8, <2>1, <3>1, ToCastTail
  <2> QED
    BY <2>2, <2>3, <2>4
<1>t. <<"cast">> \in Tasks /\ <<"enter", "jvm">> \in Tasks
  BY <1>j, TaskTypes
<1>14. /\ <<"cast">> \notin FirstOnly /\ <<"enter", "jvm">> \notin FirstOnly
       /\ \A c \in Classes : <<"cast">> # <<"done", c>> /\ <<"enter", "jvm">> # <<"done", c>>
  BY DEF FirstOnly
<1> DEFINE m == Cons(<<"cast">>, r)
           n == Cons(<<"enter", "jvm">>, m)
<1>15. /\ Base(m) /\ (\A y : In(m, y) <=> y = <<"cast">> \/ In(r, y))
       /\ ToCast(r) => ToCast(m)
  BY <1>9, <1>12, <1>14, <1>t, PushInner
<1> HIDE DEF m
<1>16. /\ Base(n) /\ Head(n) = <<"enter", "jvm">>
       /\ \A y : In(n, y) <=> y = <<"enter", "jvm">> \/ In(m, y)
       /\ ToCast(m) => ToCast(n)
  BY <1>9, <1>14, <1>15, <1>t, PushInner
<1> HIDE DEF n
<1>17. n \in Seq(Tasks) /\ Shape(n) /\ r \in Seq(Tasks)
  BY <1>12, <1>16 DEF Base
<1>18. <<<<"enter", "jvm">>, <<"cast">>>> \o r = n
  BY <1>17, <1>j, Literals DEF n, m
<1>19. /\ stack' \in [Threads -> Seq(Tasks)] /\ stack'[t] = n
       /\ \A u \in Threads \ {t} : stack'[u] = stack[u]
  <2>1. stack' = [stack EXCEPT ![t] = n]
    BY <1>1, <1>2, <1>8, <1>18
  <2> QED
    BY <1>1, <1>17, <2>1 DEF TypeOK
<1>20. /\ \A c \in Classes : In(s, <<"done", c>>) <=> In(n, <<"done", c>>)
       /\ In(s, <<"answer">>) <=> In(n, <<"answer">>)
       /\ In(s, <<"check">>) <=> In(n, <<"check">>)
       /\ In(s, <<"get", "Context">>) <=> In(n, <<"get", "Context">>)
       /\ In(s, <<"create">>) <=> In(n, <<"create">>)
       /\ In(s, <<"hook">>) <=> In(n, <<"hook">>)
       /\ In(n, <<"return">>) => In(r, <<"return">>)
  BY <1>10, <1>11, <1>12, <1>15, <1>16, <1>j, Ranks
<1>21. Local(n, FALSE)
  <2>1. ReturnsLast(n, FALSE)
    <3>1. In(r, <<"return">>) => lib
      <4>1. In(s, <<"return">>) => lib \/ ~In(Tail(Tail(Tail(s))), <<"return">>)
        BY <1>3 DEF Local, ReturnsLast
      <4>2. In(r, <<"return">>) => In(s, <<"return">>)
        BY <1>10, <1>11, <1>12
      <4> QED
        BY <1>5, <1>6, <1>7, <4>1, <4>2
    <3> QED
      BY <1>20, <3>1 DEF ReturnsLast
  <2>2. In(n, <<"done", "Api">>) => lib \/ ToCast(n)
    BY <1>3, <1>13, <1>15, <1>16, <1>20, <1>j DEF Local, AnswerCast
  <2>3. Head(s) # <<"get", "Api">>
    BY <1>3
  <2> QED
    BY <1>3, <1>17, <1>20, <1>j, <2>1, <2>2, <2>3, ReplaceLocal
<1>22. UNCHANGED <<thrown, value, cls, loadingVars, contextVars, calls>>
  OBVIOUS
<1> QED
  BY <1>1, <1>2, <1>17, <1>19, <1>20, <1>21, <1>22, QuietReplace

LEMMA OpenAndroidStep ==
    ASSUME IInv, NEW t \in Threads, OpenAndroid(t)
    PROVE  IInv'
<1> USE DEF OpenAndroid
<1>j. "android" \in Loaders
  BY DEF Loaders
<1>1. /\ stack[t] \in Seq(Tasks) /\ stack[t] # <<>> /\ Shape(stack[t])
      /\ Head(stack[t]) = <<"open", "android">> /\ ~thrown[t] /\ TypeOK
  BY CurrentFacts
<1>2. PICK x : x = <<"open", "android">>
  OBVIOUS
<1>3. /\ x # <<"get", "Api">> /\ x # <<"get", "Context">> /\ x # <<"check">>
      /\ x # <<"cast">> /\ \A k \in Classes : x # <<"done", k>>
  BY <1>2, <1>j, Ranks
<1>4. UNCHANGED <<jars, extracted, value, cls, contextVars, calls>>
  OBVIOUS
<1>5. CASE lib' = TRUE /\ Does(t, <<>>) /\ UNCHANGED thrown
  <2>1. /\ jars' \subseteq Loaders /\ value' \in [Threads -> {"null", "Secp256k1Jni"}]
        /\ cls' \in [Classes -> {"no", "done", "failed"}]
        /\ lib' \in BOOLEAN /\ extracted' \in BOOLEAN /\ calls' \in [Threads -> Outcomes]
        /\ lib' /\ UNCHANGED contextVars
        /\ \A u \in Threads : calls'[u] = calls[u]
        /\ \A c \in Classes : cls'[c] = cls[c]
    BY <1>1, <1>4, <1>5 DEF TypeOK
  <2>2. LibraryKnown'
    BY <1>5 DEF LibraryKnown
  <2> QED
    BY <1>1, <1>2, <1>3, <1>5, <2>1, <2>2, LoudPop
<1>6. CASE /\ stack' = [stack EXCEPT ![t] =
                 <<<<"enter", "jvm">>, <<"cast">>>> \o SubSeq(@, 4, Len(@))]
           /\ UNCHANGED <<lib, thrown>>
  <2>1. UNCHANGED <<value, cls, loadingVars, contextVars, calls>> /\ UNCHANGED thrown
    BY <1>4, <1>6 DEF loadingVars
  <2> QED
    BY <1>6, <2>1, FallBack
<1>7. CASE Throws(t) /\ UNCHANGED lib
  <2>1. In(stack[t], <<"answer">>) => In(stack[t], <<"done", "Api">>)
    BY <1>j, OpenThrows
  <2>2. UNCHANGED <<value, cls, loadingVars, contextVars, calls>>
    BY <1>4, <1>7 DEF loadingVars
  <2> QED
    BY <1>1, <1>7, <2>1, <2>2, QuietThrow
<1> QED
  BY <1>5, <1>6, <1>7

(* A loader returns with the library loaded.                               *)
LEMMA ReturnStep ==
    ASSUME IInv, NEW t \in Threads, Return(t)
    PROVE  IInv'
<1> USE DEF Return
<1>1. /\ stack[t] \in Seq(Tasks) /\ stack[t] # <<>> /\ Shape(stack[t])
      /\ Local(stack[t], FALSE) /\ Head(stack[t]) = <<"return">> /\ ~thrown[t] /\ TypeOK
  BY CurrentFacts
<1>2. PICK x : x = <<"return">>
  OBVIOUS
<1>3. /\ x # <<"get", "Api">> /\ x # <<"get", "Context">> /\ x # <<"check">>
      /\ x # <<"cast">> /\ x \notin {"open"} \X Loaders /\ \A k \in Classes : x # <<"done", k>>
  BY <1>2, Ranks
<1>4. lib
  <2>1. In(stack[t], <<"return">>)
    BY <1>1, UnderShape
  <2>2. Head(stack[t]) \notin {"open"} \X Loaders
    BY <1>1
  <2> QED
    BY <1>1, <2>1, <2>2 DEF Local, ReturnsLast
<1>5. Does(t, <<>>) /\ UNCHANGED thrown /\ lib'
  BY <1>4 DEF loadingVars
<1>6. /\ jars' \subseteq Loaders /\ value' \in [Threads -> {"null", "Secp256k1Jni"}]
      /\ cls' \in [Classes -> {"no", "done", "failed"}]
      /\ lib' \in BOOLEAN /\ extracted' \in BOOLEAN /\ calls' \in [Threads -> Outcomes]
      /\ UNCHANGED contextVars
      /\ \A u \in Threads : calls'[u] = calls[u]
      /\ \A c \in Classes : cls'[c] = cls[c]
  BY <1>1 DEF TypeOK, loadingVars
<1>7. LibraryKnown'
  BY <1>5 DEF LibraryKnown
<1> QED
  BY <1>1, <1>2, <1>3, <1>5, <1>6, <1>7, LoudPop

(* A call that has nothing left to do has found everything in place.       *)
LEMMA AnswerStep ==
    ASSUME IInv, NEW t \in Threads, Answer(t)
    PROVE  IInv'
<1> USE DEF Answer
<1>1. /\ stack[t] \in Seq(Tasks) /\ stack[t] # <<>> /\ Shape(stack[t])
      /\ Local(stack[t], FALSE) /\ Head(stack[t]) = <<"answer">> /\ ~thrown[t] /\ TypeOK
  BY CurrentFacts
<1>2. PICK x : x = <<"answer">>
  OBVIOUS
<1>3. /\ x # <<"get", "Api">> /\ x # <<"get", "Context">> /\ x # <<"check">>
      /\ x # <<"cast">> /\ x \notin {"open"} \X Loaders /\ \A k \in Classes : x # <<"done", k>>
  BY <1>2, Ranks
<1>4. /\ ~In(stack[t], <<"done", "Api">>) /\ ~In(stack[t], <<"done", "Context">>)
      /\ ~In(stack[t], <<"get", "Context">>) /\ ~In(stack[t], <<"check">>)
  <2>1. /\ Rank(<<"answer">>) = 5 /\ Rank(<<"done", "Api">>) = 0
        /\ Rank(<<"done", "Context">>) = 2 /\ Rank(<<"get", "Context">>) = 2
        /\ Rank(<<"check">>) = 3
    BY Ranks
  <2>2. 5 = Rank(Head(stack[t]))
    BY <1>1, <2>1
  <2>3. \A y : In(Tail(stack[t]), y) => 5 < Rank(y)
    BY <1>1, <2>2, UnderRanks
  <2>4. \A y : In(stack[t], y) <=> y = <<"answer">> \/ In(Tail(stack[t]), y)
    BY <1>1, UnderShape
  <2> QED
    BY <2>1, <2>3, <2>4
<1>5. Succeeded
  <2>1. In(stack[t], <<"answer">>)
    BY <1>1, UnderShape
  <2>2. Head(stack[t]) # <<"get", "Api">>
    BY <1>1
  <2> QED
    BY <1>1, <1>4, <2>1, <2>2 DEF Local, ApiFirst, ContextFirst, Succeeded
<1>6. calls' = [calls EXCEPT ![t] = "ok"] /\ calls \in [Threads -> Outcomes]
  BY <1>1 DEF TypeOK
<1>7. calls' \in [Threads -> Outcomes]
      /\ \A u \in Threads : calls'[u] = calls[u] \/ (calls'[u] = "ok" /\ Succeeded)
  BY <1>5, <1>6 DEF Outcomes
<1>8. Does(t, <<>>) /\ UNCHANGED thrown /\ lib' = lib
  BY DEF loadingVars
<1>9. /\ jars' \subseteq Loaders /\ value' \in [Threads -> {"null", "Secp256k1Jni"}]
      /\ cls' \in [Classes -> {"no", "done", "failed"}]
      /\ lib' \in BOOLEAN /\ extracted' \in BOOLEAN
      /\ UNCHANGED contextVars
      /\ \A c \in Classes : cls'[c] = cls[c]
  BY <1>1 DEF TypeOK, loadingVars
<1>10. LibraryKnown'
  BY DEF LibraryKnown, IInv, loadingVars
<1> QED
  BY <1>1, <1>2, <1>3, <1>7, <1>8, <1>9, <1>10, LoudPop

-----------------------------------------------------------------------------
(* The context is created, and kept.                                       *)

LEMMA HookShape ==
    ASSUME NEW s \in Seq(Tasks), s # <<>>, Shape(s), Head(s) = <<"create">>,
           NEW r, r = Tail(s)
    PROVE  LET n == Cons(<<"hook">>, r) IN
           /\ n \in Seq(Tasks) /\ Shape(n) /\ ~In(n, <<"create">>)
           /\ \A y : In(n, y) <=> y = <<"hook">> \/ In(r, y)
           /\ ToCast(r) => ToCast(n)
           /\ In(r, <<"done", "Context">>)
<1>1. PICK x : x = <<"create">>
  OBVIOUS
<1>c. x = Head(s)
  BY <1>1
<1>2. Rank(x) = 1 /\ x # <<"check">> /\ x # <<"answer">>
  BY <1>1, Ranks
<1>3. /\ r \in Seq(Tasks) /\ Shape(r)
      /\ \A y \in FirstOnly : ~In(r, y)
      /\ Rank(x) > 0 => \A y : In(r, y) => Rank(x) < Rank(y)
      /\ r # <<>> /\ Head(r) = <<"native">> => x = <<"check">>
      /\ Rank(x) > 0 /\ x # <<"answer">> => In(r, <<"answer">>)
      /\ x \in {<<"create">>, <<"hook">>} => In(r, <<"done", "Context">>)
  BY <1>c, Under
<1>4. PICK h : h = <<"hook">>
  OBVIOUS
<1>5. h \in Tasks /\ Rank(h) = 1 /\ h # <<"answer">> /\ h \notin {"open"} \X Loaders
      /\ (\A c \in Classes : h # <<"done", c>>) /\ h # <<"done", "Api">> /\ ~Inner(h)
  BY <1>4, Ranks, TaskTypes DEF Inner
<1>6. \A y : In(r, y) => 1 < Rank(y)
  BY <1>2, <1>3
<1>7. In(r, <<"answer">>) /\ In(r, <<"done", "Context">>)
  BY <1>1, <1>2, <1>3
<1>8. r # <<>> => Head(r) # <<"native">>
  BY <1>2, <1>3
<1>9. Fits(h, r)
  BY <1>3, <1>5, <1>6, <1>7, <1>8 DEF Fits
<1> DEFINE n == Cons(h, r)
<1>10. /\ n \in Seq(Tasks) /\ Shape(n) /\ \A y : In(n, y) <=> y = h \/ In(r, y)
       /\ ToCast(r) => ToCast(n)
  BY <1>3, <1>5, <1>9, Push
<1> HIDE DEF n
<1>11. ~In(n, <<"create">>)
  <2>1. Rank(<<"create">>) = 1 /\ h # <<"create">>
    BY <1>4, Ranks
  <2> QED
    BY <1>6, <1>10, <2>1
<1> QED
  BY <1>4, <1>7, <1>10, <1>11 DEF n

LEMMA Created ==
    ASSUME IInv, NEW t \in Threads, Current(t, <<"create">>), UNCHANGED thrown,
           made' = IF made = 2 THEN 2 ELSE made + 1, Does(t, <<<<"hook">>>>),
           UNCHANGED <<value, cls, loadingVars, context, hooked, calls>>
    PROVE  IInv'
<1>1. /\ stack[t] \in Seq(Tasks) /\ stack[t] # <<>> /\ Shape(stack[t])
      /\ Local(stack[t], FALSE) /\ Head(stack[t]) = <<"create">> /\ ~thrown[t] /\ TypeOK
  BY CurrentFacts
<1>2. PICK s \in Seq(Tasks) : s = stack[t]
  BY <1>1
<1>3. PICK r : r = Tail(s)
  OBVIOUS
<1>4. s # <<>> /\ Shape(s) /\ Head(s) = <<"create">> /\ Local(s, FALSE)
  BY <1>1, <1>2
<1>5. r \in Seq(Tasks) /\ \A y : In(s, y) <=> y = <<"create">> \/ In(r, y)
  BY <1>3, <1>4, UnderShape
<1> DEFINE n == Cons(<<"hook">>, r)
<1>6. /\ n \in Seq(Tasks) /\ Shape(n) /\ ~In(n, <<"create">>)
      /\ \A y : In(n, y) <=> y = <<"hook">> \/ In(r, y)
      /\ ToCast(r) => ToCast(n)
      /\ In(r, <<"done", "Context">>)
  BY <1>3, <1>4, HookShape
<1>a. "android" \in Loaders
  BY DEF Loaders
<1>7. <<<<"hook">>>> \o r = n
  BY <1>5, <1>a, Literals
<1> HIDE DEF n
<1>8. /\ stack' \in [Threads -> Seq(Tasks)] /\ stack'[t] = n
      /\ \A u \in Threads \ {t} : stack'[u] = stack[u]
  BY <1>1, <1>2, <1>3, <1>7, <1>a, LiteralTypes, NewStack
<1>9. made = 0 /\ context = 0
  BY <1>4, <1>5 DEF Local, ContextFresh
<1>10. made' = 1 /\ context' = 0
  BY <1>9
<1>11. ToCast(s) => ToCast(r)
  <2>1. Head(s) # <<"cast">>
    BY <1>4
  <2> QED
    BY <1>3, <1>4, <2>1, ToCastTail
<1>12. "Api" \in Classes /\ "Context" \in Classes
  BY DEF Classes
<1>13. /\ \A c \in Classes : In(s, <<"done", c>>) <=> In(n, <<"done", c>>)
       /\ In(s, <<"answer">>) <=> In(n, <<"answer">>)
       /\ In(s, <<"check">>) <=> In(n, <<"check">>)
       /\ In(s, <<"get", "Context">>) <=> In(n, <<"get", "Context">>)
       /\ In(s, <<"return">>) <=> In(n, <<"return">>)
  BY <1>5, <1>6
<1>14. cls' = cls /\ lib' = lib
  BY DEF loadingVars
<1>15. Local(n, FALSE)'
  <2>1. Unwinds(n, FALSE)'
    BY DEF Unwinds
  <2>2. Initialising(n)'
    BY <1>4, <1>13, <1>14 DEF Local, Initialising
  <2>3. ApiFirst(n, FALSE)'
    <3>1. Head(s) # <<"get", "Api">>
      BY <1>4
    <3> QED
      BY <1>4, <1>12, <1>13, <1>14, <3>1 DEF Local, ApiFirst
  <2>4. ReturnsLast(n, FALSE)'
    <3>1. Head(s) \notin {"open"} \X Loaders
      BY <1>4
    <3> QED
      BY <1>4, <1>13, <1>14, <3>1 DEF Local, ReturnsLast
  <2>5. AnswerCast(n, FALSE)'
    BY <1>4, <1>6, <1>11, <1>12, <1>13, <1>14 DEF Local, AnswerCast
  <2>6. ContextFirst(n, FALSE)'
    BY <1>4, <1>9, <1>10, <1>12, <1>13, <1>14 DEF Local, ContextFirst
  <2>7. ContextFresh(n)'
    BY <1>6, <1>10 DEF ContextFresh
  <2> QED
    BY <1>6, <2>1, <2>2, <2>3, <2>4, <2>5, <2>6, <2>7 DEF Local
<1>16. thrown' \in [Threads -> BOOLEAN] /\ thrown'[t] = FALSE
       /\ \A u \in Threads \ {t} : thrown'[u] = thrown[u]
  BY <1>1 DEF TypeOK
<1>17. TypeOK'
  BY <1>1, <1>8, <1>10, <1>16 DEF TypeOK, loadingVars, Contexts
<1>18. LibraryKnown'
  BY DEF IInv, LibraryKnown, loadingVars
<1>19. OneContext'
  <2>1. In(stack'[t], <<"done", "Context">>)
    BY <1>6, <1>8
  <2> QED
    BY <1>10, <2>1 DEF OneContext
<1>20. Decided'
  BY DEF IInv, Decided, Succeeded, Doomed
<1>21. In(stack[t], <<"done", "Context">>)
  BY <1>2, <1>5, <1>6
<1>22. \A c \in Classes : In(n, <<"done", c>>) => In(stack[t], <<"done", c>>)
  BY <1>2, <1>13
<1>23. FALSE \in BOOLEAN /\ (lib => lib') /\ (context # 0 => context' # 0)
       /\ \A c \in Classes : cls'[c] = cls[c]
  BY <1>14
<1> QED
  BY <1>6, <1>8, <1>15, <1>16, <1>17, <1>18, <1>19, <1>20, <1>21, <1>22, <1>23, Frame

LEMMA CreateStep ==
    ASSUME IInv, NEW t \in Threads, Create(t)
    PROVE  IInv'
<1>1. /\ stack[t] \in Seq(Tasks) /\ stack[t] # <<>> /\ Shape(stack[t])
      /\ Head(stack[t]) = <<"create">> /\ ~thrown[t] /\ Current(t, <<"create">>)
  BY CurrentFacts DEF Create
<1>2. CASE ~lib
  <2>1. Throws(t) /\ UNCHANGED <<value, cls, loadingVars, contextVars, calls>>
    BY <1>2 DEF Create, contextVars
  <2>2. In(stack[t], <<"done", "Context">>)
    BY <1>1, HookShape, UnderShape
  <2> QED
    BY <1>1, <2>1, <2>2, QuietThrow
<1>3. CASE lib /\ Does(t, <<>>) /\ UNCHANGED made
  <2>1. UNCHANGED thrown /\ UNCHANGED <<value, cls, loadingVars, contextVars, calls>>
    BY <1>3 DEF Create, contextVars
  <2>2. PICK x : x = <<"create">>
    OBVIOUS
  <2>3. /\ x # <<"get", "Api">> /\ x # <<"get", "Context">> /\ x # <<"check">>
        /\ x # <<"cast">>
        /\ x \notin {"open"} \X Loaders /\ \A c \in Classes : x # <<"done", c>>
    BY <2>2, Ranks
  <2> QED
    BY <1>1, <1>3, <2>1, <2>2, <2>3, QuietPop
<1>4. CASE /\ lib /\ made' = IF made = 2 THEN 2 ELSE made + 1
           /\ Does(t, <<<<"hook">>>>)
  <2>1. UNCHANGED thrown /\ UNCHANGED <<value, cls, loadingVars, context, hooked, calls>>
    BY <1>4 DEF Create
  <2> QED
    BY <1>1, <1>4, <2>1, Created
<1> QED
  BY <1>2, <1>3, <1>4 DEF Create

LEMMA HookStep ==
    ASSUME IInv, NEW t \in Threads, Hook(t)
    PROVE  IInv'
<1> USE DEF Hook
<1>1. /\ stack[t] \in Seq(Tasks) /\ stack[t] # <<>> /\ Shape(stack[t])
      /\ Local(stack[t], FALSE) /\ Head(stack[t]) = <<"hook">> /\ ~thrown[t] /\ TypeOK
  BY CurrentFacts
<1>2. PICK s \in Seq(Tasks) : s = stack[t]
  BY <1>1
<1>3. PICK r : r = Tail(s)
  OBVIOUS
<1>x. PICK x : x = <<"hook">>
  OBVIOUS
<1>4. s # <<>> /\ Shape(s) /\ Head(s) = x /\ Local(s, FALSE)
  BY <1>1, <1>2, <1>x
<1>y. Rank(x) = 1 /\ x # <<"check">> /\ x # <<"answer">> /\ x # <<"get", "Api">>
      /\ x # <<"cast">> /\ x # <<"get", "Context">>
      /\ x \notin {"open"} \X Loaders /\ \A c \in Classes : x # <<"done", c>>
  BY <1>x, Ranks
<1>5. /\ r \in Seq(Tasks) /\ Shape(r) /\ \A y : In(s, y) <=> y = x \/ In(r, y)
      /\ \A y : In(r, y) => 1 < Rank(y)
  BY <1>3, <1>4, <1>y, UnderShape, UnderRanks
<1>6. In(r, <<"done", "Context">>)
  BY <1>3, <1>4, <1>x, Under
<1>7. made = 1 /\ context = 0
  BY <1>4, <1>5, <1>x DEF Local, ContextFresh
<1>8. made' = 1 /\ context' = 1 /\ 1 \in hooked' /\ cls' = cls /\ lib' = lib
  BY <1>7 DEF loadingVars
<1>9. stack' \in [Threads -> Seq(Tasks)] /\ stack'[t] = r
      /\ \A u \in Threads \ {t} : stack'[u] = stack[u]
  BY <1>1, <1>2, <1>3, NewStackPop
<1>10. "Api" \in Classes /\ "Context" \in Classes
  BY DEF Classes
<1>11. cls["Context"] = "no"
  BY <1>4, <1>5, <1>6, <1>10 DEF Local, Initialising
<1>12. Local(r, FALSE)'
  <2>1. Unwinds(r, FALSE)'
    BY DEF Unwinds
  <2>2. Initialising(r)'
    BY <1>4, <1>5, <1>8 DEF Local, Initialising
  <2>3. ApiFirst(r, FALSE)'
    BY <1>4, <1>5, <1>8, <1>10, <1>y DEF Local, ApiFirst
  <2>4. ReturnsLast(r, FALSE)'
    BY <1>4, <1>5, <1>8, <1>y DEF Local, ReturnsLast
  <2>5. AnswerCast(r, FALSE)'
    <3>1. ToCast(s) => ToCast(r)
      BY <1>3, <1>4, <1>y, ToCastTail
    <3> QED
      BY <1>4, <1>5, <1>8, <1>10, <3>1 DEF Local, AnswerCast
  <2>6. ContextFirst(r, FALSE)'
    BY <1>6, <1>8 DEF ContextFirst
  <2>7. ContextFresh(r)'
    <3>1. Rank(<<"create">>) = 1 /\ Rank(<<"hook">>) = 1
      BY Ranks
    <3> QED
      BY <1>5, <3>1 DEF ContextFresh
  <2> QED
    BY <1>5, <2>1, <2>2, <2>3, <2>4, <2>5, <2>6, <2>7 DEF Local
<1>13. thrown' \in [Threads -> BOOLEAN] /\ thrown'[t] = FALSE
       /\ \A u \in Threads \ {t} : thrown'[u] = thrown[u]
  BY <1>1 DEF TypeOK
<1>14. TypeOK'
  BY <1>1, <1>7, <1>8, <1>9, <1>13 DEF TypeOK, loadingVars, Contexts
<1>15. LibraryKnown'
  BY DEF IInv, LibraryKnown, loadingVars
<1>16. OneContext'
  BY <1>6, <1>8, <1>9 DEF OneContext
<1>17. Decided'
  BY <1>8, <1>11 DEF IInv, Decided, Succeeded, Doomed
<1>18. In(stack[t], <<"done", "Context">>)
  BY <1>2, <1>5, <1>6
<1>19. \A c \in Classes : In(r, <<"done", c>>) => In(stack[t], <<"done", c>>)
  BY <1>2, <1>5
<1>20. FALSE \in BOOLEAN /\ (lib => lib') /\ context' # 0 /\ \A c \in Classes : cls'[c] = cls[c]
  BY <1>8
<1> QED
  BY <1>5, <1>9, <1>12, <1>13, <1>14, <1>15, <1>16, <1>17, <1>18, <1>19, <1>20, Frame

-----------------------------------------------------------------------------
(* An exception takes the tasks off.                                       *)

(* The tasks of a call that an exception ends account for it.              *)
LEMMA UnwindStep ==
    ASSUME IInv, NEW t \in Threads, Unwind(t)
    PROVE  IInv'
<1>0. /\ thrown[t] /\ EndsTask(t) /\ stack' = [stack EXCEPT ![t] = Tail(@)]
      /\ thrown' = [thrown EXCEPT ![t] = Len(stack[t]) > 1]
      /\ UNCHANGED <<value, loadingVars, contextVars>>
  BY DEF Unwind
<1>1. TypeOK /\ stack[t] \in Seq(Tasks) /\ thrown[t] = TRUE
  BY <1>0 DEF IInv, TypeOK
<1>2. PICK s \in Seq(Tasks) : s = stack[t]
  BY <1>1
<1>3. PICK r : r = Tail(s)
  OBVIOUS
<1>4. s # <<>> /\ Shape(s) /\ Local(s, TRUE)
  <2>1. Local(s, TRUE)
    BY <1>1, <1>2 DEF IInv
  <2> QED
    BY <2>1 DEF Local, Unwinds
<1>x. PICK x : x = Head(s)
  OBVIOUS
<1>5. /\ r \in Seq(Tasks) /\ Shape(r) /\ \A y : In(s, y) <=> y = x \/ In(r, y)
      /\ x \in Tasks
  <2>1. r \in Seq(Tasks) /\ Shape(r) /\ \A y : In(s, y) <=> y = x \/ In(r, y)
    BY <1>3, <1>4, <1>x, UnderShape
  <2>2. x \in Tasks
    BY <1>4, <1>x
  <2> QED
    BY <2>1, <2>2
<1>6. /\ stack' \in [Threads -> Seq(Tasks)] /\ stack'[t] = r
      /\ \A u \in Threads \ {t} : stack'[u] = stack[u]
  BY <1>0, <1>1, <1>2, <1>3, <1>5 DEF TypeOK
<1>e. (r = <<>>) <=> ~(Len(s) > 1)
  <2>1. Len(s) \in Nat /\ Len(s) >= 1 /\ Len(r) = Len(s) - 1
    BY <1>3, <1>4, TailFacts
  <2>2. (r = <<>>) <=> Len(r) = 0
    BY <1>5
  <2> QED
    BY <2>1, <2>2
<1>7. PICK th \in BOOLEAN :
          /\ thrown' = [thrown EXCEPT ![t] = th]
          /\ th = TRUE => r # <<>>
          /\ th = FALSE => r = <<>>
  <2>1. CASE Len(s) > 1
    <3>1. thrown' = [thrown EXCEPT ![t] = TRUE]
      BY <1>0, <1>2, <2>1
    <3> QED
      BY <1>e, <2>1, <3>1
  <2>2. CASE ~(Len(s) > 1)
    <3>0. (Len(stack[t]) > 1) = FALSE
      BY <1>2, <2>2
    <3>1. thrown' = [thrown EXCEPT ![t] = FALSE]
      BY <1>0, <3>0, Zenon
    <3> QED
      BY <1>e, <2>2, <3>1
  <2> QED
    BY <2>1, <2>2
<1>8. thrown' \in [Threads -> BOOLEAN] /\ thrown'[t] = th
      /\ \A u \in Threads \ {t} : thrown'[u] = thrown[u]
  BY <1>1, <1>2, <1>7 DEF TypeOK
<1>9. (th => r # <<>>) /\ (~th => r = <<>>)
  BY <1>7
<1>10. "Api" \in Classes /\ "Context" \in Classes /\ "Jni" \in Classes
  BY DEF Classes
<1>11. /\ UNCHANGED <<value, jars, lib, extracted, made, context, hooked>>
  BY <1>0 DEF loadingVars, contextVars
<1>w. /\ cls' = IF x[1] = "done" THEN [cls EXCEPT ![x[2]] = "failed"] ELSE cls
      /\ calls' = IF x[1] = "answer" THEN [calls EXCEPT ![t] = "failed"] ELSE calls
  BY <1>0, <1>2, <1>x DEF EndsTask
<1>12. \A c \in Classes : x = <<"done", c>> => cls' = [cls EXCEPT ![c] = "failed"]
  <2> SUFFICES ASSUME NEW c \in Classes, x = <<"done", c>>
               PROVE  cls' = [cls EXCEPT ![c] = "failed"]
    OBVIOUS
  <2>1. x[1] = "done" /\ x[2] = c
    OBVIOUS
  <2> QED
    BY <1>w, <2>1
<1>13. (\A c \in Classes : x # <<"done", c>>) => cls' = cls
  <2>1. SUFFICES ASSUME \A c \in Classes : x # <<"done", c>> PROVE x[1] # "done"
    BY <1>w
  <2> QED
    BY <1>5, <2>1 DEF Tasks
<1>14. cls' \in [Classes -> {"no", "done", "failed"}]
  BY <1>1, <1>12, <1>13 DEF TypeOK
<1>15. \A c \in Classes : cls'[c] = cls[c] \/ (x = <<"done", c>> /\ cls'[c] = "failed")
  <2> SUFFICES ASSUME NEW c \in Classes
               PROVE  cls'[c] = cls[c] \/ (x = <<"done", c>> /\ cls'[c] = "failed")
    OBVIOUS
  <2>1. cls \in [Classes -> {"no", "done", "failed"}]
    BY <1>1 DEF TypeOK
  <2>2. CASE x = <<"done", c>>
    BY <1>12, <2>1, <2>2
  <2>3. CASE x # <<"done", c>> /\ \E k \in Classes : x = <<"done", k>>
    BY <1>12, <2>1, <2>3
  <2>4. CASE \A k \in Classes : x # <<"done", k>>
    BY <1>13, <2>4
  <2> QED
    BY <2>2, <2>3, <2>4
<1>16. \A c \in Classes : cls[c] # "no" => cls'[c] = cls[c]
  BY <1>4, <1>5, <1>15 DEF Local, Initialising
<1>17. Doomed => Doomed'
  BY <1>10, <1>11, <1>16 DEF Doomed
<1>18. x = <<"done", "Api">> \/ x = <<"done", "Context">> => Doomed'
  BY <1>1, <1>10, <1>12 DEF Doomed, TypeOK
<1>19. Succeeded => Succeeded'
  BY <1>10, <1>11, <1>16 DEF Succeeded
<1>20. calls' \in [Threads -> Outcomes]
       /\ \A u \in Threads : calls'[u] = calls[u] \/ (calls'[u] = "failed" /\ x[1] = "answer")
  BY <1>1, <1>w DEF TypeOK, Outcomes
<1>21. x[1] = "answer" => Doomed
  <2> SUFFICES ASSUME x[1] = "answer" PROVE Doomed
    OBVIOUS
  <2>1. x = <<"answer">>
    BY <1>5 DEF Tasks
  <2>2. Rank(<<"answer">>) = 5 /\ Rank(<<"done", "Api">>) = 0
        /\ Rank(<<"done", "Context">>) = 2
    BY Ranks
  <2>3. 5 = Rank(Head(s))
    BY <1>x, <2>1, <2>2
  <2>4. \A y : In(r, y) => 5 < Rank(y)
    BY <1>3, <1>4, <2>3, UnderRanks
  <2>5. In(s, <<"answer">>) /\ ~In(s, <<"done", "Api">>) /\ ~In(s, <<"done", "Context">>)
    BY <1>5, <2>1, <2>2, <2>4
  <2> QED
    BY <1>4, <2>5 DEF Local, Unwinds
<1>22. Decided'
  BY <1>17, <1>19, <1>20, <1>21 DEF IInv, Decided
<1>23. Local(r, th)'
  <2>1. Unwinds(r, th)'
    <3>1. In(r, <<"answer">>) =>
              Doomed' \/ In(r, <<"done", "Api">>) \/ In(r, <<"done", "Context">>)
      BY <1>4, <1>5, <1>17, <1>18 DEF Local, Unwinds
    <3> QED
      BY <1>9, <3>1 DEF Unwinds
  <2>2. Initialising(r)'
    <3>1. \A c \in Classes : x = <<"done", c>> => ~In(r, x)
      BY <1>3, <1>4, <1>x, UnderShape
    <3> QED
      BY <1>4, <1>5, <1>15, <3>1 DEF Local, Initialising
  <2>3. \A y : ~th => ~In(r, y)
    <3>1. ~th => r = <<>>
      BY <1>9
    <3>2. \A y : ~In(<<>>, y)
      BY DEF In
    <3> QED
      BY <3>1, <3>2
  <2>4. ApiFirst(r, th)' /\ ReturnsLast(r, th)' /\ AnswerCast(r, th)' /\ ContextFirst(r, th)'
    BY <2>3 DEF ApiFirst, ReturnsLast, AnswerCast, ContextFirst
  <2>5. ContextFresh(r)'
    BY <1>4, <1>5, <1>11 DEF Local, ContextFresh
  <2> QED
    BY <1>5, <2>1, <2>2, <2>4, <2>5 DEF Local
<1>24. TypeOK'
  BY <1>1, <1>6, <1>8, <1>11, <1>14, <1>20 DEF TypeOK
<1>25. LibraryKnown'
  BY <1>10, <1>11, <1>15 DEF IInv, LibraryKnown
<1>26. OneContext'
  <2>1. ASSUME cls'["Context"] = "no", \A u \in Threads : ~In(stack'[u], <<"done", "Context">>)
        PROVE  made = 0 /\ context = 0
    <3>1. cls["Context"] = "no" /\ x # <<"done", "Context">>
      BY <1>1, <1>10, <1>12, <1>15, <2>1 DEF TypeOK
    <3>2. ~In(s, <<"done", "Context">>)
      BY <1>5, <1>6, <2>1, <3>1
    <3>3. \A u \in Threads : ~In(stack[u], <<"done", "Context">>)
      BY <1>2, <1>6, <2>1, <3>2
    <3> QED
      BY <3>1, <3>3 DEF IInv, OneContext
  <2> QED
    BY <1>11, <2>1 DEF IInv, OneContext
<1>27. \A c \in Classes : In(r, <<"done", c>>) => In(stack[t], <<"done", c>>)
  BY <1>2, <1>5
<1>28. \A c \in Classes : cls'[c] = cls[c] \/ In(stack[t], <<"done", c>>)
  BY <1>2, <1>5, <1>15
<1>29. (lib => lib') /\ made' = made /\ context' = context
  BY <1>11
<1> QED
  BY <1>5, <1>6, <1>8, <1>22, <1>23, <1>24, <1>25, <1>26, <1>27, <1>28, <1>29, Frame

-----------------------------------------------------------------------------
(* The application calls.                                                  *)

LEMMA NotEmpty ==
    ASSUME NEW n \in Seq(Tasks), Len(n) = 5
    PROVE  n # <<>>
OBVIOUS

LEMMA CallShape ==
    ASSUME NEW n \in Seq(Tasks), Len(n) = 5,
           Rank(n[1]) = 0, Rank(n[2]) = 2, Rank(n[3]) = 3, Rank(n[4]) = 4, Rank(n[5]) = 5,
           ~Inner(n[1]), n[1] \notin {"open"} \X Loaders,
           \A c \in Classes : n[1] # <<"done", c>> /\ n[2] # <<"done", c>>
    PROVE  /\ Shape(n) /\ Head(n) = n[1] /\ In(n, n[2]) /\ In(n, n[3])
           /\ \A y : In(n, y) => y = n[1] \/ y = n[2] \/ Rank(y) \in {3, 4, 5}
           /\ \A c \in Classes : ~In(n, <<"done", c>>)
<1>e. n # <<>>
  BY NotEmpty
<1>1. DOMAIN n = 1..5 /\ Head(n) = n[1] /\ n # <<>>
  BY <1>e, TailFacts
<1>i. \A i \in DOMAIN n : i = 1 \/ i = 2 \/ i = 3 \/ i = 4 \/ i = 5
  BY <1>1
<1>d. 1 \in DOMAIN n /\ 2 \in DOMAIN n /\ 3 \in DOMAIN n /\ 4 \in DOMAIN n /\ 5 \in DOMAIN n
  BY <1>1
<1>3. \A y : In(n, y) => y = n[1] \/ y = n[2] \/ Rank(y) \in {3, 4, 5}
  BY <1>i DEF In
<1>4. \A c \in Classes : ~In(n, <<"done", c>>)
  <2> SUFFICES ASSUME NEW c \in Classes, In(n, <<"done", c>>) PROVE FALSE
    OBVIOUS
  <2>1. Rank(<<"done", c>>) \in {0, 2}
    BY Ranks DEF Classes
  <2>2. PICK y : y = <<"done", c>>
    OBVIOUS
  <2>3. Rank(y) \in {3, 4, 5}
    BY <1>3, <2>2
  <2> QED
    BY <2>1, <2>2, <2>3
<1>c. n[3] = <<"check">> /\ n[5] = <<"answer">>
  BY DEF Rank
<1>6. In(n, <<"answer">>) /\ In(n, n[3]) /\ In(n, n[2])
  BY <1>d, <1>c DEF In
<1>7. Ordered(n)
  <2> SUFFICES ASSUME NEW i \in DOMAIN n, NEW j \in DOMAIN n, i < j, Rank(n[i]) > 0
               PROVE  Rank(n[i]) < Rank(n[j])
    BY DEF Ordered
  <2> QED
    BY <1>i
<1>8. EndsInAnswer(n)
  BY <1>6 DEF EndsInAnswer
<1>9. NoneBelow(n)
  <2>1. \A y \in FirstOnly : Rank(y) = 0
    <3>1. Rank(<<"get", "Api">>) = 0 /\ \A l \in Loaders : Rank(<<"open", l>>) = 0
      BY Ranks
    <3>2. \A y \in FirstOnly : y = <<"get", "Api">> \/ \E l \in Loaders : y = <<"open", l>>
      BY DEF FirstOnly
    <3> QED
      BY <3>1, <3>2
  <2> QED
    BY <1>i, <2>1 DEF NoneBelow
<1>10. OpensLoader(n)
  BY <1>1 DEF OpensLoader
<1>11. Once(n)
  BY <1>4 DEF Once, In
<1>12. ContextInside(n)
  <2>1. Rank(<<"create">>) = 1 /\ Rank(<<"hook">>) = 1
    BY Ranks
  <2>2. \A i \in DOMAIN n : Rank(n[i]) # 1
    BY <1>i
  <2> QED
    BY <2>1, <2>2 DEF ContextInside
<1>13. CheckedFirst(n)
  <2> SUFFICES ASSUME NEW i \in DOMAIN n, n[i] = <<"native">>, i # 1
               PROVE  n[i - 1] = <<"check">>
    BY DEF CheckedFirst
  <2>1. Rank(n[i]) = 4
    BY Ranks
  <2>2. i = 4
    BY <1>i, <2>1
  <2> QED
    BY <1>c, <2>2
<1>14. ApiInside(n)
  <2>1. "Api" \in Classes
    BY DEF Classes
  <2>2. \A i \in DOMAIN n : i # 1 => ~Inner(n[i])
    <3>1. \A i \in DOMAIN n : i # 1 => Rank(n[i]) # 0
      BY <1>i
    <3> QED
      BY <3>1 DEF Inner
  <2>3. \A i \in DOMAIN n : n[i] # <<"done", "Api">>
    BY <1>4, <2>1 DEF In
  <2> QED
    BY <2>2, <2>3 DEF ApiInside
<1> QED
  BY <1>1, <1>3, <1>4, <1>6, <1>7, <1>8, <1>9, <1>10, <1>11, <1>12, <1>13, <1>14 DEF Shape

LEMMA CallApiStep ==
    ASSUME IInv, NEW t \in Threads, CallApi(t)
    PROVE  IInv'
<1>1. TypeOK /\ stack[t] = <<>> /\ thrown[t] = FALSE
  BY DEF CallApi, Idle, IInv, TypeOK
<1> DEFINE p == <<<<"get", "Api">>, <<"get", "Context">>, <<"check">>, <<"native">>, <<"answer">>>>
<1>2. /\ <<"get", "Api">> \in Tasks /\ <<"get", "Context">> \in Tasks /\ <<"check">> \in Tasks
      /\ <<"native">> \in Tasks /\ <<"answer">> \in Tasks
  BY TaskTypes
<1>3. /\ p \in Seq(Tasks) /\ Len(p) = 5
      /\ p[1] = <<"get", "Api">> /\ p[2] = <<"get", "Context">> /\ p[3] = <<"check">>
      /\ p[4] = <<"native">> /\ p[5] = <<"answer">>
  BY <1>2
<1>4. stack' = [stack EXCEPT ![t] = p]
      /\ UNCHANGED <<thrown, value, cls, loadingVars, contextVars, calls>>
  BY DEF CallApi
<1> HIDE DEF p
<1>5. PICK n \in Seq(Tasks) : n = p
  BY <1>3
<1>6. /\ Shape(n) /\ Head(n) = <<"get", "Api">>
      /\ In(n, <<"get", "Context">>) /\ In(n, <<"check">>)
      /\ ~In(n, <<"return">>) /\ ~In(n, <<"create">>) /\ ~In(n, <<"hook">>)
      /\ \A c \in Classes : ~In(n, <<"done", c>>)
  <2>1. /\ Len(n) = 5 /\ Rank(n[1]) = 0 /\ Rank(n[2]) = 2 /\ Rank(n[3]) = 3
        /\ Rank(n[4]) = 4 /\ Rank(n[5]) = 5
    BY <1>3, <1>5, Ranks
  <2>2. /\ n[1] = <<"get", "Api">> /\ n[2] = <<"get", "Context">>
    BY <1>3, <1>5
  <2>3. /\ ~Inner(n[1]) /\ n[1] \notin {"open"} \X Loaders
        /\ \A c \in Classes : n[1] # <<"done", c>> /\ n[2] # <<"done", c>>
    BY <2>2 DEF Inner
  <2>4. /\ Shape(n) /\ Head(n) = n[1] /\ In(n, n[2]) /\ In(n, n[3])
        /\ \A y : In(n, y) => y = n[1] \/ y = n[2] \/ Rank(y) \in {3, 4, 5}
        /\ \A c \in Classes : ~In(n, <<"done", c>>)
    BY <2>1, <2>3, CallShape
  <2>5. n[3] = <<"check">>
    BY <1>3, <1>5
  <2>6. ~In(n, <<"create">>) /\ ~In(n, <<"hook">>)
    <3>1. Rank(<<"create">>) = 1 /\ Rank(<<"hook">>) = 1
      BY Ranks
    <3> QED
      BY <2>1, <2>4, <3>1
  <2>7. ~In(n, <<"return">>)
    <3>1. Rank(<<"return">>) = 0
      BY Ranks
    <3>2. <<"return">> # n[1]
      BY <2>2
    <3> QED
      BY <2>1, <2>4, <3>1, <3>2
  <2> QED
    BY <2>2, <2>4, <2>5, <2>6, <2>7
<1>7. Local(n, FALSE)
  <2>1. "Api" \in Classes
    BY DEF Classes
  <2> QED
    BY <1>6, <2>1 DEF Local, Unwinds, Initialising, ApiFirst, ReturnsLast, AnswerCast,
        ContextFirst, ContextFresh
<1>8. /\ stack' \in [Threads -> Seq(Tasks)] /\ stack'[t] = n
      /\ \A u \in Threads \ {t} : stack'[u] = stack[u]
  BY <1>1, <1>4, <1>5 DEF TypeOK
<1>9. \A c \in Classes : ~In(stack[t], <<"done", c>>)
  BY <1>1 DEF In
<1>10. PICK s \in Seq(Tasks) : s = stack[t]
  BY <1>1 DEF TypeOK
<1>11. /\ \A c \in Classes : In(s, <<"done", c>>) => In(n, <<"done", c>>)
       /\ \A c \in Classes : In(n, <<"done", c>>) =>
              In(s, <<"done", c>>) \/ ~HeldByOther(t, <<"done", c>>)
  BY <1>6, <1>9, <1>10
<1> QED
  BY <1>1, <1>4, <1>7, <1>8, <1>10, <1>11, QuietReplace

LEMMA CallLoadStep ==
    ASSUME IInv, NEW t \in Threads, NEW l \in Loaders, CallLoad(t, l)
    PROVE  IInv'
<1>1. TypeOK /\ stack[t] = <<>> /\ thrown[t] = FALSE
  BY DEF CallLoad, Idle, IInv, TypeOK
<1>2. PICK x \in Tasks : x = <<"enter", l>>
  BY TaskTypes
<1>3. Rank(x) = 0
  BY <1>2, Ranks
<1>4. Inner(x) /\ x \notin FirstOnly /\ \A c \in Classes : x # <<"done", c>>
  BY <1>2, <1>3 DEF Inner, FirstOnly
<1>5. PICK e \in Seq(Tasks) : e = <<>>
  <2>1. <<>> \in Seq(Tasks)
    OBVIOUS
  <2> QED
    BY <2>1
<1>6. \A y : ~In(e, y)
  BY <1>5 DEF In
<1>7. DOMAIN e = {}
  BY <1>5
<1>8. Base(e)
  BY <1>5, <1>6, <1>7 DEF Base, Shape, Ordered, EndsInAnswer, NoneBelow, OpensLoader, Once,
     ContextInside, CheckedFirst, ApiInside
<1> DEFINE n == Cons(x, e)
<1>9. Base(n) /\ Head(n) = x /\ \A y : In(n, y) <=> y = x \/ In(e, y)
  BY <1>4, <1>8, PushInner
<1>10. n = <<x>>
  BY <1>5 DEF Cons
<1>11. stack' = [stack EXCEPT ![t] = n]
      /\ UNCHANGED <<thrown, value, cls, loadingVars, contextVars, calls>>
  BY <1>2, <1>10 DEF CallLoad
<1> HIDE DEF n
<1>12. n \in Seq(Tasks) /\ Shape(n)
  BY <1>9 DEF Base
<1>13. \A y : Rank(y) > 0 => ~In(n, y)
  BY <1>3, <1>6, <1>9
<1>14. /\ ~In(n, <<"answer">>) /\ ~In(n, <<"create">>) /\ ~In(n, <<"hook">>)
  BY <1>13, Ranks
<1>15. ~In(n, <<"return">>) /\ \A c \in Classes : ~In(n, <<"done", c>>)
  BY <1>2, <1>4, <1>6, <1>9
<1>16. Local(n, FALSE)
  <2>1. "Api" \in Classes
    BY DEF Classes
  <2> QED
    BY <1>12, <1>14, <1>15, <2>1 DEF Local, Unwinds, Initialising, ApiFirst, ReturnsLast,
        AnswerCast, ContextFirst, ContextFresh
<1>17. /\ stack' \in [Threads -> Seq(Tasks)] /\ stack'[t] = n
      /\ \A u \in Threads \ {t} : stack'[u] = stack[u]
  BY <1>1, <1>11, <1>12 DEF TypeOK
<1>18. PICK s \in Seq(Tasks) : s = stack[t]
  BY <1>1 DEF TypeOK
<1>19. /\ \A c \in Classes : In(s, <<"done", c>>) => In(n, <<"done", c>>)
       /\ \A c \in Classes : In(n, <<"done", c>>) =>
              In(s, <<"done", c>>) \/ ~HeldByOther(t, <<"done", c>>)
  BY <1>1, <1>15, <1>18 DEF In
<1> QED
  BY <1>1, <1>11, <1>12, <1>16, <1>17, <1>18, <1>19, QuietReplace

-----------------------------------------------------------------------------
(* The invariant.                                                          *)

LEMMA InitIInv == Init => IInv
<1> SUFFICES ASSUME Init PROVE IInv
  OBVIOUS
<1> USE DEF Init
<1>1. PICK e \in Seq(Tasks) : e = <<>>
  <2>1. <<>> \in Seq(Tasks)
    OBVIOUS
  <2> QED
    BY <2>1
<1>2. \A y : ~In(e, y)
  BY <1>1 DEF In
<1>3. DOMAIN e = {}
  BY <1>1
<1>4. Shape(e)
  BY <1>1, <1>2, <1>3 DEF Shape, Ordered, EndsInAnswer, NoneBelow, OpensLoader, Once,
     ContextInside, CheckedFirst, ApiInside
<1>5. Local(e, FALSE)
  BY <1>2, <1>4 DEF Local, Unwinds, Initialising, ApiFirst, ReturnsLast, AnswerCast,
     ContextFirst, ContextFresh
<1>6. \A t \in Threads : stack[t] = e /\ thrown[t] = FALSE
  BY <1>1
<1>7. TypeOK
  <2>1. stack = [t \in Threads |-> e]
    BY <1>1
  <2>2. stack \in [Threads -> Seq(Tasks)]
    BY <2>1
  <2>3. /\ jars \subseteq Loaders
        /\ thrown \in [Threads -> BOOLEAN]
        /\ value \in [Threads -> {"null", "Secp256k1Jni"}]
        /\ cls \in [Classes -> {"no", "done", "failed"}]
        /\ calls \in [Threads -> Outcomes]
    BY DEF Outcomes
  <2>0. 0 \in Contexts /\ {} \subseteq Contexts
    BY DEF Contexts
  <2>4. /\ lib \in BOOLEAN /\ extracted \in BOOLEAN
        /\ made \in Contexts /\ context \in Contexts /\ hooked \subseteq Contexts
    BY <2>0
  <2> QED
    BY <2>2, <2>3, <2>4 DEF TypeOK
<1>8. \A t \in Threads : Local(stack[t], thrown[t])
  BY <1>5, <1>6
<1>9. OneInitialiser
  BY <1>2, <1>6 DEF OneInitialiser
<1>10. LibraryKnown /\ Decided
  BY DEF LibraryKnown, Decided, Classes
<1>11. OneContext
  BY DEF OneContext
<1> QED
  BY <1>7, <1>8, <1>9, <1>10, <1>11 DEF IInv

LEMMA StepIInv ==
    ASSUME IInv, NEW t \in Threads, Step(t)
    PROVE  IInv'
<1>1. ASSUME NEW c \in Classes, Get(t, c) PROVE IInv'
  BY <1>1, GetStep
<1>2. ASSUME NEW c \in Classes, Done(t, c) PROVE IInv'
  BY <1>2, DoneStep
<1>3. ASSUME NEW l \in Loaders, Enter(t, l) PROVE IInv'
  BY <1>3, EnterStep
<1>4. ASSUME NEW l \in Loaders, Leave(t, l) PROVE IInv'
  BY <1>4, LeaveStep
<1>5. CASE Find(t)
  BY <1>5, FindStep
<1>6. CASE Cast(t)
  BY <1>6, CastStep
<1>7. CASE OpenJvm(t)
  BY <1>7, OpenJvmStep
<1>8. CASE OpenAndroid(t)
  BY <1>8, OpenAndroidStep
<1>9. CASE Return(t)
  BY <1>9, ReturnStep
<1>10. CASE Create(t)
  BY <1>10, CreateStep
<1>11. CASE Hook(t)
  BY <1>11, HookStep
<1>12. CASE Check(t)
  BY <1>12, CheckStep
<1>13. CASE Native(t)
  BY <1>13, NativeStep
<1>14. CASE Answer(t)
  BY <1>14, AnswerStep
<1>15. CASE Unwind(t)
  BY <1>15, UnwindStep
<1> QED
  BY <1>1, <1>2, <1>3, <1>4, <1>5, <1>6, <1>7, <1>8, <1>9, <1>10, <1>11, <1>12, <1>13,
     <1>14, <1>15 DEF Step

LEMMA NextIInv == IInv /\ [Next]_vars => IInv'
<1> SUFFICES ASSUME IInv, [Next]_vars PROVE IInv'
  OBVIOUS
<1>1. ASSUME NEW t \in Threads, CallApi(t) PROVE IInv'
  BY <1>1, CallApiStep
<1>2. ASSUME NEW t \in Threads, NEW l \in Loaders, CallLoad(t, l) PROVE IInv'
  BY <1>2, CallLoadStep
<1>3. ASSUME NEW t \in Threads, Step(t) PROVE IInv'
  BY <1>3, StepIInv
<1>4. CASE UNCHANGED vars
  <2> USE <1>4 DEF vars
  <2>1. TypeOK'
    BY DEF IInv, TypeOK
  <2>2. \A t \in Threads : Local(stack[t], thrown[t])'
    BY DEF IInv, Local, Unwinds, Doomed, Initialising, ApiFirst, ReturnsLast, AnswerCast,
       ContextFirst, ContextFresh
  <2>3. OneInitialiser' /\ LibraryKnown' /\ OneContext' /\ Decided'
    BY DEF IInv, OneInitialiser, LibraryKnown, OneContext, Decided, Succeeded, Doomed
  <2> QED
    BY <2>1, <2>2, <2>3 DEF IInv
<1> QED
  BY <1>1, <1>2, <1>3, <1>4 DEF Next

(* The stacks, the classes and the fields have their types in every        *)
(* reachable state.                                                        *)
THEOREM TypeCorrect == Spec => []TypeOK
<1>1. IInv => TypeOK
  BY DEF IInv
<1> QED
  BY <1>1, InitIInv, NextIInv, PTL DEF Spec

-----------------------------------------------------------------------------
(* The library first.                                                      *)

LEMMA CallsInitialised ==
    ASSUME IInv, NEW t \in Threads, Current(t, <<"create">>) \/ Current(t, <<"native">>)
    PROVE  lib
<1>1. PICK x : /\ x \in {<<"create">>, <<"native">>} /\ Current(t, x)
  OBVIOUS
<1>2. /\ stack[t] \in Seq(Tasks) /\ stack[t] # <<>> /\ Shape(stack[t])
      /\ Local(stack[t], FALSE) /\ Head(stack[t]) = x
  BY <1>1, CurrentFacts
<1>3. PICK k \in {1, 4} : Rank(x) = k
  <2>1. CASE x = <<"create">>
    BY <2>1, Ranks
  <2>2. CASE x = <<"native">>
    BY <2>2, Ranks
  <2> QED
    BY <1>1, <2>1, <2>2
<1>4. \A y : In(stack[t], y) <=> y = x \/ In(Tail(stack[t]), y)
  BY <1>2, UnderShape
<1>5. \A y : In(Tail(stack[t]), y) => k < Rank(y)
  BY <1>2, <1>3, UnderRanks
<1>6. Rank(<<"get", "Api">>) = 0 /\ Rank(<<"done", "Api">>) = 0
  BY Ranks
<1>7. In(stack[t], <<"answer">>)
  <2>1. In(stack[t], x) /\ Rank(x) > 0
    BY <1>3, <1>4
  <2> QED
    BY <1>2, <2>1, Under
<1>8. ~In(stack[t], <<"done", "Api">>) /\ Head(stack[t]) # <<"get", "Api">>
  <2>1. <<"get", "Api">> # x /\ <<"done", "Api">> # x
    BY <1>3, <1>6
  <2>2. ~In(Tail(stack[t]), <<"done", "Api">>)
    BY <1>5, <1>6
  <2> QED
    BY <1>2, <1>4, <2>1, <2>2
<1>9. cls["Api"] = "done"
  BY <1>2, <1>7, <1>8 DEF Local, ApiFirst
<1> QED
  BY <1>9 DEF IInv, LibraryKnown

(* No native method is called before the library is loaded, whoever        *)
(* initialises a class or calls a loader, and whatever failed before.      *)
THEOREM LoadedFirst == Spec => []LibraryFirst
<1>1. IInv => LibraryFirst
  BY CallsInitialised DEF LibraryFirst
<1> QED
  BY <1>1, InitIInv, NextIInv, PTL DEF Spec

(* Only the initialisers touch what has been decided, and only before.     *)
LEMMA Moves ==
    ASSUME [Next]_vars
    PROVE  \/ UNCHANGED <<cls, context>>
           \/ \E t \in Threads : (\E c \in Classes : Done(t, c)) \/ Hook(t) \/ Unwind(t)
<1> USE DEF loadingVars, contextVars
<1>1. ASSUME NEW t \in Threads, Step(t)
      PROVE  UNCHANGED <<cls, context>> \/ (\E c \in Classes : Done(t, c)) \/ Hook(t) \/ Unwind(t)
  <2>1. ASSUME NEW c \in Classes, Get(t, c) PROVE UNCHANGED <<cls, context>>
    BY <2>1 DEF Get
  <2>2. ASSUME NEW l \in Loaders, Enter(t, l) \/ Leave(t, l) PROVE UNCHANGED <<cls, context>>
    BY <2>2 DEF Enter, Leave
  <2>3. CASE Find(t) \/ Cast(t) \/ Return(t)
    BY <2>3 DEF Find, Cast, Return
  <2>4. CASE OpenJvm(t) \/ OpenAndroid(t)
    BY <2>4 DEF OpenJvm, OpenAndroid
  <2>5. CASE Create(t)
    BY <2>5 DEF Create
  <2>6. CASE Check(t) \/ Native(t) \/ Answer(t)
    BY <2>6 DEF Check, Native, Answer
  <2> QED
    BY <1>1, <2>1, <2>2, <2>3, <2>4, <2>5, <2>6 DEF Step
<1>2. ASSUME NEW t \in Threads, CallApi(t) \/ \E l \in Loaders : CallLoad(t, l)
      PROVE  UNCHANGED <<cls, context>>
  BY <1>2 DEF CallApi, CallLoad
<1>3. CASE UNCHANGED vars
  BY <1>3 DEF vars
<1> QED
  BY <1>1, <1>2, <1>3 DEF Next

LEMMA Final ==
    ASSUME IInv, [Next]_vars
    PROVE  /\ \A c \in Classes : cls[c] # "no" => cls'[c] = cls[c]
           /\ cls["Context"] # "no" => context' = context
<1>t. "Context" \in Classes
  BY DEF Classes
<1>1. CASE UNCHANGED <<cls, context>>
  BY <1>1
<1>2. ASSUME NEW t \in Threads, NEW c \in Classes, Done(t, c)
      PROVE  /\ \A k \in Classes : cls[k] # "no" => cls'[k] = cls[k]
             /\ context' = context
  <2>1. /\ stack[t] \in Seq(Tasks) /\ stack[t] # <<>> /\ Shape(stack[t])
        /\ Local(stack[t], FALSE) /\ Head(stack[t]) = <<"done", c>> /\ TypeOK
    BY <1>2, CurrentFacts DEF Done
  <2>2. In(stack[t], <<"done", c>>)
    BY <2>1, UnderShape
  <2>3. cls[c] = "no"
    BY <2>1, <2>2 DEF Local, Initialising
  <2>4. cls' = [cls EXCEPT ![c] = "done"] /\ context' = context
    BY <1>2 DEF Done, contextVars
  <2> QED
    BY <2>1, <2>3, <2>4 DEF TypeOK
<1>3. ASSUME NEW t \in Threads, Hook(t)
      PROVE  cls' = cls /\ cls["Context"] = "no"
  <2>1. /\ stack[t] \in Seq(Tasks) /\ stack[t] # <<>> /\ Shape(stack[t])
        /\ Local(stack[t], FALSE) /\ Head(stack[t]) = <<"hook">>
    BY <1>3, CurrentFacts DEF Hook
  <2>2. PICK x : x = <<"hook">>
    OBVIOUS
  <2>3. In(Tail(stack[t]), <<"done", "Context">>)
    BY <2>1, <2>2, Under
  <2>4. In(stack[t], <<"done", "Context">>)
    BY <2>1, <2>3, UnderShape
  <2> QED
    BY <1>3, <1>t, <2>1, <2>4 DEF Hook, Local, Initialising
<1>4. ASSUME NEW t \in Threads, Unwind(t)
      PROVE  /\ \A k \in Classes : cls[k] # "no" => cls'[k] = cls[k]
             /\ context' = context
  <2>1. thrown[t] = TRUE /\ TypeOK /\ stack[t] \in Seq(Tasks)
    BY <1>4 DEF Unwind, IInv, TypeOK
  <2>2. Local(stack[t], TRUE)
    BY <2>1 DEF IInv
  <2>3. PICK x : x = Head(stack[t])
    OBVIOUS
  <2>4. stack[t] # <<>> /\ Shape(stack[t]) /\ Initialising(stack[t])
    BY <2>2 DEF Local, Unwinds
  <2>5. x \in Tasks /\ In(stack[t], x)
    BY <2>1, <2>3, <2>4, UnderShape
  <2>6. cls' = IF x[1] = "done" THEN [cls EXCEPT ![x[2]] = "failed"] ELSE cls
    BY <1>4, <2>3 DEF Unwind, EndsTask
  <2>7. context' = context
    BY <1>4 DEF Unwind, contextVars
  <2>8. CASE x[1] = "done"
    <3>1. PICK c \in Classes : x = <<"done", c>>
      BY <2>5, <2>8 DEF Tasks
    <3>2. cls[c] = "no" /\ x[2] = c
      BY <2>4, <2>5, <3>1 DEF Initialising
    <3> QED
      BY <2>1, <2>6, <2>7, <2>8, <3>2 DEF TypeOK
  <2>9. CASE x[1] # "done"
    BY <2>6, <2>7, <2>9
  <2> QED
    BY <2>8, <2>9
<1> QED
  BY <1>1, <1>2, <1>3, <1>4, Moves

(* A start that has failed has not succeeded, and the first outcome is the *)
(* outcome of all the calls: of those that have ended, and of those that   *)
(* end later.                                                              *)
THEOREM DecidedOnce == Spec => StartIsFinal
<1> DEFINE A == \A t, u \in Threads : calls[t] # "none" => calls'[u] \in {"none", calls[t]}
<1>1. ASSUME IInv, IInv', [Next]_vars PROVE A
  <2> SUFFICES ASSUME NEW t \in Threads, NEW u \in Threads, calls[t] # "none"
               PROVE  calls'[u] \in {"none", calls[t]}
    OBVIOUS
  <2>1. calls[t] \in {"ok", "failed"} /\ calls'[u] \in {"none", "ok", "failed"}
    BY <1>1 DEF IInv, TypeOK, Outcomes
  <2>2. /\ \A c \in Classes : cls[c] # "no" => cls'[c] = cls[c]
        /\ cls["Context"] # "no" => context' = context
        /\ "Api" \in Classes /\ "Context" \in Classes
    BY <1>1, Final DEF Classes
  <2>3. (Succeeded => Succeeded') /\ (Doomed => Doomed')
    BY <2>2 DEF Succeeded, Doomed
  <2>4. ~(Succeeded' /\ Doomed')
    BY DEF Succeeded, Doomed
  <2>5. /\ calls[t] = "ok" => Succeeded
        /\ calls[t] = "failed" => Doomed
        /\ calls'[u] = "ok" => Succeeded'
        /\ calls'[u] = "failed" => Doomed'
    BY <1>1 DEF IInv, Decided
  <2> QED
    BY <2>1, <2>3, <2>4, <2>5
<1>2. IInv /\ IInv' /\ [Next]_vars => [A]_vars
  BY <1>1
<1> QED
  BY <1>2, InitIInv, NextIInv, PTL DEF Spec, StartIsFinal

-----------------------------------------------------------------------------
(* The refinement.                                                         *)

InNative(t) == Current(t, <<"native">>)

(* A native method runs on the context published.                          *)
LEMMA NativeReady ==
    ASSUME IInv, NEW t \in Threads, InNative(t)
    PROVE  cls["Context"] = "done" /\ context = 1 /\ Published = 1
<1>1. /\ stack[t] \in Seq(Tasks) /\ stack[t] # <<>> /\ Shape(stack[t])
      /\ Local(stack[t], FALSE) /\ Head(stack[t]) = <<"native">>
  BY CurrentFacts DEF InNative
<1>2. /\ Rank(<<"native">>) = 4 /\ Rank(<<"get", "Context">>) = 2
      /\ Rank(<<"done", "Context">>) = 2 /\ Rank(<<"check">>) = 3
  BY Ranks
<1>3. 4 = Rank(Head(stack[t]))
  BY <1>1, <1>2
<1>4. \A y : In(Tail(stack[t]), y) => 4 < Rank(y)
  BY <1>1, <1>3, UnderRanks
<1>5. \A y : In(stack[t], y) <=> y = <<"native">> \/ In(Tail(stack[t]), y)
  BY <1>1, UnderShape
<1>6. /\ ~In(stack[t], <<"get", "Context">>) /\ ~In(stack[t], <<"done", "Context">>)
      /\ ~In(stack[t], <<"check">>)
  BY <1>2, <1>4, <1>5
<1>7. In(stack[t], <<"answer">>)
  <2>1. In(stack[t], <<"native">>) /\ Rank(<<"native">>) > 0
    BY <1>2, <1>5
  <2> QED
    BY <1>1, <2>1, Under
<1>8. cls["Context"] = "done" /\ context # 0
  BY <1>1, <1>6, <1>7 DEF Local, ContextFirst
<1>9. context = 1 /\ 1 \in hooked
  BY <1>8 DEF IInv, OneContext
<1> QED
  BY <1>8, <1>9 DEF Published

(* The thread runs no native method, before the step or after.             *)
Outside(t) ==
    /\ ~InNative(t) /\ ~InNative(t)'
    /\ \A u \in Threads \ {t} : stack'[u] = stack[u] /\ thrown'[u] = thrown[u]

LEMMA Unseen ==
    ASSUME NEW t \in Threads, Outside(t), Published' = Published,
           context' = context \/ \A u \in Threads : ~InNative(u)
    PROVE  UNCHANGED Shared!vars
<1> DEFINE uses == [u \in Threads |-> IF Current(u, <<"native">>) THEN context ELSE 0]
<1>1. \A u \in Threads : InNative(u)' <=> InNative(u)
  BY DEF Outside, InNative, Current
<1>2. \A u \in Threads : uses'[u] = uses[u]
  BY <1>1 DEF InNative
<1>3. uses' = uses
  BY <1>2
<1> QED
  BY <1>3 DEF Shared!vars

LEMMA SamePublished ==
    ASSUME UNCHANGED <<cls, contextVars>>
    PROVE  Published' = Published /\ context' = context
BY DEF Published, contextVars

LEMMA PoppedOutside ==
    ASSUME IInv, NEW t \in Threads, NEW x, Current(t, x), x # <<"check">>, x # <<"native">>,
           Does(t, <<>>), UNCHANGED thrown
    PROVE  Outside(t)
<1>1. /\ stack[t] \in Seq(Tasks) /\ stack[t] # <<>> /\ Shape(stack[t])
      /\ Head(stack[t]) = x /\ TypeOK
  BY CurrentFacts
<1>2. PICK r : r = Tail(stack[t])
  OBVIOUS
<1>3. r # <<>> => Head(r) # <<"native">>
  BY <1>1, <1>2, Under
<1>4. stack'[t] = r /\ \A u \in Threads \ {t} : stack'[u] = stack[u]
  BY <1>1, <1>2, NewStackPop
<1> QED
  BY <1>1, <1>3, <1>4 DEF Outside, InNative, Current

LEMMA ThrownOutside ==
    ASSUME IInv, NEW t \in Threads, NEW x, Current(t, x), x # <<"native">>, Throws(t)
    PROVE  Outside(t)
<1>1. TypeOK
  BY DEF IInv
<1>2. thrown'[t] = TRUE /\ stack' = stack
      /\ \A u \in Threads \ {t} : thrown'[u] = thrown[u]
  BY <1>1 DEF Throws, TypeOK
<1> QED
  BY <1>2 DEF Outside, InNative, Current

LEMMA HeadOfFront ==
    ASSUME NEW p \in Seq(Tasks), p # <<>>, NEW r \in Seq(Tasks)
    PROVE  Head(p \o r) = p[1]
OBVIOUS

LEMMA ReplacedOutside ==
    ASSUME IInv, NEW t \in Threads, NEW x, Current(t, x), x # <<"native">>,
           NEW p \in Seq(Tasks), p # <<>>, p[1] # <<"native">>,
           Does(t, p), UNCHANGED thrown
    PROVE  Outside(t)
<1>1. stack[t] \in Seq(Tasks) /\ stack[t] # <<>> /\ Head(stack[t]) = x /\ TypeOK
  BY CurrentFacts
<1>2. PICK r \in Seq(Tasks) : r = Tail(stack[t])
  <2>1. Tail(stack[t]) \in Seq(Tasks)
    BY <1>1, TailFacts
  <2> QED
    BY <2>1
<1>3. stack'[t] = p \o r /\ \A u \in Threads \ {t} : stack'[u] = stack[u]
  BY <1>1, <1>2, NewStack
<1>4. Head(stack'[t]) # <<"native">>
  BY <1>3, HeadOfFront
<1> QED
  BY <1>1, <1>3, <1>4 DEF Outside, InNative, Current

LEMMA GetOutside ==
    ASSUME IInv, NEW t \in Threads, NEW c \in Classes, Get(t, c)
    PROVE  Outside(t)
<1>1. PICK x : x = <<"get", c>>
  OBVIOUS
<1>2. Current(t, x)
  BY <1>1 DEF Get
<1>3. x # <<"check">> /\ x # <<"native">>
  <2>1. Rank(x) \in {0, 2}
    BY <1>1, Ranks DEF Classes
  <2> QED
    BY <2>1, Ranks
<1>4. CASE Throws(t)
  BY <1>2, <1>3, <1>4, ThrownOutside
<1>5. CASE Does(t, <<>>) /\ UNCHANGED thrown
  BY <1>2, <1>3, <1>5, PoppedOutside
<1>6. CASE Does(t, Append(Initialiser(c), <<"done", c>>)) /\ UNCHANGED thrown
  <2>a. "android" \in Loaders
    BY DEF Loaders
  <2>1. PICK p : p = Append(Initialiser(c), <<"done", c>>)
    OBVIOUS
  <2>2. \/ p = <<<<"find">>, <<"cast">>, <<"done", "Api">>>>
        \/ p = <<<<"get", "Api">>, <<"done", "Jni">>>>
        \/ p = <<<<"done", "Jni">>>>
        \/ p = <<<<"create">>, <<"done", "Context">>>>
    BY <2>1, Initialisers DEF Classes
  <2>3. p \in Seq(Tasks)
    BY <2>2, <2>a, LiteralTypes
  <2>4. p # <<>> /\ Rank(p[1]) # 4
    BY <2>2, Ranks
  <2>5. p[1] # <<"native">>
    BY <2>4, Ranks
  <2> QED
    BY <1>2, <1>3, <1>6, <2>1, <2>3, <2>4, <2>5, ReplacedOutside
<1> QED
  BY <1>4, <1>5, <1>6 DEF Get

LEMMA LoadingOutside ==
    ASSUME IInv, NEW t \in Threads,
           \/ \E l \in Loaders : Enter(t, l) \/ Leave(t, l)
           \/ Find(t) \/ Cast(t) \/ OpenJvm(t) \/ Return(t)
    PROVE  Outside(t)
<1>l. "jvm" \in Loaders /\ "android" \in Loaders
  BY DEF Loaders
<1>1. ASSUME NEW l \in Loaders, Enter(t, l) PROVE Outside(t)
  <2> DEFINE p == <<<<"open", l>>, <<"get", "Jni">>, <<"return">>, <<"leave", l>>>>
  <2>1. p \in Seq(Tasks)
    BY LiteralTypes
  <2>2. p # <<>> /\ Rank(p[1]) = 0
    BY Ranks
  <2>3. Does(t, p) /\ UNCHANGED thrown
    BY <1>1 DEF Enter
  <2> HIDE DEF p
  <2>4. p[1] # <<"native">>
    BY <2>2, Ranks
  <2>5. PICK x : x = <<"enter", l>>
    OBVIOUS
  <2>6. Current(t, x) /\ x # <<"native">>
    BY <1>1, <2>5, Ranks DEF Enter
  <2> QED
    BY <2>1, <2>2, <2>3, <2>4, <2>6, ReplacedOutside
<1>2. ASSUME NEW l \in Loaders, Leave(t, l) PROVE Outside(t)
  <2>1. PICK x : x = <<"leave", l>>
    OBVIOUS
  <2>2. Current(t, x) /\ x # <<"native">> /\ x # <<"check">>
    BY <1>2, <2>1, Ranks DEF Leave
  <2> QED
    BY <1>2, <2>2, PoppedOutside DEF Leave
<1>3. CASE Find(t)
  <2>1. PICK x : x = <<"find">>
    OBVIOUS
  <2>2. Current(t, x) /\ x # <<"native">>
    BY <1>3, <2>1 DEF Find
  <2>3. CASE Throws(t)
    BY <2>2, <2>3, ThrownOutside
  <2>4. ASSUME NEW l \in Loaders, Does(t, <<<<"enter", l>>>>), UNCHANGED thrown
        PROVE  Outside(t)
    <3>1. PICK p \in Seq(Tasks) : p = <<<<"enter", l>>>>
      BY LiteralTypes
    <3>2. p # <<>> /\ Rank(p[1]) = 0
      BY <3>1, Ranks
    <3>r. Rank(<<"native">>) = 4
      BY Ranks
    <3>3. p[1] # <<"native">>
      BY <3>2, <3>r
    <3> QED
      BY <2>2, <2>4, <3>1, <3>2, <3>3, ReplacedOutside
  <2> QED
    BY <1>3, <1>l, <2>3, <2>4 DEF Find
<1>4. CASE Cast(t)
  <2>1. PICK x : x = <<"cast">>
    OBVIOUS
  <2>2. Current(t, x) /\ x # <<"native">> /\ x # <<"check">>
    BY <1>4, <2>1 DEF Cast
  <2> QED
    BY <1>4, <2>2, ThrownOutside, PoppedOutside DEF Cast
<1>5. CASE OpenJvm(t)
  <2>1. PICK x : x = <<"open", "jvm">>
    OBVIOUS
  <2>2. Current(t, x) /\ x # <<"native">> /\ x # <<"check">>
    BY <1>5, <1>l, <2>1, Ranks DEF OpenJvm
  <2> QED
    BY <1>5, <2>2, ThrownOutside, PoppedOutside DEF OpenJvm
<1>6. CASE Return(t)
  <2>1. PICK x : x = <<"return">>
    OBVIOUS
  <2>2. Current(t, x) /\ x # <<"native">> /\ x # <<"check">>
    BY <1>6, <2>1 DEF Return
  <2> QED
    BY <1>6, <2>2, PoppedOutside DEF Return
<1> QED
  BY <1>1, <1>2, <1>3, <1>4, <1>5, <1>6

(* A stack that is not taken over from before.                             *)
LEMMA FreshOutside ==
    ASSUME IInv, NEW t \in Threads, ~InNative(t), NEW p \in Seq(Tasks),
           stack' = [stack EXCEPT ![t] = p], p # <<>>, Head(p) # <<"native">>, UNCHANGED thrown
    PROVE  Outside(t)
<1>1. stack'[t] = p /\ \A u \in Threads \ {t} : stack'[u] = stack[u]
  BY DEF IInv, TypeOK
<1> QED
  BY <1>1 DEF Outside, InNative, Current

LEMMA OpenAndroidOutside ==
    ASSUME IInv, NEW t \in Threads, OpenAndroid(t)
    PROVE  Outside(t)
<1>l. "jvm" \in Loaders /\ "android" \in Loaders
  BY DEF Loaders
<1>1. PICK x : x = <<"open", "android">>
  OBVIOUS
<1>2. Current(t, x) /\ x # <<"native">> /\ x # <<"check">>
  BY <1>l, <1>1, Ranks DEF OpenAndroid
<1>3. CASE Does(t, <<>>) /\ UNCHANGED thrown
  BY <1>2, <1>3, PoppedOutside
<1>4. CASE Throws(t)
  BY <1>2, <1>4, ThrownOutside
<1>5. CASE /\ stack' = [stack EXCEPT ![t] =
                 <<<<"enter", "jvm">>, <<"cast">>>> \o SubSeq(@, 4, Len(@))]
           /\ UNCHANGED thrown
  <2>1. /\ stack[t] \in Seq(Tasks) /\ stack[t] # <<>> /\ Head(stack[t]) = x
        /\ Shape(stack[t])
    BY <1>2, CurrentFacts
  <2>2. Len(stack[t]) >= 3
    BY <1>1, <1>l, <2>1 DEF Shape, OpensLoader
  <2>3. PICK q : q = SubSeq(stack[t], 4, Len(stack[t]))
    OBVIOUS
  <2>4. q \in Seq(Tasks)
    BY <2>1, <2>2, <2>3
  <2>5. PICK f \in Seq(Tasks) : f = <<<<"enter", "jvm">>, <<"cast">>>>
    BY <1>l, LiteralTypes
  <2>6. f # <<>> /\ Rank(f[1]) = 0
    BY <1>l, <2>5, Ranks
  <2>7. Rank(<<"native">>) = 4
    BY Ranks
  <2>8. f[1] # <<"native">>
    BY <2>6, <2>7
  <2>9. f \o q \in Seq(Tasks) /\ f \o q # <<>> /\ Head(f \o q) = f[1]
    <3>1. Len(f) > 0
      BY <2>6
    <3>2. f \o q \in Seq(Tasks) /\ Len(f \o q) > 0
      BY <2>4, <3>1
    <3>3. Head(f \o q) = f[1]
      BY <2>4, <2>6, HeadOfFront
    <3> QED
      BY <3>2, <3>3
  <2>10. stack' = [stack EXCEPT ![t] = f \o q]
    BY <1>5, <2>3, <2>5
  <2>11. ~InNative(t)
    BY <1>2 DEF InNative, Current
  <2> QED
    BY <1>5, <2>8, <2>9, <2>10, <2>11, FreshOutside
<1> QED
  BY <1>3, <1>4, <1>5 DEF OpenAndroid

LEMMA CallOutside ==
    ASSUME IInv, NEW t \in Threads, CallApi(t) \/ \E l \in Loaders : CallLoad(t, l)
    PROVE  Outside(t)
<1>1. ~InNative(t) /\ UNCHANGED thrown
  BY DEF CallApi, CallLoad, Idle, InNative, Current
<1>2. Rank(<<"native">>) = 4
  BY Ranks
<1>a. \A a, b, c, d, e \in Tasks :
          /\ <<a, b, c, d, e>> \in Seq(Tasks) /\ <<a, b, c, d, e>> # <<>>
          /\ Head(<<a, b, c, d, e>>) = a
  OBVIOUS
<1>b. \A a \in Tasks : <<a>> \in Seq(Tasks) /\ <<a>> # <<>> /\ Head(<<a>>) = a
  OBVIOUS
<1>3. CASE CallApi(t)
  <2>1. /\ <<"get", "Api">> \in Tasks /\ <<"get", "Context">> \in Tasks /\ <<"check">> \in Tasks
        /\ <<"native">> \in Tasks /\ <<"answer">> \in Tasks
    BY TaskTypes
  <2>2. PICK p \in Seq(Tasks) :
            /\ p = <<<<"get", "Api">>, <<"get", "Context">>, <<"check">>, <<"native">>, <<"answer">>>>
            /\ p # <<>> /\ Head(p) = <<"get", "Api">>
    <3> DEFINE q == <<<<"get", "Api">>, <<"get", "Context">>, <<"check">>, <<"native">>,
                      <<"answer">>>>
    <3>1. q \in Seq(Tasks) /\ q # <<>> /\ Head(q) = <<"get", "Api">>
      BY <1>a, <2>1
    <3> HIDE DEF q
    <3>2. \E p \in Seq(Tasks) : p = q /\ p # <<>> /\ Head(p) = <<"get", "Api">>
      BY <3>1
    <3> QED
      BY <3>2 DEF q
  <2>3. stack' = [stack EXCEPT ![t] = p]
    BY <1>3, <2>2 DEF CallApi
  <2>4. Rank(Head(p)) = 0
    BY <2>2, Ranks
  <2>5. Head(p) # <<"native">>
    BY <1>2, <2>4
  <2> QED
    BY <1>1, <2>2, <2>3, <2>5, FreshOutside
<1>4. ASSUME NEW l \in Loaders, CallLoad(t, l) PROVE Outside(t)
  <2>1. PICK p \in Seq(Tasks) : p = <<<<"enter", l>>>> /\ p # <<>> /\ Head(p) = <<"enter", l>>
    BY <1>b, TaskTypes
  <2>2. stack' = [stack EXCEPT ![t] = p]
    BY <1>4, <2>1 DEF CallLoad
  <2>3. Rank(Head(p)) = 0
    BY <2>1, Ranks
  <2>4. Head(p) # <<"native">>
    BY <1>2, <2>3
  <2> QED
    BY <1>1, <2>1, <2>2, <2>4, FreshOutside
<1> QED
  BY <1>3, <1>4

LEMMA UnwindOutside ==
    ASSUME IInv, NEW t \in Threads, Unwind(t)
    PROVE  Outside(t)
<1>1. TypeOK /\ thrown[t] = TRUE /\ stack[t] \in Seq(Tasks)
  BY DEF Unwind, IInv, TypeOK
<1>2. stack[t] # <<>>
  <2>1. Local(stack[t], TRUE)
    BY <1>1 DEF IInv
  <2> QED
    BY <2>1 DEF Local, Unwinds
<1>3. /\ stack'[t] = Tail(stack[t])
      /\ \A u \in Threads \ {t} : stack'[u] = stack[u] /\ thrown'[u] = thrown[u]
  BY <1>1 DEF Unwind, TypeOK
<1>4. thrown'[t] = (Len(stack[t]) > 1)
  BY <1>1 DEF Unwind, TypeOK
<1>5. stack'[t] # <<>> => Len(stack[t]) > 1
  <2>1. /\ Len(stack[t]) \in Nat /\ Tail(stack[t]) \in Seq(Tasks)
        /\ Len(Tail(stack[t])) = Len(stack[t]) - 1
    BY <1>1, <1>2, TailFacts
  <2>2. Tail(stack[t]) # <<>> => Len(Tail(stack[t])) > 0
    BY <2>1
  <2> QED
    BY <1>3, <2>1, <2>2
<1>6. ~InNative(t)'
  BY <1>4, <1>5 DEF InNative, Current
<1> QED
  BY <1>1, <1>3, <1>6 DEF Outside, InNative, Current

LEMMA ContextOutside ==
    ASSUME IInv, NEW t \in Threads, Create(t) \/ Hook(t) \/ \E c \in Classes : Done(t, c)
    PROVE  Outside(t)
<1>1. CASE Create(t)
  <2>1. PICK x : x = <<"create">>
    OBVIOUS
  <2>2. Current(t, x) /\ x # <<"native">> /\ x # <<"check">>
    BY <1>1, <2>1 DEF Create
  <2>3. CASE Throws(t)
    BY <2>2, <2>3, ThrownOutside
  <2>4. CASE Does(t, <<>>) /\ UNCHANGED thrown
    BY <2>2, <2>4, PoppedOutside
  <2>5. CASE Does(t, <<<<"hook">>>>) /\ UNCHANGED thrown
    <3>a. "android" \in Loaders
      BY DEF Loaders
    <3>1. PICK p \in Seq(Tasks) : p = <<<<"hook">>>>
      BY <3>a, LiteralTypes
    <3>2. p # <<>> /\ p[1] # <<"native">>
      BY <3>1
    <3> QED
      BY <2>2, <2>5, <3>1, <3>2, ReplacedOutside
  <2> QED
    BY <1>1, <2>3, <2>4, <2>5 DEF Create
<1>2. CASE Hook(t)
  <2>1. PICK x : x = <<"hook">>
    OBVIOUS
  <2>2. Current(t, x) /\ x # <<"native">> /\ x # <<"check">>
    BY <1>2, <2>1 DEF Hook
  <2> QED
    BY <1>2, <2>2, PoppedOutside DEF Hook
<1>3. ASSUME NEW c \in Classes, Done(t, c) PROVE Outside(t)
  <2>1. PICK x : x = <<"done", c>>
    OBVIOUS
  <2>2. Rank(x) \in {0, 2} /\ Rank(<<"native">>) = 4 /\ Rank(<<"check">>) = 3
    BY <2>1, Ranks DEF Classes
  <2>3. Current(t, x) /\ x # <<"native">> /\ x # <<"check">>
    BY <1>3, <2>1, <2>2 DEF Done
  <2> QED
    BY <1>3, <2>3, PoppedOutside DEF Done
<1> QED
  BY <1>1, <1>2, <1>3

(* The callback is installed before the class is done.                     *)
LEMMA PublishStep ==
    ASSUME IInv, NEW t \in Threads, NEW c \in Classes, Done(t, c)
    PROVE  [Shared!Next]_Shared!vars
<1> DEFINE uses == [u \in Threads |-> IF Current(u, <<"native">>) THEN context ELSE 0]
<1>1. Outside(t)
  BY ContextOutside
<1>2. UNCHANGED contextVars /\ cls' = [cls EXCEPT ![c] = "done"]
      /\ cls \in [Classes -> {"no", "done", "failed"}] /\ "Context" \in Classes
  BY DEF Done, IInv, TypeOK, Classes
<1>3. context' = context
  BY <1>2 DEF contextVars
<1>4. Published' = Published => UNCHANGED Shared!vars
  BY <1>1, <1>3, Unseen
<1>5. CASE c # "Context"
  <2>1. Published' = Published
    BY <1>2, <1>5 DEF Published, contextVars
  <2> QED
    BY <1>4, <2>1
<1>6. CASE c = "Context"
  <2>1. /\ stack[t] \in Seq(Tasks) /\ stack[t] # <<>> /\ Shape(stack[t])
        /\ Local(stack[t], FALSE) /\ Head(stack[t]) = <<"done", c>>
    BY CurrentFacts DEF Done
  <2>2. In(stack[t], <<"done", c>>)
    BY <2>1, UnderShape
  <2>3. cls["Context"] = "no" /\ cls'["Context"] = "done"
    BY <1>2, <1>6, <2>1, <2>2 DEF Local, Initialising
  <2>4. Published = 0
    BY <2>3 DEF Published
  <2>5. context \in {0, 1} /\ (context = 1 => 1 \in hooked)
    BY DEF IInv, OneContext
  <2>6. CASE context = 0
    <3>1. Published' = Published
      BY <1>3, <2>4, <2>6 DEF Published
    <3> QED
      BY <1>4, <3>1
  <2>7. CASE context = 1
    <3>1. Published' = 1
      BY <1>2, <2>3, <2>5, <2>7 DEF Published, contextVars
    <3>2. \A u \in Threads : ~InNative(u)
      BY <2>3, NativeReady
    <3>3. \A u \in Threads : InNative(u)' <=> InNative(u)
      BY <1>1 DEF Outside, InNative, Current
    <3>4. uses' = uses
      BY <3>2, <3>3 DEF InNative
    <3>5. Shared!Publish
      BY <2>4, <3>1, <3>4 DEF Shared!Publish
    <3> QED
      BY <3>5 DEF Shared!Next
  <2> QED
    BY <2>5, <2>6, <2>7
<1> QED
  BY <1>5, <1>6

(* A library call begins on the context that is published.                 *)
LEMMA BeginStep ==
    ASSUME IInv, NEW t \in Threads, Check(t)
    PROVE  [Shared!Next]_Shared!vars
<1> DEFINE uses == [u \in Threads |-> IF Current(u, <<"native">>) THEN context ELSE 0]
<1>1. /\ stack[t] \in Seq(Tasks) /\ stack[t] # <<>> /\ Shape(stack[t])
      /\ Local(stack[t], FALSE) /\ Head(stack[t]) = <<"check">> /\ TypeOK
      /\ Current(t, <<"check">>) /\ <<"check">> # <<"native">>
  BY CurrentFacts DEF Check
<1>2. Published' = Published /\ context' = context
  BY SamePublished DEF Check
<1>3. CASE Throws(t)
  <2>1. Outside(t)
    BY <1>1, <1>3, ThrownOutside
  <2> QED
    BY <1>2, <2>1, Unseen
<1>4. CASE context # 0 /\ Does(t, <<>>) /\ UNCHANGED thrown
  <2>1. PICK r : r = Tail(stack[t])
    OBVIOUS
  <2>2. stack'[t] = r /\ \A u \in Threads \ {t} : stack'[u] = stack[u]
    BY <1>1, <1>4, <2>1, NewStackPop
  <2>3. ~InNative(t) /\ \A u \in Threads \ {t} : InNative(u)' <=> InNative(u)
    BY <1>1, <1>4, <2>2 DEF InNative, Current
  <2>4. CASE InNative(t)'
    <3>1. IInv'
      BY CheckStep
    <3>2. Published' = 1 /\ context' = 1
      <4>1. ASSUME NEW u \in Threads, InNative(u) PROVE context = 1 /\ Published = 1
        BY <4>1, NativeReady
      <4>2. cls["Context"] = "done" /\ context = 1
        <5>1. /\ Rank(<<"check">>) = 3 /\ Rank(<<"get", "Context">>) = 2
              /\ Rank(<<"done", "Context">>) = 2
          BY Ranks
        <5>2. 3 = Rank(Head(stack[t]))
          BY <1>1, <5>1
        <5>3. \A y : In(Tail(stack[t]), y) => 3 < Rank(y)
          BY <1>1, <5>2, UnderRanks
        <5>4. \A y : In(stack[t], y) <=> y = <<"check">> \/ In(Tail(stack[t]), y)
          BY <1>1, UnderShape
        <5>5. ~In(stack[t], <<"get", "Context">>) /\ ~In(stack[t], <<"done", "Context">>)
          BY <5>1, <5>3, <5>4
        <5>6. In(stack[t], <<"answer">>)
          <6>1. In(stack[t], <<"check">>) /\ Rank(<<"check">>) > 0
            BY <5>1, <5>4
          <6> QED
            BY <1>1, <6>1, Under
        <5> QED
          BY <1>1, <1>4, <5>5, <5>6 DEF Local, ContextFirst, IInv, OneContext
      <4>3. 1 \in hooked
        BY <4>2 DEF IInv, OneContext
      <4> QED
        BY <1>2, <4>2, <4>3 DEF Published
    <3>3. Published # 0 /\ context = Published
      BY <1>2, <3>2
    <3>4. uses[t] = 0
      BY <2>3 DEF InNative
    <3>5. uses' = [uses EXCEPT ![t] = Published]
      <4>1. uses'[t] = Published
        BY <1>2, <2>4, <3>3 DEF InNative
      <4>2. \A u \in Threads \ {t} : uses'[u] = uses[u]
        BY <1>2, <2>3 DEF InNative
      <4> QED
        BY <4>1, <4>2
    <3>6. Shared!Begin(t)
      BY <1>2, <3>3, <3>4, <3>5 DEF Shared!Begin
    <3> QED
      BY <3>6 DEF Shared!Next
  <2>5. CASE ~InNative(t)'
    <3>1. Outside(t)
      BY <1>1, <1>4, <2>2, <2>3, <2>5 DEF Outside
    <3> QED
      BY <1>2, <3>1, Unseen
  <2> QED
    BY <2>4, <2>5
<1> QED
  BY <1>3, <1>4 DEF Check

LEMMA EndStep ==
    ASSUME IInv, NEW t \in Threads, Native(t)
    PROVE  [Shared!Next]_Shared!vars
<1> DEFINE uses == [u \in Threads |-> IF Current(u, <<"native">>) THEN context ELSE 0]
<1>1. /\ stack[t] \in Seq(Tasks) /\ stack[t] # <<>> /\ Shape(stack[t])
      /\ Head(stack[t]) = <<"native">> /\ TypeOK /\ InNative(t)
  BY CurrentFacts DEF Native, InNative
<1>2. Published' = Published /\ context' = context
  BY SamePublished DEF Native
<1>3. context = 1
  BY <1>1, NativeReady
<1>4. PICK r : r = Tail(stack[t])
  OBVIOUS
<1>5. r # <<>> => Head(r) # <<"native">>
  <2>1. <<"native">> # <<"check">>
    OBVIOUS
  <2> QED
    BY <1>1, <1>4, <2>1, Under
<1>6. stack'[t] = r /\ (\A u \in Threads \ {t} : stack'[u] = stack[u]) /\ thrown' = thrown
  BY <1>1, <1>4, NewStackPop DEF Native
<1>7. ~InNative(t)' /\ \A u \in Threads \ {t} : InNative(u)' <=> InNative(u)
  BY <1>5, <1>6 DEF InNative, Current
<1>8. uses[t] = 1
  BY <1>1, <1>3 DEF InNative
<1>9. uses' = [uses EXCEPT ![t] = 0]
  <2>1. uses'[t] = 0
    BY <1>7 DEF InNative
  <2>2. \A u \in Threads \ {t} : uses'[u] = uses[u]
    BY <1>2, <1>7 DEF InNative
  <2> QED
    BY <2>1, <2>2
<1>10. Shared!End(t)
  BY <1>2, <1>8, <1>9 DEF Shared!End
<1> QED
  BY <1>10 DEF Shared!Next

(* Every other step goes unseen.                                           *)
LEMMA OtherSteps ==
    ASSUME IInv, NEW t \in Threads,
           \/ CallApi(t) \/ (\E l \in Loaders : CallLoad(t, l) \/ Enter(t, l) \/ Leave(t, l))
           \/ (\E c \in Classes : Get(t, c))
           \/ Find(t) \/ Cast(t) \/ OpenJvm(t) \/ OpenAndroid(t) \/ Return(t)
           \/ Create(t) \/ Hook(t) \/ Unwind(t)
    PROVE  [Shared!Next]_Shared!vars
<1>1. Outside(t)
  BY CallOutside, GetOutside, LoadingOutside, OpenAndroidOutside, ContextOutside, UnwindOutside
<1>2. CASE Hook(t)
  <2>1. /\ stack[t] \in Seq(Tasks) /\ stack[t] # <<>> /\ Shape(stack[t])
        /\ Local(stack[t], FALSE) /\ Head(stack[t]) = <<"hook">>
    BY <1>2, CurrentFacts DEF Hook
  <2>2. PICK x : x = <<"hook">>
    OBVIOUS
  <2>3. In(Tail(stack[t]), <<"done", "Context">>)
    BY <2>1, <2>2, Under
  <2>4. In(stack[t], <<"done", "Context">>)
    BY <2>1, <2>3, UnderShape
  <2>5. cls["Context"] = "no"
    BY <2>1, <2>4 DEF Local, Initialising, Classes
  <2>6. cls' = cls
    BY <1>2 DEF Hook
  <2>7. Published = 0 /\ Published' = 0
    BY <2>5, <2>6 DEF Published
  <2>8. \A u \in Threads : ~InNative(u)
    BY <2>5, NativeReady
  <2> QED
    BY <1>1, <2>7, <2>8, Unseen
<1>3. CASE Unwind(t)
  <2>1. UNCHANGED contextVars
    BY <1>3 DEF Unwind
  <2>2. /\ \A c \in Classes : cls[c] # "no" => cls'[c] = cls[c]
        /\ "Context" \in Classes /\ cls \in [Classes -> {"no", "done", "failed"}]
    BY <1>3, Final DEF Next, Step, Classes, IInv, TypeOK
  <2>3. cls["Context"] = "no" => cls'["Context"] # "done"
    <3>1. PICK x : x = Head(stack[t])
      OBVIOUS
    <3>2. cls' = IF x[1] = "done" THEN [cls EXCEPT ![x[2]] = "failed"] ELSE cls
      BY <1>3, <3>1 DEF Unwind, EndsTask
    <3> QED
      BY <2>2, <3>2
  <2>4. Published' = Published /\ context' = context
    BY <2>1, <2>2, <2>3 DEF Published, contextVars
  <2> QED
    BY <1>1, <2>4, Unseen
<1>4. CASE \/ CallApi(t) \/ (\E l \in Loaders : CallLoad(t, l) \/ Enter(t, l) \/ Leave(t, l))
           \/ (\E c \in Classes : Get(t, c))
           \/ Find(t) \/ Cast(t) \/ OpenJvm(t) \/ OpenAndroid(t) \/ Return(t)
  <2>1. UNCHANGED <<cls, contextVars>>
    BY <1>4 DEF CallApi, CallLoad, Enter, Leave, Get, Find, Cast, OpenJvm, OpenAndroid, Return
  <2>2. Published' = Published /\ context' = context
    BY <2>1, SamePublished
  <2> QED
    BY <1>1, <2>2, Unseen
<1>5. CASE Create(t)
  <2>1. Published' = Published /\ context' = context
    BY <1>5 DEF Create, Published
  <2> QED
    BY <1>1, <2>1, Unseen
<1> QED
  BY <1>2, <1>3, <1>4, <1>5

LEMMA SharedInit == Init => Shared!Init
<1> SUFFICES ASSUME Init PROVE Shared!Init
  OBVIOUS
<1>1. Published = 0
  BY DEF Init, Published, Classes
<1>2. \A u \in Threads : ~Current(u, <<"native">>)
  BY DEF Init, Current
<1> QED
  BY <1>1, <1>2 DEF Shared!Init

(* The context of the JVM is the one context both backends promise,        *)
(* whatever the threads meet in the initialisers and the loaders.          *)
THEOREM ImplementsShared == Spec => ContextShared
<1>1. IInv /\ [Next]_vars => [Shared!Next]_Shared!vars
  <2> SUFFICES ASSUME IInv, [Next]_vars PROVE [Shared!Next]_Shared!vars
    OBVIOUS
  <2>1. CASE UNCHANGED vars
    <3>1. UNCHANGED Shared!vars
      BY <2>1 DEF vars, Shared!vars, Published, Current
    <3> QED
      BY <3>1
  <2>2. ASSUME NEW t \in Threads,
               CallApi(t) \/ (\E l \in Loaders : CallLoad(t, l)) \/ Step(t)
        PROVE  [Shared!Next]_Shared!vars
    <3>1. CASE Check(t)
      BY <3>1, BeginStep
    <3>2. CASE Native(t)
      BY <3>2, EndStep
    <3>3. CASE \E c \in Classes : Done(t, c)
      BY <3>3, PublishStep
    <3>4. CASE Answer(t)
      <4>1. PICK x : x = <<"answer">>
        OBVIOUS
      <4>2. Current(t, x) /\ x # <<"native">> /\ x # <<"check">>
        BY <3>4, <4>1 DEF Answer
      <4>3. Outside(t)
        BY <3>4, <4>2, PoppedOutside DEF Answer
      <4>4. Published' = Published /\ context' = context
        BY <3>4, SamePublished DEF Answer
      <4> QED
        BY <4>3, <4>4, Unseen
    <3> QED
      BY <2>2, <3>1, <3>2, <3>3, <3>4, OtherSteps DEF Step
  <2> QED
    BY <2>1, <2>2 DEF Next
<1> QED
  BY <1>1, SharedInit, InitIInv, NextIInv, PTL DEF Spec, ContextShared, Shared!Spec

-----------------------------------------------------------------------------
(* Nobody waits for a thread that waits.                                   *)

(* The context is initialised after the companion.                         *)
ContextAfterApi ==
    \A t \in Threads : In(stack[t], <<"done", "Context">>) => cls["Api"] = "done"

Begins(t) == Current(t, <<"get", "Context">>)

(* A step begins the initialisation of the context only in a thread whose  *)
(* current task it is.                                                     *)
NoneBegun(t) ==
    \A u \in Threads :
        In(stack'[u], <<"done", "Context">>) =>
            In(stack[u], <<"done", "Context">>) \/ (u = t /\ Begins(t))

LEMMA InFront ==
    ASSUME NEW p \in Seq(Tasks), NEW r \in Seq(Tasks), NEW x, In(p \o r, x)
    PROVE  In(p, x) \/ In(r, x)
<1>1. /\ Len(p) \in Nat /\ Len(r) \in Nat /\ DOMAIN p = 1..Len(p) /\ DOMAIN r = 1..Len(r)
      /\ DOMAIN (p \o r) = 1..(Len(p) + Len(r))
      /\ \A i \in 1..(Len(p) + Len(r)) :
            (p \o r)[i] = IF i <= Len(p) THEN p[i] ELSE r[i - Len(p)]
  OBVIOUS
<1>2. PICK i \in 1..(Len(p) + Len(r)) : (p \o r)[i] = x
  BY <1>1 DEF In
<1>3. CASE i <= Len(p)
  <2>1. i \in DOMAIN p /\ p[i] = x
    BY <1>1, <1>2, <1>3
  <2> QED
    BY <2>1 DEF In
<1>4. CASE i > Len(p)
  <2>1. i - Len(p) \in DOMAIN r /\ r[i - Len(p)] = x
    BY <1>1, <1>2, <1>4
  <2> QED
    BY <2>1 DEF In
<1> QED
  BY <1>1, <1>2, <1>3, <1>4

LEMMA PoppedNone ==
    ASSUME TypeOK, NEW t \in Threads, stack[t] # <<>>, Does(t, <<>>)
    PROVE  NoneBegun(t)
<1>1. stack'[t] = Tail(stack[t]) /\ \A u \in Threads \ {t} : stack'[u] = stack[u]
  BY NewStackPop
<1>2. \A y : In(stack[t], y) <=> y = Head(stack[t]) \/ In(Tail(stack[t]), y)
  BY InTail DEF TypeOK
<1> QED
  BY <1>1, <1>2 DEF NoneBegun

LEMMA ReplacedNone ==
    ASSUME TypeOK, NEW t \in Threads, stack[t] # <<>>, NEW p \in Seq(Tasks), Does(t, p),
           ~In(p, <<"done", "Context">>) \/ Begins(t)
    PROVE  NoneBegun(t)
<1>1. /\ stack'[t] = p \o Tail(stack[t])
      /\ \A u \in Threads \ {t} : stack'[u] = stack[u]
  BY NewStack
<1>2. \A y : In(stack[t], y) <=> y = Head(stack[t]) \/ In(Tail(stack[t]), y)
  BY InTail DEF TypeOK
<1>3. Tail(stack[t]) \in Seq(Tasks)
  BY DEF TypeOK
<1>4. \A y : In(stack'[t], y) => In(p, y) \/ In(Tail(stack[t]), y)
  BY <1>1, <1>3, InFront
<1> QED
  BY <1>1, <1>2, <1>4 DEF NoneBegun

LEMMA KeptNone ==
    ASSUME NEW t \in Threads, stack' = stack
    PROVE  NoneBegun(t)
BY DEF NoneBegun

(* None of what the other steps put on a stack begins it.                  *)
LEMMA Harmless ==
    ASSUME NEW l \in Loaders
    PROVE  /\ ~In(<<<<"find">>, <<"cast">>, <<"done", "Api">>>>, <<"done", "Context">>)
           /\ ~In(<<<<"get", "Api">>, <<"done", "Jni">>>>, <<"done", "Context">>)
           /\ ~In(<<<<"done", "Jni">>>>, <<"done", "Context">>)
           /\ ~In(<<<<"hook">>>>, <<"done", "Context">>)
           /\ ~In(<<<<"enter", l>>>>, <<"done", "Context">>)
           /\ ~In(<<<<"enter", l>>, <<"cast">>>>, <<"done", "Context">>)
           /\ ~In(<<<<"open", l>>, <<"get", "Jni">>, <<"return">>, <<"leave", l>>>>,
                  <<"done", "Context">>)
           /\ ~In(<<<<"get", "Api">>, <<"get", "Context">>, <<"check">>, <<"native">>,
                    <<"answer">>>>, <<"done", "Context">>)
<1> DEFINE d == <<"done", "Context">>
<1>1. /\ <<"find">> # d /\ <<"cast">> # d /\ <<"hook">> # d /\ <<"return">> # d
      /\ <<"check">> # d /\ <<"native">> # d /\ <<"answer">> # d
  OBVIOUS
<1>2. /\ <<"get", "Api">> # d /\ <<"get", "Context">> # d /\ <<"get", "Jni">> # d
      /\ <<"done", "Api">> # d /\ <<"done", "Jni">> # d
      /\ <<"enter", l>> # d /\ <<"open", l>> # d /\ <<"leave", l>> # d
  OBVIOUS
<1> HIDE DEF d
<1>3. \A a : a # d => ~In(<<a>>, d)
  BY DEF In
<1>4. \A a, b : a # d /\ b # d => ~In(<<a, b>>, d)
  BY DEF In
<1>5. \A a, b, c : a # d /\ b # d /\ c # d => ~In(<<a, b, c>>, d)
  BY DEF In
<1>6. \A a, b, c, e : a # d /\ b # d /\ c # d /\ e # d => ~In(<<a, b, c, e>>, d)
  BY DEF In
<1>7. \A a, b, c, e, f : a # d /\ b # d /\ c # d /\ e # d /\ f # d => ~In(<<a, b, c, e, f>>, d)
  BY DEF In
<1>8. ~In(<<<<"find">>, <<"cast">>, <<"done", "Api">>>>, d)
  BY <1>1, <1>2, <1>5
<1>9. /\ ~In(<<<<"get", "Api">>, <<"done", "Jni">>>>, d)
      /\ ~In(<<<<"enter", l>>, <<"cast">>>>, d)
  BY <1>1, <1>2, <1>4
<1>10. /\ ~In(<<<<"done", "Jni">>>>, d) /\ ~In(<<<<"hook">>>>, d) /\ ~In(<<<<"enter", l>>>>, d)
  BY <1>1, <1>2, <1>3
<1>11. ~In(<<<<"open", l>>, <<"get", "Jni">>, <<"return">>, <<"leave", l>>>>, d)
  BY <1>1, <1>2, <1>6
<1>12. ~In(<<<<"get", "Api">>, <<"get", "Context">>, <<"check">>, <<"native">>,
             <<"answer">>>>, d)
  BY <1>1, <1>2, <1>7
<1> QED
  BY <1>8, <1>9, <1>10, <1>11, <1>12 DEF d

LEMMA GetNone ==
    ASSUME IInv, NEW t \in Threads, NEW c \in Classes, Get(t, c)
    PROVE  NoneBegun(t)
<1>1. TypeOK /\ stack[t] # <<>> /\ Current(t, <<"get", c>>)
  BY DEF IInv, Get, Current
<1>2. CASE Throws(t)
  BY <1>2, KeptNone DEF Throws
<1>3. CASE Does(t, <<>>)
  BY <1>1, <1>3, PoppedNone
<1>4. CASE Does(t, Append(Initialiser(c), <<"done", c>>))
  <2>a. "android" \in Loaders
    BY DEF Loaders
  <2>1. PICK p : p = Append(Initialiser(c), <<"done", c>>)
    OBVIOUS
  <2>2. \/ p = <<<<"find">>, <<"cast">>, <<"done", "Api">>>>
        \/ p = <<<<"get", "Api">>, <<"done", "Jni">>>>
        \/ p = <<<<"done", "Jni">>>>
        \/ p = <<<<"create">>, <<"done", "Context">>>> /\ c = "Context"
    BY <2>1, Initialisers DEF Classes
  <2>3. p \in Seq(Tasks)
    BY <2>2, <2>a, LiteralTypes
  <2>4. ~In(p, <<"done", "Context">>) \/ c = "Context"
    BY <2>2, <2>a, Harmless
  <2>5. ~In(p, <<"done", "Context">>) \/ Begins(t)
    BY <1>1, <2>4 DEF Begins
  <2> QED
    BY <1>1, <1>4, <2>1, <2>3, <2>5, ReplacedNone
<1> QED
  BY <1>2, <1>3, <1>4 DEF Get

LEMMA EnterNone ==
    ASSUME IInv, NEW t \in Threads, NEW l \in Loaders,
           Enter(t, l) \/ Leave(t, l) \/ Find(t)
    PROVE  NoneBegun(t)
<1>1. TypeOK /\ stack[t] # <<>>
  BY DEF IInv, Enter, Leave, Find, Current
<1>2. CASE Enter(t, l)
  <2>1. PICK p \in Seq(Tasks) :
            /\ p = <<<<"open", l>>, <<"get", "Jni">>, <<"return">>, <<"leave", l>>>>
            /\ ~In(p, <<"done", "Context">>)
    BY LiteralTypes, Harmless
  <2>2. Does(t, p)
    BY <1>2, <2>1 DEF Enter
  <2> QED
    BY <1>1, <2>1, <2>2, ReplacedNone
<1>3. CASE Leave(t, l)
  BY <1>1, <1>3, PoppedNone DEF Leave
<1>4. CASE Find(t)
  <2>1. CASE Throws(t)
    BY <2>1, KeptNone DEF Throws
  <2>2. ASSUME NEW k \in Loaders, Does(t, <<<<"enter", k>>>>) PROVE NoneBegun(t)
    <3>1. PICK p \in Seq(Tasks) : p = <<<<"enter", k>>>> /\ ~In(p, <<"done", "Context">>)
      BY LiteralTypes, Harmless
    <3>2. Does(t, p)
      BY <2>2, <3>1
    <3> QED
      BY <1>1, <3>1, <3>2, ReplacedNone
  <2>3. "jvm" \in Loaders /\ "android" \in Loaders
    BY DEF Loaders
  <2> QED
    BY <1>4, <2>1, <2>2, <2>3 DEF Find
<1> QED
  BY <1>2, <1>3, <1>4

LEMMA OpenAndroidNone ==
    ASSUME IInv, NEW t \in Threads, OpenAndroid(t)
    PROVE  NoneBegun(t)
<1>l. "jvm" \in Loaders /\ "android" \in Loaders
  BY DEF Loaders
<1>x. PICK x : x = <<"open", "android">>
  OBVIOUS
<1>y. Current(t, x)
  BY <1>x DEF OpenAndroid
<1>0. /\ stack[t] \in Seq(Tasks) /\ stack[t] # <<>> /\ Shape(stack[t])
      /\ Head(stack[t]) = x /\ TypeOK
  BY <1>y, CurrentFacts
<1>1. CASE Does(t, <<>>)
  BY <1>0, <1>1, PoppedNone
<1>2. CASE Throws(t)
  BY <1>2, KeptNone DEF Throws
<1>3. CASE stack' = [stack EXCEPT ![t] =
                 <<<<"enter", "jvm">>, <<"cast">>>> \o SubSeq(@, 4, Len(@))]
  <2>1. PICK q : q = SubSeq(stack[t], 4, Len(stack[t]))
    OBVIOUS
  <2>2. Len(stack[t]) >= 3
    BY <1>0, <1>x, <1>l DEF Shape, OpensLoader
  <2>3. q \in Seq(Tasks)
    BY <1>0, <2>1, <2>2
  <2>4. \A y : In(q, y) => In(stack[t], y)
    <3> SUFFICES ASSUME NEW y, NEW i \in DOMAIN q, q[i] = y PROVE In(stack[t], y)
      BY DEF In
    <3>1. i + 3 \in DOMAIN stack[t] /\ stack[t][i + 3] = y
      BY <1>0, <2>1, <2>2
    <3> QED
      BY <3>1 DEF In
  <2>5. PICK f \in Seq(Tasks) : /\ f = <<<<"enter", "jvm">>, <<"cast">>>>
                                /\ ~In(f, <<"done", "Context">>)
    BY <1>l, LiteralTypes, Harmless
  <2>6. stack'[t] = f \o q /\ \A u \in Threads \ {t} : stack'[u] = stack[u]
    BY <1>0, <1>3, <2>1, <2>5 DEF TypeOK
  <2>7. \A y : In(stack'[t], y) => In(f, y) \/ In(q, y)
    BY <2>3, <2>6, InFront
  <2> QED
    BY <2>4, <2>5, <2>6, <2>7 DEF NoneBegun
<1> QED
  BY <1>1, <1>2, <1>3 DEF OpenAndroid

LEMMA CallNone ==
    ASSUME IInv, NEW t \in Threads, CallApi(t) \/ \E l \in Loaders : CallLoad(t, l)
    PROVE  NoneBegun(t)
<1>1. CASE CallApi(t)
  <2> DEFINE p == <<<<"get", "Api">>, <<"get", "Context">>, <<"check">>, <<"native">>, <<"answer">>>>
  <2>1. ~In(p, <<"done", "Context">>)
    BY Harmless DEF Loaders
  <2>2. stack' = [stack EXCEPT ![t] = p]
    BY <1>1 DEF CallApi
  <2> HIDE DEF p
  <2> QED
    BY <2>1, <2>2 DEF NoneBegun, IInv, TypeOK
<1>2. ASSUME NEW l \in Loaders, CallLoad(t, l) PROVE NoneBegun(t)
  <2> DEFINE p == <<<<"enter", l>>>>
  <2>1. ~In(p, <<"done", "Context">>)
    BY Harmless
  <2>2. stack' = [stack EXCEPT ![t] = p]
    BY <1>2 DEF CallLoad
  <2> HIDE DEF p
  <2> QED
    BY <2>1, <2>2 DEF NoneBegun, IInv, TypeOK
<1> QED
  BY <1>1, <1>2

LEMMA UnwindNone ==
    ASSUME IInv, NEW t \in Threads, Unwind(t)
    PROVE  NoneBegun(t)
<1>1. TypeOK /\ thrown[t] = TRUE /\ stack[t] \in Seq(Tasks)
  BY DEF Unwind, IInv, TypeOK
<1>2. stack[t] # <<>>
  <2>1. Local(stack[t], TRUE)
    BY <1>1 DEF IInv
  <2> QED
    BY <2>1 DEF Local, Unwinds
<1>3. stack'[t] = Tail(stack[t]) /\ \A u \in Threads \ {t} : stack'[u] = stack[u]
  BY <1>1 DEF Unwind, TypeOK
<1>4. \A y : In(stack[t], y) <=> y = Head(stack[t]) \/ In(Tail(stack[t]), y)
  BY <1>1, <1>2, InTail
<1> QED
  BY <1>3, <1>4 DEF NoneBegun

LEMMA CreateNone ==
    ASSUME IInv, NEW t \in Threads, Create(t)
    PROVE  NoneBegun(t)
<1>1. TypeOK /\ stack[t] # <<>>
  BY DEF IInv, Create, Current
<1>2. CASE Throws(t)
  BY <1>2, KeptNone DEF Throws
<1>3. CASE Does(t, <<>>)
  BY <1>1, <1>3, PoppedNone
<1>4. CASE Does(t, <<<<"hook">>>>)
  <2>1. PICK p \in Seq(Tasks) : p = <<<<"hook">>>> /\ ~In(p, <<"done", "Context">>)
    BY LiteralTypes, Harmless DEF Loaders
  <2> QED
    BY <1>1, <1>4, <2>1, ReplacedNone
<1> QED
  BY <1>2, <1>3, <1>4 DEF Create

LEMMA StepNone ==
    ASSUME IInv, NEW t \in Threads, Step(t)
    PROVE  NoneBegun(t)
<1>0. TypeOK
  BY DEF IInv
<1>1. ASSUME NEW c \in Classes, Get(t, c) PROVE NoneBegun(t)
  BY <1>1, GetNone
<1>2. ASSUME NEW c \in Classes, Done(t, c) PROVE NoneBegun(t)
  <2>1. stack[t] # <<>> /\ Does(t, <<>>)
    BY <1>2 DEF Done, Current
  <2> QED
    BY <1>0, <2>1, PoppedNone
<1>3. ASSUME NEW l \in Loaders, Enter(t, l) \/ Leave(t, l) PROVE NoneBegun(t)
  BY <1>3, EnterNone
<1>4. CASE Find(t)
  BY <1>4, EnterNone DEF Loaders
<1>5. CASE Cast(t) \/ Check(t) \/ OpenJvm(t)
  <2>1. stack[t] # <<>> /\ (Does(t, <<>>) \/ stack' = stack)
    BY <1>5 DEF Cast, Check, OpenJvm, Current, Throws
  <2> QED
    BY <1>0, <2>1, PoppedNone, KeptNone
<1>6. CASE Return(t) \/ Hook(t) \/ Native(t) \/ Answer(t)
  <2>1. stack[t] # <<>> /\ Does(t, <<>>)
    BY <1>6 DEF Return, Hook, Native, Answer, Current
  <2> QED
    BY <1>0, <2>1, PoppedNone
<1>7. CASE OpenAndroid(t)
  BY <1>7, OpenAndroidNone
<1>8. CASE Create(t)
  BY <1>8, CreateNone
<1>9. CASE Unwind(t)
  BY <1>9, UnwindNone
<1> QED
  BY <1>1, <1>2, <1>3, <1>4, <1>5, <1>6, <1>7, <1>8, <1>9 DEF Step

(* A thread at the context has been past the companion.                    *)
LEMMA BeginsAfterApi ==
    ASSUME IInv, NEW t \in Threads, Begins(t)
    PROVE  cls["Api"] = "done"
<1>1. /\ stack[t] \in Seq(Tasks) /\ stack[t] # <<>> /\ Shape(stack[t])
      /\ Local(stack[t], FALSE) /\ Head(stack[t]) = <<"get", "Context">>
  BY CurrentFacts DEF Begins
<1>2. /\ Rank(<<"get", "Context">>) = 2 /\ Rank(<<"done", "Api">>) = 0
      /\ Rank(<<"get", "Api">>) = 0
  BY Ranks
<1>3. \A y : In(stack[t], y) <=> y = <<"get", "Context">> \/ In(Tail(stack[t]), y)
  BY <1>1, UnderShape
<1>4. 2 = Rank(Head(stack[t]))
  BY <1>1, <1>2
<1>5. \A y : In(Tail(stack[t]), y) => 2 < Rank(y)
  BY <1>1, <1>4, UnderRanks
<1>6. ~In(stack[t], <<"done", "Api">>) /\ Head(stack[t]) # <<"get", "Api">>
  BY <1>1, <1>2, <1>3, <1>5
<1>7. In(stack[t], <<"answer">>)
  <2>1. In(stack[t], <<"get", "Context">>) /\ Rank(<<"get", "Context">>) > 0
    BY <1>2, <1>3
  <2> QED
    BY <1>1, <2>1, Under
<1> QED
  BY <1>1, <1>6, <1>7 DEF Local, ApiFirst

LEMMA NextContextAfterApi ==
    ASSUME IInv, ContextAfterApi, [Next]_vars
    PROVE  ContextAfterApi'
<1>1. cls["Api"] = "done" => cls'["Api"] = "done"
  BY Final DEF Classes
<1>2. ASSUME NEW t \in Threads,
             CallApi(t) \/ (\E l \in Loaders : CallLoad(t, l)) \/ Step(t)
      PROVE  ContextAfterApi'
  <2>1. NoneBegun(t)
    BY <1>2, CallNone, StepNone
  <2> QED
    BY <1>1, <2>1, BeginsAfterApi DEF NoneBegun, ContextAfterApi
<1>3. CASE UNCHANGED vars
  BY <1>1, <1>3 DEF ContextAfterApi, vars
<1> QED
  BY <1>2, <1>3 DEF Next

(* In a call of the API whoever is in a loader or initialises Secp256k1Jni *)
(* initialises the companion.                                              *)
LEMMA HoldsApi ==
    ASSUME IInv, OnlyApiNow, NEW t \in Threads, NEW x, In(stack[t], x),
           \/ x = <<"done", "Api">> \/ x = <<"done", "Jni">> \/ x = <<"get", "Jni">>
           \/ \E l \in Loaders : x \in {<<"enter", l>>, <<"leave", l>>}
    PROVE  In(stack[t], <<"done", "Api">>)
<1>1. stack[t] \in Seq(Tasks) /\ Shape(stack[t])
  BY DEF IInv, TypeOK, Local
<1>2. stack[t] # <<>>
  BY DEF In
<1>3. In(stack[t], <<"answer">>)
  <2>1. Len(stack[t]) \in DOMAIN stack[t]
    BY <1>1, <1>2
  <2>2. stack[t][Len(stack[t])] = <<"answer">>
    BY <1>2 DEF OnlyApiNow
  <2> QED
    BY <2>1, <2>2 DEF In
<1>4. CASE x # <<"done", "Api">>
  <2>1. Rank(x) = 0 /\ x # <<"get", "Api">>
    <3>1. CASE x = <<"done", "Jni">> \/ x = <<"get", "Jni">>
      BY <3>1, Ranks
    <3>2. ASSUME NEW l \in Loaders, x \in {<<"enter", l>>, <<"leave", l>>}
          PROVE  Rank(x) = 0 /\ x # <<"get", "Api">>
      <4>1. PICK w : w = <<"get", "Api">>
        OBVIOUS
      <4>2. CASE x = <<"enter", l>>
        <5>1. Rank(x) = 0
          BY <4>2, Ranks
        <5>2. x # w
          BY <4>1, <4>2
        <5> QED
          BY <4>1, <5>1, <5>2
      <4>3. CASE x = <<"leave", l>>
        <5>1. Rank(x) = 0
          BY <4>3, Ranks
        <5>2. x # w
          BY <4>1, <4>3
        <5> QED
          BY <4>1, <5>1, <5>2
      <4> QED
        BY <3>2, <4>2, <4>3
    <3> QED
      BY <1>4, <3>1, <3>2
  <2>2. Inner(x)
    BY <1>4, <2>1 DEF Inner
  <2>3. PICK i \in DOMAIN stack[t] : stack[t][i] = x
    BY DEF In
  <2> QED
    BY <1>1, <1>3, <2>2, <2>3 DEF Shape, ApiInside
<1> QED
  BY <1>4

LEMMA NobodyWaitsForAWaiter ==
    ASSUME IInv, ContextAfterApi, OnlyApiNow,
           NEW t \in Threads, NEW u \in Threads, NEW v \in Threads,
           WaitsFor(t, u), WaitsFor(u, v)
    PROVE  FALSE
<1>1. PICK y : /\ In(stack[u], y)
               /\ \/ y = <<"done", "Context">> \/ y = <<"done", "Api">> \/ y = <<"done", "Jni">>
                  \/ \E l \in Loaders : y = <<"leave", l>>
  <2>1. CASE \E c \in Classes : Has(u, <<"done", c>>)
    BY <2>1 DEF Has, In, Classes
  <2>2. CASE \E l \in Loaders : Has(u, <<"leave", l>>)
    BY <2>2 DEF Has, In
  <2> QED
    BY <2>1, <2>2 DEF WaitsFor
<1>2. ASSUME In(stack[u], <<"done", "Api">>), In(stack[v], <<"done", "Api">>) PROVE FALSE
  BY <1>2 DEF IInv, OneInitialiser, WaitsFor, Classes
<1>3. y # <<"done", "Context">> => In(stack[u], <<"done", "Api">>)
  BY <1>1, HoldsApi
<1>4. ASSUME NEW x, Current(u, x)
      PROVE  /\ In(stack[u], x) /\ Head(stack[u]) = x
             /\ \A k : k = Rank(x) /\ k > 0 => \A z : In(stack[u], z) => z = x \/ k < Rank(z)
  <2>1. /\ stack[u] \in Seq(Tasks) /\ stack[u] # <<>> /\ Shape(stack[u])
        /\ Head(stack[u]) = x
    BY <1>4, CurrentFacts
  <2>2. \A z : In(stack[u], z) <=> z = x \/ In(Tail(stack[u]), z)
    BY <2>1, UnderShape
  <2> QED
    BY <2>1, <2>2, UnderRanks
<1>5. ASSUME Current(u, <<"get", "Api">>), Has(v, <<"done", "Api">>) PROVE FALSE
  <2>1. In(stack[v], <<"done", "Api">>)
    BY <1>5 DEF Has, In
  <2>2. cls["Api"] = "no"
    BY <2>1 DEF IInv, Local, Initialising, Classes
  <2>3. y # <<"done", "Context">>
    BY <1>1, <2>2 DEF ContextAfterApi
  <2> QED
    BY <1>2, <1>3, <2>1, <2>3
<1>6. ASSUME Current(u, <<"get", "Jni">>), Has(v, <<"done", "Jni">>) PROVE FALSE
  <2>1. In(stack[v], <<"done", "Jni">>) /\ In(stack[u], <<"get", "Jni">>)
    BY <1>4, <1>6 DEF Has, In
  <2> QED
    BY <1>2, <2>1, HoldsApi
<1>7. ASSUME Current(u, <<"get", "Context">>) PROVE FALSE
  <2>1. /\ Rank(<<"get", "Context">>) = 2 /\ Rank(<<"done", "Context">>) = 2
        /\ Rank(<<"done", "Api">>) = 0
    BY Ranks
  <2>2. \A z : In(stack[u], z) => z = <<"get", "Context">> \/ 2 < Rank(z)
    BY <1>4, <1>7, <2>1
  <2>3. <<"done", "Context">> # <<"get", "Context">>
    OBVIOUS
  <2>4. ~In(stack[u], <<"done", "Context">>)
    BY <2>1, <2>2, <2>3
  <2>5. ~In(stack[u], <<"done", "Api">>)
    BY <2>1, <2>2
  <2> QED
    BY <1>1, <1>3, <2>4, <2>5
<1>8. ASSUME NEW l \in Loaders, Current(u, <<"enter", l>>), Has(v, <<"leave", l>>) PROVE FALSE
  <2>1. In(stack[v], <<"leave", l>>) /\ In(stack[u], <<"enter", l>>)
    BY <1>4, <1>8 DEF Has, In
  <2> QED
    BY <1>2, <2>1, HoldsApi
<1> QED
  BY <1>5, <1>6, <1>7, <1>8 DEF WaitsFor, Classes

(* As long as only the API is called no thread waits for a thread that     *)
(* waits, so no cycle of them can form in the class initialisers and the   *)
(* synchronized load().                                                    *)
THEOREM NoCycle == Spec => []NoWaitingChain
<1>1. Init => ContextAfterApi
  BY DEF Init, ContextAfterApi, In
<1>2. IInv /\ ContextAfterApi /\ [Next]_vars => ContextAfterApi'
  BY NextContextAfterApi
<1>3. IInv /\ ContextAfterApi => NoWaitingChain
  BY NobodyWaitsForAWaiter DEF NoWaitingChain
<1> QED
  BY <1>1, <1>2, <1>3, InitIInv, NextIInv, PTL DEF Spec
=============================================================================
