--------------------------- MODULE ExecutorProofs ---------------------------
(***************************************************************************)
(* What the operations of a TaskExecutor do to the number of tasks of a    *)
(* kind that it holds, for any kind, and facts about counting that the     *)
(* proofs of the modules with an executor share.                           *)
(***************************************************************************)
EXTENDS TaskExecutor, FiniteSetTheorems, SequenceTheorems, TLAPS

(* The number of elements of s that are in S. *)
Number(s, S) == Cardinality({i \in DOMAIN s : s[i] \in S})

One(b) == IF b THEN 1 ELSE 0

(* The number of tasks of S that are queued or running. *)
Holds(ex, S) == Number(ex.tasks, S) + One(ex.busy \in S)
-----------------------------------------------------------------------------
LEMMA NumberType ==
  ASSUME NEW T, NEW s \in Seq(T), NEW S
  PROVE  /\ IsFiniteSet({i \in DOMAIN s : s[i] \in S})
         /\ Number(s, S) \in Nat /\ Len(s) \in Nat /\ Number(s, S) <= Len(s)
<1> DEFINE I == {i \in DOMAIN s : s[i] \in S}
<1>1. Len(s) \in Nat /\ DOMAIN s = 1..Len(s)
  OBVIOUS
<1>2. IsFiniteSet(1..Len(s)) /\ Cardinality(1..Len(s)) = Len(s)
  BY <1>1, FS_Interval, SMTT(20)
<1>3. I \in SUBSET (1..Len(s))
  BY <1>1
<1>4. IsFiniteSet(I) /\ Cardinality(I) <= Len(s)
  BY <1>2, <1>3, FS_Subset
<1>5. Cardinality(I) \in Nat
  BY <1>4, FS_CardinalityType
<1>6. QED
  BY <1>1, <1>4, <1>5 DEF Number

LEMMA NumberEmpty == \A S : Number(<<>>, S) = 0
<1>1. \A S : {i \in DOMAIN <<>> : <<>>[i] \in S} = {}
  OBVIOUS
<1>2. QED
  BY <1>1, FS_EmptySet DEF Number

LEMMA NumberAppend ==
  ASSUME NEW T, NEW s \in Seq(T), NEW x \in T, NEW S
  PROVE  Number(Append(s, x), S) = Number(s, S) + One(x \in S)
<1> DEFINE t == Append(s, x)
           n == Len(s)
           I == {i \in DOMAIN s : s[i] \in S}
           J == {i \in DOMAIN t : t[i] \in S}
<1>1. /\ n \in Nat /\ DOMAIN s = 1..n /\ DOMAIN t = 1..(n + 1)
      /\ t[n + 1] = x /\ \A i \in 1..n : t[i] = s[i]
  BY AppendProperties, LenProperties
<1>2. IsFiniteSet(I) /\ Number(s, S) = Cardinality(I) /\ Cardinality(I) \in Nat
  BY NumberType DEF Number
<1>3. Number(t, S) = Cardinality(J)
  BY DEF Number
<1>4. n + 1 \notin I
  BY <1>1
<1>5. CASE x \in S
  <2>1. J = I \union {n + 1}
    BY <1>1, <1>5
  <2> HIDE DEF I, J, n, t
  <2>2. Cardinality(J) = Cardinality(I) + 1
    BY <1>2, <1>4, <2>1, FS_AddElement
  <2>3. QED
    BY <1>2, <1>3, <1>5, <2>2 DEF One, t
<1>6. CASE x \notin S
  <2>1. J = I
    BY <1>1, <1>6
  <2> HIDE DEF I, J
  <2>2. QED
    BY <1>2, <1>3, <1>6, <2>1 DEF One
<1>7. QED
  BY <1>5, <1>6

(* An element put in front moves every index up by one. *)
LEMMA NumberCons ==
  ASSUME NEW T, NEW s \in Seq(T), NEW x \in T, NEW S
  PROVE  Number(<<x>> \o s, S) = Number(s, S) + One(x \in S)
<1> DEFINE t == <<x>> \o s
           n == Len(s)
           I == {i \in DOMAIN s : s[i] \in S}
           J == {i \in DOMAIN t : t[i] \in S}
           K == {i \in J : i # 1}
           up == [i \in I |-> i + 1]
<1>1. /\ n \in Nat /\ DOMAIN s = 1..n /\ DOMAIN t = 1..(n + 1)
      /\ t[1] = x /\ \A i \in 1..n : t[i + 1] = s[i]
  <2>1. <<x>> \in Seq(T) /\ Len(<<x>>) = 1 /\ <<x>>[1] = x
    OBVIOUS
  <2>2. t \in Seq(T) /\ Len(t) = n + 1 /\ n \in Nat /\ DOMAIN s = 1..n
    BY <2>1, ConcatProperties, LenProperties
  <2>3. \A i \in 1..(n + 1) : t[i] = IF i <= 1 THEN <<x>>[i] ELSE s[i - 1]
    BY <2>1, ConcatProperties
  <2>4. QED
    BY <2>1, <2>2, <2>3
<1> HIDE DEF t, n
<1>2. IsFiniteSet(I) /\ Number(s, S) = Cardinality(I) /\ Cardinality(I) \in Nat
  BY NumberType DEF Number
<1>3. Number(t, S) = Cardinality(J)
  BY DEF Number
<1>4. IsFiniteSet(K) /\ Cardinality(K) = Cardinality(I)
  <2>1. \A i \in I : i \in 1..n /\ i + 1 \in K
    BY <1>1
  <2>2. up \in [I -> K]
    BY <2>1
  <2>3. \A i, j \in I : up[i] = up[j] => i = j
    BY <2>1
  <2>4. \A k \in K : k - 1 \in I /\ up[k - 1] = k
    BY <1>1
  <2>5. up \in Bijection(I, K)
    BY <2>2, <2>3, <2>4 DEF Bijection, Injection, Surjection, IsInjective
  <2>6. QED
    BY <1>2, <2>5, FS_Bijection DEF ExistsBijection
<1>5. CASE x \in S
  <2>1. J = K \union {1} /\ 1 \notin K
    BY <1>1, <1>5
  <2> HIDE DEF I, J, K
  <2>2. Cardinality(J) = Cardinality(I) + 1
    BY <1>4, <2>1, FS_AddElement
  <2>3. QED
    BY <1>2, <1>3, <1>5, <2>2 DEF One, t
<1>6. CASE x \notin S
  <2>1. J = K
    BY <1>1, <1>6
  <2> HIDE DEF I, J, K
  <2>2. QED
    BY <1>2, <1>3, <1>4, <1>6, <2>1 DEF One, t
<1>7. QED
  BY <1>5, <1>6

LEMMA NumberTail ==
  ASSUME NEW T, NEW s \in Seq(T), s # <<>>, NEW S
  PROVE  Number(s, S) = Number(Tail(s), S) + One(Head(s) \in S)
<1>1. Head(s) \in T /\ Tail(s) \in Seq(T)
  BY HeadTailProperties
<1>2. s = <<Head(s)>> \o Tail(s)
  <2> DEFINE u == <<Head(s)>> \o Tail(s)
  <2>1. <<Head(s)>> \in Seq(T) /\ Len(<<Head(s)>>) = 1 /\ <<Head(s)>>[1] = Head(s)
    BY <1>1
  <2>2. /\ u \in Seq(T) /\ Len(u) = 1 + Len(Tail(s))
        /\ \A i \in 1..(1 + Len(Tail(s))) :
             u[i] = IF i <= 1 THEN <<Head(s)>>[i] ELSE Tail(s)[i - 1]
    BY <1>1, <2>1, ConcatProperties
  <2>3. /\ Len(s) \in Nat /\ Len(s) > 0 /\ Len(Tail(s)) = Len(s) - 1
        /\ \A i \in 1..Len(Tail(s)) : Tail(s)[i] = s[i + 1]
        /\ Head(s) = s[1]
    BY HeadTailProperties, EmptySeq
  <2> HIDE DEF u
  <2>4. Len(u) = Len(s)
    BY <2>2, <2>3
  <2>5. ASSUME NEW i \in 1..Len(s) PROVE s[i] = u[i]
    <3>1. CASE i = 1
      BY <2>1, <2>2, <2>3, <3>1
    <3>2. CASE i # 1
      <4>1. i - 1 \in 1..Len(Tail(s)) /\ (i - 1) + 1 = i
        BY <2>3, <3>2
      <4>2. QED
        BY <2>2, <2>3, <3>2, <4>1
    <3>3. QED
      BY <3>1, <3>2
  <2>6. QED
    BY <2>2, <2>4, <2>5, SeqEqual DEF u
<1>3. QED
  BY <1>1, <1>2, NumberCons

(* Elements of two disjoint sets are counted one by one. *)
LEMMA NumberUnion ==
  ASSUME NEW T, NEW s \in Seq(T), NEW A, NEW B, A \intersect B = {}
  PROVE  Number(s, A \union B) = Number(s, A) + Number(s, B)
<1> DEFINE I == {i \in DOMAIN s : s[i] \in A}
           J == {i \in DOMAIN s : s[i] \in B}
<1>1. {i \in DOMAIN s : s[i] \in A \union B} = I \union J /\ I \intersect J = {}
  OBVIOUS
<1>2. IsFiniteSet(I) /\ IsFiniteSet(J) /\ Cardinality(I) \in Nat /\ Cardinality(J) \in Nat
  BY NumberType DEF Number
<1>3. Number(s, A \union B) = Cardinality(I \union J)
  BY <1>1 DEF Number
<1>4. Number(s, A) = Cardinality(I) /\ Number(s, B) = Cardinality(J)
  BY DEF Number
<1> HIDE DEF I, J
<1>5. Cardinality(I \union J) = Cardinality(I) + Cardinality(J) - Cardinality({})
  BY <1>1, <1>2, FS_Union
<1>6. QED
  BY <1>2, <1>3, <1>4, <1>5, FS_EmptySet

LEMMA NumberAll ==
  ASSUME NEW T, NEW s \in Seq(T)
  PROVE  Number(s, T) = Len(s)
<1>1. Len(s) \in Nat
  OBVIOUS
<1>2. {i \in DOMAIN s : s[i] \in T} = 1..Len(s)
  OBVIOUS
<1>3. Cardinality(1..Len(s)) = Len(s)
  BY <1>1, FS_Interval, SMTT(20)
<1>4. QED
  BY <1>2, <1>3 DEF Number

LEMMA NumberMember ==
  ASSUME NEW T, NEW s \in Seq(T), NEW i \in DOMAIN s, NEW S, s[i] \in S
  PROVE  Number(s, S) > 0
<1> DEFINE I == {j \in DOMAIN s : s[j] \in S}
<1>1. IsFiniteSet(I) /\ Cardinality(I) \in Nat /\ I # {}
  BY NumberType DEF Number
<1>2. QED
  BY <1>1, FS_EmptySet DEF Number
-----------------------------------------------------------------------------
(* The operations of an executor.  T is the set of its tasks.              *)

LEMMA NewExecutorType ==
  ASSUME NEW T
  PROVE  /\ NewExecutor \in ExecutorOf(T) /\ NewExecutor.closed = FALSE
         /\ NewExecutor.tasks = <<>> /\ NewExecutor.busy = Idle
BY DEF NewExecutor, ExecutorOf

LEMMA ExecutorFields ==
  ASSUME NEW T, NEW ex \in ExecutorOf(T)
  PROVE  /\ ex.tasks \in Seq(T) /\ Len(ex.tasks) \in Nat
         /\ ex.closed \in BOOLEAN /\ ex.busy \in T \union {Idle}
BY DEF ExecutorOf

LEMMA HoldsType ==
  ASSUME NEW T, NEW ex \in ExecutorOf(T), NEW S
  PROVE  /\ Holds(ex, S) \in Nat /\ Number(ex.tasks, S) \in Nat
         /\ Number(ex.tasks, S) <= Holds(ex, S)
<1>1. Number(ex.tasks, S) \in Nat
  BY ExecutorFields, NumberType
<1>2. QED
  BY <1>1 DEF Holds, One

LEMMA PostFields ==
  ASSUME NEW T, NEW ex \in ExecutorOf(T), NEW x \in T, NEW limit
  PROVE  LET to == post(ex, x, limit) IN
         /\ to \in ExecutorOf(T) /\ to.closed = ex.closed /\ to.busy = ex.busy
         /\ to.tasks = IF Accepts(ex, limit) THEN Append(ex.tasks, x) ELSE ex.tasks
<1>1. Append(ex.tasks, x) \in Seq(T)
  BY ExecutorFields, AppendProperties
<1>2. QED
  BY <1>1 DEF post, ExecutorOf

(* post() adds the task, if it takes it. *)
LEMMA PostCounts ==
  ASSUME NEW T, NEW ex \in ExecutorOf(T), NEW x \in T, NEW limit, NEW S
  PROVE  LET to == post(ex, x, limit) IN
         /\ Number(to.tasks, S) = Number(ex.tasks, S) + One(Accepts(ex, limit) /\ x \in S)
         /\ Holds(to, S) = Holds(ex, S) + One(Accepts(ex, limit) /\ x \in S)
<1> DEFINE to == post(ex, x, limit)
<1>1. /\ to.busy = ex.busy
      /\ to.tasks = IF Accepts(ex, limit) THEN Append(ex.tasks, x) ELSE ex.tasks
  BY PostFields
<1>2. Number(Append(ex.tasks, x), S) = Number(ex.tasks, S) + One(x \in S)
  BY ExecutorFields, NumberAppend
<1>3. Number(ex.tasks, S) \in Nat
  BY HoldsType
<1> HIDE DEF to
<1>4. Number(to.tasks, S) = Number(ex.tasks, S) + One(Accepts(ex, limit) /\ x \in S)
  BY <1>1, <1>2, <1>3 DEF One
<1>5. QED
  BY <1>1, <1>3, <1>4 DEF Holds, One, to

(* take() changes only where the oldest task is. *)
LEMMA TakeCounts ==
  ASSUME NEW T, NEW ex \in ExecutorOf(T), CanTake(ex), NEW S, Idle \notin S
  PROVE  /\ Holds(take(ex), S) = Holds(ex, S)
         /\ Number(take(ex).tasks, S) <= Number(ex.tasks, S)
<1>1. take(ex).tasks = Tail(ex.tasks) /\ take(ex).busy = Head(ex.tasks)
  BY DEF take, ExecutorOf
<1>2. Number(ex.tasks, S) = Number(Tail(ex.tasks), S) + One(Head(ex.tasks) \in S)
  BY ExecutorFields, NumberTail DEF CanTake
<1>3. Number(Tail(ex.tasks), S) \in Nat
  BY ExecutorFields, HeadTailProperties, NumberType DEF CanTake
<1>4. ex.busy \notin S
  BY DEF CanTake
<1>5. QED
  BY <1>1, <1>2, <1>3, <1>4 DEF Holds, One

LEMMA TakeFields ==
  ASSUME NEW T, NEW ex \in ExecutorOf(T), CanTake(ex)
  PROVE  /\ take(ex) \in ExecutorOf(T) /\ take(ex).closed = ex.closed
         /\ take(ex).busy \in T /\ Len(take(ex).tasks) = Len(ex.tasks) - 1
<1>1. Head(ex.tasks) \in T /\ Tail(ex.tasks) \in Seq(T) /\ Len(Tail(ex.tasks)) = Len(ex.tasks) - 1
  BY ExecutorFields, HeadTailProperties DEF CanTake
<1>2. QED
  BY <1>1 DEF take, ExecutorOf

(* done() gives up the task that was running. *)
LEMMA DoneFields ==
  ASSUME NEW T, NEW ex \in ExecutorOf(T)
  PROVE  /\ done(ex) \in ExecutorOf(T) /\ done(ex).closed = ex.closed
         /\ done(ex).tasks = ex.tasks /\ done(ex).busy = Idle
BY DEF done, ExecutorOf

LEMMA DoneCounts ==
  ASSUME NEW T, NEW ex \in ExecutorOf(T), NEW S, Idle \notin S
  PROVE  /\ Holds(ex, S) = Holds(done(ex), S) + One(ex.busy \in S)
         /\ Number(done(ex).tasks, S) = Number(ex.tasks, S)
<1>1. done(ex).tasks = ex.tasks /\ done(ex).busy = Idle
  BY DoneFields
<1>2. Number(ex.tasks, S) \in Nat
  BY HoldsType
<1>3. QED
  BY <1>1, <1>2 DEF Holds, One

LEMMA CloseFields ==
  ASSUME NEW T, NEW ex \in ExecutorOf(T)
  PROVE  /\ close(ex) \in ExecutorOf(T) /\ close(ex).closed
         /\ close(ex).tasks = ex.tasks /\ close(ex).busy = ex.busy
         /\ \A S : Holds(close(ex), S) = Holds(ex, S)
<1>1. /\ close(ex) \in ExecutorOf(T) /\ close(ex).closed
      /\ close(ex).tasks = ex.tasks /\ close(ex).busy = ex.busy
  BY DEF close, ExecutorOf
<1>2. QED
  BY <1>1 DEF Holds

(* Holds counts the tasks of Held. *)
LEMMA HeldCounts ==
  ASSUME NEW T, Idle \notin T, NEW ex \in ExecutorOf(T), NEW S, Idle \notin S
  PROVE  /\ Number(Held(ex), S) = Holds(ex, S)
         /\ Held(ex) \in Seq(T)
         /\ Len(Held(ex)) = Len(ex.tasks) + One(ex.busy # Idle)
<1>0. ex.tasks \in Seq(T) /\ ex.busy \in T \union {Idle} /\ Len(ex.tasks) \in Nat
  BY ExecutorFields
<1>1. CASE ex.busy = Idle
  <2>1. Held(ex) = ex.tasks /\ Number(ex.tasks, S) \in Nat
    BY <1>0, <1>1, NumberType DEF Held
  <2>2. QED
    BY <1>0, <1>1, <2>1 DEF Holds, One
<1>2. CASE ex.busy # Idle
  <2>1. Held(ex) = <<ex.busy>> \o ex.tasks /\ ex.busy \in T
    BY <1>0, <1>2 DEF Held
  <2>2. Number(Held(ex), S) = Number(ex.tasks, S) + One(ex.busy \in S)
    BY <1>0, <2>1, NumberCons
  <2>3. <<ex.busy>> \in Seq(T) /\ Len(<<ex.busy>>) = 1
    BY <2>1
  <2>4. Held(ex) \in Seq(T) /\ Len(Held(ex)) = 1 + Len(ex.tasks)
    BY <1>0, <2>1, <2>3, ConcatProperties
  <2>5. QED
    BY <1>0, <1>2, <2>2, <2>4 DEF Holds, One
<1>3. QED
  BY <1>1, <1>2

(* A task that is there is counted. *)
LEMMA HoldsBusy ==
  ASSUME NEW T, NEW ex \in ExecutorOf(T), NEW S, ex.busy \in S
  PROVE  Holds(ex, S) > 0
BY HoldsType DEF Holds, One

LEMMA HoldsUnion ==
  ASSUME NEW T, NEW ex \in ExecutorOf(T), NEW A, NEW B, A \intersect B = {}
  PROVE  Holds(ex, A \union B) = Holds(ex, A) + Holds(ex, B)
<1>1. Number(ex.tasks, A \union B) = Number(ex.tasks, A) + Number(ex.tasks, B)
  BY ExecutorFields, NumberUnion
<1>2. Number(ex.tasks, A) \in Nat /\ Number(ex.tasks, B) \in Nat
  BY HoldsType
<1>3. QED
  BY <1>1, <1>2 DEF Holds, One
=============================================================================
