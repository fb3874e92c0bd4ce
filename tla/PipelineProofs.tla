--------------------------- MODULE PipelineProofs ---------------------------
(***************************************************************************)
(* Proofs about TelemetryPipeline, for any databases, any capacity of the  *)
(* queue, any size of batches and transactions and any number of rows.     *)
(*                                                                         *)
(* The rows not yet written are always the last ones accepted, in the      *)
(* order of their places (OrderInv, LastInv), so what is written next is   *)
(* later than all that was settled before.  Where a row is to go is told   *)
(* by the changes of database queued before it (TargetInv).                *)
(***************************************************************************)
EXTENDS TelemetryPipeline, FiniteSetTheorems, SequenceTheorems,
        WellFoundedInduction, TLAPS

SwapJob == [kind : {"swap"}, db : Db]
BatchJob == [kind : {"batch"}, rows : Seq(Nat)]
Job == SwapJob \union BatchJob

Where == {"pop", "more", "job", "switch", "applied", "flush", "gone"}

TypeInv ==
  /\ queue \in [items : Seq(Job), shutdown : BOOLEAN]
  /\ writer \in [at : Where, rows : Seq(Nat), db : Db, job : Job \union {NoJob}]
  /\ swapper = Away \/ swapper \in [at : {"push"}, db : Db]
  /\ read_db \in Db
  /\ stored \in [Db -> Seq(Nat)]
  /\ open \in Seq(Nat) /\ failed \subseteq Nat
  /\ target \in Seq(Db)

Rising(s) == \A i, j \in DOMAIN s : i < j => s[i] < s[j]
Below(s, t) == \A i \in DOMAIN s, j \in DOMAIN t : s[i] < t[j]

SizeInv ==
  /\ Len(queue.items) <= kQueueCapacity
  /\ Len(RowsOf(writer.job)) <= MaxBatch
  /\ \A i \in DOMAIN queue.items : Len(RowsOf(queue.items[i])) <= MaxBatch
  /\ Len(writer.rows) < kMaxRowsPerTxn + MaxBatch
  /\ writer.at \in {"pop", "more", "job"} => Len(writer.rows) < kMaxRowsPerTxn

(* What the writer holds, by where it is. *)
WriterInv ==
  /\ writer.job = NoJob <=> writer.at \notin {"job", "switch", "applied"}
  /\ writer.at \in {"switch", "applied"} => writer.job.kind = "swap"
  /\ writer.at \in {"pop", "switch", "applied", "gone"} => writer.rows = <<>>
  /\ read_db = writer.db \/ writer.at = "applied"
  /\ writer.at = "applied" => writer.db = writer.job.db
  /\ writer.at = "gone" => queue.items = <<>> /\ queue.shutdown
  /\ queue.shutdown => swapper = Away

(* The rows of the transaction, of the job and of the queue, and that they *)
(* are in this order.                                                      *)
Waiting(rows, job, items) ==
  Range(rows) \union Range(RowsOf(job))
    \union UNION {Range(RowsOf(items[i])) : i \in DOMAIN items}

InOrder(rows, job, items) ==
  /\ Rising(rows) /\ Rising(RowsOf(job)) /\ Below(rows, RowsOf(job))
  /\ \A i \in DOMAIN items :
       /\ Rising(RowsOf(items[i]))
       /\ Below(rows, RowsOf(items[i])) /\ Below(RowsOf(job), RowsOf(items[i]))
  /\ \A i, j \in DOMAIN items : i < j => Below(RowsOf(items[i]), RowsOf(items[j]))

Waits == Waiting(writer.rows, writer.job, queue.items)

OrderInv == InOrder(writer.rows, writer.job, queue.items)

(* The rows that are not yet written are the last ones. *)
LastInv ==
  /\ Waits \subseteq Row
  /\ \A u \in Waits, r \in Row : u < r => r \in Waits

SettledInv ==
  /\ \A r \in Nat : Settled(r) <=> r \in Row /\ r \notin Waits
  /\ \A db \in Db : failed \intersect Range(stored[db]) = {}

(* What is stored; and what a transaction that could not be ended may yet  *)
(* add to the writer's database.                                           *)
StoredInv ==
  /\ \A db \in Db : Rising(stored[db]) /\ \A r \in Range(stored[db]) : target[r] = db
  /\ Rising(open) /\ Below(stored[writer.db], open)
  /\ Range(open) \subseteq failed
  /\ \A r \in Range(open) : target[r] = writer.db

(* The database of a row at place j of the queue: that of the last change  *)
(* before it, or base when there is none.                                  *)
Aims(items, base, j, db) ==
  \/ /\ db = base
     /\ \A k \in DOMAIN items : k < j => items[k].kind # "swap"
  \/ \E i \in DOMAIN items :
       /\ i < j /\ items[i].kind = "swap" /\ items[i].db = db
       /\ \A k \in DOMAIN items : (i < k /\ k < j) => items[k].kind # "swap"

Base(job, db) == IF job.kind = "swap" THEN job.db ELSE db

Aimed(rows, job, items, db, goal) ==
  /\ \A r \in Range(rows) \union Range(RowsOf(job)) : goal[r] = db
  /\ \A j \in DOMAIN items : \A r \in Range(RowsOf(items[j])) :
       Aims(items, Base(job, db), j, goal[r])

TargetInv == Aimed(writer.rows, writer.job, queue.items, writer.db, target)

PipelineIInv ==
  /\ TypeInv /\ SizeInv /\ WriterInv /\ OrderInv /\ LastInv /\ SettledInv
  /\ StoredInv /\ TargetInv
-----------------------------------------------------------------------------
(* Sequences of numbers. *)

(* The elements of a sequence, and two ways to say that one is below       *)
(* another.                                                                *)
LEMMA RangeIs == \A s : \A r : r \in Range(s) <=> \E i \in DOMAIN s : s[i] = r
BY DEF Range

LEMMA EmptyRange == Range(<<>>) = {}
BY DEF Range

LEMMA EmptyRises ==
  /\ Rising(<<>>)
  /\ \A s : Below(<<>>, s) /\ Below(s, <<>>)
BY DEF Rising, Below

LEMMA BelowRange ==
  \A s, t : Below(s, t) <=> \A x \in Range(s), y \in Range(t) : x < y
BY DEF Below, Range

(* Sequences that follow each other.                                       *)
LEMMA ConcatFacts ==
  ASSUME NEW S, NEW s \in Seq(S), NEW t \in Seq(S)
  PROVE  /\ s \o t \in Seq(S)
         /\ Len(s \o t) = Len(s) + Len(t)
         /\ Range(s \o t) = Range(s) \union Range(t)
<1> DEFINE u == s \o t
<1>1. /\ Len(s) \in Nat /\ DOMAIN s = 1..Len(s)
      /\ Len(t) \in Nat /\ DOMAIN t = 1..Len(t)
  BY LenProperties
<1>2. /\ u \in Seq(S) /\ Len(u) = Len(s) + Len(t)
      /\ \A i \in 1..Len(s) + Len(t) : u[i] = IF i <= Len(s) THEN s[i] ELSE t[i - Len(s)]
  BY ConcatProperties
<1>3. DOMAIN u = 1..Len(s) + Len(t)
  BY <1>2, LenProperties
<1> HIDE DEF u
<1>4. ASSUME NEW r \in Range(u) PROVE r \in Range(s) \union Range(t)
  <2>1. PICK i \in 1..Len(s) + Len(t) : u[i] = r
    BY <1>3, RangeIs
  <2>2. CASE i <= Len(s)
    <3>1. i \in DOMAIN s /\ s[i] = r
      BY <1>1, <1>2, <2>1, <2>2
    <3>2. QED
      BY <3>1, RangeIs
  <2>3. CASE ~(i <= Len(s))
    <3>1. i - Len(s) \in DOMAIN t /\ t[i - Len(s)] = r
      BY <1>1, <1>2, <2>1, <2>3
    <3>2. QED
      BY <3>1, RangeIs
  <2>4. QED
    BY <2>2, <2>3
<1>5. ASSUME NEW r \in Range(s) PROVE r \in Range(u)
  <2>1. PICK i \in 1..Len(s) : s[i] = r
    BY <1>1, RangeIs
  <2>2. i \in DOMAIN u /\ u[i] = r
    BY <1>1, <1>2, <1>3, <2>1
  <2>3. QED
    BY <2>2, RangeIs
<1>6. ASSUME NEW r \in Range(t) PROVE r \in Range(u)
  <2>1. PICK i \in 1..Len(t) : t[i] = r
    BY <1>1, RangeIs
  <2>2. /\ i + Len(s) \in 1..Len(s) + Len(t) /\ ~(i + Len(s) <= Len(s))
        /\ (i + Len(s)) - Len(s) = i
    BY <1>1
  <2>3. i + Len(s) \in DOMAIN u /\ u[i + Len(s)] = r
    BY <1>2, <1>3, <2>1, <2>2
  <2>4. QED
    BY <2>3, RangeIs
<1>7. QED
  BY <1>2, <1>4, <1>5, <1>6 DEF u

LEMMA ConcatRises ==
  ASSUME NEW s \in Seq(Nat), NEW t \in Seq(Nat), Rising(s), Rising(t), Below(s, t)
  PROVE  Rising(s \o t)
<1> DEFINE u == s \o t
<1>1. /\ Len(s) \in Nat /\ DOMAIN s = 1..Len(s)
      /\ Len(t) \in Nat /\ DOMAIN t = 1..Len(t)
  BY LenProperties
<1>2. /\ u \in Seq(Nat) /\ Len(u) = Len(s) + Len(t)
      /\ \A i \in 1..Len(s) + Len(t) : u[i] = IF i <= Len(s) THEN s[i] ELSE t[i - Len(s)]
  BY ConcatProperties
<1>3. DOMAIN u = 1..Len(s) + Len(t)
  BY <1>2, LenProperties
<1> HIDE DEF u
<1>4. ASSUME NEW i \in DOMAIN u, NEW j \in DOMAIN u, i < j PROVE u[i] < u[j]
  <2>1. i \in 1..Len(s) + Len(t) /\ j \in 1..Len(s) + Len(t) /\ i \in Nat /\ j \in Nat
    BY <1>1, <1>3
  <2>2. CASE j <= Len(s)
    <3>1. i \in DOMAIN s /\ j \in DOMAIN s /\ u[i] = s[i] /\ u[j] = s[j]
      BY <1>1, <1>2, <1>4, <2>1, <2>2
    <3>2. QED
      BY <1>4, <3>1 DEF Rising
  <2>3. CASE i <= Len(s) /\ ~(j <= Len(s))
    <3>1. u[i] = s[i] /\ u[j] = t[j - Len(s)]
      BY <1>2, <2>1, <2>3
    <3>2. i \in DOMAIN s /\ j - Len(s) \in DOMAIN t
      BY <1>1, <2>1, <2>3
    <3>3. QED
      BY <3>1, <3>2 DEF Below
  <2>4. CASE ~(i <= Len(s))
    <3>1. u[i] = t[i - Len(s)] /\ u[j] = t[j - Len(s)]
      <4>1. ~(j <= Len(s))
        BY <1>1, <1>4, <2>1, <2>4
      <4>2. QED
        BY <1>2, <2>1, <2>4, <4>1
    <3>2. /\ i - Len(s) \in DOMAIN t /\ j - Len(s) \in DOMAIN t
          /\ i - Len(s) < j - Len(s)
      BY <1>1, <1>4, <2>1, <2>4
    <3>3. QED
      BY <3>1, <3>2 DEF Rising
  <2>5. QED
    BY <1>1, <1>4, <2>1, <2>2, <2>3, <2>4
<1>5. QED
  BY <1>4 DEF Rising, u

(* What is left of a rising sequence. *)
LEMMA SubsequenceFacts ==
  ASSUME NEW s \in Seq(Nat), Rising(s), NEW k \in Subsequences(s)
  PROVE  /\ k \in Seq(Nat) /\ Rising(k) /\ Range(k) \subseteq Range(s)
<1> DEFINE ascending(n) == {at \in [1..n -> DOMAIN s] :
                              \A i, j \in 1..n : i < j => at[i] < at[j]}
<1>1. PICK n \in 0..Len(s) : k \in {[i \in 1..n |-> s[at[i]]] : at \in ascending(n)}
  BY DEF Subsequences
<1>2. PICK at \in ascending(n) : k = [i \in 1..n |-> s[at[i]]]
  BY <1>1
<1>3. n \in Nat /\ at \in [1..n -> DOMAIN s]
      /\ \A i, j \in 1..n : i < j => at[i] < at[j]
  BY <1>1, <1>2, LenProperties
<1>4. DOMAIN s = 1..Len(s) /\ \A i \in DOMAIN s : s[i] \in Nat
  BY LenProperties
<1> HIDE DEF ascending
<1>5. k \in [1..n -> Nat]
  BY <1>2, <1>3, <1>4
<1>6. k \in Seq(Nat) /\ DOMAIN k = 1..n
  BY <1>3, <1>5, SeqDef
<1>7. \A i \in 1..n : k[i] = s[at[i]] /\ at[i] \in DOMAIN s
  BY <1>2, <1>3
<1>8. Rising(k)
  BY <1>3, <1>6, <1>7 DEF Rising
<1>9. ASSUME NEW r \in Range(k) PROVE r \in Range(s)
  <2>1. PICK i \in 1..n : k[i] = r
    BY <1>6, RangeIs
  <2>2. at[i] \in DOMAIN s /\ s[at[i]] = r
    BY <1>7, <2>1
  <2>3. QED
    BY <2>2, RangeIs
<1>10. QED
  BY <1>6, <1>8, <1>9

(* A sequence of places has a last one of any kind. *)
LEMMA LargestPlace ==
  ASSUME NEW n \in Nat, NEW S, S \subseteq 1..n, S # {}
  PROVE  Max(S) \in S /\ \A x \in S : x <= Max(S)
<1> DEFINE D == {n - x : x \in S}
<1>1. D \subseteq Nat /\ D # {}
  <2>1. \A x \in S : n - x \in Nat
    OBVIOUS
  <2>2. QED
    BY <2>1
<1>2. PICK d \in D : \A e \in D : <<e, d>> \notin OpToRel(<, Nat)
  BY <1>1, NatLessThanWellFounded, WFMin
<1>3. PICK m \in S : d = n - m
  OBVIOUS
<1>4. ASSUME NEW x \in S PROVE m >= x
  <2>1. n - x \in D /\ n - x \in Nat /\ d \in Nat /\ m \in Nat /\ x \in Nat
    BY <1>1, <1>3
  <2>2. ASSUME n - x < d PROVE FALSE
    <3>1. <<n - x, d>> \in Nat \X Nat /\ <<n - x, d>>[1] < <<n - x, d>>[2]
      BY <2>1, <2>2
    <3>2. <<n - x, d>> \in OpToRel(<, Nat)
      BY <3>1, Zenon DEF OpToRel
    <3>3. QED
      BY <1>2, <2>1, <3>2
  <2>3. QED
    BY <1>3, <2>1, <2>2
<1>5. Max(S) \in S /\ \A x \in S : Max(S) >= x
  BY <1>4 DEF Max
<1>6. QED
  BY <1>5
-----------------------------------------------------------------------------
(* Jobs, and the rows that wait. *)

(* What each kind of job holds; the queue after push() and after pop().    *)
LEMMA RowsOfFacts ==
  /\ \A job \in Job \union {NoJob} : RowsOf(job) \in Seq(Nat)
  /\ RowsOf(NoJob) = <<>> /\ NoJob.kind = "none"
  /\ \A job \in SwapJob : RowsOf(job) = <<>> /\ job.kind = "swap" /\ job.db \in Db
  /\ \A job \in BatchJob : RowsOf(job) = job.rows /\ job.kind = "batch"
  /\ \A job \in Job : job # NoJob
BY EmptySeq DEF Job, SwapJob, BatchJob, NoJob, RowsOf

LEMMA AppendedQueue ==
  ASSUME NEW items \in Seq(Job), NEW job \in Job
  PROVE  /\ Append(items, job) \in Seq(Job)
         /\ Len(items) \in Nat /\ DOMAIN items = 1..Len(items)
         /\ Len(Append(items, job)) = Len(items) + 1
         /\ DOMAIN Append(items, job) = DOMAIN items \union {Len(items) + 1}
         /\ \A i \in DOMAIN items : Append(items, job)[i] = items[i] /\ i < Len(items) + 1
         /\ Append(items, job)[Len(items) + 1] = job
<1>1. Len(items) \in Nat /\ DOMAIN items = 1..Len(items)
  BY LenProperties
<1>2. /\ Append(items, job) \in Seq(Job) /\ Len(Append(items, job)) = Len(items) + 1
      /\ \A i \in 1..Len(items) : Append(items, job)[i] = items[i]
      /\ Append(items, job)[Len(items) + 1] = job
  BY AppendProperties
<1>3. DOMAIN Append(items, job) = 1..Len(items) + 1
  BY <1>2, LenProperties
<1>4. 1..Len(items) + 1 = 1..Len(items) \union {Len(items) + 1}
  BY <1>1
<1>5. QED
  BY <1>1, <1>2, <1>3, <1>4

LEMMA PoppedQueue ==
  ASSUME NEW items \in Seq(Job), items # <<>>
  PROVE  /\ Head(items) \in Job /\ Tail(items) \in Seq(Job)
         /\ Len(items) \in Nat /\ DOMAIN items = 1..Len(items)
         /\ Len(Tail(items)) = Len(items) - 1
         /\ 1 \in DOMAIN items /\ Head(items) = items[1]
         /\ \A i \in DOMAIN Tail(items) :
              i \in Nat /\ i + 1 \in DOMAIN items /\ 1 < i + 1 /\ Tail(items)[i] = items[i + 1]
         /\ \A i \in DOMAIN items : i # 1 => /\ i - 1 \in DOMAIN Tail(items)
                                            /\ Tail(items)[i - 1] = items[i]
<1>1. Len(items) \in Nat /\ DOMAIN items = 1..Len(items)
  BY LenProperties
<1>2. /\ Head(items) \in Job /\ Tail(items) \in Seq(Job)
      /\ Len(Tail(items)) = Len(items) - 1
      /\ \A i \in 1..Len(Tail(items)) : Tail(items)[i] = items[i + 1]
  BY HeadTailProperties
<1>3. Len(items) # 0 /\ Head(items) = items[1]
  BY EmptySeq, <1>1
<1>4. DOMAIN Tail(items) = 1..Len(items) - 1
  BY <1>2, LenProperties
<1>5. /\ 1 \in DOMAIN items
      /\ \A i \in DOMAIN Tail(items) : i \in Nat /\ i + 1 \in DOMAIN items /\ 1 < i + 1
      /\ \A i \in DOMAIN items : i # 1 => i - 1 \in DOMAIN Tail(items) /\ (i - 1) + 1 = i
  BY <1>1, <1>3, <1>4
<1>6. QED
  BY <1>1, <1>2, <1>3, <1>4, <1>5

LEMMA WaitingIs ==
  \A rows, job, items, r :
    r \in Waiting(rows, job, items) <=>
      \/ r \in Range(rows) \/ r \in Range(RowsOf(job))
      \/ \E i \in DOMAIN items : r \in Range(RowsOf(items[i]))
BY DEF Waiting

(* What waits, and that it is in order, after push(), after pop(), when a  *)
(* batch joins the transaction and when a transaction ends.                *)
LEMMA AppendWaits ==
  ASSUME NEW rows, NEW held, NEW items \in Seq(Job), NEW job \in Job
  PROVE  /\ Waiting(rows, held, Append(items, job)) =
              Waiting(rows, held, items) \union Range(RowsOf(job))
         /\ /\ InOrder(rows, held, items) /\ Rising(RowsOf(job))
            /\ \A x \in Waiting(rows, held, items), y \in Range(RowsOf(job)) : x < y
            => InOrder(rows, held, Append(items, job))
<1> DEFINE n == Len(items)
           all == Append(items, job)
<1>1. /\ DOMAIN all = DOMAIN items \union {n + 1} /\ all[n + 1] = job
      /\ \A i \in DOMAIN items : all[i] = items[i] /\ i < n + 1
      /\ n \in Nat /\ DOMAIN items = 1..n
  BY AppendedQueue
<1> HIDE DEF all, n
<1>2. \A r : r \in Waiting(rows, held, all) <=>
                r \in Waiting(rows, held, items) \/ r \in Range(RowsOf(job))
  <2>1. \A r : (\E i \in DOMAIN all : r \in Range(RowsOf(all[i]))) <=>
                 \/ \E i \in DOMAIN items : r \in Range(RowsOf(items[i]))
                 \/ r \in Range(RowsOf(job))
    BY <1>1
  <2>2. QED
    BY <2>1, WaitingIs
<1>3. ASSUME InOrder(rows, held, items), Rising(RowsOf(job)),
             \A x \in Waiting(rows, held, items), y \in Range(RowsOf(job)) : x < y
      PROVE  InOrder(rows, held, all)
  <2>1. /\ Below(rows, RowsOf(job)) /\ Below(RowsOf(held), RowsOf(job))
        /\ \A i \in DOMAIN items : Below(RowsOf(items[i]), RowsOf(job))
    BY <1>3, BelowRange, WaitingIs
  <2>2. ASSUME NEW i \in DOMAIN all
        PROVE  /\ Rising(RowsOf(all[i]))
               /\ Below(rows, RowsOf(all[i])) /\ Below(RowsOf(held), RowsOf(all[i]))
    BY <1>1, <1>3, <2>1 DEF InOrder
  <2>3. ASSUME NEW i \in DOMAIN all, NEW j \in DOMAIN all, i < j
        PROVE  Below(RowsOf(all[i]), RowsOf(all[j]))
    <3>1. i \in DOMAIN items
      BY <1>1, <2>3
    <3>2. QED
      BY <1>1, <1>3, <2>1, <2>3, <3>1 DEF InOrder
  <2>4. QED
    BY <1>3, <2>2, <2>3 DEF InOrder
<1>4. QED
  BY <1>2, <1>3 DEF all

LEMMA PopWaits ==
  ASSUME NEW rows, NEW items \in Seq(Job), items # <<>>
  PROVE  /\ Waiting(rows, Head(items), Tail(items)) = Waiting(rows, NoJob, items)
         /\ InOrder(rows, NoJob, items) => InOrder(rows, Head(items), Tail(items))
<1> DEFINE rest == Tail(items)
<1>1. /\ 1 \in DOMAIN items /\ Head(items) = items[1]
      /\ \A i \in DOMAIN rest :
           i \in Nat /\ i + 1 \in DOMAIN items /\ 1 < i + 1 /\ rest[i] = items[i + 1]
      /\ \A i \in DOMAIN items : i # 1 => i - 1 \in DOMAIN rest /\ rest[i - 1] = items[i]
  BY PoppedQueue
<1> HIDE DEF rest
<1>2. ASSUME NEW r
      PROVE  r \in Waiting(rows, Head(items), rest) <=> r \in Waiting(rows, NoJob, items)
  <2>1. ~(r \in Range(RowsOf(NoJob)))
    BY RowsOfFacts, EmptyRange
  <2>2. ASSUME NEW i \in DOMAIN rest, r \in Range(RowsOf(rest[i]))
        PROVE  \E k \in DOMAIN items : r \in Range(RowsOf(items[k]))
    BY <1>1, <2>2
  <2>3. ASSUME NEW i \in DOMAIN items, r \in Range(RowsOf(items[i]))
        PROVE  \/ r \in Range(RowsOf(Head(items)))
               \/ \E k \in DOMAIN rest : r \in Range(RowsOf(rest[k]))
    <3>1. CASE i = 1
      BY <1>1, <2>3, <3>1
    <3>2. CASE i # 1
      BY <1>1, <2>3, <3>2
    <3>3. QED
      BY <3>1, <3>2
  <2>4. QED
    BY <1>1, <2>1, <2>2, <2>3, WaitingIs
<1>3. ASSUME InOrder(rows, NoJob, items)
      PROVE  InOrder(rows, Head(items), rest)
  <2>1. ASSUME NEW i \in DOMAIN rest
        PROVE  /\ Rising(RowsOf(rest[i]))
               /\ Below(rows, RowsOf(rest[i])) /\ Below(RowsOf(Head(items)), RowsOf(rest[i]))
    BY <1>1, <1>3 DEF InOrder
  <2>2. ASSUME NEW i \in DOMAIN rest, NEW j \in DOMAIN rest, i < j
        PROVE  Below(RowsOf(rest[i]), RowsOf(rest[j]))
    <3>1. i + 1 \in DOMAIN items /\ j + 1 \in DOMAIN items /\ i + 1 < j + 1
      BY <1>1, <2>2
    <3>2. Below(RowsOf(items[i + 1]), RowsOf(items[j + 1]))
      BY <1>3, <3>1 DEF InOrder
    <3>3. QED
      BY <1>1, <3>2
  <2>3. Rising(rows) /\ Rising(RowsOf(Head(items))) /\ Below(rows, RowsOf(Head(items)))
    BY <1>1, <1>3 DEF InOrder
  <2>4. QED
    BY <2>1, <2>2, <2>3 DEF InOrder
<1>4. QED
  BY <1>2, <1>3 DEF rest

LEMMA TakeWaits ==
  ASSUME NEW rows \in Seq(Nat), NEW job \in BatchJob, NEW items \in Seq(Job)
  PROVE  /\ Waiting(rows \o job.rows, NoJob, items) = Waiting(rows, job, items)
         /\ InOrder(rows, job, items) => InOrder(rows \o job.rows, NoJob, items)
<1>1. job.rows \in Seq(Nat) /\ RowsOf(job) = job.rows /\ RowsOf(NoJob) = <<>>
  BY RowsOfFacts DEF BatchJob
<1>2. Range(rows \o job.rows) = Range(rows) \union Range(job.rows)
  BY <1>1, ConcatFacts
<1>3. Waiting(rows \o job.rows, NoJob, items) = Waiting(rows, job, items)
  BY <1>1, <1>2, EmptyRange DEF Waiting
<1>4. ASSUME InOrder(rows, job, items)
      PROVE  InOrder(rows \o job.rows, NoJob, items)
  <2>1. Rising(rows) /\ Rising(job.rows) /\ Below(rows, job.rows)
    BY <1>1, <1>4 DEF InOrder
  <2>2. Rising(rows \o job.rows)
    BY <1>1, <2>1, ConcatRises
  <2>3. ASSUME NEW i \in DOMAIN items
        PROVE  Below(rows \o job.rows, RowsOf(items[i]))
    <3>1. Below(rows, RowsOf(items[i])) /\ Below(job.rows, RowsOf(items[i]))
      BY <1>1, <1>4 DEF InOrder
    <3>2. QED
      BY <1>2, <3>1, BelowRange
  <2>4. Rising(<<>>) /\ \A s : Below(<<>>, s) /\ Below(s, <<>>)
    BY EmptyRises
  <2>5. QED
    BY <1>1, <1>4, <2>2, <2>3, <2>4 DEF InOrder
<1>5. QED
  BY <1>3, <1>4

LEMMA DropWaits ==
  ASSUME NEW rows, NEW job, NEW items, InOrder(rows, job, items),
         Waiting(rows, job, items) \subseteq Nat
  PROVE  /\ Waiting(<<>>, job, items) = Waiting(rows, job, items) \ Range(rows)
         /\ \A x \in Range(rows), y \in Waiting(<<>>, job, items) : x < y
         /\ InOrder(<<>>, job, items)
<1>1. \A r : r \in Waiting(<<>>, job, items) =>
               \A x \in Range(rows) : x < r
  BY WaitingIs, EmptyRange, BelowRange DEF InOrder
<1>2. ASSUME NEW r \in Waiting(<<>>, job, items) PROVE r \notin Range(rows) /\ r \in Nat
  <2>1. r \in Nat
    BY WaitingIs, EmptyRange
  <2>2. QED
    BY <1>1, <2>1
<1>3. \A r : r \in Waiting(<<>>, job, items) <=>
               r \in Waiting(rows, job, items) /\ r \notin Range(rows)
  BY <1>2, WaitingIs, EmptyRange
<1>4. InOrder(<<>>, job, items)
  BY EmptyRises DEF InOrder
<1>5. QED
  BY <1>1, <1>3, <1>4
-----------------------------------------------------------------------------
(* Where rows are to go. *)

(* push() leaves the aim of what is queued; pop() shifts it by one place.  *)
LEMMA BaseFacts ==
  /\ \A db : Base(NoJob, db) = db
  /\ \A db, job : job.kind = "swap" => Base(job, db) = job.db
  /\ \A db, job : job.kind # "swap" => Base(job, db) = db
BY DEF Base, NoJob

LEMMA AppendAims ==
  ASSUME NEW items \in Seq(Job), NEW job \in Job, NEW base, NEW goal,
         NEW j \in DOMAIN items, Aims(items, base, j, goal)
  PROVE  Aims(Append(items, job), base, j, goal)
<1> DEFINE n == Len(items)
           all == Append(items, job)
<1>1. /\ DOMAIN all = DOMAIN items \union {n + 1}
      /\ \A i \in DOMAIN items : all[i] = items[i] /\ i < n + 1
      /\ n \in Nat /\ DOMAIN items = 1..n
  BY AppendedQueue
<1> HIDE DEF all, n
<1>2. \A k \in DOMAIN all : k < j => k \in DOMAIN items
  BY <1>1
<1>3. QED
  BY <1>1, <1>2 DEF Aims, all

LEMMA AppendAimed ==
  ASSUME NEW rows, NEW held, NEW items \in Seq(Job), NEW job \in Job, NEW db,
         NEW goal, NEW next,
         Aimed(rows, held, items, db, goal),
         \A r \in Waiting(rows, held, items) : next[r] = goal[r],
         \A r \in Range(RowsOf(job)) :
           Aims(Append(items, job), Base(held, db), Len(items) + 1, next[r])
  PROVE  Aimed(rows, held, Append(items, job), db, next)
<1>1. /\ DOMAIN Append(items, job) = DOMAIN items \union {Len(items) + 1}
      /\ \A i \in DOMAIN items : Append(items, job)[i] = items[i]
      /\ Append(items, job)[Len(items) + 1] = job
  BY AppendedQueue
<1>2. \A r \in Range(rows) \union Range(RowsOf(held)) : next[r] = db
  BY WaitingIs DEF Aimed
<1>3. ASSUME NEW j \in DOMAIN Append(items, job),
             NEW r \in Range(RowsOf(Append(items, job)[j]))
      PROVE  Aims(Append(items, job), Base(held, db), j, next[r])
  <2>1. CASE j \in DOMAIN items
    <3>1. r \in Range(RowsOf(items[j]))
      BY <1>1, <1>3, <2>1
    <3>2. next[r] = goal[r] /\ Aims(items, Base(held, db), j, goal[r])
      BY <2>1, <3>1, WaitingIs DEF Aimed
    <3>3. QED
      BY <2>1, <3>2, AppendAims
  <2>2. CASE j = Len(items) + 1
    BY <1>1, <1>3, <2>2
  <2>3. QED
    BY <1>1, <2>1, <2>2
<1>4. QED
  BY <1>2, <1>3 DEF Aimed

LEMMA PopAims ==
  ASSUME NEW items \in Seq(Job), items # <<>>, NEW db, NEW goal,
         NEW i \in DOMAIN Tail(items), Aims(items, db, i + 1, goal)
  PROVE  Aims(Tail(items), Base(Head(items), db), i, goal)
<1> DEFINE rest == Tail(items)
<1>1. /\ 1 \in DOMAIN items /\ Head(items) = items[1]
      /\ \A k \in DOMAIN rest :
           k \in Nat /\ k + 1 \in DOMAIN items /\ 1 < k + 1 /\ rest[k] = items[k + 1]
      /\ \A k \in DOMAIN items : k # 1 => k - 1 \in DOMAIN rest /\ rest[k - 1] = items[k]
      /\ Len(items) \in Nat /\ DOMAIN items = 1..Len(items)
  BY PoppedQueue
<1> HIDE DEF rest
<1>2. i \in DOMAIN rest
  BY DEF rest
<1>3. CASE goal = db /\ \A k \in DOMAIN items : k < i + 1 => items[k].kind # "swap"
  <2>1. Base(Head(items), db) = db
    BY <1>1, <1>2, <1>3, BaseFacts
  <2>2. \A k \in DOMAIN rest : k < i => rest[k].kind # "swap"
    BY <1>1, <1>2, <1>3
  <2>3. QED
    BY <1>3, <2>1, <2>2 DEF Aims, rest
<1>4. ASSUME NEW w \in DOMAIN items, w < i + 1, items[w].kind = "swap", items[w].db = goal,
             \A k \in DOMAIN items : (w < k /\ k < i + 1) => items[k].kind # "swap"
      PROVE  Aims(rest, Base(Head(items), db), i, goal)
  <2>1. CASE w = 1
    <3>1. Base(Head(items), db) = goal
      BY <1>1, <1>4, <2>1, BaseFacts
    <3>2. ASSUME NEW k \in DOMAIN rest, k < i PROVE rest[k].kind # "swap"
      <4>1. k + 1 \in DOMAIN items /\ w < k + 1 /\ k + 1 < i + 1
        BY <1>1, <1>2, <2>1, <3>2
      <4>2. QED
        BY <1>1, <1>4, <4>1
    <3>3. QED
      BY <3>1, <3>2 DEF Aims
  <2>2. CASE w # 1
    <3>1. /\ w - 1 \in DOMAIN rest /\ rest[w - 1] = items[w] /\ w - 1 < i
      BY <1>1, <1>2, <1>4, <2>2
    <3>2. ASSUME NEW k \in DOMAIN rest, w - 1 < k, k < i PROVE rest[k].kind # "swap"
      <4>1. k + 1 \in DOMAIN items /\ w < k + 1 /\ k + 1 < i + 1
        BY <1>1, <1>2, <3>2
      <4>2. QED
        BY <1>1, <1>4, <4>1
    <3>3. QED
      BY <1>4, <3>1, <3>2 DEF Aims
  <2>3. QED
    BY <2>1, <2>2
<1>5. QED
  BY <1>3, <1>4 DEF Aims, rest

LEMMA PopAimed ==
  ASSUME NEW rows, NEW items \in Seq(Job), items # <<>>, NEW db, NEW goal,
         Aimed(rows, NoJob, items, db, goal)
  PROVE  Aimed(rows, Head(items), Tail(items), db, goal)
<1>1. /\ 1 \in DOMAIN items /\ Head(items) = items[1]
      /\ \A i \in DOMAIN Tail(items) :
           i \in Nat /\ i + 1 \in DOMAIN items /\ Tail(items)[i] = items[i + 1]
  BY PoppedQueue
<1>2. Base(NoJob, db) = db
  BY BaseFacts
<1>3. ASSUME NEW r \in Range(RowsOf(Head(items))) PROVE goal[r] = db
  <2>1. Aims(items, db, 1, goal[r])
    BY <1>1, <1>2 DEF Aimed
  <2>2. \A k \in DOMAIN items : ~(k < 1)
    BY LenProperties
  <2>3. QED
    BY <2>1, <2>2 DEF Aims
<1>4. ASSUME NEW i \in DOMAIN Tail(items), NEW r \in Range(RowsOf(Tail(items)[i]))
      PROVE  Aims(Tail(items), Base(Head(items), db), i, goal[r])
  <2>1. Aims(items, db, i + 1, goal[r])
    BY <1>1, <1>2 DEF Aimed
  <2>2. QED
    BY <2>1, PopAims
<1>5. QED
  BY <1>3, <1>4 DEF Aimed

(* What is accepted next goes to the database of the last change queued. *)
LEMMA NextTargetAims ==
  ASSUME TypeInv, NEW job \in Job
  PROVE  /\ NextTarget \in Db
         /\ Aims(Append(queue.items, job), Base(writer.job, writer.db),
                 Len(queue.items) + 1, NextTarget)
<1> DEFINE items == queue.items
           n == Len(items)
           all == Append(items, job)
           ahead == {i \in DOMAIN items : items[i].kind = "swap"}
<1>1. items \in Seq(Job) /\ writer.job \in Job \union {NoJob} /\ writer.db \in Db
  BY DEF TypeInv
<1>2. /\ DOMAIN all = DOMAIN items \union {n + 1}
      /\ \A i \in DOMAIN items : all[i] = items[i] /\ i < n + 1
      /\ n \in Nat /\ DOMAIN items = 1..n
  BY <1>1, AppendedQueue
<1>3. \A i \in DOMAIN items : items[i] \in Job
  BY <1>1, <1>2, ElementOfSeq
<1>4. \A k \in DOMAIN all : k < n + 1 => k \in DOMAIN items /\ all[k] = items[k]
  BY <1>2
<1>5. CASE ahead # {}
  <2>1. NextTarget = items[Max(ahead)].db
    BY <1>5 DEF NextTarget
  <2>2. Max(ahead) \in ahead /\ \A x \in ahead : x <= Max(ahead)
    BY <1>2, <1>5, LargestPlace
  <2> DEFINE m == Max(ahead)
  <2>3. m \in DOMAIN items /\ items[m].kind = "swap" /\ m \in 1..n
    BY <1>2, <2>2
  <2>4. items[m] \in SwapJob
    BY <1>3, <2>3, RowsOfFacts DEF Job, BatchJob
  <2>5. ASSUME NEW k \in DOMAIN all, m < k, k < n + 1 PROVE all[k].kind # "swap"
    <3>1. k \in DOMAIN items /\ k \in Nat /\ m \in Nat
      BY <1>2, <2>3, <2>5
    <3>2. ASSUME k \in ahead PROVE FALSE
      <4>1. k <= m
        BY <2>2, <3>2
      <4>2. QED
        BY <2>5, <3>1, <4>1
    <3>3. all[k] = items[k]
      BY <1>2, <3>1
    <3>4. QED
      BY <3>1, <3>2, <3>3
  <2>6. NextTarget \in Db
    BY <2>1, <2>4, RowsOfFacts
  <2>7. m \in DOMAIN all /\ m < n + 1 /\ all[m] = items[m]
    BY <1>2, <2>3
  <2>8. QED
    BY <2>1, <2>3, <2>5, <2>6, <2>7 DEF Aims
<1>6. CASE ahead = {}
  <2>1. NextTarget = Base(writer.job, writer.db)
    BY <1>6 DEF NextTarget, Base
  <2>2. NextTarget \in Db
    BY <1>1, <2>1 DEF Base, Job, SwapJob, BatchJob, NoJob
  <2>3. \A k \in DOMAIN all : k < n + 1 => all[k].kind # "swap"
    BY <1>4, <1>6
  <2>4. QED
    BY <2>1, <2>2, <2>3 DEF Aims
<1>7. QED
  BY <1>5, <1>6
-----------------------------------------------------------------------------
(* Steps that write nothing. *)

(* A step that neither writes nor drops a row leaves what was settled.     *)
LEMMA KeepsSettled ==
  ASSUME PipelineIInv, UNCHANGED <<stored, failed, target>>, Waits' = Waits
  PROVE  LastInv' /\ SettledInv'
<1>1. Row' = Row /\ \A r : Settled(r)' <=> Settled(r)
  BY DEF Row, Settled
<1>2. LastInv'
  BY <1>1 DEF PipelineIInv, LastInv
<1>3. SettledInv'
  BY <1>1 DEF PipelineIInv, SettledInv
<1>4. QED
  BY <1>2, <1>3

LEMMA KeepsStored ==
  ASSUME PipelineIInv, UNCHANGED <<stored, failed, target>>,
         \/ open' = open /\ writer'.db = writer.db
         \/ open' = <<>>
  PROVE  StoredInv'
<1>1. CASE open' = open /\ writer'.db = writer.db
  BY <1>1 DEF PipelineIInv, StoredInv
<1>2. CASE open' = <<>>
  BY <1>2, EmptyRange, EmptyRises DEF PipelineIInv, StoredInv
<1>3. QED
  BY <1>1, <1>2

LEMMA SwapBeginStep ==
  ASSUME PipelineIInv, NEW db \in Db, SwapBegin(db)
  PROVE  PipelineIInv'
<1>1. /\ UNCHANGED <<queue, writer, read_db, stored, open, failed, target>>
      /\ swapper' = [at |-> "push", db |-> db] /\ ~queue.shutdown
  BY DEF SwapBegin
<1>2. TypeInv' /\ SizeInv' /\ WriterInv' /\ OrderInv' /\ TargetInv' /\ Waits' = Waits
  BY <1>1 DEF PipelineIInv, TypeInv, SizeInv, WriterInv, OrderInv, TargetInv, Waits
<1>3. LastInv' /\ SettledInv' /\ StoredInv'
  BY <1>1, <1>2, KeepsSettled, KeepsStored
<1>4. QED
  BY <1>2, <1>3 DEF PipelineIInv

LEMMA ShutdownStep ==
  ASSUME PipelineIInv, Shutdown
  PROVE  PipelineIInv'
<1>1. /\ UNCHANGED <<writer, swapper, read_db, stored, open, failed, target>>
      /\ queue' = [queue EXCEPT !.shutdown = TRUE] /\ swapper = Away
  BY DEF Shutdown
<1>2. TypeInv' /\ queue'.items = queue.items /\ queue'.shutdown = TRUE
  BY <1>1 DEF PipelineIInv, TypeInv
<1>3. SizeInv' /\ WriterInv' /\ OrderInv' /\ TargetInv' /\ Waits' = Waits
  BY <1>1, <1>2 DEF PipelineIInv, SizeInv, WriterInv, OrderInv, TargetInv, Waits
<1>4. LastInv' /\ SettledInv' /\ StoredInv'
  BY <1>1, <1>3, KeepsSettled, KeepsStored
<1>5. QED
  BY <1>2, <1>3, <1>4 DEF PipelineIInv

LEMMA SwapPushStep ==
  ASSUME PipelineIInv, SwapPush
  PROVE  PipelineIInv'
<1>1. /\ UNCHANGED <<writer, read_db, stored, open, failed, target>>
      /\ swapper' = Away /\ swapper.at = "push"
  BY DEF SwapPush
<1>2. CASE UNCHANGED queue
  <2>1. TypeInv' /\ SizeInv' /\ WriterInv' /\ OrderInv' /\ TargetInv' /\ Waits' = Waits
    BY <1>1, <1>2 DEF PipelineIInv, TypeInv, SizeInv, WriterInv, OrderInv, TargetInv, Waits
  <2>2. LastInv' /\ SettledInv' /\ StoredInv'
    BY <1>1, <2>1, KeepsSettled, KeepsStored
  <2>3. QED
    BY <2>1, <2>2 DEF PipelineIInv
<1>3. CASE Room /\ push(SwapDb(swapper.db))
  <2> DEFINE job == SwapDb(swapper.db)
  <2>1. job \in SwapJob /\ job \in Job /\ queue.items \in Seq(Job)
        /\ queue \in [items : Seq(Job), shutdown : BOOLEAN]
    BY <1>1 DEF PipelineIInv, TypeInv, SwapDb, SwapJob, Job, Away
  <2> HIDE DEF job
  <2>2. /\ queue' = [queue EXCEPT !.items = Append(queue.items, job)]
        /\ Len(queue.items) < kQueueCapacity
    BY <1>3 DEF push, Room, job
  <2>3. /\ Append(queue.items, job) \in Seq(Job)
        /\ Len(queue.items) \in Nat /\ DOMAIN queue.items = 1..Len(queue.items)
        /\ Len(Append(queue.items, job)) = Len(queue.items) + 1
        /\ DOMAIN Append(queue.items, job) = DOMAIN queue.items \union {Len(queue.items) + 1}
        /\ \A i \in DOMAIN queue.items : Append(queue.items, job)[i] = queue.items[i]
        /\ Append(queue.items, job)[Len(queue.items) + 1] = job
    BY <2>1, AppendedQueue
  <2>4. queue'.items = Append(queue.items, job) /\ queue'.shutdown = queue.shutdown
    BY <2>1, <2>2
  <2>5. RowsOf(job) = <<>> /\ Range(RowsOf(job)) = {} /\ Len(RowsOf(job)) = 0
        /\ Rising(RowsOf(job))
    BY <2>1, RowsOfFacts, EmptyRange, EmptyRises
  <2>6. TypeInv'
    BY <1>1, <2>1, <2>2, <2>3 DEF PipelineIInv, TypeInv
  <2>7. SizeInv'
    <3>1. Len(queue.items) + 1 <= kQueueCapacity /\ 0 <= MaxBatch
      BY <2>2, <2>3, PipelineConstants
    <3>2. \A i \in DOMAIN queue'.items : Len(RowsOf(queue'.items[i])) <= MaxBatch
      BY <2>3, <2>4, <2>5, <3>1 DEF PipelineIInv, SizeInv
    <3>3. QED
      BY <1>1, <2>3, <2>4, <3>1, <3>2 DEF PipelineIInv, SizeInv
  <2>8. WriterInv'
    <3>1. ~queue.shutdown /\ writer.at # "gone"
      BY <1>1 DEF PipelineIInv, WriterInv, Away
    <3>2. QED
      BY <1>1, <2>4, <3>1 DEF PipelineIInv, WriterInv
  <2>9. Waits' = Waits /\ OrderInv'
    <3>1. InOrder(writer.rows, writer.job, queue.items)
      BY DEF PipelineIInv, OrderInv
    <3>2. /\ Waiting(writer.rows, writer.job, Append(queue.items, job)) = Waits
          /\ InOrder(writer.rows, writer.job, Append(queue.items, job))
      <4> DEFINE Old == Waiting(writer.rows, writer.job, queue.items)
                 New == Waiting(writer.rows, writer.job, Append(queue.items, job))
      <4>1. \A x \in Old, y \in Range(RowsOf(job)) : x < y
        BY <2>5
      <4>2. /\ New = Old \union Range(RowsOf(job))
            /\ InOrder(writer.rows, writer.job, Append(queue.items, job))
        BY <2>1, <2>5, <3>1, <4>1, AppendWaits
      <4>3. New = Old
        BY <2>5, <4>2
      <4>4. QED
        BY <4>2, <4>3 DEF Waits
    <3>3. QED
      BY <1>1, <2>4, <3>2 DEF OrderInv, Waits
  <2>10. TargetInv'
    <3>1. Aimed(writer.rows, writer.job, queue.items, writer.db, target)
      BY DEF PipelineIInv, TargetInv
    <3>2. Aimed(writer.rows, writer.job, Append(queue.items, job), writer.db, target)
      BY <2>1, <2>5, <3>1, AppendAimed
    <3>3. QED
      BY <1>1, <2>4, <3>2 DEF TargetInv
  <2>11. LastInv' /\ SettledInv' /\ StoredInv'
    BY <1>1, <2>9, KeepsSettled, KeepsStored
  <2>12. QED
    BY <2>6, <2>7, <2>8, <2>9, <2>10, <2>11 DEF PipelineIInv
<1>4. QED
  BY <1>2, <1>3 DEF SwapPush

LEMMA PopStep ==
  ASSUME PipelineIInv, Pop
  PROVE  PipelineIInv'
<1>1. /\ UNCHANGED <<swapper, read_db, stored, failed, target>>
      /\ writer.at \in {"pop", "more"} /\ writer.job = NoJob
  BY DEF Pop, PipelineIInv, WriterInv
<1>2. CASE /\ queue.items # <<>>
           /\ writer' = [writer EXCEPT !.at = "job", !.job = Head(queue.items)]
           /\ queue' = [queue EXCEPT !.items = Tail(@)]
           /\ UNCHANGED open
  <2>1. /\ queue.items \in Seq(Job) /\ queue \in [items : Seq(Job), shutdown : BOOLEAN]
        /\ writer \in [at : Where, rows : Seq(Nat), db : Db, job : Job \union {NoJob}]
    BY DEF PipelineIInv, TypeInv
  <2>2. /\ Head(queue.items) \in Job /\ Tail(queue.items) \in Seq(Job)
        /\ Len(queue.items) \in Nat /\ Len(Tail(queue.items)) = Len(queue.items) - 1
        /\ 1 \in DOMAIN queue.items /\ Head(queue.items) = queue.items[1]
        /\ \A i \in DOMAIN Tail(queue.items) :
             i + 1 \in DOMAIN queue.items /\ Tail(queue.items)[i] = queue.items[i + 1]
    BY <1>2, <2>1, PoppedQueue
  <2>3. /\ queue'.items = Tail(queue.items) /\ queue'.shutdown = queue.shutdown
        /\ writer'.at = "job" /\ writer'.job = Head(queue.items)
        /\ writer'.rows = writer.rows /\ writer'.db = writer.db
    BY <1>2, <2>1
  <2>4. TypeInv'
    BY <1>1, <1>2, <2>1, <2>2 DEF PipelineIInv, TypeInv, Where
  <2>5. SizeInv'
    <3>1. Len(queue.items) - 1 <= kQueueCapacity
      BY <2>2, PipelineConstants DEF PipelineIInv, SizeInv
    <3>2. QED
      BY <1>1, <2>2, <2>3, <3>1 DEF PipelineIInv, SizeInv
  <2>6. WriterInv'
    BY <1>1, <2>2, <2>3, RowsOfFacts DEF PipelineIInv, WriterInv
  <2>7. Waits' = Waits /\ OrderInv'
    BY <1>1, <1>2, <2>1, <2>3, PopWaits DEF PipelineIInv, OrderInv, Waits
  <2>8. TargetInv'
    BY <1>1, <1>2, <2>1, <2>3, PopAimed DEF PipelineIInv, TargetInv
  <2>9. LastInv' /\ SettledInv' /\ StoredInv'
    BY <1>1, <1>2, <2>3, <2>7, KeepsSettled, KeepsStored
  <2>10. QED
    BY <2>4, <2>5, <2>6, <2>7, <2>8, <2>9 DEF PipelineIInv
<1>3. ASSUME NEW at \in {"flush", "gone"}, writer' = [writer EXCEPT !.at = at],
             UNCHANGED queue, open' = open \/ open' = <<>>,
             at = "gone" => /\ writer.at = "pop" /\ queue.items = <<>> /\ queue.shutdown
      PROVE  PipelineIInv'
  <2>1. /\ writer \in [at : Where, rows : Seq(Nat), db : Db, job : Job \union {NoJob}]
        /\ open \in Seq(Nat)
    BY DEF PipelineIInv, TypeInv
  <2>2. /\ writer'.at = at /\ writer'.job = writer.job
        /\ writer'.rows = writer.rows /\ writer'.db = writer.db
    BY <1>3, <2>1
  <2>3. open' \in Seq(Nat)
    BY <1>3, <2>1, EmptySeq
  <2>4. TypeInv'
    BY <1>1, <1>3, <2>1, <2>3 DEF PipelineIInv, TypeInv, Where
  <2>5. SizeInv' /\ WriterInv' /\ OrderInv' /\ TargetInv' /\ Waits' = Waits
    BY <1>1, <1>3, <2>2 DEF PipelineIInv, SizeInv, WriterInv, OrderInv, TargetInv, Waits
  <2>6. LastInv' /\ SettledInv' /\ StoredInv'
    BY <1>1, <1>3, <2>2, <2>5, KeepsSettled, KeepsStored
  <2>7. QED
    BY <2>4, <2>5, <2>6 DEF PipelineIInv
<1>4. QED
  BY <1>2, <1>3 DEF Pop, CloseConnection

LEMMA TakeBatchStep ==
  ASSUME PipelineIInv, TakeBatch
  PROVE  PipelineIInv'
<1> DEFINE job == writer.job
           rows == writer.rows \o job.rows
           at == IF Len(rows) >= kMaxRowsPerTxn THEN "flush" ELSE "more"
<1>1. /\ UNCHANGED <<queue, swapper, read_db, stored, open, failed, target>>
      /\ writer.at = "job" /\ job.kind = "batch"
      /\ writer' = [writer EXCEPT !.rows = rows, !.job = NoJob, !.at = at]
  BY DEF TakeBatch
<1>2. /\ writer \in [at : Where, rows : Seq(Nat), db : Db, job : Job \union {NoJob}]
      /\ queue.items \in Seq(Job)
  BY DEF PipelineIInv, TypeInv
<1>3. job \in BatchJob /\ job.rows \in Seq(Nat) /\ RowsOf(job) = job.rows
  BY <1>1, <1>2, RowsOfFacts DEF Job, SwapJob, BatchJob, NoJob
<1>4. /\ rows \in Seq(Nat) /\ Len(rows) = Len(writer.rows) + Len(job.rows)
      /\ Range(rows) = Range(writer.rows) \union Range(job.rows)
      /\ Len(writer.rows) \in Nat /\ Len(job.rows) \in Nat
  BY <1>2, <1>3, ConcatFacts, LenProperties
<1> HIDE DEF rows, at
<1>5. /\ writer'.at = at /\ writer'.job = NoJob
      /\ writer'.rows = rows /\ writer'.db = writer.db
  BY <1>1, <1>2
<1>6. at \in {"flush", "more"} /\ (at = "more" => ~(Len(rows) >= kMaxRowsPerTxn))
  BY DEF at
<1>7. TypeInv'
  BY <1>1, <1>2, <1>4, <1>6 DEF PipelineIInv, TypeInv, Where
<1>8. SizeInv'
  <2>1. Len(writer.rows) < kMaxRowsPerTxn /\ Len(job.rows) <= MaxBatch
    BY <1>1, <1>3 DEF PipelineIInv, SizeInv
  <2>2. kMaxRowsPerTxn \in Nat /\ MaxBatch \in Nat /\ Len(rows) \in Nat
    BY <1>4, PipelineConstants, LenProperties
  <2>3. \A a, b \in Nat : a < kMaxRowsPerTxn /\ b <= MaxBatch
                            => a + b < kMaxRowsPerTxn + MaxBatch
    BY <2>2
  <2>4. Len(writer.rows) + Len(job.rows) < kMaxRowsPerTxn + MaxBatch
    BY <1>4, <2>1, <2>3
  <2>5. /\ Len(rows) < kMaxRowsPerTxn + MaxBatch
        /\ at = "more" => Len(rows) < kMaxRowsPerTxn
    <3>1. ~(Len(rows) >= kMaxRowsPerTxn) => Len(rows) < kMaxRowsPerTxn
      BY <2>2
    <3>2. QED
      BY <1>4, <1>6, <2>4, <3>1
  <2>6. Len(RowsOf(NoJob)) <= MaxBatch
    BY RowsOfFacts, PipelineConstants
  <2>7. QED
    BY <1>1, <1>5, <1>6, <2>5, <2>6 DEF PipelineIInv, SizeInv
<1>9. WriterInv'
  BY <1>1, <1>5, <1>6 DEF PipelineIInv, WriterInv
<1>10. Waits' = Waits /\ OrderInv'
  BY <1>1, <1>2, <1>3, <1>5, TakeWaits DEF PipelineIInv, OrderInv, Waits, rows
<1>11. TargetInv'
  <2>1. Base(job, writer.db) = writer.db /\ Base(NoJob, writer.db) = writer.db
    BY <1>1, BaseFacts
  <2>2. Aimed(rows, NoJob, queue.items, writer.db, target)
    BY <1>3, <1>4, <2>1, RowsOfFacts, EmptyRange DEF PipelineIInv, TargetInv, Aimed
  <2>3. QED
    BY <1>1, <1>5, <2>2 DEF TargetInv
<1>12. LastInv' /\ SettledInv' /\ StoredInv'
  BY <1>1, <1>5, <1>10, KeepsSettled, KeepsStored
<1>13. QED
  BY <1>7, <1>8, <1>9, <1>10, <1>11, <1>12 DEF PipelineIInv
-----------------------------------------------------------------------------
(* Steps of the writer that write, and those of a change of database. *)

(* A transaction, with what may be left of an earlier one before it.       *)
LEMMA TransactionFacts ==
  ASSUME PipelineIInv, NEW kept \in Subsequences(writer.rows),
         NEW before \in {open, <<>>}
  PROVE  /\ before \o kept \in Seq(Nat) /\ Rising(before \o kept)
         /\ Below(stored[writer.db], before \o kept)
         /\ Range(before \o kept) \subseteq failed \union Range(writer.rows)
         /\ \A r \in Range(before \o kept) : target[r] = writer.db
         /\ \A r \in Range(writer.rows) : ~Settled(r) /\ r \in Nat /\ r \in Waits
<1>1. /\ writer.rows \in Seq(Nat) /\ writer.db \in Db /\ open \in Seq(Nat)
      /\ stored \in [Db -> Seq(Nat)] /\ target \in Seq(Db)
  BY DEF PipelineIInv, TypeInv
<1>2. Rising(writer.rows)
  BY DEF PipelineIInv, OrderInv, InOrder
<1>3. kept \in Seq(Nat) /\ Rising(kept) /\ Range(kept) \subseteq Range(writer.rows)
  BY <1>1, <1>2, SubsequenceFacts
<1>4. /\ before \in Seq(Nat) /\ Rising(before) /\ Range(before) \subseteq failed
      /\ Below(stored[writer.db], before)
      /\ \A r \in Range(before) : target[r] = writer.db
  <2>1. CASE before = open
    BY <1>1, <2>1 DEF PipelineIInv, StoredInv
  <2>2. CASE before = <<>>
    BY <2>2, EmptySeq, EmptyRange, EmptyRises
  <2>3. QED
    BY <2>1, <2>2
<1>5. Row \subseteq Nat
  BY <1>1, LenProperties DEF Row
<1>6. \A r \in Range(writer.rows) : r \in Waits /\ r \in Row /\ target[r] = writer.db
  BY WaitingIs DEF PipelineIInv, Waits, LastInv, TargetInv, Aimed
<1>7. \A r \in Range(writer.rows) : ~Settled(r) /\ r \in Nat /\ r \in Waits
  BY <1>5, <1>6 DEF PipelineIInv, SettledInv
<1>8. ASSUME NEW x \in Nat, Settled(x), NEW r \in Range(writer.rows) PROVE x < r
  <2>1. x \in Row /\ x \notin Waits
    BY <1>8 DEF PipelineIInv, SettledInv
  <2>2. ~(r < x) /\ r # x
    BY <1>6, <2>1 DEF PipelineIInv, LastInv
  <2>3. QED
    BY <1>7, <2>2
<1>9. \A x \in Range(before), y \in Range(kept) : x < y
  <2>1. \A x \in Range(before) : x \in Nat /\ Settled(x)
    BY <1>4 DEF PipelineIInv, TypeInv, Settled
  <2>2. QED
    BY <1>3, <1>8, <2>1
<1>10. \A x \in Range(stored[writer.db]), y \in Range(kept) : x < y
  <2>1. \A x \in Range(stored[writer.db]) : x \in Nat /\ Settled(x)
    <3>1. stored[writer.db] \in Seq(Nat)
      BY <1>1
    <3>2. Range(stored[writer.db]) \subseteq Nat
      BY <3>1, RangeIs, ElementOfSeq, LenProperties
    <3>3. QED
      BY <1>1, <3>2 DEF Settled
  <2>2. QED
    BY <1>3, <1>8, <2>1
<1>11. /\ before \o kept \in Seq(Nat)
       /\ Range(before \o kept) = Range(before) \union Range(kept)
  BY <1>3, <1>4, ConcatFacts
<1>12. Rising(before \o kept)
  BY <1>3, <1>4, <1>9, BelowRange, ConcatRises
<1>13. Below(stored[writer.db], before \o kept)
  BY <1>4, <1>10, <1>11, BelowRange
<1>14. /\ Range(before \o kept) \subseteq failed \union Range(writer.rows)
       /\ \A r \in Range(before \o kept) : target[r] = writer.db
  BY <1>3, <1>4, <1>6, <1>11
<1>15. QED
  BY <1>7, <1>11, <1>12, <1>13, <1>14

(* What an insertion leaves in the files, in a transaction that could not  *)
(* be ended and among the failures; every row of the transaction is        *)
(* settled by it, and no other.                                            *)
Written ==
  /\ stored \in [Db -> Seq(Nat)] /\ open \in Seq(Nat) /\ failed \subseteq Nat
  /\ StoredInv
  /\ \A db \in Db : failed \intersect Range(stored[db]) = {}

LEMMA InsertFacts ==
  ASSUME PipelineIInv, insertBatch, target' = target, writer'.db = writer.db
  PROVE  Written' /\ \A r : Settled(r)' <=> Settled(r) \/ r \in Range(writer.rows)
<1>1. /\ writer.rows \in Seq(Nat) /\ writer.db \in Db /\ open \in Seq(Nat)
      /\ stored \in [Db -> Seq(Nat)] /\ failed \subseteq Nat
  BY DEF PipelineIInv, TypeInv
<1>2. StoredInv /\ \A db \in Db : failed \intersect Range(stored[db]) = {}
  BY DEF PipelineIInv, SettledInv
<1>3. CASE writer.rows = <<>> /\ UNCHANGED <<stored, open, failed>>
  <2>1. Range(writer.rows) = {}
    BY <1>3, EmptyRange
  <2>2. QED
    BY <1>1, <1>2, <1>3, <2>1 DEF Written, StoredInv, Settled
<1>4. ASSUME NEW kept \in Subsequences(writer.rows), NEW before \in {open, <<>>},
             \/ /\ stored' = [stored EXCEPT ![writer.db] = @ \o (before \o kept)]
                /\ open' = <<>>
                /\ failed' = (failed \union Range(writer.rows)) \ Range(before \o kept)
             \/ /\ open' \in {before \o kept, <<>>}
                /\ failed' = failed \union Range(writer.rows)
                /\ UNCHANGED stored
      PROVE  Written' /\ \A r : Settled(r)' <=> Settled(r) \/ r \in Range(writer.rows)
  <2> DEFINE txn == before \o kept
             old == stored[writer.db]
  <2>1. /\ txn \in Seq(Nat) /\ Rising(txn) /\ Below(old, txn)
        /\ Range(txn) \subseteq failed \union Range(writer.rows)
        /\ \A r \in Range(txn) : target[r] = writer.db
        /\ \A r \in Range(writer.rows) : ~Settled(r) /\ r \in Nat
    BY TransactionFacts
  <2>2. /\ old \in Seq(Nat) /\ Rising(old)
        /\ \A r \in Range(old) : target[r] = writer.db
    BY <1>1, <1>2 DEF StoredInv
  <2>3. \A db \in Db : \A r \in Range(stored[db]) : r \notin Range(writer.rows) /\ r \notin failed
    BY <1>2, <2>1 DEF Settled
  <2> HIDE DEF txn, old
  <2>4. CASE /\ stored' = [stored EXCEPT ![writer.db] = old \o txn]
             /\ open' = <<>>
             /\ failed' = (failed \union Range(writer.rows)) \ Range(txn)
    <3>1. /\ old \o txn \in Seq(Nat) /\ Rising(old \o txn)
          /\ Range(old \o txn) = Range(old) \union Range(txn)
      BY <2>1, <2>2, ConcatFacts, ConcatRises
    <3>2. /\ stored' \in [Db -> Seq(Nat)]
          /\ stored'[writer.db] = old \o txn
          /\ \A db \in Db : db # writer.db => stored'[db] = stored[db]
      BY <1>1, <2>4, <3>1
    <3>3. open' \in Seq(Nat) /\ failed' \subseteq Nat
      BY <1>1, <2>1, <2>4, EmptySeq
    <3>4. ASSUME NEW db \in Db
          PROVE  /\ Rising(stored'[db])
                 /\ \A r \in Range(stored'[db]) : target[r] = db
                 /\ failed' \intersect Range(stored'[db]) = {}
      <4>1. CASE db = writer.db
        BY <1>1, <2>1, <2>2, <2>3, <2>4, <3>1, <3>2, <4>1 DEF old
      <4>2. CASE db # writer.db
        <5>1. Rising(stored[db]) /\ \A r \in Range(stored[db]) : target[r] = db
          BY <1>2 DEF StoredInv
        <5>2. QED
          BY <2>3, <2>4, <3>2, <4>2, <5>1
      <4>3. QED
        BY <4>1, <4>2
    <3>5. StoredInv'
      BY <2>4, <3>4, EmptyRange, EmptyRises DEF StoredInv
    <3>6. ASSUME NEW r PROVE Settled(r)' <=> Settled(r) \/ r \in Range(writer.rows)
      <4>1. Settled(r)' <=> r \in failed' \/ \E db \in Db : r \in Range(stored'[db])
        BY DEF Settled
      <4>2. (\E db \in Db : r \in Range(stored'[db])) <=>
              (\E db \in Db : r \in Range(stored[db])) \/ r \in Range(txn)
        BY <1>1, <3>1, <3>2 DEF old
      <4>3. QED
        BY <2>1, <2>4, <4>1, <4>2 DEF Settled
    <3>7. QED
      BY <3>2, <3>3, <3>4, <3>5, <3>6 DEF Written
  <2>5. CASE /\ open' \in {txn, <<>>}
             /\ failed' = failed \union Range(writer.rows)
             /\ UNCHANGED stored
    <3>1. open' \in Seq(Nat) /\ failed' \subseteq Nat /\ stored' \in [Db -> Seq(Nat)]
      BY <1>1, <2>1, <2>5, EmptySeq
    <3>2. /\ Rising(open') /\ Below(stored'[writer.db], open')
          /\ Range(open') \subseteq failed'
          /\ \A r \in Range(open') : target[r] = writer.db
      BY <2>1, <2>5, EmptyRange, EmptyRises DEF old
    <3>3. \A db \in Db : failed' \intersect Range(stored'[db]) = {}
      BY <2>3, <2>5
    <3>4. StoredInv'
      BY <1>2, <2>5, <3>2 DEF StoredInv
    <3>5. \A r : Settled(r)' <=> Settled(r) \/ r \in Range(writer.rows)
      BY <2>5 DEF Settled
    <3>6. QED
      BY <3>1, <3>3, <3>4, <3>5 DEF Written
  <2>6. QED
    BY <1>4, <2>4, <2>5 DEF txn, old
<1>5. QED
  BY <1>3, <1>4 DEF insertBatch

(* TakeSwap and Flush: the transaction is written, and is empty after.     *)
LEMMA WriteStep ==
  ASSUME PipelineIInv, insertBatch, NEW at \in {"switch", "pop"},
         IF at = "switch" THEN writer.at = "job" /\ writer.job.kind = "swap"
                          ELSE writer.at = "flush",
         writer' = [writer EXCEPT !.rows = <<>>, !.at = at],
         UNCHANGED <<queue, swapper, read_db, target>>
  PROVE  PipelineIInv'
<1>1. /\ writer \in [at : Where, rows : Seq(Nat), db : Db, job : Job \union {NoJob}]
  BY DEF PipelineIInv, TypeInv
<1>2. /\ writer'.at = at /\ writer'.rows = <<>>
      /\ writer'.job = writer.job /\ writer'.db = writer.db
  BY <1>1
<1>3. Written' /\ \A r : Settled(r)' <=> Settled(r) \/ r \in Range(writer.rows)
  BY <1>2, InsertFacts
<1>4. TypeInv'
  <2>1. writer' \in [at : Where, rows : Seq(Nat), db : Db, job : Job \union {NoJob}]
    BY <1>1, EmptySeq DEF Where
  <2>2. QED
    BY <1>3, <2>1 DEF PipelineIInv, TypeInv, Written
<1>5. SizeInv'
  <2>1. Len(<<>>) = 0 /\ 0 < kMaxRowsPerTxn /\ 0 < kMaxRowsPerTxn + MaxBatch
    BY PipelineConstants
  <2>2. QED
    BY <1>2, <2>1 DEF PipelineIInv, SizeInv
<1>6. WriterInv'
  <2>1. writer.at \notin {"gone", "switch", "applied"} /\ NoJob.kind = "none"
    BY RowsOfFacts
  <2>2. QED
    BY <1>2, <2>1 DEF PipelineIInv, WriterInv
<1>7. Row \subseteq Nat /\ Row' = Row
  BY LenProperties DEF PipelineIInv, TypeInv, Row
<1>8. InOrder(writer.rows, writer.job, queue.items) /\ Waits \subseteq Row
  BY DEF PipelineIInv, OrderInv, LastInv
<1>9. /\ Waits' = Waits \ Range(writer.rows)
      /\ \A x \in Range(writer.rows), y \in Waits' : x < y
      /\ OrderInv'
  <2> DEFINE old == Waiting(writer.rows, writer.job, queue.items)
             new == Waiting(<<>>, writer.job, queue.items)
  <2>1. old \subseteq Nat
    BY <1>7, <1>8 DEF Waits
  <2>2. /\ new = old \ Range(writer.rows)
        /\ \A x \in Range(writer.rows), y \in new : x < y
        /\ InOrder(<<>>, writer.job, queue.items)
    BY <1>8, <2>1, DropWaits
  <2>3. QED
    BY <1>2, <2>2 DEF Waits, OrderInv
<1>10. LastInv'
  <2>1. ASSUME NEW u \in Waits', NEW r \in Row, u < r PROVE r \in Waits'
    <3>1. r \in Waits
      BY <1>9, <2>1 DEF PipelineIInv, LastInv
    <3>2. r \notin Range(writer.rows)
      <4>1. u \in Nat /\ r \in Nat
        BY <1>7, <1>8, <1>9
      <4>2. QED
        BY <1>9, <2>1, <4>1
    <3>3. QED
      BY <1>9, <3>1, <3>2
  <2>2. QED
    BY <1>7, <1>8, <1>9, <2>1 DEF LastInv
<1>11. SettledInv'
  <2>1. \A r \in Range(writer.rows) : r \in Waits
    BY WaitingIs DEF Waits
  <2>2. ASSUME NEW r \in Nat PROVE Settled(r)' <=> r \in Row /\ r \notin Waits'
    <3>1. Settled(r) <=> r \in Row /\ r \notin Waits
      BY DEF PipelineIInv, SettledInv
    <3>2. QED
      BY <1>3, <1>8, <1>9, <2>1, <3>1
  <2>3. QED
    BY <1>3, <1>7, <2>2 DEF SettledInv, Written
<1>12. StoredInv'
  BY <1>3 DEF Written
<1>13. TargetInv'
  <2>1. Aimed(<<>>, writer.job, queue.items, writer.db, target)
    BY EmptyRange DEF PipelineIInv, TargetInv, Aimed
  <2>2. QED
    BY <1>2, <2>1 DEF TargetInv
<1>14. QED
  BY <1>4, <1>5, <1>6, <1>9, <1>10, <1>11, <1>12, <1>13 DEF PipelineIInv

(* The writer changes its database, and then the readers' one.             *)
LEMMA SwitchStep ==
  ASSUME PipelineIInv, Switch \/ Applied
  PROVE  PipelineIInv'
<1>1. /\ UNCHANGED <<queue, swapper, stored, failed, target>>
      /\ writer \in [at : Where, rows : Seq(Nat), db : Db, job : Job \union {NoJob}]
      /\ writer.at \in {"switch", "applied"}
  BY DEF Switch, Applied, PipelineIInv, TypeInv
<1>2. /\ writer.job.kind = "swap" /\ writer.rows = <<>> /\ writer.job # NoJob
  BY <1>1 DEF PipelineIInv, WriterInv
<1>3. writer.job \in SwapJob /\ writer.job.db \in Db
      /\ RowsOf(writer.job) = <<>> /\ RowsOf(NoJob) = <<>>
  BY <1>1, <1>2, RowsOfFacts DEF Job, BatchJob
<1>4. /\ writer'.rows = <<>> /\ writer'.db = writer.job.db
      /\ \/ /\ writer'.at = "applied" /\ writer'.job = writer.job
            /\ open' = <<>> /\ read_db' = read_db
         \/ /\ writer'.at = "flush" /\ writer'.job = NoJob /\ writer'.db = writer.db
            /\ open' = open /\ read_db' = writer.db
  <2>1. CASE Switch
    BY <1>1, <1>2, <2>1 DEF Switch, CloseConnection
  <2>2. CASE Applied
    BY <1>1, <1>2, <2>2 DEF Applied, PipelineIInv, WriterInv
  <2>3. QED
    BY <2>1, <2>2
<1>5. TypeInv'
  <2>1. writer' \in [at : Where, rows : Seq(Nat), db : Db, job : Job \union {NoJob}]
    BY <1>1, <1>3 DEF Switch, Applied, Where
  <2>2. open' \in Seq(Nat) /\ read_db' \in Db
    BY <1>4, EmptySeq DEF PipelineIInv, TypeInv
  <2>3. QED
    BY <1>1, <2>1, <2>2 DEF PipelineIInv, TypeInv
<1>6. SizeInv'
  BY <1>1, <1>2, <1>3, <1>4 DEF PipelineIInv, SizeInv
<1>7. WriterInv'
  BY <1>1, <1>2, <1>4 DEF PipelineIInv, WriterInv
<1>8. RowsOf(writer'.job) = <<>>
  BY <1>3, <1>4
<1>9. Waits' = Waits /\ OrderInv'
  BY <1>1, <1>2, <1>3, <1>4, <1>8 DEF PipelineIInv, OrderInv, InOrder, Waits, Waiting
<1>10. TargetInv'
  <2>1. Base(writer'.job, writer'.db) = Base(writer.job, writer.db)
    BY <1>2, <1>4, BaseFacts
  <2>2. QED
    BY <1>1, <1>4, <1>8, <2>1, EmptyRange DEF PipelineIInv, TargetInv, Aimed
<1>11. LastInv' /\ SettledInv' /\ StoredInv'
  BY <1>1, <1>4, <1>9, KeepsSettled, KeepsStored
<1>12. QED
  BY <1>5, <1>6, <1>7, <1>9, <1>10, <1>11 DEF PipelineIInv
-----------------------------------------------------------------------------
(* Readings that are accepted. *)

(* The rows of a frame come after all others, and are aimed at the         *)
(* database of the last change queued (TelemetryPipeline.cpp submit).      *)
LEMMA SubmitStep ==
  ASSUME PipelineIInv, NEW n \in 1..MaxBatch, Submit(n)
  PROVE  PipelineIInv'
<1> DEFINE fresh == [i \in 1..n |-> Len(target) + i]
           goals == [i \in 1..n |-> NextTarget]
           job == Batch(fresh)
           items == queue.items
           all == Append(items, job)
<1>1. /\ UNCHANGED <<writer, swapper, read_db, stored, open, failed>>
      /\ Len(items) < kQueueCapacity /\ ~queue.shutdown
      /\ queue' = [queue EXCEPT !.items = all]
      /\ target' = target \o goals
  BY DEF Submit, Room, push
<1>2. /\ queue \in [items : Seq(Job), shutdown : BOOLEAN] /\ items \in Seq(Job)
      /\ target \in Seq(Db) /\ Len(target) \in Nat /\ n \in Nat /\ n <= MaxBatch
      /\ MaxBatch \in Nat
  BY PipelineConstants, LenProperties DEF PipelineIInv, TypeInv
<1>3. fresh \in [1..n -> Nat]
  BY <1>2
<1>4. fresh \in Seq(Nat) /\ Len(fresh) = n /\ DOMAIN fresh = 1..n
  <2>1. fresh \in Seq(Nat)
    BY <1>2, <1>3, SeqDef
  <2>2. DOMAIN fresh = 1..n
    OBVIOUS
  <2>3. QED
    BY <1>2, <2>1, <2>2, LenProperties
<1>5. Rising(fresh) /\ \A r : r \in Range(fresh) <=> r \in Len(target) + 1 .. Len(target) + n
  <2>1. Rising(fresh)
    BY <1>2, <1>4 DEF Rising
  <2>2. ASSUME NEW r \in Range(fresh) PROVE r \in Len(target) + 1 .. Len(target) + n
    <3>1. PICK i \in 1..n : fresh[i] = r
      BY <1>4, RangeIs
    <3>2. QED
      BY <1>2, <3>1
  <2>3. ASSUME NEW r \in Len(target) + 1 .. Len(target) + n PROVE r \in Range(fresh)
    <3>1. r - Len(target) \in 1..n /\ Len(target) + (r - Len(target)) = r
      BY <1>2
    <3>2. r - Len(target) \in DOMAIN fresh /\ fresh[r - Len(target)] = r
      BY <3>1
    <3>3. QED
      BY <3>2, RangeIs
  <2>4. QED
    BY <2>1, <2>2, <2>3
<1> HIDE DEF fresh
<1>6. job \in BatchJob /\ job \in Job /\ RowsOf(job) = fresh
  <2>1. job \in BatchJob
    BY <1>4 DEF Batch, BatchJob
  <2>2. QED
    BY <2>1, RowsOfFacts DEF Batch, Job
<1> HIDE DEF job
<1>7. /\ all \in Seq(Job) /\ Len(items) \in Nat /\ Len(all) = Len(items) + 1
      /\ DOMAIN all = DOMAIN items \union {Len(items) + 1}
      /\ \A i \in DOMAIN items : all[i] = items[i]
      /\ all[Len(items) + 1] = job
  BY <1>2, <1>6, AppendedQueue
<1>8. queue'.items = all /\ queue'.shutdown = queue.shutdown
  BY <1>1, <1>2
<1>9. NextTarget \in Db /\ Aims(all, Base(writer.job, writer.db), Len(items) + 1, NextTarget)
  BY <1>6, NextTargetAims DEF PipelineIInv
<1>10. /\ target' \in Seq(Db) /\ Len(target') = Len(target) + n
       /\ \A r \in 1..Len(target) : target'[r] = target[r]
       /\ \A r \in Len(target) + 1 .. Len(target) + n : target'[r] = NextTarget
  <2>1. goals \in [1..n -> Db]
    BY <1>9
  <2>2. goals \in Seq(Db) /\ DOMAIN goals = 1..n
    BY <1>2, <2>1, SeqDef
  <2>3. Len(goals) = n
    BY <1>2, <2>2, LenProperties
  <2>4. \A i \in 1..n : goals[i] = NextTarget
    OBVIOUS
  <2> HIDE DEF goals
  <2>5. /\ target \o goals \in Seq(Db) /\ Len(target \o goals) = Len(target) + n
        /\ \A i \in 1..Len(target) + n :
             (target \o goals)[i] = IF i <= Len(target) THEN target[i]
                                                        ELSE goals[i - Len(target)]
    BY <1>2, <2>2, <2>3, ConcatProperties
  <2>6. \A r \in 1..Len(target) : r \in 1..Len(target) + n /\ r <= Len(target)
    BY <1>2
  <2>7. \A r \in Len(target) + 1 .. Len(target) + n :
          r \in 1..Len(target) + n /\ ~(r <= Len(target)) /\ r - Len(target) \in 1..n
    BY <1>2
  <2>8. QED
    BY <1>1, <2>4, <2>5, <2>6, <2>7
<1> HIDE DEF goals
<1>11. /\ Row \subseteq Nat /\ \A r : r \in Row' <=> r \in Row \/ r \in Range(fresh)
       /\ \A x \in Row, y \in Range(fresh) : x < y
       /\ \A r \in Row : target'[r] = target[r]
       /\ \A r \in Range(fresh) : target'[r] = NextTarget
       /\ Range(fresh) \subseteq Nat
  BY <1>2, <1>5, <1>10 DEF Row
<1>12. Waits \subseteq Row
  BY DEF PipelineIInv, LastInv
<1>13. Waits' = Waits \union Range(fresh) /\ OrderInv'
  <2> DEFINE old == Waiting(writer.rows, writer.job, items)
             new == Waiting(writer.rows, writer.job, all)
  <2>1. \A x \in old, y \in Range(RowsOf(job)) : x < y
    BY <1>6, <1>11, <1>12 DEF Waits
  <2>2. InOrder(writer.rows, writer.job, items) /\ Rising(RowsOf(job))
    BY <1>5, <1>6 DEF PipelineIInv, OrderInv
  <2>3. /\ new = old \union Range(RowsOf(job))
        /\ InOrder(writer.rows, writer.job, all)
    BY <1>2, <1>6, <2>1, <2>2, AppendWaits
  <2>4. QED
    BY <1>1, <1>6, <1>8, <2>3 DEF Waits, OrderInv
<1>14. TypeInv'
  BY <1>1, <1>2, <1>7, <1>10 DEF PipelineIInv, TypeInv
<1>15. SizeInv'
  <2>1. kQueueCapacity \in Nat /\ Len(items) + 1 <= kQueueCapacity
    BY <1>1, <1>7, PipelineConstants
  <2>2. \A i \in DOMAIN all : Len(RowsOf(all[i])) <= MaxBatch
    BY <1>2, <1>4, <1>6, <1>7 DEF PipelineIInv, SizeInv
  <2>3. QED
    BY <1>1, <1>7, <1>8, <2>1, <2>2 DEF PipelineIInv, SizeInv
<1>16. WriterInv'
  BY <1>1, <1>8 DEF PipelineIInv, WriterInv
<1>17. LastInv'
  <2>1. ASSUME NEW u \in Waits', NEW r \in Row', u < r PROVE r \in Waits'
    <3>1. CASE r \in Range(fresh)
      BY <1>13, <3>1
    <3>2. CASE r \in Row
      <4>1. u \notin Range(fresh)
        BY <1>11, <2>1, <3>2
      <4>2. u \in Waits
        BY <1>13, <4>1
      <4>3. QED
        BY <1>13, <2>1, <3>2, <4>2 DEF PipelineIInv, LastInv
    <3>3. QED
      BY <1>11, <3>1, <3>2
  <2>2. QED
    BY <1>11, <1>12, <1>13, <2>1 DEF LastInv
<1>18. SettledInv'
  <2>1. \A r : Settled(r)' <=> Settled(r)
    BY <1>1 DEF Settled
  <2>2. \A r \in Range(fresh) : r \notin Row
    BY <1>11
  <2>3. ASSUME NEW r \in Nat PROVE Settled(r)' <=> r \in Row' /\ r \notin Waits'
    BY <1>11, <1>13, <2>1, <2>2 DEF PipelineIInv, SettledInv
  <2>4. QED
    BY <1>1, <2>3 DEF PipelineIInv, SettledInv
<1>19. StoredInv'
  <2>1. \A r \in Nat : Settled(r) => target'[r] = target[r]
    BY <1>11 DEF PipelineIInv, SettledInv
  <2>2. ASSUME NEW db \in Db, NEW r \in Range(stored[db]) PROVE target'[r] = db
    <3>1. stored[db] \in Seq(Nat)
      BY DEF PipelineIInv, TypeInv
    <3>2. r \in Nat /\ Settled(r)
      BY <3>1, RangeIs, ElementOfSeq, LenProperties DEF Settled
    <3>3. QED
      BY <2>1, <2>2, <3>2 DEF PipelineIInv, StoredInv
  <2>3. \A r \in Range(open) : target'[r] = writer.db
    <3>1. \A r \in Range(open) : r \in Nat /\ Settled(r)
      BY DEF PipelineIInv, StoredInv, TypeInv, Settled
    <3>2. QED
      BY <2>1, <3>1 DEF PipelineIInv, StoredInv
  <2>4. QED
    BY <1>1, <2>2, <2>3 DEF PipelineIInv, StoredInv
<1>20. TargetInv'
  <2>1. \A r \in Waiting(writer.rows, writer.job, items) : target'[r] = target[r]
    BY <1>11, <1>12 DEF Waits
  <2>2. Aimed(writer.rows, writer.job, items, writer.db, target)
    BY DEF PipelineIInv, TargetInv
  <2>3. \A r \in Range(RowsOf(job)) :
          Aims(all, Base(writer.job, writer.db), Len(items) + 1, target'[r])
    BY <1>6, <1>9, <1>11
  <2>4. Aimed(writer.rows, writer.job, all, writer.db, target')
    BY <1>2, <1>6, <2>1, <2>2, <2>3, AppendAimed
  <2>5. QED
    BY <1>1, <1>8, <2>4 DEF TargetInv
<1>21. QED
  BY <1>13, <1>14, <1>15, <1>16, <1>17, <1>18, <1>19, <1>20 DEF PipelineIInv
-----------------------------------------------------------------------------
LEMMA InitPipeline == Init => PipelineIInv
<1> SUFFICES ASSUME Init PROVE PipelineIInv
  OBVIOUS
<1>1. PICK db \in Db :
        /\ writer = [at |-> "pop", rows |-> <<>>, db |-> db, job |-> NoJob]
        /\ read_db = db
  BY DEF Init
<1>2. /\ queue = [items |-> <<>>, shutdown |-> FALSE] /\ swapper = Away
      /\ stored = [d \in Db |-> <<>>] /\ open = <<>> /\ failed = {} /\ target = <<>>
  BY DEF Init
<1>3. /\ RowsOf(NoJob) = <<>> /\ NoJob.kind = "none" /\ Range(<<>>) = {}
      /\ DOMAIN <<>> = {} /\ Len(<<>>) = 0
  BY RowsOfFacts, EmptyRange
<1>4. /\ writer.rows = <<>> /\ writer.job = NoJob /\ writer.at = "pop" /\ writer.db = db
      /\ queue.items = <<>> /\ queue.shutdown = FALSE
  BY <1>1, <1>2
<1>5. TypeInv
  <2>1. \A S : <<>> \in Seq(S)
    BY EmptySeq
  <2>2. QED
    BY <1>1, <1>2, <2>1 DEF TypeInv, Where
<1>6. SizeInv
  <2>1. 0 <= kQueueCapacity /\ 0 <= MaxBatch /\ 0 < kMaxRowsPerTxn
        /\ 0 < kMaxRowsPerTxn + MaxBatch
    BY PipelineConstants
  <2>2. QED
    BY <1>3, <1>4, <2>1 DEF SizeInv
<1>7. WriterInv
  BY <1>1, <1>2, <1>3, <1>4 DEF WriterInv
<1>8. OrderInv /\ TargetInv
  BY <1>3, <1>4, EmptyRises DEF OrderInv, InOrder, TargetInv, Aimed
<1>9. Waits = {} /\ Row = {}
  <2>1. Waits = {}
    BY <1>3, <1>4 DEF Waits, Waiting
  <2>2. Row = {}
    BY <1>2, <1>3 DEF Row
  <2>3. QED
    BY <2>1, <2>2
<1>10. LastInv /\ SettledInv
  BY <1>2, <1>3, <1>9 DEF LastInv, SettledInv, Settled
<1>11. StoredInv
  BY <1>1, <1>2, <1>3, EmptyRises DEF StoredInv
<1>12. QED
  BY <1>5, <1>6, <1>7, <1>8, <1>10, <1>11 DEF PipelineIInv

LEMMA NextPipeline == PipelineIInv /\ [Next]_vars => PipelineIInv'
<1> SUFFICES ASSUME PipelineIInv, [Next]_vars PROVE PipelineIInv'
  OBVIOUS
<1>1. ASSUME NEW n \in 1..MaxBatch, Submit(n) PROVE PipelineIInv'
  BY <1>1, SubmitStep
<1>2. ASSUME NEW db \in Db, SwapBegin(db) PROVE PipelineIInv'
  BY <1>2, SwapBeginStep
<1>3. CASE SwapPush
  BY <1>3, SwapPushStep
<1>4. CASE Shutdown
  BY <1>4, ShutdownStep
<1>5. CASE Pop
  BY <1>5, PopStep
<1>6. CASE TakeBatch
  BY <1>6, TakeBatchStep
<1>7. CASE TakeSwap
  BY <1>7, WriteStep DEF TakeSwap
<1>8. CASE Switch \/ Applied
  BY <1>8, SwitchStep
<1>9. CASE Flush
  BY <1>9, WriteStep DEF Flush
<1>10. CASE UNCHANGED vars
  <2>1. UNCHANGED <<queue, writer, swapper, read_db, stored, open, failed, target>>
    BY <1>10 DEF vars
  <2>2. TypeInv' /\ SizeInv' /\ WriterInv' /\ OrderInv' /\ TargetInv' /\ Waits' = Waits
    BY <2>1 DEF PipelineIInv, TypeInv, SizeInv, WriterInv, OrderInv, TargetInv, Waits
  <2>3. LastInv' /\ SettledInv' /\ StoredInv'
    BY <2>1, <2>2, KeepsSettled, KeepsStored
  <2>4. QED
    BY <2>2, <2>3 DEF PipelineIInv
<1>11. QED
  BY <1>1, <1>2, <1>3, <1>4, <1>5, <1>6, <1>7, <1>8, <1>9, <1>10
  DEF Next, WriterNext, Terminated

(* Where every accepted row is, and where it is to go, at every moment     *)
(* (TelemetryPipeline.cpp, ThreadSafeQueue.h, Database.h insertBatch).     *)
THEOREM PipelineInvariant == Spec => []PipelineIInv
BY InitPipeline, NextPipeline, PTL DEF Spec

(* The rows at the places of the properties are those of the invariant.    *)
LEMMA PlacesAreParts ==
  ASSUME TypeInv
  PROVE  /\ Unwritten = Waits
         /\ \A p \in Places :
              \/ p = 1 /\ RowsAt(p) = writer.rows
              \/ p = 2 /\ RowsAt(p) = RowsOf(writer.job)
              \/ /\ p - 2 \in DOMAIN queue.items /\ p > 2
                 /\ RowsAt(p) = RowsOf(queue.items[p - 2])
<1>1. Len(queue.items) \in Nat /\ DOMAIN queue.items = 1..Len(queue.items)
  BY LenProperties DEF TypeInv
<1>2. ASSUME NEW p \in Places
      PROVE  \/ p = 1 /\ RowsAt(p) = writer.rows
             \/ p = 2 /\ RowsAt(p) = RowsOf(writer.job)
             \/ /\ p - 2 \in DOMAIN queue.items /\ p > 2
                /\ RowsAt(p) = RowsOf(queue.items[p - 2])
  <2>1. \/ p = 1
        \/ p = 2
        \/ p # 1 /\ p # 2 /\ p > 2 /\ p - 2 \in DOMAIN queue.items
    BY <1>1 DEF Places
  <2>2. QED
    BY <2>1 DEF RowsAt
<1>3. /\ 1 \in Places /\ RowsAt(1) = writer.rows
      /\ 2 \in Places /\ RowsAt(2) = RowsOf(writer.job)
      /\ \A i \in DOMAIN queue.items :
           i + 2 \in Places /\ RowsAt(i + 2) = RowsOf(queue.items[i])
  <2>1. ASSUME NEW i \in DOMAIN queue.items
        PROVE  i + 2 \in Places /\ i + 2 # 1 /\ i + 2 # 2 /\ (i + 2) - 2 = i
    BY <1>1 DEF Places
  <2>2. 1 \in Places /\ 2 \in Places
    BY <1>1 DEF Places
  <2>3. QED
    BY <2>1, <2>2 DEF RowsAt
<1>4. ASSUME NEW r PROVE r \in Unwritten <=> r \in Waits
  <2>1. r \in Unwritten <=> \E p \in Places : r \in Range(RowsAt(p))
    BY DEF Unwritten
  <2>2. r \in Waits <=>
          \/ r \in Range(writer.rows) \/ r \in Range(RowsOf(writer.job))
          \/ \E i \in DOMAIN queue.items : r \in Range(RowsOf(queue.items[i]))
    BY WaitingIs DEF Waits
  <2>3. ASSUME r \in Waits PROVE \E p \in Places : r \in Range(RowsAt(p))
    BY <1>3, <2>2, <2>3
  <2>4. ASSUME NEW p \in Places, r \in Range(RowsAt(p)) PROVE r \in Waits
    BY <1>2, <2>2, <2>4
  <2>5. QED
    BY <2>1, <2>3, <2>4
<1>5. QED
  BY <1>2, <1>4

(* The parts of RowsAccounted, of the invariant.                           *)
LEMMA EachRowOnceHolds ==
  ASSUME PipelineIInv
  PROVE  EachRowOnce
<1>1. Unwritten = Waits
  BY PlacesAreParts DEF PipelineIInv
<1>2. Row \subseteq Nat /\ Len(queue.items) \in Nat
  BY LenProperties DEF PipelineIInv, TypeInv, Row
<1>3. \A r \in Row : ~Settled(r) <=> r \in Unwritten
  BY <1>1, <1>2 DEF PipelineIInv, SettledInv
<1>4. ASSUME NEW p \in Places, NEW q \in Places, NEW i \in DOMAIN RowsAt(p),
             NEW j \in DOMAIN RowsAt(q), p < q \/ (p = q /\ i < j)
      PROVE  RowsAt(p)[i] < RowsAt(q)[j]
  <2>1. /\ \/ p = 1 /\ RowsAt(p) = writer.rows
           \/ p = 2 /\ RowsAt(p) = RowsOf(writer.job)
           \/ /\ p - 2 \in DOMAIN queue.items /\ p > 2
              /\ RowsAt(p) = RowsOf(queue.items[p - 2])
        /\ \/ q = 1 /\ RowsAt(q) = writer.rows
           \/ q = 2 /\ RowsAt(q) = RowsOf(writer.job)
           \/ /\ q - 2 \in DOMAIN queue.items /\ q > 2
              /\ RowsAt(q) = RowsOf(queue.items[q - 2])
    BY PlacesAreParts DEF PipelineIInv
  <2>2. p \in Nat /\ q \in Nat
    BY <1>2 DEF Places
  <2>3. InOrder(writer.rows, writer.job, queue.items)
    BY DEF PipelineIInv, OrderInv
  <2>4. CASE p = q /\ i < j
    <3>1. Rising(RowsAt(p))
      BY <2>1, <2>3 DEF InOrder
    <3>2. QED
      BY <2>4, <3>1 DEF Rising
  <2>5. CASE p < q
    <3>1. Below(RowsAt(p), RowsAt(q))
      <4>1. CASE p = 1 /\ RowsAt(p) = writer.rows
        BY <2>1, <2>2, <2>3, <2>5, <4>1 DEF InOrder
      <4>2. CASE p = 2 /\ RowsAt(p) = RowsOf(writer.job)
        BY <2>1, <2>2, <2>3, <2>5, <4>2 DEF InOrder
      <4>3. CASE /\ p - 2 \in DOMAIN queue.items /\ p > 2
                 /\ RowsAt(p) = RowsOf(queue.items[p - 2])
        <5>1. /\ q - 2 \in DOMAIN queue.items /\ p - 2 < q - 2
              /\ RowsAt(q) = RowsOf(queue.items[q - 2])
          BY <2>1, <2>2, <2>5, <4>3
        <5>2. QED
          BY <2>3, <4>3, <5>1 DEF InOrder
      <4>4. QED
        BY <2>1, <4>1, <4>2, <4>3
    <3>2. QED
      BY <3>1 DEF Below
  <2>6. QED
    BY <1>4, <2>4, <2>5
<1>5. QED
  BY <1>3, <1>4 DEF PipelineIInv, SettledInv, StoredInv, EachRowOnce

LEMMA PipelineTypeHolds ==
  ASSUME PipelineIInv
  PROVE  PipelineTypeOK
<1>1. /\ queue \in [items : Seq(Job), shutdown : BOOLEAN]
      /\ writer \in [at : Where, rows : Seq(Nat), db : Db, job : Job \union {NoJob}]
      /\ swapper = Away \/ swapper \in [at : {"push"}, db : Db]
      /\ read_db \in Db /\ target \in Seq(Db) /\ failed \subseteq Nat
  BY DEF PipelineIInv, TypeInv
<1>2. DOMAIN queue.items = 1..Len(queue.items) /\ \A i \in DOMAIN queue.items : queue.items[i] \in Job
  BY <1>1, LenProperties, ElementOfSeq
<1>3. ASSUME NEW job \in Range(queue.items)
      PROVE  job \in {SwapDb(db) : db \in Db} \union [kind : {"batch"}, rows : Seq(Row)]
  <2>1. PICK i \in DOMAIN queue.items : queue.items[i] = job
    BY RangeIs
  <2>2. CASE job \in SwapJob
    BY <2>2 DEF SwapJob, SwapDb
  <2>3. CASE job \in BatchJob
    <3>1. job.rows \in Seq(Nat) /\ RowsOf(job) = job.rows
      BY <2>3, RowsOfFacts DEF BatchJob
    <3>2. \A r \in Range(job.rows) : r \in Row
      BY <2>1, <3>1, WaitingIs DEF PipelineIInv, LastInv, Waits
    <3>3. /\ DOMAIN job.rows = 1..Len(job.rows) /\ Len(job.rows) \in Nat
          /\ job.rows = [k \in 1..Len(job.rows) |-> job.rows[k]]
      BY <3>1, LenProperties
    <3>4. \A k \in 1..Len(job.rows) : job.rows[k] \in Row
      BY <3>2, <3>3, RangeIs
    <3>5. job.rows \in Seq(Row)
      BY <3>1, <3>3, <3>4, SeqDef
    <3>6. QED
      BY <2>3, <3>5 DEF BatchJob
  <2>4. QED
    BY <1>2, <2>1, <2>2, <2>3 DEF Job
<1>4. failed \subseteq Row
  BY <1>1 DEF PipelineIInv, SettledInv, Settled
<1>5. writer.at \in Where /\ writer.db \in Db /\ queue.shutdown \in BOOLEAN
  BY <1>1
<1>6. swapper = Away \/ swapper.db \in Db
  BY <1>1
<1>7. Len(queue.items) <= kQueueCapacity /\ Len(writer.rows) < kMaxRowsPerTxn + MaxBatch
  BY DEF PipelineIInv, SizeInv
<1>8. Range(queue.items) \subseteq
        {SwapDb(db) : db \in Db} \union [kind : {"batch"}, rows : Seq(Row)]
  BY <1>3
<1>9. QED
  BY <1>1, <1>4, <1>5, <1>6, <1>7, <1>8 DEF PipelineTypeOK, Where

LEMMA RowsAreAccounted == PipelineIInv => RowsAccounted
<1> SUFFICES ASSUME PipelineIInv PROVE RowsAccounted
  OBVIOUS
<1>1. PipelineTypeOK /\ EachRowOnce
  BY PipelineTypeHolds, EachRowOnceHolds
<1>2. StoredWhereMeant
  BY DEF PipelineIInv, StoredInv, StoredWhereMeant, Rising
<1>3. DrainedAtExit
  <2> SUFFICES ASSUME writer.at = "gone"
               PROVE  /\ \A r \in Row : Settled(r)
                      /\ queue.items = <<>> /\ read_db = writer.db
    BY DEF DrainedAtExit
  <2>1. /\ queue.items = <<>> /\ read_db = writer.db
        /\ writer.rows = <<>> /\ writer.job = NoJob
    BY DEF PipelineIInv, WriterInv
  <2>2. Waits = {}
    BY <2>1, RowsOfFacts, EmptyRange DEF Waits, Waiting
  <2>3. Row \subseteq Nat
    BY LenProperties DEF PipelineIInv, TypeInv, Row
  <2>4. QED
    BY <2>1, <2>2, <2>3 DEF PipelineIInv, SettledInv
<1>4. QED
  BY <1>1, <1>2, <1>3 DEF RowsAccounted

(* Every accepted row is written once, in its database and its order, or   *)
(* logged as failed, or still on its way, and none is when the writer has  *)
(* ended (TelemetryPipeline.cpp writerLoop, Database.h insertBatch).       *)
THEOREM RowsAreAlwaysAccounted == Spec => []RowsAccounted
BY PipelineInvariant, RowsAreAccounted, PTL

LEMMA ReadersFollowStep ==
  ASSUME PipelineIInv, [Next]_vars, read_db' # read_db
  PROVE  /\ read_db' = writer.db
         /\ \A r \in Row : Settled(r) \/ \E i \in DOMAIN queue.items :
                                           r \in Range(RowsOf(queue.items[i]))
<1>1. Applied
  BY DEF Next, WriterNext, Terminated, vars, Submit, SwapBegin, SwapPush, Shutdown,
         Pop, TakeBatch, TakeSwap, Switch, Flush
<1>2. /\ writer.at = "applied" /\ read_db' = writer.job.db
      /\ writer.db = writer.job.db /\ writer.rows = <<>> /\ writer.job.kind = "swap"
  BY <1>1 DEF Applied, PipelineIInv, WriterInv
<1>3. Range(writer.rows) = {} /\ Range(RowsOf(writer.job)) = {}
  BY <1>2, EmptyRange DEF RowsOf
<1>4. Row \subseteq Nat
  BY LenProperties DEF PipelineIInv, TypeInv, Row
<1>5. ASSUME NEW r \in Row, ~Settled(r)
      PROVE  \E i \in DOMAIN queue.items : r \in Range(RowsOf(queue.items[i]))
  <2>1. r \in Waits
    BY <1>4, <1>5 DEF PipelineIInv, SettledInv
  <2>2. QED
    BY <1>3, <2>1, WaitingIs DEF Waits
<1>6. QED
  BY <1>2, <1>5

(* The readers are given a database only when the writer has changed to it *)
(* and has written all that was accepted before the change                 *)
(* (TelemetryPipeline.cpp:61).                                             *)
THEOREM ReadersAlwaysFollow == Spec => ReadersFollow
<1>1. PipelineIInv /\ [Next]_vars =>
        [read_db' # read_db =>
           /\ read_db' = writer.db
           /\ \A r \in Row : Settled(r) \/ \E i \in DOMAIN queue.items :
                                             r \in Range(RowsOf(queue.items[i]))]_vars
  BY ReadersFollowStep
<1>2. QED
  BY <1>1, PipelineInvariant, PTL DEF Spec, ReadersFollow
=============================================================================
