---------------------------- MODULE LoggerProofs ----------------------------
(***************************************************************************)
(* Proofs about AsyncLogger, for blocks of any size, any limits of the     *)
(* queue and any number of lines.                                          *)
(*                                                                         *)
(* Lines only move forward: from the block in use to the queue, from there *)
(* to the flush thread and to the output, or out of the way when a block   *)
(* is cut or the rest of it cannot be written.  So the invariant speaks of *)
(* four lists of blocks, each sorted and each before the next.             *)
(***************************************************************************)
EXTENDS AsyncLogger, FiniteSetTheorems, SequenceTheorems, TLAPS

Buffer == Seq(Line)

Where == {"open", "head", "lock", "checked", "asleep", "report", "write",
          "drain", "ended"}

TypeInv ==
  /\ currentBuffer \in Buffer \union {NoBuffer}
  /\ nextBuffer \in BOOLEAN /\ running \in BOOLEAN
  /\ bufferToWrite \in Seq(Buffer) /\ dropped \in Nat
  /\ flush \in [pc : Where, newCurrent : BOOLEAN, newNext : BOOLEAN,
                local : Seq(Buffer), taken : Nat, dropped : Nat, last : BOOLEAN,
                notified : BOOLEAN]
  /\ lines \in 0 .. MaxLines
  /\ output \in Seq(Buffer) /\ failed \subseteq Buffer /\ discarded \in Seq(Buffer)
  /\ reports \in [written : Nat, failed : Nat]

(* What the flush thread holds, by where it is.  Unless it drains, it      *)
(* leaves a block in use: the spare it has, or one that it wrote.          *)
ControlInv ==
  /\ Len(bufferToWrite) <= kMaxQueuedBuffers
  /\ flush.last => /\ ~running /\ flush.pc \in {"report", "write", "ended"}
                   /\ bufferToWrite = <<>> /\ dropped = 0
                   /\ currentBuffer \in {NoBuffer, <<>>}
  /\ currentBuffer = NoBuffer => flush.last
  /\ flush.pc = "drain" => ~running
  /\ flush.pc \notin {"report", "write"} => flush.local = <<>>
  /\ flush.pc # "report" => flush.dropped = 0
  /\ ~flush.last => \/ flush.newCurrent
                    \/ flush.pc \in {"report", "write"} /\ flush.taken > 0

(* Blocks whose lines follow each other.                                   *)
Increasing(block) == \A i, j \in DOMAIN block : i < j => block[i].id < block[j].id
Precedes(s, t) == \A m \in LinesIn(s), n \in LinesIn(t) : m < n
Sorted(s) ==
  /\ \A k \in DOMAIN s : Increasing(s[k])
  /\ \A k, l \in DOMAIN s : k < l => \A m \in Ids(s[k]), n \in Ids(s[l]) : m < n

InOrder(out, local, waiting, use) ==
  /\ Sorted(out) /\ Sorted(local) /\ Sorted(waiting) /\ Sorted(use)
  /\ Precedes(out, local) /\ Precedes(out, waiting) /\ Precedes(out, use)
  /\ Precedes(local, waiting) /\ Precedes(local, use)
  /\ Precedes(waiting, use)

OrderInv == InOrder(output, flush.local, bufferToWrite, InUse)

Unwritten ==
  LinesIn(flush.local) \union LinesIn(bufferToWrite) \union LinesIn(InUse)
Kept == LinesIn(output) \union Unwritten

LossInv ==
  /\ Kept \union CutLines \union FailedLines = 1 .. lines
  /\ Kept \intersect CutLines = {}
  /\ Unwritten \intersect FailedLines = {} /\ CutLines \intersect FailedLines = {}
  /\ OnlyABeginning

LoggerIInv ==
  TypeInv /\ ControlInv /\ OrderInv /\ LossInv /\ DropsAddUp
-----------------------------------------------------------------------------
(* Lists of blocks. *)

LEMMA NoLines ==
  /\ LinesIn(<<>>) = {} /\ Sorted(<<>>)
  /\ \A s : Precedes(<<>>, s) /\ Precedes(s, <<>>)
<1>1. Range(<<>>) = {}
  BY DEF Range
<1>2. LinesIn(<<>>) = {}
  BY <1>1 DEF LinesIn
<1>3. QED
  BY <1>2 DEF Sorted, Precedes

LEMMA OneBlock ==
  ASSUME NEW b \in Buffer
  PROVE  /\ <<b>> \in Seq(Buffer)
         /\ LinesIn(<<b>>) = Ids(b) /\ (Sorted(<<b>>) <=> Increasing(b))
<1>1. /\ <<b>> \in Seq(Buffer) /\ DOMAIN <<b>> = {1} /\ <<b>>[1] = b
  OBVIOUS
<1>2. Range(<<b>>) = {b}
  BY <1>1 DEF Range
<1>3. LinesIn(<<b>>) = Ids(b)
  BY <1>2 DEF LinesIn
<1>4. QED
  BY <1>1, <1>3 DEF Sorted

LEMMA LinesConcat ==
  ASSUME NEW s \in Seq(Buffer), NEW t \in Seq(Buffer)
  PROVE  /\ s \o t \in Seq(Buffer) /\ Len(s \o t) = Len(s) + Len(t)
         /\ LinesIn(s \o t) = LinesIn(s) \union LinesIn(t)
<1>1. s \o t \in Seq(Buffer) /\ Len(s \o t) = Len(s) + Len(t)
  BY ConcatProperties
<1>2. Range(s \o t) = Range(s) \union Range(t)
  BY RangeConcatenation
<1>3. QED
  BY <1>1, <1>2 DEF LinesIn

LEMMA LinesOfBlock ==
  ASSUME NEW s \in Seq(Buffer)
  PROVE  \A n : n \in LinesIn(s) <=> \E k \in DOMAIN s : n \in Ids(s[k])
<1>1. \A b : b \in Range(s) <=> \E k \in DOMAIN s : s[k] = b
  BY DEF Range
<1>2. \A n : n \in LinesIn(s) <=> \E b \in Range(s) : n \in Ids(b)
  BY DEF LinesIn
<1>3. QED
  BY <1>1, <1>2

LEMMA SortedConcat ==
  ASSUME NEW s \in Seq(Buffer), NEW t \in Seq(Buffer)
  PROVE  Sorted(s \o t) <=> Sorted(s) /\ Sorted(t) /\ Precedes(s, t)
<1> DEFINE u == s \o t
           a == Len(s)
           b == Len(t)
<1>1. /\ a \in Nat /\ DOMAIN s = 1..a /\ b \in Nat /\ DOMAIN t = 1..b
  BY LenProperties
<1>2. /\ u \in Seq(Buffer) /\ Len(u) = a + b
      /\ \A i \in 1..a + b : u[i] = IF i <= a THEN s[i] ELSE t[i - a]
  BY ConcatProperties
<1>3. DOMAIN u = 1..a + b
  BY <1>2, LenProperties
<1>4. \A i \in 1..a : i \in 1..a + b /\ i <= a
  BY <1>1
<1>5. \A i \in 1..b : i + a \in 1..a + b /\ ~(i + a <= a) /\ (i + a) - a = i
  BY <1>1
<1>6. \A i \in 1..a + b : ~(i <= a) => i - a \in 1..b /\ i \in Nat
  BY <1>1
<1>7. /\ \A i \in 1..a : u[i] = s[i]
      /\ \A i \in 1..b : u[i + a] = t[i]
  <2>1. \A i \in 1..a : u[i] = s[i]
    BY <1>2, <1>4
  <2>2. ASSUME NEW i \in 1..b PROVE u[i + a] = t[i]
    <3>1. u[i + a] = t[(i + a) - a]
      BY <1>2, <1>5
    <3>2. QED
      BY <1>5, <3>1
  <2>3. QED
    BY <2>1, <2>2
<1> HIDE DEF u, a, b
<1>8. ASSUME Sorted(u)
      PROVE  Sorted(s) /\ Sorted(t) /\ Precedes(s, t)
  <2>1. Sorted(s)
    BY <1>1, <1>3, <1>4, <1>7, <1>8 DEF Sorted
  <2>2. Sorted(t)
    <3>1. ASSUME NEW k \in DOMAIN t PROVE Increasing(t[k])
      BY <1>1, <1>3, <1>5, <1>7, <1>8 DEF Sorted
    <3>2. ASSUME NEW k \in DOMAIN t, NEW l \in DOMAIN t, k < l,
                 NEW m \in Ids(t[k]), NEW n \in Ids(t[l])
          PROVE  m < n
      <4>1. k + a < l + a
        BY <1>1, <3>2
      <4>2. QED
        BY <1>1, <1>3, <1>5, <1>7, <1>8, <3>2, <4>1 DEF Sorted
    <3>3. QED
      BY <3>1, <3>2 DEF Sorted
  <2>3. ASSUME NEW k \in DOMAIN s, NEW l \in DOMAIN t,
               NEW m \in Ids(s[k]), NEW n \in Ids(t[l])
        PROVE  m < n
    <3>1. k < l + a
      BY <1>1
    <3>2. QED
      BY <1>1, <1>3, <1>4, <1>5, <1>7, <1>8, <3>1 DEF Sorted
  <2>4. QED
    BY <2>1, <2>2, <2>3, LinesOfBlock DEF Precedes
<1>9. ASSUME Sorted(s), Sorted(t), Precedes(s, t)
      PROVE  Sorted(u)
  <2>1. ASSUME NEW k \in DOMAIN u PROVE Increasing(u[k])
    <3>1. CASE k <= a
      <4>1. k \in DOMAIN s
        BY <1>1, <1>3, <3>1
      <4>2. QED
        BY <1>1, <1>7, <1>9, <4>1 DEF Sorted
    <3>2. CASE ~(k <= a)
      <4>1. k - a \in DOMAIN t /\ u[k] = t[k - a]
        BY <1>1, <1>2, <1>3, <1>6, <3>2
      <4>2. QED
        BY <1>9, <4>1 DEF Sorted
    <3>3. QED
      BY <3>1, <3>2
  <2>2. ASSUME NEW k \in DOMAIN u, NEW l \in DOMAIN u, k < l,
               NEW m \in Ids(u[k]), NEW n \in Ids(u[l])
        PROVE  m < n
    <3>1. k \in 1..a + b /\ l \in 1..a + b
      BY <1>3
    <3>2. CASE l <= a
      <4>1. k \in 1..a /\ l \in 1..a
        BY <1>1, <2>2, <3>1, <3>2
      <4>2. u[k] = s[k] /\ u[l] = s[l]
        BY <1>7, <4>1
      <4>3. QED
        BY <1>1, <1>9, <2>2, <4>1, <4>2 DEF Sorted
    <3>3. CASE k <= a /\ ~(l <= a)
      <4>1. k \in 1..a /\ l - a \in 1..b
        BY <1>1, <1>6, <3>1, <3>3
      <4>2. u[k] = s[k] /\ u[l] = t[l - a]
        BY <1>2, <1>7, <3>1, <3>3, <4>1
      <4>3. m \in LinesIn(s) /\ n \in LinesIn(t)
        BY <1>1, <2>2, <4>1, <4>2, LinesOfBlock
      <4>4. QED
        BY <1>9, <4>3 DEF Precedes
    <3>4. CASE ~(k <= a)
      <4>1. ~(l <= a)
        BY <1>1, <2>2, <3>1, <3>4
      <4>2. k - a \in 1..b /\ l - a \in 1..b /\ k - a < l - a
        BY <1>1, <1>6, <2>2, <3>1, <3>4, <4>1
      <4>3. u[k] = t[k - a] /\ u[l] = t[l - a]
        BY <1>2, <3>1, <3>4, <4>1
      <4>4. QED
        BY <1>1, <1>9, <2>2, <4>2, <4>3 DEF Sorted
    <3>5. QED
      BY <3>2, <3>3, <3>4
  <2>3. QED
    BY <2>1, <2>2 DEF Sorted
<1>10. QED
  BY <1>8, <1>9 DEF u

LEMMA AppendedBlock ==
  ASSUME NEW s \in Seq(Buffer), NEW b \in Buffer
  PROVE  /\ Append(s, b) \in Seq(Buffer) /\ Len(Append(s, b)) = Len(s) + 1
         /\ Append(s, b) # <<>>
         /\ LinesIn(Append(s, b)) = LinesIn(s) \union LinesIn(<<b>>)
         /\ Sorted(Append(s, b)) <=> Sorted(s) /\ Sorted(<<b>>) /\ Precedes(s, <<b>>)
<1>1. /\ Append(s, b) \in Seq(Buffer) /\ Len(Append(s, b)) = Len(s) + 1
      /\ Append(s, b) # <<>> /\ Append(s, b) = s \o <<b>> /\ <<b>> \in Seq(Buffer)
  BY AppendProperties, AppendIsConcat, OneBlock
<1>2. LinesIn(s \o <<b>>) = LinesIn(s) \union LinesIn(<<b>>)
  BY <1>1, LinesConcat
<1>3. Sorted(s \o <<b>>) <=> Sorted(s) /\ Sorted(<<b>>) /\ Precedes(s, <<b>>)
  BY <1>1, SortedConcat
<1>4. QED
  BY <1>1, <1>2, <1>3

LEMMA FirstBlock ==
  ASSUME NEW s \in Seq(Buffer), s # <<>>
  PROVE  /\ Head(s) \in Buffer /\ Tail(s) \in Seq(Buffer)
         /\ s = <<Head(s)>> \o Tail(s)
         /\ LinesIn(s) = LinesIn(<<Head(s)>>) \union LinesIn(Tail(s))
         /\ Sorted(s) <=> /\ Sorted(<<Head(s)>>) /\ Sorted(Tail(s))
                          /\ Precedes(<<Head(s)>>, Tail(s))
<1>1. Head(s) \in Buffer /\ Tail(s) \in Seq(Buffer)
  BY HeadTailProperties
<1>2. Len(s) \in Nat /\ Len(s) # 0
  BY EmptySeq, LenProperties
<1>3. s = <<Head(s)>> \o Tail(s)
  <2>1. 1 \in 1..Len(s) /\ Len(s) \in 1..Len(s)
    BY <1>2
  <2>2. SubSeq(s, 1, Len(s)) = <<s[1]>> \o SubSeq(s, 1 + 1, Len(s))
    BY <2>1, SubSeqRecursiveFirst
  <2>3. Tail(s) = SubSeq(s, 2, Len(s)) /\ SubSeq(s, 1, Len(s)) = s /\ Head(s) = s[1]
    BY <1>2, TailIsSubSeq, SubSeqFull
  <2>4. QED
    BY <2>2, <2>3
<1>4. <<Head(s)>> \in Seq(Buffer)
  BY <1>1, OneBlock
<1> DEFINE first == <<Head(s)>>
           rest == Tail(s)
<1>5. LinesIn(first \o rest) = LinesIn(first) \union LinesIn(rest)
  BY <1>1, <1>4, LinesConcat
<1>6. Sorted(first \o rest) <=> Sorted(first) /\ Sorted(rest) /\ Precedes(first, rest)
  BY <1>1, <1>4, SortedConcat
<1>7. QED
  BY <1>1, <1>3, <1>5, <1>6

LEMMA CutBlocks ==
  ASSUME NEW s \in Seq(Buffer), NEW k \in Nat, k <= Len(s)
  PROVE  /\ SubSeq(s, 1, k) \in Seq(Buffer) /\ Len(SubSeq(s, 1, k)) = k
         /\ SubSeq(s, k + 1, Len(s)) \in Seq(Buffer)
         /\ Len(SubSeq(s, k + 1, Len(s))) = Len(s) - k
         /\ LinesIn(s) = LinesIn(SubSeq(s, 1, k)) \union LinesIn(SubSeq(s, k + 1, Len(s)))
         /\ Sorted(s) <=> /\ Sorted(SubSeq(s, 1, k)) /\ Sorted(SubSeq(s, k + 1, Len(s)))
                          /\ Precedes(SubSeq(s, 1, k), SubSeq(s, k + 1, Len(s)))
<1> DEFINE a == SubSeq(s, 1, k)
           b == SubSeq(s, k + 1, Len(s))
<1>1. Len(s) \in Nat /\ \A i \in 1..Len(s) : s[i] \in Buffer
  BY LenProperties
<1>2. a \in Seq(Buffer) /\ Len(a) = k
  <2>1. \A i \in 1..k : s[i] \in Buffer
    BY <1>1
  <2>2. a \in Seq(Buffer) /\ Len(a) = IF 1 <= k THEN k - 1 + 1 ELSE 0
    BY <2>1, SubSeqProperties
  <2>3. QED
    BY <2>2
<1>3. b \in Seq(Buffer) /\ Len(b) = Len(s) - k
  <2>1. \A i \in k + 1..Len(s) : s[i] \in Buffer
    BY <1>1
  <2>2. b \in Seq(Buffer)
        /\ Len(b) = IF k + 1 <= Len(s) THEN Len(s) - (k + 1) + 1 ELSE 0
    BY <1>1, <2>1, SubSeqProperties
  <2>3. QED
    BY <1>1, <2>2
<1>4. s = a \o b
  <2>1. 1 \in 1..Len(s) + 1 /\ k \in 1 - 1..Len(s) /\ Len(s) \in k..Len(s)
    BY <1>1
  <2>2. a \o b = SubSeq(s, 1, Len(s))
    BY <2>1, ConcatAdjacentSubSeq
  <2>3. QED
    BY <2>2, SubSeqFull
<1>5. /\ LinesIn(a \o b) = LinesIn(a) \union LinesIn(b)
      /\ Sorted(a \o b) <=> Sorted(a) /\ Sorted(b) /\ Precedes(a, b)
  BY <1>2, <1>3, LinesConcat, SortedConcat
<1>6. QED
  BY <1>2, <1>3, <1>4, <1>5

(* A line that is added to a block.                                        *)
LEMMA AppendedLine ==
  ASSUME NEW b \in Buffer, NEW line \in Line, \A m \in Ids(b) : m < line.id
  PROVE  /\ Append(b, line) \in Buffer /\ Ids(Append(b, line)) = Ids(b) \union {line.id}
         /\ Increasing(b) => Increasing(Append(b, line))
         /\ <<line>> \in Buffer /\ Ids(<<line>>) = {line.id} /\ Increasing(<<line>>)
<1> DEFINE all == Append(b, line)
           n == Len(b)
<1>1. n \in Nat /\ DOMAIN b = 1..n
  BY LenProperties DEF Buffer
<1>2. /\ all \in Buffer /\ Len(all) = n + 1 /\ all[n + 1] = line
      /\ \A i \in 1..n : all[i] = b[i]
  BY AppendProperties DEF Buffer
<1>3. DOMAIN all = 1..n + 1
  BY <1>2, LenProperties DEF Buffer
<1>4. \A i \in 1..n + 1 : i = n + 1 \/ i \in 1..n
  BY <1>1
<1>5. \A i \in 1..n : i \in 1..n + 1 /\ i < n + 1
  BY <1>1
<1>6. n + 1 \in 1..n + 1
  BY <1>1
<1> HIDE DEF all, n
<1>7. Ids(all) = Ids(b) \union {line.id}
  <2>1. ASSUME NEW x \in Ids(all) PROVE x \in Ids(b) \union {line.id}
    BY <1>1, <1>2, <1>3, <1>4 DEF Ids
  <2>2. ASSUME NEW x \in Ids(b) PROVE x \in Ids(all)
    BY <1>1, <1>2, <1>3, <1>5 DEF Ids
  <2>3. line.id \in Ids(all)
    BY <1>2, <1>3, <1>6 DEF Ids
  <2>4. QED
    BY <2>1, <2>2, <2>3
<1>8. ASSUME Increasing(b), NEW i \in DOMAIN all, NEW j \in DOMAIN all, i < j
      PROVE  all[i].id < all[j].id
  <2>1. i \in 1..n
    BY <1>1, <1>3, <1>4, <1>8
  <2>2. CASE j \in 1..n
    BY <1>1, <1>2, <1>8, <2>1, <2>2 DEF Increasing
  <2>3. CASE j = n + 1
    <3>1. all[i].id \in Ids(b)
      BY <1>1, <1>2, <2>1 DEF Ids
    <3>2. QED
      BY <1>2, <2>3, <3>1
  <2>4. QED
    BY <1>3, <1>4, <2>2, <2>3
<1>9. /\ <<line>> \in Buffer /\ DOMAIN <<line>> = {1} /\ <<line>>[1] = line
  BY DEF Buffer
<1>10. Ids(<<line>>) = {line.id} /\ Increasing(<<line>>)
  BY <1>9 DEF Ids, Increasing
<1>11. QED
  BY <1>2, <1>7, <1>8, <1>9, <1>10 DEF all, Increasing
(* What a failing write has put out is the beginning of the block.         *)
LEMMA BegunBlock ==
  ASSUME NEW b \in Buffer, NEW bytes
  PROVE  /\ Begun(b, bytes) \in Buffer
         /\ Ids(Begun(b, bytes)) \subseteq Ids(b)
         /\ Increasing(b) => Increasing(Begun(b, bytes))
         /\ Increasing(b) =>
              \A i, j \in DOMAIN b : i < j /\ b[j].id \in Ids(Begun(b, bytes))
                                       => b[i].id \in Ids(Begun(b, bytes))
<1> DEFINE n == Len(b)
           reached == {i \in DOMAIN b : Size(SubSeq(b, 1, i - 1)) < bytes}
           k == Cardinality(reached)
           begun == SubSeq(b, 1, k)
<1>1. n \in Nat /\ DOMAIN b = 1..n /\ \A i \in 1..n : b[i] \in Line
  BY LenProperties DEF Buffer
<1>2. k \in 0..n
  <2>1. reached \subseteq 1..n
    BY <1>1
  <2> HIDE DEF reached, n
  <2>2. IsFiniteSet(1..n) /\ Cardinality(1..n) = n
    BY <1>1, FS_Interval
  <2>3. Cardinality(reached) <= n /\ IsFiniteSet(reached)
    BY <2>1, <2>2, FS_Subset
  <2>4. QED
    BY <1>1, <2>3, FS_CardinalityType DEF k
<1>3. Begun(b, bytes) = begun
  BY DEF Begun
<1> HIDE DEF k, reached
<1>4. begun \in Buffer /\ DOMAIN begun = 1..k /\ \A i \in 1..k : begun[i] = b[i]
  <2>1. \A i \in 1..k : b[i] \in Line
    BY <1>1, <1>2
  <2>2. begun \in Seq(Line) /\ Len(begun) = IF 1 <= k THEN k - 1 + 1 ELSE 0
    BY <1>2, <2>1, SubSeqProperties
  <2>3. \A i \in 1..k : begun[i] = b[i]
    BY <1>1, <1>2 DEF Buffer
  <2>4. QED
    BY <1>2, <2>2, <2>3, LenProperties DEF Buffer
<1> HIDE DEF n, begun
<1>5. \A i \in 1..k : i \in 1..n
  BY <1>1, <1>2
<1>6. \A x : x \in Ids(begun) <=> \E i \in 1..k : x = b[i].id
  BY <1>4 DEF Ids
<1>7. Ids(begun) \subseteq Ids(b)
  BY <1>1, <1>5, <1>6 DEF Ids
<1>8. Increasing(b) => Increasing(begun)
  BY <1>1, <1>4, <1>5 DEF Increasing
<1>9. ASSUME Increasing(b), NEW i \in 1..n, NEW j \in 1..n, i < j,
             b[j].id \in Ids(begun)
      PROVE  b[i].id \in Ids(begun)
  <2>1. PICK l \in 1..k : b[j].id = b[l].id
    BY <1>6, <1>9
  <2>2. b[j].id \in Nat /\ b[l].id \in Nat /\ l \in 1..n
    BY <1>1, <1>5 DEF Line
  <2>3. ~(l < j)
    BY <1>1, <1>9, <2>1, <2>2 DEF Increasing
  <2>4. i \in 1..k
    BY <1>1, <1>2, <1>9, <2>3
  <2>5. QED
    BY <1>6, <2>4
<1>10. QED
  BY <1>1, <1>3, <1>4, <1>7, <1>8, <1>9
-----------------------------------------------------------------------------
(* The block in use. *)

LEMMA NullIsNoBuffer == NoBuffer \notin Buffer
<1> SUFFICES ASSUME NoBuffer \in Seq(Line) PROVE FALSE
  BY DEF Buffer
<1>1. DOMAIN NoBuffer = 1..1 /\ NoBuffer[1].id = 0
  BY DEF NoBuffer
<1>2. NoBuffer[1] \in Line
  <2>1. NoBuffer \in [1..Len(NoBuffer) -> Line] /\ DOMAIN NoBuffer = 1..Len(NoBuffer)
    BY LenProperties
  <2>2. 1 \in 1..Len(NoBuffer)
    BY <1>1, <2>1
  <2>3. QED
    BY <2>1, <2>2
<1>3. QED
  BY <1>1, <1>2 DEF Line

LEMMA EmptyBlock ==
  /\ <<>> \in Buffer /\ Ids(<<>>) = {} /\ Increasing(<<>>)
  /\ LinesIn(<< <<>> >>) = {} /\ Sorted(<< <<>> >>)
<1>1. <<>> \in Buffer /\ Ids(<<>>) = {} /\ Increasing(<<>>)
  BY EmptySeq DEF Buffer, Ids, Increasing
<1>2. QED
  BY <1>1, OneBlock

LEMMA UseIs ==
  ASSUME TypeInv
  PROVE  /\ InUse \in Seq(Buffer)
         /\ currentBuffer = NoBuffer => InUse = <<>>
         /\ currentBuffer # NoBuffer => /\ currentBuffer \in Buffer
                                        /\ InUse = <<currentBuffer>>
         /\ currentBuffer = <<>> => LinesIn(InUse) = {}
<1>1. <<>> # NoBuffer
  BY EmptyBlock, NullIsNoBuffer
<1>2. CASE currentBuffer = NoBuffer
  BY <1>1, <1>2, EmptySeq DEF InUse
<1>3. CASE currentBuffer # NoBuffer
  <2>1. currentBuffer \in Buffer /\ InUse = <<currentBuffer>>
    BY <1>3 DEF TypeInv, InUse
  <2>2. QED
    BY <1>3, <2>1, OneBlock, EmptyBlock
<1>4. QED
  BY <1>2, <1>3

LEMMA KeptIsPast ==
  ASSUME LoggerIInv
  PROVE  /\ lines \in Nat /\ Kept \subseteq 1 .. lines
         /\ CutLines \subseteq 1 .. lines /\ FailedLines \subseteq 1 .. lines
         /\ Unwritten \subseteq Kept
         /\ LinesIn(output) \subseteq Kept /\ LinesIn(flush.local) \subseteq Kept
         /\ LinesIn(bufferToWrite) \subseteq Kept /\ LinesIn(InUse) \subseteq Kept
BY DEF LoggerIInv, TypeInv, LossInv, Kept, Unwritten
-----------------------------------------------------------------------------
(* Steps that move no block. *)

LEMMA QuietStep ==
  ASSUME LoggerIInv, TypeInv', ControlInv',
         UNCHANGED <<currentBuffer, bufferToWrite, lines, output, failed, discarded>>,
         flush'.local = flush.local, DropsAddUp'
  PROVE  LoggerIInv'
<1>1. InUse' = InUse /\ CutLines' = CutLines /\ FailedLines' = FailedLines
  BY DEF InUse, CutLines, FailedLines
<1>2. OrderInv'
  BY <1>1 DEF LoggerIInv, OrderInv
<1>3. LossInv'
  BY <1>1 DEF LoggerIInv, LossInv, Kept, Unwritten, OnlyABeginning
<1>4. QED
  BY <1>2, <1>3 DEF LoggerIInv

LEMMA DestroyStep ==
  ASSUME LoggerIInv, Destroy
  PROVE  LoggerIInv'
<1>1. /\ UNCHANGED <<front, lines, discarded, written>>
      /\ running /\ running' = FALSE /\ flush' = Notified(flush)
  BY DEF Destroy
<1>2. /\ flush'.pc = flush.pc /\ flush'.local = flush.local
      /\ flush'.dropped = flush.dropped /\ flush'.last = flush.last
      /\ flush'.taken = flush.taken /\ flush'.newCurrent = flush.newCurrent
  BY <1>1 DEF Notified, LoggerIInv, TypeInv
<1>3. TypeInv'
  BY <1>1 DEF LoggerIInv, TypeInv, front, written, Notified
<1>4. ControlInv' /\ DropsAddUp'
  BY <1>1, <1>2 DEF LoggerIInv, ControlInv, DropsAddUp, front, written
<1>5. QED
  BY <1>1, <1>2, <1>3, <1>4, QuietStep DEF front, written

(* The steps of the flush thread between its critical sections.            *)
LEMMA GotoStep ==
  ASSUME LoggerIInv, NEW pc \in Where \ {"report", "write"}, Goto(pc),
         flush.pc \notin {"report", "write"}, ~flush.last, pc = "drain" => ~running,
         UNCHANGED <<front, running, lines, discarded, written>>
  PROVE  LoggerIInv'
<1>1. /\ flush'.pc = pc /\ flush'.local = flush.local
      /\ flush'.dropped = flush.dropped /\ flush'.last = flush.last
      /\ flush'.taken = flush.taken /\ flush'.newCurrent = flush.newCurrent
  BY DEF Goto, LoggerIInv, TypeInv
<1>2. TypeInv'
  BY DEF LoggerIInv, TypeInv, front, written, Goto
<1>3. ControlInv' /\ DropsAddUp'
  BY <1>1 DEF LoggerIInv, ControlInv, DropsAddUp, front, written
<1>4. QED
  BY <1>1, <1>2, <1>3, QuietStep DEF front, written

LEMMA ReportStep ==
  ASSUME LoggerIInv, ReportDropped
  PROVE  LoggerIInv'
<1>1. /\ flush.pc = "report"
      /\ flush' = [flush EXCEPT !.pc = "write", !.dropped = 0]
      /\ UNCHANGED <<currentBuffer, nextBuffer, bufferToWrite, dropped, running,
                     lines, discarded, output, failed>>
  BY DEF ReportDropped, front
<1>2. /\ flush'.pc = "write" /\ flush'.local = flush.local
      /\ flush'.dropped = 0 /\ flush'.last = flush.last
      /\ flush'.taken = flush.taken /\ flush'.newCurrent = flush.newCurrent
  BY <1>1 DEF LoggerIInv, TypeInv
<1>3. /\ reports' \in [written : Nat, failed : Nat]
      /\ reports'.written + reports'.failed =
           reports.written + reports.failed + flush.dropped
  <2>1. /\ reports \in [written : Nat, failed : Nat] /\ flush.dropped \in Nat
        /\ reports.written \in Nat /\ reports.failed \in Nat
    BY DEF LoggerIInv, TypeInv
  <2>2. CASE reports' = [reports EXCEPT !.written = @ + flush.dropped]
    BY <2>1, <2>2
  <2>3. CASE reports' = [reports EXCEPT !.failed = @ + flush.dropped]
    BY <2>1, <2>3
  <2>4. QED
    BY <2>2, <2>3 DEF ReportDropped
<1>4. TypeInv'
  BY <1>1, <1>3 DEF LoggerIInv, TypeInv, Where
<1>5. ControlInv'
  BY <1>1, <1>2 DEF LoggerIInv, ControlInv
<1>6. DropsAddUp'
  <2>1. /\ flush.dropped \in Nat /\ dropped \in Nat
        /\ reports.written \in Nat /\ reports.failed \in Nat
        /\ reports'.written \in Nat /\ reports'.failed \in Nat
    BY <1>3 DEF LoggerIInv, TypeInv
  <2>2. QED
    BY <1>1, <1>2, <1>3, <2>1 DEF LoggerIInv, DropsAddUp
<1>7. QED
  BY <1>1, <1>2, <1>4, <1>5, <1>6, QuietStep

(* The spares are refilled from what was written.                          *)
LEMMA WrittenStep ==
  ASSUME LoggerIInv, Written
  PROVE  LoggerIInv'
<1>1. /\ UNCHANGED <<front, running, lines, discarded, written>>
      /\ flush.pc = "write" /\ flush.local = <<>>
  BY DEF Written
<1>2. flush \in [pc : Where, newCurrent : BOOLEAN, newNext : BOOLEAN,
                 local : Seq(Buffer), taken : Nat, dropped : Nat, last : BOOLEAN,
                 notified : BOOLEAN]
  BY DEF LoggerIInv, TypeInv
<1>3. CASE flush.last /\ flush' = [flush EXCEPT !.pc = "ended"]
  <2>1. /\ flush'.pc = "ended" /\ flush'.local = flush.local
        /\ flush'.dropped = flush.dropped /\ flush'.last = flush.last
        /\ flush'.taken = flush.taken /\ flush'.newCurrent = flush.newCurrent
    BY <1>2, <1>3
  <2>2. TypeInv'
    BY <1>1, <1>2, <1>3 DEF LoggerIInv, TypeInv, front, written, Where
  <2>3. ControlInv' /\ DropsAddUp'
    BY <1>1, <1>3, <2>1 DEF LoggerIInv, ControlInv, DropsAddUp, front, written
  <2>4. QED
    BY <1>1, <2>1, <2>2, <2>3, QuietStep DEF front, written
<1>4. CASE /\ ~flush.last
           /\ flush' = [Recycled(flush, flush.taken) EXCEPT !.pc = "head", !.taken = 0]
  <2>1. /\ flush'.pc = "head" /\ flush'.local = flush.local
        /\ flush'.dropped = flush.dropped /\ flush'.last = flush.last
        /\ flush'.newCurrent = (flush.newCurrent \/ flush.taken > 0)
    BY <1>2, <1>4 DEF Recycled
  <2>2. flush' \in [pc : Where, newCurrent : BOOLEAN, newNext : BOOLEAN,
                    local : Seq(Buffer), taken : Nat, dropped : Nat, last : BOOLEAN,
                    notified : BOOLEAN]
    BY <1>2, <1>4 DEF Recycled, Where
  <2>3. TypeInv'
    BY <1>1, <2>2 DEF LoggerIInv, TypeInv, front, written
  <2>4. ControlInv' /\ DropsAddUp'
    BY <1>1, <1>4, <2>1 DEF LoggerIInv, ControlInv, DropsAddUp, front, written
  <2>5. QED
    BY <1>1, <2>1, <2>3, <2>4, QuietStep DEF front, written
<1>5. QED
  BY <1>3, <1>4 DEF Written
-----------------------------------------------------------------------------
(* append() *)

(* What is kept of the queue when it is cut, and what is given up.         *)
LEMMA CutFacts ==
  ASSUME LoggerIInv,
         NEW kept, kept = IF Overflow THEN SubSeq(bufferToWrite, 1, kKeepOnOverflow)
                                      ELSE bufferToWrite,
         IF Overflow THEN Cut ELSE UNCHANGED <<dropped, discarded>>
  PROVE  /\ kept \in Seq(Buffer) /\ Len(kept) + 1 <= kMaxQueuedBuffers /\ Sorted(kept)
         /\ discarded' \in Seq(Buffer) /\ dropped' \in Nat
         /\ Len(discarded') - dropped' = Len(discarded) - dropped
         /\ LinesIn(kept) \subseteq LinesIn(bufferToWrite)
         /\ LinesIn(discarded') =
              LinesIn(discarded) \union (LinesIn(bufferToWrite) \ LinesIn(kept))
<1>1. /\ bufferToWrite \in Seq(Buffer) /\ discarded \in Seq(Buffer) /\ dropped \in Nat
      /\ Sorted(bufferToWrite) /\ Len(bufferToWrite) \in Nat /\ Len(discarded) \in Nat
      /\ Len(bufferToWrite) <= kMaxQueuedBuffers
  BY LenProperties DEF LoggerIInv, TypeInv, ControlInv, OrderInv, InOrder
<1>2. CASE ~Overflow
  <2>1. Len(bufferToWrite) + 1 <= kMaxQueuedBuffers
    BY <1>1, <1>2, LoggerConstants DEF Overflow
  <2>2. kept = bufferToWrite /\ discarded' = discarded /\ dropped' = dropped
    BY <1>2
  <2>3. QED
    BY <1>1, <2>1, <2>2
<1>3. CASE Overflow
  <2> DEFINE k == kKeepOnOverflow
             gone == SubSeq(bufferToWrite, k + 1, Len(bufferToWrite))
  <2>1. k \in Nat /\ k <= Len(bufferToWrite) /\ k + 1 <= kMaxQueuedBuffers
    BY <1>1, <1>3, LoggerConstants DEF Overflow
  <2>2. kept = SubSeq(bufferToWrite, 1, k)
    BY <1>3
  <2>3. /\ kept \in Seq(Buffer) /\ Len(kept) = k
        /\ gone \in Seq(Buffer) /\ Len(gone) = Len(bufferToWrite) - k
        /\ LinesIn(bufferToWrite) = LinesIn(kept) \union LinesIn(gone)
        /\ Sorted(kept) /\ Precedes(kept, gone)
    <3> DEFINE s == bufferToWrite
    <3> HIDE DEF s, k
    <3>1. s \in Seq(Buffer) /\ k \in Nat /\ k <= Len(s) /\ Sorted(s)
      BY <1>1, <2>1 DEF s
    <3>2. /\ SubSeq(s, 1, k) \in Seq(Buffer) /\ Len(SubSeq(s, 1, k)) = k
          /\ SubSeq(s, k + 1, Len(s)) \in Seq(Buffer)
          /\ Len(SubSeq(s, k + 1, Len(s))) = Len(s) - k
          /\ LinesIn(s) = LinesIn(SubSeq(s, 1, k)) \union LinesIn(SubSeq(s, k + 1, Len(s)))
          /\ Sorted(SubSeq(s, 1, k))
          /\ Precedes(SubSeq(s, 1, k), SubSeq(s, k + 1, Len(s)))
      BY <3>1, CutBlocks
    <3>3. QED
      BY <2>2, <3>2 DEF s
  <2>4. dropped' = dropped + Len(bufferToWrite) - k /\ discarded' = discarded \o gone
    BY <1>3 DEF Cut
  <2> HIDE DEF gone
  <2>5. /\ discarded' \in Seq(Buffer) /\ Len(discarded') = Len(discarded) + Len(gone)
        /\ LinesIn(discarded') = LinesIn(discarded) \union LinesIn(gone)
    BY <1>1, <2>3, <2>4, LinesConcat
  <2>6. LinesIn(bufferToWrite) \subseteq Nat
    BY KeptIsPast
  <2>7. LinesIn(gone) = LinesIn(bufferToWrite) \ LinesIn(kept)
    <3>1. \A n : ~(n \in LinesIn(kept) /\ n \in LinesIn(gone))
      BY <2>3, <2>6 DEF Precedes
    <3>2. QED
      BY <2>3, <3>1
  <2>8. dropped' \in Nat /\ Len(discarded') - dropped' = Len(discarded) - dropped
    BY <1>1, <2>1, <2>3, <2>4, <2>5
  <2>9. QED
    BY <2>1, <2>3, <2>5, <2>7, <2>8
<1>4. QED
  BY <1>2, <1>3

LEMMA AppendStep ==
  ASSUME LoggerIInv, NEW len \in Length, append(len)
  PROVE  LoggerIInv'
<1> DEFINE line == [id |-> lines + 1, len |-> len]
           kept == IF Overflow THEN SubSeq(bufferToWrite, 1, kKeepOnOverflow)
                               ELSE bufferToWrite
<1>1. /\ running /\ lines < MaxLines /\ lines' = lines + 1
      /\ UNCHANGED <<running, output, failed, reports>>
  BY DEF append, written
<1>2. /\ lines \in 0 .. MaxLines /\ MaxLines \in Nat /\ lines \in Nat
      /\ flush \in [pc : Where, newCurrent : BOOLEAN, newNext : BOOLEAN,
                    local : Seq(Buffer), taken : Nat, dropped : Nat, last : BOOLEAN,
                    notified : BOOLEAN]
  BY LoggerConstants DEF LoggerIInv, TypeInv
<1>3. ~flush.last /\ currentBuffer # NoBuffer /\ currentBuffer \in Buffer
      /\ InUse = <<currentBuffer>>
  BY <1>1, UseIs DEF LoggerIInv, ControlInv
<1>4. line \in Line /\ line.id = lines + 1 /\ lines' \in 0 .. MaxLines
  BY <1>1, <1>2 DEF Line
<1>5. /\ Kept \subseteq 1 .. lines /\ CutLines \subseteq 1 .. lines
      /\ FailedLines \subseteq 1 .. lines
      /\ LinesIn(output) \subseteq Kept /\ LinesIn(flush.local) \subseteq Kept
      /\ LinesIn(bufferToWrite) \subseteq Kept /\ LinesIn(InUse) \subseteq Kept
  BY KeptIsPast
<1>6. LinesIn(InUse) = Ids(currentBuffer) /\ Increasing(currentBuffer)
  BY <1>3, OneBlock DEF LoggerIInv, OrderInv, InOrder
<1> HIDE DEF line, kept
<1>7. \A n \in Kept : n < line.id
  BY <1>2, <1>4, <1>5
<1>8. /\ Append(currentBuffer, line) \in Buffer
      /\ Ids(Append(currentBuffer, line)) = Ids(currentBuffer) \union {line.id}
      /\ Increasing(Append(currentBuffer, line))
      /\ <<line>> \in Buffer /\ Ids(<<line>>) = {line.id} /\ Increasing(<<line>>)
  BY <1>3, <1>4, <1>5, <1>6, <1>7, AppendedLine
<1>9. 1 .. lines' = 1 .. lines \union {line.id} /\ line.id \notin 1 .. lines
  BY <1>1, <1>2, <1>4
<1>10. CASE /\ currentBuffer' = Append(currentBuffer, line)
            /\ UNCHANGED <<nextBuffer, bufferToWrite, dropped, flush, discarded>>
  <2>1. currentBuffer' # NoBuffer /\ InUse' = <<Append(currentBuffer, line)>>
    BY <1>8, <1>10, NullIsNoBuffer DEF InUse
  <2>2. /\ LinesIn(InUse') = LinesIn(InUse) \union {line.id} /\ Sorted(InUse')
    BY <1>6, <1>8, <2>1, OneBlock
  <2>3. TypeInv'
    BY <1>1, <1>4, <1>8, <1>10 DEF LoggerIInv, TypeInv
  <2>4. ControlInv' /\ DropsAddUp'
    BY <1>1, <1>3, <1>10, <2>1 DEF LoggerIInv, ControlInv, DropsAddUp
  <2>5. OrderInv'
    <3>1. \A s : Precedes(s, InUse) /\ LinesIn(s) \subseteq Kept => Precedes(s, InUse')
      BY <1>7, <2>2 DEF Precedes
    <3>2. InOrder(output, flush.local, bufferToWrite, InUse)
      BY DEF LoggerIInv, OrderInv
    <3>3. InOrder(output, flush.local, bufferToWrite, InUse')
      BY <1>5, <2>2, <3>1, <3>2 DEF InOrder
    <3>4. QED
      BY <1>1, <1>10, <3>3 DEF OrderInv
  <2>6. LossInv'
    <3>1. /\ Unwritten' = Unwritten \union {line.id} /\ Kept' = Kept \union {line.id}
          /\ CutLines' = CutLines /\ FailedLines' = FailedLines
          /\ OnlyABeginning' <=> OnlyABeginning
      BY <1>1, <1>10, <2>2 DEF Kept, Unwritten, CutLines, FailedLines, OnlyABeginning
    <3>2. QED
      BY <1>5, <1>9, <3>1 DEF LoggerIInv, LossInv
  <2>7. QED
    BY <2>3, <2>4, <2>5, <2>6 DEF LoggerIInv
<1>11. CASE /\ IF Overflow THEN Cut ELSE UNCHANGED <<dropped, discarded>>
            /\ bufferToWrite' = Append(kept, currentBuffer)
            /\ currentBuffer' = <<line>>
            /\ nextBuffer' = FALSE
            /\ flush' = Notified(flush)
  <2>1. /\ kept \in Seq(Buffer) /\ Len(kept) + 1 <= kMaxQueuedBuffers /\ Sorted(kept)
        /\ discarded' \in Seq(Buffer) /\ dropped' \in Nat
        /\ Len(discarded') - dropped' = Len(discarded) - dropped
        /\ LinesIn(kept) \subseteq LinesIn(bufferToWrite)
        /\ LinesIn(discarded') =
             LinesIn(discarded) \union (LinesIn(bufferToWrite) \ LinesIn(kept))
    BY <1>11, CutFacts DEF kept
  <2>2. /\ flush'.pc = flush.pc /\ flush'.local = flush.local
        /\ flush'.dropped = flush.dropped /\ flush'.last = flush.last
        /\ flush'.taken = flush.taken /\ flush'.newCurrent = flush.newCurrent
        /\ flush' \in [pc : Where, newCurrent : BOOLEAN, newNext : BOOLEAN,
                       local : Seq(Buffer), taken : Nat, dropped : Nat, last : BOOLEAN,
                       notified : BOOLEAN]
    BY <1>2, <1>11 DEF Notified
  <2>3. /\ currentBuffer' # NoBuffer /\ InUse' = << <<line>> >>
        /\ LinesIn(InUse') = {line.id} /\ Sorted(InUse')
    <3>1. currentBuffer' # NoBuffer /\ InUse' = << <<line>> >>
      BY <1>8, <1>11, NullIsNoBuffer DEF InUse
    <3>2. QED
      BY <1>8, <3>1, OneBlock
  <2>4. InOrder(output, flush.local, bufferToWrite, InUse)
    BY DEF LoggerIInv, OrderInv
  <2>5. Precedes(kept, InUse)
    BY <2>1, <2>4 DEF InOrder, Precedes
  <2>6. /\ bufferToWrite' \in Seq(Buffer) /\ Len(bufferToWrite') = Len(kept) + 1
        /\ bufferToWrite' # <<>>
        /\ LinesIn(bufferToWrite') = LinesIn(kept) \union LinesIn(InUse)
        /\ Sorted(bufferToWrite')
    BY <1>3, <1>11, <2>1, <2>4, <2>5, AppendedBlock DEF InOrder
  <2>7. TypeInv'
    BY <1>1, <1>4, <1>8, <1>11, <2>1, <2>2, <2>6 DEF LoggerIInv, TypeInv
  <2>8. ControlInv'
    BY <1>1, <1>3, <2>1, <2>2, <2>3, <2>6 DEF LoggerIInv, ControlInv
  <2>9. DropsAddUp'
    <3>1. /\ dropped \in Nat /\ flush.dropped \in Nat /\ reports.written \in Nat
          /\ reports.failed \in Nat /\ Len(discarded) \in Nat /\ Len(discarded') \in Nat
      BY <2>1, LenProperties DEF LoggerIInv, TypeInv
    <3>2. reports.written + reports.failed + flush.dropped + dropped = Len(discarded)
      BY DEF LoggerIInv, DropsAddUp
    <3>3. dropped' \in Nat /\ Len(discarded') - dropped' = Len(discarded) - dropped
      BY <2>1
    <3>4. \A a, b, c \in Nat : a + b = c <=> c - b = a
      OBVIOUS
    <3> DEFINE told == reports.written + reports.failed + flush.dropped
               m == Len(discarded)
               n == Len(discarded')
               d == dropped'
    <3>5. told + d = n
      <4>1. told \in Nat /\ m \in Nat /\ n \in Nat /\ dropped \in Nat /\ d \in Nat
        <5>1. reports.written + reports.failed \in Nat /\ flush.dropped \in Nat
          BY <3>1
        <5>2. told \in Nat
          BY <5>1
        <5>3. QED
          BY <3>1, <3>3, <5>2
      <4>2. told + dropped = m /\ n - d = m - dropped
        BY <3>2, <3>3
      <4> HIDE DEF told, m, n, d
      <4>3. n - d = told
        BY <3>4, <4>1, <4>2
      <4>4. QED
        BY <3>4, <4>1, <4>3
    <3>6. QED
      BY <1>1, <2>2, <3>5 DEF DropsAddUp
  <2>10. OrderInv'
    <3>1. \A s : LinesIn(s) \subseteq Kept => Precedes(s, InUse')
      BY <1>7, <2>3 DEF Precedes
    <3>2. LinesIn(bufferToWrite') \subseteq Kept
      BY <1>5, <2>1, <2>6
    <3>3. \A s : Precedes(s, bufferToWrite) /\ Precedes(s, InUse)
                   => Precedes(s, bufferToWrite')
      BY <2>1, <2>6 DEF Precedes
    <3>4. InOrder(output, flush.local, bufferToWrite', InUse')
      BY <1>5, <2>3, <2>4, <2>6, <3>1, <3>2, <3>3 DEF InOrder
    <3>5. QED
      BY <1>1, <2>2, <3>4 DEF OrderInv
  <2>11. LossInv'
    <3> DEFINE gone == LinesIn(bufferToWrite) \ LinesIn(kept)
    <3>1. /\ CutLines' = CutLines \union gone /\ FailedLines' = FailedLines
          /\ OnlyABeginning' <=> OnlyABeginning
      BY <1>1, <2>1 DEF CutLines, FailedLines, OnlyABeginning
    <3>2. /\ Unwritten' = LinesIn(flush.local) \union LinesIn(kept)
                            \union LinesIn(InUse) \union {line.id}
          /\ Kept' = LinesIn(output) \union Unwritten'
      BY <1>1, <2>2, <2>3, <2>6 DEF Kept, Unwritten
    <3>3. \A n : n \in LinesIn(bufferToWrite) =>
                   n \notin LinesIn(output) /\ n \notin LinesIn(flush.local)
                   /\ n \notin LinesIn(InUse)
      <4>1. \A n : n \in LinesIn(bufferToWrite) => n \in Nat
        <5>1. 1 .. lines \subseteq Nat
          OBVIOUS
        <5>2. QED
          BY <1>5, <5>1
      <4>2. QED
        BY <2>4, <4>1 DEF InOrder, Precedes
    <3>4. LossInv
      BY DEF LoggerIInv
    <3>5. /\ Unwritten' \subseteq Unwritten \union {line.id}
          /\ Kept' \union gone = Kept \union {line.id}
      BY <2>1, <3>2 DEF Kept, Unwritten
    <3>6. Kept' \union CutLines' \union FailedLines' = 1 .. lines \union {line.id}
      BY <3>1, <3>4, <3>5 DEF LossInv
    <3>7. Kept' \intersect CutLines' = {}
      <4>1. ASSUME NEW n, n \in Kept', n \in CutLines' PROVE FALSE
        <5>1. CASE n \in gone
          <6>1. n \in 1 .. lines /\ n # line.id
            BY <1>5, <1>9, <5>1
          <6>2. QED
            BY <3>2, <3>3, <4>1, <5>1, <6>1
        <5>2. CASE n \in CutLines
          <6>1. n # line.id /\ n \notin Kept
            BY <1>5, <1>9, <3>4, <5>2 DEF LossInv
          <6>2. QED
            BY <3>5, <4>1, <6>1
        <5>3. QED
          BY <3>1, <4>1, <5>1, <5>2
      <4>2. QED
        BY <4>1
    <3>8. line.id \notin FailedLines /\ gone \subseteq Unwritten
      BY <1>5, <1>9 DEF Unwritten
    <3>9. /\ Unwritten' \intersect FailedLines' = {}
          /\ CutLines' \intersect FailedLines' = {}
      BY <3>1, <3>4, <3>5, <3>8 DEF LossInv
    <3>10. QED
      BY <1>9, <3>1, <3>4, <3>6, <3>7, <3>9 DEF LossInv
  <2>12. QED
    BY <2>7, <2>8, <2>9, <2>10, <2>11 DEF LoggerIInv
<1>12. QED
  BY <1>10, <1>11 DEF append, line, kept
-----------------------------------------------------------------------------
(* The critical sections of the flush thread. *)

(* It takes the queue and the block in use, and leaves an empty block, or  *)
(* none.                                                                   *)
LEMMA TakeStep ==
  ASSUME LoggerIInv, flush.local = <<>>, currentBuffer # NoBuffer,
         flush'.local = Collected, bufferToWrite' = <<>>,
         currentBuffer' \in {NoBuffer, <<>>},
         UNCHANGED <<lines, output, failed, discarded>>
  PROVE  OrderInv' /\ LossInv' /\ Collected \in Seq(Buffer)
<1> DEFINE took == currentBuffer \notin {NoBuffer, <<>>}
<1>1. /\ bufferToWrite \in Seq(Buffer) /\ currentBuffer \in Buffer
      /\ InUse = <<currentBuffer>> /\ InUse \in Seq(Buffer)
  BY UseIs DEF LoggerIInv, TypeInv
<1>2. InOrder(output, <<>>, bufferToWrite, InUse)
  BY DEF LoggerIInv, OrderInv
<1>3. /\ Collected \in Seq(Buffer) /\ Sorted(Collected)
      /\ LinesIn(Collected) = LinesIn(bufferToWrite) \union LinesIn(InUse)
  <2>1. CASE currentBuffer = <<>>
    <3>1. Collected = bufferToWrite /\ LinesIn(InUse) = {}
      BY <2>1, UseIs DEF Collected, LoggerIInv
    <3>2. QED
      BY <1>1, <1>2, <3>1 DEF InOrder
  <2>2. CASE currentBuffer # <<>>
    <3>1. Collected = Append(bufferToWrite, currentBuffer)
      BY <2>2 DEF Collected
    <3>2. QED
      BY <1>1, <1>2, <3>1, AppendedBlock DEF InOrder
  <2>3. QED
    BY <2>1, <2>2
<1>4. LinesIn(InUse') = {} /\ Sorted(InUse')
  <2>1. CASE currentBuffer' = NoBuffer
    BY <2>1, NoLines DEF InUse
  <2>2. CASE currentBuffer' = <<>>
    <3>1. InUse' = << <<>> >>
      BY <2>2, EmptyBlock, NullIsNoBuffer DEF InUse
    <3>2. QED
      BY <3>1, EmptyBlock
  <2>3. QED
    BY <2>1, <2>2
<1>5. \A s : Precedes(s, InUse')
  BY <1>4 DEF Precedes
<1>6. Precedes(output, Collected)
  BY <1>2, <1>3 DEF InOrder, Precedes
<1>7. InOrder(output, Collected, <<>>, InUse')
  BY <1>2, <1>3, <1>4, <1>5, <1>6, NoLines DEF InOrder
<1>8. OrderInv'
  BY <1>7 DEF OrderInv
<1>9. LossInv'
  <2>1. /\ Unwritten' = LinesIn(Collected) /\ Kept' = LinesIn(output) \union Unwritten'
        /\ CutLines' = CutLines /\ FailedLines' = FailedLines
        /\ OnlyABeginning' <=> OnlyABeginning
    BY <1>4, NoLines DEF Kept, Unwritten, CutLines, FailedLines, OnlyABeginning
  <2>2. Unwritten = LinesIn(bufferToWrite) \union LinesIn(InUse)
    BY NoLines DEF Unwritten
  <2>3. Unwritten' = Unwritten /\ Kept' = Kept
    BY <1>3, <2>1, <2>2 DEF Kept
  <2>4. QED
    BY <2>1, <2>3 DEF LoggerIInv, LossInv
<1>10. QED
  BY <1>3, <1>8, <1>9

LEMMA ExchangeStep ==
  ASSUME LoggerIInv, Exchange, flush.pc \in {"lock", "asleep"}
  PROVE  LoggerIInv'
<1> DEFINE took == currentBuffer \notin {NoBuffer, <<>>}
<1>1. /\ ~flush.last /\ flush.newCurrent /\ flush.local = <<>> /\ flush.dropped = 0
      /\ currentBuffer # NoBuffer
  BY DEF LoggerIInv, ControlInv
<1>2. /\ flush \in [pc : Where, newCurrent : BOOLEAN, newNext : BOOLEAN,
                    local : Seq(Buffer), taken : Nat, dropped : Nat, last : BOOLEAN,
                    notified : BOOLEAN]
      /\ bufferToWrite \in Seq(Buffer) /\ nextBuffer \in BOOLEAN /\ dropped \in Nat
      /\ currentBuffer \in Buffer
  BY <1>1 DEF LoggerIInv, TypeInv
<1>3. /\ nextBuffer' = (nextBuffer \/ flush.newNext)
      /\ bufferToWrite' = <<>>
      /\ dropped' = IF Collected = <<>> THEN dropped ELSE 0
      /\ UNCHANGED <<running, lines, discarded, output, failed, reports>>
  BY DEF Exchange, written
<1>4. currentBuffer' = <<>>
  BY <1>1 DEF Exchange
<1>5. flush' = [flush EXCEPT
           !.pc = IF Collected = <<>> THEN "head" ELSE "report",
           !.newCurrent = @ /\ ~took, !.newNext = @ /\ nextBuffer,
           !.local = Collected, !.taken = Len(Collected), !.notified = FALSE,
           !.dropped = IF Collected = <<>> THEN 0 ELSE dropped]
  BY DEF Exchange
<1>6. /\ flush'.pc = IF Collected = <<>> THEN "head" ELSE "report"
      /\ flush'.newCurrent = ~took /\ flush'.local = Collected
      /\ flush'.taken = Len(Collected) /\ flush'.last = FALSE
      /\ flush'.dropped = IF Collected = <<>> THEN 0 ELSE dropped
  BY <1>1, <1>2, <1>5
<1>7. OrderInv' /\ LossInv' /\ Collected \in Seq(Buffer)
  BY <1>1, <1>3, <1>4, <1>6, TakeStep
<1>8. Len(Collected) \in Nat /\ (Collected # <<>> => Len(Collected) > 0)
  BY <1>7, LenProperties, EmptySeq
<1>9. took => Collected # <<>>
  <2>1. Append(bufferToWrite, currentBuffer) # <<>>
    BY <1>2, AppendProperties
  <2>2. QED
    BY <2>1 DEF Collected
<1>10. TypeInv'
  <2>1. flush' \in [pc : Where, newCurrent : BOOLEAN, newNext : BOOLEAN,
                    local : Seq(Buffer), taken : Nat, dropped : Nat, last : BOOLEAN,
                    notified : BOOLEAN]
    <3> DEFINE pc == IF Collected = <<>> THEN "head" ELSE "report"
               hasCurrent == flush.newCurrent /\ ~took
               hasNext == flush.newNext /\ nextBuffer
               drops == IF Collected = <<>> THEN 0 ELSE dropped
    <3>1. flush' = [flush EXCEPT !.pc = pc, !.newCurrent = hasCurrent,
                                 !.newNext = hasNext, !.local = Collected,
                                 !.taken = Len(Collected), !.notified = FALSE,
                                 !.dropped = drops]
      BY <1>5
    <3>2. pc \in Where /\ drops \in Nat
      BY <1>2 DEF Where
    <3>3. hasCurrent \in BOOLEAN /\ hasNext \in BOOLEAN
      OBVIOUS
    <3> HIDE DEF pc, hasCurrent, hasNext, drops
    <3>4. QED
      BY <1>2, <1>7, <1>8, <3>1, <3>2, <3>3
  <2>2. nextBuffer' \in BOOLEAN /\ dropped' \in Nat
    BY <1>2, <1>3
  <2>3. bufferToWrite' \in Seq(Buffer) /\ currentBuffer' \in Buffer
    BY <1>3, <1>4, EmptyBlock, EmptySeq
  <2>4. QED
    BY <1>3, <2>1, <2>2, <2>3 DEF LoggerIInv, TypeInv
<1>11. ControlInv'
  <2>1. Len(bufferToWrite') <= kMaxQueuedBuffers
    BY <1>3, LoggerConstants
  <2>2. currentBuffer' # NoBuffer
    BY <1>4, EmptyBlock, NullIsNoBuffer
  <2>3. \/ flush'.pc = "head" /\ flush'.local = <<>> /\ flush'.dropped = 0
           /\ flush'.newCurrent
        \/ flush'.pc = "report" /\ flush'.taken > 0
    BY <1>6, <1>8, <1>9
  <2>4. QED
    BY <1>6, <2>1, <2>2, <2>3 DEF ControlInv
<1>12. DropsAddUp'
  <2>1. flush'.dropped + dropped' = flush.dropped + dropped
    BY <1>1, <1>2, <1>3, <1>6
  <2>2. /\ reports.written \in Nat /\ reports.failed \in Nat /\ flush.dropped \in Nat
        /\ dropped \in Nat /\ flush'.dropped \in Nat /\ dropped' \in Nat
    BY <1>2, <1>10 DEF LoggerIInv, TypeInv
  <2>3. \A a, b, c, d, e, f \in Nat : c + d = e + f => a + b + c + d = a + b + e + f
    OBVIOUS
  <2>4. reports.written + reports.failed + flush'.dropped + dropped'
          = reports.written + reports.failed + flush.dropped + dropped
    BY <2>1, <2>2, <2>3
  <2>5. QED
    BY <1>3, <2>4 DEF LoggerIInv, DropsAddUp
<1>13. QED
  BY <1>7, <1>10, <1>11, <1>12 DEF LoggerIInv

LEMMA DrainStep ==
  ASSUME LoggerIInv, Drain
  PROVE  LoggerIInv'
<1>1. /\ ~flush.last /\ flush.local = <<>> /\ flush.dropped = 0 /\ ~running
      /\ currentBuffer # NoBuffer
  BY DEF Drain, LoggerIInv, ControlInv
<1>2. /\ flush \in [pc : Where, newCurrent : BOOLEAN, newNext : BOOLEAN,
                    local : Seq(Buffer), taken : Nat, dropped : Nat, last : BOOLEAN,
                    notified : BOOLEAN]
      /\ dropped \in Nat
  BY DEF LoggerIInv, TypeInv
<1>3. /\ bufferToWrite' = <<>> /\ dropped' = 0
      /\ currentBuffer' \in {NoBuffer, <<>>}
      /\ flush' = [flush EXCEPT !.pc = "report", !.last = TRUE,
                                !.local = Collected, !.dropped = dropped]
      /\ UNCHANGED <<nextBuffer, running, lines, discarded, output, failed, reports>>
  BY DEF Drain, written
<1>4. /\ flush'.pc = "report" /\ flush'.last = TRUE /\ flush'.local = Collected
      /\ flush'.dropped = dropped
  BY <1>2, <1>3
<1>5. OrderInv' /\ LossInv' /\ Collected \in Seq(Buffer)
  BY <1>1, <1>3, <1>4, TakeStep
<1>6. TypeInv'
  <2>1. flush' \in [pc : Where, newCurrent : BOOLEAN, newNext : BOOLEAN,
                    local : Seq(Buffer), taken : Nat, dropped : Nat, last : BOOLEAN,
                    notified : BOOLEAN]
    BY <1>2, <1>3, <1>5 DEF Where
  <2>2. bufferToWrite' \in Seq(Buffer) /\ currentBuffer' \in Buffer \union {NoBuffer}
    BY <1>3, EmptyBlock, EmptySeq
  <2>3. QED
    BY <1>3, <2>1, <2>2 DEF LoggerIInv, TypeInv
<1>7. ControlInv'
  <2>1. Len(bufferToWrite') <= kMaxQueuedBuffers
    BY <1>3, LoggerConstants
  <2>2. QED
    BY <1>1, <1>3, <1>4, <2>1 DEF ControlInv
<1>8. DropsAddUp'
  <2>1. reports.written \in Nat /\ reports.failed \in Nat
    BY DEF LoggerIInv, TypeInv
  <2>2. reports.written + reports.failed + dropped + 0
          = reports.written + reports.failed + 0 + dropped
    BY <1>2, <2>1
  <2>3. QED
    BY <1>1, <1>3, <1>4, <2>2 DEF LoggerIInv, DropsAddUp
<1>9. QED
  BY <1>5, <1>6, <1>7, <1>8 DEF LoggerIInv

(* A block leaves the flush thread for the output, all of it or, when the  *)
(* write fails, what has been written of it.                               *)
LEMMA WriteStep ==
  ASSUME LoggerIInv, WriteBlock
  PROVE  LoggerIInv'
<1> DEFINE b == Head(flush.local)
           rest == Tail(flush.local)
<1>1. /\ flush.pc = "write" /\ flush.local # <<>>
      /\ \/ output' = Append(output, b) /\ UNCHANGED failed
         \/ WriteFails(b)
      /\ flush' = [flush EXCEPT !.local = rest]
      /\ UNCHANGED <<currentBuffer, nextBuffer, bufferToWrite, dropped, running,
                     lines, discarded, reports>>
  BY DEF WriteBlock, front
<1>2. /\ flush \in [pc : Where, newCurrent : BOOLEAN, newNext : BOOLEAN,
                    local : Seq(Buffer), taken : Nat, dropped : Nat, last : BOOLEAN,
                    notified : BOOLEAN]
      /\ flush.local \in Seq(Buffer) /\ output \in Seq(Buffer) /\ failed \subseteq Buffer
  BY DEF LoggerIInv, TypeInv
<1>3. InOrder(output, flush.local, bufferToWrite, InUse)
  BY DEF LoggerIInv, OrderInv
<1>4. /\ b \in Buffer /\ rest \in Seq(Buffer) /\ <<b>> \in Seq(Buffer)
      /\ LinesIn(flush.local) = LinesIn(<<b>>) \union LinesIn(rest)
      /\ Sorted(<<b>>) /\ Sorted(rest) /\ Precedes(<<b>>, rest)
      /\ LinesIn(<<b>>) = Ids(b)
  BY <1>1, <1>2, <1>3, FirstBlock, OneBlock DEF InOrder
<1> HIDE DEF b, rest
<1>5. /\ flush'.pc = flush.pc /\ flush'.local = rest
      /\ flush'.dropped = flush.dropped /\ flush'.last = flush.last
      /\ flush'.taken = flush.taken /\ flush'.newCurrent = flush.newCurrent
      /\ flush' \in [pc : Where, newCurrent : BOOLEAN, newNext : BOOLEAN,
                     local : Seq(Buffer), taken : Nat, dropped : Nat, last : BOOLEAN,
                     notified : BOOLEAN]
  BY <1>1, <1>2, <1>4
<1>6. InUse' = InUse
  BY <1>1 DEF InUse
<1>7. /\ Precedes(output, <<b>>) /\ Precedes(output, rest)
      /\ Precedes(<<b>>, bufferToWrite) /\ Precedes(<<b>>, InUse)
      /\ Precedes(rest, bufferToWrite) /\ Precedes(rest, InUse)
  BY <1>3, <1>4 DEF InOrder, Precedes
<1>8. ControlInv' /\ DropsAddUp'
  BY <1>1, <1>5 DEF LoggerIInv, ControlInv, DropsAddUp
<1>9. ASSUME NEW part \in Buffer, output' = Append(output, part),
             Increasing(part), Ids(part) \subseteq Ids(b)
      PROVE  /\ output' \in Seq(Buffer) /\ OrderInv'
             /\ LinesIn(output') = LinesIn(output) \union Ids(part)
  <2>1. LinesIn(<<part>>) = Ids(part) /\ Sorted(<<part>>)
    BY <1>9, OneBlock
  <2>2. \A s : Precedes(<<b>>, s) => Precedes(<<part>>, s)
    BY <1>4, <1>9, <2>1 DEF Precedes
  <2>3. Precedes(output, <<part>>)
    BY <1>4, <1>7, <1>9, <2>1 DEF Precedes
  <2>4. /\ output' \in Seq(Buffer) /\ Sorted(output')
        /\ LinesIn(output') = LinesIn(output) \union LinesIn(<<part>>)
    BY <1>2, <1>3, <1>9, <2>1, <2>3, AppendedBlock DEF InOrder
  <2>5. \A s : Precedes(output, s) /\ Precedes(<<part>>, s) => Precedes(output', s)
    BY <2>4 DEF Precedes
  <2>6. InOrder(output', rest, bufferToWrite, InUse)
    BY <1>3, <1>4, <1>7, <2>2, <2>4, <2>5 DEF InOrder
  <2>7. QED
    BY <1>1, <1>5, <1>6, <2>1, <2>4, <2>6 DEF OrderInv
<1>10. /\ Unwritten' = LinesIn(rest) \union LinesIn(bufferToWrite) \union LinesIn(InUse)
       /\ Unwritten = Ids(b) \union Unwritten' /\ CutLines' = CutLines
  BY <1>1, <1>4, <1>5, <1>6 DEF Unwritten, CutLines
<1>11. Increasing(b) /\ LossInv /\ Unwritten \subseteq Kept
  BY <1>4, OneBlock, KeptIsPast DEF LoggerIInv
<1>12. CASE output' = Append(output, b) /\ UNCHANGED failed
  <2>1. /\ output' \in Seq(Buffer) /\ OrderInv'
        /\ LinesIn(output') = LinesIn(output) \union Ids(b)
    BY <1>4, <1>9, <1>11, <1>12
  <2>2. TypeInv'
    BY <1>1, <1>5, <1>12, <2>1 DEF LoggerIInv, TypeInv
  <2>3. LossInv'
    <3>1. Kept' = Kept /\ FailedLines' = FailedLines
      BY <1>10, <1>12, <2>1 DEF Kept, FailedLines
    <3>2. OnlyABeginning'
      <4>1. ASSUME NEW c \in failed, NEW i \in DOMAIN c, NEW j \in DOMAIN c, i < j,
                   c[j].id \in LinesIn(output')
            PROVE  c[i].id \in LinesIn(output')
        <5>1. c[j].id \in FailedLines
          BY DEF FailedLines, Ids
        <5>2. c[j].id \in LinesIn(output)
          BY <1>10, <1>11, <2>1, <4>1, <5>1 DEF LossInv
        <5>3. QED
          BY <1>11, <2>1, <4>1, <5>2 DEF LossInv, OnlyABeginning
      <4>2. QED
        BY <1>12, <4>1 DEF OnlyABeginning
    <3>3. QED
      BY <1>1, <1>10, <1>11, <3>1, <3>2 DEF LossInv
  <2>4. QED
    BY <1>8, <2>1, <2>2, <2>3 DEF LoggerIInv
<1>13. CASE WriteFails(b)
  <2>1. PICK total : output' = Append(output, Begun(b, total))
    BY <1>13 DEF WriteFails
  <2> DEFINE begun == Begun(b, total)
  <2>2. failed' = failed \union {b}
    BY <1>13 DEF WriteFails
  <2>3. /\ begun \in Buffer /\ Increasing(begun) /\ Ids(begun) \subseteq Ids(b)
        /\ \A i, j \in DOMAIN b : i < j /\ b[j].id \in Ids(begun) => b[i].id \in Ids(begun)
    BY <1>4, <1>11, BegunBlock
  <2> HIDE DEF begun
  <2>4. /\ output' \in Seq(Buffer) /\ OrderInv'
        /\ LinesIn(output') = LinesIn(output) \union Ids(begun)
    BY <1>9, <2>1, <2>3 DEF begun
  <2>5. TypeInv'
    BY <1>1, <1>2, <1>4, <1>5, <2>2, <2>4 DEF LoggerIInv, TypeInv
  <2>6. FailedLines' = FailedLines \union Ids(b)
    BY <2>2 DEF FailedLines
  <2>7. /\ Kept' \subseteq Kept /\ Kept' \union Ids(b) = Kept
        /\ Ids(b) \subseteq Unwritten
    BY <1>10, <2>3, <2>4 DEF Kept
  <2>8. Kept \subseteq Nat
    BY KeptIsPast
  <2>9. /\ \A n : ~(n \in Ids(b) /\ n \in Unwritten')
        /\ \A n : ~(n \in Ids(b) /\ n \in LinesIn(output))
    <3>1. Ids(b) \subseteq Nat
      BY <1>11, <2>7, <2>8
    <3>2. QED
      BY <1>4, <1>7, <1>10, <3>1 DEF Precedes
  <2>10. OnlyABeginning'
    <3>1. ASSUME NEW c \in failed', NEW i \in DOMAIN c, NEW j \in DOMAIN c, i < j,
                 c[j].id \in LinesIn(output')
          PROVE  c[i].id \in LinesIn(output')
      <4>1. CASE c \in failed
        <5>1. c[j].id \in FailedLines
          BY <4>1 DEF FailedLines, Ids
        <5>2. c[j].id \in LinesIn(output)
          BY <1>11, <2>3, <2>4, <2>7, <3>1, <5>1 DEF LossInv
        <5>3. QED
          BY <1>11, <2>4, <3>1, <4>1, <5>2 DEF LossInv, OnlyABeginning
      <4>2. CASE c = b
        <5>1. c[j].id \in Ids(b)
          BY <4>2 DEF Ids
        <5>2. b[j].id \in Ids(begun)
          BY <2>4, <2>9, <3>1, <4>2, <5>1
        <5>3. QED
          BY <2>3, <2>4, <3>1, <4>2, <5>2
      <4>3. QED
        BY <2>2, <4>1, <4>2
    <3>2. QED
      BY <3>1 DEF OnlyABeginning
  <2>11. LossInv'
    BY <1>1, <1>10, <1>11, <2>6, <2>7, <2>9, <2>10 DEF LossInv
  <2>12. QED
    BY <1>8, <2>4, <2>5, <2>11 DEF LoggerIInv
<1>14. QED
  BY <1>1, <1>12, <1>13
-----------------------------------------------------------------------------
(* The invariant holds initially and in every step. *)

LEMMA LoggerInit == Init => LoggerIInv
<1> SUFFICES ASSUME Init PROVE LoggerIInv
  OBVIOUS
<1>1. /\ currentBuffer = <<>> /\ nextBuffer = TRUE
      /\ bufferToWrite = <<>> /\ dropped = 0 /\ running = TRUE
      /\ flush = [pc |-> "open", newCurrent |-> TRUE, newNext |-> TRUE,
                  local |-> <<>>, taken |-> 0, dropped |-> 0, last |-> FALSE,
                  notified |-> FALSE]
      /\ lines = 0 /\ output = <<>> /\ failed = {} /\ discarded = <<>>
      /\ reports = [written |-> 0, failed |-> 0]
  BY DEF Init
<1>2. currentBuffer # NoBuffer /\ InUse = << <<>> >>
  BY <1>1, EmptyBlock, NullIsNoBuffer DEF InUse
<1>3. TypeInv
  <2>1. currentBuffer \in Buffer /\ bufferToWrite \in Seq(Buffer)
        /\ output \in Seq(Buffer) /\ discarded \in Seq(Buffer)
    BY <1>1, EmptyBlock, EmptySeq
  <2>2. flush \in [pc : Where, newCurrent : BOOLEAN, newNext : BOOLEAN,
                   local : Seq(Buffer), taken : Nat, dropped : Nat, last : BOOLEAN,
                   notified : BOOLEAN]
    BY <1>1, EmptySeq DEF Where
  <2>3. lines \in 0 .. MaxLines /\ reports \in [written : Nat, failed : Nat]
    BY <1>1, LoggerConstants
  <2>4. QED
    BY <1>1, <2>1, <2>2, <2>3 DEF TypeInv
<1>4. ControlInv
  BY <1>1, <1>2, LoggerConstants, EmptySeq DEF ControlInv
<1>5. OrderInv
  <2>1. \A s : Precedes(s, InUse)
    BY <1>2, EmptyBlock DEF Precedes
  <2>2. QED
    BY <1>1, <1>2, <2>1, EmptyBlock, NoLines DEF OrderInv, InOrder
<1>6. LossInv
  <2>1. Kept = {} /\ Unwritten = {} /\ CutLines = {} /\ FailedLines = {} /\ OnlyABeginning
    BY <1>1, <1>2, EmptyBlock, NoLines
       DEF Kept, Unwritten, CutLines, FailedLines, OnlyABeginning
  <2>2. QED
    BY <1>1, <2>1 DEF LossInv
<1>7. DropsAddUp
  BY <1>1, EmptySeq DEF DropsAddUp
<1>8. QED
  BY <1>3, <1>4, <1>5, <1>6, <1>7 DEF LoggerIInv

LEMMA LoggerStep == LoggerIInv /\ [Next]_vars => LoggerIInv'
<1> SUFFICES ASSUME LoggerIInv, [Next]_vars PROVE LoggerIInv'
  OBVIOUS
<1>1. ASSUME NEW len \in Length, append(len) PROVE LoggerIInv'
  BY <1>1, AppendStep
<1>2. CASE Destroy
  BY <1>2, DestroyStep
<1>3. ASSUME NEW pc \in {"head", "lock", "checked", "asleep", "drain", "ended"},
             Goto(pc), flush.pc \in {"open", "head", "lock", "checked"},
             pc = "drain" => ~running,
             UNCHANGED <<front, running, lines, discarded, written>>
      PROVE  LoggerIInv'
  <2>1. pc \in Where \ {"report", "write"}
    BY DEF Where
  <2>2. ~flush.last /\ flush.pc \notin {"report", "write"}
    BY <1>3 DEF LoggerIInv, ControlInv
  <2>3. QED
    BY <1>3, <2>1, <2>2, GotoStep
<1>4. CASE Open
  BY <1>3, <1>4 DEF Open
<1>5. CASE LoopHead
  <2>1. CASE running
    BY <1>3, <1>5, <2>1 DEF LoopHead
  <2>2. CASE ~running
    BY <1>3, <1>5, <2>2 DEF LoopHead
  <2>3. QED
    BY <2>1, <2>2
<1>6. CASE Lock
  <2>1. CASE Predicate /\ Exchange
    BY <1>6, <2>1, ExchangeStep DEF Lock
  <2>2. CASE Goto("checked") /\ UNCHANGED <<front, running, lines, discarded, written>>
    BY <1>3, <1>6, <2>2 DEF Lock
  <2>3. QED
    BY <1>6, <2>1, <2>2 DEF Lock
<1>7. CASE Sleep
  BY <1>3, <1>7 DEF Sleep
<1>8. CASE Wake \/ TimeOut
  BY <1>8, ExchangeStep DEF Wake, TimeOut
<1>9. CASE ReportDropped
  BY <1>9, ReportStep
<1>10. CASE WriteBlock
  BY <1>10, WriteStep
<1>11. CASE Written
  BY <1>11, WrittenStep
<1>12. CASE Drain
  BY <1>12, DrainStep
<1>13. CASE UNCHANGED vars
  <2>1. UNCHANGED <<currentBuffer, nextBuffer, bufferToWrite, dropped, running,
                    flush, lines, output, failed, discarded, reports>>
    BY <1>13 DEF vars
  <2>2. TypeInv' /\ ControlInv' /\ DropsAddUp'
    BY <2>1 DEF LoggerIInv, TypeInv, ControlInv, DropsAddUp
  <2>3. QED
    BY <2>1, <2>2, QuietStep
<1>14. QED
  BY <1>1, <1>2, <1>4, <1>5, <1>6, <1>7, <1>8, <1>9, <1>10, <1>11, <1>12, <1>13
     DEF Next, FlushThread, Terminated

(* Where the blocks are, what the flush thread holds and which lines were  *)
(* cut or in a failed write, and what of those is in the log, at every     *)
(* moment of append(), flushThread() and safe_write().                     *)
THEOREM LoggerInvariant == Spec => []LoggerIInv
BY LoggerInit, LoggerStep, PTL DEF Spec

LEMMA LinesAreInOrder ==
  ASSUME LoggerIInv
  PROVE  LinesInOrder /\ NoLineVanishes
<1>1. /\ output \in Seq(Buffer) /\ flush.local \in Seq(Buffer)
      /\ bufferToWrite \in Seq(Buffer) /\ InUse \in Seq(Buffer)
  BY UseIs DEF LoggerIInv, TypeInv
<1>2. InOrder(output, flush.local, bufferToWrite, InUse)
  BY DEF LoggerIInv, OrderInv
<1> DEFINE two == flush.local \o bufferToWrite
<1>3. /\ two \in Seq(Buffer)
      /\ LinesIn(two) = LinesIn(flush.local) \union LinesIn(bufferToWrite)
      /\ Sorted(two)
  BY <1>1, <1>2, LinesConcat, SortedConcat DEF InOrder
<1>4. Precedes(two, InUse) /\ Precedes(output, two)
  BY <1>2, <1>3 DEF InOrder, Precedes
<1> HIDE DEF two
<1>5. /\ two \o InUse \in Seq(Buffer)
      /\ LinesIn(two \o InUse) = LinesIn(two) \union LinesIn(InUse)
      /\ Sorted(two \o InUse)
  BY <1>1, <1>2, <1>3, <1>4, LinesConcat, SortedConcat DEF InOrder
<1>6. /\ Waiting = two \o InUse /\ Waiting \in Seq(Buffer) /\ Sorted(Waiting)
      /\ LinesIn(Waiting) = Unwritten
  BY <1>3, <1>5 DEF Waiting, Unwritten, two
<1>7. Precedes(output, Waiting)
  BY <1>2, <1>4, <1>5, <1>6 DEF InOrder, Precedes
<1>8. /\ LinesIn(Blocks) = LinesIn(output) \union LinesIn(Waiting)
      /\ Sorted(Blocks)
  <2>1. Sorted(output)
    BY <1>2 DEF InOrder
  <2> HIDE DEF Waiting
  <2>2. QED
    BY <1>1, <1>6, <1>7, <2>1, LinesConcat, SortedConcat DEF Blocks
<1>9. LinesInOrder
  BY <1>8 DEF LinesInOrder, Sorted, Increasing
<1>10. NoLineVanishes
  <2>1. LinesIn(Blocks) = Kept /\ LinesIn(Waiting) = Unwritten
    BY <1>6, <1>8 DEF Kept
  <2>2. QED
    BY <2>1 DEF NoLineVanishes, LoggerIInv, LossInv
<1>11. QED
  BY <1>9, <1>10

LEMMA LinesFollow == LoggerIInv => LinesAccounted
<1> SUFFICES ASSUME LoggerIInv PROVE LinesAccounted
  OBVIOUS
<1>1. LoggerTypeOK
  <2>1. \A i \in DOMAIN bufferToWrite : bufferToWrite[i] \in Seq(Line)
    <3>1. bufferToWrite \in Seq(Buffer)
      BY DEF LoggerIInv, TypeInv
    <3>2. \A i \in DOMAIN bufferToWrite : bufferToWrite[i] \in Buffer
      BY <3>1, LenProperties
    <3>3. QED
      BY <3>2 DEF Buffer
  <2>2. QED
    BY <2>1 DEF LoggerTypeOK, LoggerIInv, TypeInv, ControlInv, Buffer, Where
<1>2. DrainedAtExit
  BY DEF DrainedAtExit, LoggerIInv, ControlInv
<1>3. QED
  BY <1>1, <1>2, LinesAreInOrder DEF LinesAccounted, LoggerIInv

(* Whatever blocks are exchanged, cut or fail to be written, wholly or in  *)
(* part, each line is in the log or on its way, in its order and once, or  *)
(* of a block that was cut or failed; nothing of a cut block is written,   *)
(* and of a failed one only a beginning (append, flushThread, safe_write). *)
THEOREM LinesAreAccounted == Spec => []LinesAccounted
BY LoggerInvariant, LinesFollow, PTL
=============================================================================
