----------------------------- MODULE LinkProofs -----------------------------
(***************************************************************************)
(* Proofs about the command link: its node end (SrNode), both ends with    *)
(* the line (SrLink) and its restarts (SrRestart), for every size of the   *)
(* window, the pool and the sequence space.                                *)
(*                                                                         *)
(* The first part is about the node, under any wire.  The second is about  *)
(* the tracker alone: every call of it leaves a well-formed tracker and    *)
(* returns a step of which the caller may rely on Progress.  The third is  *)
(* about GatewayApp, which keeps requests_ and cmd_queue_ beside the       *)
(* tracker; the fourth joins the node to it.                               *)
(***************************************************************************)
EXTENDS SrRestart, FiniteSetTheorems, SequenceTheorems, WellFoundedInduction, TLAPS

(***************************************************************************)
(* Facts about the operators of SrNode.                                    *)
(***************************************************************************)
\* A free slot, a fresh buffered slot and an empty pool have their types.
LEMMA FreeEntryType ==
  /\ FreeEntry \in Entry
  /\ FreeEntry.state = "free"
  /\ NoEntries \in [Seqs -> Entry]
  /\ \A q \in Seqs : NoEntries[q] = FreeEntry
BY LimitsAssumption DEF FreeEntry, Entry, NoEntries, NoCommand, NoResult

LEMMA BufferedEntryType ==
  ASSUME NEW c \in Command
  PROVE  /\ BufferedEntry(c) \in Entry
         /\ BufferedEntry(c).state = "buffered"
         /\ BufferedEntry(c).cmd = c
BY LimitsAssumption DEF BufferedEntry, Entry, NoCommand, NoResult

(***************************************************************************)
(* expire() frees slots and may close the session; it changes no number,   *)
(* and while the session stays open it frees results only.                 *)
(***************************************************************************)
LEMMA ExpireFacts ==
  ASSUME NEW n \in NodeState
  PROVE  /\ expire(n) \in NodeState
         /\ expire(n).session = n.session
         /\ expire(n).base = n.base
         /\ expire(n).active => n.active
         /\ \A q \in Seqs : \/ expire(n).entries[q] = n.entries[q]
                            \/ expire(n).entries[q] = FreeEntry
         /\ expire(n).active =>
              \A q \in Seqs : n.entries[q].state # "executed" =>
                                expire(n).entries[q] = n.entries[q]
<1>1. CASE GapExpired(n)
  BY <1>1, FreeEntryType DEF expire, NodeState
<1>2. CASE ~GapExpired(n)
  <2> DEFINE es == [q \in Seqs |-> IF ResultExpired(n.entries[q])
                                    THEN FreeEntry ELSE n.entries[q]]
  <2>1. expire(n) = [n EXCEPT !.entries = es]
    BY <1>2 DEF expire
  <2>2. es \in [Seqs -> Entry]
    BY FreeEntryType DEF NodeState
  <2>3. /\ expire(n) \in NodeState
        /\ expire(n).session = n.session
        /\ expire(n).base = n.base
        /\ expire(n).active = n.active
        /\ expire(n).entries = es
    BY <2>1, <2>2 DEF NodeState
  <2>4. QED
    BY <2>3 DEF ResultExpired
<1>3. QED
  BY <1>1, <1>2

\* Freeing slots keeps the pool in order.
LEMMA ExpirePool ==
  ASSUME NEW n \in NodeState, PoolInv(n)
  PROVE  PoolInv(expire(n))
BY ExpireFacts, FreeEntryType DEF PoolInv, ExecutionOf

\* The type of a frame tells its kind.
LEMMA ReceivedFrameType ==
  ASSUME NEW f \in UpFrame, f.type = "RECEIVED"
  PROVE  f.seq \in Seqs /\ f.session \in UsedSession
BY DEF UpFrame, OpenAckFrame, ReceivedFrame, ResultFrame

(***************************************************************************)
(* The two ways a step changes the node that the invariant speaks of: the  *)
(* node keeps its session and base and loses no buffered command while the *)
(* session is open, or it executes the command at base.                    *)
(***************************************************************************)
Settled(n) ==
  /\ n \in NodeState
  /\ PoolInv(n)
  /\ n.session = node.session
  /\ n.base = node.base
  /\ n.active => node.active
  /\ n.active => \A q \in Seqs : node.entries[q].state = "buffered" =>
                                n.entries[q].state = "buffered"

LEMMA ExpireSettled ==
  ASSUME NodeIInv
  PROVE  Settled(expire(node))
BY ExpireFacts, ExpirePool DEF NodeIInv, NodeTypeOK, Settled

\* What a settled node may add to the wire without harm.
Harmless(n, frames) ==
  /\ frames \subseteq UpFrame
  /\ \A f \in frames : f.type = "RECEIVED" =>
       /\ f.session = n.session
       /\ f.seq < n.base \/ n.entries[f.seq].state = "buffered"
  /\ \A f \in frames : f.type = "RESULT" =>
       \E i \in 1 .. Len(executed) :
         /\ executed[i].session = f.session
         /\ executed[i].seq = f.seq
         /\ executed[i].cmd.op = f.op
         /\ executed[i].result = f.result

LEMMA SettledStep ==
  ASSUME NodeIInv, NEW n, Settled(n), NEW frames, Harmless(n, frames),
         node' = n, emit(frames), UNCHANGED executed,
         nodePc' \in {"idle", "deliver", "execute"},
         nodePc' = "execute" => NextIsBuffered(n)
  PROVE  NodeIInv'
<1>1. NodeTypeOK'
  BY DEF NodeIInv, NodeTypeOK, Settled, Harmless, emit
<1>2. PoolInv(node)'
  BY DEF Settled, PoolInv, ExecutionOf
<1>3. FrontierInv'
  BY DEF NodeIInv, Settled, FrontierInv, ExecutionOf
<1>4. ReceiptInv'
  BY DEF NodeIInv, NodeTypeOK, NodeState, Session, Settled, Harmless, ReceiptInv, emit
<1>5. (nodePc = "execute" => NextIsBuffered(node))'
  BY DEF NextIsBuffered
<1>6. InOrderOnce' /\ NoGapSkipped'
  BY DEF NodeIInv, InOrderOnce, NoGapSkipped
<1>7. ResultsAreOfExecutions'
  BY DEF NodeIInv, ResultsAreOfExecutions, Harmless, emit
<1>8. ReceivedIsKept'
  <2> SUFFICES ASSUME NEW f \in uplink', f.type = "RECEIVED",
                      n.active, f.session = n.session
               PROVE  f.seq < n.base \/ n.entries[f.seq].state = "buffered"
    BY DEF ReceivedIsKept
  <2>1. f.seq \in Seqs
    BY <1>1, ReceivedFrameType DEF NodeTypeOK
  <2>2. CASE f \in frames
    BY <2>2 DEF Harmless
  <2>3. CASE f \in uplink
    BY <2>1, <2>3 DEF NodeIInv, ReceivedIsKept, Settled
  <2>4. QED
    BY <2>2, <2>3 DEF emit
<1>9. (node.active => node.session # 0)'
  BY DEF NodeIInv, Settled
<1>10. QED
  BY <1>1, <1>2, <1>3, <1>4, <1>5, <1>6, <1>7, <1>8, <1>9 DEF NodeIInv

-----------------------------------------------------------------------------
\* What the type of a received frame says of it.
LEMMA DownFrameTypes ==
  ASSUME NEW f \in DownFrame
  PROVE  /\ f.session \in UsedSession
         /\ f.type # "OPEN" => f.seq \in Seqs
         /\ f.type = "COMMAND" => f.cmd \in Command
BY DEF DownFrame, OpenFrame, CommandFrame, ResultAckFrame

\* The frames emit_received() and emit_result() build are well formed.
LEMMA ReceivedOfType ==
  ASSUME NEW n \in NodeState, n.session \in UsedSession, NEW q \in Seqs
  PROVE  /\ ReceivedOf(n, q) \in UpFrame
         /\ ReceivedOf(n, q).type = "RECEIVED"
         /\ ReceivedOf(n, q).session = n.session
         /\ ReceivedOf(n, q).seq = q
BY DEF ReceivedOf, UpFrame, ReceivedFrame

LEMMA ResultOfType ==
  ASSUME NEW n \in NodeState, n.session \in UsedSession, NEW q \in Seqs,
         n.entries[q].cmd \in Command, n.entries[q].result \in Result
  PROVE  /\ ResultOf(n, q) \in UpFrame
         /\ ResultOf(n, q).type = "RESULT"
         /\ ResultOf(n, q).session = n.session
         /\ ResultOf(n, q).seq = q
         /\ ResultOf(n, q).op = n.entries[q].cmd.op
         /\ ResultOf(n, q).result = n.entries[q].result
BY DEF ResultOf, UpFrame, ResultFrame, Command

\* An entry that holds a result can be sent, and is that of an execution.
LEMMA StoredResult ==
  ASSUME NodeIInv, NEW n, Settled(n), NEW q \in Seqs,
         n.entries[q].state = "executed"
  PROVE  Harmless(n, {ResultOf(n, q)})
<1>1. PICK i \in 1 .. Len(executed) :
        /\ ExecutionOf(executed[i], n, q)
        /\ executed[i].cmd = n.entries[q].cmd
        /\ executed[i].result = n.entries[q].result
  BY DEF Settled, PoolInv
<1>2. executed[i] \in Execution
  BY DEF NodeIInv, NodeTypeOK
<1>3. /\ n.session \in UsedSession
      /\ n.entries[q].cmd \in Command
      /\ n.entries[q].result \in Result
  BY <1>1, <1>2 DEF Execution, ExecutionOf
<1>4. QED
  BY <1>1, <1>3, ResultOfType DEF Settled, Harmless, ExecutionOf

\* The union of harmless sets of frames is harmless.
LEMMA HarmlessUnion ==
  ASSUME NEW n, NEW F, NEW G, Harmless(n, F), Harmless(n, G)
  PROVE  Harmless(n, F \cup G)
BY DEF Harmless

LEMMA HarmlessNone == ASSUME NEW n PROVE Harmless(n, {})
BY DEF Harmless

\* A receipt for a command the pool holds or that lies left of the window.
LEMMA HarmlessReceipt ==
  ASSUME NEW n \in NodeState, n.session \in UsedSession, NEW q \in Seqs,
         q < n.base \/ n.entries[q].state = "buffered"
  PROVE  Harmless(n, {ReceivedOf(n, q)})
BY ReceivedOfType DEF Harmless

-----------------------------------------------------------------------------
\* A higher session: a fresh node, with nothing of its session on the wire.
LEMMA NewSession ==
  ASSUME NodeIInv, NEW s \in UsedSession, s > node.session,
         NEW frames, frames \subseteq UpFrame,
         \A f \in frames : f.type = "OPEN_ACK",
         node' = [session |-> s, base |-> 0, active |-> TRUE,
                  entries |-> NoEntries],
         emit(frames), UNCHANGED <<nodePc, executed>>, nodePc = "idle"
  PROVE  NodeIInv'
<1>1. NodeTypeOK'
  BY FreeEntryType, LimitsAssumption
  DEF NodeIInv, NodeTypeOK, NodeState, UsedSession, emit
<1>2. PoolInv(node)'
  BY FreeEntryType DEF PoolInv
<1>3. FrontierInv'
  <2>1. \A i \in 1 .. Len(executed) : executed[i] \in Execution
    BY DEF NodeIInv, NodeTypeOK
  <2>2. \A i \in 1 .. Len(executed) : executed[i].session < s
    <3> TAKE i \in 1 .. Len(executed)
    <3>1. /\ executed[i].session \in Nat
          /\ node.session \in Nat
          /\ s \in Nat
      BY <2>1, LimitsAssumption
      DEF NodeIInv, NodeTypeOK, NodeState, Execution, UsedSession, Session
    <3>2. executed[i].session <= node.session
      BY <3>1 DEF NodeIInv, FrontierInv, Before
    <3>3. QED
      BY <3>1, <3>2
  <2>3. QED
    BY <2>2 DEF FrontierInv, Before
<1>4. ReceiptInv'
  BY ReceivedFrameType
  DEF NodeIInv, NodeTypeOK, NodeState, ReceiptInv, UsedSession, Session, emit
<1>5. (nodePc = "execute" => NextIsBuffered(node))'
  OBVIOUS
<1>6. InOrderOnce' /\ NoGapSkipped'
  BY DEF NodeIInv, InOrderOnce, NoGapSkipped
<1>7. ResultsAreOfExecutions'
  BY DEF NodeIInv, ResultsAreOfExecutions, emit
<1>8. ReceivedIsKept'
  <2>1. \A f \in uplink' : f.type = "RECEIVED" => f.session # s
    BY ReceivedFrameType
    DEF NodeIInv, NodeTypeOK, NodeState, ReceiptInv, UsedSession, Session,
        emit
  <2>2. QED
    BY <2>1 DEF ReceivedIsKept
<1>9. (node.active => node.session # 0)'
  BY DEF UsedSession
<1>10. QED
  BY <1>1, <1>2, <1>3, <1>4, <1>5, <1>6, <1>7, <1>8, <1>9 DEF NodeIInv

\* The synchronous execution of the command at base returns.
LEMMA ExecutedStep ==
  ASSUME NodeIInv, NEW r \in Returned, NodeExecuted(r)
  PROVE  NodeIInv'
<1> DEFINE b == node.base
           e == node.entries[b]
           x == [session |-> node.session, seq |-> b, cmd |-> e.cmd,
                 result |-> Stored(r)]
           d == ExecutedEntry(e.cmd, Stored(r))
           m == [node EXCEPT !.entries[b] = d, !.base = b + 1]
<1>1. /\ node \in NodeState
      /\ executed \in Seq(Execution)
      /\ nodePc = "execute"
      /\ NextIsBuffered(node)
  BY DEF NodeIInv, NodeTypeOK, NodeExecuted
<1>2. /\ b \in Seqs
      /\ b \in Nat
      /\ e \in Entry
      /\ e.cmd \in Command
      /\ node.session \in UsedSession
      /\ Stored(r) \in Result
  BY <1>1, ReturnedAssumption, LimitsAssumption
  DEF NextIsBuffered, NodeState, Seqs, NodeIInv, PoolInv, UsedSession,
      Stored, NoResult, Result
<1>3. /\ node' = m
      /\ uplink' = uplink \cup {ResultOf(m, b)}
      /\ executed' = Append(executed, x)
      /\ nodePc' = "deliver"
  BY DEF NodeExecuted, emit
<1>4. /\ d \in Entry
      /\ d.state = "executed"
      /\ d.cmd = e.cmd
      /\ d.result = Stored(r)
  BY <1>2, LimitsAssumption DEF ExecutedEntry, Entry
<1>5. /\ m \in NodeState
      /\ m.session = node.session
      /\ m.base = b + 1
      /\ m.active
      /\ m.entries[b] = d
      /\ \A q \in Seqs \ {b} : m.entries[q] = node.entries[q]
  <2> HIDE DEF d
  <2>1. b + 1 \in 0 .. SeqSpace
    BY <1>1, <1>2, LimitsAssumption DEF NextIsBuffered
  <2>2. QED
    BY <2>1, <1>1, <1>2, <1>4 DEF NodeState, NextIsBuffered
<1>6. x \in Execution
  BY <1>2 DEF Execution
<1>7. /\ executed' \in Seq(Execution)
      /\ Len(executed) \in Nat
      /\ Len(executed') = Len(executed) + 1
      /\ executed'[Len(executed) + 1] = x
      /\ \A i \in 1 .. Len(executed) : executed'[i] = executed[i]
  BY <1>1, <1>3, <1>6
<1>9. /\ ResultOf(m, b) \in UpFrame
      /\ ResultOf(m, b).type = "RESULT"
      /\ ResultOf(m, b).session = x.session
      /\ ResultOf(m, b).seq = x.seq
      /\ ResultOf(m, b).op = x.cmd.op
      /\ ResultOf(m, b).result = x.result
  <2> HIDE DEF m, d
  <2>1. m.entries[b].cmd = e.cmd /\ m.entries[b].result = Stored(r)
    BY <1>4, <1>5
  <2>2. QED
    BY <2>1, <1>2, <1>5, ResultOfType
<1>10. NodeTypeOK'
  BY <1>3, <1>5, <1>7, <1>9 DEF NodeIInv, NodeTypeOK
<1>11. PoolInv(node)'
  <2> HIDE DEF m, d, x
  <2> SUFFICES ASSUME NEW q \in Seqs
               PROVE
                 /\ m.entries[q].state # "free" => m.entries[q].cmd \in Command
                 /\ m.entries[q].state = "buffered" => q >= m.base
                 /\ m.entries[q].state = "executed" =>
                      /\ q < m.base
                      /\ \E i \in 1 .. Len(executed') :
                           /\ ExecutionOf(executed'[i], m, q)
                           /\ executed'[i].cmd = m.entries[q].cmd
                           /\ executed'[i].result = m.entries[q].result
    BY <1>3 DEF PoolInv, ExecutionOf
  <2>1. CASE q = b
    <3>1. /\ x.session = m.session
          /\ x.seq = q
          /\ x.cmd = m.entries[q].cmd
          /\ x.result = m.entries[q].result
      BY <2>1, <1>4, <1>5 DEF x
    <3>2. QED
      BY <2>1, <3>1, <1>2, <1>4, <1>5, <1>7 DEF ExecutionOf
  <2>2. CASE q # b
    <3>1. q \in Nat
      BY DEF Seqs
    <3>2. m.entries[q] = node.entries[q]
      BY <2>2, <1>5
    <3>3. QED
      BY <2>2, <3>1, <3>2, <1>2, <1>5, <1>7
      DEF NodeIInv, PoolInv, ExecutionOf
  <2>3. QED
    BY <2>1, <2>2
<1>12. FrontierInv'
  <2>1. \A i \in 1 .. Len(executed') :
          Before(executed'[i].session, executed'[i].seq,
                 node.session, node.base + 1)
    <3> TAKE i \in 1 .. Len(executed')
    <3>1. CASE i = Len(executed) + 1
      BY <3>1, <1>2, <1>7 DEF Before
    <3>2. CASE i \in 1 .. Len(executed)
      <4>1. executed[i] \in Execution
        BY <1>1, <3>2
      <4>2. executed[i].seq \in Nat
        BY <4>1 DEF Execution, Seqs
      <4>3. QED
        BY <3>2, <4>2, <1>2, <1>7 DEF NodeIInv, FrontierInv, Before
    <3>3. QED
      BY <3>1, <3>2, <1>7
  <2>2. ASSUME NEW q \in 0 .. node.base
        PROVE  \E i \in 1 .. Len(executed') :
                 ExecutionOf(executed'[i], node, q)
    <3>1. CASE q = b
      BY <3>1, <1>7 DEF ExecutionOf
    <3>2. CASE q # b
      <4>1. q \in 0 .. node.base - 1
        BY <3>2, <1>2
      <4>2. PICK i \in 1 .. Len(executed) : ExecutionOf(executed[i], node, q)
        BY <4>1 DEF NodeIInv, FrontierInv
      <4>3. QED
        BY <4>2, <1>7
    <3>3. QED
      BY <3>1, <3>2
  <2>3. QED
    BY <2>1, <2>2, <1>2, <1>3, <1>5 DEF FrontierInv, ExecutionOf
<1>13. ReceiptInv'
  BY <1>3, <1>5, <1>9 DEF NodeIInv, ReceiptInv
<1>14. (node.active => node.session # 0)'
  BY <1>2, <1>3, <1>5 DEF UsedSession
<1>15. (nodePc = "execute" => NextIsBuffered(node))'
  BY <1>3
<1>16. InOrderOnce'
  <2> SUFFICES ASSUME NEW i \in 1 .. Len(executed'),
                      NEW j \in 1 .. Len(executed'), i < j
               PROVE  Before(executed'[i].session, executed'[i].seq,
                             executed'[j].session, executed'[j].seq)
    BY DEF InOrderOnce
  <2>1. i \in 1 .. Len(executed)
    BY <1>7
  <2>2. CASE j = Len(executed) + 1
    BY <2>1, <2>2, <1>7 DEF NodeIInv, FrontierInv
  <2>3. CASE j \in 1 .. Len(executed)
    BY <2>1, <2>3, <1>7 DEF NodeIInv, InOrderOnce
  <2>4. QED
    BY <2>2, <2>3, <1>7
<1>17. NoGapSkipped'
  <2> SUFFICES ASSUME NEW j \in 1 .. Len(executed'),
                      NEW q \in 0 .. executed'[j].seq - 1
               PROVE  \E i \in 1 .. j - 1 :
                        /\ executed'[i].session = executed'[j].session
                        /\ executed'[i].seq = q
    BY DEF NoGapSkipped
  <2>1. CASE j = Len(executed) + 1
    <3>1. PICK i \in 1 .. Len(executed) : ExecutionOf(executed[i], node, q)
      BY <2>1, <1>7 DEF NodeIInv, FrontierInv
    <3>2. QED
      BY <3>1, <2>1, <1>7 DEF ExecutionOf
  <2>2. CASE j \in 1 .. Len(executed)
    <3>1. PICK i \in 1 .. j - 1 :
            executed[i].session = executed[j].session /\ executed[i].seq = q
      BY <2>2, <1>7 DEF NodeIInv, NoGapSkipped
    <3>2. i \in 1 .. Len(executed)
      BY <2>2, <1>7
    <3>3. QED
      BY <3>1, <3>2, <2>2, <1>7
  <2>3. QED
    BY <2>1, <2>2, <1>7
<1>18. ResultsAreOfExecutions'
  <2> SUFFICES ASSUME NEW f \in uplink', f.type = "RESULT"
               PROVE  \E i \in 1 .. Len(executed') :
                        /\ executed'[i].session = f.session
                        /\ executed'[i].seq = f.seq
                        /\ executed'[i].cmd.op = f.op
                        /\ executed'[i].result = f.result
    BY DEF ResultsAreOfExecutions
  <2>1. CASE f = ResultOf(m, b)
    <3> HIDE DEF m, x
    <3>1. /\ f.session = x.session /\ f.seq = x.seq
          /\ f.op = x.cmd.op /\ f.result = x.result
      BY <2>1, <1>9
    <3>2. /\ Len(executed) + 1 \in 1 .. Len(executed')
          /\ executed'[Len(executed) + 1] = x
      BY <1>7
    <3>3. QED
      BY <3>1, <3>2
  <2>2. CASE f \in uplink
    <3>1. PICK i \in 1 .. Len(executed) :
                        /\ executed[i].session = f.session
                        /\ executed[i].seq = f.seq
                        /\ executed[i].cmd.op = f.op
                        /\ executed[i].result = f.result
      BY <2>2 DEF NodeIInv, ResultsAreOfExecutions
    <3>2. QED
      BY <3>1, <1>7
  <2>3. QED
    BY <2>1, <2>2, <1>3
<1>19. ReceivedIsKept'
  <2> SUFFICES ASSUME NEW f \in uplink', f.type = "RECEIVED",
                      f.session = node.session
               PROVE  f.seq < b + 1 \/ m.entries[f.seq].state = "buffered"
    BY <1>3, <1>5 DEF ReceivedIsKept
  <2>1. f \in uplink
    BY <1>3, <1>9
  <2>2. f.seq \in Seqs
    BY <2>1, ReceivedFrameType DEF NodeIInv, NodeTypeOK
  <2>3. f.seq < b \/ node.entries[f.seq].state = "buffered"
    BY <2>1, <1>1 DEF NodeIInv, ReceivedIsKept, NextIsBuffered
  <2>4. QED
    BY <2>2, <2>3, <1>2, <1>5 DEF Seqs
<1>20. QED
  BY <1>10, <1>11, <1>12, <1>13, <1>14, <1>15, <1>16, <1>17, <1>18, <1>19
  DEF NodeIInv

-----------------------------------------------------------------------------
\* A node that differs from a settled one by a freed result is settled.
LEMMA FreeResult ==
  ASSUME NEW n, Settled(n), NEW q \in Seqs, n.entries[q].state = "executed"
  PROVE  Settled([n EXCEPT !.entries[q] = FreeEntry])
<1> DEFINE m == [n EXCEPT !.entries[q] = FreeEntry]
<1>1. /\ m \in NodeState
      /\ m.session = n.session
      /\ m.base = n.base
      /\ m.active = n.active
      /\ m.entries[q] = FreeEntry
      /\ \A p \in Seqs \ {q} : m.entries[p] = n.entries[p]
  BY FreeEntryType DEF Settled, NodeState
<1> HIDE DEF m
<1>2. PoolInv(m)
  <2> SUFFICES ASSUME NEW p \in Seqs, p # q
               PROVE  m.entries[p] = n.entries[p]
    BY <1>1, FreeEntryType DEF Settled, PoolInv, ExecutionOf
  <2>1. QED
    BY <1>1
<1>3. Settled(m)
  BY <1>1, <1>2 DEF Settled
<1>4. QED
  BY <1>3 DEF m

\* So is one that differs by a command stored in the window.
LEMMA StoreCommand ==
  ASSUME NEW n, Settled(n), NEW q \in Seqs, NEW c \in Command,
         n.entries[q].state = "free", q >= n.base
  PROVE  /\ Settled([n EXCEPT !.entries[q] = BufferedEntry(c)])
         /\ [n EXCEPT !.entries[q] = BufferedEntry(c)].entries[q].state
              = "buffered"
<1> DEFINE m == [n EXCEPT !.entries[q] = BufferedEntry(c)]
<1>1. /\ m \in NodeState
      /\ m.session = n.session
      /\ m.base = n.base
      /\ m.active = n.active
      /\ m.entries[q] = BufferedEntry(c)
      /\ \A p \in Seqs \ {q} : m.entries[p] = n.entries[p]
  BY BufferedEntryType DEF Settled, NodeState
<1> HIDE DEF m
<1>2. /\ m.entries[q].state = "buffered"
      /\ m.entries[q].cmd = c
  BY <1>1, BufferedEntryType
<1>3. PoolInv(m)
  <2> SUFFICES ASSUME NEW p \in Seqs, p # q
               PROVE  m.entries[p] = n.entries[p]
    BY <1>1, <1>2 DEF Settled, PoolInv, ExecutionOf
  <2>1. QED
    BY <1>1
<1>4. Settled(m)
  BY <1>1, <1>2, <1>3 DEF Settled
<1>5. QED
  BY <1>2, <1>4 DEF m

\* And one whose entries keep their state, command and result.
LEMMA Retouch ==
  ASSUME NEW n, Settled(n), NEW es \in [Seqs -> Entry],
         \A q \in Seqs : /\ es[q].state = n.entries[q].state
                         /\ es[q].cmd = n.entries[q].cmd
                         /\ es[q].result = n.entries[q].result
  PROVE  Settled([n EXCEPT !.entries = es])
<1> DEFINE m == [n EXCEPT !.entries = es]
<1>1. /\ m \in NodeState
      /\ m.session = n.session
      /\ m.base = n.base
      /\ m.active = n.active
      /\ m.entries = es
  BY DEF Settled, NodeState
<1> HIDE DEF m
<1>2. PoolInv(m)
  BY <1>1 DEF Settled, PoolInv, ExecutionOf
<1>3. Settled(m)
  BY <1>1, <1>2 DEF Settled
<1>4. QED
  BY <1>3 DEF m

-----------------------------------------------------------------------------
(***************************************************************************)
(* edge_sr_node_on_frame() keeps the invariant, whatever the frame.        *)
(***************************************************************************)
LEMMA OnFrameStep ==
  ASSUME NodeIInv, NEW f \in DownFrame, NodeOnFrame(f)
  PROVE  NodeIInv'
<1> DEFINE n == expire(node)
<1>1. Settled(n) /\ n \in NodeState
  BY ExpireSettled DEF Settled
<1>2. nodePc = "idle" /\ UNCHANGED executed
  BY DEF NodeOnFrame
<1>3. /\ f.session \in UsedSession
      /\ f.type # "OPEN" => f.seq \in Seqs
      /\ f.type = "COMMAND" => f.cmd \in Command
  BY DownFrameTypes
<1>4. InSession(n, f) => n.session \in UsedSession
  BY <1>3 DEF InSession
<1> HIDE DEF n
<1>5. CASE OnOpen(n, f)
  <2> DEFINE m == Opened(n, f.session)
             ack == [type |-> "OPEN_ACK", session |-> f.session,
                     highWater |-> m.session,
                     rc |-> IF f.session = m.session /\ m.active
                              THEN "OK" ELSE "BAD_PARAM"]
  <2>1. node' = m /\ emit({ack}) /\ UNCHANGED nodePc
    BY <1>5 DEF OnOpen
  <2>2. m.session \in Session
    BY <1>1, <1>3 DEF Opened, NodeState, UsedSession
  <2> HIDE DEF m
  <2>3. ack \in UpFrame /\ ack.type = "OPEN_ACK"
    BY <1>3, <2>2 DEF UpFrame, OpenAckFrame
  <2> HIDE DEF ack
  <2>4. CASE f.session > n.session
    <3>1. m = [session |-> f.session, base |-> 0, active |-> TRUE,
               entries |-> NoEntries]
      BY <2>4 DEF m, Opened
    <3>2. f.session > node.session
      BY <2>4, <1>1 DEF Settled
    <3>3. QED
      BY <3>1, <3>2, <2>1, <2>3, <1>2, <1>3, NewSession
  <2>5. CASE ~(f.session > n.session)
    <3>1. m = n
      BY <2>5 DEF m, Opened
    <3>2. Harmless(n, {ack})
      BY <2>3 DEF Harmless
    <3>3. QED
      BY <3>1, <3>2, <2>1, <1>1, <1>2, SettledStep
  <2>6. QED
    BY <2>4, <2>5
<1>6. CASE OnStaleFrame(n, f)
  <2>1. node' = n /\ emit({}) /\ nodePc' = "idle"
    BY <1>2, <1>6 DEF OnStaleFrame, emit
  <2>2. QED
    BY <2>1, <1>1, <1>2, HarmlessNone, SettledStep
<1>7. CASE OnResultAck(n, f)
  <2>1. f.seq \in Seqs /\ emit({}) /\ nodePc' = "idle"
    BY <1>2, <1>3, <1>7 DEF OnResultAck, emit
  <2>2. Settled(node')
    BY <1>1, <1>7, <2>1, FreeResult DEF OnResultAck
  <2>3. QED
    BY <2>1, <2>2, <1>2, HarmlessNone, SettledStep
<1>8. CASE OnRepeatedCommand(n, f)
  <2> DEFINE q == f.seq
             results == IF n.entries[q].state = "executed"
                          THEN {ResultOf(n, q)} ELSE {}
             frames == IF n.entries[q].cmd # f.cmd THEN {}
                       ELSE {ReceivedOf(n, q)} \cup results
  <2>1. /\ q \in Seqs
        /\ InSession(n, f)
        /\ n.entries[q].state # "free"
        /\ node' = n
        /\ emit(frames)
        /\ nodePc' = "idle"
    BY <1>2, <1>3, <1>8 DEF OnRepeatedCommand, Held
  <2>2. n.entries[q].state \in {"buffered", "executed"}
    BY <2>1, <1>1 DEF NodeState, Entry
  <2>3. Harmless(n, results)
    BY <1>1, <2>1, StoredResult, HarmlessNone
  <2>4. Harmless(n, {ReceivedOf(n, q)})
    <3>1. q < n.base \/ n.entries[q].state = "buffered"
      BY <2>1, <2>2, <1>1 DEF Settled, PoolInv
    <3>2. QED
      BY <3>1, <2>1, <1>1, <1>4, HarmlessReceipt
  <2>5. Harmless(n, frames)
    <3> HIDE DEF results
    <3>1. QED
      BY <2>3, <2>4, HarmlessUnion, HarmlessNone
  <2> HIDE DEF frames
  <2>6. QED
    BY <2>1, <2>5, <1>1, <1>2, SettledStep
<1>9. CASE OnOldCommand(n, f)
  <2>1. /\ f.seq \in Seqs
        /\ InSession(n, f)
        /\ f.seq < n.base
        /\ node' = n
        /\ emit({ReceivedOf(n, f.seq)})
        /\ nodePc' = "idle"
    BY <1>2, <1>3, <1>9 DEF OnOldCommand
  <2>2. Harmless(n, {ReceivedOf(n, f.seq)})
    BY <2>1, <1>1, <1>4, HarmlessReceipt
  <2>3. QED
    BY <2>1, <2>2, <1>1, <1>2, SettledStep
<1>10. CASE OnRefusedCommand(n, f)
  <2>1. node' = n /\ emit({}) /\ nodePc' = "idle"
    BY <1>2, <1>10 DEF OnRefusedCommand, emit
  <2>2. QED
    BY <2>1, <1>1, <1>2, HarmlessNone, SettledStep
<1>11. CASE OnNewCommand(n, f)
  <2> DEFINE q == f.seq
             m == [n EXCEPT !.entries[q] = BufferedEntry(f.cmd)]
  <2>1. /\ q \in Seqs
        /\ f.cmd \in Command
        /\ InSession(n, f)
        /\ n.entries[q].state = "free"
        /\ q >= n.base
        /\ node' = m
        /\ emit({ReceivedOf(n, q)})
        /\ nodePc' = "deliver"
    BY <1>3, <1>11 DEF OnNewCommand, Held, Acceptable
  <2>2. Settled(m) /\ m.entries[q].state = "buffered"
    BY <2>1, <1>1, StoreCommand
  <2>3. m.session = n.session
    BY <2>2, <1>1 DEF Settled
  <2> HIDE DEF m
  <2>4. ReceivedOf(m, q) = ReceivedOf(n, q)
    BY <2>3 DEF ReceivedOf
  <2>5. Harmless(m, {ReceivedOf(m, q)})
    BY <2>1, <2>2, <2>3, <1>4, HarmlessReceipt DEF Settled
  <2>6. QED
    BY <2>1, <2>2, <2>4, <2>5, <1>2, SettledStep
<1>12. QED
  BY <1>5, <1>6, <1>7, <1>8, <1>9, <1>10, <1>11 DEF NodeOnFrame, n

\* The head of deliver()'s loop: expire(), then execute() or the return.
LEMMA DeliverStep ==
  ASSUME NodeIInv, NodeDeliver
  PROVE  NodeIInv'
<1> DEFINE n == IF node.base < SeqSpace THEN expire(node) ELSE node
<1>1. Settled(node)
  BY DEF NodeIInv, NodeTypeOK, Settled
<1>2. Settled(n)
  BY <1>1, ExpireSettled
<1>3. /\ node' = n
      /\ nodePc' = IF NextIsBuffered(n) THEN "execute" ELSE "idle"
      /\ emit({})
      /\ UNCHANGED executed
  BY DEF NodeDeliver, emit
<1> HIDE DEF n
<1>4. QED
  BY <1>2, <1>3, HarmlessNone, SettledStep

\* edge_sr_node_tick() sends again what the pool holds results of.
LEMMA TickStep ==
  ASSUME NodeIInv, NodeTick
  PROVE  NodeIInv'
<1> DEFINE n == expire(node)
           due == {q \in Seqs : n.active /\ ResendDue(n.entries[q])}
           again(q) == [n.entries[q] EXCEPT !.retries = @ + 1, !.sentAge = 0]
           es == [q \in Seqs |-> IF q \in due THEN again(q) ELSE n.entries[q]]
           frames == {ResultOf(n, q) : q \in due}
<1>1. Settled(n) /\ n \in NodeState
  BY ExpireSettled DEF Settled
<1>2. /\ node' = [n EXCEPT !.entries = es]
      /\ emit(frames)
      /\ nodePc' = "idle"
      /\ UNCHANGED executed
  BY DEF NodeTick
<1> HIDE DEF n
<1>3. ASSUME NEW q \in due
      PROVE  /\ again(q) \in Entry
             /\ again(q).state = n.entries[q].state
             /\ again(q).cmd = n.entries[q].cmd
             /\ again(q).result = n.entries[q].result
  <2>1. q \in Seqs /\ n.entries[q] \in Entry /\ n.entries[q].retries < MaxRetry
    BY <1>1 DEF NodeState, ResendDue
  <2>2. ASSUME NEW e \in Entry, e.retries < MaxRetry
        PROVE  LET a == [e EXCEPT !.retries = @ + 1, !.sentAge = 0] IN
               /\ a \in Entry
               /\ a.state = e.state /\ a.cmd = e.cmd /\ a.result = e.result
    <3>1. e.retries + 1 \in 0 .. MaxRetry
      BY <2>2, LimitsAssumption DEF Entry
    <3>2. QED
      BY <3>1 DEF Entry
  <2>3. QED
    BY <2>1, <2>2
<1>4. /\ es \in [Seqs -> Entry]
      /\ \A q \in Seqs : /\ es[q].state = n.entries[q].state
                         /\ es[q].cmd = n.entries[q].cmd
                         /\ es[q].result = n.entries[q].result
  <2> HIDE DEF again, due
  <2>1. n.entries \in [Seqs -> Entry]
    BY <1>1 DEF NodeState
  <2>2. QED
    BY <1>3, <2>1
<1>5. Settled(node')
  <2> HIDE DEF es
  <2>1. QED
    BY <1>1, <1>2, <1>4, Retouch
<1>6. Harmless(n, frames)
  <2>1. ASSUME NEW q \in due PROVE Harmless(n, {ResultOf(n, q)})
    BY <1>1, StoredResult DEF ResendDue
  <2>2. QED
    BY <2>1 DEF Harmless
<1>7. Harmless(node', frames)
  <2>1. \A f \in frames : f.type # "RECEIVED"
    BY DEF ResultOf
  <2>2. QED
    BY <1>6, <2>1 DEF Harmless
<1> HIDE DEF frames
<1>8. QED
  BY <1>2, <1>5, <1>7, SettledStep

\* Time alone changes no entry's state, command or result.
LEMMA ElapseStep ==
  ASSUME NodeIInv, NodeElapse
  PROVE  NodeIInv'
<1> DEFINE es == [q \in Seqs |-> OlderEntry(node.entries[q])]
<1>1. Settled(node) /\ node.entries \in [Seqs -> Entry]
  BY DEF NodeIInv, NodeTypeOK, Settled, NodeState
<1>2. ASSUME NEW e \in Entry
      PROVE  /\ OlderEntry(e) \in Entry
             /\ OlderEntry(e).state = e.state
             /\ OlderEntry(e).cmd = e.cmd
             /\ OlderEntry(e).result = e.result
  <2>1. \A a \in Nat : \A l : Older(a, l) \in Nat
    BY DEF Older
  <2>2. CASE e.state = "free"
    BY <2>2 DEF OlderEntry
  <2>3. CASE e.state = "buffered"
    BY <2>1, <2>3 DEF OlderEntry, Entry
  <2>4. CASE e.state = "executed"
    BY <2>1, <2>4 DEF OlderEntry, Entry
  <2>5. QED
    BY <2>2, <2>3, <2>4 DEF Entry
<1>3. /\ es \in [Seqs -> Entry]
      /\ \A q \in Seqs : /\ es[q].state = node.entries[q].state
                         /\ es[q].cmd = node.entries[q].cmd
                         /\ es[q].result = node.entries[q].result
  BY <1>1, <1>2
<1>4. /\ node' = [node EXCEPT !.entries = es]
      /\ emit({})
      /\ UNCHANGED <<nodePc, executed>>
  BY DEF NodeElapse, emit
<1> HIDE DEF es
<1>5. Settled(node')
  BY <1>1, <1>3, <1>4, Retouch
<1>6. nodePc' = "execute" => NextIsBuffered(node')
  <2>1. node'.entries = es /\ node'.base = node.base
                           /\ node'.active = node.active
    BY <1>4 DEF NodeIInv, NodeTypeOK, NodeState
  <2>2. node.base < SeqSpace => node.base \in Seqs
    BY LimitsAssumption DEF NodeIInv, NodeTypeOK, NodeState, Seqs
  <2>3. QED
    BY <2>1, <2>2, <1>3, <1>4 DEF NodeIInv, NextIsBuffered
<1>7. nodePc' \in {"idle", "deliver", "execute"}
  BY <1>4 DEF NodeIInv, NodeTypeOK
<1>8. QED
  BY <1>4, <1>5, <1>6, <1>7, HarmlessNone, SettledStep

\* A step that changes nothing of the node.
LEMMA NodeStutter ==
  ASSUME NodeIInv, UNCHANGED nodeVars
  PROVE  NodeIInv'
<1>1. Settled(node) /\ emit({})
  BY DEF NodeIInv, NodeTypeOK, Settled, nodeVars, emit
<1>2. QED
  BY <1>1, HarmlessNone, SettledStep DEF NodeIInv, NodeTypeOK, nodeVars

\* The node at power-up.
LEMMA NodeInitially ==
  ASSUME NodeInit
  PROVE  NodeIInv
<1>1. NodeTypeOK
  BY FreeEntryType, LimitsAssumption DEF NodeInit, NodeTypeOK, NodeState,
     Session
<1>2. PoolInv(node)
  BY FreeEntryType DEF NodeInit, PoolInv
<1>3. /\ Len(executed) = 0
      /\ uplink = {}
  BY DEF NodeInit
<1>4. QED
  BY <1>1, <1>2, <1>3 DEF NodeInit, NodeIInv, FrontierInv, ReceiptInv,
     InOrderOnce, NoGapSkipped, ResultsAreOfExecutions, ReceivedIsKept

(***************************************************************************)
(* NodeIInv is an invariant of the node under any wire: frames lost,       *)
(* repeated, reordered or never sent by the gateway included.              *)
(***************************************************************************)
THEOREM NodeInvariant == NodeSpec => []NodeIInv
<1>1. NodeInit => NodeIInv
  BY NodeInitially
<1>2. NodeIInv /\ [NodeNext]_nodeVars => NodeIInv'
  BY OnFrameStep, DeliverStep, ExecutedStep, TickStep, ElapseStep, NodeStutter
  DEF NodeNext, NodeStep
<1>3. QED
  BY <1>1, <1>2, PTL DEF NodeSpec

(***************************************************************************)
(* The node's state keeps its type; no counter leaves its range: retries   *)
(* stay within MaxRetry and base within the sequence space.                *)
(***************************************************************************)
THEOREM NodeTypeCorrect == NodeSpec => []NodeTypeOK
BY NodeInvariant, PTL DEF NodeIInv

(***************************************************************************)
(* Commands are executed at most once and in (session, seq) order.         *)
(***************************************************************************)
THEOREM NodeExecutesInOrderOnce == NodeSpec => []InOrderOnce
BY NodeInvariant, PTL DEF NodeIInv

(***************************************************************************)
(* No command is executed past a missing one.                              *)
(***************************************************************************)
THEOREM NodeSkipsNoGap == NodeSpec => []NoGapSkipped
BY NodeInvariant, PTL DEF NodeIInv

(***************************************************************************)
(* Every RESULT on the wire is that of an execution.                       *)
(***************************************************************************)
THEOREM NodeReportsExecutions == NodeSpec => []ResultsAreOfExecutions
BY NodeInvariant, PTL DEF NodeIInv

(***************************************************************************)
(* A command the node acknowledged is not lost while its session is open.  *)
(***************************************************************************)
THEOREM NodeKeepsReceived == NodeSpec => []ReceivedIsKept
BY NodeInvariant, PTL DEF NodeIInv

(***************************************************************************)
(* A session that was closed is not opened again.                          *)
(***************************************************************************)
THEOREM NodeClosedStaysClosed == NodeSpec => ClosedStaysClosed
<1> DEFINE Closing == (~node.active /\ node'.session = node.session)
                        => ~node'.active
<1>1. ASSUME NodeIInv, [NodeNext]_nodeVars PROVE [Closing]_node
  <2>1. node \in NodeState
    BY <1>1 DEF NodeIInv, NodeTypeOK
  <2>2. /\ expire(node) \in NodeState
        /\ expire(node).session = node.session
        /\ expire(node).active => node.active
    BY <2>1, ExpireFacts
  <2>3. ASSUME NEW f \in DownFrame, NodeOnFrame(f) PROVE Closing
    <3> DEFINE n == expire(node)
    <3>1. CASE OnOpen(n, f)
      <4>1. f.session > n.session => node'.session # n.session
        BY <3>1, <2>2, DownFrameTypes
        DEF OnOpen, Opened, NodeState, Session, UsedSession
      <4>2. QED
        BY <4>1, <3>1, <2>2 DEF OnOpen, Opened
    <3>2. CASE OnResultAck(n, f)
      BY <3>2, <2>2 DEF OnResultAck, NodeState
    <3>3. CASE OnNewCommand(n, f)
      BY <3>3, <2>2 DEF OnNewCommand, InSession
    <3>4. CASE node' = n
      BY <3>4, <2>2
    <3>5. QED
      BY <3>1, <3>2, <3>3, <3>4, <2>3
      DEF NodeOnFrame, OnStaleFrame, OnRepeatedCommand, OnOldCommand,
          OnRefusedCommand
  <2>4. CASE NodeDeliver
    BY <2>4, <2>2 DEF NodeDeliver
  <2>5. ASSUME NEW r \in Returned, NodeExecuted(r) PROVE Closing
    BY <2>5, <1>1 DEF NodeExecuted, NodeIInv, NextIsBuffered
  <2>6. CASE NodeTick
    BY <2>6, <2>2 DEF NodeTick, NodeState
  <2>7. CASE NodeElapse
    BY <2>7, <2>1 DEF NodeElapse, NodeState
  <2>8. CASE UNCHANGED nodeVars
    BY <2>8 DEF nodeVars
  <2>9. QED
    BY <2>3, <2>4, <2>5, <2>6, <2>7, <2>8, <1>1 DEF NodeNext, NodeStep
<1>2. QED
  BY <1>1, NodeInvariant, PTL DEF NodeSpec, ClosedStaysClosed
-----------------------------------------------------------------------------
(***************************************************************************)
(* A well-formed tracker.  Only a ready session has commands in flight;    *)
(* retries are within their budget as long as a transmission is queued;    *)
(* the window is as wide as Window, and what lies left of it is received.  *)
(***************************************************************************)
EntryInv(t, q) ==
  /\ t.entries[q].held =>
       /\ t.state = "Ready"
       /\ q < t.next
       /\ t.entries[q].cmd \in Command
       /\ t.entries[q].pending => t.entries[q].sends <= MaxRetry
  /\ t.received[q] => q < t.next
  /\ q < t.base => t.received[q]

TrackerInv(t) ==
  /\ t \in Tracker
  /\ t.state \in {"Opening", "Ready"} => t.session # 0
  /\ t.state = "Opening" => t.next = 0
  /\ (t.state = "Opening" /\ t.openPending) => t.openSends <= MaxRetry
  /\ t.base <= t.next
  /\ t.next <= t.base + Window
  /\ \A q \in Seqs : EntryInv(t, q)

(***************************************************************************)
(* What a call of the tracker may do, given the frames F it has received   *)
(* (none or one).  A command is finished once, and only while it is held;  *)
(* what stays held keeps its session and its arguments; the frames to send *)
(* are of commands held; a session becomes ready, a number received and a  *)
(* command answered only by a frame of that session and number.            *)
(***************************************************************************)
Answers(F, s, q) ==
  \E f \in F : /\ f.type \in {"RECEIVED", "RESULT"}
               /\ f.session = s
               /\ f.seq = q

Finishes(t, r, F) ==
  /\ r.finished \subseteq Completion
  /\ \A d, e \in r.finished : d.seq = e.seq => d = e
  /\ \A d \in r.finished :
       /\ t.entries[d.seq].held
       /\ d.outcome \in Result =>
            \E f \in F : /\ f.type = "RESULT"
                         /\ f.session = t.session
                         /\ f.seq = d.seq
                         /\ f.result = d.outcome

Keeps(t, r) ==
  \A q \in Seqs :
    /\ r.t.entries[q].held <=>
         t.entries[q].held /\ \A d \in r.finished : d.seq # q
    /\ r.t.entries[q].held =>
         /\ r.t.session = t.session
         /\ r.t.entries[q].cmd = t.entries[q].cmd

SendsHeld(r) ==
  /\ r.send \in Seq(CommandSend)
  /\ \A i \in DOMAIN r.send : r.send[i].type = "COMMAND" =>
       /\ r.t.entries[r.send[i].seq].held
       /\ r.send[i].session = r.t.session
       /\ r.send[i].cmd = r.t.entries[r.send[i].seq].cmd

Hears(t, r, F) ==
  /\ r.t.state = "Ready" =>
       \/ t.state = "Ready" /\ r.t.session = t.session
       \/ \E f \in F : f.type = "OPEN_ACK" /\ f.highWater = r.t.session
  /\ \A q \in Seqs : r.t.received[q] =>
       \/ t.received[q] /\ r.t.session = t.session
       \/ Answers(F, r.t.session, q)

Forward(t, r) ==
  /\ t.session <= r.t.session
  /\ r.t.session = t.session => t.next <= r.t.next

Progress(t, r, F) ==
  /\ TrackerInv(r.t)
  /\ Finishes(t, r, F)
  /\ Keeps(t, r)
  /\ SendsHeld(r)
  /\ Hears(t, r, F)
  /\ Forward(t, r)

-----------------------------------------------------------------------------
LEMMA NoEntryType ==
  /\ NoEntry \in TrackerEntry
  /\ ~NoEntry.held
  /\ NoTrackerEntries \in [Seqs -> TrackerEntry]
  /\ \A q \in Seqs : NoTrackerEntries[q] = NoEntry
  /\ NoFlags \in [Seqs -> BOOLEAN]
  /\ \A q \in Seqs : ~NoFlags[q]
BY LimitsAssumption DEF NoEntry, TrackerEntry, NoTrackerEntries, NoFlags

LEMMA NewEntryType ==
  ASSUME NEW c \in Command
  PROVE  /\ NewEntry(c) \in TrackerEntry
         /\ NewEntry(c).held
         /\ NewEntry(c).pending
         /\ NewEntry(c).cmd = c
         /\ NewEntry(c).sends = 0
<1> DEFINE e == [NoEntry EXCEPT !.held = TRUE]
           f == [e EXCEPT !.cmd = c]
           g == [f EXCEPT !.pending = TRUE]
<1>1. e \in TrackerEntry /\ e.held /\ e.sends = 0
  BY NoEntryType DEF TrackerEntry, NoEntry
<1>2. f \in TrackerEntry /\ f.held /\ f.sends = 0 /\ f.cmd = c
  <2> HIDE DEF e
  <2>1. QED
    BY <1>1 DEF TrackerEntry
<1>3. g \in TrackerEntry /\ g.held /\ g.sends = 0 /\ g.cmd = c /\ g.pending
  <2> HIDE DEF f
  <2>1. QED
    BY <1>2 DEF TrackerEntry
<1>4. NewEntry(c) = g
  BY DEF NewEntry
<1>5. QED
  BY <1>3, <1>4

\* A new process.
LEMMA ClosedTrackerInv == TrackerInv(ClosedTracker)
<1>1. ClosedTracker \in Tracker
  BY NoEntryType, LimitsAssumption DEF ClosedTracker, Tracker, Session
<1>2. /\ ClosedTracker.state = "Closed"
      /\ ClosedTracker.base = 0
      /\ ClosedTracker.next = 0
      /\ ClosedTracker.entries = NoTrackerEntries
      /\ ClosedTracker.received = NoFlags
  BY DEF ClosedTracker
<1>3. ASSUME NEW q \in Seqs PROVE EntryInv(ClosedTracker, q)
  BY <1>2, NoEntryType, LimitsAssumption DEF EntryInv, Seqs
<1>4. QED
  BY <1>1, <1>2, <1>3, LimitsAssumption DEF TrackerInv

\* The field types a proof needs of a tracker.
LEMMA TrackerFields ==
  ASSUME NEW t \in Tracker
  PROVE  /\ t.state \in {"Closed", "Opening", "Ready", "Failed"}
         /\ t.session \in Session
         /\ t.session \in Nat
         /\ t.base \in 0 .. SeqSpace
         /\ t.base \in Nat
         /\ t.next \in 0 .. SeqSpace
         /\ t.next \in Nat
         /\ t.entries \in [Seqs -> TrackerEntry]
         /\ t.received \in [Seqs -> BOOLEAN]
         /\ t.completed \in [Seqs -> BOOLEAN]
         /\ t.types \in [Seqs -> Op \cup {"none"}]
         /\ t.openAge \in Nat
         /\ t.openSentAge \in Nat
         /\ t.openSends \in 0 .. MaxRetry + 1
         /\ t.openSends \in Nat
         /\ t.openPending \in BOOLEAN
BY LimitsAssumption DEF Tracker, Session

\* An OPEN is a frame to send and no COMMAND.
LEMMA OpenSendType ==
  ASSUME NEW t \in Tracker, t.session # 0
  PROVE  /\ openSend(t) \in CommandSend
         /\ openSend(t).type = "OPEN"
BY TrackerFields DEF openSend, CommandSend, OpenSend, UsedSession

\* handshakeOver() touches the handshake's fields only.
LEMMA HandshakeFields ==
  ASSUME NEW t \in Tracker, NEW s \in {"Ready", "Failed"}
  PROVE  /\ handshakeOver(t, s) \in Tracker
         /\ handshakeOver(t, s).state = s
         /\ handshakeOver(t, s).session = t.session
         /\ handshakeOver(t, s).base = t.base
         /\ handshakeOver(t, s).next = t.next
         /\ handshakeOver(t, s).entries = t.entries
         /\ handshakeOver(t, s).received = t.received
<1> DEFINE u == [t EXCEPT !.state = s]
           v == [u EXCEPT !.openPending = FALSE]
           w == [v EXCEPT !.openSends = 0]
           x == [w EXCEPT !.openAge = 0]
           y == [x EXCEPT !.openSentAge = 0]
           Same(a, b) == /\ a \in Tracker
                         /\ a.session = b.session
                         /\ a.base = b.base
                         /\ a.next = b.next
                         /\ a.entries = b.entries
                         /\ a.received = b.received
<1>1. Same(u, t) /\ u.state = s
  BY DEF Tracker
<1>2. Same(v, u) /\ v.state = u.state
  <2> HIDE DEF u
  <2>1. QED
    BY <1>1 DEF Tracker
<1>3. Same(w, v) /\ w.state = v.state
  <2> HIDE DEF v
  <2>1. QED
    BY <1>2, LimitsAssumption DEF Tracker
<1>4. Same(x, w) /\ x.state = w.state
  <2> HIDE DEF w
  <2>1. QED
    BY <1>3 DEF Tracker
<1>5. Same(y, x) /\ y.state = x.state
  <2> HIDE DEF x
  <2>1. QED
    BY <1>4 DEF Tracker
<1>6. handshakeOver(t, s) = y
  BY DEF handshakeOver
<1>7. QED
  <2> HIDE DEF y, x, w, v, u
  <2>1. QED
    BY <1>1, <1>2, <1>3, <1>4, <1>5, <1>6

(***************************************************************************)
(* begin() with nothing in flight: a higher session, or none is left.      *)
(***************************************************************************)
LEMMA BeginStep ==
  ASSUME NEW t, TrackerInv(t), NEW s \in Session,
         \A q \in Seqs : ~t.entries[q].held
  PROVE  /\ TrackerInv(begin(t, s).t)
         /\ begin(t, s).send \in Seq(CommandSend)
         /\ \A i \in DOMAIN begin(t, s).send :
              begin(t, s).send[i].type = "OPEN"
         /\ \A q \in Seqs : ~begin(t, s).t.entries[q].held
         /\ begin(t, s).t.state # "Ready"
         /\ \A q \in Seqs : begin(t, s).t.received[q] =>
              t.received[q] /\ begin(t, s).t.session = t.session
         /\ t.session <= begin(t, s).t.session
         /\ begin(t, s).t.session = t.session => t.next <= begin(t, s).t.next
<1> DEFINE n == IF s <= t.session THEN t.session + 1 ELSE s
           fresh == [ClosedTracker EXCEPT !.state = "Opening", !.session = n,
                                          !.openPending = TRUE]
           failed == [t EXCEPT !.state = "Failed"]
<1>1. t \in Tracker /\ s \in Nat /\ n \in Nat /\ n > t.session /\ n # 0
  BY TrackerFields, LimitsAssumption DEF TrackerInv, Session
<1>2. CASE n > MaxSession
  <2>1. begin(t, s).t = failed /\ begin(t, s).send = << >>
    BY <1>2 DEF begin
  <2>2. failed \in Tracker
    BY <1>1 DEF Tracker
  <2>3. /\ failed.state = "Failed"
        /\ failed.session = t.session
        /\ failed.base = t.base
        /\ failed.next = t.next
        /\ failed.entries = t.entries
        /\ failed.received = t.received
    BY <1>1 DEF Tracker
  <2>4. TrackerInv(failed)
    <3> HIDE DEF failed
    <3>1. ASSUME NEW q \in Seqs PROVE EntryInv(failed, q)
      BY <2>3 DEF TrackerInv, EntryInv
    <3>2. QED
      BY <2>2, <2>3, <3>1 DEF TrackerInv
  <2>5. QED
    <3> HIDE DEF failed
    <3>1. << >> \in Seq(CommandSend) /\ DOMAIN << >> = {}
      OBVIOUS
    <3>2. t.session \in Nat /\ t.next \in Nat
      BY <1>1, TrackerFields
    <3>3. QED
      BY <2>1, <2>3, <2>4, <3>1, <3>2
<1>3. CASE ~(n > MaxSession)
  <2>1. begin(t, s).t = fresh /\ begin(t, s).send = <<openSend(fresh)>>
    BY <1>3 DEF begin
  <2>2. n \in Session
    BY <1>1, <1>3, LimitsAssumption DEF Session
  <2>3. ClosedTracker \in Tracker
    BY ClosedTrackerInv DEF TrackerInv
  <2>4. fresh \in Tracker
    BY <2>2, <2>3 DEF Tracker
  <2>5. /\ fresh.state = "Opening"
        /\ fresh.session = n
        /\ fresh.base = 0
        /\ fresh.next = 0
        /\ fresh.entries = NoTrackerEntries
        /\ fresh.received = NoFlags
        /\ fresh.openSends = 0
    BY DEF ClosedTracker
  <2>6. TrackerInv(fresh)
    <3> HIDE DEF fresh
    <3>1. ASSUME NEW q \in Seqs PROVE EntryInv(fresh, q)
      BY <2>5, NoEntryType, LimitsAssumption DEF EntryInv, Seqs
    <3>2. QED
      BY <1>1, <2>4, <2>5, <3>1, LimitsAssumption DEF TrackerInv
  <2>7. QED
    <3> HIDE DEF fresh
    <3>1. openSend(fresh) \in CommandSend /\ openSend(fresh).type = "OPEN"
      BY <1>1, <2>4, <2>5, OpenSendType
    <3>2. /\ <<openSend(fresh)>> \in Seq(CommandSend)
          /\ \A i \in DOMAIN <<openSend(fresh)>> :
               <<openSend(fresh)>>[i].type = "OPEN"
      BY <3>1
    <3>3. \A q \in Seqs : ~fresh.entries[q].held /\ ~fresh.received[q]
      BY <2>5, NoEntryType
    <3>4. t.session < fresh.session /\ t.session \in Nat
      BY <1>1, <2>5, TrackerFields
    <3>5. fresh.state # "Ready"
      BY <2>5
    <3> HIDE DEF n
    <3>6. fresh.session = n
      BY <2>5
    <3>7. t.session <= fresh.session /\ fresh.session # t.session
      BY <1>1, <3>4, <3>6
    <3>8. QED
      BY <2>1, <2>6, <3>2, <3>3, <3>5, <3>7
<1>4. QED
  BY <1>2, <1>3

\* Only "ok", "error" and "malformed" come from the node.
LEMMA ReasonIsNoResult == \A x \in Reason : x \notin Result
BY DEF Reason, Result

(***************************************************************************)
(* The ends of a session with commands in flight: each of them is told a   *)
(* reason, and the next session begins.                                    *)
(***************************************************************************)
LEMMA RestartStep ==
  ASSUME NEW t, TrackerInv(t), NEW s \in Session, NEW D, NEW F,
         D \subseteq Completion,
         \A d, e \in D : d.seq = e.seq => d = e,
         \A d \in D : t.entries[d.seq].held /\ d.outcome \in Reason,
         \A q \in Seqs : t.entries[q].held => \E d \in D : d.seq = q
  PROVE  Progress(t, restart(t, s, D), F)
<1> DEFINE u == [t EXCEPT !.entries = NoTrackerEntries]
           b == begin(u, s)
           r == restart(t, s, D)
<1>1. t \in Tracker
  BY DEF TrackerInv
<1>2. u \in Tracker
  BY <1>1, NoEntryType DEF Tracker
<1>3. /\ u.state = t.state
      /\ u.session = t.session
      /\ u.base = t.base
      /\ u.next = t.next
      /\ u.entries = NoTrackerEntries
      /\ u.received = t.received
      /\ u.openSends = t.openSends
      /\ u.openPending = t.openPending
  BY <1>1 DEF Tracker
<1>4. TrackerInv(u) /\ \A q \in Seqs : ~u.entries[q].held
  <2> HIDE DEF u
  <2>1. ASSUME NEW q \in Seqs PROVE EntryInv(u, q)
    BY <1>3, NoEntryType DEF TrackerInv, EntryInv
  <2>2. QED
    BY <1>2, <1>3, <2>1, NoEntryType DEF TrackerInv
<1>5. r.t = b.t /\ r.send = b.send /\ r.finished = D
  BY DEF restart
<1> HIDE DEF u, r
<1>6. /\ TrackerInv(b.t)
      /\ b.send \in Seq(CommandSend)
      /\ \A i \in DOMAIN b.send : b.send[i].type = "OPEN"
      /\ \A q \in Seqs : ~b.t.entries[q].held
      /\ b.t.state # "Ready"
      /\ \A q \in Seqs : b.t.received[q] =>
           t.received[q] /\ b.t.session = t.session
      /\ t.session <= b.t.session
      /\ b.t.session = t.session => t.next <= b.t.next
  BY <1>3, <1>4, BeginStep
<1> HIDE DEF b
<1>7. Finishes(t, r, F)
  BY <1>5, ReasonIsNoResult DEF Finishes
<1>8. Keeps(t, r)
  <2>1. ASSUME NEW q \in Seqs
        PROVE  ~(t.entries[q].held /\ \A d \in D : d.seq # q)
    OBVIOUS
  <2>2. QED
    BY <1>5, <1>6, <2>1 DEF Keeps
<1>9. SendsHeld(r) /\ Hears(t, r, F) /\ Forward(t, r)
  <2>1. SendsHeld(r)
    BY <1>5, <1>6 DEF SendsHeld
  <2>2. Hears(t, r, F)
    BY <1>5, <1>6 DEF Hears
  <2>3. QED
    BY <1>5, <1>6, <2>1, <2>2 DEF Forward
<1>10. QED
  <2>1. Progress(t, r, F)
    BY <1>5, <1>6, <1>7, <1>8, <1>9 DEF Progress
  <2>2. QED
    BY <2>1 DEF r

LEMMA CompletionType ==
  ASSUME NEW q \in Seqs, NEW x \in Result \cup Reason
  PROVE  /\ [seq |-> q, outcome |-> x] \in Completion
         /\ [seq |-> q, outcome |-> x].seq = q
         /\ [seq |-> q, outcome |-> x].outcome = x
BY DEF Completion

LEMMA StartStep ==
  ASSUME NEW t, TrackerInv(t), NEW s \in Session, NEW F
  PROVE  Progress(t, start(t, s), F)
<1> DEFINE d(q) == [seq |-> q, outcome |-> "session_aborted"]
           D == {d(q) : q \in HeldSeqs(t)}
<1>1. "session_aborted" \in Reason
  BY DEF Reason
<1>2. ASSUME NEW q \in Seqs
      PROVE  /\ d(q) \in Completion
             /\ d(q).seq = q
             /\ d(q).outcome \in Reason
  BY <1>1, CompletionType
<1>3. start(t, s) = restart(t, s, D)
  BY DEF start
<1>4. \A q \in HeldSeqs(t) : q \in Seqs /\ t.entries[q].held
  BY DEF HeldSeqs
<1>5. \A q \in Seqs : t.entries[q].held => q \in HeldSeqs(t)
  BY DEF HeldSeqs
<1> HIDE DEF d
<1>6. D \subseteq Completion
  BY <1>2, <1>4
<1>7. \A x, e \in D : x.seq = e.seq => x = e
  BY <1>2, <1>4
<1>8. \A x \in D : t.entries[x.seq].held /\ x.outcome \in Reason
  BY <1>2, <1>4
<1>9. \A q \in Seqs : t.entries[q].held => \E x \in D : x.seq = q
  BY <1>2, <1>5
<1> HIDE DEF D
<1>10. QED
  BY <1>3, <1>6, <1>7, <1>8, <1>9, RestartStep

LEMMA AbortStep ==
  ASSUME NEW t, TrackerInv(t), NEW p, NEW x \in Reason, NEW F
  PROVE  Progress(t, abort(t, p, x), F)
<1> DEFINE d(q) == [seq |-> q, outcome |-> IF q = p THEN x
                                           ELSE "session_aborted"]
           D == {d(q) : q \in HeldSeqs(t)}
<1>1. "session_aborted" \in Reason
  BY DEF Reason
<1>2. ASSUME NEW q \in Seqs
      PROVE  /\ d(q) \in Completion
             /\ d(q).seq = q
             /\ d(q).outcome \in Reason
  BY <1>1, CompletionType
<1>3. abort(t, p, x) = restart(t, t.session, D)
  BY DEF abort
<1>4. \A q \in HeldSeqs(t) : q \in Seqs /\ t.entries[q].held
  BY DEF HeldSeqs
<1>5. \A q \in Seqs : t.entries[q].held => q \in HeldSeqs(t)
  BY DEF HeldSeqs
<1> HIDE DEF d
<1>6. D \subseteq Completion
  BY <1>2, <1>4
<1>7. \A y, e \in D : y.seq = e.seq => y = e
  BY <1>2, <1>4
<1>8. \A y \in D : t.entries[y.seq].held /\ y.outcome \in Reason
  BY <1>2, <1>4
<1>9. \A q \in Seqs : t.entries[q].held => \E y \in D : y.seq = q
  BY <1>2, <1>5
<1>10. t.session \in Session
  BY TrackerFields DEF TrackerInv
<1> HIDE DEF D
<1>11. QED
  BY <1>3, <1>6, <1>7, <1>8, <1>9, <1>10, RestartStep

-----------------------------------------------------------------------------
(***************************************************************************)
(* A step that ends nothing, leaves the session and what is received, and  *)
(* sends nothing but what r holds.                                         *)
(***************************************************************************)
SameCommands(t, u) ==
  /\ u.session = t.session
  /\ u.next = t.next
  /\ \A q \in Seqs : /\ u.entries[q].held <=> t.entries[q].held
                     /\ u.entries[q].cmd = t.entries[q].cmd

LEMMA QuietStep ==
  ASSUME NEW t, TrackerInv(t), NEW u, TrackerInv(u), SameCommands(t, u),
         NEW F, Hears(t, Nothing(u), F)
  PROVE  Progress(t, Nothing(u), F)
<1> DEFINE r == Nothing(u)
<1>1. r.t = u /\ r.send = << >> /\ r.finished = {}
  BY DEF Nothing
<1>2. << >> \in Seq(CommandSend) /\ DOMAIN << >> = {}
  OBVIOUS
<1>3. t.session \in Nat /\ t.next \in Nat
  BY TrackerFields DEF TrackerInv
<1> HIDE DEF r
<1>4. Finishes(t, r, F) /\ Keeps(t, r) /\ SendsHeld(r)
  BY <1>1, <1>2 DEF Finishes, Keeps, SendsHeld, SameCommands
<1>5. Forward(t, r)
  BY <1>1, <1>3 DEF Forward, SameCommands
<1>6. Hears(t, r, F)
  BY DEF r
<1>7. QED
  <2>1. Progress(t, r, F)
    BY <1>1, <1>4, <1>5, <1>6 DEF Progress
  <2>2. QED
    BY <2>1 DEF r

LEMMA NothingStep ==
  ASSUME NEW t, TrackerInv(t), NEW F
  PROVE  Progress(t, Nothing(t), F)
<1>1. SameCommands(t, t)
  BY DEF SameCommands
<1>2. Hears(t, Nothing(t), F)
  BY DEF Hears, Nothing
<1>3. QED
  BY <1>1, <1>2, QuietStep

LEMMA FailStep ==
  ASSUME NEW t, TrackerInv(t), t.state = "Opening", NEW F
  PROVE  Progress(t, Nothing(handshakeOver(t, "Failed")), F)
<1> DEFINE u == handshakeOver(t, "Failed")
<1>1. /\ t \in Tracker
      /\ u \in Tracker
      /\ u.state = "Failed"
      /\ u.session = t.session
      /\ u.base = t.base
      /\ u.next = t.next
      /\ u.entries = t.entries
      /\ u.received = t.received
  BY HandshakeFields DEF TrackerInv
<1> HIDE DEF u
<1>2. ASSUME NEW q \in Seqs PROVE EntryInv(u, q)
  BY <1>1 DEF TrackerInv, EntryInv
<1>3. TrackerInv(u)
  BY <1>1, <1>2 DEF TrackerInv
<1>4. SameCommands(t, u)
  BY <1>1 DEF SameCommands
<1>5. Hears(t, Nothing(u), F)
  BY <1>1 DEF Hears, Nothing
<1>6. QED
  BY <1>3, <1>4, <1>5, QuietStep DEF u

\* What a transmission, a clock tick or a retransmission leaves alone.
SameButTimes(t, u) ==
  /\ u \in Tracker
  /\ u.state = t.state
  /\ u.session = t.session
  /\ u.base = t.base
  /\ u.next = t.next
  /\ u.received = t.received
  /\ \A q \in Seqs : /\ u.entries[q].held <=> t.entries[q].held
                     /\ u.entries[q].cmd = t.entries[q].cmd

LEMMA SameButTimesTrans ==
  ASSUME NEW t, NEW u, NEW v, SameButTimes(t, u), SameButTimes(u, v)
  PROVE  SameButTimes(t, v)
BY DEF SameButTimes

\* Such a change is well formed if the retries are within their budgets.
LEMMA SameButTimesInv ==
  ASSUME NEW t, TrackerInv(t), NEW u, SameButTimes(t, u),
         (u.state = "Opening" /\ u.openPending) => u.openSends <= MaxRetry,
         \A q \in Seqs : (u.entries[q].held /\ u.entries[q].pending) =>
                           u.entries[q].sends <= MaxRetry
  PROVE  TrackerInv(u) /\ SameCommands(t, u)
<1>1. ASSUME NEW q \in Seqs PROVE EntryInv(u, q)
  BY DEF TrackerInv, EntryInv, SameButTimes
<1>2. QED
  BY <1>1 DEF TrackerInv, SameButTimes, SameCommands

LEMMA SameButTimesStep ==
  ASSUME NEW t, TrackerInv(t), NEW u, SameButTimes(t, u), TrackerInv(u),
         NEW F
  PROVE  Progress(t, Nothing(u), F)
<1>1. SameCommands(t, u)
  BY DEF SameCommands, SameButTimes
<1>2. Hears(t, Nothing(u), F)
  BY DEF Hears, Nothing, SameButTimes
<1>3. QED
  BY <1>1, <1>2, QuietStep

LEMMA OpenWrittenStep ==
  ASSUME NEW t, TrackerInv(t), t.state = "Opening", t.openPending,
         NEW ok \in BOOLEAN, NEW F
  PROVE  Progress(t, Nothing(openWritten(t, ok)), F)
<1>1. CASE ~ok \/ t.openAge >= Lifetime
  BY <1>1, FailStep DEF openWritten
<1>2. CASE ok /\ ~(t.openAge >= Lifetime)
  <2> DEFINE u == [t EXCEPT !.openPending = FALSE]
             v == [u EXCEPT !.openSends = t.openSends + 1]
             w == [v EXCEPT !.openSentAge = 0]
  <2>1. t \in Tracker /\ t.openSends \in Nat /\ t.openSends <= MaxRetry
    BY TrackerFields DEF TrackerInv
  <2>2. /\ SameButTimes(t, u)
        /\ ~u.openPending
        /\ u.openSends = t.openSends
        /\ u.entries = t.entries
    BY <2>1 DEF Tracker, SameButTimes
  <2>3. SameButTimes(u, v) /\ ~v.openPending /\ v.entries = t.entries
    <3> HIDE DEF u
    <3>1. t.openSends + 1 \in 0 .. MaxRetry + 1
      BY <2>1, LimitsAssumption
    <3>2. QED
      BY <2>2, <3>1 DEF Tracker, SameButTimes
  <2>4. SameButTimes(v, w) /\ ~w.openPending /\ w.entries = t.entries
    <3> HIDE DEF v
    <3>1. QED
      BY <2>3 DEF Tracker, SameButTimes
  <2>5. openWritten(t, ok) = w
    <3>1. openWritten(t, ok) =
            [t EXCEPT !.openPending = FALSE, !.openSends = @ + 1,
                      !.openSentAge = 0]
      BY <1>2 DEF openWritten
    <3>2. u.openSends + 1 = t.openSends + 1
      BY <2>2
    <3>3. QED
      BY <3>1, <3>2
  <2> HIDE DEF u, v, w
  <2>6. SameButTimes(t, w)
    BY <2>2, <2>3, <2>4, SameButTimesTrans
  <2>7. TrackerInv(w)
    <3>1. \A q \in Seqs : (w.entries[q].held /\ w.entries[q].pending) =>
                            w.entries[q].sends <= MaxRetry
      BY <2>4 DEF TrackerInv, EntryInv
    <3>2. QED
      BY <2>4, <2>6, <3>1, SameButTimesInv
  <2>8. QED
    BY <2>5, <2>6, <2>7, SameButTimesStep
<1>3. QED
  BY <1>1, <1>2

LEMMA DataWrittenStep ==
  ASSUME NEW t, TrackerInv(t), NEW q \in Seqs, t.entries[q].held,
         t.entries[q].pending, NEW F
  PROVE  Progress(t, Nothing(dataWritten(t, q)), F)
<1> DEFINE u == [t EXCEPT !.entries[q].pending = FALSE]
           n == t.entries[q].sends + 1
           v == [u EXCEPT !.entries[q].sends = n]
           w == [v EXCEPT !.entries[q].sentAge = 0]
           Others(a) == /\ ~a.entries[q].pending
                        /\ a.openPending = t.openPending
                        /\ a.openSends = t.openSends
                        /\ \A p \in Seqs : p # q => a.entries[p] = t.entries[p]
<1>1. /\ t \in Tracker
      /\ t.entries \in [Seqs -> TrackerEntry]
      /\ t.entries[q] \in TrackerEntry
      /\ t.entries[q].sends \in Nat
      /\ t.entries[q].sends <= MaxRetry
  BY LimitsAssumption, TrackerFields DEF TrackerInv, EntryInv, TrackerEntry
<1>2. /\ SameButTimes(t, u)
      /\ Others(u)
      /\ u.entries[q].sends = t.entries[q].sends
  <2> DEFINE e == [t.entries[q] EXCEPT !.pending = FALSE]
  <2>1. /\ e \in TrackerEntry
        /\ e.held = t.entries[q].held
        /\ e.cmd = t.entries[q].cmd
        /\ e.sends = t.entries[q].sends
        /\ ~e.pending
    BY <1>1 DEF TrackerEntry
  <2>2. u = [t EXCEPT !.entries[q] = e]
    BY <1>1
  <2> HIDE DEF e, u
  <2>3. /\ u \in Tracker
        /\ u.entries = [t.entries EXCEPT ![q] = e]
    BY <1>1, <2>1, <2>2 DEF Tracker
  <2>4. /\ u.state = t.state
        /\ u.session = t.session
        /\ u.base = t.base
        /\ u.next = t.next
        /\ u.received = t.received
        /\ u.openPending = t.openPending
        /\ u.openSends = t.openSends
    BY <1>1, <2>2 DEF Tracker
  <2>5. u.entries[q] = e /\ \A p \in Seqs : p # q => u.entries[p] = t.entries[p]
    BY <1>1, <2>3
  <2>6. QED
    BY <2>1, <2>3, <2>4, <2>5 DEF SameButTimes
<1>3. n \in 0 .. MaxRetry + 1
  BY <1>1, LimitsAssumption
<1>4. SameButTimes(u, v) /\ Others(v)
  <2> DEFINE e == [u.entries[q] EXCEPT !.sends = n]
  <2> HIDE DEF u, n
  <2>1. u \in Tracker /\ u.entries \in [Seqs -> TrackerEntry]
    BY <1>2, TrackerFields DEF SameButTimes
  <2>2. /\ e \in TrackerEntry
        /\ e.held = u.entries[q].held
        /\ e.cmd = u.entries[q].cmd
        /\ ~e.pending
    BY <1>2, <1>3, <2>1 DEF TrackerEntry
  <2>3. v = [u EXCEPT !.entries[q] = e]
    BY <2>1
  <2> HIDE DEF e, v
  <2>4. /\ v \in Tracker
        /\ v.entries = [u.entries EXCEPT ![q] = e]
    BY <2>1, <2>2, <2>3 DEF Tracker
  <2>5. /\ v.state = u.state
        /\ v.session = u.session
        /\ v.base = u.base
        /\ v.next = u.next
        /\ v.received = u.received
        /\ v.openPending = u.openPending
        /\ v.openSends = u.openSends
    BY <2>1, <2>3 DEF Tracker
  <2>6. v.entries[q] = e /\ \A p \in Seqs : p # q => v.entries[p] = u.entries[p]
    BY <2>1, <2>4
  <2>7. QED
    BY <1>2, <2>2, <2>4, <2>5, <2>6 DEF SameButTimes
<1>5. SameButTimes(v, w) /\ Others(w)
  <2> DEFINE e == [v.entries[q] EXCEPT !.sentAge = 0]
  <2> HIDE DEF v
  <2>1. v \in Tracker /\ v.entries \in [Seqs -> TrackerEntry]
    BY <1>4, TrackerFields DEF SameButTimes
  <2>2. /\ e \in TrackerEntry
        /\ e.held = v.entries[q].held
        /\ e.cmd = v.entries[q].cmd
        /\ ~e.pending
    BY <1>4, <2>1 DEF TrackerEntry
  <2>3. w = [v EXCEPT !.entries[q] = e]
    BY <2>1
  <2> HIDE DEF e, w
  <2>4. /\ w \in Tracker
        /\ w.entries = [v.entries EXCEPT ![q] = e]
    BY <2>1, <2>2, <2>3 DEF Tracker
  <2>5. /\ w.state = v.state
        /\ w.session = v.session
        /\ w.base = v.base
        /\ w.next = v.next
        /\ w.received = v.received
        /\ w.openPending = v.openPending
        /\ w.openSends = v.openSends
    BY <2>1, <2>3 DEF Tracker
  <2>6. w.entries[q] = e /\ \A p \in Seqs : p # q => w.entries[p] = v.entries[p]
    BY <2>1, <2>4
  <2>7. QED
    BY <1>4, <2>2, <2>4, <2>5, <2>6 DEF SameButTimes
<1>6. dataWritten(t, q) = w
  <2>1. u.entries[q].sends + 1 = n
    BY <1>2
  <2>2. QED
    BY <2>1 DEF dataWritten
<1> HIDE DEF u, v, w
<1>7. SameButTimes(t, w)
  BY <1>2, <1>4, <1>5, SameButTimesTrans
<1>8. TrackerInv(w)
  <2>1. \A p \in Seqs : (w.entries[p].held /\ w.entries[p].pending) =>
                          w.entries[p].sends <= MaxRetry
    BY <1>5 DEF TrackerInv, EntryInv
  <2>2. (w.state = "Opening" /\ w.openPending) => w.openSends <= MaxRetry
    BY <1>5, <1>7 DEF TrackerInv, SameButTimes
  <2>3. QED
    BY <1>7, <2>1, <2>2, SameButTimesInv
<1>9. QED
  BY <1>6, <1>7, <1>8, SameButTimesStep

LEMMA SendTypes ==
  ASSUME NEW s \in CommandSend
  PROVE  /\ s.type \in {"OPEN", "COMMAND", "RESULT_ACK"}
         /\ s.session \in UsedSession
         /\ s.type # "OPEN" => s.seq \in Seqs
         /\ s.type = "COMMAND" => s.cmd \in Command
BY DEF CommandSend, OpenSend, DataSend, AckSend

(***************************************************************************)
(* onWritten(), whatever frame has been written or dropped.                *)
(***************************************************************************)
LEMMA OnWrittenStep ==
  ASSUME NEW t, TrackerInv(t), NEW s \in CommandSend, NEW ok \in BOOLEAN
  PROVE  Progress(t, onWritten(t, s, ok), {})
<1>1. CASE s.session # t.session \/ s.type = "RESULT_ACK"
  BY <1>1, NothingStep DEF onWritten
<1>2. CASE ~(s.session # t.session \/ s.type = "RESULT_ACK") /\ s.type = "OPEN"
  BY <1>2, NothingStep, OpenWrittenStep DEF onWritten, OpenAwaited
<1>3. CASE ~(s.session # t.session \/ s.type = "RESULT_ACK") /\ s.type # "OPEN"
  <2>1. s.seq \in Seqs
    BY <1>3, SendTypes
  <2>2. CASE ~DataAwaited(t, s)
    BY <1>3, <2>2, NothingStep DEF onWritten
  <2>3. CASE DataAwaited(t, s)
    <3>1. t.entries[s.seq].held /\ t.entries[s.seq].pending
      BY <2>3 DEF DataAwaited
    <3>2. "timeout" \in Reason /\ "send_failed" \in Reason
      BY DEF Reason
    <3>3. CASE t.entries[s.seq].age >= Lifetime
      BY <1>3, <2>3, <3>2, <3>3, AbortStep DEF onWritten
    <3>4. CASE ~(t.entries[s.seq].age >= Lifetime) /\ ~ok
      BY <1>3, <2>3, <3>2, <3>4, AbortStep DEF onWritten
    <3>5. CASE ~(t.entries[s.seq].age >= Lifetime) /\ ok
      BY <1>3, <2>1, <2>3, <3>1, <3>5, DataWrittenStep DEF onWritten
    <3>6. QED
      BY <3>3, <3>4, <3>5
  <2>4. QED
    BY <2>2, <2>3
<1>4. QED
  BY <1>1, <1>2, <1>3

-----------------------------------------------------------------------------
\* A set of numbers that is not empty has a least one.
LEMMA LeastNumber ==
  ASSUME NEW S, S \subseteq Nat, S # {}
  PROVE  \E m \in S : \A n \in S : m <= n
<1>1. PICK m \in S : \A n \in S : <<n, m>> \notin OpToRel(<, Nat)
  BY NatLessThanWellFounded, WFMin
<1>2. ASSUME NEW n \in S PROVE m <= n
  <2>1. m \in Nat /\ n \in Nat
    OBVIOUS
  <2>2. ASSUME n < m PROVE FALSE
    <3>1. <<n, m>> \in Nat \X Nat /\ <<n, m>>[1] < <<n, m>>[2]
      BY <2>1, <2>2
    <3>2. <<n, m>> \in OpToRel(<, Nat)
      BY <3>1, Zenon DEF OpToRel
    <3>3. QED
      BY <1>1, <3>2
  <2>3. QED
    BY <2>1, <2>2
<1>3. QED
  BY <1>2

(***************************************************************************)
(* The window's edge exists: it is the first number not received, or next. *)
(***************************************************************************)
LEMMA EdgeFacts ==
  ASSUME NEW received \in [Seqs -> BOOLEAN],
         NEW base \in 0 .. SeqSpace, NEW next \in 0 .. SeqSpace, base <= next
  PROVE  /\ Edge(received, base, next) \in base .. next
         /\ \A q \in base .. Edge(received, base, next) - 1 : received[q]
<1> DEFINE Is(b) == /\ b < next => ~received[b]
                    /\ \A q \in base .. b - 1 : received[q]
           S == {q \in base .. next - 1 : ~received[q]}
<1>1. \E b \in base .. next : Is(b)
  <2>1. CASE S = {}
    <3>1. next \in base .. next /\ Is(next)
      BY <2>1, LimitsAssumption
    <3>2. QED
      BY <3>1
  <2>2. CASE S # {}
    <3>1. S \subseteq Nat
      OBVIOUS
    <3>2. PICK b \in S : \A n \in S : b <= n
      BY <2>2, <3>1, LeastNumber
    <3>3. b \in base .. next /\ b < next /\ ~received[b] /\ b \in Nat
      BY LimitsAssumption
    <3>4. ASSUME NEW q \in base .. b - 1 PROVE received[q]
      <4>1. q \in base .. next - 1 /\ ~(b <= q)
        BY <3>3, LimitsAssumption
      <4>2. q \notin S
        BY <3>2, <4>1
      <4>3. q \in Seqs
        BY <4>1, LimitsAssumption DEF Seqs
      <4>4. QED
        BY <4>1, <4>2, <4>3
    <3>5. QED
      BY <3>3, <3>4
  <2>3. QED
    BY <2>1, <2>2
<1>2. Edge(received, base, next) = CHOOSE b \in base .. next : Is(b)
  BY DEF Edge
<1> HIDE DEF Is
<1>3. /\ Edge(received, base, next) \in base .. next
      /\ Is(Edge(received, base, next))
  BY <1>1, <1>2
<1>4. QED
  BY <1>3 DEF Is

\* receive(): the flag and the edge move, nothing else.
LEMMA ReceiveFacts ==
  ASSUME NEW t, TrackerInv(t), NEW p \in Seqs, p < t.next
  PROVE  /\ TrackerInv(receive(t, p))
         /\ receive(t, p).state = t.state
         /\ receive(t, p).session = t.session
         /\ receive(t, p).next = t.next
         /\ receive(t, p).entries = t.entries
         /\ \A q \in Seqs : receive(t, p).received[q] <=> t.received[q] \/ q = p
<1> DEFINE rc == [t.received EXCEPT ![p] = TRUE]
           b == Edge(rc, t.base, t.next)
           u == [t EXCEPT !.received = rc]
           v == [u EXCEPT !.base = b]
<1>1. /\ t \in Tracker
      /\ t.received \in [Seqs -> BOOLEAN]
      /\ t.base \in 0 .. SeqSpace
      /\ t.next \in 0 .. SeqSpace
      /\ t.base <= t.next
      /\ t.next <= t.base + Window
  BY TrackerFields DEF TrackerInv
<1>2. /\ rc \in [Seqs -> BOOLEAN]
      /\ \A q \in Seqs : rc[q] <=> t.received[q] \/ q = p
  BY <1>1
<1>3. receive(t, p) = v
  BY DEF receive
<1> HIDE DEF rc
<1>4. /\ b \in t.base .. t.next
      /\ \A q \in t.base .. b - 1 : rc[q]
  BY <1>1, <1>2, EdgeFacts
<1> HIDE DEF b
<1>5. /\ u \in Tracker
      /\ u.state = t.state
      /\ u.session = t.session
      /\ u.next = t.next
      /\ u.entries = t.entries
      /\ u.received = rc
      /\ u.openPending = t.openPending
      /\ u.openSends = t.openSends
  BY <1>1, <1>2 DEF Tracker
<1> HIDE DEF u
<1>6. b \in 0 .. SeqSpace /\ b \in Nat /\ t.base <= b /\ b <= t.next
  BY <1>1, <1>4, LimitsAssumption
<1>7. /\ v \in Tracker
      /\ v.state = t.state
      /\ v.session = t.session
      /\ v.next = t.next
      /\ v.entries = t.entries
      /\ v.received = rc
      /\ v.openPending = t.openPending
      /\ v.openSends = t.openSends
      /\ v.base = b
  BY <1>5, <1>6 DEF Tracker
<1> HIDE DEF v
<1>8. ASSUME NEW q \in Seqs PROVE EntryInv(v, q)
  <2>1. v.entries[q].held =>
          /\ v.state = "Ready"
          /\ q < v.next
          /\ v.entries[q].cmd \in Command
          /\ v.entries[q].pending => v.entries[q].sends <= MaxRetry
    BY <1>7 DEF TrackerInv, EntryInv
  <2>2. v.received[q] => q < v.next
    BY <1>2, <1>7 DEF TrackerInv, EntryInv
  <2>3. ASSUME q < v.base PROVE v.received[q]
    <3>1. CASE q < t.base
      BY <1>2, <1>7, <3>1 DEF TrackerInv, EntryInv
    <3>2. CASE ~(q < t.base)
      <4>1. q \in t.base .. b - 1
        BY <1>1, <1>6, <1>7, <2>3, <3>2, LimitsAssumption DEF Seqs
      <4>2. QED
        BY <1>4, <1>7, <4>1
    <3>3. QED
      BY <3>1, <3>2
  <2>4. QED
    BY <2>1, <2>2, <2>3 DEF EntryInv
<1>9. TrackerInv(v)
  <2>1. v.base <= v.next /\ v.next <= v.base + Window
    BY <1>1, <1>6, <1>7, LimitsAssumption
  <2>2. QED
    BY <1>7, <1>8, <2>1 DEF TrackerInv
<1>10. QED
  BY <1>2, <1>3, <1>7, <1>9

LEMMA OnReceivedStep ==
  ASSUME NEW t, TrackerInv(t), NEW f \in UpFrame, f.type = "RECEIVED",
         f.session = t.session
  PROVE  Progress(t, onReceived(t, f), {f})
<1>1. CASE t.state = "Ready" /\ f.seq < t.next /\ Sent(t, f.seq)
  <2> DEFINE u == receive(t, f.seq)
  <2>1. f.seq \in Seqs
    BY ReceivedFrameType
  <2>2. /\ TrackerInv(u)
        /\ u.state = t.state
        /\ u.session = t.session
        /\ u.next = t.next
        /\ u.entries = t.entries
        /\ \A q \in Seqs : u.received[q] <=> t.received[q] \/ q = f.seq
    BY <1>1, <2>1, ReceiveFacts
  <2>3. onReceived(t, f) = Nothing(u)
    BY <1>1 DEF onReceived
  <2> HIDE DEF u
  <2>4. SameCommands(t, u)
    BY <2>2 DEF SameCommands
  <2>5. Answers({f}, u.session, f.seq)
    BY <2>2 DEF Answers
  <2>6. Hears(t, Nothing(u), {f})
    BY <2>2, <2>5 DEF Hears, Nothing
  <2>7. QED
    BY <2>2, <2>3, <2>4, <2>6, QuietStep
<1>2. CASE ~(t.state = "Ready" /\ f.seq < t.next /\ Sent(t, f.seq))
  BY <1>2, NothingStep DEF onReceived
<1>3. QED
  BY <1>1, <1>2

-----------------------------------------------------------------------------
\* Nothing is held or received while the session is being opened.
LEMMA OpeningIsEmpty ==
  ASSUME NEW t, TrackerInv(t), t.state = "Opening"
  PROVE  /\ t.session # 0
         /\ t.next = 0
         /\ \A q \in Seqs : ~t.entries[q].held /\ ~t.received[q]
BY LimitsAssumption DEF TrackerInv, EntryInv, Seqs

\* An OPEN is sent again, for the same session or for a higher one.
LEMMA OpenAgainStep ==
  ASSUME NEW t, TrackerInv(t), t.state = "Opening",
         NEW u, TrackerInv(u), u.state = "Opening", t.session <= u.session,
         NEW v \in Tracker, v.session # 0, NEW F
  PROVE  Progress(t, [t |-> u, send |-> <<openSend(v)>>, finished |-> {}], F)
<1> DEFINE r == [t |-> u, send |-> <<openSend(v)>>, finished |-> {}]
<1>1. r.t = u /\ r.send = <<openSend(v)>> /\ r.finished = {}
  OBVIOUS
<1> HIDE DEF r
<1>2. openSend(v) \in CommandSend /\ openSend(v).type = "OPEN"
  BY OpenSendType
<1>3. /\ <<openSend(v)>> \in Seq(CommandSend)
      /\ \A i \in DOMAIN <<openSend(v)>> : <<openSend(v)>>[i].type = "OPEN"
  BY <1>2
<1>4. Finishes(t, r, F) /\ Keeps(t, r)
  BY <1>1, OpeningIsEmpty DEF Finishes, Keeps
<1>5. SendsHeld(r)
  BY <1>1, <1>3 DEF SendsHeld
<1>6. Hears(t, r, F)
  BY <1>1, OpeningIsEmpty DEF Hears
<1>7. Forward(t, r)
  BY <1>1, OpeningIsEmpty DEF Forward
<1>8. Progress(t, r, F)
  BY <1>1, <1>4, <1>5, <1>6, <1>7 DEF Progress
<1>9. QED
  BY <1>8 DEF r

LEMMA OpenAckType ==
  ASSUME NEW f \in UpFrame, f.type = "OPEN_ACK"
  PROVE  /\ f.session \in UsedSession
         /\ f.highWater \in Session
         /\ f.rc \in {"OK", "BAD_PARAM"}
BY DEF UpFrame, OpenAckFrame, ReceivedFrame, ResultFrame

LEMMA OnOpenAckStep ==
  ASSUME NEW t, TrackerInv(t), NEW f \in UpFrame, f.type = "OPEN_ACK",
         f.session = t.session
  PROVE  Progress(t, onOpenAck(t, f), {f})
<1>0. t \in Tracker /\ t.session \in Nat /\ t.openSends \in 0 .. MaxRetry + 1
  BY TrackerFields DEF TrackerInv
<1>1. CASE t.state # "Opening" \/ t.openSends = 0
  BY <1>1, NothingStep DEF onOpenAck
<1>2. CASE t.state = "Opening" /\ t.openSends # 0 /\ t.openAge >= Lifetime
  BY <1>2, FailStep DEF onOpenAck
<1>3. CASE /\ t.state = "Opening" /\ t.openSends # 0 /\ ~(t.openAge >= Lifetime)
           /\ f.rc = "OK" /\ f.highWater = t.session
  <2> DEFINE u == handshakeOver(t, "Ready")
  <2>1. onOpenAck(t, f) = Nothing(u)
    BY <1>3 DEF onOpenAck
  <2>2. /\ u \in Tracker
        /\ u.state = "Ready"
        /\ u.session = t.session
        /\ u.base = t.base
        /\ u.next = t.next
        /\ u.entries = t.entries
        /\ u.received = t.received
    BY <1>0, HandshakeFields
  <2> HIDE DEF u
  <2>3. ASSUME NEW q \in Seqs PROVE EntryInv(u, q)
    BY <2>2 DEF TrackerInv, EntryInv
  <2>4. TrackerInv(u)
    BY <1>3, <2>2, <2>3 DEF TrackerInv
  <2>5. SameCommands(t, u)
    BY <2>2 DEF SameCommands
  <2>6. Hears(t, Nothing(u), {f})
    BY <1>3, <2>2 DEF Hears, Nothing
  <2>7. QED
    BY <2>1, <2>4, <2>5, <2>6, QuietStep
<1>4. CASE /\ t.state = "Opening" /\ t.openSends # 0 /\ ~(t.openAge >= Lifetime)
           /\ ~(f.rc = "OK" /\ f.highWater = t.session)
           /\ f.rc = "BAD_PARAM" /\ f.highWater >= t.session
  <2>1. CASE f.highWater = MaxSession \/ t.openSends > MaxRetry
    BY <1>4, <2>1, FailStep DEF onOpenAck
  <2>2. CASE ~(f.highWater = MaxSession \/ t.openSends > MaxRetry)
    <3> DEFINE n == f.highWater + 1
               u == [t EXCEPT !.session = n]
               v == [u EXCEPT !.openPending = TRUE]
    <3>1. f.highWater \in Nat /\ n \in Session /\ n # 0 /\ t.session <= n
      BY <1>0, <1>4, <2>2, OpenAckType, LimitsAssumption DEF Session
    <3>2. onOpenAck(t, f) =
            [t |-> v, send |-> <<openSend(v)>>, finished |-> {}]
      BY <1>4, <2>2 DEF onOpenAck
    <3> HIDE DEF n
    <3>3. /\ u \in Tracker
          /\ u.session = n
          /\ u.state = t.state
          /\ u.base = t.base
          /\ u.next = t.next
          /\ u.entries = t.entries
          /\ u.received = t.received
          /\ u.openSends = t.openSends
      BY <1>0, <3>1 DEF Tracker
    <3> HIDE DEF u
    <3>4. /\ v \in Tracker
          /\ v.session = n
          /\ v.state = t.state
          /\ v.base = t.base
          /\ v.next = t.next
          /\ v.entries = t.entries
          /\ v.received = t.received
          /\ v.openSends = t.openSends
      BY <3>3 DEF Tracker
    <3> HIDE DEF v
    <3>5. ASSUME NEW q \in Seqs PROVE EntryInv(v, q)
      BY <3>4 DEF TrackerInv, EntryInv
    <3>6. v.openSends <= MaxRetry
      BY <1>0, <2>2, <3>4, LimitsAssumption
    <3>7. TrackerInv(v)
      BY <3>1, <3>4, <3>5, <3>6 DEF TrackerInv
    <3>8. QED
      BY <1>4, <3>1, <3>2, <3>4, <3>7, OpenAgainStep
  <2>3. QED
    BY <2>1, <2>2
<1>5. CASE /\ t.state = "Opening" /\ t.openSends # 0 /\ ~(t.openAge >= Lifetime)
           /\ ~(f.rc = "OK" /\ f.highWater = t.session)
           /\ ~(f.rc = "BAD_PARAM" /\ f.highWater >= t.session)
  BY <1>5, NothingStep DEF onOpenAck
<1>6. QED
  BY <1>1, <1>2, <1>3, <1>4, <1>5

-----------------------------------------------------------------------------
LEMMA ResultFrameType ==
  ASSUME NEW f \in UpFrame, f.type = "RESULT"
  PROVE  /\ f.session \in UsedSession
         /\ f.seq \in Seqs
         /\ f.op \in Op
         /\ f.result \in Result
BY DEF UpFrame, OpenAckFrame, ReceivedFrame, ResultFrame

LEMMA ResultAckType ==
  ASSUME NEW t \in Tracker, t.session # 0, NEW q \in Seqs
  PROVE  /\ <<resultAck(t, q)>> \in Seq(CommandSend)
         /\ \A i \in DOMAIN <<resultAck(t, q)>> :
              <<resultAck(t, q)>>[i].type = "RESULT_ACK"
<1>1. resultAck(t, q) \in CommandSend /\ resultAck(t, q).type = "RESULT_ACK"
  BY TrackerFields DEF resultAck, CommandSend, AckSend, UsedSession
<1>2. QED
  BY <1>1

\* A result is taken: its command is no longer held.
LEMMA CompleteFacts ==
  ASSUME NEW t, TrackerInv(t), NEW p \in Seqs, p < t.next
  PROVE  LET u == [receive(t, p) EXCEPT !.completed[p] = TRUE,
                                        !.entries[p] = NoEntry]
         IN /\ TrackerInv(u)
            /\ u.state = t.state
            /\ u.session = t.session
            /\ u.next = t.next
            /\ \A q \in Seqs :
                 /\ u.entries[q] = IF q = p THEN NoEntry ELSE t.entries[q]
                 /\ u.received[q] <=> t.received[q] \/ q = p
<1> DEFINE m == receive(t, p)
           c == [m EXCEPT !.completed[p] = TRUE]
           u == [c EXCEPT !.entries[p] = NoEntry]
<1>1. /\ TrackerInv(m)
      /\ m.state = t.state
      /\ m.session = t.session
      /\ m.next = t.next
      /\ m.entries = t.entries
      /\ \A q \in Seqs : m.received[q] <=> t.received[q] \/ q = p
  BY ReceiveFacts
<1> HIDE DEF m
<1>2. m \in Tracker
  BY <1>1 DEF TrackerInv
<1>3. /\ c \in Tracker
      /\ c.state = m.state
      /\ c.session = m.session
      /\ c.base = m.base
      /\ c.next = m.next
      /\ c.entries = m.entries
      /\ c.received = m.received
      /\ c.openSends = m.openSends
      /\ c.openPending = m.openPending
  BY <1>2 DEF Tracker
<1> HIDE DEF c
<1>4. /\ u \in Tracker
      /\ u.state = m.state
      /\ u.session = m.session
      /\ u.base = m.base
      /\ u.next = m.next
      /\ u.received = m.received
      /\ u.openSends = m.openSends
      /\ u.openPending = m.openPending
  BY <1>3, NoEntryType DEF Tracker
<1>5. u.entries = [m.entries EXCEPT ![p] = NoEntry]
  BY <1>3 DEF Tracker
<1>6. m.entries \in [Seqs -> TrackerEntry]
  BY <1>2, TrackerFields
<1> HIDE DEF u
<1>7. \A q \in Seqs : u.entries[q] = IF q = p THEN NoEntry ELSE m.entries[q]
  BY <1>5, <1>6
<1>8. ASSUME NEW q \in Seqs PROVE EntryInv(u, q)
  BY <1>1, <1>4, <1>7, NoEntryType DEF TrackerInv, EntryInv
<1>9. TrackerInv(u)
  BY <1>1, <1>4, <1>8 DEF TrackerInv
<1>10. QED
  BY <1>1, <1>4, <1>7, <1>9 DEF u, c, m

\* Two queues of frames other than COMMANDs make such a queue.
LEMMA ConcatSends ==
  ASSUME NEW a \in Seq(CommandSend), NEW b \in Seq(CommandSend),
         \A i \in DOMAIN a : a[i].type # "COMMAND",
         \A i \in DOMAIN b : b[i].type # "COMMAND"
  PROVE  /\ a \o b \in Seq(CommandSend)
         /\ \A i \in DOMAIN (a \o b) : (a \o b)[i].type # "COMMAND"
<1>1. a \o b \in Seq(CommandSend) /\ Len(a \o b) = Len(a) + Len(b)
  OBVIOUS
<1>2. ASSUME NEW i \in 1 .. Len(a) + Len(b)
      PROVE  (a \o b)[i].type # "COMMAND"
  <2>1. CASE i <= Len(a)
    BY <2>1
  <2>2. CASE ~(i <= Len(a))
    <3>1. i - Len(a) \in DOMAIN b /\ (a \o b)[i] = b[i - Len(a)]
      BY <2>2
    <3>2. QED
      BY <3>1
  <2>3. QED
    BY <2>1, <2>2
<1>3. QED
  BY <1>1, <1>2

LEMMA CompleteStep ==
  ASSUME NEW t, TrackerInv(t), t.state = "Ready", NEW f \in UpFrame,
         f.type = "RESULT", f.session = t.session, f.seq < t.next,
         t.entries[f.seq].held
  PROVE  Progress(t, completeCommand(t, f), {f})
<1> DEFINE p == f.seq
           u == [receive(t, p) EXCEPT !.completed[p] = TRUE,
                                      !.entries[p] = NoEntry]
           d == [seq |-> p, outcome |-> f.result]
           ack == <<resultAck(u, p)>>
           b == begin(u, u.session)
           r == completeCommand(t, f)
<1>1. p \in Seqs /\ f.result \in Result
  BY ResultFrameType
<1>2. /\ TrackerInv(u)
      /\ u.state = t.state
      /\ u.session = t.session
      /\ u.next = t.next
      /\ \A q \in Seqs :
           /\ u.entries[q] = IF q = p THEN NoEntry ELSE t.entries[q]
           /\ u.received[q] <=> t.received[q] \/ q = p
  BY <1>1, CompleteFacts, ZenonT(30)
<1>3. r = rollover(u, ack, {d})
  BY DEF completeCommand
<1>4. d \in Completion /\ d.seq = p /\ d.outcome = f.result
  BY <1>1, CompletionType
<1> HIDE DEF u, d
<1>5. u \in Tracker /\ u.session # 0 /\ u.session \in Session
  BY <1>2, TrackerFields DEF TrackerInv
<1>6. /\ ack \in Seq(CommandSend)
      /\ \A i \in DOMAIN ack : ack[i].type = "RESULT_ACK"
  BY <1>1, <1>5, ResultAckType
<1>7. t.session \in Nat /\ t.next \in Nat
  BY TrackerFields DEF TrackerInv
<1>8. Answers({f}, t.session, p)
  BY DEF Answers
<1>9. \A q \in Seqs : /\ u.entries[q].held <=> t.entries[q].held /\ q # p
                      /\ u.entries[q].held =>
                           u.entries[q].cmd = t.entries[q].cmd
  BY <1>2, NoEntryType
<1>10. r.finished = {d}
  BY <1>3 DEF rollover
<1>11. Finishes(t, r, {f})
  BY <1>4, <1>10 DEF Finishes
<1>12. CASE u.next = SeqSpace /\ HeldSeqs(u) = {}
  <2>1. \A q \in Seqs : ~u.entries[q].held
    BY <1>12 DEF HeldSeqs
  <2>2. r.t = b.t /\ r.send = ack \o b.send
    BY <1>3, <1>12 DEF rollover
  <2>3. /\ TrackerInv(b.t)
        /\ b.send \in Seq(CommandSend)
        /\ \A i \in DOMAIN b.send : b.send[i].type = "OPEN"
        /\ \A q \in Seqs : ~b.t.entries[q].held
        /\ b.t.state # "Ready"
        /\ \A q \in Seqs : b.t.received[q] =>
             u.received[q] /\ b.t.session = u.session
        /\ u.session <= b.t.session
        /\ b.t.session = u.session => u.next <= b.t.next
    BY <1>2, <1>5, <2>1, BeginStep
  <2> HIDE DEF b, r, ack
  <2>4. /\ r.send \in Seq(CommandSend)
        /\ \A i \in DOMAIN r.send : r.send[i].type # "COMMAND"
    BY <1>6, <2>2, <2>3, ConcatSends
  <2>5. SendsHeld(r)
    BY <2>4 DEF SendsHeld
  <2>6. Keeps(t, r)
    BY <1>4, <1>9, <1>10, <2>1, <2>2, <2>3 DEF Keeps
  <2>7. Hears(t, r, {f})
    BY <1>2, <1>8, <2>2, <2>3 DEF Hears
  <2>8. Forward(t, r)
    BY <1>2, <2>2, <2>3 DEF Forward
  <2>9. Progress(t, r, {f})
    BY <1>11, <2>2, <2>3, <2>5, <2>6, <2>7, <2>8 DEF Progress
  <2>10. QED
    BY <2>9 DEF r
<1>13. CASE ~(u.next = SeqSpace /\ HeldSeqs(u) = {})
  <2>1. r.t = u /\ r.send = ack
    BY <1>3, <1>13 DEF rollover
  <2> HIDE DEF b, r, ack
  <2>2. SendsHeld(r)
    BY <1>6, <2>1 DEF SendsHeld
  <2>3. Keeps(t, r)
    BY <1>2, <1>4, <1>9, <1>10, <2>1 DEF Keeps
  <2>4. Hears(t, r, {f})
    BY <1>2, <1>8, <2>1 DEF Hears
  <2>5. Forward(t, r)
    BY <1>2, <1>7, <2>1 DEF Forward
  <2>6. Progress(t, r, {f})
    BY <1>2, <1>11, <2>1, <2>2, <2>3, <2>4, <2>5 DEF Progress
  <2>7. QED
    BY <2>6 DEF r
<1>14. QED
  BY <1>12, <1>13

LEMMA OnResultStep ==
  ASSUME NEW t, TrackerInv(t), NEW f \in UpFrame, f.type = "RESULT",
         f.session = t.session
  PROVE  Progress(t, onResult(t, f), {f})
<1> DEFINE Refused == \/ t.state # "Ready"
                      \/ f.seq >= t.next
                      \/ f.op # t.types[f.seq]
                      \/ ~resultValid(f.result)
<1>0. /\ f.seq \in Seqs
      /\ t \in Tracker
      /\ t.next \in Nat
      /\ t.session \in Nat
      /\ f.seq \in Nat
  BY ResultFrameType, TrackerFields, LimitsAssumption DEF TrackerInv, Seqs
<1>1. CASE Refused
  BY <1>1, NothingStep DEF onResult
<1>2. CASE ~Refused /\ t.completed[f.seq]
  <2> DEFINE r == [t |-> t, send |-> <<resultAck(t, f.seq)>>,
                   finished |-> {}]
  <2>1. onResult(t, f) = r
    BY <1>2 DEF onResult
  <2>2. r.t = t /\ r.send = <<resultAck(t, f.seq)>> /\ r.finished = {}
    OBVIOUS
  <2>3. t.session # 0
    BY <1>2 DEF TrackerInv
  <2> HIDE DEF r
  <2>4. /\ r.send \in Seq(CommandSend)
        /\ \A i \in DOMAIN r.send : r.send[i].type = "RESULT_ACK"
    BY <1>0, <2>2, <2>3, ResultAckType
  <2>5. SendsHeld(r)
    BY <2>4 DEF SendsHeld
  <2>6. Finishes(t, r, {f}) /\ Keeps(t, r) /\ Hears(t, r, {f})
    BY <2>2 DEF Finishes, Keeps, Hears
  <2>7. Forward(t, r)
    BY <1>0, <2>2 DEF Forward
  <2>8. QED
    BY <2>1, <2>2, <2>5, <2>6, <2>7 DEF Progress
<1>3. CASE ~Refused /\ ~t.completed[f.seq] /\ Sent(t, f.seq)
  <2>1. onResult(t, f) = completeCommand(t, f)
    BY <1>3 DEF onResult
  <2>2. t.state = "Ready" /\ f.seq < t.next /\ t.entries[f.seq].held
    BY <1>0, <1>3 DEF Sent
  <2>3. QED
    BY <2>1, <2>2, CompleteStep
<1>4. CASE ~Refused /\ ~t.completed[f.seq] /\ ~Sent(t, f.seq)
  BY <1>4, NothingStep DEF onResult
<1>5. QED
  BY <1>1, <1>2, <1>3, <1>4

(***************************************************************************)
(* onFrame(), whatever frame of the node is received.                      *)
(***************************************************************************)
LEMMA OnFrameProgress ==
  ASSUME NEW t, TrackerInv(t), NEW f \in UpFrame
  PROVE  Progress(t, onFrame(t, f), {f})
<1>1. f.type \in {"OPEN_ACK", "RECEIVED", "RESULT"}
  BY DEF UpFrame, OpenAckFrame, ReceivedFrame, ResultFrame
<1>2. CASE f.session # t.session
  BY <1>2, NothingStep DEF onFrame
<1>3. CASE f.session = t.session /\ f.type = "OPEN_ACK"
  BY <1>3, OnOpenAckStep DEF onFrame
<1>4. CASE f.session = t.session /\ f.type = "RECEIVED"
  BY <1>4, OnReceivedStep DEF onFrame
<1>5. CASE f.session = t.session /\ f.type = "RESULT"
  BY <1>5, OnResultStep DEF onFrame
<1>6. QED
  BY <1>1, <1>2, <1>3, <1>4, <1>5

-----------------------------------------------------------------------------
LEMMA DataSendType ==
  ASSUME NEW t, TrackerInv(t), NEW q \in Seqs, t.entries[q].held
  PROVE  /\ dataSend(t, q) \in CommandSend
         /\ dataSend(t, q).type = "COMMAND"
         /\ dataSend(t, q).seq = q
         /\ dataSend(t, q).session = t.session
         /\ dataSend(t, q).cmd = t.entries[q].cmd
<1>1. /\ t.session \in UsedSession
      /\ t.entries[q] \in TrackerEntry
      /\ t.entries[q].cmd \in Command
  BY TrackerFields DEF TrackerInv, EntryInv, UsedSession
<1>2. t.entries[q].sends \in Nat
  BY <1>1, LimitsAssumption DEF TrackerEntry
<1>3. QED
  BY <1>1, <1>2 DEF dataSend, CommandSend, DataSend

\* New ages or another transmission of some of the commands in flight.
LEMMA RetouchEntries ==
  ASSUME NEW t, TrackerInv(t), NEW es \in [Seqs -> TrackerEntry],
         \A q \in Seqs : /\ es[q].held <=> t.entries[q].held
                         /\ es[q].cmd = t.entries[q].cmd
                         /\ (es[q].held /\ es[q].pending) =>
                              es[q].sends <= MaxRetry
  PROVE  /\ SameButTimes(t, [t EXCEPT !.entries = es])
         /\ TrackerInv([t EXCEPT !.entries = es])
         /\ [t EXCEPT !.entries = es].entries = es
<1> DEFINE u == [t EXCEPT !.entries = es]
<1>1. t \in Tracker
  BY DEF TrackerInv
<1>2. /\ u \in Tracker
      /\ u.state = t.state
      /\ u.session = t.session
      /\ u.base = t.base
      /\ u.next = t.next
      /\ u.entries = es
      /\ u.received = t.received
      /\ u.openSends = t.openSends
      /\ u.openPending = t.openPending
  BY <1>1 DEF Tracker
<1> HIDE DEF u
<1>3. SameButTimes(t, u)
  BY <1>2 DEF SameButTimes
<1>4. (u.state = "Opening" /\ u.openPending) => u.openSends <= MaxRetry
  BY <1>2 DEF TrackerInv
<1>5. TrackerInv(u)
  BY <1>2, <1>3, <1>4, SameButTimesInv
<1>6. QED
  BY <1>2, <1>3, <1>5 DEF u

LEMMA TickOpeningStep ==
  ASSUME NEW t, TrackerInv(t), t.state = "Opening"
  PROVE  Progress(t, tickOpening(t), {})
<1>1. CASE t.openAge >= Lifetime
  BY <1>1, FailStep DEF tickOpening
<1>2. CASE ~(t.openAge >= Lifetime) /\ (t.openPending \/ t.openSentAge < AckTimeout)
  BY <1>2, NothingStep DEF tickOpening
<1>3. CASE /\ ~(t.openAge >= Lifetime)
           /\ ~(t.openPending \/ t.openSentAge < AckTimeout)
           /\ t.openSends > MaxRetry
  BY <1>3, FailStep DEF tickOpening
<1>4. CASE /\ ~(t.openAge >= Lifetime)
           /\ ~(t.openPending \/ t.openSentAge < AckTimeout)
           /\ ~(t.openSends > MaxRetry)
  <2> DEFINE u == [t EXCEPT !.openPending = TRUE]
  <2>1. t \in Tracker /\ t.openSends \in Nat /\ t.session \in Nat
    BY TrackerFields DEF TrackerInv
  <2>2. tickOpening(t) =
          [t |-> u, send |-> <<openSend(t)>>, finished |-> {}]
    BY <1>4 DEF tickOpening
  <2>3. /\ SameButTimes(t, u)
        /\ u.entries = t.entries
        /\ u.openSends = t.openSends
    BY <2>1 DEF Tracker, SameButTimes
  <2> HIDE DEF u
  <2>4. u.openSends <= MaxRetry
    BY <1>4, <2>1, <2>3, LimitsAssumption
  <2>5. TrackerInv(u)
    <3>1. \A q \in Seqs : (u.entries[q].held /\ u.entries[q].pending) =>
                            u.entries[q].sends <= MaxRetry
      BY <2>3 DEF TrackerInv, EntryInv
    <3>2. QED
      BY <2>3, <2>4, <3>1, SameButTimesInv
  <2>6. u.state = "Opening" /\ t.session <= u.session
    BY <2>1, <2>3 DEF SameButTimes
  <2>7. QED
    BY <2>1, <2>2, <2>5, <2>6, OpenAgainStep, OpeningIsEmpty
<1>5. QED
  BY <1>1, <1>2, <1>3, <1>4

LEMMA TickReadyStep ==
  ASSUME NEW t, TrackerInv(t), t.state = "Ready", NEW r \in tickReady(t)
  PROVE  Progress(t, r, {})
<1> DEFINE lost == Unrecoverable(t)
           due == {q \in HeldSeqs(t) : ackOverdue(t, q)}
           again(q) == [t.entries[q] EXCEPT !.pending = TRUE]
           es == [q \in Seqs |-> IF q \in due THEN again(q)
                                 ELSE t.entries[q]]
           u == [t EXCEPT !.entries = es]
<1>1. CASE lost # {}
  <2>1. PICK p : r = abort(t, p, "timeout")
    BY <1>1 DEF tickReady
  <2>2. "timeout" \in Reason
    BY DEF Reason
  <2>3. QED
    BY <2>1, <2>2, AbortStep
<1>2. CASE lost = {}
  <2>1. PICK s \in InOrder(due) :
          r = [t |-> u, send |-> [i \in DOMAIN s |-> dataSend(u, s[i])],
               finished |-> {}]
    BY <1>2 DEF tickReady
  <2>2. t \in Tracker /\ t.entries \in [Seqs -> TrackerEntry]
    BY TrackerFields DEF TrackerInv
  <2>3. ASSUME NEW q \in Seqs
        PROVE  /\ es[q] \in TrackerEntry
               /\ es[q].held <=> t.entries[q].held
               /\ es[q].cmd = t.entries[q].cmd
               /\ (es[q].held /\ es[q].pending) => es[q].sends <= MaxRetry
    <3>0. t.entries[q] \in TrackerEntry
      BY <2>2
    <3>1. CASE q \in due
      <4>1. es[q] = again(q)
        BY <3>1
      <4>2. /\ again(q) \in TrackerEntry
            /\ again(q).held = t.entries[q].held
            /\ again(q).cmd = t.entries[q].cmd
            /\ again(q).sends = t.entries[q].sends
        BY <3>0 DEF TrackerEntry
      <4>3. ~(t.entries[q].sends > MaxRetry)
        BY <1>2, <3>1 DEF Unrecoverable
      <4>4. t.entries[q].sends \in Nat
        BY <3>0, LimitsAssumption DEF TrackerEntry
      <4>5. t.entries[q].sends <= MaxRetry
        BY <4>3, <4>4, LimitsAssumption
      <4> HIDE DEF again, es
      <4>6. QED
        BY <4>1, <4>2, <4>5
    <3>2. CASE q \notin due
      <4>1. es[q] = t.entries[q]
        BY <3>2
      <4> HIDE DEF es
      <4>2. QED
        BY <3>0, <4>1 DEF TrackerInv, EntryInv
    <3>3. QED
      BY <3>1, <3>2
  <2>4. es \in [Seqs -> TrackerEntry]
    <3>1. \A q \in Seqs : (IF q \in due THEN again(q) ELSE t.entries[q]) \in TrackerEntry
      BY <2>3
    <3> HIDE DEF again, due
    <3>2. QED
      BY <3>1
  <2>5. \A q \in due : q \in Seqs /\ t.entries[q].held
    BY DEF HeldSeqs
  <2> HIDE DEF es, due
  <2>6. /\ SameButTimes(t, u)
        /\ TrackerInv(u)
        /\ u.entries = es
    BY <2>3, <2>4, RetouchEntries
  <2> HIDE DEF u
  <2>7. \A q \in due : u.entries[q].held
    BY <2>3, <2>5, <2>6
  <2>8. Cardinality(due) \in Nat
    <3>1. IsFiniteSet(Seqs)
      BY FS_Interval, LimitsAssumption DEF Seqs
    <3>2. due \subseteq Seqs
      BY <2>5
    <3>3. QED
      BY <3>1, <3>2, FS_Subset, FS_CardinalityType
  <2>9. s \in [1 .. Cardinality(due) -> due]
    BY <2>1 DEF InOrder
  <2>10. ASSUME NEW i \in 1 .. Cardinality(due)
         PROVE  /\ dataSend(u, s[i]) \in CommandSend
                /\ dataSend(u, s[i]).seq = s[i]
                /\ dataSend(u, s[i]).session = u.session
                /\ dataSend(u, s[i]).cmd = u.entries[s[i]].cmd
                /\ u.entries[s[i]].held
    <3>1. s[i] \in due
      BY <2>9
    <3>2. QED
      BY <2>5, <2>6, <2>7, <3>1, DataSendType
  <2> DEFINE sends == [i \in 1 .. Cardinality(due) |-> dataSend(u, s[i])]
  <2>11. r.t = u /\ r.send = sends /\ r.finished = {}
    <3>1. DOMAIN s = 1 .. Cardinality(due)
      BY <2>9
    <3>2. QED
      BY <2>1, <3>1
  <2>12. /\ sends \in Seq(CommandSend)
         /\ DOMAIN sends = 1 .. Cardinality(due)
         /\ \A i \in 1 .. Cardinality(due) : sends[i] = dataSend(u, s[i])
    <3>1. \A i \in 1 .. Cardinality(due) : dataSend(u, s[i]) \in CommandSend
      BY <2>10
    <3> HIDE DEF dataSend
    <3>2. sends \in [1 .. Cardinality(due) -> CommandSend]
      BY <3>1
    <3>3. QED
      BY <2>8, <3>2, IsASeq
  <2> HIDE DEF sends
  <2>13. SendsHeld(r)
    BY <2>10, <2>11, <2>12 DEF SendsHeld
  <2>14. t.session \in Nat /\ t.next \in Nat
    BY <2>2, TrackerFields
  <2>15. Finishes(t, r, {}) /\ Keeps(t, r) /\ Hears(t, r, {}) /\ Forward(t, r)
    BY <2>6, <2>11, <2>14 DEF Finishes, Keeps, Hears, Forward, SameButTimes
  <2>16. QED
    BY <2>6, <2>11, <2>13, <2>15 DEF Progress
<1>3. QED
  BY <1>1, <1>2

(***************************************************************************)
(* tick(), for each of its possible steps.                                 *)
(***************************************************************************)
LEMMA TickProgress ==
  ASSUME NEW t, TrackerInv(t), NEW r \in tick(t)
  PROVE  Progress(t, r, {})
<1>1. CASE t.state = "Opening"
  BY <1>1, TickOpeningStep DEF tick
<1>2. CASE t.state = "Ready"
  BY <1>2, TickReadyStep DEF tick
<1>3. CASE t.state # "Opening" /\ t.state # "Ready"
  BY <1>3, NothingStep DEF tick
<1>4. QED
  BY <1>1, <1>2, <1>3

(***************************************************************************)
(* submit(), when canSubmit() holds: the next number is given out.         *)
(***************************************************************************)
LEMMA SubmitFacts ==
  ASSUME NEW t, TrackerInv(t), canSubmit(t), NEW c \in Command
  PROVE  LET r == submit(t, c) IN
         /\ TrackerInv(r.t)
         /\ t.next \in Seqs
         /\ ~t.entries[t.next].held
         /\ r.t.state = t.state
         /\ r.t.session = t.session
         /\ r.t.next = t.next + 1
         /\ r.t.received = t.received
         /\ r.t.entries[t.next].held
         /\ r.t.entries[t.next].cmd = c
         /\ \A q \in Seqs : q # t.next => r.t.entries[q] = t.entries[q]
         /\ SendsHeld(r)
<1> DEFINE n == t.next
           a == [t EXCEPT !.next = n + 1]
           b == [a EXCEPT !.entries[n] = NewEntry(c)]
           u == [b EXCEPT !.types[n] = c.op]
           r == submit(t, c)
<1>1. /\ t \in Tracker
      /\ n \in Seqs
      /\ n \in Nat
      /\ n + 1 \in 0 .. SeqSpace
      /\ n + 1 \in Nat
      /\ t.state = "Ready"
      /\ n + 1 <= t.base + Window
      /\ t.base \in Nat
      /\ t.base <= n
      /\ t.entries \in [Seqs -> TrackerEntry]
      /\ t.types \in [Seqs -> Op \cup {"none"}]
  BY TrackerFields, LimitsAssumption DEF TrackerInv, canSubmit, Seqs
<1>2. c.op \in Op
  BY DEF Command
<1>3. u = [t EXCEPT !.next = @ + 1, !.entries[t.next] = NewEntry(c),
                    !.types[t.next] = c.op]
  OBVIOUS
<1>4. r.t = u /\ r.send = <<dataSend(u, n)>>
  BY <1>3 DEF submit
<1> HIDE DEF r
<1>5. /\ a \in Tracker
      /\ a.state = t.state
      /\ a.session = t.session
      /\ a.base = t.base
      /\ a.next = n + 1
      /\ a.entries = t.entries
      /\ a.received = t.received
      /\ a.types = t.types
  BY <1>1 DEF Tracker
<1> HIDE DEF a
<1>6. /\ b.state = a.state
      /\ b.session = a.session
      /\ b.base = a.base
      /\ b.next = a.next
      /\ b.entries = [a.entries EXCEPT ![n] = NewEntry(c)]
      /\ b.received = a.received
      /\ b.types = a.types
  BY <1>5 DEF Tracker
<1>7. b \in Tracker
  BY <1>1, <1>5, NewEntryType DEF Tracker
<1> HIDE DEF b
<1>8. /\ u.state = b.state
      /\ u.session = b.session
      /\ u.base = b.base
      /\ u.next = b.next
      /\ u.entries = b.entries
      /\ u.received = b.received
  BY <1>7 DEF Tracker
<1>9. u \in Tracker
  BY <1>1, <1>2, <1>7 DEF Tracker
<1> HIDE DEF u
<1>10. /\ u.entries[n] = NewEntry(c)
       /\ \A q \in Seqs : q # n => u.entries[q] = t.entries[q]
  BY <1>1, <1>5, <1>6, <1>8
<1>11. /\ u.state = "Ready"
       /\ u.session = t.session
       /\ u.base = t.base
       /\ u.next = n + 1
       /\ u.received = t.received
  BY <1>1, <1>5, <1>6, <1>8
<1>12. ASSUME NEW q \in Seqs PROVE EntryInv(u, q)
  <2>1. q \in Nat
    BY LimitsAssumption DEF Seqs
  <2>2. (q < n => q < n + 1) /\ n < n + 1
    BY <1>1, <2>1
  <2>3. EntryInv(t, q) /\ (q < t.next <=> q < n)
    BY DEF TrackerInv
  <2>4. CASE q = n
    <3>1. u.received[q] => q < u.next
      BY <1>11, <2>2, <2>4
    <3>2. q < u.base => u.received[q]
      BY <1>11, <2>3 DEF EntryInv
    <3>3. QED
      BY <1>10, <1>11, <2>2, <2>4, <3>1, <3>2, NewEntryType, LimitsAssumption
      DEF EntryInv
  <2>5. CASE q # n
    <3>1. u.entries[q] = t.entries[q]
      BY <1>10, <2>5
    <3> HIDE DEF n
    <3>2. QED
      BY <1>11, <2>2, <2>3, <3>1 DEF EntryInv
  <2>6. QED
    BY <2>4, <2>5
<1>13. TrackerInv(u)
  <2>1. u.base <= u.next /\ u.next <= u.base + Window /\ u.session # 0
    BY <1>1, <1>11 DEF TrackerInv
  <2>2. QED
    BY <1>9, <1>11, <1>12, <2>1 DEF TrackerInv
<1>14. ~t.entries[n].held
  BY <1>1 DEF TrackerInv, EntryInv
<1>15. SendsHeld(r)
  <2>1. u.entries[n].held
    BY <1>10, NewEntryType
  <2>2. /\ dataSend(u, n) \in CommandSend
        /\ dataSend(u, n).seq = n
        /\ dataSend(u, n).session = u.session
        /\ dataSend(u, n).cmd = u.entries[n].cmd
    BY <1>1, <1>13, <2>1, DataSendType
  <2>3. QED
    BY <1>4, <2>1, <2>2 DEF SendsHeld
<1>16. QED
  BY <1>1, <1>4, <1>10, <1>11, <1>13, <1>14, <1>15, NewEntryType DEF r

(***************************************************************************)
(* A tick of the gateway's clock.                                          *)
(***************************************************************************)
LEMMA OlderFacts ==
  ASSUME NEW n \in Nat, NEW limit \in Nat
  PROVE  Older(n, limit) \in Nat
BY DEF Older

LEMMA ElapseFacts ==
  ASSUME NEW t, TrackerInv(t)
  PROVE  SameButTimes(t, elapse(t)) /\ TrackerInv(elapse(t))
<1>1. t \in Tracker
  BY DEF TrackerInv
<1>2. CASE t.state = "Opening"
  <2> DEFINE x == Older(t.openAge, Lifetime)
             y == IF t.openPending THEN t.openSentAge
                  ELSE Older(t.openSentAge, AckTimeout)
             u == [t EXCEPT !.openAge = x]
             v == [u EXCEPT !.openSentAge = y]
  <2>1. x \in Nat /\ y \in Nat
    BY <1>1, TrackerFields, OlderFacts, LimitsAssumption
  <2>2. elapse(t) = [t EXCEPT !.openAge = x, !.openSentAge = y]
    BY <1>2 DEF elapse
  <2> HIDE DEF x, y
  <2>3. /\ SameButTimes(t, u)
        /\ u.entries = t.entries
        /\ u.openSends = t.openSends
        /\ u.openPending = t.openPending
    BY <1>1, <2>1 DEF Tracker, SameButTimes
  <2> HIDE DEF u
  <2>4. /\ SameButTimes(u, v)
        /\ v.entries = t.entries
        /\ v.openSends = t.openSends
        /\ v.openPending = t.openPending
    BY <2>1, <2>3 DEF Tracker, SameButTimes
  <2> HIDE DEF v
  <2>5. SameButTimes(t, v)
    BY <2>3, <2>4, SameButTimesTrans
  <2>6. TrackerInv(v)
    <3>1. \A q \in Seqs : (v.entries[q].held /\ v.entries[q].pending) =>
                            v.entries[q].sends <= MaxRetry
      BY <2>4 DEF TrackerInv, EntryInv
    <3>2. (v.state = "Opening" /\ v.openPending) => v.openSends <= MaxRetry
      BY <2>4, <2>5 DEF TrackerInv, SameButTimes
    <3>3. QED
      BY <2>5, <3>1, <3>2, SameButTimesInv
  <2>7. elapse(t) = v
    BY <2>2 DEF u, v
  <2>8. QED
    BY <2>5, <2>6, <2>7
<1>3. CASE t.state = "Ready"
  <2> DEFINE old(q) == OlderTrackerEntry(t.entries[q], t.received[q])
             es == [q \in Seqs |-> old(q)]
  <2>1. elapse(t) = [t EXCEPT !.entries = es]
    BY <1>3 DEF elapse
  <2>2. ASSUME NEW q \in Seqs
        PROVE  /\ old(q) \in TrackerEntry
               /\ old(q).held = t.entries[q].held
               /\ old(q).cmd = t.entries[q].cmd
               /\ old(q).pending = t.entries[q].pending
               /\ old(q).sends = t.entries[q].sends
    <3> DEFINE e == t.entries[q]
               x == Older(e.age, Longest)
               y == IF e.pending \/ t.received[q] THEN e.sentAge
                    ELSE Older(e.sentAge, AckTimeout)
               g == [e EXCEPT !.age = x]
               h == [g EXCEPT !.sentAge = y]
    <3>1. e \in TrackerEntry
      BY <1>1, TrackerFields
    <3>2. CASE ~e.held
      BY <3>1, <3>2 DEF OlderTrackerEntry
    <3>3. CASE e.held
      <4>1. e.age \in Nat /\ e.sentAge \in Nat /\ Longest \in Nat
        BY <3>1, LimitsAssumption DEF TrackerEntry, Longest
      <4>2. x \in Nat /\ y \in Nat
        BY <4>1, OlderFacts, LimitsAssumption
      <4>3. old(q) = [e EXCEPT !.age = x, !.sentAge = y]
        BY <3>3 DEF OlderTrackerEntry
      <4> HIDE DEF e, x, y
      <4>4. /\ g \in TrackerEntry
            /\ g.held = e.held
            /\ g.cmd = e.cmd
            /\ g.pending = e.pending
            /\ g.sends = e.sends
        BY <3>1, <4>2 DEF TrackerEntry
      <4> HIDE DEF g
      <4>5. /\ h \in TrackerEntry
            /\ h.held = g.held
            /\ h.cmd = g.cmd
            /\ h.pending = g.pending
            /\ h.sends = g.sends
        BY <4>2, <4>4 DEF TrackerEntry
      <4>6. old(q) = h
        BY <4>3 DEF g
      <4> HIDE DEF h, old
      <4>7. QED
        BY <4>4, <4>5, <4>6 DEF e
    <3>4. QED
      BY <3>2, <3>3
  <2> HIDE DEF old
  <2>3. es \in [Seqs -> TrackerEntry] /\ \A q \in Seqs : es[q] = old(q)
    BY <2>2
  <2> HIDE DEF es
  <2>4. \A q \in Seqs : /\ es[q].held <=> t.entries[q].held
                        /\ es[q].cmd = t.entries[q].cmd
                        /\ (es[q].held /\ es[q].pending) =>
                             es[q].sends <= MaxRetry
    BY <2>2, <2>3 DEF TrackerInv, EntryInv
  <2>5. QED
    BY <2>1, <2>3, <2>4, RetouchEntries
<1>4. CASE t.state # "Opening" /\ t.state # "Ready"
  BY <1>1, <1>4 DEF elapse, SameButTimes
<1>5. QED
  BY <1>2, <1>3, <1>4

-----------------------------------------------------------------------------
(***************************************************************************)
(* GatewayApp.  Every command still to be reported waits in cmd_queue_ or  *)
(* is the request of one entry of the tracker, never both; the queue holds *)
(* the commands in the order they came, behind all that were submitted.    *)
(***************************************************************************)
Ids == 1 .. Len(command)

HistoryInv ==
  /\ Len(assigned) = Len(command)
  /\ Len(outcome) = Len(command)
  /\ Len(command) <= MaxCommands

MatchInv ==
  \A q \in Seqs :
    /\ tracker.entries[q].held <=> requests[q] # 0
    /\ requests[q] # 0 =>
         /\ requests[q] \in Ids
         /\ outcome[requests[q]] = "pending"
         /\ assigned[requests[q]] = [session |-> tracker.session, seq |-> q]
         /\ tracker.entries[q].cmd = command[requests[q]]

QueueInv ==
  /\ \A i \in 1 .. Len(cmdQueue) :
       /\ cmdQueue[i] \in Ids
       /\ outcome[cmdQueue[i]] = "pending"
       /\ assigned[cmdQueue[i]] = NotAssigned
       /\ \A id \in Ids : assigned[id] # NotAssigned => id < cmdQueue[i]
  /\ \A i, j \in 1 .. Len(cmdQueue) : i < j => cmdQueue[i] < cmdQueue[j]

GatewayInv ==
  /\ GatewayTypeOK
  /\ TrackerInv(tracker)
  /\ HistoryInv
  /\ MatchInv
  /\ QueueInv
  /\ NothingForgotten

\* What a step of the tracker reports.
Reports(r) ==
  /\ \A d \in r.finished :
       /\ d.seq \in Seqs
       /\ requests[d.seq] \in Ids
       /\ outcome[requests[d.seq]] = "pending"
       /\ outcome'[requests[d.seq]] = d.outcome
  /\ \A id \in Ids :
       \/ outcome'[id] = outcome[id]
       \/ \E d \in r.finished : requests[d.seq] = id
  /\ \A id \in Ids :
       (\A d \in r.finished : requests[d.seq] # id) => outcome'[id] = outcome[id]

\* A number is held for one command only.
LEMMA OneNumberEach ==
  ASSUME GatewayInv, NEW p \in Seqs, NEW q \in Seqs,
         requests[p] # 0, requests[p] = requests[q]
  PROVE  p = q
<1>1. [session |-> tracker.session, seq |-> p] =
        [session |-> tracker.session, seq |-> q]
  BY DEF GatewayInv, MatchInv
<1>2. QED
  BY <1>1

LEMMA CompletionFields ==
  ASSUME NEW d \in Completion
  PROVE  d.seq \in Seqs /\ d.outcome \in Outcome
BY DEF Completion, Outcome

LEMMA ApplyReports ==
  ASSUME GatewayInv, NEW r, NEW F, Progress(tracker, r, F), NEW queue,
         applyTrackerActions(r, queue)
  PROVE  /\ Reports(r)
         /\ outcome' \in Seq(Outcome)
         /\ Len(outcome') = Len(outcome)
         /\ requests' \in [Seqs -> Id \cup {0}]
         /\ \A q \in Seqs :
              requests'[q] = IF \E d \in r.finished : d.seq = q THEN 0
                             ELSE requests[q]
<1> DEFINE done(id) == \E q \in FinishedSeqs(r) : requests[q] = id
           at(id) == CHOOSE q \in FinishedSeqs(r) : requests[q] = id
           new(id) == IF done(id) THEN OutcomeOf(r, at(id)) ELSE outcome[id]
<1>1. /\ outcome' = [id \in DOMAIN outcome |-> new(id)]
      /\ requests' = [q \in Seqs |-> IF q \in FinishedSeqs(r) THEN 0
                                     ELSE requests[q]]
  BY DEF applyTrackerActions
<1>2. /\ outcome \in Seq(Outcome)
      /\ DOMAIN outcome = 1 .. Len(outcome)
      /\ Len(outcome) \in Nat
      /\ Len(outcome) = Len(command)
      /\ requests \in [Seqs -> Id \cup {0}]
  BY DEF GatewayInv, GatewayTypeOK, HistoryInv
<1>3. /\ r.finished \subseteq Completion
      /\ \A d, e \in r.finished : d.seq = e.seq => d = e
      /\ \A d \in r.finished : tracker.entries[d.seq].held
  BY DEF Progress, Finishes
<1>4. \A d \in r.finished : d.seq \in Seqs /\ d.outcome \in Outcome
  BY <1>3, CompletionFields
<1>5. \A q : q \in FinishedSeqs(r) <=> \E d \in r.finished : d.seq = q
  BY DEF FinishedSeqs
<1>6. ASSUME NEW d \in r.finished
      PROVE  /\ d.seq \in Seqs
             /\ requests[d.seq] \in Ids
             /\ requests[d.seq] # 0
             /\ outcome[requests[d.seq]] = "pending"
             /\ new(requests[d.seq]) = d.outcome
  <2>1. /\ d.seq \in Seqs
        /\ requests[d.seq] # 0
        /\ requests[d.seq] \in Ids
        /\ outcome[requests[d.seq]] = "pending"
    BY <1>3, <1>4 DEF GatewayInv, MatchInv
  <2>2. done(requests[d.seq])
    BY <1>5
  <2>3. /\ at(requests[d.seq]) \in FinishedSeqs(r)
        /\ requests[at(requests[d.seq])] = requests[d.seq]
    BY <2>2
  <2> HIDE DEF at
  <2>4. at(requests[d.seq]) = d.seq
    <3>1. at(requests[d.seq]) \in Seqs
      BY <1>4, <1>5, <2>3
    <3>2. QED
      BY <2>1, <2>3, <3>1, OneNumberEach
  <2>5. (CHOOSE e \in r.finished : e.seq = d.seq) = d
    BY <1>3
  <2>6. OutcomeOf(r, d.seq) = d.outcome
    BY <2>5 DEF OutcomeOf
  <2>7. QED
    BY <2>1, <2>2, <2>4, <2>6
<1>7. ASSUME NEW id \in Ids, \A d \in r.finished : requests[d.seq] # id
      PROVE  new(id) = outcome[id]
  <2>1. ~done(id)
    BY <1>5, <1>7
  <2>2. QED
    BY <2>1
<1> HIDE DEF new
<1>8. \A id \in Ids : outcome'[id] = new(id)
  BY <1>1, <1>2 DEF Ids
<1>9. \A id \in Ids : new(id) \in Outcome
  <2>1. TAKE id \in Ids
  <2>2. CASE \E d \in r.finished : requests[d.seq] = id
    BY <1>4, <1>6, <2>2
  <2>3. CASE \A d \in r.finished : requests[d.seq] # id
    <3>1. outcome[id] \in Outcome
      BY <1>2 DEF Ids
    <3>2. QED
      BY <1>7, <2>3, <3>1
  <2>4. QED
    BY <2>2, <2>3
<1>10. Reports(r)
  BY <1>6, <1>7, <1>8 DEF Reports
<1>11. outcome' \in Seq(Outcome) /\ Len(outcome') = Len(outcome)
  <2>1. outcome' \in [1 .. Len(outcome) -> Outcome]
    BY <1>1, <1>2, <1>9 DEF Ids
  <2>2. QED
    BY <1>2, <2>1
<1>12. QED
  BY <1>1, <1>2, <1>5, <1>10, <1>11

LEMMA PendingIsNoOutcome == "pending" \notin Result \cup Reason
BY DEF Result, Reason

\* A command in the queue has no number yet; one in flight has.
LEMMA QueuedIsNotRequested ==
  ASSUME GatewayInv, NEW q \in Seqs, requests[q] # 0,
         NEW i \in 1 .. Len(cmdQueue)
  PROVE  requests[q] # cmdQueue[i]
<1>1. tracker.session # 0
  BY DEF GatewayInv, MatchInv, TrackerInv, EntryInv
<1>2. assigned[requests[q]] = [session |-> tracker.session, seq |-> q]
  BY DEF GatewayInv, MatchInv
<1>3. assigned[cmdQueue[i]] = [session |-> 0, seq |-> 0]
  BY DEF GatewayInv, QueueInv, NotAssigned
<1>4. [session |-> tracker.session, seq |-> q] # [session |-> 0, seq |-> 0]
  BY <1>1
<1>5. QED
  BY <1>2, <1>3, <1>4

LEMMA ApplyInv ==
  ASSUME GatewayInv, NEW r, NEW F, Progress(tracker, r, F),
         NEW queue \in Seq(CommandSend), applyTrackerActions(r, queue),
         UNCHANGED <<cmdQueue, command, assigned>>
  PROVE  /\ TrackerInv(tracker')
         /\ tracker' \in Tracker
         /\ output' \in Seq(CommandSend)
         /\ requests' \in [Seqs -> Id \cup {0}]
         /\ outcome' \in Seq(Outcome)
         /\ HistoryInv'
         /\ MatchInv'
         /\ QueueInv'
         /\ NothingForgotten'
         /\ Reports(r)
<1>1. tracker' = r.t /\ output' = queue \o r.send
  BY DEF applyTrackerActions
<1>2. /\ Reports(r)
      /\ outcome' \in Seq(Outcome)
      /\ Len(outcome') = Len(outcome)
      /\ requests' \in [Seqs -> Id \cup {0}]
      /\ \A q \in Seqs :
           requests'[q] = IF \E d \in r.finished : d.seq = q THEN 0
                          ELSE requests[q]
  BY ApplyReports
<1>3. TrackerInv(tracker') /\ tracker' \in Tracker
  BY <1>1 DEF Progress, TrackerInv
<1>4. output' \in Seq(CommandSend)
  BY <1>1 DEF Progress, SendsHeld
<1>5. HistoryInv'
  BY <1>2 DEF GatewayInv, HistoryInv
<1>6. Ids' = Ids
  BY DEF Ids
<1>7. MatchInv'
  <2>1. SUFFICES ASSUME NEW q \in Seqs
        PROVE  /\ tracker'.entries[q].held <=> requests'[q] # 0
               /\ requests'[q] # 0 =>
                    /\ requests'[q] \in Ids
                    /\ outcome'[requests'[q]] = "pending"
                    /\ assigned[requests'[q]] =
                         [session |-> tracker'.session, seq |-> q]
                    /\ tracker'.entries[q].cmd = command[requests'[q]]
    BY <1>6 DEF MatchInv
  <2>2. tracker'.entries[q].held <=>
          tracker.entries[q].held /\ \A d \in r.finished : d.seq # q
    BY <1>1 DEF Progress, Keeps
  <2>3. tracker.entries[q].held <=> requests[q] # 0
    BY DEF GatewayInv, MatchInv
  <2>4. CASE \E d \in r.finished : d.seq = q
    BY <1>2, <2>2, <2>4
  <2>5. CASE ~(\E d \in r.finished : d.seq = q)
    <3>1. requests'[q] = requests[q]
      BY <1>2, <2>5
    <3>2. tracker'.entries[q].held <=> requests'[q] # 0
      BY <2>2, <2>3, <2>5, <3>1
    <3>3. ASSUME requests[q] # 0
          PROVE  /\ requests[q] \in Ids
                 /\ outcome'[requests[q]] = "pending"
                 /\ assigned[requests[q]] =
                      [session |-> tracker'.session, seq |-> q]
                 /\ tracker'.entries[q].cmd = command[requests[q]]
      <4>1. /\ requests[q] \in Ids
            /\ outcome[requests[q]] = "pending"
            /\ assigned[requests[q]] =
                 [session |-> tracker.session, seq |-> q]
            /\ tracker.entries[q].cmd = command[requests[q]]
        BY <3>3 DEF GatewayInv, MatchInv
      <4>2. /\ tracker'.session = tracker.session
            /\ tracker'.entries[q].cmd = tracker.entries[q].cmd
        BY <1>1, <3>1, <3>2, <3>3 DEF Progress, Keeps
      <4>3. \A d \in r.finished : requests[d.seq] # requests[q]
        <5>1. \A d \in r.finished : d.seq \in Seqs
          BY <1>2 DEF Reports
        <5>2. QED
          BY <2>5, <3>3, <5>1, OneNumberEach
      <4>4. outcome'[requests[q]] = outcome[requests[q]]
        BY <1>2, <4>1, <4>3 DEF Reports
      <4>5. QED
        BY <4>1, <4>2, <4>4
    <3>4. QED
      BY <3>1, <3>2, <3>3
  <2>6. QED
    BY <2>4, <2>5
<1>8. \A d \in r.finished : requests[d.seq] # 0 /\ d.outcome # "pending"
  <2>1. TAKE d \in r.finished
  <2>2. d \in Completion /\ tracker.entries[d.seq].held
    BY DEF Progress, Finishes
  <2>3. d.seq \in Seqs /\ d.outcome \in Result \cup Reason
    BY <2>2 DEF Completion
  <2>4. QED
    BY <2>2, <2>3, PendingIsNoOutcome DEF GatewayInv, MatchInv
<1>9. QueueInv'
  <2>1. ASSUME NEW i \in 1 .. Len(cmdQueue)
        PROVE  outcome'[cmdQueue[i]] = outcome[cmdQueue[i]]
    <3>1. cmdQueue[i] \in Ids
      BY DEF GatewayInv, QueueInv
    <3>2. \A d \in r.finished : requests[d.seq] # cmdQueue[i]
      BY <1>2, <1>8, QueuedIsNotRequested DEF Reports
    <3>3. QED
      BY <1>2, <3>1, <3>2 DEF Reports
  <2>2. QED
    BY <1>6, <2>1 DEF GatewayInv, QueueInv
<1>10. NothingForgotten'
  <2>1. DOMAIN outcome' = Ids /\ DOMAIN outcome = Ids
    BY <1>2 DEF GatewayInv, GatewayTypeOK, HistoryInv, Ids
  <2>2. SUFFICES ASSUME NEW id \in Ids, outcome'[id] = "pending"
        PROVE  \/ \E q \in Seqs : requests'[q] = id
               \/ \E i \in DOMAIN cmdQueue : cmdQueue[i] = id
    BY <2>1 DEF NothingForgotten
  <2>3. \A d \in r.finished : requests[d.seq] # id
    BY <1>2, <1>8, <2>2 DEF Reports
  <2>4. outcome[id] = "pending"
    BY <1>2, <2>2, <2>3 DEF Reports
  <2>5. CASE \E q \in Seqs : requests[q] = id
    <3>1. PICK q \in Seqs : requests[q] = id
      BY <2>5
    <3>2. ~(\E d \in r.finished : d.seq = q)
      BY <2>3, <3>1
    <3>3. QED
      BY <1>2, <3>1, <3>2
  <2>6. CASE \E i \in DOMAIN cmdQueue : cmdQueue[i] = id
    BY <2>6
  <2>7. QED
    BY <2>1, <2>4, <2>5, <2>6 DEF GatewayInv, NothingForgotten
<1>11. QED
  BY <1>2, <1>3, <1>4, <1>5, <1>7, <1>9, <1>10

\* What the invariant says beside the types, when nothing of it changes.
LEMMA GatewaySame ==
  ASSUME GatewayInv, GatewayTypeOK',
         UNCHANGED <<tracker, cmdQueue, requests, command, assigned, outcome>>
  PROVE  GatewayInv'
<1>1. TrackerInv(tracker)' /\ HistoryInv'
  BY DEF GatewayInv, HistoryInv
<1>2. MatchInv'
  BY DEF GatewayInv, MatchInv, Ids
<1>3. QueueInv'
  BY DEF GatewayInv, QueueInv, Ids
<1>4. NothingForgotten'
  BY DEF GatewayInv, NothingForgotten
<1>5. QED
  BY <1>1, <1>2, <1>3, <1>4 DEF GatewayInv

\* The same for a handler that applies what the tracker returned.
LEMMA ApplyStep ==
  ASSUME GatewayInv, NEW r, NEW F, Progress(tracker, r, F),
         NEW queue \in Seq(CommandSend), applyTrackerActions(r, queue),
         UNCHANGED <<cmdQueue, command, assigned>>,
         begun' \in BOOLEAN,
         discarded' \in Seq(CommandSend),
         reactor' \in {"idle", "replace", "submit", "discard"},
         processed' \in 0 .. BatchSize,
         notified' \in BOOLEAN,
         replacements' \in Nat,
         reloads' \in 0 .. MaxReplacements,
         downlink' \subseteq DownFrame
  PROVE  GatewayInv'
<1>1. /\ TrackerInv(tracker')
      /\ tracker' \in Tracker
      /\ output' \in Seq(CommandSend)
      /\ requests' \in [Seqs -> Id \cup {0}]
      /\ outcome' \in Seq(Outcome)
      /\ HistoryInv'
      /\ MatchInv'
      /\ QueueInv'
      /\ NothingForgotten'
  BY ApplyInv
<1>2. /\ cmdQueue' \in Seq(Id)
      /\ command' \in Seq(Command)
      /\ assigned' \in Seq([session : Session, seq : Seqs])
  BY DEF GatewayInv, GatewayTypeOK
<1>3. GatewayTypeOK'
  BY <1>1, <1>2 DEF GatewayTypeOK
<1>4. QED
  BY <1>1, <1>3 DEF GatewayInv

\* Every frame the gateway builds is one of the line.
LEMMA FrameOfType ==
  ASSUME NEW s \in CommandSend
  PROVE  /\ FrameOf(s) \in DownFrame
         /\ FrameOf(s).type = s.type
         /\ FrameOf(s).session = s.session
         /\ s.type = "COMMAND" =>
              FrameOf(s).seq = s.seq /\ FrameOf(s).cmd = s.cmd
<1>1. CASE s.type = "OPEN"
  BY <1>1, SendTypes DEF FrameOf, DownFrame, OpenFrame
<1>2. CASE s.type = "COMMAND"
  BY <1>2, SendTypes DEF FrameOf, DownFrame, CommandFrame
<1>3. CASE s.type = "RESULT_ACK"
  <2>1. s \in AckSend
    BY <1>3 DEF CommandSend, OpenSend, DataSend, AckSend
  <2>2. FrameOf(s) = s
    BY <1>3 DEF FrameOf
  <2>3. QED
    BY <1>3, <2>1, <2>2 DEF AckSend, DownFrame, ResultAckFrame
<1>4. QED
  BY <1>1, <1>2, <1>3, SendTypes

LEMMA GatewayInitially ==
  ASSUME LinkInit
  PROVE  GatewayInv
<1>1. /\ tracker = ClosedTracker /\ TrackerInv(ClosedTracker)
      /\ ClosedTracker \in Tracker
      /\ \A q \in Seqs : ~ClosedTracker.entries[q].held
  BY ClosedTrackerInv, NoEntryType DEF LinkInit, TrackerInv, ClosedTracker
<1>2. /\ Len(command) = 0 /\ Len(assigned) = 0 /\ Len(outcome) = 0
      /\ Len(cmdQueue) = 0 /\ DOMAIN outcome = {}
      /\ \A q \in Seqs : requests[q] = 0
  BY DEF LinkInit
<1>3. GatewayTypeOK
  <2>1. /\ cmdQueue \in Seq(Id)
        /\ output \in Seq(CommandSend)
        /\ discarded \in Seq(CommandSend)
        /\ command \in Seq(Command)
        /\ assigned \in Seq([session : Session, seq : Seqs])
        /\ outcome \in Seq(Outcome)
    BY DEF LinkInit
  <2>2. /\ requests \in [Seqs -> Id \cup {0}]
        /\ processed \in 0 .. BatchSize
        /\ reloads \in 0 .. MaxReplacements
        /\ replacements \in Nat
        /\ downlink \subseteq DownFrame
    BY LinkAssumption DEF LinkInit
  <2>3. /\ begun \in BOOLEAN
        /\ notified \in BOOLEAN
        /\ reactor \in {"idle", "replace", "submit", "discard"}
    BY DEF LinkInit
  <2>4. QED
    BY <1>1, <2>1, <2>2, <2>3 DEF GatewayTypeOK
<1>4. MatchInv
  BY <1>1, <1>2 DEF MatchInv
<1>5. QueueInv /\ HistoryInv /\ NothingForgotten
  BY <1>2, LinkAssumption DEF QueueInv, HistoryInv, NothingForgotten
<1>6. QED
  BY <1>1, <1>3, <1>4, <1>5 DEF GatewayInv

-----------------------------------------------------------------------------
(***************************************************************************)
(* One lemma for each action that does more than pass the handler on.      *)
(***************************************************************************)
LEMMA AppendFacts ==
  ASSUME NEW S, NEW s \in Seq(S), NEW x \in S
  PROVE  /\ Append(s, x) \in Seq(S)
         /\ Len(Append(s, x)) = Len(s) + 1
         /\ Append(s, x)[Len(s) + 1] = x
         /\ \A i \in 1 .. Len(s) : Append(s, x)[i] = s[i]
OBVIOUS

LEMMA TailFacts ==
  ASSUME NEW S, NEW s \in Seq(S), s # << >>
  PROVE  /\ Head(s) \in S
         /\ Head(s) = s[1]
         /\ Tail(s) \in Seq(S)
         /\ Len(s) \in Nat \ {0}
         /\ Len(Tail(s)) = Len(s) - 1
         /\ \A i \in 1 .. Len(s) - 1 : Tail(s)[i] = s[i + 1]
OBVIOUS

LEMMA SubmitCommandStep ==
  ASSUME GatewayInv, NEW c \in Command, SubmitCommand(c)
  PROVE  GatewayInv'
<1> DEFINE n == Len(command)
<1>1. /\ command \in Seq(Command)
      /\ assigned \in Seq([session : Session, seq : Seqs])
      /\ outcome \in Seq(Outcome)
      /\ cmdQueue \in Seq(Id)
      /\ n \in Nat /\ n < MaxCommands
      /\ Len(assigned) = n /\ Len(outcome) = n
      /\ Len(cmdQueue) \in Nat
      /\ DOMAIN outcome = Ids
  BY DEF GatewayInv, GatewayTypeOK, HistoryInv, SubmitCommand, Ids
<1>2. /\ NotAssigned \in [session : Session, seq : Seqs]
      /\ "pending" \in Outcome
      /\ n + 1 \in Id
  BY <1>1, LimitsAssumption, LinkAssumption
  DEF NotAssigned, Session, Seqs, Outcome, Id
<1>3. /\ command' \in Seq(Command)
      /\ Len(command') = n + 1
      /\ \A i \in Ids : command'[i] = command[i]
  BY <1>1, AppendFacts DEF SubmitCommand, Ids
<1>4. /\ assigned' \in Seq([session : Session, seq : Seqs])
      /\ Len(assigned') = n + 1
      /\ assigned'[n + 1] = NotAssigned
      /\ \A i \in Ids : assigned'[i] = assigned[i]
  <2>1. assigned' = Append(assigned, NotAssigned)
    BY DEF SubmitCommand
  <2>2. QED
    BY <1>1, <1>2, <2>1, AppendFacts DEF Ids
<1>5. /\ outcome' \in Seq(Outcome)
      /\ Len(outcome') = n + 1
      /\ outcome'[n + 1] = "pending"
      /\ \A i \in Ids : outcome'[i] = outcome[i]
  <2>1. outcome' = Append(outcome, "pending")
    BY DEF SubmitCommand
  <2>2. QED
    BY <1>1, <1>2, <2>1, AppendFacts DEF Ids
<1>6. /\ cmdQueue' \in Seq(Id)
      /\ Len(cmdQueue') = Len(cmdQueue) + 1
      /\ cmdQueue'[Len(cmdQueue) + 1] = n + 1
      /\ \A i \in 1 .. Len(cmdQueue) : cmdQueue'[i] = cmdQueue[i]
  <2>1. cmdQueue' = Append(cmdQueue, n + 1)
    BY DEF SubmitCommand
  <2>2. QED
    BY <1>1, <1>2, <2>1, AppendFacts
<1>7. UNCHANGED <<processed, tracker, requests, output, begun, discarded,
                  reactor, replacements, reloads, downlink>> /\ notified' = TRUE
  BY DEF SubmitCommand
<1>8. GatewayTypeOK'
  BY <1>3, <1>4, <1>5, <1>6, <1>7 DEF GatewayInv, GatewayTypeOK
<1>9. HistoryInv'
  BY <1>1, <1>3, <1>4, <1>5, LinkAssumption DEF HistoryInv
<1>10. /\ Ids = 1 .. n
       /\ Ids' = 1 .. n + 1
       /\ Ids' = Ids \cup {n + 1}
       /\ \A i \in Ids : i < n + 1 /\ i # n + 1
  <2>1. Ids = 1 .. n /\ Ids' = 1 .. n + 1
    BY <1>3 DEF Ids
  <2>2. QED
    BY <1>1, <2>1
<1> HIDE DEF n
<1>11. MatchInv'
  BY <1>3, <1>4, <1>5, <1>7, <1>10 DEF GatewayInv, MatchInv
<1>12. QueueInv'
  <2>1. ASSUME NEW i \in 1 .. Len(cmdQueue')
        PROVE  /\ cmdQueue'[i] \in Ids'
               /\ outcome'[cmdQueue'[i]] = "pending"
               /\ assigned'[cmdQueue'[i]] = NotAssigned
               /\ \A id \in Ids' : assigned'[id] # NotAssigned =>
                                     id < cmdQueue'[i]
    <3>1. CASE i \in 1 .. Len(cmdQueue)
      <4>1. /\ cmdQueue'[i] = cmdQueue[i]
            /\ cmdQueue[i] \in Ids
            /\ outcome[cmdQueue[i]] = "pending"
            /\ assigned[cmdQueue[i]] = NotAssigned
            /\ \A id \in Ids : assigned[id] # NotAssigned => id < cmdQueue[i]
        BY <1>6, <3>1 DEF GatewayInv, QueueInv
      <4>2. QED
        BY <1>4, <1>5, <1>10, <4>1
    <3>2. CASE i = Len(cmdQueue) + 1
      BY <1>4, <1>5, <1>6, <1>10, <3>2
    <3>3. QED
      BY <1>1, <1>6, <3>1, <3>2
  <2>2. ASSUME NEW i \in 1 .. Len(cmdQueue'), NEW j \in 1 .. Len(cmdQueue'),
               i < j
        PROVE  cmdQueue'[i] < cmdQueue'[j]
    <3>1. i \in 1 .. Len(cmdQueue)
      BY <1>1, <1>6, <2>2
    <3>2. CASE j \in 1 .. Len(cmdQueue)
      BY <1>6, <2>2, <3>1, <3>2 DEF GatewayInv, QueueInv
    <3>3. CASE j = Len(cmdQueue) + 1
      <4>1. cmdQueue[i] \in Ids
        BY <3>1 DEF GatewayInv, QueueInv
      <4>2. QED
        BY <1>6, <1>10, <3>1, <3>3, <4>1
    <3>4. QED
      BY <1>1, <1>6, <3>2, <3>3
  <2>3. QED
    BY <2>1, <2>2 DEF QueueInv
<1>13. NothingForgotten'
  <2>1. DOMAIN outcome' = Ids'
    BY <1>5, <1>10
  <2>2. SUFFICES ASSUME NEW id \in Ids', outcome'[id] = "pending"
        PROVE  \/ \E q \in Seqs : requests'[q] = id
               \/ \E i \in DOMAIN cmdQueue' : cmdQueue'[i] = id
    BY <2>1 DEF NothingForgotten
  <2>3. DOMAIN cmdQueue' = 1 .. Len(cmdQueue) + 1 /\ DOMAIN cmdQueue = 1 .. Len(cmdQueue)
    BY <1>1, <1>6
  <2>4. CASE id = n + 1
    <3>1. Len(cmdQueue) + 1 \in DOMAIN cmdQueue'
      BY <1>1, <2>3
    <3>2. QED
      BY <1>6, <2>4, <3>1
  <2>5. CASE id \in Ids
    <3>1. \/ \E q \in Seqs : requests[q] = id
          \/ \E i \in 1 .. Len(cmdQueue) : cmdQueue[i] = id
      BY <1>1, <1>5, <2>2, <2>3, <2>5 DEF GatewayInv, NothingForgotten
    <3>2. 1 .. Len(cmdQueue) \subseteq DOMAIN cmdQueue'
      BY <1>1, <2>3
    <3>3. QED
      BY <1>6, <1>7, <3>1, <3>2
  <2>6. QED
    BY <1>10, <2>4, <2>5
<1>14. TrackerInv(tracker)'
  BY <1>7 DEF GatewayInv
<1>15. QED
  BY <1>8, <1>9, <1>11, <1>12, <1>13, <1>14 DEF GatewayInv

LEMMA SubmitNextStep ==
  ASSUME GatewayInv, SubmitNext
  PROVE  GatewayInv'
<1> DEFINE id == Head(cmdQueue)
           n == tracker.next
           r == submit(tracker, command[id])
           place == [session |-> tracker.session, seq |-> n]
<1>1. /\ command \in Seq(Command)
      /\ assigned \in Seq([session : Session, seq : Seqs])
      /\ outcome \in Seq(Outcome)
      /\ cmdQueue \in Seq(Id)
      /\ output \in Seq(CommandSend)
      /\ requests \in [Seqs -> Id \cup {0}]
      /\ Len(command) \in Nat
      /\ Len(assigned) = Len(command) /\ Len(outcome) = Len(command)
      /\ TrackerInv(tracker)
      /\ DOMAIN outcome = Ids /\ DOMAIN assigned = Ids
  BY DEF GatewayInv, GatewayTypeOK, HistoryInv, Ids
<1>2. /\ cmdQueue # << >> /\ canSubmit(tracker) /\ processed < BatchSize
      /\ tracker' = r.t
      /\ output' = output \o r.send
      /\ requests' = [requests EXCEPT ![n] = IF @ = 0 THEN id ELSE @]
      /\ assigned' = [assigned EXCEPT ![id] = place]
      /\ cmdQueue' = Tail(cmdQueue)
      /\ processed' = processed + 1
      /\ UNCHANGED <<begun, discarded, reactor, notified, replacements,
                     reloads, downlink, command, outcome>>
  BY DEF SubmitNext
<1>3. /\ id = cmdQueue[1]
      /\ 1 \in 1 .. Len(cmdQueue)
      /\ Tail(cmdQueue) \in Seq(Id)
      /\ Len(cmdQueue) \in Nat
      /\ Len(cmdQueue') = Len(cmdQueue) - 1
      /\ \A i \in 1 .. Len(cmdQueue') : cmdQueue'[i] = cmdQueue[i + 1]
  BY <1>1, <1>2, TailFacts
<1>4. /\ id \in Ids
      /\ outcome[id] = "pending"
      /\ assigned[id] = NotAssigned
      /\ command[id] \in Command
  <2>1. id \in Ids /\ outcome[id] = "pending" /\ assigned[id] = NotAssigned
    BY <1>3 DEF GatewayInv, QueueInv
  <2>2. QED
    BY <1>1, <2>1 DEF Ids
<1>5. /\ TrackerInv(r.t)
      /\ n \in Seqs
      /\ ~tracker.entries[n].held
      /\ r.t.session = tracker.session
      /\ r.t.entries[n].held
      /\ r.t.entries[n].cmd = command[id]
      /\ \A q \in Seqs : q # n => r.t.entries[q] = tracker.entries[q]
      /\ r.send \in Seq(CommandSend)
  <2> DEFINE c == command[id]
  <2>1. c \in Command /\ TrackerInv(tracker) /\ canSubmit(tracker)
    BY <1>1, <1>2, <1>4
  <2> HIDE DEF c
  <2>2. /\ TrackerInv(submit(tracker, c).t)
        /\ tracker.next \in Seqs
        /\ ~tracker.entries[tracker.next].held
        /\ submit(tracker, c).t.session = tracker.session
        /\ submit(tracker, c).t.entries[tracker.next].held
        /\ submit(tracker, c).t.entries[tracker.next].cmd = c
        /\ \A q \in Seqs : q # tracker.next =>
             submit(tracker, c).t.entries[q] = tracker.entries[q]
        /\ SendsHeld(submit(tracker, c))
    BY <2>1, SubmitFacts
  <2>3. submit(tracker, c).send \in Seq(CommandSend)
    BY <2>2 DEF SendsHeld
  <2>4. QED
    BY <2>2, <2>3 DEF c
<1>6. Ids' = Ids
  BY <1>2 DEF Ids
<1> HIDE DEF id, n, r
<1>7. requests[n] = 0
  BY <1>5 DEF GatewayInv, MatchInv
<1>8. /\ requests'[n] = id
      /\ \A q \in Seqs : q # n => requests'[q] = requests[q]
      /\ requests' \in [Seqs -> Id \cup {0}]
  <2>1. id \in Id
    BY <1>1, <1>4, LinkAssumption DEF Ids, Id, GatewayInv, HistoryInv
  <2>2. QED
    BY <1>1, <1>2, <1>5, <1>7, <2>1
<1>9. /\ place \in [session : Session, seq : Seqs]
      /\ tracker.session # 0
      /\ place # NotAssigned
  BY <1>1, <1>2, <1>5, TrackerFields DEF TrackerInv, canSubmit, NotAssigned
<1>10. /\ assigned' \in Seq([session : Session, seq : Seqs])
       /\ Len(assigned') = Len(assigned)
       /\ assigned'[id] = place
       /\ \A i \in Ids : i # id => assigned'[i] = assigned[i]
  <2> HIDE DEF place
  <2>1. QED
    BY <1>1, <1>2, <1>4, <1>9
<1>11. GatewayTypeOK'
  <2>1. processed' \in 0 .. BatchSize
    BY <1>2, LinkAssumption DEF GatewayInv, GatewayTypeOK
  <2>2. output' \in Seq(CommandSend) /\ tracker' \in Tracker
    BY <1>1, <1>2, <1>5 DEF TrackerInv
  <2>3. QED
    BY <1>2, <1>3, <1>8, <1>10, <2>1, <2>2 DEF GatewayInv, GatewayTypeOK
<1>12. HistoryInv'
  BY <1>2, <1>10 DEF GatewayInv, HistoryInv
<1>13. \A q \in Seqs : requests[q] # 0 => requests[q] # id
  BY <1>3, QueuedIsNotRequested
<1>14. MatchInv'
  <2>1. SUFFICES ASSUME NEW q \in Seqs
        PROVE  /\ tracker'.entries[q].held <=> requests'[q] # 0
               /\ requests'[q] # 0 =>
                    /\ requests'[q] \in Ids
                    /\ outcome[requests'[q]] = "pending"
                    /\ assigned'[requests'[q]] =
                         [session |-> tracker'.session, seq |-> q]
                    /\ tracker'.entries[q].cmd = command[requests'[q]]
    BY <1>2, <1>6 DEF MatchInv
  <2>2. CASE q = n
    <3>1. id # 0
      BY <1>4 DEF Ids
    <3>2. QED
      BY <1>2, <1>4, <1>5, <1>8, <1>10, <2>2, <3>1
  <2>3. CASE q # n
    <3>1. requests'[q] = requests[q] /\ tracker'.entries[q] = tracker.entries[q]
      BY <1>2, <1>5, <1>8, <2>3
    <3>2. /\ tracker.entries[q].held <=> requests[q] # 0
          /\ requests[q] # 0 =>
               /\ requests[q] \in Ids
               /\ outcome[requests[q]] = "pending"
               /\ assigned[requests[q]] =
                    [session |-> tracker.session, seq |-> q]
               /\ tracker.entries[q].cmd = command[requests[q]]
      BY DEF GatewayInv, MatchInv
    <3>3. tracker'.session = tracker.session
      BY <1>2, <1>5
    <3>4. QED
      BY <1>10, <1>13, <3>1, <3>2, <3>3
  <2>4. QED
    BY <2>2, <2>3
<1>15. QueueInv'
  <2>1. ASSUME NEW i \in 1 .. Len(cmdQueue')
        PROVE  /\ cmdQueue'[i] \in Ids
               /\ outcome[cmdQueue'[i]] = "pending"
               /\ assigned'[cmdQueue'[i]] = NotAssigned
               /\ \A k \in Ids : assigned'[k] # NotAssigned => k < cmdQueue'[i]
    <3>1. /\ i + 1 \in 1 .. Len(cmdQueue)
          /\ cmdQueue'[i] = cmdQueue[i + 1]
          /\ 1 < i + 1
      BY <1>3
    <3>2. /\ cmdQueue[i + 1] \in Ids
          /\ outcome[cmdQueue[i + 1]] = "pending"
          /\ assigned[cmdQueue[i + 1]] = NotAssigned
          /\ \A k \in Ids : assigned[k] # NotAssigned => k < cmdQueue[i + 1]
          /\ id < cmdQueue[i + 1]
      BY <1>3, <3>1 DEF GatewayInv, QueueInv
    <3>3. cmdQueue[i + 1] # id
      BY <1>4, <3>2 DEF Ids
    <3>4. QED
      BY <1>10, <3>1, <3>2, <3>3, SMTT(20)
  <2>2. ASSUME NEW i \in 1 .. Len(cmdQueue'), NEW j \in 1 .. Len(cmdQueue'),
               i < j
        PROVE  cmdQueue'[i] < cmdQueue'[j]
    <3>1. /\ i + 1 \in 1 .. Len(cmdQueue) /\ j + 1 \in 1 .. Len(cmdQueue)
          /\ i + 1 < j + 1
      BY <1>3, <2>2
    <3>2. QED
      BY <1>3, <3>1 DEF GatewayInv, QueueInv
  <2>3. QED
    BY <1>2, <1>6, <2>1, <2>2 DEF QueueInv
<1>16. NothingForgotten'
  <2>1. SUFFICES ASSUME NEW k \in Ids, outcome[k] = "pending"
        PROVE  \/ \E q \in Seqs : requests'[q] = k
               \/ \E i \in DOMAIN cmdQueue' : cmdQueue'[i] = k
    BY <1>1, <1>2 DEF NothingForgotten
  <2>2. CASE \E q \in Seqs : requests[q] = k
    <3>1. PICK q \in Seqs : requests[q] = k
      BY <2>2
    <3>2. q # n
      BY <1>7, <3>1 DEF Ids
    <3>3. QED
      BY <1>8, <3>1, <3>2
  <2>3. CASE \E i \in 1 .. Len(cmdQueue) : cmdQueue[i] = k
    <3>1. PICK i \in 1 .. Len(cmdQueue) : cmdQueue[i] = k
      BY <2>3
    <3>2. CASE i = 1
      BY <1>3, <1>5, <1>8, <3>1, <3>2
    <3>3. CASE i # 1
      <4>1. i - 1 \in 1 .. Len(cmdQueue') /\ i = (i - 1) + 1
        BY <1>3, <3>3
      <4>2. cmdQueue'[i - 1] = k
        BY <1>3, <3>1, <4>1
      <4>3. DOMAIN cmdQueue' = 1 .. Len(cmdQueue')
        BY <1>2, <1>3
      <4>4. QED
        BY <4>1, <4>2, <4>3
    <3>4. QED
      BY <3>2, <3>3
  <2>4. DOMAIN cmdQueue = 1 .. Len(cmdQueue)
    BY <1>1
  <2>5. QED
    BY <1>1, <2>1, <2>2, <2>3, <2>4 DEF GatewayInv, NothingForgotten
<1>17. QED
  BY <1>2, <1>5, <1>11, <1>12, <1>14, <1>15, <1>16 DEF GatewayInv

LEMMA RejectNextStep ==
  ASSUME GatewayInv, RejectNext
  PROVE  GatewayInv'
<1> DEFINE id == Head(cmdQueue)
<1>1. /\ outcome \in Seq(Outcome)
      /\ cmdQueue \in Seq(Id)
      /\ Len(command) \in Nat
      /\ Len(outcome) = Len(command)
      /\ DOMAIN outcome = Ids
  BY DEF GatewayInv, GatewayTypeOK, HistoryInv, Ids
<1>2. /\ cmdQueue # << >> /\ processed < BatchSize
      /\ outcome' = [outcome EXCEPT ![id] = "link_failed"]
      /\ cmdQueue' = Tail(cmdQueue)
      /\ processed' = processed + 1
      /\ UNCHANGED <<tracker, requests, output, begun, discarded, reactor,
                     notified, replacements, reloads, downlink, command,
                     assigned>>
  BY DEF RejectNext
<1>3. /\ id = cmdQueue[1]
      /\ 1 \in 1 .. Len(cmdQueue)
      /\ Tail(cmdQueue) \in Seq(Id)
      /\ Len(cmdQueue) \in Nat
      /\ Len(cmdQueue') = Len(cmdQueue) - 1
      /\ \A i \in 1 .. Len(cmdQueue') : cmdQueue'[i] = cmdQueue[i + 1]
  BY <1>1, <1>2, TailFacts
<1>4. id \in Ids
  BY <1>3 DEF GatewayInv, QueueInv
<1>5. Ids' = Ids
  BY <1>2 DEF Ids
<1> HIDE DEF id
<1>6. /\ outcome' \in Seq(Outcome)
      /\ Len(outcome') = Len(outcome)
      /\ DOMAIN outcome' = Ids
      /\ outcome'[id] = "link_failed"
      /\ \A i \in Ids : i # id => outcome'[i] = outcome[i]
  <2>1. "link_failed" \in Outcome
    BY DEF Outcome
  <2>2. QED
    BY <1>1, <1>2, <1>4, <2>1
<1>7. GatewayTypeOK'
  <2>1. processed' \in 0 .. BatchSize
    BY <1>2, LinkAssumption DEF GatewayInv, GatewayTypeOK
  <2>2. QED
    BY <1>2, <1>3, <1>6, <2>1 DEF GatewayInv, GatewayTypeOK
<1>8. HistoryInv'
  BY <1>2, <1>6 DEF GatewayInv, HistoryInv
<1>9. \A q \in Seqs : requests[q] # 0 => requests[q] # id
  BY <1>3, QueuedIsNotRequested
<1>10. MatchInv'
  BY <1>2, <1>5, <1>6, <1>9 DEF GatewayInv, MatchInv
<1>11. QueueInv'
  <2>1. ASSUME NEW i \in 1 .. Len(cmdQueue')
        PROVE  /\ cmdQueue'[i] \in Ids
               /\ outcome'[cmdQueue'[i]] = "pending"
               /\ assigned[cmdQueue'[i]] = NotAssigned
               /\ \A k \in Ids : assigned[k] # NotAssigned => k < cmdQueue'[i]
    <3>1. /\ i + 1 \in 1 .. Len(cmdQueue)
          /\ cmdQueue'[i] = cmdQueue[i + 1]
          /\ 1 < i + 1
      BY <1>3
    <3>2. /\ cmdQueue[i + 1] \in Ids
          /\ outcome[cmdQueue[i + 1]] = "pending"
          /\ assigned[cmdQueue[i + 1]] = NotAssigned
          /\ \A k \in Ids : assigned[k] # NotAssigned => k < cmdQueue[i + 1]
          /\ id < cmdQueue[i + 1]
      BY <1>3, <3>1 DEF GatewayInv, QueueInv
    <3>3. cmdQueue[i + 1] # id
      BY <1>4, <3>2 DEF Ids
    <3>4. QED
      BY <1>6, <3>1, <3>2, <3>3
  <2>2. ASSUME NEW i \in 1 .. Len(cmdQueue'), NEW j \in 1 .. Len(cmdQueue'),
               i < j
        PROVE  cmdQueue'[i] < cmdQueue'[j]
    <3>1. /\ i + 1 \in 1 .. Len(cmdQueue) /\ j + 1 \in 1 .. Len(cmdQueue)
          /\ i + 1 < j + 1
      BY <1>3, <2>2
    <3>2. QED
      BY <1>3, <3>1 DEF GatewayInv, QueueInv
  <2>3. QED
    BY <1>2, <1>5, <2>1, <2>2 DEF QueueInv
<1>12. NothingForgotten'
  <2>1. SUFFICES ASSUME NEW k \in Ids, outcome'[k] = "pending"
        PROVE  \/ \E q \in Seqs : requests[q] = k
               \/ \E i \in DOMAIN cmdQueue' : cmdQueue'[i] = k
    BY <1>2, <1>6 DEF NothingForgotten
  <2>2. k # id /\ outcome[k] = "pending"
    BY <1>6, <2>1
  <2>3. CASE \E i \in 1 .. Len(cmdQueue) : cmdQueue[i] = k
    <3>1. PICK i \in 1 .. Len(cmdQueue) : cmdQueue[i] = k
      BY <2>3
    <3>2. i # 1
      BY <1>3, <2>2, <3>1
    <3>3. i - 1 \in 1 .. Len(cmdQueue') /\ i = (i - 1) + 1
      BY <1>3, <3>2
    <3>4. cmdQueue'[i - 1] = k
      BY <1>3, <3>1, <3>3
    <3>5. DOMAIN cmdQueue' = 1 .. Len(cmdQueue')
      BY <1>2, <1>3
    <3>6. QED
      BY <3>3, <3>4, <3>5
  <2>4. DOMAIN cmdQueue = 1 .. Len(cmdQueue)
    BY <1>1
  <2>5. QED
    BY <1>1, <2>2, <2>3, <2>4 DEF GatewayInv, NothingForgotten
<1>13. TrackerInv(tracker)'
  BY <1>2 DEF GatewayInv
<1>14. QED
  BY <1>7, <1>8, <1>10, <1>11, <1>12, <1>13 DEF GatewayInv

-----------------------------------------------------------------------------
(***************************************************************************)
(* The steps of the link, told apart by what they do to the tracker and to *)
(* the frames: a call of the tracker that is applied, a step that leaves   *)
(* the commands alone, and the four that are named.                        *)
(***************************************************************************)
FramesMove(new) ==
  /\ Range(output') \subseteq Range(output) \cup new
  /\ Range(discarded') \subseteq Range(output) \cup Range(discarded)
  /\ downlink' \subseteq downlink \cup {FrameOf(s) : s \in Range(output)}

Applied(r, F) ==
  /\ Progress(tracker, r, F)
  /\ F \subseteq uplink
  /\ \E queue \in Seq(CommandSend) : applyTrackerActions(r, queue)
  /\ FramesMove(Range(r.send))
  /\ UNCHANGED <<nodeVars, cmdQueue, command, assigned>>

Quiet ==
  /\ SameButTimes(tracker, tracker')
  /\ FramesMove({})
  /\ UNCHANGED <<nodeVars, cmdQueue, requests, command, assigned, outcome>>

LEMMA RangeFacts ==
  ASSUME NEW S, NEW a \in Seq(S), NEW b \in Seq(S)
  PROVE  /\ Range(a \o b) \subseteq Range(a) \cup Range(b)
         /\ a # << >> => /\ Range(Tail(a)) \subseteq Range(a)
                         /\ Head(a) \in Range(a)
         /\ Range(<< >>) = {}
<1>1. ASSUME NEW x \in Range(a \o b)
      PROVE  x \in Range(a) \cup Range(b)
  <2>1. PICK i \in 1 .. Len(a) + Len(b) : x = (a \o b)[i]
    BY DEF Range
  <2>2. CASE i <= Len(a)
    <3>1. i \in DOMAIN a /\ x = a[i]
      BY <2>1, <2>2
    <3>2. QED
      BY <3>1 DEF Range
  <2>3. CASE ~(i <= Len(a))
    <3>1. i - Len(a) \in DOMAIN b /\ x = b[i - Len(a)]
      BY <2>1, <2>3
    <3>2. QED
      BY <3>1 DEF Range
  <2>4. QED
    BY <2>2, <2>3
<1>2. ASSUME a # << >>
      PROVE  Range(Tail(a)) \subseteq Range(a) /\ Head(a) \in Range(a)
  <2>1. /\ Head(a) = a[1]
        /\ Len(a) \in Nat \ {0}
        /\ Tail(a) \in Seq(S)
        /\ Len(Tail(a)) = Len(a) - 1
        /\ \A i \in 1 .. Len(a) - 1 : Tail(a)[i] = a[i + 1]
    BY <1>2, TailFacts
  <2>2. DOMAIN a = 1 .. Len(a) /\ DOMAIN Tail(a) = 1 .. Len(a) - 1
    BY <2>1
  <2>3. 1 \in DOMAIN a /\ \A i \in DOMAIN Tail(a) : i + 1 \in DOMAIN a
    BY <2>1, <2>2
  <2>4. QED
    BY <2>1, <2>2, <2>3 DEF Range
<1>3. Range(<< >>) = {}
  BY DEF Range
<1>4. QED
  BY <1>1, <1>2, <1>3

LEMMA QuietInv ==
  ASSUME GatewayInv, Quiet, GatewayTypeOK', TrackerInv(tracker')
  PROVE  GatewayInv'
<1>1. HistoryInv'
  BY DEF GatewayInv, HistoryInv, Quiet
<1>2. QueueInv'
  BY DEF GatewayInv, QueueInv, Ids, Quiet
<1>3. NothingForgotten'
  BY DEF GatewayInv, NothingForgotten, Quiet
<1>4. MatchInv'
  BY DEF GatewayInv, MatchInv, Ids, Quiet, SameButTimes
<1>5. QED
  BY <1>1, <1>2, <1>3, <1>4 DEF GatewayInv

\* A handler that passes on, or moves the output: no command is concerned.
LEMMA PassingStep ==
  ASSUME GatewayInv, GatewayTypeOK', FramesMove({}),
         UNCHANGED <<nodeVars, tracker, cmdQueue, requests, command, assigned,
                     outcome>>
  PROVE  GatewayInv' /\ Quiet
<1>1. TrackerInv(tracker') /\ SameButTimes(tracker, tracker')
  BY DEF GatewayInv, SameButTimes, TrackerInv
<1>2. Quiet
  BY <1>1 DEF Quiet
<1>3. QED
  BY <1>1, <1>2, QuietInv

\* A call of the tracker is applied to the queue it finds.
LEMMA AppliedStep ==
  ASSUME GatewayInv, NEW r, NEW F, Progress(tracker, r, F), F \subseteq uplink,
         NEW queue \in Seq(CommandSend), Range(queue) \subseteq Range(output),
         applyTrackerActions(r, queue),
         Range(discarded') \subseteq Range(output) \cup Range(discarded),
         downlink' \subseteq downlink \cup {FrameOf(s) : s \in Range(output)},
         UNCHANGED <<nodeVars, cmdQueue, command, assigned>>
  PROVE  Applied(r, F)
<1>1. output' = queue \o r.send /\ r.send \in Seq(CommandSend)
  BY DEF applyTrackerActions, Progress, SendsHeld
<1>2. Range(output') \subseteq Range(output) \cup Range(r.send)
  BY <1>1, RangeFacts
<1>3. QED
  BY <1>2 DEF Applied, FramesMove

LinkStep ==
  \/ \E r, F : Applied(r, F)
  \/ Quiet
  \/ SubmitNext
  \/ RejectNext
  \/ \E c \in Command : SubmitCommand(c)
  \/ NodeSide

LEMMA HandlerSteps ==
  ASSUME GatewayInv, NodeTypeOK, Handler
  PROVE  GatewayInv' /\ LinkStep
<1>1. /\ tracker \in Tracker /\ TrackerInv(tracker)
      /\ output \in Seq(CommandSend)
      /\ discarded \in Seq(CommandSend)
      /\ begun \in BOOLEAN
      /\ reactor \in {"idle", "replace", "submit", "discard"}
      /\ processed \in 0 .. BatchSize
      /\ notified \in BOOLEAN
      /\ replacements \in Nat
      /\ reloads \in 0 .. MaxReplacements
      /\ downlink \subseteq DownFrame
      /\ uplink \subseteq UpFrame
      /\ << >> \in Seq(CommandSend)
      /\ Range(<< >>) = {}
  BY RangeFacts DEF GatewayInv, GatewayTypeOK, NodeTypeOK
<1>2. 0 \in 0 .. BatchSize
  BY LinkAssumption
<1>3. CASE OnDownlinkEvent
  <2>1. GatewayTypeOK'
    BY <1>3 DEF GatewayInv, GatewayTypeOK, OnDownlinkEvent
  <2>2. FramesMove({})
    BY <1>3 DEF FramesMove, OnDownlinkEvent
  <2>3. QED
    BY <1>3, <2>1, <2>2, PassingStep DEF OnDownlinkEvent, LinkStep
<1>4. CASE ReplacementFails
  <2>1. replacements' \in Nat
    BY <1>1, <1>4 DEF ReplacementFails
  <2>2. GatewayTypeOK'
    BY <1>4, <2>1 DEF GatewayInv, GatewayTypeOK, ReplacementFails
  <2>3. FramesMove({})
    BY <1>4 DEF FramesMove, ReplacementFails
  <2>4. QED
    BY <1>4, <2>2, <2>3, PassingStep DEF ReplacementFails, LinkStep
<1>5. CASE ReplaceSerial
  <2> DEFINE r == start(tracker, tracker.session)
  <2>1. Progress(tracker, r, {})
    BY <1>1, TrackerFields, StartStep
  <2>2. /\ applyTrackerActions(r, << >>)
        /\ begun' = FALSE
        /\ replacements' \in Nat
        /\ UNCHANGED <<nodeVars, processed, cmdQueue, discarded, reactor,
                       notified, reloads, downlink, command, assigned>>
    BY <1>1, <1>5 DEF ReplaceSerial
  <2> HIDE DEF r
  <2>3. GatewayInv'
    BY <1>1, <2>1, <2>2, ApplyStep
  <2>4. Applied(r, {})
    BY <1>1, <2>1, <2>2, AppliedStep
  <2>5. QED
    BY <2>3, <2>4 DEF LinkStep
<1>6. CASE BeginSubmitting
  <2>1. CASE cmdQueue # << >> /\ tracker.state = "Closed"
    <3>1. PICK epoch \in Epoch :
            applyTrackerActions(start(tracker, epoch), output)
      BY <1>6, <2>1 DEF BeginSubmitting
    <3> DEFINE r == start(tracker, epoch)
    <3>2. epoch \in Session
      BY LinkAssumption DEF UsedSession
    <3>3. Progress(tracker, r, {})
      BY <1>1, <3>2, StartStep
    <3>4. /\ applyTrackerActions(r, output)
          /\ reactor' = "submit"
          /\ UNCHANGED <<nodeVars, processed, cmdQueue, begun, discarded,
                         notified, replacements, reloads, downlink, command,
                         assigned>>
      BY <1>6, <3>1 DEF BeginSubmitting
    <3> HIDE DEF r
    <3>5. GatewayInv'
      BY <1>1, <3>3, <3>4, ApplyStep
    <3>6. Applied(r, {})
      BY <1>1, <3>3, <3>4, AppliedStep
    <3>7. QED
      BY <3>5, <3>6 DEF LinkStep
  <2>2. CASE ~(cmdQueue # << >> /\ tracker.state = "Closed")
    <3>1. /\ reactor' = "submit"
          /\ UNCHANGED <<tracker, output, requests, outcome>>
          /\ UNCHANGED <<nodeVars, processed, cmdQueue, begun, discarded,
                         notified, replacements, reloads, downlink, command,
                         assigned>>
      BY <1>6, <2>2 DEF BeginSubmitting
    <3>2. GatewayTypeOK'
      BY <3>1 DEF GatewayInv, GatewayTypeOK
    <3>3. FramesMove({})
      BY <3>1 DEF FramesMove
    <3>4. QED
      BY <3>1, <3>2, <3>3, PassingStep DEF LinkStep
  <2>3. QED
    BY <2>1, <2>2
<1>7. CASE SubmitNext
  BY <1>7, SubmitNextStep DEF LinkStep
<1>8. CASE RejectNext
  BY <1>8, RejectNextStep DEF LinkStep
<1>9. CASE EndSubmitting
  <2>1. notified' \in BOOLEAN
    BY <1>1, <1>9 DEF EndSubmitting
  <2>2. GatewayTypeOK'
    BY <1>2, <1>9, <2>1 DEF GatewayInv, GatewayTypeOK, EndSubmitting
  <2>3. FramesMove({})
    BY <1>9 DEF FramesMove, EndSubmitting
  <2>4. QED
    BY <1>9, <2>2, <2>3, PassingStep DEF EndSubmitting, LinkStep
<1>10. CASE OnCommandTimer
  <2>1. PICK r \in tick(tracker) : applyTrackerActions(r, output)
    BY <1>10 DEF OnCommandTimer
  <2>2. Progress(tracker, r, {})
    BY <1>1, TickProgress
  <2>3. /\ notified' \in BOOLEAN
        /\ UNCHANGED <<nodeVars, processed, cmdQueue, begun, discarded,
                       reactor, replacements, reloads, downlink, command,
                       assigned>>
    BY <1>1, <1>10 DEF OnCommandTimer, NotifyIfQueued
  <2>4. GatewayInv'
    BY <1>1, <2>1, <2>2, <2>3, ApplyStep
  <2>5. Applied(r, {})
    BY <1>1, <2>1, <2>2, <2>3, AppliedStep
  <2>6. QED
    BY <2>4, <2>5 DEF LinkStep
<1>11. CASE \E f \in uplink : DispatchFrame(f)
  <2>1. PICK f \in uplink : DispatchFrame(f)
    BY <1>11
  <2> DEFINE r == onFrame(tracker, f)
  <2>2. Progress(tracker, r, {f})
    BY <1>1, OnFrameProgress
  <2>3. /\ applyTrackerActions(r, output)
        /\ notified' \in BOOLEAN
        /\ UNCHANGED <<nodeVars, processed, cmdQueue, begun, discarded,
                       reactor, replacements, reloads, downlink, command,
                       assigned>>
    BY <1>1, <2>1 DEF DispatchFrame, NotifyIfQueued
  <2> HIDE DEF r
  <2>4. GatewayInv'
    BY <1>1, <2>2, <2>3, ApplyStep
  <2>5. Applied(r, {f})
    BY <1>1, <2>2, <2>3, AppliedStep
  <2>6. QED
    BY <2>4, <2>5 DEF LinkStep
<1>12. ASSUME NEW sent \in BOOLEAN, output # << >>, completeFront(sent),
              downlink' = downlink \/
                downlink' = downlink \cup {FrameOf(Head(output))},
              UNCHANGED <<nodeVars, processed, cmdQueue, discarded, reactor,
                          replacements, reloads, command, assigned>>
       PROVE  GatewayInv' /\ LinkStep
  <2> DEFINE r == onWritten(tracker, Head(output), sent)
  <2>1. /\ Head(output) \in CommandSend
        /\ Tail(output) \in Seq(CommandSend)
        /\ Range(Tail(output)) \subseteq Range(output)
        /\ Head(output) \in Range(output)
    BY <1>1, <1>12, TailFacts, RangeFacts
  <2>2. Progress(tracker, r, {})
    BY <1>1, <2>1, OnWrittenStep
  <2>3. /\ applyTrackerActions(r, Tail(output))
        /\ begun' = FALSE
        /\ notified' \in BOOLEAN
    BY <1>1, <1>12 DEF completeFront, NotifyIfQueued
  <2>4. FrameOf(Head(output)) \in DownFrame
    BY <2>1, FrameOfType
  <2>5. /\ downlink' \subseteq DownFrame
        /\ downlink' \subseteq downlink \cup {FrameOf(s) : s \in Range(output)}
    BY <1>1, <1>12, <2>1, <2>4
  <2> HIDE DEF r
  <2>6. GatewayInv'
    BY <1>1, <1>12, <2>1, <2>2, <2>3, <2>5, ApplyStep
  <2>7. Applied(r, {})
    BY <1>1, <1>12, <2>1, <2>2, <2>3, <2>5, AppliedStep
  <2>8. QED
    BY <2>6, <2>7 DEF LinkStep
<1>13. CASE FlushCancel
  <2>1. /\ output # << >> /\ completeFront(FALSE)
        /\ downlink' = downlink
        /\ UNCHANGED <<nodeVars, processed, cmdQueue, discarded, reactor,
                       replacements, reloads, command, assigned>>
    BY <1>13 DEF FlushCancel
  <2>2. QED
    BY <2>1, <1>12
<1>14. CASE FlushFrame
  <2>1. /\ output # << >> /\ completeFront(TRUE)
        /\ downlink' = downlink \cup {FrameOf(Head(output))}
        /\ UNCHANGED <<nodeVars, processed, cmdQueue, discarded, reactor,
                       replacements, reloads, command, assigned>>
    BY <1>14 DEF FlushFrame
  <2>2. QED
    BY <2>1, <1>12
<1>15. CASE FlushPart
  <2>1. GatewayTypeOK'
    BY <1>15 DEF GatewayInv, GatewayTypeOK, FlushPart
  <2>2. FramesMove({})
    BY <1>15 DEF FramesMove, FlushPart
  <2>3. QED
    BY <1>15, <2>1, <2>2, PassingStep DEF FlushPart, LinkStep
<1>16. CASE FlushError
  <2>1. GatewayTypeOK'
    BY <1>1, <1>16 DEF GatewayInv, GatewayTypeOK, FlushError
  <2>2. FramesMove({})
    BY <1>1, <1>16 DEF FramesMove, FlushError
  <2>3. QED
    BY <1>16, <2>1, <2>2, PassingStep DEF FlushError, LinkStep
<1>17. CASE DiscardNext
  <2> DEFINE r == onWritten(tracker, Head(discarded), FALSE)
  <2>1. /\ Head(discarded) \in CommandSend
        /\ Tail(discarded) \in Seq(CommandSend)
        /\ Range(Tail(discarded)) \subseteq Range(discarded)
    BY <1>1, <1>17, TailFacts, RangeFacts DEF DiscardNext
  <2>2. Progress(tracker, r, {})
    BY <1>1, <2>1, OnWrittenStep
  <2>3. /\ applyTrackerActions(r, output)
        /\ discarded' = Tail(discarded)
        /\ notified' \in BOOLEAN
        /\ UNCHANGED <<nodeVars, processed, cmdQueue, begun, reactor,
                       replacements, reloads, downlink, command, assigned>>
    BY <1>1, <1>17 DEF DiscardNext, NotifyIfQueued
  <2> HIDE DEF r
  <2>4. GatewayInv'
    BY <1>1, <2>1, <2>2, <2>3, ApplyStep
  <2>5. Applied(r, {})
    BY <1>1, <2>1, <2>2, <2>3, AppliedStep
  <2>6. QED
    BY <2>4, <2>5 DEF LinkStep
<1>18. CASE DiscardEnd
  <2>1. GatewayTypeOK'
    BY <1>18 DEF GatewayInv, GatewayTypeOK, DiscardEnd
  <2>2. FramesMove({})
    BY <1>18 DEF FramesMove, DiscardEnd
  <2>3. QED
    BY <1>18, <2>1, <2>2, PassingStep DEF DiscardEnd, LinkStep
<1>19. QED
  BY <1>3, <1>4, <1>5, <1>6, <1>7, <1>8, <1>9, <1>10, <1>11, <1>13, <1>14,
     <1>15, <1>16, <1>17, <1>18 DEF Handler

LEMMA EnvironmentSteps ==
  ASSUME GatewayInv, Environment
  PROVE  GatewayInv' /\ LinkStep
<1>1. CASE \E c \in Command : SubmitCommand(c)
  BY <1>1, SubmitCommandStep DEF LinkStep
<1>2. CASE ReloadSerial
  <2>1. reloads' \in 0 .. MaxReplacements /\ replacements' \in Nat
    BY <1>2, LinkAssumption DEF GatewayInv, GatewayTypeOK, ReloadSerial
  <2>2. GatewayTypeOK'
    BY <1>2, <2>1 DEF GatewayInv, GatewayTypeOK, ReloadSerial
  <2>3. FramesMove({})
    BY <1>2 DEF FramesMove, ReloadSerial
  <2>4. QED
    BY <1>2, <2>2, <2>3, PassingStep DEF ReloadSerial, LinkStep
<1>3. CASE GatewayElapse
  <2>1. SameButTimes(tracker, tracker') /\ TrackerInv(tracker')
    BY <1>3, ElapseFacts DEF GatewayElapse, GatewayInv
  <2>2. tracker' \in Tracker
    BY <2>1 DEF TrackerInv
  <2>3. GatewayTypeOK'
    BY <1>3, <2>2 DEF GatewayInv, GatewayTypeOK, GatewayElapse
  <2>4. FramesMove({})
    BY <1>3 DEF FramesMove, GatewayElapse
  <2>5. Quiet
    BY <1>3, <2>1, <2>4 DEF Quiet, GatewayElapse
  <2>6. QED
    BY <2>1, <2>3, <2>5, QuietInv DEF LinkStep
<1>4. QED
  BY <1>1, <1>2, <1>3 DEF Environment

-----------------------------------------------------------------------------
(***************************************************************************)
(* What the node does, as the link sees it: entries fade away, or a fresh  *)
(* session, a stored command or an execution makes the difference.         *)
(***************************************************************************)
Fades(n, m) ==
  /\ m \in NodeState
  /\ m.session = n.session
  /\ m.base = n.base
  /\ m.active => n.active
  /\ \A q \in Seqs : m.entries[q].state # "free" =>
       /\ m.entries[q].state = n.entries[q].state
       /\ m.entries[q].cmd = n.entries[q].cmd

\* The entries of node' are those of node or of commands on the line.
Stores ==
  \A q \in Seqs : node'.entries[q].state # "free" =>
    \/ /\ node'.session = node.session
       /\ node.entries[q].state # "free"
       /\ node'.entries[q].cmd = node.entries[q].cmd
    \/ \E f \in downlink : /\ f.type = "COMMAND"
                           /\ f.session = node'.session
                           /\ f.seq = q
                           /\ f.cmd = node'.entries[q].cmd

\* What is executed is the entry at base.
Executes ==
  \/ executed' = executed
  \/ /\ nodePc = "execute"
     /\ \E r \in Result :
          executed' = Append(executed,
                        [session |-> node.session, seq |-> node.base,
                         cmd |-> node.entries[node.base].cmd, result |-> r])

IdleInv == nodePc = "idle" => ~NextIsBuffered(node)

NodeMoves ==
  /\ NodeIInv'
  /\ uplink \subseteq uplink'
  /\ node.session <= node'.session
  /\ \A f \in uplink' : f.type = "OPEN_ACK" =>
       f \in uplink \/ f.highWater = node'.session
  /\ Stores
  /\ Executes
  /\ IdleInv => IdleInv'

LEMMA FadesExpire ==
  ASSUME NEW n \in NodeState
  PROVE  Fades(n, expire(n))
<1>1. /\ expire(n) \in NodeState
      /\ expire(n).session = n.session
      /\ expire(n).base = n.base
      /\ expire(n).active => n.active
      /\ \A q \in Seqs : \/ expire(n).entries[q] = n.entries[q]
                         \/ expire(n).entries[q] = FreeEntry
  BY ExpireFacts
<1>2. FreeEntry.state = "free"
  BY FreeEntryType
<1>3. QED
  BY <1>1, <1>2 DEF Fades

LEMMA FadesTrans ==
  ASSUME NEW n, NEW m, NEW k, Fades(n, m), Fades(m, k)
  PROVE  Fades(n, k)
BY DEF Fades

LEMMA FadesNext ==
  ASSUME NEW n \in NodeState, NEW m, Fades(n, m), NextIsBuffered(m)
  PROVE  NextIsBuffered(n)
<1>1. m.base \in Seqs
  BY LimitsAssumption DEF Fades, NextIsBuffered, NodeState, Seqs
<1>2. QED
  BY <1>1 DEF Fades, NextIsBuffered

\* A step in which entries fade and nothing is executed.
LEMMA FadingStep ==
  ASSUME NodeIInv, NodeIInv', Fades(node, node'), uplink \subseteq uplink',
         \A f \in uplink' : f.type = "OPEN_ACK" =>
           f \in uplink \/ f.highWater = node'.session,
         executed' = executed,
         nodePc' = nodePc \/ (nodePc' = "idle" => ~NextIsBuffered(node'))
  PROVE  NodeMoves
<1>1. node \in NodeState /\ node.session \in Nat
  BY LimitsAssumption DEF NodeIInv, NodeTypeOK, NodeState, Session
<1>2. Stores
  BY DEF Stores, Fades
<1>3. IdleInv => IdleInv'
  <2>1. CASE nodePc' = nodePc
    <3>1. NextIsBuffered(node') => NextIsBuffered(node)
      BY <1>1, FadesNext
    <3>2. QED
      BY <2>1, <3>1 DEF IdleInv, NextIsBuffered
  <2>2. CASE nodePc' = "idle" => ~NextIsBuffered(node')
    BY <2>2 DEF IdleInv, NextIsBuffered
  <2>3. QED
    BY <2>1, <2>2
<1>4. QED
  BY <1>1, <1>2, <1>3 DEF NodeMoves, Executes, Fades

LEMMA OnFrameMoves ==
  ASSUME NodeIInv, downlink \subseteq DownFrame, NEW f \in downlink,
         NodeOnFrame(f)
  PROVE  NodeMoves
<1> DEFINE n == expire(node)
<1>0. NodeIInv' /\ f \in DownFrame
  BY OnFrameStep
<1>1. /\ node \in NodeState
      /\ n \in NodeState
      /\ Fades(node, n)
      /\ nodePc = "idle"
      /\ executed' = executed
      /\ node.session \in Nat
      /\ node'.session \in Nat
  BY <1>0, FadesExpire, LimitsAssumption
  DEF NodeIInv, NodeTypeOK, NodeOnFrame, Fades, NodeState, Session
<1>2. /\ f.session \in UsedSession
      /\ f.type # "OPEN" => f.seq \in Seqs
      /\ f.type = "COMMAND" => f.cmd \in Command
  BY <1>0, DownFrameTypes
<1> HIDE DEF n
<1>3. CASE OnOpen(n, f)
  <2> DEFINE m == Opened(n, f.session)
             ack == [type |-> "OPEN_ACK", session |-> f.session,
                     highWater |-> m.session,
                     rc |-> IF f.session = m.session /\ m.active
                              THEN "OK" ELSE "BAD_PARAM"]
  <2>1. node' = m /\ uplink' = uplink \cup {ack} /\ nodePc' = nodePc
    BY <1>3 DEF OnOpen, emit
  <2>2. ack.highWater = node'.session
    BY <2>1
  <2> HIDE DEF ack
  <2>3. \A g \in uplink' : g.type = "OPEN_ACK" =>
          g \in uplink \/ g.highWater = node'.session
    BY <2>1, <2>2
  <2>4. CASE f.session > n.session
    <3>1. m = [session |-> f.session, base |-> 0, active |-> TRUE,
               entries |-> NoEntries]
      BY <2>4 DEF Opened
    <3>2. /\ node'.session = f.session
          /\ node'.base = 0
          /\ \A q \in Seqs : node'.entries[q].state = "free"
      BY <2>1, <3>1, FreeEntryType
    <3>3. node.session <= node'.session
      BY <1>1, <2>4, <3>2 DEF Fades
    <3>4. ~NextIsBuffered(node')
      <4>1. 0 \in Seqs
        BY LimitsAssumption DEF Seqs
      <4>2. node'.entries[node'.base].state = "free"
        BY <3>2, <4>1
      <4>3. QED
        BY <4>2 DEF NextIsBuffered
    <3>5. IdleInv'
      BY <3>4 DEF IdleInv, NextIsBuffered
    <3>6. QED
      BY <1>0, <1>1, <2>1, <2>3, <3>2, <3>3, <3>5
      DEF NodeMoves, Stores, Executes
  <2>5. CASE ~(f.session > n.session)
    <3>1. node' = n
      BY <2>1, <2>5 DEF Opened
    <3>2. QED
      BY <1>0, <1>1, <2>1, <2>3, <3>1, FadingStep
  <2>6. QED
    BY <2>4, <2>5
<1>4. CASE OnStaleFrame(n, f)
  BY <1>0, <1>1, <1>4, FadingStep DEF OnStaleFrame
<1>5. CASE OnResultAck(n, f)
  <2> DEFINE m == [n EXCEPT !.entries[f.seq] = FreeEntry]
  <2>1. f.seq \in Seqs /\ UNCHANGED <<nodePc, uplink>> /\ (node' = m \/ node' = n)
    BY <1>2, <1>5 DEF OnResultAck
  <2>2. Fades(n, m)
    <3>1. /\ m \in NodeState
          /\ m.session = n.session
          /\ m.base = n.base
          /\ m.active = n.active
          /\ m.entries[f.seq] = FreeEntry
          /\ \A q \in Seqs : q # f.seq => m.entries[q] = n.entries[q]
      BY <1>1, <2>1, FreeEntryType DEF NodeState
    <3>2. QED
      BY <3>1, FreeEntryType DEF Fades
  <2> HIDE DEF m
  <2>3. Fades(node, node')
    BY <1>1, <2>1, <2>2, FadesTrans
  <2>4. QED
    BY <1>0, <1>1, <2>1, <2>3, FadingStep
<1>6. ASSUME NEW frames, \A g \in frames : g.type # "OPEN_ACK",
             node' = n, emit(frames), nodePc' = nodePc
      PROVE  NodeMoves
  <2>1. /\ uplink \subseteq uplink'
        /\ \A g \in uplink' : g.type = "OPEN_ACK" => g \in uplink
    BY <1>6 DEF emit
  <2>2. QED
    BY <1>0, <1>1, <1>6, <2>1, FadingStep
<1>7. \A q : /\ ReceivedOf(n, q).type = "RECEIVED"
             /\ ResultOf(n, q).type = "RESULT"
  BY DEF ReceivedOf, ResultOf
<1>8. CASE OnRepeatedCommand(n, f)
  <2> DEFINE frames ==
        IF n.entries[f.seq].cmd # f.cmd THEN {}
        ELSE {ReceivedOf(n, f.seq)} \cup
             (IF n.entries[f.seq].state = "executed"
                THEN {ResultOf(n, f.seq)} ELSE {})
  <2>1. node' = n /\ emit(frames) /\ nodePc' = nodePc
    BY <1>8 DEF OnRepeatedCommand
  <2>2. \A g \in frames : g.type # "OPEN_ACK"
    BY <1>7
  <2> HIDE DEF frames
  <2>3. QED
    BY <1>6, <2>1, <2>2
<1>9. CASE OnOldCommand(n, f)
  BY <1>6, <1>7, <1>9 DEF OnOldCommand
<1>10. CASE OnRefusedCommand(n, f)
  BY <1>0, <1>1, <1>10, FadingStep DEF OnRefusedCommand
<1>11. CASE OnNewCommand(n, f)
  <2> DEFINE p == f.seq
             m == [n EXCEPT !.entries[p] = BufferedEntry(f.cmd)]
             got == ReceivedOf(n, p)
  <2>1. /\ f.type = "COMMAND"
        /\ f.session = n.session
        /\ p \in Seqs
        /\ f.cmd \in Command
        /\ node' = m
        /\ uplink' = uplink \cup {got}
        /\ nodePc' = "deliver"
    BY <1>2, <1>11 DEF OnNewCommand, InSession, emit
  <2>2. got.type = "RECEIVED"
    BY <1>7
  <2> HIDE DEF got
  <2>3. /\ m.session = n.session
        /\ m.entries[p] = BufferedEntry(f.cmd)
        /\ \A q \in Seqs : q # p => m.entries[q] = n.entries[q]
    BY <1>1, <2>1, BufferedEntryType DEF NodeState
  <2> HIDE DEF m
  <2>4. m.entries[p].cmd = f.cmd
    BY <2>1, <2>3, BufferedEntryType
  <2>5. node.session = node'.session
    BY <1>1, <2>1, <2>3 DEF Fades
  <2>6. Stores
    <3>1. SUFFICES ASSUME NEW q \in Seqs, m.entries[q].state # "free"
          PROVE  \/ /\ node'.session = node.session
                    /\ node.entries[q].state # "free"
                    /\ m.entries[q].cmd = node.entries[q].cmd
                 \/ \E g \in downlink : /\ g.type = "COMMAND"
                                        /\ g.session = node'.session
                                        /\ g.seq = q
                                        /\ g.cmd = m.entries[q].cmd
      BY <2>1 DEF Stores
    <3>2. CASE q = p
      BY <2>1, <2>3, <2>4, <3>2
    <3>3. CASE q # p
      BY <1>1, <2>3, <2>5, <3>1, <3>3 DEF Fades
    <3>4. QED
      BY <3>2, <3>3
  <2>7. IdleInv'
    BY <2>1 DEF IdleInv
  <2>8. QED
    BY <1>0, <1>1, <2>1, <2>2, <2>5, <2>6, <2>7 DEF NodeMoves, Executes
<1>12. QED
  BY <1>3, <1>4, <1>5, <1>8, <1>9, <1>10, <1>11 DEF NodeOnFrame, n

LEMMA ExecutedMoves ==
  ASSUME NodeIInv, NEW r \in Returned, NodeExecuted(r)
  PROVE  NodeMoves
<1> DEFINE b == node.base
           e == node.entries[b]
           d == ExecutedEntry(e.cmd, Stored(r))
           m == [node EXCEPT !.entries[b] = d, !.base = b + 1]
           done == ResultOf(m, b)
           x == [session |-> node.session, seq |-> b, cmd |-> e.cmd,
                 result |-> Stored(r)]
<1>1. /\ nodePc = "execute"
      /\ node' = m
      /\ uplink' = uplink \cup {done}
      /\ executed' = Append(executed, x)
      /\ nodePc' = "deliver"
  BY DEF NodeExecuted, emit
<1>2. /\ NodeIInv'
      /\ node \in NodeState
      /\ b \in Seqs
      /\ e.state = "buffered"
  <2>1. NextIsBuffered(node) /\ node \in NodeState
    BY <1>1 DEF NodeIInv, NodeTypeOK
  <2>2. b \in Seqs
    BY <2>1, LimitsAssumption DEF NodeState, NextIsBuffered, Seqs
  <2>3. QED
    BY <2>1, <2>2, ExecutedStep DEF NextIsBuffered
<1>3. done.type = "RESULT" /\ d.cmd = e.cmd
  BY DEF ResultOf, ExecutedEntry
<1>4. /\ m.session = node.session
      /\ m.entries = [node.entries EXCEPT ![b] = d]
  BY <1>2 DEF NodeState
<1>5. node.entries \in [Seqs -> Entry]
  BY <1>2 DEF NodeState
<1> HIDE DEF m, d, done
<1>6. \A q \in Seqs : q # b => m.entries[q] = node.entries[q]
  BY <1>4, <1>5
<1>7. m.entries[b] = d
  BY <1>2, <1>4, <1>5
<1>8. Stores
  <2>1. \A q \in Seqs : m.entries[q].state # "free" =>
          /\ node.entries[q].state # "free"
          /\ m.entries[q].cmd = node.entries[q].cmd
    BY <1>2, <1>3, <1>6, <1>7
  <2>2. QED
    BY <1>1, <1>4, <2>1 DEF Stores
<1>9. Executes
  <2>1. Stored(r) \in Result
    BY ReturnedAssumption DEF Stored, Result, NoResult
  <2>2. QED
    BY <1>1, <2>1 DEF Executes
<1>10. IdleInv'
  BY <1>1 DEF IdleInv
<1>11. node.session <= node'.session
  BY <1>1, <1>2, <1>4, LimitsAssumption DEF NodeState, Session
<1>12. QED
  BY <1>1, <1>2, <1>3, <1>8, <1>9, <1>10, <1>11 DEF NodeMoves

LEMMA DeliverMoves ==
  ASSUME NodeIInv, NodeDeliver
  PROVE  NodeMoves
<1> DEFINE n == IF node.base < SeqSpace THEN expire(node) ELSE node
<1>1. node \in NodeState
  BY DEF NodeIInv, NodeTypeOK
<1>2. Fades(node, n)
  <2>1. Fades(node, expire(node)) /\ Fades(node, node)
    BY <1>1, FadesExpire DEF Fades
  <2>2. QED
    BY <2>1
<1>3. /\ node' = n
      /\ nodePc' = IF NextIsBuffered(n) THEN "execute" ELSE "idle"
      /\ UNCHANGED <<uplink, executed>>
  BY DEF NodeDeliver
<1> HIDE DEF n
<1>4. nodePc' = "idle" => ~NextIsBuffered(node')
  BY <1>3
<1>5. QED
  BY <1>2, <1>3, <1>4, DeliverStep, FadingStep

LEMMA RetouchFades ==
  ASSUME NEW n \in NodeState, NEW es \in [Seqs -> Entry],
         \A q \in Seqs : /\ es[q].state = n.entries[q].state
                         /\ es[q].cmd = n.entries[q].cmd
  PROVE  Fades(n, [n EXCEPT !.entries = es])
<1> DEFINE m == [n EXCEPT !.entries = es]
<1>1. /\ m \in NodeState
      /\ m.session = n.session
      /\ m.base = n.base
      /\ m.active = n.active
      /\ m.entries = es
  BY DEF NodeState
<1> HIDE DEF m
<1>2. Fades(n, m)
  BY <1>1 DEF Fades
<1>3. QED
  BY <1>2 DEF m

LEMMA TickMoves ==
  ASSUME NodeIInv, NodeTick
  PROVE  NodeMoves
<1> DEFINE n == expire(node)
           due == {q \in Seqs : n.active /\ ResendDue(n.entries[q])}
           again(q) == [n.entries[q] EXCEPT !.retries = @ + 1, !.sentAge = 0]
           es == [q \in Seqs |-> IF q \in due THEN again(q) ELSE n.entries[q]]
           frames == {ResultOf(n, q) : q \in due}
<1>1. node \in NodeState /\ n \in NodeState /\ Fades(node, n)
  BY FadesExpire DEF NodeIInv, NodeTypeOK, Fades
<1>2. /\ node' = [n EXCEPT !.entries = es]
      /\ uplink' = uplink \cup frames
      /\ UNCHANGED <<nodePc, executed>>
  BY DEF NodeTick, emit
<1>3. \A g \in frames : g.type = "RESULT"
  BY DEF ResultOf
<1> HIDE DEF n, frames
<1>4. ASSUME NEW q \in due
      PROVE  /\ again(q) \in Entry
             /\ again(q).state = n.entries[q].state
             /\ again(q).cmd = n.entries[q].cmd
  <2>1. q \in Seqs /\ n.entries[q] \in Entry /\ n.entries[q].retries < MaxRetry
    BY <1>1 DEF NodeState, ResendDue
  <2>2. ASSUME NEW e \in Entry, e.retries < MaxRetry
        PROVE  LET a == [e EXCEPT !.retries = @ + 1, !.sentAge = 0] IN
               a \in Entry /\ a.state = e.state /\ a.cmd = e.cmd
    <3>1. e.retries + 1 \in 0 .. MaxRetry
      BY <2>2, LimitsAssumption DEF Entry
    <3>2. QED
      BY <3>1 DEF Entry
  <2>3. QED
    BY <2>1, <2>2
<1>5. /\ es \in [Seqs -> Entry]
      /\ \A q \in Seqs : /\ es[q].state = n.entries[q].state
                         /\ es[q].cmd = n.entries[q].cmd
  <2> HIDE DEF again, due
  <2>1. n.entries \in [Seqs -> Entry]
    BY <1>1 DEF NodeState
  <2>2. QED
    BY <1>4, <2>1
<1> HIDE DEF es
<1>6. Fades(node, node')
  BY <1>1, <1>2, <1>5, RetouchFades, FadesTrans
<1>7. QED
  BY <1>2, <1>3, <1>6, TickStep, FadingStep

LEMMA ElapseMoves ==
  ASSUME NodeIInv, NodeElapse
  PROVE  NodeMoves
<1> DEFINE es == [q \in Seqs |-> OlderEntry(node.entries[q])]
<1>1. node \in NodeState /\ node.entries \in [Seqs -> Entry]
  BY DEF NodeIInv, NodeTypeOK, NodeState
<1>2. ASSUME NEW e \in Entry
      PROVE  /\ OlderEntry(e) \in Entry
             /\ OlderEntry(e).state = e.state
             /\ OlderEntry(e).cmd = e.cmd
  <2>1. \A a \in Nat : \A l : Older(a, l) \in Nat
    BY DEF Older
  <2>2. CASE e.state = "free"
    BY <2>2 DEF OlderEntry
  <2>3. CASE e.state = "buffered"
    BY <2>1, <2>3 DEF OlderEntry, Entry
  <2>4. CASE e.state = "executed"
    BY <2>1, <2>4 DEF OlderEntry, Entry
  <2>5. QED
    BY <2>2, <2>3, <2>4 DEF Entry
<1>3. /\ es \in [Seqs -> Entry]
      /\ \A q \in Seqs : /\ es[q].state = node.entries[q].state
                         /\ es[q].cmd = node.entries[q].cmd
  BY <1>1, <1>2
<1>4. /\ node' = [node EXCEPT !.entries = es]
      /\ UNCHANGED <<nodePc, uplink, executed>>
  BY DEF NodeElapse
<1> HIDE DEF es
<1>5. Fades(node, node')
  BY <1>1, <1>3, <1>4, RetouchFades
<1>6. QED
  BY <1>4, <1>5, ElapseStep, FadingStep

\* Whatever the node does, with the frames of the line.
LEMMA NodeSideMoves ==
  ASSUME NodeIInv, downlink \subseteq DownFrame, NodeSide
  PROVE  NodeMoves
BY OnFrameMoves, DeliverMoves, ExecutedMoves, TickMoves, ElapseMoves
DEF NodeSide, NodeStep

-----------------------------------------------------------------------------
(***************************************************************************)
(* The two ends together.  A session that is ready at the gateway was      *)
(* opened by the node, whose session numbers only grow; what the gateway   *)
(* has seen received is on the line; and between two calls the node has    *)
(* executed all it can.                                                    *)
(***************************************************************************)
HighWaterInv ==
  \A f \in uplink : f.type = "OPEN_ACK" => f.highWater <= node.session

ReadyInv == tracker.state = "Ready" => tracker.session <= node.session

HeardInv ==
  \A q \in Seqs : tracker.received[q] => Answers(uplink, tracker.session, q)

LineInv ==
  /\ NodeIInv
  /\ GatewayInv
  /\ IdleInv
  /\ HighWaterInv
  /\ ReadyInv
  /\ HeardInv

LEMMA LineTypes ==
  ASSUME LineInv
  PROVE  /\ NodeTypeOK
         /\ node.session \in Nat
         /\ tracker.session \in Nat
         /\ tracker \in Tracker
         /\ uplink \subseteq UpFrame
         /\ downlink \subseteq DownFrame
         /\ \A f \in uplink : f.type = "OPEN_ACK" => f.highWater \in Nat
<1>1. /\ node \in NodeState
      /\ tracker \in Tracker
      /\ uplink \subseteq UpFrame
      /\ downlink \subseteq DownFrame
      /\ NodeTypeOK
  BY DEF LineInv, NodeIInv, NodeTypeOK, GatewayInv, GatewayTypeOK
<1>2. \A x \in Session : x \in Nat
  BY LimitsAssumption DEF Session
<1>3. node.session \in Nat /\ tracker.session \in Nat
  BY <1>1, <1>2, TrackerFields DEF NodeState
<1>4. \A f \in uplink : f.type = "OPEN_ACK" => f.highWater \in Nat
  BY <1>1, <1>2, OpenAckType
<1>5. QED
  BY <1>1, <1>3, <1>4

LEMMA NodeSideLine ==
  ASSUME LineInv, NodeSide
  PROVE  LineInv' /\ NodeMoves
<1>1. NodeMoves
  BY LineTypes, NodeSideMoves DEF LineInv
<1>2. /\ NodeIInv'
      /\ uplink \subseteq uplink'
      /\ node.session <= node'.session
      /\ \A f \in uplink' : f.type = "OPEN_ACK" =>
           f \in uplink \/ f.highWater = node'.session
      /\ IdleInv'
  BY <1>1 DEF NodeMoves, LineInv
<1>3. node'.session \in Nat /\ node.session \in Nat /\ tracker.session \in Nat
  <2>1. node' \in NodeState
    BY <1>2 DEF NodeIInv, NodeTypeOK
  <2>2. QED
    BY <2>1, LineTypes, LimitsAssumption DEF NodeState, Session
<1>4. UNCHANGED gatewayVars
  BY DEF NodeSide
<1>5. GatewayInv'
  <2>1. GatewayTypeOK'
    BY <1>4 DEF LineInv, GatewayInv, GatewayTypeOK, gatewayVars
  <2>2. QED
    BY <1>4, <2>1, GatewaySame DEF LineInv, gatewayVars
<1>6. HighWaterInv'
  BY <1>2, <1>3, LineTypes DEF LineInv, HighWaterInv
<1>7. tracker' = tracker
  BY <1>4 DEF gatewayVars
<1>8. ReadyInv'
  BY <1>2, <1>3, <1>7 DEF LineInv, ReadyInv
<1>9. HeardInv'
  BY <1>2, <1>7 DEF LineInv, HeardInv, Answers
<1>10. QED
  BY <1>1, <1>2, <1>5, <1>6, <1>8, <1>9 DEF LineInv

\* What the steps of the gateway leave of the node's side.
LEMMA NodeKept ==
  ASSUME LineInv, UNCHANGED nodeVars
  PROVE  NodeIInv' /\ IdleInv' /\ HighWaterInv'
<1>1. NodeIInv'
  BY NodeStutter DEF LineInv
<1>2. IdleInv' /\ HighWaterInv'
  BY DEF LineInv, IdleInv, HighWaterInv, nodeVars, NextIsBuffered
<1>3. QED
  BY <1>1, <1>2

LEMMA GatewaySideLine ==
  ASSUME LineInv, GatewayInv', LinkStep, ~NodeSide
  PROVE  LineInv'
<1>1. CASE \E r, F : Applied(r, F)
  <2>1. PICK r, F : Applied(r, F)
    BY <1>1
  <2>2. /\ UNCHANGED nodeVars
        /\ tracker' = r.t
        /\ F \subseteq uplink
        /\ Hears(tracker, r, F)
    BY <2>1 DEF Applied, applyTrackerActions, Progress
  <2>3. UNCHANGED <<node, uplink>>
    BY <2>2 DEF nodeVars
  <2>4. ReadyInv'
    BY <2>2, <2>3 DEF Hears, LineInv, ReadyInv, HighWaterInv
  <2>5. HeardInv'
    BY <2>2, <2>3 DEF Hears, LineInv, HeardInv, Answers
  <2>6. QED
    BY <2>2, <2>4, <2>5, NodeKept DEF LineInv
<1>2. ASSUME UNCHANGED nodeVars,
             /\ tracker'.state = tracker.state
             /\ tracker'.session = tracker.session
             /\ tracker'.received = tracker.received
      PROVE  LineInv'
  <2>1. UNCHANGED <<node, uplink>>
    BY <1>2 DEF nodeVars
  <2>2. ReadyInv' /\ HeardInv'
    BY <1>2, <2>1 DEF LineInv, ReadyInv, HeardInv
  <2>3. QED
    BY <1>2, <2>2, NodeKept DEF LineInv
<1>3. CASE Quiet
  BY <1>2, <1>3 DEF Quiet, SameButTimes
<1>4. CASE SubmitNext
  <2> DEFINE c == command[Head(cmdQueue)]
  <2>1. /\ UNCHANGED nodeVars
        /\ canSubmit(tracker)
        /\ tracker' = submit(tracker, c).t
        /\ TrackerInv(tracker)
    BY <1>4 DEF SubmitNext, LineInv, GatewayInv
  <2>2. c \in Command
    <3>1. cmdQueue # << >> /\ cmdQueue \in Seq(Id) /\ command \in Seq(Command)
      BY <1>4 DEF SubmitNext, LineInv, GatewayInv, GatewayTypeOK
    <3>2. Head(cmdQueue) = cmdQueue[1] /\ 1 \in 1 .. Len(cmdQueue)
      BY <3>1, TailFacts
    <3>3. Head(cmdQueue) \in Ids
      BY <3>2 DEF LineInv, GatewayInv, QueueInv
    <3>4. QED
      BY <3>1, <3>3 DEF Ids
  <2> HIDE DEF c
  <2>3. /\ tracker'.state = tracker.state
        /\ tracker'.session = tracker.session
        /\ tracker'.received = tracker.received
    BY <2>1, <2>2, SubmitFacts
  <2>4. QED
    BY <1>2, <2>1, <2>3
<1>5. CASE RejectNext
  BY <1>2, <1>5 DEF RejectNext
<1>6. CASE \E c \in Command : SubmitCommand(c)
  BY <1>2, <1>6 DEF SubmitCommand
<1>7. QED
  BY <1>1, <1>3, <1>4, <1>5, <1>6 DEF LinkStep

(***************************************************************************)
(* Every step of the link keeps the invariant.                             *)
(***************************************************************************)
LEMMA LinkLine ==
  ASSUME LineInv, LinkNext
  PROVE  LineInv' /\ GatewayInv' /\ LinkStep /\ (NodeSide => NodeMoves)
<1>1. CASE NodeSide
  BY <1>1, NodeSideLine DEF LinkStep, LineInv
<1>2. CASE Handler /\ ~NodeSide
  <2>1. GatewayInv' /\ LinkStep
    BY <1>2, LineTypes, HandlerSteps DEF LineInv
  <2>2. QED
    BY <1>2, <2>1, GatewaySideLine
<1>3. CASE Environment /\ ~NodeSide
  <2>1. GatewayInv' /\ LinkStep
    BY <1>3, EnvironmentSteps DEF LineInv
  <2>2. QED
    BY <1>3, <2>1, GatewaySideLine
<1>4. QED
  BY <1>1, <1>2, <1>3 DEF LinkNext

LEMMA LinkStutterLine ==
  ASSUME LineInv, UNCHANGED linkVars
  PROVE  LineInv'
<1>1. UNCHANGED gatewayVars /\ UNCHANGED nodeVars
  BY DEF linkVars, gatewayVars, nodeVars
<1>2. GatewayTypeOK'
  BY <1>1 DEF LineInv, GatewayInv, GatewayTypeOK, gatewayVars
<1>3. GatewayInv'
  BY <1>1, <1>2, GatewaySame DEF LineInv, gatewayVars
<1>4. ReadyInv' /\ HeardInv'
  BY <1>1 DEF LineInv, ReadyInv, HeardInv, gatewayVars, nodeVars
<1>5. QED
  BY <1>1, <1>3, <1>4, NodeKept DEF LineInv

LEMMA LineInitially ==
  ASSUME LinkInit
  PROVE  LineInv
<1>1. NodeIInv /\ GatewayInv
  BY NodeInitially, GatewayInitially DEF LinkInit
<1>2. uplink = {} /\ node.active = FALSE
  BY DEF LinkInit, NodeInit
<1>3. /\ tracker.state = "Closed"
      /\ \A q \in Seqs : ~tracker.received[q]
  BY NoEntryType DEF LinkInit, ClosedTracker
<1>4. IdleInv /\ HighWaterInv /\ ReadyInv /\ HeardInv
  BY <1>2, <1>3
  DEF IdleInv, NextIsBuffered, HighWaterInv, ReadyInv, HeardInv
<1>5. QED
  BY <1>1, <1>4 DEF LineInv

(***************************************************************************)
(* The destructor tells every command still open, and a new process begins *)
(* with empty hands.                                                       *)
(***************************************************************************)
LEMMA RestartLine ==
  ASSUME LineInv, GatewayRestart
  PROVE  LineInv'
<1> DEFINE open(id) == \/ \E q \in Seqs : requests[q] = id
                       \/ \E i \in DOMAIN cmdQueue : cmdQueue[i] = id
           new(id) == IF open(id) THEN "gateway_shutdown" ELSE outcome[id]
<1>1. /\ outcome' = [id \in DOMAIN outcome |-> new(id)]
      /\ tracker' = ClosedTracker
      /\ cmdQueue' = << >>
      /\ requests' = [q \in Seqs |-> 0]
      /\ output' = << >>
      /\ begun' = FALSE
      /\ notified' = FALSE
      /\ replacements' = 0
      /\ UNCHANGED <<nodeVars, discarded, reactor, processed, reloads,
                     downlink, command, assigned>>
  BY DEF GatewayRestart
<1>2. /\ TrackerInv(tracker') /\ tracker' \in Tracker
      /\ tracker'.state = "Closed"
      /\ \A q \in Seqs : ~tracker'.entries[q].held /\ ~tracker'.received[q]
  BY <1>1, ClosedTrackerInv, NoEntryType DEF TrackerInv, ClosedTracker
<1>3. /\ outcome \in Seq(Outcome)
      /\ DOMAIN outcome = 1 .. Len(outcome)
      /\ Len(outcome) \in Nat
  BY DEF LineInv, GatewayInv, GatewayTypeOK
<1>4. \A id \in DOMAIN outcome : new(id) \in Outcome
  <2>1. "gateway_shutdown" \in Outcome
    BY DEF Outcome
  <2>2. \A id \in DOMAIN outcome : outcome[id] \in Outcome
    BY <1>3
  <2>3. QED
    BY <2>1, <2>2
<1>5. \A id \in DOMAIN outcome : new(id) # "pending"
  BY DEF LineInv, GatewayInv, NothingForgotten
<1> HIDE DEF new
<1>6. /\ outcome' \in Seq(Outcome)
      /\ Len(outcome') = Len(outcome)
      /\ DOMAIN outcome' = DOMAIN outcome
      /\ \A id \in DOMAIN outcome : outcome'[id] = new(id)
  <2>1. outcome' \in [1 .. Len(outcome) -> Outcome]
    BY <1>1, <1>3, <1>4
  <2>2. QED
    BY <1>1, <1>3, <2>1
<1>7. /\ cmdQueue' \in Seq(Id) /\ Len(cmdQueue') = 0
      /\ output' \in Seq(CommandSend)
      /\ requests' \in [Seqs -> Id \cup {0}]
      /\ \A q \in Seqs : requests'[q] = 0
  BY <1>1
<1>8. GatewayTypeOK'
  BY <1>1, <1>2, <1>6, <1>7 DEF LineInv, GatewayInv, GatewayTypeOK
<1>9. HistoryInv'
  BY <1>1, <1>6 DEF LineInv, GatewayInv, HistoryInv
<1>10. MatchInv' /\ QueueInv'
  BY <1>2, <1>7 DEF MatchInv, QueueInv
<1>11. NothingForgotten'
  BY <1>5, <1>6 DEF NothingForgotten
<1>12. ReadyInv' /\ HeardInv'
  BY <1>2 DEF ReadyInv, HeardInv
<1>13. UNCHANGED nodeVars
  BY <1>1
<1>14. QED
  BY <1>2, <1>8, <1>9, <1>10, <1>11, <1>12, <1>13, NodeKept
  DEF LineInv, GatewayInv

-----------------------------------------------------------------------------
(***************************************************************************)
(* The invariant of the command link, with any number of port replacements *)
(* and restarts of the gateway: the node's, that of requests_, cmd_queue_  *)
(* and entries_ together, and what an open session may rely on.            *)
(***************************************************************************)
THEOREM RestartInvariant == RestartSpec => []LineInv
<1>1. RestartInit => LineInv
  BY LineInitially DEF RestartInit
<1>2. LineInv /\ [RestartNext]_restartVars => LineInv'
  <2> SUFFICES ASSUME LineInv, [RestartNext]_restartVars PROVE LineInv'
    OBVIOUS
  <2>1. CASE LinkNext
    BY <2>1, LinkLine
  <2>2. CASE GatewayRestart
    BY <2>2, RestartLine
  <2>3. CASE UNCHANGED restartVars
    BY <2>3, LinkStutterLine DEF restartVars
  <2>4. QED
    BY <2>1, <2>2, <2>3 DEF RestartNext
<1>3. QED
  BY <1>1, <1>2, PTL DEF RestartSpec

(***************************************************************************)
(* The same invariant in every behaviour of a single gateway process, from *)
(* run() to its end, whatever its handlers are interleaved with.           *)
(***************************************************************************)
THEOREM LinkInvariant == LinkSpec => []LineInv
<1>1. LinkInit => LineInv
  BY LineInitially
<1>2. LineInv /\ [LinkNext]_linkVars => LineInv'
  BY LinkLine, LinkStutterLine
<1>3. QED
  BY <1>1, <1>2, PTL DEF LinkSpec

(***************************************************************************)
(* requests_ and the tracker's entries hold the same numbers, each for the *)
(* command that was given it and is still to be reported, between any two  *)
(* handlers, with any number of commands, sessions, retries and restarts   *)
(* (GatewayApp.cpp:247, 285-303).                                          *)
(***************************************************************************)
THEOREM LinkRequestsMatchEntries == RestartSpec => []RequestsMatchEntries
<1>1. LineInv => RequestsMatchEntries
  BY DEF LineInv, NodeIInv, GatewayInv, MatchInv, RequestsMatchEntries,
     LinkTypeOK
<1>2. QED
  BY <1>1, RestartInvariant, PTL

(***************************************************************************)
(* A gateway that goes down has every unreported command in its hands, in  *)
(* cmd_queue_ or in requests_, so the destructor reports each of them      *)
(* (GatewayApp.cpp:75-80).                                                 *)
(***************************************************************************)
THEOREM LinkNothingForgotten == RestartSpec => []NothingForgotten
<1>1. LineInv => NothingForgotten
  BY DEF LineInv, GatewayInv
<1>2. QED
  BY <1>1, RestartInvariant, PTL

\* What the gateway has seen received without a gap the node has executed.
LEMMA SettledFrontier ==
  ASSUME LineInv, node.active, nodePc = "idle",
         node.session = tracker.session
  PROVE  tracker.base <= node.base
<1>1. /\ node.base \in 0 .. SeqSpace
      /\ tracker.base \in 0 .. SeqSpace
      /\ TrackerInv(tracker)
      /\ node.base \in Nat /\ tracker.base \in Nat
  BY LineTypes, TrackerFields, LimitsAssumption
  DEF NodeTypeOK, NodeState, LineInv, GatewayInv
<1>2. SUFFICES ASSUME ~(tracker.base <= node.base) PROVE FALSE
  OBVIOUS
<1>3. node.base < tracker.base /\ node.base \in Seqs /\ node.base < SeqSpace
  BY <1>1, <1>2, LimitsAssumption DEF Seqs
<1>4. tracker.received[node.base]
  BY <1>1, <1>3 DEF TrackerInv, EntryInv
<1>5. PICK f \in uplink : /\ f.type \in {"RECEIVED", "RESULT"}
                          /\ f.session = node.session
                          /\ f.seq = node.base
  BY <1>3, <1>4 DEF LineInv, HeardInv, Answers
<1>6. ~(f.seq < node.base)
  BY <1>1, <1>5
<1>7. CASE f.type = "RECEIVED"
  <2>1. node.entries[node.base].state = "buffered"
    BY <1>5, <1>6, <1>7 DEF LineInv, NodeIInv, ReceivedIsKept
  <2>2. NextIsBuffered(node)
    BY <1>3, <2>1 DEF NextIsBuffered
  <2>3. QED
    BY <2>2 DEF LineInv, IdleInv
<1>8. CASE f.type = "RESULT"
  <2>1. PICK i \in 1 .. Len(executed) :
          executed[i].session = f.session /\ executed[i].seq = f.seq
    BY <1>8 DEF LineInv, NodeIInv, ResultsAreOfExecutions
  <2>2. Before(executed[i].session, executed[i].seq, node.session, node.base)
    BY <2>1 DEF LineInv, NodeIInv, FrontierInv
  <2>3. ~(node.session < node.session)
    BY LineTypes
  <2>4. QED
    BY <1>1, <1>5, <2>1, <2>2, <2>3 DEF Before
<1>9. QED
  BY <1>5, <1>7, <1>8

(***************************************************************************)
(* The gateway's window never runs ahead of the node's: in an open session *)
(* every number the gateway may have used lies in the node's window, for   *)
(* any Window and pool (CommandTracker.cpp:97, edge_sr.c:119-140).         *)
(***************************************************************************)
THEOREM LinkWindowsAgree == RestartSpec => []WindowsAgree
<1>1. LineInv => WindowsAgree
  <2>1. SUFFICES ASSUME LineInv, node.active, nodePc = "idle",
                        node.session = tracker.session
        PROVE  /\ tracker.base <= node.base
               /\ \A q \in Seqs : q < tracker.next => q < node.base + Window
    BY DEF WindowsAgree
  <2>2. tracker.base <= node.base
    BY <2>1, SettledFrontier
  <2>3. /\ node.base \in Nat /\ tracker.base \in Nat /\ tracker.next \in Nat
        /\ tracker.next <= tracker.base + Window
    BY <2>1, LineTypes, TrackerFields, LimitsAssumption
    DEF NodeTypeOK, NodeState, LineInv, GatewayInv, TrackerInv
  <2>4. \A q \in Seqs : q < tracker.next => q < node.base + Window
    BY <2>2, <2>3, LimitsAssumption DEF Seqs
  <2>5. QED
    BY <2>2, <2>4
<1>2. QED
  BY <1>1, RestartInvariant, PTL

\* An execution of the node is one of the session it is in, which is not
\* behind the tracker's.
LEMMA NoStaleStep ==
  ASSUME LineInv, NodeMoves, tracker.state = "Ready"
  PROVE  \A i \in DOMAIN executed' :
           i \notin DOMAIN executed =>
             executed'[i].session >= tracker.session
<1>1. executed \in Seq(Execution)
  BY LineTypes DEF NodeTypeOK
<1>2. CASE executed' = executed
  BY <1>2
<1>3. CASE executed' # executed
  <2>1. PICK r \in Result :
          executed' = Append(executed,
                        [session |-> node.session, seq |-> node.base,
                         cmd |-> node.entries[node.base].cmd, result |-> r])
    BY <1>3 DEF NodeMoves, Executes
  <2> DEFINE x == [session |-> node.session, seq |-> node.base,
                   cmd |-> node.entries[node.base].cmd, result |-> r]
  <2>2. executed' = Append(executed, x) /\ x.session = node.session
    BY <2>1
  <2> HIDE DEF x
  <2>3. ASSUME NEW i \in DOMAIN executed', i \notin DOMAIN executed
        PROVE  executed'[i] = x
    BY <1>1, <2>2, <2>3
  <2>4. node.session >= tracker.session
    BY LineTypes DEF LineInv, ReadyInv
  <2>5. QED
    BY <2>2, <2>3, <2>4
<1>4. QED
  BY <1>2, <1>3

(***************************************************************************)
(* Once the tracker's session is ready the node executes no command of an  *)
(* earlier one, across any number of restarts with any clock: what an      *)
(* abort gave up cannot come after what follows it (edge_sr.c:104,         *)
(* CommandTracker.cpp:48).                                                 *)
(***************************************************************************)
THEOREM LinkNoStaleExecution == RestartSpec => NoStaleExecution
<1> DEFINE Fresh == \A i \in DOMAIN executed' :
                      (i \notin DOMAIN executed /\ tracker.state = "Ready") =>
                        executed'[i].session >= tracker.session
<1>1. LineInv /\ [RestartNext]_restartVars => [Fresh]_executed
  <2> SUFFICES ASSUME LineInv, [RestartNext]_restartVars, executed' # executed
      PROVE  Fresh
    OBVIOUS
  <2>1. CASE LinkNext
    <3>1. NodeSide
      <4>1. LinkStep
        BY <2>1, LinkLine
      <4>2. CASE \E r, F : Applied(r, F)
        BY <4>2 DEF Applied, nodeVars
      <4>3. QED
        BY <4>1, <4>2
        DEF LinkStep, Quiet, SubmitNext, RejectNext, SubmitCommand, nodeVars
    <3>2. NodeMoves
      BY <2>1, <3>1, LinkLine
    <3>3. QED
      BY <3>2, NoStaleStep
  <2>2. CASE GatewayRestart
    BY <2>2 DEF GatewayRestart, nodeVars
  <2>3. CASE UNCHANGED restartVars
    BY <2>3 DEF restartVars, linkVars
  <2>4. QED
    BY <2>1, <2>2, <2>3 DEF RestartNext
<1>2. QED
  BY <1>1, RestartInvariant, PTL DEF RestartSpec, NoStaleExecution

-----------------------------------------------------------------------------
(***************************************************************************)
(* One gateway process: the link as a command service.  Numbers are given  *)
(* out in (session, seq) order, in the order of the commands, so a number  *)
(* names one command for ever; every COMMAND on its way, and every entry   *)
(* and execution of the node, is of the command that has its number.       *)
(***************************************************************************)
SessionInv ==
  \A id \in Ids : assigned[id] # NotAssigned =>
    Before(assigned[id].session, assigned[id].seq,
           tracker.session, tracker.next)

OrderInv ==
  \A i, j \in Ids :
    (i < j /\ assigned[i] # NotAssigned /\ assigned[j] # NotAssigned) =>
      Before(assigned[i].session, assigned[i].seq,
             assigned[j].session, assigned[j].seq)

\* Number q of session s was given to a command c.
GivenTo(id, s, q, c) ==
  /\ id \in Ids
  /\ assigned[id] = [session |-> s, seq |-> q]
  /\ assigned[id] # NotAssigned
  /\ command[id] = c
IsGiven(s, q, c) == \E id \in Ids : GivenTo(id, s, q, c)

SentInv ==
  /\ \A s \in Range(output) \cup Range(discarded) :
       s.type = "COMMAND" => IsGiven(s.session, s.seq, s.cmd)
  /\ \A f \in downlink : f.type = "COMMAND" => IsGiven(f.session, f.seq, f.cmd)

StoredInv ==
  \A q \in Seqs : node.entries[q].state # "free" =>
    IsGiven(node.session, q, node.entries[q].cmd)

ExecutedInv ==
  \A i \in 1 .. Len(executed) :
    IsGiven(executed[i].session, executed[i].seq, executed[i].cmd)

ServiceInv ==
  /\ LineInv
  /\ SessionInv
  /\ OrderInv
  /\ SentInv
  /\ StoredInv
  /\ ExecutedInv
  /\ ReportedWasExecuted

\* A number once given stays with its command.
Grows ==
  \A id \in Ids :
    /\ id \in Ids'
    /\ command'[id] = command[id]
    /\ assigned[id] # NotAssigned => assigned'[id] = assigned[id]

LEMMA GivenStays ==
  ASSUME Grows, NEW s, NEW q, NEW c, IsGiven(s, q, c)
  PROVE  IsGiven(s, q, c)'
<1>1. PICK id \in Ids : GivenTo(id, s, q, c)
  BY DEF IsGiven
<1>2. GivenTo(id, s, q, c)'
  BY <1>1 DEF GivenTo, Grows
<1>3. id \in Ids'
  BY DEF Grows
<1>4. QED
  BY <1>2, <1>3 DEF IsGiven

\* The order is strict, so no number is given twice.
LEMMA BeforeIrreflexive ==
  ASSUME NEW s \in Nat, NEW q \in Nat
  PROVE  ~Before(s, q, s, q)
BY DEF Before

LEMMA NumberTypes ==
  ASSUME GatewayInv, NEW id \in Ids
  PROVE  /\ assigned[id] \in [session : Session, seq : Seqs]
         /\ assigned[id].session \in Nat
         /\ assigned[id].seq \in Nat
         /\ assigned[id].seq \in Seqs
         /\ id \in Nat
<1> DEFINE Place == [session : Session, seq : Seqs]
<1>1. assigned \in Seq(Place)
  BY DEF GatewayInv, GatewayTypeOK
<1> HIDE DEF Place
<1>2. id \in 1 .. Len(assigned) /\ id \in Nat
  <2>1. Len(command) \in Nat /\ Len(assigned) = Len(command)
    BY DEF GatewayInv, GatewayTypeOK, HistoryInv
  <2>2. QED
    BY <2>1 DEF Ids
<1>3. assigned[id] \in Place
  BY <1>1, <1>2
<1>4. assigned[id].session \in Session /\ assigned[id].seq \in Seqs
  BY <1>3 DEF Place
<1>5. QED
  BY <1>2, <1>3, <1>4, LimitsAssumption DEF Session, Seqs, Place

LEMMA GivenOnce ==
  ASSUME GatewayInv, OrderInv, NEW i \in Ids, NEW j \in Ids,
         assigned[i] # NotAssigned, assigned[i] = assigned[j]
  PROVE  i = j
<1>1. /\ assigned[i].session \in Nat /\ assigned[i].seq \in Nat
      /\ i \in Nat /\ j \in Nat
  BY NumberTypes
<1>2. ~Before(assigned[i].session, assigned[i].seq,
              assigned[j].session, assigned[j].seq)
  BY <1>1, BeforeIrreflexive
<1>3. ~Before(assigned[j].session, assigned[j].seq,
              assigned[i].session, assigned[i].seq)
  BY <1>1, BeforeIrreflexive
<1>4. ~(i < j) /\ ~(j < i)
  BY <1>2, <1>3 DEF OrderInv
<1>5. QED
  BY <1>1, <1>4

\* What the tracker holds after a step has its number.
LEMMA HeldIsGiven ==
  ASSUME GatewayInv', NEW q \in Seqs, tracker'.entries[q].held
  PROVE  \E id \in Ids' : GivenTo(id, tracker.session, q,
                                  tracker.entries[q].cmd)'
<1>1. /\ requests'[q] \in Ids'
      /\ assigned'[requests'[q]] = [session |-> tracker'.session, seq |-> q]
      /\ tracker'.entries[q].cmd = command'[requests'[q]]
      /\ tracker'.session # 0
  BY DEF GatewayInv, MatchInv, TrackerInv, EntryInv
<1>2. assigned'[requests'[q]] # NotAssigned
  BY <1>1 DEF NotAssigned
<1>3. QED
  BY <1>1, <1>2 DEF GivenTo

LEMMA SendsAreGiven ==
  ASSUME GatewayInv', NEW r, r.t = tracker', SendsHeld(r)
  PROVE  \A s \in Range(r.send) :
           s.type = "COMMAND" => IsGiven(s.session, s.seq, s.cmd)'
<1>1. SUFFICES ASSUME NEW s \in Range(r.send), s.type = "COMMAND"
      PROVE  IsGiven(s.session, s.seq, s.cmd)'
  OBVIOUS
<1>2. PICK i \in DOMAIN r.send : s = r.send[i]
  BY DEF Range
<1>3. s \in CommandSend
  BY <1>2 DEF SendsHeld
<1>4. /\ s.seq \in Seqs
      /\ tracker'.entries[s.seq].held
      /\ s.session = tracker'.session
      /\ s.cmd = tracker'.entries[s.seq].cmd
  BY <1>1, <1>2, <1>3, SendTypes DEF SendsHeld
<1>5. PICK id \in Ids' : GivenTo(id, tracker.session, s.seq,
                                 tracker.entries[s.seq].cmd)'
  BY <1>4, HeldIsGiven
<1>6. GivenTo(id, s.session, s.seq, s.cmd)'
  BY <1>4, <1>5 DEF GivenTo
<1>7. QED
  BY <1>6 DEF IsGiven

-----------------------------------------------------------------------------
\* The frames stay given: old ones by GivenStays, new ones are of entries.
LEMMA SentStep ==
  ASSUME ServiceInv, Grows, NEW new, FramesMove(new),
         \A s \in new : s.type = "COMMAND" => IsGiven(s.session, s.seq, s.cmd)'
  PROVE  SentInv'
<1>1. \A s \in Range(output) \cup Range(discarded) :
        s.type = "COMMAND" => IsGiven(s.session, s.seq, s.cmd)'
  BY GivenStays DEF ServiceInv, SentInv
<1>2. \A s \in Range(output') \cup Range(discarded') :
        s.type = "COMMAND" => IsGiven(s.session, s.seq, s.cmd)'
  BY <1>1 DEF FramesMove
<1>3. ASSUME NEW f \in downlink', f.type = "COMMAND"
      PROVE  IsGiven(f.session, f.seq, f.cmd)'
  <2>1. CASE f \in downlink
    BY <1>3, <2>1, GivenStays DEF ServiceInv, SentInv
  <2>2. CASE f \notin downlink
    <3>1. PICK s \in Range(output) : f = FrameOf(s)
      BY <2>2 DEF FramesMove
    <3>2. s \in CommandSend
      BY DEF Range, ServiceInv, LineInv, GatewayInv, GatewayTypeOK
    <3>3. /\ s.type = "COMMAND" /\ f.session = s.session
          /\ f.seq = s.seq /\ f.cmd = s.cmd
      BY <1>3, <3>1, <3>2, FrameOfType
    <3>4. QED
      BY <1>1, <3>3
  <2>3. QED
    BY <2>1, <2>2
<1>4. QED
  BY <1>2, <1>3 DEF SentInv

\* The node's side of the invariant when the gateway takes the step.
LEMMA NodeStaysGiven ==
  ASSUME ServiceInv, Grows, UNCHANGED nodeVars
  PROVE  StoredInv' /\ ExecutedInv'
<1>1. UNCHANGED <<node, executed>>
  BY DEF nodeVars
<1>2. StoredInv'
  BY <1>1, GivenStays DEF ServiceInv, StoredInv
<1>3. ExecutedInv'
  BY <1>1, GivenStays DEF ServiceInv, ExecutedInv
<1>4. QED
  BY <1>2, <1>3

\* A result that is reported was executed, as the command's own.
LEMMA ReportedResult ==
  ASSUME ServiceInv, NEW r, NEW F, Applied(r, F), Reports(r),
         NEW d \in r.finished, d.outcome \in Result
  PROVE  \E i \in 1 .. Len(executed) :
           /\ executed[i].session = assigned[requests[d.seq]].session
           /\ executed[i].seq = assigned[requests[d.seq]].seq
           /\ executed[i].cmd = command[requests[d.seq]]
           /\ executed[i].result = d.outcome
           /\ GivenTo(requests[d.seq], executed[i].session, executed[i].seq,
                      executed[i].cmd)
<1> DEFINE id == requests[d.seq]
<1>1. PICK f \in uplink : /\ f.type = "RESULT"
                          /\ f.session = tracker.session
                          /\ f.seq = d.seq
                          /\ f.result = d.outcome
  BY DEF Applied, Progress, Finishes
<1>2. PICK i \in 1 .. Len(executed) :
        /\ executed[i].session = f.session
        /\ executed[i].seq = f.seq
        /\ executed[i].result = f.result
  BY <1>1 DEF ServiceInv, LineInv, NodeIInv, ResultsAreOfExecutions
<1>3. PICK k \in Ids :
        GivenTo(k, executed[i].session, executed[i].seq, executed[i].cmd)
  BY DEF ServiceInv, ExecutedInv, IsGiven
<1>4. /\ d.seq \in Seqs /\ id \in Ids
      /\ tracker.entries[d.seq].held
  BY DEF Reports, Applied, Progress, Finishes
<1>5. /\ assigned[id] = [session |-> tracker.session, seq |-> d.seq]
  BY <1>4 DEF ServiceInv, LineInv, GatewayInv, MatchInv
<1>6. k = id
  <2>1. assigned[k] = assigned[id] /\ assigned[k] # NotAssigned
    BY <1>1, <1>2, <1>3, <1>5 DEF GivenTo
  <2>2. QED
    BY <1>4, <2>1, GivenOnce DEF ServiceInv, LineInv
<1>7. QED
  BY <1>1, <1>2, <1>3, <1>5, <1>6 DEF GivenTo

-----------------------------------------------------------------------------
(***************************************************************************)
(* The history of the numbers, for each kind of step.                      *)
(***************************************************************************)
LEMMA BeforeForward ==
  ASSUME NEW s \in Nat, NEW q \in Nat, NEW t, NEW u,
         t.session \in Nat, t.next \in Nat, u.session \in Nat, u.next \in Nat,
         t.session <= u.session,
         u.session = t.session => t.next <= u.next,
         Before(s, q, t.session, t.next)
  PROVE  Before(s, q, u.session, u.next)
BY DEF Before

\* The numbers given are the same, and the tracker's next has not gone back.
LEMMA NumbersKept ==
  ASSUME ServiceInv, TrackerInv(tracker'), Forward(tracker, [t |-> tracker']),
         UNCHANGED <<command, assigned>>
  PROVE  Grows /\ SessionInv' /\ OrderInv'
<1>1. Ids' = Ids
  BY DEF Ids
<1>2. Grows
  BY <1>1 DEF Grows
<1>3. /\ tracker.session \in Nat /\ tracker.next \in Nat
      /\ tracker'.session \in Nat /\ tracker'.next \in Nat
  <2>1. tracker \in Tracker /\ tracker' \in Tracker
    BY DEF ServiceInv, LineInv, GatewayInv, TrackerInv
  <2>2. QED
    BY <2>1, TrackerFields, LimitsAssumption DEF Session
<1>4. /\ tracker.session <= tracker'.session
      /\ tracker'.session = tracker.session => tracker.next <= tracker'.next
  BY DEF Forward
<1>5. ASSUME NEW id \in Ids, assigned[id] # NotAssigned
      PROVE  Before(assigned[id].session, assigned[id].seq,
                    tracker'.session, tracker'.next)
  <2>1. assigned[id].session \in Nat /\ assigned[id].seq \in Nat
    BY NumberTypes DEF ServiceInv, LineInv
  <2>2. Before(assigned[id].session, assigned[id].seq,
               tracker.session, tracker.next)
    BY <1>5 DEF ServiceInv, SessionInv
  <2>3. QED
    BY <1>3, <1>4, <2>1, <2>2, BeforeForward
<1>6. SessionInv'
  BY <1>1, <1>5 DEF SessionInv
<1>7. OrderInv'
  BY <1>1 DEF ServiceInv, OrderInv
<1>8. QED
  BY <1>2, <1>6, <1>7

LEMMA SubmitCommandService ==
  ASSUME ServiceInv, NEW c \in Command, SubmitCommand(c)
  PROVE  /\ Grows /\ SessionInv' /\ OrderInv'
         /\ ReportedWasExecuted'
         /\ Ids' = Ids \cup {Len(command) + 1}
         /\ assigned'[Len(command) + 1] = NotAssigned
<1> DEFINE n == Len(command)
<1>1. /\ command \in Seq(Command)
      /\ assigned \in Seq([session : Session, seq : Seqs])
      /\ outcome \in Seq(Outcome)
      /\ n \in Nat /\ Len(assigned) = n /\ Len(outcome) = n
  BY DEF ServiceInv, LineInv, GatewayInv, GatewayTypeOK, HistoryInv
<1>2. /\ command' = Append(command, c)
      /\ assigned' = Append(assigned, NotAssigned)
      /\ outcome' = Append(outcome, "pending")
      /\ UNCHANGED <<tracker, executed>>
  BY DEF SubmitCommand, nodeVars
<1>3. /\ Len(command') = n + 1
      /\ \A i \in 1 .. n : command'[i] = command[i]
  BY <1>1, <1>2
<1> DEFINE Place == [session : Session, seq : Seqs]
<1>4. /\ assigned'[n + 1] = NotAssigned
      /\ \A i \in 1 .. n : assigned'[i] = assigned[i]
  <2>1. assigned \in Seq(Place)
    BY <1>1
  <2> HIDE DEF Place
  <2>2. QED
    BY <1>1, <1>2, <2>1
<1>5. /\ outcome'[n + 1] = "pending"
      /\ \A i \in 1 .. n : outcome'[i] = outcome[i]
      /\ DOMAIN outcome' = 1 .. n + 1
      /\ DOMAIN outcome = 1 .. n
  BY <1>1, <1>2
<1>6. Ids' = Ids \cup {n + 1}
  BY <1>1, <1>3 DEF Ids
<1>7. Grows
  BY <1>3, <1>4, <1>6 DEF Grows, Ids
<1>8. \A id \in Ids' : assigned'[id] # NotAssigned =>
        id \in Ids /\ assigned'[id] = assigned[id]
  BY <1>4, <1>6 DEF Ids
<1>9. SessionInv'
  BY <1>2, <1>8 DEF ServiceInv, SessionInv
<1>10. OrderInv'
  BY <1>8 DEF ServiceInv, OrderInv
<1>11. ReportedWasExecuted'
  <2> SUFFICES ASSUME NEW id \in DOMAIN outcome', outcome'[id] \in Result
      PROVE  \E i \in DOMAIN executed' :
               /\ executed'[i].session = assigned'[id].session
               /\ executed'[i].seq = assigned'[id].seq
               /\ executed'[i].cmd = command'[id]
               /\ executed'[i].result = outcome'[id]
    BY DEF ReportedWasExecuted
  <2>1. id \in 1 .. n
    BY <1>1, <1>5, PendingIsNoOutcome
  <2>2. QED
    BY <1>2, <1>3, <1>4, <1>5, <2>1, ZenonT(30) DEF ServiceInv, ReportedWasExecuted
<1>12. QED
  BY <1>4, <1>6, <1>7, <1>9, <1>10, <1>11

\* A command leaves the queue with the next number, which is the latest.
LEMMA SubmitNextService ==
  ASSUME ServiceInv, SubmitNext
  PROVE  /\ Grows /\ SessionInv' /\ OrderInv'
         /\ ReportedWasExecuted'
         /\ Ids' = Ids
         /\ Head(cmdQueue) \in Ids
         /\ assigned[Head(cmdQueue)] = NotAssigned
         /\ \A k \in Ids : k # Head(cmdQueue) => assigned'[k] = assigned[k]
         /\ assigned'[Head(cmdQueue)] = [session |-> tracker.session,
                                         seq |-> tracker.next]
         /\ command[Head(cmdQueue)] \in Command
<1> DEFINE id == Head(cmdQueue)
           place == [session |-> tracker.session, seq |-> tracker.next]
           Place == [session : Session, seq : Seqs]
<1>1. /\ command \in Seq(Command)
      /\ assigned \in Seq(Place)
      /\ cmdQueue \in Seq(Id)
      /\ Len(command) \in Nat
      /\ Len(assigned) = Len(command) /\ Len(outcome) = Len(command)
      /\ outcome \in Seq(Outcome)
      /\ TrackerInv(tracker)
  BY DEF ServiceInv, LineInv, GatewayInv, GatewayTypeOK, HistoryInv
<1>2. /\ cmdQueue # << >> /\ canSubmit(tracker)
      /\ tracker' = submit(tracker, command[id]).t
      /\ assigned' = [assigned EXCEPT ![id] = place]
      /\ UNCHANGED <<nodeVars, command, outcome>>
  BY DEF SubmitNext
<1>3. id = cmdQueue[1] /\ 1 \in 1 .. Len(cmdQueue)
  BY <1>1, <1>2, TailFacts
<1>4. /\ id \in Ids
      /\ outcome[id] = "pending"
      /\ assigned[id] = NotAssigned
      /\ \A k \in Ids : assigned[k] # NotAssigned => k < id
  BY <1>3 DEF ServiceInv, LineInv, GatewayInv, QueueInv
<1>5. command[id] \in Command
  BY <1>1, <1>4 DEF Ids
<1> HIDE DEF id, place, Place
<1>6. /\ tracker'.session = tracker.session
      /\ tracker'.next = tracker.next + 1
      /\ tracker.next \in Seqs
  BY <1>1, <1>2, <1>5, SubmitFacts
<1>7. tracker.session \in Nat /\ tracker.next \in Nat
  <2>1. tracker \in Tracker
    BY <1>1 DEF TrackerInv
  <2>2. QED
    BY <2>1, TrackerFields
<1>8. Ids' = Ids
  BY <1>2 DEF Ids
<1>9. /\ assigned'[id] = place
      /\ \A k \in Ids : k # id => assigned'[k] = assigned[k]
  <2>1. DOMAIN assigned = Ids
    BY <1>1 DEF Ids
  <2>2. QED
    BY <1>2, <1>4, <2>1
<1>10. Grows
  BY <1>2, <1>4, <1>8, <1>9 DEF Grows
<1>11. place.session = tracker.session /\ place.seq = tracker.next
  BY DEF place
<1>12. ASSUME NEW k \in Ids, k # id, assigned'[k] # NotAssigned
       PROVE  /\ k < id
              /\ Before(assigned'[k].session, assigned'[k].seq,
                        tracker.session, tracker.next)
              /\ assigned'[k].session \in Nat /\ assigned'[k].seq \in Nat
  <2>1. assigned'[k] = assigned[k]
    BY <1>9, <1>12
  <2>2. QED
    BY <1>4, <1>12, <2>1, NumberTypes DEF ServiceInv, LineInv, SessionInv
<1>13. SessionInv'
  <2> SUFFICES ASSUME NEW k \in Ids, assigned'[k] # NotAssigned
      PROVE  Before(assigned'[k].session, assigned'[k].seq,
                    tracker'.session, tracker'.next)
    BY <1>8 DEF SessionInv
  <2>1. CASE k = id
    BY <1>6, <1>7, <1>9, <1>11, <2>1 DEF Before
  <2>2. CASE k # id
    <3>1. /\ Before(assigned'[k].session, assigned'[k].seq,
                    tracker.session, tracker.next)
          /\ assigned'[k].session \in Nat /\ assigned'[k].seq \in Nat
      BY <1>12, <2>2
    <3>2. QED
      BY <1>6, <1>7, <3>1 DEF Before
  <2>3. QED
    BY <2>1, <2>2
<1>14. OrderInv'
  <2> SUFFICES ASSUME NEW i \in Ids, NEW j \in Ids, i < j,
                      assigned'[i] # NotAssigned, assigned'[j] # NotAssigned
      PROVE  Before(assigned'[i].session, assigned'[i].seq,
                    assigned'[j].session, assigned'[j].seq)
    BY <1>8 DEF OrderInv
  <2>1. i \in Nat /\ j \in Nat /\ id \in Nat
    BY <1>4, NumberTypes DEF ServiceInv, LineInv
  <2>2. i # id
    BY <1>12, <2>1
  <2>3. CASE j = id
    BY <1>9, <1>11, <1>12, <2>2, <2>3
  <2>4. CASE j # id
    <3>1. assigned'[i] = assigned[i] /\ assigned'[j] = assigned[j]
      BY <1>9, <2>2, <2>4
    <3>2. QED
      BY <3>1 DEF ServiceInv, OrderInv
  <2>5. QED
    BY <2>3, <2>4
<1>15. ReportedWasExecuted'
  <2> SUFFICES ASSUME NEW k \in DOMAIN outcome', outcome'[k] \in Result
      PROVE  \E i \in DOMAIN executed' :
               /\ executed'[i].session = assigned'[k].session
               /\ executed'[i].seq = assigned'[k].seq
               /\ executed'[i].cmd = command'[k]
               /\ executed'[i].result = outcome'[k]
    BY DEF ReportedWasExecuted
  <2>1. k \in Ids /\ k \in DOMAIN outcome /\ outcome[k] \in Result
    BY <1>1, <1>2 DEF Ids
  <2>2. k # id
    BY <1>4, <2>1, PendingIsNoOutcome
  <2>3. assigned'[k] = assigned[k] /\ command' = command
        /\ outcome' = outcome /\ executed' = executed
    BY <1>2, <1>9, <2>1, <2>2 DEF nodeVars
  <2>4. QED
    BY <2>1, <2>3 DEF ServiceInv, ReportedWasExecuted
<1>16. QED
  BY <1>4, <1>5, <1>8, <1>9, <1>10, <1>13, <1>14, <1>15 DEF id, place

-----------------------------------------------------------------------------
(***************************************************************************)
(* Each kind of step keeps the service's invariant.                        *)
(***************************************************************************)
LEMMA AppliedReports ==
  ASSUME ServiceInv, NEW r, NEW F, Applied(r, F)
  PROVE  /\ Reports(r)
         /\ DOMAIN outcome' = DOMAIN outcome
         /\ DOMAIN outcome = Ids
         /\ tracker' = r.t
         /\ r.finished \subseteq Completion
<1>1. PICK queue \in Seq(CommandSend) : applyTrackerActions(r, queue)
  BY DEF Applied
<1>2. GatewayInv /\ Progress(tracker, r, F)
  BY DEF ServiceInv, LineInv, Applied
<1>3. Reports(r) /\ outcome' \in Seq(Outcome) /\ Len(outcome') = Len(outcome)
  BY <1>1, <1>2, ApplyReports
<1>4. /\ outcome \in Seq(Outcome) /\ Len(outcome) = Len(command)
      /\ r.finished \subseteq Completion
  BY <1>2 DEF GatewayInv, GatewayTypeOK, HistoryInv, Progress, Finishes
<1>5. tracker' = r.t
  BY <1>1 DEF applyTrackerActions
<1>6. QED
  BY <1>3, <1>4, <1>5 DEF Ids

LEMMA AppliedService ==
  ASSUME ServiceInv, LineInv', NEW r, NEW F, Applied(r, F)
  PROVE  ServiceInv'
<1>1. /\ Reports(r) /\ DOMAIN outcome' = DOMAIN outcome
      /\ DOMAIN outcome = Ids /\ tracker' = r.t
  BY AppliedReports
<1>2. /\ TrackerInv(tracker')
      /\ Forward(tracker, r)
      /\ SendsHeld(r)
      /\ FramesMove(Range(r.send))
      /\ UNCHANGED <<nodeVars, command, assigned>>
      /\ GatewayInv'
  BY <1>1 DEF Applied, Progress, LineInv
<1>3. Forward(tracker, [t |-> tracker'])
  BY <1>1, <1>2 DEF Forward
<1>4. Grows /\ SessionInv' /\ OrderInv'
  BY <1>2, <1>3, NumbersKept
<1>5. \A s \in Range(r.send) :
        s.type = "COMMAND" => IsGiven(s.session, s.seq, s.cmd)'
  BY <1>1, <1>2, SendsAreGiven
<1>6. SentInv'
  BY <1>2, <1>4, <1>5, SentStep
<1>7. StoredInv' /\ ExecutedInv'
  BY <1>2, <1>4, NodeStaysGiven
<1>8. ReportedWasExecuted'
  <2> SUFFICES ASSUME NEW k \in DOMAIN outcome', outcome'[k] \in Result
      PROVE  \E i \in DOMAIN executed' :
               /\ executed'[i].session = assigned'[k].session
               /\ executed'[i].seq = assigned'[k].seq
               /\ executed'[i].cmd = command'[k]
               /\ executed'[i].result = outcome'[k]
    BY DEF ReportedWasExecuted
  <2>1. /\ k \in DOMAIN outcome /\ k \in Ids
        /\ executed' = executed /\ assigned' = assigned /\ command' = command
    BY <1>1, <1>2 DEF nodeVars
  <2>2. CASE outcome'[k] = outcome[k]
    BY <2>1, <2>2 DEF ServiceInv, ReportedWasExecuted
  <2>3. CASE outcome'[k] # outcome[k]
    <3>1. PICK d \in r.finished : requests[d.seq] = k
      BY <1>1, <2>1, <2>3 DEF Reports
    <3>2. outcome'[k] = d.outcome
      BY <1>1, <3>1 DEF Reports
    <3>3. \E i \in 1 .. Len(executed) :
            /\ executed[i].session = assigned[k].session
            /\ executed[i].seq = assigned[k].seq
            /\ executed[i].cmd = command[k]
            /\ executed[i].result = d.outcome
      BY <1>1, <3>1, <3>2, ReportedResult
    <3>4. DOMAIN executed = 1 .. Len(executed)
      BY LineTypes DEF ServiceInv, NodeTypeOK
    <3>5. QED
      BY <2>1, <3>2, <3>3, <3>4
  <2>4. QED
    BY <2>2, <2>3
<1>9. QED
  BY <1>4, <1>6, <1>7, <1>8 DEF ServiceInv

\* A step that gives no number, sends nothing and reports no result.
LEMMA QuietService ==
  ASSUME ServiceInv, LineInv', FramesMove({}),
         tracker'.session = tracker.session, tracker'.next = tracker.next,
         UNCHANGED <<nodeVars, command, assigned>>,
         DOMAIN outcome' = DOMAIN outcome,
         \A k \in DOMAIN outcome :
           outcome'[k] = outcome[k] \/ outcome'[k] \notin Result
  PROVE  ServiceInv'
<1>1. TrackerInv(tracker') /\ TrackerInv(tracker)
  BY DEF ServiceInv, LineInv, GatewayInv
<1>2. tracker.session \in Nat /\ tracker.next \in Nat
  <2>1. tracker \in Tracker
    BY <1>1 DEF TrackerInv
  <2>2. QED
    BY <2>1, TrackerFields
<1>3. Forward(tracker, [t |-> tracker'])
  BY <1>2 DEF Forward
<1>4. Grows /\ SessionInv' /\ OrderInv'
  BY <1>1, <1>3, NumbersKept
<1>5. SentInv'
  BY <1>4, SentStep
<1>6. StoredInv' /\ ExecutedInv'
  BY <1>4, NodeStaysGiven
<1>7. ReportedWasExecuted'
  BY DEF ServiceInv, ReportedWasExecuted, nodeVars
<1>8. QED
  BY <1>4, <1>5, <1>6, <1>7 DEF ServiceInv

\* No bytes are moved by these.
LEMMA OutputKept ==
  ASSUME UNCHANGED <<output, discarded, downlink>>
  PROVE  FramesMove({})
BY DEF FramesMove

LEMMA RejectNextService ==
  ASSUME ServiceInv, LineInv', RejectNext
  PROVE  ServiceInv'
<1> DEFINE id == Head(cmdQueue)
<1>1. /\ outcome' = [outcome EXCEPT ![id] = "link_failed"]
      /\ UNCHANGED <<nodeVars, tracker, output, discarded, downlink, command,
                     assigned>>
  BY DEF RejectNext
<1> HIDE DEF id
<1>2. DOMAIN outcome' = DOMAIN outcome
  BY <1>1
<1>3. "link_failed" \notin Result
  BY DEF Result
<1>4. \A k \in DOMAIN outcome :
        outcome'[k] = outcome[k] \/ outcome'[k] \notin Result
  BY <1>1, <1>3
<1>5. FramesMove({})
  BY <1>1, OutputKept
<1>6. QED
  BY <1>1, <1>2, <1>4, <1>5, QuietService

LEMMA SubmitService ==
  ASSUME ServiceInv, LineInv', NEW c \in Command, SubmitCommand(c)
  PROVE  ServiceInv'
<1>1. Grows /\ SessionInv' /\ OrderInv' /\ ReportedWasExecuted'
  BY SubmitCommandService
<1>2. UNCHANGED nodeVars /\ FramesMove({})
  BY OutputKept DEF SubmitCommand
<1>3. SentInv'
  BY <1>1, <1>2, SentStep
<1>4. QED
  BY <1>1, <1>2, <1>3, NodeStaysGiven DEF ServiceInv

LEMMA SubmitNextKeeps ==
  ASSUME ServiceInv, LineInv', SubmitNext
  PROVE  ServiceInv'
<1> DEFINE r == submit(tracker, command[Head(cmdQueue)])
<1>1. /\ tracker' = r.t
      /\ output' = output \o r.send
      /\ canSubmit(tracker)
      /\ UNCHANGED <<nodeVars, discarded, downlink>>
  BY DEF SubmitNext
<1>2. /\ Grows /\ SessionInv' /\ OrderInv' /\ ReportedWasExecuted'
      /\ command[Head(cmdQueue)] \in Command
  BY SubmitNextService
<1>3. TrackerInv(tracker) /\ output \in Seq(CommandSend)
  BY DEF ServiceInv, LineInv, GatewayInv, GatewayTypeOK
<1>4. SendsHeld(r)
  BY <1>1, <1>2, <1>3, SubmitFacts
<1> HIDE DEF r
<1>5. \A s \in Range(r.send) :
        s.type = "COMMAND" => IsGiven(s.session, s.seq, s.cmd)'
  BY <1>1, <1>4, SendsAreGiven DEF LineInv
<1>6. FramesMove(Range(r.send))
  <2>1. r.send \in Seq(CommandSend)
    BY <1>4 DEF SendsHeld
  <2>2. Range(output \o r.send) \subseteq Range(output) \cup Range(r.send)
    BY <1>3, <2>1, RangeFacts
  <2>3. QED
    BY <1>1, <2>2 DEF FramesMove
<1>7. SentInv'
  BY <1>2, <1>5, <1>6, SentStep
<1>8. QED
  BY <1>1, <1>2, <1>7, NodeStaysGiven DEF ServiceInv

\* The node executes what it holds, and holds what was sent.
LEMMA ExecutionGrows ==
  ASSUME ServiceInv, NodeMoves, executed' # executed
  PROVE  \E x \in Execution :
           /\ executed' = Append(executed, x)
           /\ IsGiven(x.session, x.seq, x.cmd)
<1>1. nodePc = "execute"
  BY DEF NodeMoves, Executes
<1>2. PICK r \in Result :
        executed' = Append(executed,
                      [session |-> node.session, seq |-> node.base,
                       cmd |-> node.entries[node.base].cmd, result |-> r])
  BY DEF NodeMoves, Executes
<1>3. NextIsBuffered(node) /\ node \in NodeState
  BY <1>1, LineTypes DEF ServiceInv, LineInv, NodeIInv, NodeTypeOK
<1>4. node.base \in Seqs /\ node.entries[node.base].state # "free"
  BY <1>3, LimitsAssumption DEF NextIsBuffered, NodeState, Seqs
<1> DEFINE x == [session |-> node.session, seq |-> node.base,
                 cmd |-> node.entries[node.base].cmd, result |-> r]
<1>5. x \in Execution
  <2>1. executed \in Seq(Execution) /\ executed' \in Seq(Execution)
    BY LineTypes DEF ServiceInv, NodeMoves, NodeIInv, NodeTypeOK
  <2>2. executed' = Append(executed, x)
    BY <1>2
  <2> HIDE DEF x
  <2>3. executed'[Len(executed) + 1] = x /\ Len(executed') = Len(executed) + 1
    BY <2>1, <2>2
  <2>4. QED
    BY <2>1, <2>3
<1>6. IsGiven(x.session, x.seq, x.cmd)
  BY <1>4 DEF ServiceInv, StoredInv
<1>7. QED
  BY <1>2, <1>5, <1>6

LEMMA NodeService ==
  ASSUME ServiceInv, LineInv', NodeMoves, UNCHANGED gatewayVars
  PROVE  ServiceInv'
<1>1. UNCHANGED <<tracker, output, discarded, downlink, command, assigned,
                  outcome>>
  BY DEF gatewayVars
<1>2. Ids' = Ids
  BY <1>1 DEF Ids
<1>3. \A s, q, c : IsGiven(s, q, c) => IsGiven(s, q, c)'
  BY <1>1, <1>2 DEF IsGiven, GivenTo
<1>4. SessionInv' /\ OrderInv'
  BY <1>1, <1>2 DEF ServiceInv, SessionInv, OrderInv
<1>5. SentInv'
  BY <1>1, <1>3 DEF ServiceInv, SentInv
<1>6. StoredInv'
  <2> SUFFICES ASSUME NEW q \in Seqs, node'.entries[q].state # "free"
      PROVE  IsGiven(node.session, q, node.entries[q].cmd)'
    BY DEF StoredInv
  <2>1. IsGiven(node'.session, q, node'.entries[q].cmd)
    <3>1. CASE /\ node'.session = node.session
               /\ node.entries[q].state # "free"
               /\ node'.entries[q].cmd = node.entries[q].cmd
      BY <3>1 DEF ServiceInv, StoredInv
    <3>2. CASE \E f \in downlink : /\ f.type = "COMMAND"
                                   /\ f.session = node'.session
                                   /\ f.seq = q
                                   /\ f.cmd = node'.entries[q].cmd
      BY <3>2 DEF ServiceInv, SentInv
    <3>3. QED
      BY <3>1, <3>2 DEF NodeMoves, Stores
  <2>2. QED
    BY <1>1, <1>2, <2>1 DEF IsGiven, GivenTo
<1>7. /\ executed \in Seq(Execution)
      /\ DOMAIN executed = 1 .. Len(executed)
      /\ Len(executed) \in Nat
  BY LineTypes DEF ServiceInv, NodeTypeOK
<1>8. CASE executed' = executed
  <2>1. ExecutedInv'
    BY <1>3, <1>8 DEF ServiceInv, ExecutedInv
  <2>2. ReportedWasExecuted'
    BY <1>1, <1>8 DEF ServiceInv, ReportedWasExecuted
  <2>3. QED
    BY <1>4, <1>5, <1>6, <2>1, <2>2 DEF ServiceInv
<1>9. CASE executed' # executed
  <2>1. PICK x \in Execution :
          /\ executed' = Append(executed, x)
          /\ IsGiven(x.session, x.seq, x.cmd)
    BY <1>9, ExecutionGrows
  <2>2. /\ Len(executed') = Len(executed) + 1
        /\ executed'[Len(executed) + 1] = x
        /\ \A i \in 1 .. Len(executed) : executed'[i] = executed[i]
        /\ DOMAIN executed' = 1 .. Len(executed) + 1
    BY <1>7, <2>1
  <2>3. ExecutedInv'
    <3> SUFFICES ASSUME NEW i \in 1 .. Len(executed')
        PROVE  IsGiven(executed[i].session, executed[i].seq, executed[i].cmd)'
      BY DEF ExecutedInv
    <3>1. CASE i = Len(executed) + 1
      <4>1. executed'[i] = x
        BY <2>2, <3>1
      <4>2. QED
        BY <1>1, <1>2, <2>1, <4>1 DEF IsGiven, GivenTo
    <3>2. CASE i # Len(executed) + 1
      <4>1. i \in 1 .. Len(executed) /\ executed'[i] = executed[i]
        BY <1>7, <2>2, <3>2
      <4>2. IsGiven(executed[i].session, executed[i].seq, executed[i].cmd)
        BY <4>1 DEF ServiceInv, ExecutedInv
      <4>3. QED
        BY <1>1, <1>2, <4>1, <4>2 DEF IsGiven, GivenTo
    <3>3. QED
      BY <3>1, <3>2
  <2>4. ReportedWasExecuted'
    <3> SUFFICES ASSUME NEW k \in DOMAIN outcome', outcome'[k] \in Result
        PROVE  \E i \in DOMAIN executed' :
                 /\ executed'[i].session = assigned'[k].session
                 /\ executed'[i].seq = assigned'[k].seq
                 /\ executed'[i].cmd = command'[k]
                 /\ executed'[i].result = outcome'[k]
      BY DEF ReportedWasExecuted
    <3>1. PICK i \in DOMAIN executed :
            /\ executed[i].session = assigned[k].session
            /\ executed[i].seq = assigned[k].seq
            /\ executed[i].cmd = command[k]
            /\ executed[i].result = outcome[k]
      BY <1>1 DEF ServiceInv, ReportedWasExecuted
    <3>2. i \in DOMAIN executed' /\ executed'[i] = executed[i]
      BY <1>7, <2>2
    <3>3. QED
      BY <1>1, <3>1, <3>2
  <2>5. QED
    BY <1>4, <1>5, <1>6, <2>3, <2>4 DEF ServiceInv
<1>10. QED
  BY <1>8, <1>9

LEMMA LinkService ==
  ASSUME ServiceInv, [LinkNext]_linkVars
  PROVE  ServiceInv'
<1>1. CASE LinkNext
  <2>1. LineInv' /\ LinkStep /\ (NodeSide => NodeMoves)
    BY <1>1, LinkLine DEF ServiceInv
  <2>2. CASE NodeSide
    BY <2>1, <2>2, NodeService DEF NodeSide
  <2>3. CASE \E r, F : Applied(r, F)
    BY <2>1, <2>3, AppliedService
  <2>4. CASE Quiet
    BY <2>1, <2>4, QuietService DEF Quiet, SameButTimes
  <2>5. QED
    BY <2>1, <2>2, <2>3, <2>4, RejectNextService, SubmitService,
       SubmitNextKeeps DEF LinkStep
<1>2. CASE UNCHANGED linkVars
  <2>1. LineInv'
    BY <1>2, LinkStutterLine DEF ServiceInv
  <2>2. UNCHANGED <<nodeVars, tracker, output, discarded, downlink, command,
                    assigned, outcome>>
    BY <1>2 DEF linkVars, nodeVars
  <2>3. FramesMove({})
    BY <2>2, OutputKept
  <2>4. QED
    BY <2>1, <2>2, <2>3, QuietService
<1>3. QED
  BY <1>1, <1>2

LEMMA ServiceInitially ==
  ASSUME LinkInit
  PROVE  ServiceInv
<1>1. LineInv
  BY LineInitially
<1>2. /\ command = << >> /\ output = << >> /\ discarded = << >>
      /\ downlink = {} /\ outcome = << >> /\ executed = << >>
      /\ \A q \in Seqs : node.entries[q].state = "free"
  BY FreeEntryType DEF LinkInit, NodeInit, NoEntries
<1>3. SessionInv /\ OrderInv
  BY <1>2 DEF SessionInv, OrderInv, Ids
<1>4. SentInv /\ StoredInv
  BY <1>2 DEF SentInv, StoredInv, Range
<1>5. ExecutedInv /\ ReportedWasExecuted
  BY <1>2 DEF ExecutedInv, ReportedWasExecuted
<1>6. QED
  BY <1>1, <1>3, <1>4, <1>5 DEF ServiceInv

-----------------------------------------------------------------------------
(***************************************************************************)
(* In one gateway process numbers are given out in strict order, and a     *)
(* number on the line, at the node or among the executions belongs to the  *)
(* one command it was given to (CommandTracker.cpp:48, submit).            *)
(***************************************************************************)
THEOREM LinkServiceInvariant == LinkSpec => []ServiceInv
<1>1. LinkInit => ServiceInv
  BY ServiceInitially
<1>2. ServiceInv /\ [LinkNext]_linkVars => ServiceInv'
  BY LinkService
<1>3. QED
  BY <1>1, <1>2, PTL DEF LinkSpec

(***************************************************************************)
(* What is reported as a result is the result of an execution of that very *)
(* command, under the number it was given, however frames are lost, kept   *)
(* back and repeated (CommandTracker::onFrame, applyTrackerActions).       *)
(***************************************************************************)
THEOREM LinkReportedWasExecuted == LinkSpec => []ReportedWasExecuted
<1>1. ServiceInv => ReportedWasExecuted
  BY DEF ServiceInv
<1>2. QED
  BY <1>1, LinkServiceInvariant, PTL

-----------------------------------------------------------------------------
(***************************************************************************)
(* The refinement.  Performed, as a function of the numbers given (a) and  *)
(* of the executions (e).                                                  *)
(***************************************************************************)
Place == [session : Session, seq : Seqs]
PlaceOf(x) == [session |-> x.session, seq |-> x.seq]
IdIn(a, x) == CHOOSE id \in DOMAIN a : a[id] = PlaceOf(x)
PerformedOf(a, e) ==
  [i \in DOMAIN e |-> [id |-> IdIn(a, e[i]), cmd |-> e[i].cmd,
                       result |-> e[i].result]]

Ordered(a) ==
  \A i, j \in 1 .. Len(a) :
    (i < j /\ a[i] # NotAssigned /\ a[j] # NotAssigned) =>
      Before(a[i].session, a[i].seq, a[j].session, a[j].seq)

HasPlace(a, x, id) ==
  /\ id \in 1 .. Len(a)
  /\ a[id] = PlaceOf(x)
  /\ a[id] # NotAssigned

Placed(a, e) == \A i \in 1 .. Len(e) : \E id \in 1 .. Len(a) : HasPlace(a, e[i], id)

Performance(n) == [id : 1 .. n, cmd : Command, result : Result]

LEMMA PlaceTypes ==
  ASSUME NEW a \in Seq(Place), NEW id \in 1 .. Len(a)
  PROVE  /\ a[id] \in Place
         /\ a[id].session \in Nat /\ a[id].seq \in Nat
         /\ id \in Nat
<1>1. a[id] \in Place /\ id \in Nat
  OBVIOUS
<1>2. a[id].session \in Session /\ a[id].seq \in Seqs
  BY <1>1 DEF Place
<1>3. QED
  BY <1>1, <1>2, LimitsAssumption DEF Session, Seqs

\* Two numbers in order belong to two commands in order.
LEMMA OrderTells ==
  ASSUME NEW a \in Seq(Place), Ordered(a),
         NEW i \in 1 .. Len(a), NEW j \in 1 .. Len(a),
         a[i] # NotAssigned, a[j] # NotAssigned,
         Before(a[i].session, a[i].seq, a[j].session, a[j].seq)
  PROVE  i < j
<1>1. /\ a[i].session \in Nat /\ a[i].seq \in Nat /\ i \in Nat
      /\ a[j].session \in Nat /\ a[j].seq \in Nat /\ j \in Nat
  BY PlaceTypes
<1>2. i # j
  BY <1>1, BeforeIrreflexive
<1>3. ~(j < i)
  <2>1. ~Before(a[j].session, a[j].seq, a[i].session, a[i].seq)
    BY <1>1 DEF Before
  <2>2. QED
    BY <2>1 DEF Ordered
<1>4. QED
  BY <1>1, <1>2, <1>3

LEMMA OnlyId ==
  ASSUME NEW a \in Seq(Place), Ordered(a), NEW x, NEW id, HasPlace(a, x, id)
  PROVE  IdIn(a, x) = id
<1>1. DOMAIN a = 1 .. Len(a) /\ id \in DOMAIN a /\ a[id] = PlaceOf(x)
  BY DEF HasPlace
<1>2. ASSUME NEW k \in DOMAIN a, a[k] = PlaceOf(x)
      PROVE  k = id
  <2>1. k \in 1 .. Len(a) /\ id \in 1 .. Len(a) /\ a[k] = a[id]
        /\ a[id] # NotAssigned
    BY <1>1, <1>2 DEF HasPlace
  <2>2. /\ a[id].session \in Nat /\ a[id].seq \in Nat
        /\ k \in Nat /\ id \in Nat
    BY <2>1, PlaceTypes
  <2>3. ~Before(a[id].session, a[id].seq, a[id].session, a[id].seq)
    BY <2>2, BeforeIrreflexive
  <2>4. ~(k < id) /\ ~(id < k)
    BY <2>1, <2>3 DEF Ordered
  <2>5. QED
    BY <2>2, <2>4
<1>3. QED
  BY <1>1, <1>2 DEF IdIn

LEMMA PerformedFacts ==
  ASSUME NEW a \in Seq(Place), NEW e \in Seq(Execution), Ordered(a), Placed(a, e)
  PROVE  /\ PerformedOf(a, e) \in Seq(Performance(Len(a)))
         /\ Len(PerformedOf(a, e)) = Len(e)
         /\ \A i \in 1 .. Len(e) :
              /\ HasPlace(a, e[i], PerformedOf(a, e)[i].id)
              /\ PerformedOf(a, e)[i] =
                   [id |-> IdIn(a, e[i]), cmd |-> e[i].cmd,
                    result |-> e[i].result]
<1> DEFINE rec(i) == [id |-> IdIn(a, e[i]), cmd |-> e[i].cmd,
                      result |-> e[i].result]
<1>1. DOMAIN e = 1 .. Len(e) /\ Len(e) \in Nat
  OBVIOUS
<1>2. ASSUME NEW i \in 1 .. Len(e)
      PROVE  rec(i) \in Performance(Len(a)) /\ HasPlace(a, e[i], rec(i).id)
  <2>1. PICK id \in 1 .. Len(a) : HasPlace(a, e[i], id)
    BY DEF Placed
  <2>2. IdIn(a, e[i]) = id
    BY <2>1, OnlyId
  <2>3. e[i] \in Execution
    OBVIOUS
  <2>4. e[i].cmd \in Command /\ e[i].result \in Result
    BY <2>3 DEF Execution
  <2>5. QED
    BY <2>1, <2>2, <2>4 DEF Performance
<1>3. PerformedOf(a, e) = [i \in 1 .. Len(e) |-> rec(i)]
  BY <1>1 DEF PerformedOf
<1> HIDE DEF rec
<1>4. PerformedOf(a, e) \in [1 .. Len(e) -> Performance(Len(a))]
  BY <1>2, <1>3
<1>5. /\ PerformedOf(a, e) \in Seq(Performance(Len(a)))
      /\ Len(PerformedOf(a, e)) = Len(e)
  BY <1>1, <1>4
<1>6. \A i \in 1 .. Len(e) : PerformedOf(a, e)[i] = rec(i)
  BY <1>3
<1>7. QED
  BY <1>2, <1>5, <1>6 DEF rec

\* Giving out further numbers changes nothing that was performed.
LEMMA PerformedStays ==
  ASSUME NEW a \in Seq(Place), NEW b \in Seq(Place), NEW e \in Seq(Execution),
         Ordered(a), Ordered(b), Placed(a, e), Len(a) <= Len(b),
         \A id \in 1 .. Len(a) : a[id] # NotAssigned => b[id] = a[id]
  PROVE  PerformedOf(b, e) = PerformedOf(a, e)
<1>1. \A x, id : HasPlace(a, x, id) => HasPlace(b, x, id)
  BY DEF HasPlace
<1>2. ASSUME NEW i \in 1 .. Len(e)
      PROVE  IdIn(b, e[i]) = IdIn(a, e[i])
  <2>1. PICK id \in 1 .. Len(a) : HasPlace(a, e[i], id)
    BY DEF Placed
  <2>2. IdIn(a, e[i]) = id
    BY <2>1, OnlyId
  <2>3. HasPlace(b, e[i], id)
    BY <1>1, <2>1
  <2>4. IdIn(b, e[i]) = id
    BY <2>3, OnlyId
  <2>5. QED
    BY <2>2, <2>4
<1>3. DOMAIN e = 1 .. Len(e)
  OBVIOUS
<1>4. QED
  BY <1>2, <1>3 DEF PerformedOf

\* An execution that comes after all others performs a later command.
LEMMA PerformedGrows ==
  ASSUME NEW a \in Seq(Place), NEW e \in Seq(Execution), NEW x \in Execution,
         Ordered(a), Placed(a, e), NEW id, HasPlace(a, x, id),
         \A i \in 1 .. Len(e) : Before(e[i].session, e[i].seq, x.session, x.seq)
  PROVE  /\ PerformedOf(a, Append(e, x)) =
              Append(PerformedOf(a, e),
                     [id |-> id, cmd |-> x.cmd, result |-> x.result])
         /\ \A i \in DOMAIN PerformedOf(a, e) : PerformedOf(a, e)[i].id < id
<1> DEFINE p == PerformedOf(a, e)
           f == Append(e, x)
           q == PerformedOf(a, f)
           y == [id |-> id, cmd |-> x.cmd, result |-> x.result]
           P == Performance(Len(a))
<1>1. /\ f \in Seq(Execution) /\ Len(f) = Len(e) + 1 /\ Len(e) \in Nat
      /\ f[Len(e) + 1] = x
      /\ \A i \in 1 .. Len(e) : f[i] = e[i]
  BY AppendFacts
<1> HIDE DEF f
<1>2. IdIn(a, x) = id
  BY OnlyId
<1>3. Placed(a, f)
  <2> SUFFICES ASSUME NEW i \in 1 .. Len(f)
      PROVE  \E k \in 1 .. Len(a) : HasPlace(a, f[i], k)
    BY DEF Placed
  <2>1. CASE i = Len(e) + 1
    BY <1>1, <2>1 DEF HasPlace
  <2>2. CASE i # Len(e) + 1
    <3>1. i \in 1 .. Len(e) /\ f[i] = e[i]
      BY <1>1, <2>2
    <3>2. QED
      BY <3>1 DEF Placed
  <2>3. QED
    BY <2>1, <2>2
<1>4. /\ p \in Seq(P) /\ Len(p) = Len(e)
      /\ \A i \in 1 .. Len(e) :
           /\ HasPlace(a, e[i], p[i].id)
           /\ p[i] = [id |-> IdIn(a, e[i]), cmd |-> e[i].cmd,
                      result |-> e[i].result]
  BY PerformedFacts
<1>5. /\ q \in Seq(P) /\ Len(q) = Len(f)
      /\ \A i \in 1 .. Len(f) :
           q[i] = [id |-> IdIn(a, f[i]), cmd |-> f[i].cmd,
                   result |-> f[i].result]
  BY <1>1, <1>3, PerformedFacts
<1>6. y \in P
  BY DEF Performance, HasPlace, Execution
<1> HIDE DEF p, q, P
<1>7. \A i \in 1 .. Len(e) : p[i].id < id
  <2> TAKE i \in 1 .. Len(e)
  <2>1. /\ HasPlace(a, e[i], p[i].id)
        /\ Before(e[i].session, e[i].seq, x.session, x.seq)
    BY <1>4
  <2>2. /\ p[i].id \in 1 .. Len(a) /\ a[p[i].id] # NotAssigned
        /\ a[p[i].id].session = e[i].session /\ a[p[i].id].seq = e[i].seq
        /\ id \in 1 .. Len(a) /\ a[id] # NotAssigned
        /\ a[id].session = x.session /\ a[id].seq = x.seq
    BY <2>1 DEF HasPlace, PlaceOf
  <2>3. QED
    BY <2>1, <2>2, OrderTells
<1>8. q = Append(p, y)
  <2> HIDE DEF y
  <2>1. /\ Append(p, y) \in Seq(P) /\ Len(Append(p, y)) = Len(e) + 1
        /\ Append(p, y)[Len(e) + 1] = y
        /\ \A i \in 1 .. Len(e) : Append(p, y)[i] = p[i]
    BY <1>4, <1>6, AppendFacts
  <2>2. q[Len(e) + 1] = y
    BY <1>1, <1>2, <1>5 DEF y
  <2>3. \A i \in 1 .. Len(e) : q[i] = p[i]
    BY <1>1, <1>4, <1>5, SMTT(20)
  <2>4. \A i \in 1 .. Len(q) : q[i] = Append(p, y)[i]
    BY <1>1, <1>5, <2>1, <2>2, <2>3
  <2>5. QED
    BY <1>1, <1>5, <2>1, <2>4, SeqEqual
<1>9. DOMAIN p = 1 .. Len(e)
  BY <1>4
<1>10. QED
  BY <1>7, <1>8, <1>9 DEF p, q, f, y

\* What the invariant says of the two histories, as they are and as they
\* will be.
LEMMA HistoryIsOrdered ==
  ASSUME ServiceInv
  PROVE  /\ assigned \in Seq(Place) /\ executed \in Seq(Execution)
         /\ Ordered(assigned) /\ Placed(assigned, executed)
         /\ Ids = 1 .. Len(assigned)
<1>1. /\ assigned \in Seq(Place) /\ executed \in Seq(Execution)
      /\ Len(assigned) = Len(command)
  BY LineTypes
  DEF ServiceInv, LineInv, GatewayInv, GatewayTypeOK, HistoryInv, NodeTypeOK,
      Place
<1>2. Ids = 1 .. Len(assigned)
  BY <1>1 DEF Ids
<1>3. Ordered(assigned)
  BY <1>2 DEF ServiceInv, OrderInv, Ordered
<1>4. Placed(assigned, executed)
  BY <1>2
  DEF ServiceInv, ExecutedInv, IsGiven, GivenTo, Placed, HasPlace, PlaceOf
<1>5. QED
  BY <1>1, <1>2, <1>3, <1>4

LEMMA HistoryStaysOrdered ==
  ASSUME ServiceInv'
  PROVE  /\ assigned' \in Seq(Place) /\ executed' \in Seq(Execution)
         /\ Ordered(assigned') /\ Placed(assigned', executed')
         /\ Ids' = 1 .. Len(assigned')
<1>1. /\ assigned' \in Seq(Place) /\ executed' \in Seq(Execution)
      /\ Len(assigned') = Len(command')
  BY DEF ServiceInv, LineInv, NodeIInv, GatewayInv, GatewayTypeOK, HistoryInv,
         NodeTypeOK, Place
<1>2. Ids' = 1 .. Len(assigned')
  BY <1>1 DEF Ids
<1>3. Ordered(assigned')
  BY <1>2 DEF ServiceInv, OrderInv, Ordered
<1>4. Placed(assigned', executed')
  BY <1>2
  DEF ServiceInv, ExecutedInv, IsGiven, GivenTo, Placed, HasPlace, PlaceOf
<1>5. QED
  BY <1>1, <1>2, <1>3, <1>4

LEMMA PerformedIs ==
  /\ Performed = PerformedOf(assigned, executed)
  /\ Performed' = PerformedOf(assigned', executed')
BY DEF Performed, PerformedOf, IdAt, IdIn, PlaceOf

LEMMA PerformedKept ==
  ASSUME ServiceInv, ServiceInv', Grows, executed' = executed
  PROVE  Performed' = Performed
<1>1. /\ assigned \in Seq(Place) /\ executed \in Seq(Execution)
      /\ Ordered(assigned) /\ Placed(assigned, executed)
      /\ Ids = 1 .. Len(assigned)
  BY HistoryIsOrdered
<1>2. /\ assigned' \in Seq(Place) /\ Ordered(assigned')
      /\ Ids' = 1 .. Len(assigned')
  BY HistoryStaysOrdered
<1>3. /\ \A id \in 1 .. Len(assigned) : id \in 1 .. Len(assigned')
      /\ \A id \in 1 .. Len(assigned) :
           assigned[id] # NotAssigned => assigned'[id] = assigned[id]
  BY <1>1, <1>2 DEF Grows
<1>4. Len(assigned) <= Len(assigned')
  <2>1. Len(assigned) \in Nat /\ Len(assigned') \in Nat
    BY <1>1, <1>2
  <2>2. Len(assigned) # 0 => Len(assigned) \in 1 .. Len(assigned)
    BY <2>1
  <2>3. QED
    BY <1>3, <2>1, <2>2
<1>5. PerformedOf(assigned', executed) = PerformedOf(assigned, executed)
  BY <1>1, <1>2, <1>3, <1>4, PerformedStays
<1>6. QED
  BY <1>5, PerformedIs

\* A result that is reported is of something performed.
LEMMA AppliedMaps ==
  ASSUME ServiceInv, NEW r, NEW F, Applied(r, F)
  PROVE  Service!Report
<1>1. /\ Reports(r) /\ DOMAIN outcome' = DOMAIN outcome
      /\ DOMAIN outcome = Ids /\ r.finished \subseteq Completion
  BY AppliedReports
<1>2. Performed' = Performed /\ command' = command
  BY PerformedIs DEF Applied, nodeVars
<1>3. ASSUME NEW id \in DOMAIN outcome, outcome'[id] # outcome[id]
      PROVE  outcome[id] = "pending" /\ Service!MayReport(id, outcome'[id])
  <2>1. PICK d \in r.finished : requests[d.seq] = id
    BY <1>1, <1>3 DEF Reports
  <2>2. outcome'[id] = d.outcome /\ outcome[id] = "pending"
    BY <1>1, <2>1 DEF Reports
  <2>3. d.outcome \in Outcome /\ d.outcome # "pending"
    <3>1. d \in Completion
      BY <1>1
    <3>2. d.outcome \in Result \cup Reason
      BY <3>1 DEF Completion
    <3>3. QED
      BY <3>2, PendingIsNoOutcome DEF Outcome
  <2>4. CASE d.outcome \in Result
    <3>1. PICK i \in 1 .. Len(executed) :
            /\ executed[i].result = d.outcome
            /\ GivenTo(id, executed[i].session, executed[i].seq,
                       executed[i].cmd)
      BY <1>1, <2>1, <2>4, ReportedResult
    <3>2. HasPlace(assigned, executed[i], id)
      BY <3>1, HistoryIsOrdered DEF GivenTo, HasPlace, PlaceOf
    <3>3. IdIn(assigned, executed[i]) = id
      BY <3>2, HistoryIsOrdered, OnlyId
    <3>4. i \in DOMAIN Performed /\ Performed[i].id = id
          /\ Performed[i].result = d.outcome
      <4>1. DOMAIN executed = 1 .. Len(executed)
        BY HistoryIsOrdered
      <4>2. QED
        BY <3>1, <3>3, <4>1, PerformedIs DEF PerformedOf
    <3>5. QED
      BY <2>2, <3>4 DEF Service!MayReport
  <2>5. CASE d.outcome \notin Result
    BY <2>2, <2>3, <2>5 DEF Service!MayReport
  <2>6. QED
    BY <2>4, <2>5
<1>4. QED
  BY <1>1, <1>2, <1>3 DEF Service!Report

LEMMA RejectMaps ==
  ASSUME ServiceInv, RejectNext
  PROVE  Service!Report
<1> DEFINE id == Head(cmdQueue)
<1>1. /\ cmdQueue # << >>
      /\ outcome' = [outcome EXCEPT ![id] = "link_failed"]
      /\ UNCHANGED <<nodeVars, command, assigned>>
  BY DEF RejectNext
<1>2. outcome[id] = "pending"
  <2>1. cmdQueue \in Seq(Id)
    BY DEF ServiceInv, LineInv, GatewayInv, GatewayTypeOK
  <2>2. id = cmdQueue[1] /\ 1 \in 1 .. Len(cmdQueue)
    BY <1>1, <2>1, TailFacts
  <2>3. QED
    BY <2>2 DEF ServiceInv, LineInv, GatewayInv, QueueInv
<1>3. Performed' = Performed /\ command' = command
  BY <1>1, PerformedIs DEF nodeVars
<1> HIDE DEF id
<1>4. DOMAIN outcome' = DOMAIN outcome
  BY <1>1
<1>5. "link_failed" \in Outcome \ (Result \cup {"pending"})
  BY DEF Outcome, Result
<1>6. \A k \in DOMAIN outcome :
        \/ outcome'[k] = outcome[k]
        \/ k = id /\ outcome'[k] = "link_failed"
  BY <1>1
<1>7. QED
  BY <1>2, <1>3, <1>4, <1>5, <1>6 DEF Service!Report, Service!MayReport

\* An execution performs the command that has the number.
LEMMA NodeMaps ==
  ASSUME ServiceInv, ServiceInv', NodeMoves, UNCHANGED gatewayVars
  PROVE  \/ UNCHANGED <<command, Performed, outcome>>
         \/ \E id \in DOMAIN command, r \in Result : Service!Perform(id, r)
<1>1. UNCHANGED <<command, assigned, outcome>>
  BY DEF gatewayVars
<1>2. CASE executed' = executed
  BY <1>1, <1>2, PerformedIs
<1>3. CASE executed' # executed
  <2>1. PICK x \in Execution :
          /\ executed' = Append(executed, x)
          /\ IsGiven(x.session, x.seq, x.cmd)
    BY <1>3, ExecutionGrows DEF ServiceInv
  <2>2. PICK id \in Ids : GivenTo(id, x.session, x.seq, x.cmd)
    BY <2>1 DEF IsGiven
  <2>3. /\ assigned \in Seq(Place) /\ executed \in Seq(Execution)
        /\ Ordered(assigned) /\ Placed(assigned, executed)
    BY HistoryIsOrdered
  <2>4. HasPlace(assigned, x, id) /\ command[id] = x.cmd
    BY <2>2, HistoryIsOrdered DEF GivenTo, HasPlace, PlaceOf
  <2>5. \A i \in 1 .. Len(executed) :
          Before(executed[i].session, executed[i].seq, x.session, x.seq)
    <3>1. /\ Len(executed') = Len(executed) + 1 /\ Len(executed) \in Nat
          /\ executed'[Len(executed) + 1] = x
          /\ \A i \in 1 .. Len(executed) : executed'[i] = executed[i]
          /\ DOMAIN executed' = 1 .. Len(executed) + 1
      BY <2>1, <2>3
    <3>2. InOrderOnce'
      BY DEF ServiceInv, LineInv, NodeIInv
    <3>3. QED
      BY <3>1, <3>2 DEF InOrderOnce
  <2>6. /\ PerformedOf(assigned, Append(executed, x)) =
             Append(PerformedOf(assigned, executed),
                    [id |-> id, cmd |-> x.cmd, result |-> x.result])
        /\ \A i \in DOMAIN PerformedOf(assigned, executed) :
             PerformedOf(assigned, executed)[i].id < id
    BY <2>3, <2>4, <2>5, PerformedGrows
  <2>7. /\ Performed' = Append(Performed, [id |-> id, cmd |-> command[id],
                                           result |-> x.result])
        /\ \A i \in DOMAIN Performed : Performed[i].id < id
    BY <1>1, <2>1, <2>4, <2>6, PerformedIs
  <2>8. Service!Perform(id, x.result)
    BY <1>1, <2>7 DEF Service!Perform
  <2>9. id \in DOMAIN command /\ x.result \in Result
    <3>1. command \in Seq(Command)
      BY DEF ServiceInv, LineInv, GatewayInv, GatewayTypeOK
    <3>2. QED
      BY <2>2, <3>1 DEF Ids, Execution
  <2>10. QED
    BY <2>8, <2>9
<1>4. QED
  BY <1>2, <1>3

LEMMA LinkMaps ==
  ASSUME ServiceInv, [LinkNext]_linkVars
  PROVE  [Service!Next]_<<command, Performed, outcome>>
<1>1. ServiceInv'
  BY LinkService
<1>2. CASE LinkNext
  <2>1. LinkStep /\ (NodeSide => NodeMoves)
    BY <1>2, LinkLine DEF ServiceInv
  <2>2. CASE NodeSide
    BY <1>1, <2>1, <2>2, NodeMaps DEF NodeSide, Service!Next
  <2>3. CASE \E r, F : Applied(r, F)
    BY <2>3, AppliedMaps DEF Service!Next
  <2>4. CASE Quiet
    BY <2>4, PerformedIs DEF Quiet, nodeVars
  <2>5. CASE RejectNext
    BY <2>5, RejectMaps DEF Service!Next
  <2>6. CASE \E c \in Command : SubmitCommand(c)
    <3>1. PICK c \in Command : SubmitCommand(c)
      BY <2>6
    <3>2. Performed' = Performed
      BY <1>1, <3>1, SubmitCommandService, PerformedKept
      DEF SubmitCommand, nodeVars
    <3>3. Service!Submit(c)
      BY <3>1, <3>2 DEF Service!Submit, SubmitCommand
    <3>4. QED
      BY <3>3 DEF Service!Next
  <2>7. CASE SubmitNext
    <3>1. Performed' = Performed
      BY <1>1, <2>7, SubmitNextService, PerformedKept DEF SubmitNext, nodeVars
    <3>2. UNCHANGED <<command, outcome>>
      BY <2>7 DEF SubmitNext
    <3>3. QED
      BY <3>1, <3>2
  <2>8. QED
    BY <2>1, <2>2, <2>3, <2>4, <2>5, <2>6, <2>7 DEF LinkStep
<1>3. CASE UNCHANGED linkVars
  BY <1>3, PerformedIs DEF linkVars
<1>4. QED
  BY <1>2, <1>3

LEMMA LinkStartsAsService ==
  ASSUME LinkInit
  PROVE  Service!Init
<1>1. command = << >> /\ outcome = << >> /\ executed = << >>
  BY DEF LinkInit, NodeInit
<1>2. Performed = << >>
  BY <1>1 DEF Performed
<1>3. QED
  BY <1>1, <1>2 DEF Service!Init

(***************************************************************************)
(* With one gateway process the link, for any number of commands, port     *)
(* replacements and frames lost, delayed, repeated or overtaken, is the    *)
(* abstract command service: what the node executes is performed once and  *)
(* in the order of submission, and a result is reported only of a command  *)
(* performed with that result (the handlers of GatewayApp with             *)
(* CommandTracker, NodeLink and edge_sr.c).                                *)
(***************************************************************************)
THEOREM LinkImplementsService == LinkSpec => ImplementsService
<1>1. LinkInit => Service!Init
  BY LinkStartsAsService
<1>2. ServiceInv /\ [LinkNext]_linkVars
        => [Service!Next]_<<command, Performed, outcome>>
  BY LinkMaps
<1>3. QED
  BY <1>1, <1>2, LinkServiceInvariant, PTL
  DEF LinkSpec, ImplementsService, Service!Spec, Service!vars
=============================================================================
