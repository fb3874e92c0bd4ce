------------------------------- MODULE SrNode -------------------------------
(***************************************************************************)
(* The node end of the command link: edge_sr.c, the C99 receiver the STM32 *)
(* firmware and node-sim share.  It buffers the commands of its window,    *)
(* executes them one after the other in sequence order, keeps each result  *)
(* until it is acknowledged or too old, and closes a session whose next    *)
(* command does not come.                                                  *)
(*                                                                         *)
(* The pool of EDGE_SR_RESULT_CAPACITY slots is the function entries from  *)
(* sequence numbers to slots: on_frame() takes a slot for a sequence       *)
(* number only when find_entry() finds none that holds it.  A slot that is *)
(* not held is FreeEntry, and at most Capacity of them are held.           *)
(*                                                                         *)
(* An entry has one age: that of received_at while it is buffered, that of *)
(* completed_at once executed (no code reads the other one).  sentAge is   *)
(* the age of last_sent_at.                                                *)
(***************************************************************************)
EXTENDS SrProtocol, Sequences

VARIABLES
  node,       \* edge_sr_node_t
  nodePc,     \* where edge_sr_node_on_frame is: "idle" between two calls,
              \* "deliver" at the head of deliver()'s loop, "execute" inside
              \* the synchronous execute() hook
  uplink,     \* every frame emit() has handed to the wire so far
  executed    \* history: the executions, in the order they completed

nodeVars == <<node, nodePc, uplink, executed>>

NoCommand == [op |-> "none", arg |-> "none"]

Entry ==
  [state : {"free", "buffered", "executed"},
   cmd : Command \cup {NoCommand},
   age : Nat,
   sentAge : Nat,
   retries : 0 .. MaxRetry,
   result : Result \cup {NoResult}]

FreeEntry ==
  [state |-> "free", cmd |-> NoCommand, age |-> 0, sentAge |-> 0,
   retries |-> 0, result |-> NoResult]
BufferedEntry(c) ==
  [state |-> "buffered", cmd |-> c, age |-> 0, sentAge |-> 0, retries |-> 0,
   result |-> NoResult]

ExecutedEntry(c, r) ==
  [state |-> "executed", cmd |-> c, age |-> 0, sentAge |-> 0, retries |-> 0,
   result |-> r]

\* clear_entries()
NoEntries == [q \in Seqs |-> FreeEntry]

NodeState ==
  [session : Session, base : 0 .. SeqSpace, active : BOOLEAN,
   entries : [Seqs -> Entry]]

Execution == [session : UsedSession, seq : Seqs, cmd : Command, result : Result]

(* Type correctness of the node's state: base within the sequence space,   *)
(* retries and ages within their limits (edge_sr.h:20).                    *)
NodeTypeOK ==
  /\ node \in NodeState
  /\ nodePc \in {"idle", "deliver", "execute"}
  /\ uplink \subseteq UpFrame
  /\ executed \in Seq(Execution)

\* edge_sr_node_init(): power-up, nothing of an earlier life is kept.
NodeInit ==
  /\ node = [session |-> 0, base |-> 0, active |-> FALSE,
             entries |-> NoEntries]
  /\ nodePc = "idle"
  /\ uplink = {}
  /\ executed = << >>

-----------------------------------------------------------------------------
\* find_entry(seq) # NULL
Held(n, q) == n.entries[q].state # "free"

(***************************************************************************)
(* expire(): a command that waits behind a gap for Lifetime closes the     *)
(* whole session (it must not be executed past the gap); otherwise the     *)
(* results older than ResultTtl are dropped.                               *)
(***************************************************************************)
GapExpired(n) ==
  /\ n.base < SeqSpace
  /\ ~Held(n, n.base)
  /\ \E q \in Seqs : /\ n.entries[q].state = "buffered"
                     /\ n.entries[q].age >= Lifetime

\* Bug variant: no time to live, only an acknowledgement frees a result.
ResultExpired_Never(e) == FALSE

ResultExpired(e) == e.state = "executed" /\ e.age >= ResultTtl
\* Bug variant: the missing command is given up instead of the session.
expire_SkipsGap(n) ==
  [n EXCEPT !.base = IF GapExpired(n) THEN @ + 1 ELSE @,
            !.entries = [q \in Seqs |-> IF ResultExpired(n.entries[q])
                                          THEN FreeEntry ELSE n.entries[q]]]

expire(n) ==
  IF GapExpired(n)
    THEN [n EXCEPT !.active = FALSE, !.entries = NoEntries]
    ELSE [n EXCEPT !.entries =
            [q \in Seqs |-> IF ResultExpired(n.entries[q])
                              THEN FreeEntry ELSE n.entries[q]]]

\* emit_received() and emit_result()
ReceivedOf(n, q) == [type |-> "RECEIVED", session |-> n.session, seq |-> q]
ResultOf(n, q) ==
  [type |-> "RESULT", session |-> n.session, seq |-> q,
   op |-> n.entries[q].cmd.op, result |-> n.entries[q].result]

emit(frames) == uplink' = uplink \cup frames

-----------------------------------------------------------------------------
\* Bug variants: an OPEN of the current number starts it afresh, or revives
\* it when closed; a new session inherits the pool of the old one.
Opened_Again(n, s) ==
  IF s >= n.session
    THEN [session |-> s, base |-> 0, active |-> TRUE, entries |-> NoEntries]
    ELSE n

Opened_Revived(n, s) ==
  IF s > n.session
    THEN [session |-> s, base |-> 0, active |-> TRUE, entries |-> NoEntries]
    ELSE [n EXCEPT !.active = @ \/ s = n.session]

Opened_Uncleared(n, s) ==
  IF s > n.session
    THEN [n EXCEPT !.session = s, !.base = 0, !.active = TRUE]
    ELSE n

(***************************************************************************)
(* SR_OPEN: a higher session starts afresh; the acknowledgement carries    *)
(* the high water mark, and OK only for the session that is now open.      *)
(***************************************************************************)
Opened(n, s) ==
  IF s > n.session
    THEN [session |-> s, base |-> 0, active |-> TRUE, entries |-> NoEntries]
    ELSE n

OnOpen(n, f) ==
  LET m == Opened(n, f.session) IN
  /\ f.type = "OPEN"
  /\ node' = m
  /\ emit({[type |-> "OPEN_ACK", session |-> f.session,
            highWater |-> m.session,
            rc |-> IF f.session = m.session /\ m.active
                     THEN "OK" ELSE "BAD_PARAM"]})
  /\ UNCHANGED nodePc

\* What follows OPEN in on_frame() serves only the session that is open.
InSession(n, f) == n.active /\ f.session = n.session

OnStaleFrame(n, f) ==
  /\ f.type # "OPEN"
  /\ ~InSession(n, f)
  /\ node' = n
  /\ UNCHANGED <<nodePc, uplink>>

\* SR_RESULT_ACK releases the result it names.
OnResultAck(n, f) ==
  /\ f.type = "RESULT_ACK"
  /\ InSession(n, f)
  /\ node' = IF n.entries[f.seq].state = "executed"
               THEN [n EXCEPT !.entries[f.seq] = FreeEntry] ELSE n
  /\ UNCHANGED <<nodePc, uplink>>

\* SR_COMMAND of a sequence number in the pool: answered again, if it is the
\* same command; a different one under the same number is dropped.
OnRepeatedCommand(n, f) ==
  /\ f.type = "COMMAND"
  /\ InSession(n, f)
  /\ Held(n, f.seq)
  /\ node' = n
  /\ emit(IF n.entries[f.seq].cmd # f.cmd THEN {}
          ELSE {ReceivedOf(n, f.seq)} \cup
               (IF n.entries[f.seq].state = "executed"
                  THEN {ResultOf(n, f.seq)} ELSE {}))
  /\ UNCHANGED nodePc

\* Left of the window: executed, its result already released.
OnOldCommand(n, f) ==
  /\ f.type = "COMMAND"
  /\ InSession(n, f)
  /\ ~Held(n, f.seq)
  /\ f.seq < n.base
  /\ node' = n
  /\ emit({ReceivedOf(n, f.seq)})
  /\ UNCHANGED nodePc

HasFreeSlot(n) == Cardinality({q \in Seqs : Held(n, q)}) < Capacity
Acceptable(n, q) == q >= n.base /\ q < n.base + Window /\ HasFreeSlot(n)

\* Bug variant: acknowledged before it is known whether it can be stored.
OnRefusedCommand_Receipt(n, f) ==
  /\ f.type = "COMMAND"
  /\ InSession(n, f)
  /\ ~Held(n, f.seq)
  /\ f.seq >= n.base
  /\ ~Acceptable(n, f.seq)
  /\ node' = n
  /\ emit({ReceivedOf(n, f.seq)})
  /\ UNCHANGED nodePc

\* Right of the window, or no free slot: dropped, and not acknowledged.
OnRefusedCommand(n, f) ==
  /\ f.type = "COMMAND"
  /\ InSession(n, f)
  /\ ~Held(n, f.seq)
  /\ f.seq >= n.base
  /\ ~Acceptable(n, f.seq)
  /\ node' = n
  /\ UNCHANGED <<nodePc, uplink>>

\* In the window: stored, acknowledged, and deliver() is entered.
OnNewCommand(n, f) ==
  /\ f.type = "COMMAND"
  /\ InSession(n, f)
  /\ ~Held(n, f.seq)
  /\ Acceptable(n, f.seq)
  /\ node' = [n EXCEPT !.entries[f.seq] = BufferedEntry(f.cmd)]
  /\ emit({ReceivedOf(n, f.seq)})
  /\ nodePc' = "deliver"

(***************************************************************************)
(* edge_sr_node_on_frame(), up to its call of deliver().  Frames too short *)
(* or too long for their type change nothing but what expire() does, which *)
(* edge_sr_node_tick() also does; they are left out.                       *)
(***************************************************************************)
NodeOnFrame(f) ==
  LET n == expire(node) IN
  /\ nodePc = "idle"
  /\ \/ OnOpen(n, f)
     \/ OnStaleFrame(n, f)
     \/ OnResultAck(n, f)
     \/ OnRepeatedCommand(n, f)
     \/ OnOldCommand(n, f)
     \/ OnRefusedCommand(n, f)
     \/ OnNewCommand(n, f)
  /\ UNCHANGED executed

\* The test at the head of deliver()'s loop: the next command is here.
NextIsBuffered(n) ==
  /\ n.base < SeqSpace
  /\ n.active
  /\ n.entries[n.base].state = "buffered"

\* One pass of the loop up to execute(), or the return from deliver().
NodeDeliver ==
  LET n == IF node.base < SeqSpace THEN expire(node) ELSE node IN
  /\ nodePc = "deliver"
  /\ node' = n
  /\ nodePc' = IF NextIsBuffered(n) THEN "execute" ELSE "idle"
  /\ UNCHANGED <<uplink, executed>>

(***************************************************************************)
(* execute() returns: the result is kept (an empty or oversized one is     *)
(* EDGE_RC_UNSUPPORTED), the window moves, then the result is sent.        *)
(***************************************************************************)
Stored(returned) == IF returned = NoResult THEN "error" ELSE returned

NodeExecuted(returned) ==
  LET e == node.entries[node.base]
      m == [node EXCEPT
              !.entries[node.base] = ExecutedEntry(e.cmd, Stored(returned)),
              !.base = node.base + 1]
  IN
  /\ nodePc = "execute"
  /\ node' = m
  /\ emit({ResultOf(m, node.base)})
  /\ executed' = Append(executed,
                   [session |-> node.session, seq |-> node.base,
                    cmd |-> e.cmd, result |-> Stored(returned)])
  /\ nodePc' = "deliver"

\* edge_sr_node_tick(): results not acknowledged are sent again.
ResendDue(e) ==
  /\ e.state = "executed"
  /\ e.retries < MaxRetry
  /\ e.sentAge >= AckTimeout

NodeTick ==
  LET n == expire(node)
      due == {q \in Seqs : n.active /\ ResendDue(n.entries[q])}
  IN
  /\ nodePc = "idle"
  /\ node' = [n EXCEPT !.entries =
                [q \in Seqs |->
                   IF q \in due
                     THEN [n.entries[q] EXCEPT !.retries = @ + 1,
                                               !.sentAge = 0]
                     ELSE n.entries[q]]]
  /\ emit({ResultOf(n, q) : q \in due})
  /\ UNCHANGED <<nodePc, executed>>

\* A tick of the node's clock; also while execute() runs.
OlderEntry(e) ==
  CASE e.state = "free" -> e
    [] e.state = "buffered" -> [e EXCEPT !.age = Older(@, Lifetime)]
    [] e.state = "executed" -> [e EXCEPT !.age = Older(@, ResultTtl),
                                         !.sentAge = Older(@, AckTimeout)]

NodeElapse ==
  /\ node' = [node EXCEPT !.entries =
                [q \in Seqs |-> OlderEntry(node.entries[q])]]
  /\ UNCHANGED <<nodePc, uplink, executed>>

\* The steps the node takes by itself; frames come from the wire.
NodeStep ==
  \/ NodeDeliver
  \/ \E r \in Returned : NodeExecuted(r)
  \/ NodeTick
  \/ NodeElapse

(***************************************************************************)
(* The node alone, under any wire: any frame may come at any time.         *)
(***************************************************************************)
NodeNext == NodeStep \/ \E f \in DownFrame : NodeOnFrame(f)

NodeSpec == NodeInit /\ [][NodeNext]_nodeVars

-----------------------------------------------------------------------------
\* The order of sequence numbers across sessions.
Before(s1, q1, s2, q2) == s1 < s2 \/ (s1 = s2 /\ q1 < q2)

(***************************************************************************)
(* Every execution comes strictly later in (session, seq) order than all   *)
(* executions before it: none is repeated, none is overtaken, and a        *)
(* command of a superseded session is not executed after one of a newer    *)
(* session.  deliver() executes only entry base, and base and session only *)
(* grow.                                                                   *)
(***************************************************************************)
InOrderOnce ==
  \A i, j \in 1 .. Len(executed) :
    i < j => Before(executed[i].session, executed[i].seq,
                    executed[j].session, executed[j].seq)

(***************************************************************************)
(* No gap is skipped: before a command, every lower sequence number of its *)
(* session was executed.  expire() closes the session instead of letting   *)
(* deliver() pass a missing command.                                       *)
(***************************************************************************)
NoGapSkipped ==
  \A j \in 1 .. Len(executed) : \A q \in 0 .. executed[j].seq - 1 :
    \E i \in 1 .. j - 1 : /\ executed[i].session = executed[j].session
                          /\ executed[i].seq = q

(***************************************************************************)
(* Every RESULT the node ever put on the wire is that of an execution with *)
(* the same session, number, operation code and result, although the slot  *)
(* it is read from is reused by later commands and sessions.               *)
(***************************************************************************)
ResultsAreOfExecutions ==
  \A f \in uplink : f.type = "RESULT" =>
    \E i \in 1 .. Len(executed) :
      /\ executed[i].session = f.session
      /\ executed[i].seq = f.seq
      /\ executed[i].cmd.op = f.op
      /\ executed[i].result = f.result

(***************************************************************************)
(* A RECEIVED promise is kept: while its session is open, the command is   *)
(* buffered or it has been executed; only closing the session drops it.    *)
(***************************************************************************)
ReceivedIsKept ==
  \A f \in uplink :
    (f.type = "RECEIVED" /\ node.active /\ f.session = node.session) =>
      \/ f.seq < node.base
      \/ node.entries[f.seq].state = "buffered"
(***************************************************************************)
(* A session that expire() has closed stays closed: no OPEN of its number, *)
(* and no other frame, opens it again.                                     *)
(***************************************************************************)
ClosedStaysClosed ==
  [][(~node.active /\ node'.session = node.session) => ~node'.active]_node

(***************************************************************************)
(* Fairness of the node: the task that owns the receiver finishes a call   *)
(* it has entered, its timer runs the tick, and time goes on.              *)
(***************************************************************************)
NodeFairness ==
  /\ WF_nodeVars(NodeDeliver \/ \E r \in Returned : NodeExecuted(r))
  /\ SF_nodeVars(NodeTick)
  /\ WF_nodeVars(NodeElapse)

NodeFairSpec == NodeSpec /\ NodeFairness

(***************************************************************************)
(* No slot of the pool is held for ever, whatever frames come or fail to   *)
(* come: a command behind a gap is given up with its session, a result     *)
(* that is never acknowledged grows old.                                   *)
(***************************************************************************)
SlotsAreReleased ==
  \A q \in Seqs :
    node.entries[q].state # "free" ~> node.entries[q].state = "free"

-----------------------------------------------------------------------------
(***************************************************************************)
(* The inductive invariant behind the properties above.                    *)
(***************************************************************************)
\* x is the execution of number q of the node's session.
ExecutionOf(x, n, q) == x.session = n.session /\ x.seq = q

\* What the pool holds: commands from base on, results below it, each of
\* an execution that took place.
PoolInv(n) ==
  \A q \in Seqs :
    /\ n.entries[q].state # "free" => n.entries[q].cmd \in Command
    /\ n.entries[q].state = "buffered" => q >= n.base
    /\ n.entries[q].state = "executed" =>
         /\ q < n.base
         /\ \E i \in 1 .. Len(executed) :
              /\ ExecutionOf(executed[i], n, q)
              /\ executed[i].cmd = n.entries[q].cmd
              /\ executed[i].result = n.entries[q].result

\* base is where the executions of the node's session have got to.
FrontierInv ==
  /\ \A i \in 1 .. Len(executed) :
       Before(executed[i].session, executed[i].seq, node.session, node.base)
  /\ \A q \in 0 .. node.base - 1 :
       \E i \in 1 .. Len(executed) : ExecutionOf(executed[i], node, q)

\* The wire has no receipt of a session still to come.
ReceiptInv ==
  \A f \in uplink : f.type = "RECEIVED" => f.session <= node.session

NodeIInv ==
  /\ NodeTypeOK
  /\ PoolInv(node)
  /\ FrontierInv
  /\ ReceiptInv
  /\ node.active => node.session # 0
  /\ nodePc = "execute" => NextIsBuffered(node)
  /\ InOrderOnce
  /\ NoGapSkipped
  /\ ResultsAreOfExecutions
  /\ ReceivedIsKept
=============================================================================
