--------------------------- MODULE CommandTracker ---------------------------
(***************************************************************************)
(* The gateway end of the command link: CommandTracker.cpp.  The class     *)
(* does no I/O: every method changes its state and returns the frames to   *)
(* send and the commands that are finished (TrackerActions).  It is        *)
(* modelled the same way, by operators from a tracker t to a step          *)
(*   [t |-> the tracker after, send |-> frames in order, finished |-> set].*)
(* GatewayApp, the only caller, is in module SrLink.                       *)
(*                                                                         *)
(* entries_ is a function on all sequence numbers; NoEntry stands for a    *)
(* number the map does not hold.  Entry::received is received_[seq]: both  *)
(* are set by receive() alone and cleared together.                        *)
(***************************************************************************)
EXTENDS SrProtocol, Sequences

(***************************************************************************)
(* CommandSend: a frame and the identity its completion is checked with.   *)
(***************************************************************************)
OpenSend == [type : {"OPEN"}, session : UsedSession, attempt : Nat]
DataSend ==
  [type : {"COMMAND"}, session : UsedSession, seq : Seqs, cmd : Command,
   attempt : Nat]
AckSend == [type : {"RESULT_ACK"}, session : UsedSession, seq : Seqs]
CommandSend == OpenSend \cup DataSend \cup AckSend

\* The frame buildFrame() makes of a send: the attempt stays behind.
FrameOf(send) ==
  CASE send.type = "OPEN" -> [type |-> "OPEN", session |-> send.session]
    [] send.type = "COMMAND" ->
         [type |-> "COMMAND", session |-> send.session, seq |-> send.seq,
          cmd |-> send.cmd]
    [] send.type = "RESULT_ACK" -> send

(***************************************************************************)
(* CommandCompletion: a result of the node, or the reason there is none.   *)
(***************************************************************************)
Reason == {"timeout", "send_failed", "session_aborted"}
Completion == [seq : Seqs, outcome : Result \cup Reason]

TrackerEntry ==
  [held : BOOLEAN, cmd : Command \cup {[op |-> "none", arg |-> "none"]},
   age : Nat, pending : BOOLEAN, sends : 0 .. MaxRetry + 1, sentAge : Nat]

NoEntry ==
  [held |-> FALSE, cmd |-> [op |-> "none", arg |-> "none"], age |-> 0,
   pending |-> FALSE, sends |-> 0, sentAge |-> 0]
NewEntry(c) == [NoEntry EXCEPT !.held = TRUE, !.cmd = c, !.pending = TRUE]

NoTrackerEntries == [q \in Seqs |-> NoEntry]
NoFlags == [q \in Seqs |-> FALSE]

Tracker ==
  [state : {"Closed", "Opening", "Ready", "Failed"},
   session : Session,
   base : 0 .. SeqSpace,
   next : 0 .. SeqSpace,
   entries : [Seqs -> TrackerEntry],
   received : [Seqs -> BOOLEAN],
   completed : [Seqs -> BOOLEAN],
   types : [Seqs -> Op \cup {"none"}],
   openAge : Nat,
   openSentAge : Nat,
   openSends : 0 .. MaxRetry + 1,
   openPending : BOOLEAN]

ClosedTracker ==
  [state |-> "Closed", session |-> 0, base |-> 0, next |-> 0,
   entries |-> NoTrackerEntries, received |-> NoFlags,
   completed |-> NoFlags, types |-> [q \in Seqs |-> "none"], openAge |-> 0,
   openSentAge |-> 0, openSends |-> 0, openPending |-> FALSE]

HeldSeqs(t) == {q \in Seqs : t.entries[q].held}

Nothing(t) == [t |-> t, send |-> << >>, finished |-> {}]

openSend(t) ==
  [type |-> "OPEN", session |-> t.session, attempt |-> t.openSends]
dataSend(t, q) ==
  [type |-> "COMMAND", session |-> t.session, seq |-> q,
   cmd |-> t.entries[q].cmd, attempt |-> t.entries[q].sends]
resultAck(t, q) ==
  [type |-> "RESULT_ACK", session |-> t.session, seq |-> q]

-----------------------------------------------------------------------------
(***************************************************************************)
(* begin(): a session number is never used twice, and never wraps.  The    *)
(* callers have emptied entries_.                                          *)
(***************************************************************************)
begin(t, session) ==
  LET s == IF session <= t.session THEN t.session + 1 ELSE session
      fresh == [ClosedTracker EXCEPT !.state = "Opening", !.session = s,
                                     !.openPending = TRUE]
  IN IF s > MaxSession
       THEN [t |-> [t EXCEPT !.state = "Failed"], send |-> << >>]
       ELSE [t |-> fresh, send |-> <<openSend(fresh)>>]

\* The two ways all commands in flight end at once: start() and abort().
restart(t, session, finished) ==
  LET r == begin([t EXCEPT !.entries = NoTrackerEntries], session)
  IN [t |-> r.t, send |-> r.send, finished |-> finished]

start(t, session) ==
  restart(t, session,
          {[seq |-> q, outcome |-> "session_aborted"] : q \in HeldSeqs(t)})

\* Bug variant: only the command that failed is reported.
abort_OnlyFailed(t, failed, reason) ==
  restart(t, t.session, {[seq |-> failed, outcome |-> reason]})

abort(t, failed, reason) ==
  restart(t, t.session,
          {[seq |-> q, outcome |-> IF q = failed THEN reason
                                   ELSE "session_aborted"]
             : q \in HeldSeqs(t)})

-----------------------------------------------------------------------------
canSubmit(t) ==
  /\ t.state = "Ready"
  /\ t.next < SeqSpace
  /\ t.next < t.base + Window
  /\ Cardinality(HeldSeqs(t)) < Window

\* submit(), when canSubmit() holds.
submit(t, c) ==
  LET u == [t EXCEPT !.next = @ + 1,
                     !.entries[t.next] = NewEntry(c),
                     !.types[t.next] = c.op]
  IN [t |-> u, send |-> <<dataSend(u, t.next)>>, finished |-> {}]

\* Bug variant: the edge moves to the last number received, over gaps.
Edge_OverGap(received, base, next) ==
  CHOOSE b \in base .. next :
    /\ b > base => received[b - 1]
    /\ \A q \in b .. next - 1 : ~received[q]

\* receive(): the window's left edge moves past every number received.
Edge(received, base, next) ==
  CHOOSE b \in base .. next :
    /\ b < next => ~received[b]
    /\ \A q \in base .. b - 1 : received[q]

receive(t, q) ==
  LET received == [t.received EXCEPT ![q] = TRUE]
  IN [t EXCEPT !.received = received,
               !.base = Edge(received, t.base, t.next)]

\* rollover(): the session's last number is used and answered.
rollover(t, send, finished) ==
  IF t.next = SeqSpace /\ HeldSeqs(t) = {}
    THEN LET r == begin(t, t.session)
         IN [t |-> r.t, send |-> send \o r.send, finished |-> finished]
    ELSE [t |-> t, send |-> send, finished |-> finished]

\* The handshake is over: what begin() set for it is not read any more.
handshakeOver(t, state) ==
  [t EXCEPT !.state = state, !.openPending = FALSE, !.openSends = 0,
            !.openAge = 0, !.openSentAge = 0]

-----------------------------------------------------------------------------
\* Is send the transmission the tracker is waiting to see written?
OpenAwaited(t, send) ==
  /\ t.state = "Opening"
  /\ t.openPending
  /\ send.attempt = t.openSends

DataAwaited(t, send) ==
  /\ t.state = "Ready"
  /\ t.entries[send.seq].held
  /\ t.entries[send.seq].pending
  /\ ~t.received[send.seq]
  /\ send.attempt = t.entries[send.seq].sends

\* canSend(): asked before the first byte of a queued frame is written.
canSend(t, send) ==
  /\ send.session = t.session
  /\ CASE send.type = "OPEN" -> OpenAwaited(t, send) /\ t.openAge < Lifetime
       [] send.type = "RESULT_ACK" ->
            t.state = "Ready" /\ t.completed[send.seq]
       [] send.type = "COMMAND" ->
            DataAwaited(t, send) /\ t.entries[send.seq].age < Lifetime

\* Bug variant: the session counts as open when its OPEN is written.
openWritten_Ready(t, success) ==
  handshakeOver(t, IF success THEN "Ready" ELSE "Failed")

(***************************************************************************)
(* onWritten(): a queued frame has been written, or never will be.         *)
(***************************************************************************)
openWritten(t, success) ==
  IF ~success \/ t.openAge >= Lifetime
    THEN handshakeOver(t, "Failed")
    ELSE [t EXCEPT !.openPending = FALSE, !.openSends = @ + 1,
                   !.openSentAge = 0]

dataWritten(t, q) ==
  [t EXCEPT !.entries[q].pending = FALSE, !.entries[q].sends = @ + 1,
            !.entries[q].sentAge = 0]

onWritten(t, send, success) ==
  IF send.session # t.session \/ send.type = "RESULT_ACK" THEN Nothing(t)
  ELSE IF send.type = "OPEN" THEN
    Nothing(IF OpenAwaited(t, send) THEN openWritten(t, success) ELSE t)
  ELSE IF ~DataAwaited(t, send) THEN Nothing(t)
  ELSE IF t.entries[send.seq].age >= Lifetime THEN
    abort(t, send.seq, "timeout")
  ELSE IF ~success THEN abort(t, send.seq, "send_failed")
  ELSE Nothing(dataWritten(t, send.seq))

-----------------------------------------------------------------------------
(***************************************************************************)
(* onFrame(), by frame type; frames of another session change nothing.     *)
(***************************************************************************)
onOpenAck(t, f) ==
  IF t.state # "Opening" \/ t.openSends = 0 THEN Nothing(t)
  ELSE IF t.openAge >= Lifetime THEN Nothing(handshakeOver(t, "Failed"))
  ELSE IF f.rc = "OK" /\ f.highWater = t.session THEN
    Nothing(handshakeOver(t, "Ready"))
  ELSE IF f.rc = "BAD_PARAM" /\ f.highWater >= t.session THEN
    IF f.highWater = MaxSession \/ t.openSends > MaxRetry
      THEN Nothing(handshakeOver(t, "Failed"))
      ELSE LET u == [t EXCEPT !.session = f.highWater + 1,
                              !.openPending = TRUE]
           IN [t |-> u, send |-> <<openSend(u)>>, finished |-> {}]
  ELSE Nothing(t)

\* Has command q been written at least once?
Sent(t, q) == t.entries[q].held /\ t.entries[q].sends # 0

onReceived(t, f) ==
  Nothing(IF t.state = "Ready" /\ f.seq < t.next /\ Sent(t, f.seq)
            THEN receive(t, f.seq) ELSE t)

completeCommand(t, f) ==
  LET u == [receive(t, f.seq) EXCEPT !.completed[f.seq] = TRUE,
                                     !.entries[f.seq] = NoEntry]
  IN rollover(u, <<resultAck(u, f.seq)>>,
              {[seq |-> f.seq, outcome |-> f.result]})

onResult(t, f) ==
  IF \/ t.state # "Ready"
     \/ f.seq >= t.next
     \/ f.op # t.types[f.seq]
     \/ ~resultValid(f.result)
    THEN Nothing(t)
  ELSE IF t.completed[f.seq]
    THEN [t |-> t, send |-> <<resultAck(t, f.seq)>>, finished |-> {}]
  ELSE IF Sent(t, f.seq) THEN completeCommand(t, f)
  ELSE Nothing(t)

\* Bug variant: the session of a frame is not compared.
onFrame_AnySession(t, f) ==
  CASE f.type = "OPEN_ACK" -> onOpenAck(t, f)
    [] f.type = "RECEIVED" -> onReceived(t, f)
    [] f.type = "RESULT"   -> onResult(t, f)

onFrame(t, f) ==
  IF f.session # t.session THEN Nothing(t)
  ELSE CASE f.type = "OPEN_ACK" -> onOpenAck(t, f)
         [] f.type = "RECEIVED" -> onReceived(t, f)
         [] f.type = "RESULT"   -> onResult(t, f)

-----------------------------------------------------------------------------
(***************************************************************************)
(* tick(): first the commands that are beyond recovery (the lowest one     *)
(* ends the session, before any retransmission is queued), then the        *)
(* retransmissions that are due, in sequence order.  The value is the set  *)
(* of possible steps; it has one element.                                  *)
(***************************************************************************)
ackOverdue(t, q) ==
  /\ ~t.received[q]
  /\ ~t.entries[q].pending
  /\ t.entries[q].sentAge >= AckTimeout
\* Bug variant: a command that was received may wait for its result forever.
Unrecoverable_NoResultTimeout(t) ==
  {q \in HeldSeqs(t) :
     \/ ~t.received[q] /\ t.entries[q].age >= Lifetime
     \/ ackOverdue(t, q) /\ t.entries[q].sends > MaxRetry}

Unrecoverable(t) ==
  {q \in HeldSeqs(t) :
     \/ ~t.received[q] /\ t.entries[q].age >= Lifetime
     \/ t.entries[q].age >= ResultTimeout
     \/ ackOverdue(t, q) /\ t.entries[q].sends > MaxRetry}

\* The ways to line up the numbers of S in increasing order: one.
InOrder(S) ==
  {s \in [1 .. Cardinality(S) -> S] :
     \A i, j \in DOMAIN s : i < j => s[i] < s[j]}

tickOpening(t) ==
  IF t.openAge >= Lifetime THEN Nothing(handshakeOver(t, "Failed"))
  ELSE IF t.openPending \/ t.openSentAge < AckTimeout THEN Nothing(t)
  ELSE IF t.openSends > MaxRetry THEN Nothing(handshakeOver(t, "Failed"))
  ELSE [t |-> [t EXCEPT !.openPending = TRUE], send |-> <<openSend(t)>>,
        finished |-> {}]

tickReady(t) ==
  LET lost == Unrecoverable(t)
      due == {q \in HeldSeqs(t) : ackOverdue(t, q)}
      u == [t EXCEPT !.entries =
              [q \in Seqs |->
                 IF q \in due THEN [t.entries[q] EXCEPT !.pending = TRUE]
                 ELSE t.entries[q]]]
  IN IF lost # {}
       THEN {abort(t, CHOOSE q \in lost : \A p \in lost : q <= p, "timeout")}
       ELSE {[t |-> u, send |-> [i \in DOMAIN s |-> dataSend(u, s[i])],
              finished |-> {}] : s \in InOrder(due)}

tick(t) ==
  CASE t.state = "Opening" -> {tickOpening(t)}
    [] t.state = "Ready" -> tickReady(t)
    [] OTHER -> {Nothing(t)}

\* A tick of the gateway's clock.
Longest == IF Lifetime > ResultTimeout THEN Lifetime ELSE ResultTimeout

\* sent_at is read only of a command that waits for its RECEIVED.
OlderTrackerEntry(e, received) ==
  IF ~e.held THEN e
  ELSE [e EXCEPT !.age = Older(@, Longest),
                 !.sentAge = IF e.pending \/ received THEN @
                             ELSE Older(@, AckTimeout)]

elapse(t) ==
  CASE t.state = "Opening" ->
         [t EXCEPT !.openAge = Older(@, Lifetime),
                   !.openSentAge = IF t.openPending THEN @
                                   ELSE Older(@, AckTimeout)]
    [] t.state = "Ready" ->
         [t EXCEPT !.entries =
            [q \in Seqs |-> OlderTrackerEntry(t.entries[q], t.received[q])]]
    [] OTHER -> t
=============================================================================
