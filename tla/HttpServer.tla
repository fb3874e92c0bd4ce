----------------------------- MODULE HttpServer -----------------------------
(***************************************************************************)
(* HttpServer.cpp: the sessions of the HTTP server.  All handlers run on   *)
(* the thread of one io_context; the business thread only calls the reply  *)
(* function it was given, which posts to that context through ReplyBridge. *)
(*                                                                         *)
(* A session does one thing at a time: it reads a request, waits for the   *)
(* business reply or for its timer, or writes a response.  A handler that  *)
(* was queued before its operation was cancelled still runs, so a timer    *)
(* may fire for a request that was answered meanwhile, and a reply may     *)
(* come for one that was given up.                                         *)
(***************************************************************************)
EXTENDS Naturals, Sequences, FiniteSets

CONSTANTS
  Conn,             \* connections
  kConnectionLimit, \* 256
  MaxRequests       \* bound on the requests of one connection

ASSUME HttpConstants == kConnectionLimit \in Nat \ {0} /\ MaxRequests \in Nat

VARIABLES
  session,   \* the Session of each connection
  sessions,  \* Server::sessions_
  acceptor,  \* "armed", "retry" after an error, or "off"
  stopping,  \* Server::stopping_
  bridge,    \* ReplyBridge: whether io_ is set
  io,        \* whether io.run() is running
  asked,     \* requests the business has not replied to
  posted,    \* replies posted to the io_context and not yet handled
  sent       \* history: the responses begun on each connection

vars == <<session, sessions, acceptor, stopping, bridge, io, asked, posted, sent>>
serverVars == <<acceptor, stopping, bridge, io>>

(* closed is closed_, id is request_id_.  read, write: an operation is     *)
(* under way or its handler queued.  timer: the request for which the      *)
(* business timer runs, 0 for none; fired: those whose handler is queued.  *)
NewSession == [closed |-> FALSE, id |-> 0, keep |-> FALSE, waiting |-> FALSE,
               read |-> FALSE, write |-> FALSE, timer |-> 0, fired |-> {}]

NotMade == [NewSession EXCEPT !.closed = TRUE]

Init ==
  /\ session = [c \in Conn |-> NotMade]
  /\ sessions = {} /\ sent = [c \in Conn |-> <<>>]
  /\ acceptor = "armed" /\ stopping = FALSE /\ bridge = TRUE /\ io = TRUE
  /\ asked = {} /\ posted = {}

(* A connection that was dropped, or closed before its first request, may  *)
(* be made again.                                                          *)
Made(c) == session[c] # NotMade
-----------------------------------------------------------------------------
(* Operators of a Session *)

(* read(): does nothing on a closed session. *)
read(s) == IF s.closed THEN s ELSE [s EXCEPT !.read = TRUE]

(* close() cancels the timer; what is queued stays queued. *)
close(s) == [s EXCEPT !.closed = TRUE, !.waiting = FALSE, !.timer = 0]

(* Bug variant: a reply is accepted when none is awaited. *)
Awaits_Always(s, id) == ~s.closed /\ id = s.id

(* The test at the head of reply(). *)
Awaits(s, id) == ~s.closed /\ s.waiting /\ id = s.id

(* reply() begins to write the response, if it is still awaited. *)
reply(c, s, id) ==
  IF Awaits(s, id)
    THEN /\ session' = [session EXCEPT ![c] =
              [s EXCEPT !.waiting = FALSE, !.timer = 0, !.write = TRUE]]
         /\ sent' = [sent EXCEPT ![c] = Append(@, [to |-> s.id, of |-> id])]
    ELSE session' = [session EXCEPT ![c] = s] /\ UNCHANGED sent

(* A session that closes leaves sessions_. *)
closeSession(c, s) ==
  /\ session' = [session EXCEPT ![c] = close(s)]
  /\ sessions' = IF s.closed THEN sessions ELSE sessions \ {c}
-----------------------------------------------------------------------------
(* accept() *)

(* A connection above the limit is dropped. *)
Accept(c) ==
  /\ acceptor = "armed" /\ ~stopping
  /\ ~Made(c)
  /\ \/ /\ Cardinality(sessions) < kConnectionLimit
        /\ sessions' = sessions \union {c}
        /\ session' = [session EXCEPT ![c] = read(NewSession)]
     \/ /\ Cardinality(sessions) >= kConnectionLimit
        /\ UNCHANGED <<session, sessions>>
  /\ UNCHANGED <<serverVars, asked, posted, sent>>

AcceptFails ==
  /\ acceptor = "armed" /\ ~stopping
  /\ acceptor' = "retry"
  /\ UNCHANGED <<session, sessions, stopping, bridge, io, asked, posted, sent>>

AcceptRetry ==
  /\ acceptor = "retry" /\ ~stopping
  /\ acceptor' = "armed"
  /\ UNCHANGED <<session, sessions, stopping, bridge, io, asked, posted, sent>>
-----------------------------------------------------------------------------
(* onRead() *)

(* The handler of an operation that close() cancelled. *)
ReadAborted(c) ==
  /\ session[c].read /\ session[c].closed
  /\ session' = [session EXCEPT ![c].read = FALSE]
  /\ UNCHANGED <<sessions, serverVars, asked, posted, sent>>

(* End of the stream, a time-out, or the loss of the connection. *)
ReadEnds(c) ==
  /\ session[c].read /\ ~session[c].closed
  /\ closeSession(c, [session[c] EXCEPT !.read = FALSE])
  /\ UNCHANGED <<serverVars, asked, posted, sent>>

(* fail(): a request that is malformed or too long is answered and the     *)
(* connection then closed.                                                 *)
ReadFails(c) ==
  LET id == session[c].id + 1
  IN  /\ session[c].read /\ ~session[c].closed
      /\ session[c].id < MaxRequests
      /\ reply(c, [session[c] EXCEPT !.read = FALSE, !.keep = FALSE,
                                     !.waiting = TRUE, !.id = id], id)
      /\ UNCHANGED <<sessions, serverVars, asked, posted>>

(* Bug variant: no timer for the business reply. *)
Waiting_Untimed(s, keep) ==
  [s EXCEPT !.read = FALSE, !.keep = keep, !.waiting = TRUE, !.id = @ + 1]

(* A session that waits for the business, with its timer running. *)
Waiting(s, keep) ==
  [s EXCEPT !.read = FALSE, !.keep = keep, !.waiting = TRUE, !.id = @ + 1,
            !.timer = s.id + 1]

(* The request is handed over; one that is refused, or whose hand-over     *)
(* threw, is answered at once and the connection then closed.              *)
Request(c, keep) ==
  LET s == Waiting(session[c], keep)
  IN  /\ session[c].read /\ ~session[c].closed
      /\ session[c].id < MaxRequests
      /\ \/ /\ session' = [session EXCEPT ![c] = s]
            /\ asked' = asked \union {<<c, s.id>>}
            /\ UNCHANGED sent
         \/ reply(c, [s EXCEPT !.keep = FALSE], s.id) /\ UNCHANGED asked
      /\ UNCHANGED <<sessions, serverVars, posted>>
-----------------------------------------------------------------------------
(* The business reply, the business timer, and the end of a write *)

(* HttpReply, called on the business thread; dropped when the bridge was   *)
(* disabled.                                                               *)
BusinessReplies(c, id) ==
  /\ <<c, id>> \in asked
  /\ asked' = asked \ {<<c, id>>}
  /\ posted' = IF bridge THEN posted \union {<<c, id>>} ELSE posted
  /\ UNCHANGED <<session, sessions, serverVars, sent>>

ReplyArrives(c, id) ==
  /\ io
  /\ <<c, id>> \in posted
  /\ posted' = posted \ {<<c, id>>}
  /\ reply(c, session[c], id)
  /\ UNCHANGED <<sessions, serverVars, asked>>

TimerExpires(c) ==
  /\ session[c].timer # 0
  /\ session' = [session EXCEPT ![c].timer = 0,
                                ![c].fired = @ \union {session[c].timer}]
  /\ UNCHANGED <<sessions, serverVars, asked, posted, sent>>

(* Bug variant: the handler acts on the next request. *)
TimerHandler_Next(c, id) ==
  LET s == [session[c] EXCEPT !.fired = @ \ {id}]
  IN  /\ id \in session[c].fired
      /\ IF s.waiting /\ s.id = id + 1
           THEN reply(c, [s EXCEPT !.keep = FALSE], s.id)
           ELSE session' = [session EXCEPT ![c] = s] /\ UNCHANGED sent
      /\ UNCHANGED <<sessions, serverVars, asked, posted>>

(* 504, unless the request was answered meanwhile.  The connection is      *)
(* closed after it.                                                        *)
TimerHandler(c, id) ==
  LET s == [session[c] EXCEPT !.fired = @ \ {id}]
  IN  /\ id \in session[c].fired
      /\ IF s.waiting /\ s.id = id
           THEN reply(c, [s EXCEPT !.keep = FALSE], id)
           ELSE session' = [session EXCEPT ![c] = s] /\ UNCHANGED sent
      /\ UNCHANGED <<sessions, serverVars, asked, posted>>

(* The next request is read, unless the write failed, the connection is    *)
(* not kept, or it was closed.                                             *)
WriteDone(c, ok) ==
  LET s == [session[c] EXCEPT !.write = FALSE]
  IN  /\ session[c].write
      /\ \/ /\ ok /\ s.keep /\ ~s.closed
            /\ session' = [session EXCEPT ![c] = read(s)]
            /\ UNCHANGED sessions
         \/ /\ ~(ok /\ s.keep /\ ~s.closed)
            /\ closeSession(c, s)
      /\ UNCHANGED <<serverVars, asked, posted, sent>>
-----------------------------------------------------------------------------
(* Bug variant: the bridge stays usable. *)
Stop_Bridged ==
  /\ io /\ ~stopping
  /\ stopping' = TRUE /\ acceptor' = "off"
  /\ session' = [c \in Conn |-> IF c \in sessions THEN close(session[c])
                                ELSE session[c]]
  /\ sessions' = {}
  /\ UNCHANGED <<bridge, io, asked, posted, sent>>

(* stop(), when should_stop() is found to be true. *)
Stop ==
  /\ io /\ ~stopping
  /\ stopping' = TRUE /\ bridge' = FALSE /\ acceptor' = "off"
  /\ session' = [c \in Conn |-> IF c \in sessions THEN close(session[c])
                                ELSE session[c]]
  /\ sessions' = {}
  /\ UNCHANGED <<io, asked, posted, sent>>

(* io.run() returns when it has no more work, and the context is destroyed.*)
RunReturns ==
  /\ io /\ stopping
  /\ posted = {}
  /\ \A c \in Conn : ~session[c].read /\ ~session[c].write /\ session[c].fired = {}
  /\ io' = FALSE
  /\ UNCHANGED <<session, sessions, acceptor, stopping, bridge, asked, posted, sent>>

(* runHttpServer() has returned; the business may still reply.             *)
Terminated == ~io /\ asked = {} /\ UNCHANGED vars
-----------------------------------------------------------------------------
ReqId == 1..MaxRequests

Handler(c) ==
  \/ ReadAborted(c) \/ \E ok \in BOOLEAN : WriteDone(c, ok)
  \/ \E id \in ReqId : ReplyArrives(c, id) \/ TimerHandler(c, id)

Client(c) ==
  \/ Accept(c) \/ ReadEnds(c) \/ ReadFails(c)
  \/ \E keep \in BOOLEAN : Request(c, keep)

Next ==
  \/ \E c \in Conn : \/ Handler(c) \/ Client(c) \/ TimerExpires(c)
                     \/ \E id \in ReqId : BusinessReplies(c, id)
  \/ AcceptFails \/ AcceptRetry \/ Stop \/ RunReturns \/ Terminated

Spec == Init /\ [][Next]_vars

(* Queued handlers run, timers expire, and a write ends: it has a time-out *)
(* of its own.  Nothing is assumed of the clients or the business.         *)
FairSpec ==
  /\ Spec
  /\ \A c \in Conn : WF_vars(Handler(c)) /\ WF_vars(TimerExpires(c))
  /\ WF_vars(RunReturns)
-----------------------------------------------------------------------------
(* Properties *)

(* Type correctness; there are at most kConnectionLimit sessions, and they *)
(* are the ones that are not closed: no closed one keeps its place         *)
(* (HttpServer.cpp:125, :243).  No reply is posted to an io_context that   *)
(* was destroyed (HttpServer.cpp:29).                                      *)
HttpTypeOK ==
  /\ session \in [Conn -> [closed : BOOLEAN, id : 0..MaxRequests, keep : BOOLEAN,
                           waiting : BOOLEAN, read : BOOLEAN, write : BOOLEAN,
                           timer : 0..MaxRequests, fired : SUBSET ReqId]]
  /\ sessions = {c \in Conn : ~session[c].closed}
  /\ Cardinality(sessions) <= kConnectionLimit
  /\ acceptor \in {"armed", "retry", "off"} /\ (acceptor = "off" <=> stopping)
  /\ {asked, posted} \subseteq SUBSET (Conn \X ReqId)
  /\ ~io => posted = {}

(* Responses go out in the order of the requests, one for each, and each   *)
(* is that of its own request: neither a late reply nor a late timer       *)
(* answers another one (HttpServer.cpp:154, :192).                         *)
OneResponsePerRequest ==
  \A c \in Conn :
    /\ \A i \in DOMAIN sent[c] : sent[c][i].to = sent[c][i].of
    /\ \A i, j \in DOMAIN sent[c] : i < j => sent[c][i].to < sent[c][j].to

(* An open session has exactly one thing under way that will wake it: a    *)
(* read, a write, or the timer of the request it waits for.  It is never   *)
(* stuck, and never reads or writes twice at a time, which Beast forbids.  *)
OneThingAtATime ==
  \A c \in sessions :
    LET s == session[c]
        timed == s.waiting /\ (s.timer = s.id \/ s.id \in s.fired)
    IN  /\ s.read \/ s.write \/ timed
        /\ ~(s.read /\ s.write) /\ ~(s.waiting /\ (s.read \/ s.write))

(* A request is answered or its connection closed, though the business     *)
(* never replies, and a stop ends (onRead, business_timer_, stop).         *)
WaitsEnd ==
  /\ \A c \in Conn : session[c].waiting ~> ~session[c].waiting
  /\ stopping ~> ~io
=============================================================================
