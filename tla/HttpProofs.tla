----------------------------- MODULE HttpProofs -----------------------------
(***************************************************************************)
(* Proofs about HttpServer, for any set of connections, any limit and any  *)
(* number of requests.                                                     *)
(*                                                                         *)
(* The invariant is about each connection by itself, but for the number of *)
(* sessions: SessionStep shows that a step which gives one connection a    *)
(* sound session keeps it, and every handler is such a step.               *)
(***************************************************************************)
EXTENDS HttpServer, FiniteSetTheorems, TLAPS

Session == [closed : BOOLEAN, id : 0..MaxRequests, keep : BOOLEAN,
            waiting : BOOLEAN, read : BOOLEAN, write : BOOLEAN,
            timer : 0..MaxRequests, fired : SUBSET ReqId]

Response == [to : Nat, of : Nat]

(* An open session has one thing under way. *)
Busy(s) ==
  /\ s.read \/ s.write \/ (s.waiting /\ (s.timer = s.id \/ s.id \in s.fired))
  /\ ~(s.read /\ s.write) /\ ~(s.waiting /\ (s.read \/ s.write))

(* The responses sent so far answer requests up to the current one, which  *)
(* itself is not answered while it is awaited.                             *)
Answered(s, log) ==
  /\ log \in Seq(Response)
  /\ \A i \in DOMAIN log : log[i].to = log[i].of
  /\ \A i, j \in DOMAIN log : i < j => log[i].to < log[j].to
  /\ \A i \in DOMAIN log : log[i].to <= s.id /\ (s.waiting => log[i].to < s.id)

(* A session, with what was sent on it. *)
Sound(s, log) == s \in Session /\ (~s.closed => Busy(s)) /\ Answered(s, log)

SessionsInv ==
  /\ session \in [Conn -> Session] /\ sent \in [Conn -> Seq(Response)]
  /\ \A c \in Conn : Sound(session[c], sent[c])
  /\ sessions = {c \in Conn : ~session[c].closed}

LimitInv == IsFiniteSet(sessions) /\ Cardinality(sessions) <= kConnectionLimit

(* The life of the server: accepting, stopping with the bridge disabled,   *)
(* destroyed with nothing posted.                                          *)
ServerInv ==
  /\ stopping \in BOOLEAN /\ bridge \in BOOLEAN /\ io \in BOOLEAN
  /\ acceptor \in {"armed", "retry", "off"} /\ (acceptor = "off" <=> stopping)
  /\ asked \subseteq Conn \X ReqId /\ posted \subseteq Conn \X ReqId
  /\ stopping => ~bridge
  /\ ~io => stopping /\ posted = {}

HttpIInv == SessionsInv /\ LimitInv /\ ServerInv
-----------------------------------------------------------------------------
LEMMA InvImplies == HttpIInv => HttpTypeOK /\ OneResponsePerRequest /\ OneThingAtATime
<1> SUFFICES ASSUME HttpIInv PROVE HttpTypeOK /\ OneResponsePerRequest /\ OneThingAtATime
  OBVIOUS
<1>1. HttpTypeOK
  BY DEF HttpIInv, SessionsInv, LimitInv, ServerInv, HttpTypeOK, Session
<1>2. OneResponsePerRequest
  BY DEF HttpIInv, SessionsInv, Sound, Answered, OneResponsePerRequest
<1>3. OneThingAtATime
  BY DEF HttpIInv, SessionsInv, Sound, Busy, OneThingAtATime
<1>4. QED
  BY <1>1, <1>2, <1>3

\* A connection that was just accepted, and one that is not there.
LEMMA NewSessionType ==
  /\ NewSession \in Session /\ NewSession.id = 0 /\ ~NewSession.closed
  /\ read(NewSession) \in Session /\ Busy(read(NewSession))
  /\ read(NewSession).id = 0 /\ ~read(NewSession).waiting /\ ~read(NewSession).closed
  /\ NotMade \in Session /\ NotMade.closed /\ NotMade.id = 0 /\ ~NotMade.waiting
<1> USE HttpConstants
<1>1. /\ NewSession \in Session /\ NewSession.id = 0
      /\ NewSession.closed = FALSE /\ NewSession.waiting = FALSE
      /\ NewSession.read = FALSE /\ NewSession.write = FALSE
  BY DEF NewSession, Session
<1>2. read(NewSession) = [NewSession EXCEPT !.read = TRUE]
  BY <1>1 DEF read
<1>3. /\ NotMade \in Session /\ NotMade.closed /\ NotMade.id = 0 /\ ~NotMade.waiting
  BY <1>1 DEF NotMade, Session
<1>4. QED
  BY <1>1, <1>2, <1>3 DEF Session, Busy

LEMMA InitInv == Init => HttpIInv
<1> SUFFICES ASSUME Init PROVE HttpIInv
  OBVIOUS
<1> USE HttpConstants
<1>1. NotMade \in Session /\ NotMade.closed
  BY NewSessionType
<1>2. Sound(NotMade, <<>>)
  BY <1>1 DEF Sound, Answered, Response
<1>3. SessionsInv
  BY <1>1, <1>2 DEF Init, SessionsInv
<1>4. LimitInv
  BY FS_EmptySet DEF Init, LimitInv
<1>5. ServerInv
  BY DEF Init, ServerInv
<1>6. QED
  BY <1>3, <1>4, <1>5 DEF HttpIInv

(***************************************************************************)
(* A connection gets a sound session; the others stay as they are.         *)
(***************************************************************************)
LEMMA SessionStep ==
  ASSUME HttpIInv, NEW c \in Conn, NEW s, NEW log, Sound(s, log),
         session' = [session EXCEPT ![c] = s],
         sent' = [sent EXCEPT ![c] = log],
         sessions' = IF s.closed THEN sessions \ {c} ELSE sessions \union {c}
  PROVE  SessionsInv'
<1>1. /\ session' \in [Conn -> Session] /\ sent' \in [Conn -> Seq(Response)]
      /\ session'[c] = s /\ sent'[c] = log
      /\ \A d \in Conn : d # c => session'[d] = session[d] /\ sent'[d] = sent[d]
  BY DEF HttpIInv, SessionsInv, Sound, Answered
<1>2. \A d \in Conn : Sound(session'[d], sent'[d])
  BY <1>1 DEF HttpIInv, SessionsInv
<1>3. sessions' = {d \in Conn : ~session'[d].closed}
  BY <1>1 DEF HttpIInv, SessionsInv
<1>4. QED
  BY <1>1, <1>2, <1>3 DEF SessionsInv

\* What the responses sent so far are measured by.
LEMMA AnsweredSame ==
  ASSUME NEW s, NEW t, NEW log, Answered(s, log),
         t.id = s.id, t.waiting => s.waiting
  PROVE  Answered(t, log)
BY DEF Answered

\* reply() begins the response of the request that is awaited.
LEMMA AnsweredReply ==
  ASSUME NEW s \in Session, NEW log, Answered(s, log), s.waiting,
         NEW t, t.id = s.id, ~t.waiting
  PROVE  Answered(t, Append(log, [to |-> s.id, of |-> s.id]))
<1> DEFINE r == [to |-> s.id, of |-> s.id]
           new == Append(log, r)
<1>1. /\ s.id \in Nat /\ r \in Response /\ r.to = s.id /\ r.of = s.id
  BY HttpConstants DEF Session, Response
<1>2. /\ log \in Seq(Response) /\ new \in Seq(Response)
      /\ Len(new) = Len(log) + 1 /\ new[Len(new)] = r
      /\ \A i \in 1..Len(log) : new[i] = log[i]
      /\ DOMAIN log = 1..Len(log) /\ DOMAIN new = 1..Len(log) + 1
  BY <1>1 DEF Answered
<1> HIDE DEF r, new
<1>3. \A i \in DOMAIN log : log[i].to \in Nat /\ log[i].to < s.id
  <2>1. \A i \in DOMAIN log : log[i] \in Response
    BY <1>2
  <2>2. \A i \in DOMAIN log : log[i].to < s.id
    BY DEF Answered
  <2>3. QED
    BY <2>1, <2>2 DEF Response
<1>4. \A i \in DOMAIN new : new[i].to = new[i].of /\ new[i].to <= s.id
  BY <1>1, <1>2, <1>3 DEF Answered
<1>5. \A i, j \in DOMAIN new : i < j => new[i].to < new[j].to
  <2> SUFFICES ASSUME NEW i \in DOMAIN new, NEW j \in DOMAIN new, i < j
               PROVE  new[i].to < new[j].to
    OBVIOUS
  <2>1. i \in DOMAIN log /\ new[i] = log[i] /\ Len(log) \in Nat
    BY <1>2
  <2>2. CASE j = Len(log) + 1
    BY <1>1, <1>2, <1>3, <2>1, <2>2
  <2>3. CASE j # Len(log) + 1
    BY <1>2, <2>1, <2>3 DEF Answered
  <2>4. QED
    BY <2>2, <2>3
<1>6. QED
  BY <1>2, <1>4, <1>5 DEF Answered, new, r

(***************************************************************************)
(* The handlers of one connection, each as the session it leaves.          *)
(***************************************************************************)
LEMMA ConnectionTyped ==
  ASSUME HttpIInv, NEW c \in Conn
  PROVE  /\ session[c] \in Session /\ Answered(session[c], sent[c])
         /\ ~session[c].closed => Busy(session[c])
         /\ (c \in sessions) <=> ~session[c].closed
         /\ sent = [sent EXCEPT ![c] = sent[c]]
BY DEF HttpIInv, SessionsInv, Sound

\* A step of session c that sends nothing and neither opens nor closes it.
LEMMA QuietStep ==
  ASSUME HttpIInv, NEW c \in Conn, NEW s \in Session,
         s.closed = session[c].closed, s.id = session[c].id,
         s.waiting => session[c].waiting, ~s.closed => Busy(s),
         session' = [session EXCEPT ![c] = s], sent' = sent, sessions' = sessions
  PROVE  SessionsInv' /\ LimitInv'
<1>1. Sound(s, sent[c])
  BY ConnectionTyped, AnsweredSame DEF Sound
<1>2. sessions' = IF s.closed THEN sessions \ {c} ELSE sessions \union {c}
  BY ConnectionTyped
<1>3. SessionsInv'
  BY <1>1, <1>2, ConnectionTyped, SessionStep
<1>4. QED
  BY <1>3 DEF HttpIInv, LimitInv

\* close() of session c, which may be closed already.
LEMMA CloseStep ==
  ASSUME HttpIInv, NEW c \in Conn, NEW s \in Session,
         s.closed = session[c].closed, s.id = session[c].id,
         closeSession(c, s), sent' = sent
  PROVE  SessionsInv' /\ LimitInv'
<1>0. 0 \in 0..MaxRequests
  BY HttpConstants
<1>1. /\ close(s) \in Session /\ close(s).closed
      /\ close(s).id = session[c].id /\ ~close(s).waiting
  <2>1. close(s) \in Session
    BY <1>0 DEF close, Session
  <2>2. close(s).closed /\ close(s).id = s.id /\ ~close(s).waiting
    BY DEF close, Session
  <2>3. QED
    BY <2>1, <2>2
<1>2. Sound(close(s), sent[c])
  BY <1>1, ConnectionTyped, AnsweredSame DEF Sound
<1>3. sessions' = sessions \ {c}
  BY ConnectionTyped DEF closeSession
<1>4. SessionsInv'
  BY <1>1, <1>2, <1>3, ConnectionTyped, SessionStep DEF closeSession
<1>5. LimitInv'
  <2>1. IsFiniteSet(sessions') /\ Cardinality(sessions') <= Cardinality(sessions)
    BY <1>3, FS_Subset DEF HttpIInv, LimitInv
  <2>2. Cardinality(sessions) \in Nat /\ Cardinality(sessions') \in Nat
    BY <2>1, FS_CardinalityType DEF HttpIInv, LimitInv
  <2>3. QED
    BY <2>1, <2>2, HttpConstants DEF HttpIInv, LimitInv
<1>6. QED
  BY <1>4, <1>5

\* reply() on session s of connection c, which awaits the reply, if it does
\* so, to its last request.
LEMMA ReplyStep ==
  ASSUME HttpIInv, NEW c \in Conn, NEW s \in Session, NEW id,
         s.closed = session[c].closed, Answered(s, sent[c]),
         ~s.closed => IF Awaits(s, id) THEN ~s.read ELSE Busy(s),
         reply(c, s, id), sessions' = sessions
  PROVE  SessionsInv' /\ LimitInv'
<1>1. CASE Awaits(s, id)
  <2> DEFINE t == [s EXCEPT !.waiting = FALSE, !.timer = 0, !.write = TRUE]
             log == Append(sent[c], [to |-> s.id, of |-> s.id])
  <2>0. 0 \in 0..MaxRequests
    BY HttpConstants
  <2>1. /\ t \in Session /\ t.id = s.id /\ ~t.waiting /\ ~t.closed
        /\ t.write /\ t.read = s.read
    <3>1. t \in Session
      BY <2>0 DEF Session
    <3>2. t.id = s.id /\ ~t.waiting /\ t.write /\ t.read = s.read /\ t.closed = s.closed
      BY DEF Session
    <3>3. QED
      BY <1>1, <3>1, <3>2 DEF Awaits
  <2>2. Answered(t, log)
    BY <1>1, <2>1, AnsweredReply DEF Awaits
  <2>3. Sound(t, log)
    BY <1>1, <2>1, <2>2 DEF Sound, Busy, Awaits
  <2>4. session' = [session EXCEPT ![c] = t] /\ sent' = [sent EXCEPT ![c] = log]
    BY <1>1 DEF reply, Awaits
  <2>5. sessions' = IF t.closed THEN sessions \ {c} ELSE sessions \union {c}
    BY <1>1, <2>1, ConnectionTyped DEF Awaits
  <2> HIDE DEF t, log
  <2>6. SessionsInv'
    BY <2>3, <2>4, <2>5, SessionStep
  <2>7. QED
    BY <2>6 DEF HttpIInv, LimitInv
<1>2. CASE ~Awaits(s, id)
  <2>1. session' = [session EXCEPT ![c] = s] /\ sent' = sent
    BY <1>2 DEF reply
  <2>2. Sound(s, sent[c])
    BY <1>2 DEF Sound
  <2>3. sessions' = IF s.closed THEN sessions \ {c} ELSE sessions \union {c}
    BY ConnectionTyped
  <2>4. SessionsInv'
    BY <2>1, <2>2, <2>3, ConnectionTyped, SessionStep
  <2>5. QED
    BY <2>4 DEF HttpIInv, LimitInv
<1>3. QED
  BY <1>1, <1>2

\* The responses sent so far answer requests before the next one.
LEMMA AnsweredNext ==
  ASSUME NEW s \in Session, NEW log, Answered(s, log), NEW t, t.id = s.id + 1
  PROVE  Answered(t, log)
<1>1. s.id \in Nat
  BY HttpConstants DEF Session
<1>2. \A i \in DOMAIN log : log[i] \in Response /\ log[i].to <= s.id
  BY DEF Answered
<1>3. \A i \in DOMAIN log : log[i].to <= t.id /\ log[i].to < t.id
  BY <1>1, <1>2 DEF Response
<1>4. QED
  BY <1>3 DEF Answered
-----------------------------------------------------------------------------
(* One lemma for each handler *)

LEMMA AcceptStep ==
  ASSUME HttpIInv, NEW c \in Conn, Accept(c)
  PROVE  SessionsInv' /\ LimitInv'
<1>1. CASE UNCHANGED <<session, sessions>>
  BY <1>1 DEF Accept, HttpIInv, SessionsInv, LimitInv
<1>2. CASE /\ Cardinality(sessions) < kConnectionLimit
           /\ sessions' = sessions \union {c}
           /\ session' = [session EXCEPT ![c] = read(NewSession)]
  <2>1. session[c] = NotMade
    BY DEF Accept, Made
  <2>2. Answered(read(NewSession), sent[c])
    BY <2>1, NewSessionType, ConnectionTyped, AnsweredSame
  <2>3. Sound(read(NewSession), sent[c])
    BY <2>2, NewSessionType DEF Sound
  <2>4. sent' = [sent EXCEPT ![c] = sent[c]]
    BY ConnectionTyped DEF Accept
  <2>5. SessionsInv'
    BY <1>2, <2>3, <2>4, NewSessionType, SessionStep
  <2>6. c \notin sessions
    BY <2>1, NewSessionType, ConnectionTyped
  <2>7. /\ IsFiniteSet(sessions') /\ Cardinality(sessions') = Cardinality(sessions) + 1
    BY <1>2, <2>6, FS_AddElement DEF HttpIInv, LimitInv
  <2>8. Cardinality(sessions) \in Nat
    BY FS_CardinalityType DEF HttpIInv, LimitInv
  <2>9. LimitInv'
    BY <1>2, <2>7, <2>8, HttpConstants DEF LimitInv
  <2>10. QED
    BY <2>5, <2>9
<1>3. QED
  BY <1>1, <1>2 DEF Accept

LEMMA ReadAbortedStep ==
  ASSUME HttpIInv, NEW c \in Conn, ReadAborted(c)
  PROVE  SessionsInv' /\ LimitInv'
<1> DEFINE s == [session[c] EXCEPT !.read = FALSE]
<1>1. s \in Session /\ s.closed = session[c].closed /\ s.id = session[c].id
      /\ s.waiting = session[c].waiting /\ s.closed
  BY ConnectionTyped DEF Session, ReadAborted
<1>2. session' = [session EXCEPT ![c] = s] /\ sent' = sent /\ sessions' = sessions
  BY DEF ReadAborted
<1> HIDE DEF s
<1>3. QED
  BY <1>1, <1>2, QuietStep

LEMMA ReadEndsStep ==
  ASSUME HttpIInv, NEW c \in Conn, ReadEnds(c)
  PROVE  SessionsInv' /\ LimitInv'
<1> DEFINE s == [session[c] EXCEPT !.read = FALSE]
<1>1. s \in Session /\ s.closed = session[c].closed /\ s.id = session[c].id
  BY ConnectionTyped DEF Session
<1>2. closeSession(c, s) /\ sent' = sent
  BY DEF ReadEnds
<1> HIDE DEF s
<1>3. QED
  BY <1>1, <1>2, CloseStep

LEMMA ReadFailsStep ==
  ASSUME HttpIInv, NEW c \in Conn, ReadFails(c)
  PROVE  SessionsInv' /\ LimitInv'
<1> DEFINE id == session[c].id + 1
           s == [session[c] EXCEPT !.read = FALSE, !.keep = FALSE,
                                   !.waiting = TRUE, !.id = id]
<1>1. session[c] \in Session /\ id \in 0..MaxRequests
  BY ConnectionTyped, HttpConstants DEF Session, ReadFails
<1>2. reply(c, s, id) /\ sessions' = sessions
  BY DEF ReadFails
<1> HIDE DEF id
<1>3. s \in Session
  BY <1>1 DEF Session
<1>4. s.closed = session[c].closed /\ s.id = id /\ s.waiting /\ ~s.read
  BY <1>1 DEF Session
<1> HIDE DEF s
<1>5. Answered(s, sent[c])
  BY <1>1, <1>4, ConnectionTyped, AnsweredNext DEF id
<1>6. ~s.closed => Awaits(s, id)
  BY <1>4 DEF Awaits
<1>7. QED
  BY <1>2, <1>3, <1>4, <1>5, <1>6, ReplyStep

\* A session that waits for the business has its timer running.
LEMMA WaitingType ==
  ASSUME NEW s \in Session, NEW keep \in BOOLEAN, s.id < MaxRequests, ~s.write
  PROVE  LET t == Waiting(s, keep) IN
         /\ t \in Session /\ t.closed = s.closed /\ t.id = s.id + 1
         /\ t.waiting /\ ~t.read /\ Busy(t)
<1> DEFINE id == s.id + 1
           t == [s EXCEPT !.read = FALSE, !.keep = keep, !.waiting = TRUE,
                          !.id = id, !.timer = id]
<1>1. id \in 0..MaxRequests
  BY HttpConstants DEF Session
<1>2. Waiting(s, keep) = t
  BY DEF Waiting
<1> HIDE DEF id
<1>3. t \in Session
  BY <1>1 DEF Session
<1>4. t.closed = s.closed /\ t.id = id /\ t.waiting /\ ~t.read /\ t.write = s.write
  BY DEF Session
<1>5. t.timer = id
  BY DEF Session
<1> HIDE DEF t
<1>6. Busy(t)
  BY <1>4, <1>5 DEF Busy
<1>7. QED
  BY <1>2, <1>3, <1>4, <1>6 DEF id

LEMMA RequestStep ==
  ASSUME HttpIInv, NEW c \in Conn, NEW keep \in BOOLEAN, Request(c, keep)
  PROVE  SessionsInv' /\ LimitInv'
<1> DEFINE s == Waiting(session[c], keep)
           t == [s EXCEPT !.keep = FALSE]
<1>1. /\ session[c] \in Session /\ session[c].id < MaxRequests
      /\ ~session[c].closed /\ ~session[c].write
  BY ConnectionTyped DEF Request, Busy
<1>2. /\ s \in Session /\ ~s.closed /\ s.id = session[c].id + 1
      /\ s.waiting /\ ~s.read /\ Busy(s)
  BY <1>1, WaitingType
<1>3. /\ sessions' = sessions
      /\ \/ session' = [session EXCEPT ![c] = s] /\ sent' = sent
         \/ reply(c, t, s.id)
  BY DEF Request
<1> HIDE DEF s
<1>4. CASE session' = [session EXCEPT ![c] = s] /\ sent' = sent
  <2>1. Sound(s, sent[c])
    BY <1>1, <1>2, ConnectionTyped, AnsweredNext DEF Sound
  <2>2. sessions' = IF s.closed THEN sessions \ {c} ELSE sessions \union {c}
    BY <1>1, <1>2, <1>3, ConnectionTyped
  <2>3. SessionsInv'
    BY <1>4, <2>1, <2>2, ConnectionTyped, SessionStep
  <2>4. QED
    BY <1>3, <2>3 DEF HttpIInv, LimitInv
<1>5. CASE reply(c, t, s.id)
  <2>1. t \in Session
    BY <1>2 DEF Session
  <2>2. t.closed = s.closed /\ t.id = s.id /\ t.waiting = s.waiting /\ t.read = s.read
    BY <1>2 DEF Session
  <2> HIDE DEF t
  <2>3. Answered(t, sent[c])
    BY <1>1, <1>2, <2>2, ConnectionTyped, AnsweredNext
  <2>4. Awaits(t, s.id)
    BY <1>2, <2>2 DEF Awaits
  <2>5. t.closed = session[c].closed
    BY <1>1, <1>2, <2>2, <2>1 DEF Session
  <2>6. QED
    BY <1>2, <1>3, <1>5, <2>1, <2>2, <2>3, <2>4, <2>5, ReplyStep
<1>6. QED
  BY <1>3, <1>4, <1>5

LEMMA ReplyArrivesStep ==
  ASSUME HttpIInv, NEW c \in Conn, NEW id \in ReqId, ReplyArrives(c, id)
  PROVE  SessionsInv' /\ LimitInv'
<1>1. reply(c, session[c], id) /\ sessions' = sessions
  BY DEF ReplyArrives
<1>2. ~session[c].closed => IF Awaits(session[c], id) THEN ~session[c].read
                                                     ELSE Busy(session[c])
  BY ConnectionTyped DEF Awaits, Busy
<1>3. QED
  BY <1>1, <1>2, ConnectionTyped, ReplyStep

LEMMA TimerExpiresStep ==
  ASSUME HttpIInv, NEW c \in Conn, TimerExpires(c)
  PROVE  SessionsInv' /\ LimitInv'
<1> DEFINE old == session[c]
           fired == old.fired \union {old.timer}
           s == [old EXCEPT !.timer = 0, !.fired = fired]
<1>1. old \in Session /\ 0 \in 0..MaxRequests /\ fired \in SUBSET ReqId
  BY ConnectionTyped, HttpConstants DEF Session, TimerExpires, ReqId
<1>2. session' = [session EXCEPT ![c] = s] /\ sent' = sent /\ sessions' = sessions
  BY DEF TimerExpires
<1>3. old.timer = old.id => old.id \in fired
  OBVIOUS
<1>4. old.id \in old.fired => old.id \in fired
  OBVIOUS
<1>5. ~old.closed => Busy(old)
  BY ConnectionTyped
<1> HIDE DEF old, fired
<1>6. s \in Session
  BY <1>1 DEF Session
<1>7. /\ s.closed = old.closed /\ s.id = old.id /\ s.waiting = old.waiting
      /\ s.read = old.read /\ s.write = old.write /\ s.fired = fired
  BY <1>1 DEF Session
<1> HIDE DEF s
<1>8. ~s.closed => Busy(s)
  BY <1>3, <1>4, <1>5, <1>7 DEF Busy
<1>9. QED
  BY <1>2, <1>6, <1>7, <1>8, QuietStep DEF old

LEMMA TimerHandlerStep ==
  ASSUME HttpIInv, NEW c \in Conn, NEW id \in ReqId, TimerHandler(c, id)
  PROVE  SessionsInv' /\ LimitInv'
<1> DEFINE old == session[c]
           fired == old.fired \ {id}
           s == [old EXCEPT !.fired = fired]
           t == [s EXCEPT !.keep = FALSE]
<1>1. old \in Session /\ fired \in SUBSET ReqId
  BY ConnectionTyped DEF Session
<1>2. /\ sessions' = sessions
      /\ IF s.waiting /\ s.id = id THEN reply(c, t, id)
         ELSE session' = [session EXCEPT ![c] = s] /\ sent' = sent
  BY DEF TimerHandler
<1>3. old.id # id /\ old.id \in old.fired => old.id \in fired
  OBVIOUS
<1>4. (~old.closed => Busy(old)) /\ Answered(old, sent[c])
  BY ConnectionTyped
<1> HIDE DEF old, fired
<1>5. s \in Session
  BY <1>1 DEF Session
<1>6. /\ s.closed = old.closed /\ s.id = old.id /\ s.waiting = old.waiting
      /\ s.read = old.read /\ s.write = old.write /\ s.fired = fired
      /\ s.timer = old.timer
  BY <1>1 DEF Session
<1>7. t \in Session
  BY <1>5 DEF Session
<1>8. t.closed = s.closed /\ t.id = s.id /\ t.waiting = s.waiting /\ t.read = s.read
  BY <1>5 DEF Session
<1> HIDE DEF s, t
<1>9. CASE s.waiting /\ s.id = id
  <2>1. Answered(t, sent[c])
    BY <1>4, <1>6, <1>8, AnsweredSame
  <2>2. ~t.closed => Awaits(t, id) /\ ~t.read
    BY <1>4, <1>6, <1>8, <1>9 DEF Awaits, Busy
  <2>3. QED
    BY <1>2, <1>6, <1>7, <1>8, <1>9, <2>1, <2>2, ReplyStep DEF old
<1>10. CASE ~(s.waiting /\ s.id = id)
  <2>1. ~s.closed => Busy(s)
    BY <1>3, <1>4, <1>6, <1>10 DEF Busy
  <2>2. QED
    BY <1>2, <1>5, <1>6, <1>10, <2>1, QuietStep DEF old
<1>11. QED
  BY <1>9, <1>10

LEMMA WriteDoneStep ==
  ASSUME HttpIInv, NEW c \in Conn, NEW ok \in BOOLEAN, WriteDone(c, ok)
  PROVE  SessionsInv' /\ LimitInv'
<1> DEFINE old == session[c]
           s == [old EXCEPT !.write = FALSE]
           t == [s EXCEPT !.read = TRUE]
<1>1. old \in Session /\ (~old.closed => Busy(old)) /\ old.write
  BY ConnectionTyped DEF WriteDone
<1>2. /\ sent' = sent
      /\ \/ ~s.closed /\ session' = [session EXCEPT ![c] = read(s)] /\ sessions' = sessions
         \/ closeSession(c, s)
  BY DEF WriteDone
<1> HIDE DEF old
<1>3. s \in Session
  BY <1>1 DEF Session
<1>4. /\ s.closed = old.closed /\ s.id = old.id /\ s.waiting = old.waiting /\ ~s.write
  BY <1>1 DEF Session
<1> HIDE DEF s
<1>5. t \in Session
  BY <1>3 DEF Session
<1>6. /\ t.closed = s.closed /\ t.id = s.id /\ t.waiting = s.waiting /\ t.read
      /\ t.write = s.write
  BY <1>3 DEF Session
<1>7. ~s.closed => read(s) = t
  BY DEF read
<1> HIDE DEF t
<1>8. ~t.closed => Busy(t)
  BY <1>1, <1>4, <1>6 DEF Busy
<1>9. CASE ~s.closed /\ session' = [session EXCEPT ![c] = read(s)] /\ sessions' = sessions
  BY <1>2, <1>4, <1>5, <1>6, <1>7, <1>8, <1>9, QuietStep DEF old
<1>10. CASE closeSession(c, s)
  BY <1>2, <1>3, <1>4, <1>10, CloseStep DEF old
<1>11. QED
  BY <1>2, <1>9, <1>10

LEMMA StopStep ==
  ASSUME HttpIInv, Stop
  PROVE  SessionsInv' /\ LimitInv'
<1>0. 0 \in 0..MaxRequests
  BY HttpConstants
<1>1. \A c \in Conn : session'[c] = IF c \in sessions THEN close(session[c])
                                    ELSE session[c]
  BY DEF Stop
<1>2. \A c \in Conn : session'[c].closed /\ Sound(session'[c], sent[c])
  <2> SUFFICES ASSUME NEW c \in Conn
               PROVE  session'[c].closed /\ Sound(session'[c], sent[c])
    OBVIOUS
  <2> DEFINE s == session[c]
  <2>1. s \in Session /\ Answered(s, sent[c]) /\ (c \in sessions <=> ~s.closed)
    BY ConnectionTyped
  <2>2. session'[c] = IF c \in sessions THEN close(s) ELSE s
    BY <1>1
  <2> HIDE DEF s
  <2>3. close(s) \in Session
    BY <1>0, <2>1 DEF close, Session
  <2>4. close(s).closed /\ close(s).id = s.id /\ ~close(s).waiting
    BY <2>1 DEF close, Session
  <2>5. Answered(close(s), sent[c])
    BY <2>1, <2>4, AnsweredSame
  <2>6. QED
    BY <2>1, <2>2, <2>3, <2>4, <2>5 DEF Sound
<1>3. session' \in [Conn -> Session]
  <2>1. session' = [c \in Conn |-> session'[c]]
    BY DEF Stop
  <2>2. QED
    BY <1>2, <2>1 DEF Sound
<1>4. sent' = sent /\ sessions' = {}
  BY DEF Stop
<1>5. SessionsInv'
  BY <1>2, <1>3, <1>4 DEF SessionsInv, HttpIInv
<1>6. LimitInv'
  BY <1>4, FS_EmptySet, HttpConstants DEF LimitInv
<1>7. QED
  BY <1>5, <1>6
-----------------------------------------------------------------------------
\* The handlers of a connection leave the server as it is, but for the
\* replies that are asked for and posted.
LEMMA ServerStep == HttpIInv /\ [Next]_vars => ServerInv'
<1> SUFFICES ASSUME HttpIInv, [Next]_vars PROVE ServerInv'
  OBVIOUS
<1> USE DEF serverVars
<1>0. ServerInv
  BY DEF HttpIInv
<1>1. ASSUME NEW c \in Conn, Handler(c) PROVE ServerInv'
  <2>1. UNCHANGED <<acceptor, stopping, bridge, io, asked>> /\ posted' \subseteq posted
    BY <1>1 DEF Handler, ReadAborted, WriteDone, ReplyArrives, TimerHandler
  <2>2. QED
    BY <1>0, <2>1 DEF ServerInv
<1>2. ASSUME NEW c \in Conn, NEW keep \in BOOLEAN, Request(c, keep) PROVE ServerInv'
  <2> DEFINE n == Waiting(session[c], keep).id
  <2>1. n \in ReqId
    <3>1. session[c] \in Session /\ session[c].id < MaxRequests /\ ~session[c].write
      BY <1>2, ConnectionTyped DEF Request, Busy
    <3>2. n = session[c].id + 1
      BY <3>1, WaitingType
    <3>3. QED
      BY <3>1, <3>2, HttpConstants DEF Session, ReqId
  <2>2. /\ asked' \in {asked, asked \union {<<c, n>>}}
        /\ UNCHANGED <<acceptor, stopping, bridge, io, posted>>
    BY <1>2 DEF Request
  <2> HIDE DEF n
  <2>3. QED
    BY <1>0, <2>1, <2>2 DEF ServerInv
<1>3. ASSUME NEW c \in Conn, Client(c) PROVE ServerInv'
  <2>1. CASE Accept(c) \/ ReadEnds(c) \/ ReadFails(c)
    <3>1. UNCHANGED <<acceptor, stopping, bridge, io, asked, posted>>
      BY <2>1 DEF Accept, ReadEnds, ReadFails
    <3>2. QED
      BY <1>0, <3>1 DEF ServerInv
  <2>2. QED
    BY <1>2, <1>3, <2>1 DEF Client
<1>4. ASSUME NEW c \in Conn, TimerExpires(c) PROVE ServerInv'
  BY <1>0, <1>4 DEF TimerExpires, ServerInv
<1>5. ASSUME NEW c \in Conn, NEW id \in ReqId, BusinessReplies(c, id) PROVE ServerInv'
  <2>1. /\ UNCHANGED <<acceptor, stopping, bridge, io>> /\ asked' \subseteq asked
        /\ posted' = IF bridge THEN posted \union {<<c, id>>} ELSE posted
    BY <1>5 DEF BusinessReplies
  <2>2. posted' \subseteq Conn \X ReqId
    BY <1>0, <2>1 DEF ServerInv
  <2>3. ~io' => posted' = {}
    BY <1>0, <2>1 DEF ServerInv
  <2>4. QED
    BY <1>0, <2>1, <2>2, <2>3 DEF ServerInv
<1>6. CASE AcceptFails \/ AcceptRetry
  BY <1>0, <1>6 DEF AcceptFails, AcceptRetry, ServerInv
<1>7. CASE Stop
  BY <1>0, <1>7 DEF Stop, ServerInv
<1>8. CASE RunReturns
  BY <1>0, <1>8 DEF RunReturns, ServerInv
<1>9. CASE Terminated \/ UNCHANGED vars
  BY <1>0, <1>9 DEF Terminated, vars, ServerInv
<1>10. QED
  BY <1>1, <1>3, <1>4, <1>5, <1>6, <1>7, <1>8, <1>9 DEF Next

LEMMA StepInv == HttpIInv /\ [Next]_vars => HttpIInv'
<1> SUFFICES ASSUME HttpIInv, [Next]_vars PROVE SessionsInv' /\ LimitInv'
  BY ServerStep DEF HttpIInv
<1>1. ASSUME NEW c \in Conn, Handler(c) PROVE SessionsInv' /\ LimitInv'
  BY <1>1, ReadAbortedStep, WriteDoneStep, ReplyArrivesStep, TimerHandlerStep DEF Handler
<1>2. ASSUME NEW c \in Conn, Client(c) PROVE SessionsInv' /\ LimitInv'
  BY <1>2, AcceptStep, ReadEndsStep, ReadFailsStep, RequestStep DEF Client
<1>3. ASSUME NEW c \in Conn, TimerExpires(c) PROVE SessionsInv' /\ LimitInv'
  BY <1>3, TimerExpiresStep
<1>4. CASE UNCHANGED <<session, sessions, sent>>
  BY <1>4 DEF HttpIInv, SessionsInv, LimitInv
<1>5. CASE Stop
  BY <1>5, StopStep
<1>6. QED
  BY <1>1, <1>2, <1>3, <1>4, <1>5 DEF Next, BusinessReplies, AcceptFails, AcceptRetry,
     RunReturns, Terminated, vars

(* The inductive invariant: each connection has a sound session, sessions_ *)
(* holds the open ones and is within its limit, and the server, once       *)
(* stopping, has its bridge disabled and is destroyed with nothing posted. *)
THEOREM HttpInvariant == Spec => []HttpIInv
BY InitInv, StepInv, PTL DEF Spec

(* For any number of connections and requests, sessions_ holds exactly the *)
(* open sessions and at most kConnectionLimit, and no reply is posted to   *)
(* an io_context that was destroyed (accept, ReplyBridge).                 *)
THEOREM HttpTypeCorrect == Spec => []HttpTypeOK
BY HttpInvariant, InvImplies, PTL

(* Responses go out in the order of the requests, at most one for each and *)
(* never that of another one, whatever the order in which the business     *)
(* reply, the timer and the end of the connection are handled (reply,      *)
(* onRead).                                                                *)
THEOREM HttpOneResponsePerRequest == Spec => []OneResponsePerRequest
BY HttpInvariant, InvImplies, PTL

(* An open session always has exactly one operation under way that will    *)
(* wake it, never two reads or writes at a time (Session).                 *)
THEOREM HttpOneThingAtATime == Spec => []OneThingAtATime
BY HttpInvariant, InvImplies, PTL
=============================================================================
