----------------------------- MODULE CoreProofs -----------------------------
(***************************************************************************)
(* Proofs about GatewayCore, for any number of messages, requests and      *)
(* threads and any capacity of the mailboxes.                              *)
(*                                                                         *)
(* The invariant counts: every credit, every pending command, every query  *)
(* and every request is in exactly one place.  The number of completions   *)
(* that may still come to a mailbox is thus bounded by the credits and the *)
(* queries, and so the reserve has room for them (CoreRoom).  No           *)
(* completion is refused because of that, which in turn the counting       *)
(* needs: the two are proved together.                                     *)
(*                                                                         *)
(* And about the conversions that its tasks make (Payloads): both ends of  *)
(* the serial line read what the other one wrote, for every session,       *)
(* number, command, result and reading, and what the conversions accept at *)
(* one end is understood at the other.                                     *)
(***************************************************************************)
EXTENDS GatewayCore, ExecutorProofs, Payloads

Mqtt(m)    == [kind |-> "mqtt", msg |-> m]
Fin(id)    == [kind |-> "finished", id |-> id]
Tel(n)     == [kind |-> "telemetry", readings |-> n]
Http(r)    == [kind |-> "http", req |-> r]
Rows(r)    == [kind |-> "rows", req |-> r]
Barrier    == [kind |-> "barrier"]
QueryOf(r) == [kind |-> "query", req |-> r]
Answer(m)  == [kind |-> "answer", msg |-> m]
OneReading == [kind |-> "reading"]

MqttTask   == [kind : {"mqtt"}, msg : Msg]
FinTask    == [kind : {"finished"}, id : Nat]
TelTask    == [kind : {"telemetry"}, readings : 0..MaxReadings]
HttpTask   == [kind : {"http"}, req : Request]
RowsTask   == [kind : {"rows"}, req : Request]
QueryTask  == [kind : {"query"}, req : Request]
AnswerTask == [kind : {"answer"}, msg : Msg]

(* Those that are posted within the capacity, and all. *)
OrdTask    == MqttTask \union TelTask \union HttpTask
CTask      == OrdTask \union FinTask \union RowsTask \union {Barrier}
WorkerTask == AnswerTask \union {OneReading}

Places == {"loop", "join http", "reject", "finish", "accepting", "barrier",
           "wait", "queries", "core", "worker", "mqtt", "done"}

Handling == [at : {"check", "admit", "post", "release"}, msg : Msg]

TypeInv ==
  /\ accepting \in BOOLEAN /\ stopping \in BOOLEAN /\ httpUp \in BOOLEAN
  /\ admitted \in Nat /\ queries \in Nat
  /\ owner \in Seq(Msg) /\ pending \subseteq 1..Len(owner) /\ inflight \subseteq Nat
  /\ core \in ExecutorOf(CTask)
  /\ query \in ExecutorOf(QueryTask)
  /\ worker \in ExecutorOf(WorkerTask)
  /\ cmd_queue \in [items : Seq(Nat), shutdown : BOOLEAN]
  /\ mqtt \in [MqttThread -> {Away} \union Handling]
  /\ main \in Places
  /\ arrived \subseteq Msg /\ asked \subseteq Request /\ frames \in 0..MaxFrames
  /\ replied \in [Request -> Nat]

(* The MQTT threads that have a credit. *)
Posting == {t \in MqttThread : mqtt[t].at \in {"post", "release"}}

Credits ==
  /\ admitted <= kMaxCommands
  /\ admitted = Cardinality(Posting) + Holds(core, MqttTask) + Cardinality(pending)
                  + Holds(worker, AnswerTask)

Ends ==
  \A id \in Nat :
    Number(cmd_queue.items, {id}) + One(id \in inflight) + Holds(core, {Fin(id)})
      = One(id \in pending)

(* The sum of Ends over all commands. *)
EndsSum ==
  /\ IsFiniteSet(inflight)
  /\ Len(cmd_queue.items) + Cardinality(inflight) + Holds(core, FinTask)
       = Cardinality(pending)

(* The queries that are queued or running. *)
Load(ex) == Len(ex.tasks) + One(ex.busy # Idle)

Queries ==
  /\ queries <= kMaxQueries
  /\ queries = Load(query) + Holds(core, RowsTask)

Replies ==
  \A r \in Request :
    replied[r] + Holds(core, {Http(r)}) + Holds(query, {QueryOf(r)})
        + Holds(core, {Rows(r)})
      = One(r \in asked)

OneBarrier == Holds(core, {Barrier}) = One(main = "wait")

(* What was posted within the capacity is not more than that. *)
Ordinary ==
  /\ Number(core.tasks, OrdTask) <= CoreCapacity
  /\ Number(worker.tasks, {OneReading}) <= WorkerCapacity

(* The order of the shutdown. *)
StopOrder ==
  /\ main # "loop" => stopping /\ cmd_queue.shutdown
  /\ main \notin {"loop", "join http", "reject"} => cmd_queue.items = <<>>
  /\ main \notin {"loop", "join http", "reject", "finish"} => inflight = {}
  /\ query.closed <=> (main \in {"core", "worker", "mqtt", "done"})
  /\ core.closed <=> (main \in {"worker", "mqtt", "done"})
  /\ worker.closed <=> (main \in {"mqtt", "done"})
  /\ main \in {"worker", "mqtt", "done"} => Drained(query)
  /\ main \in {"mqtt", "done"} => Drained(core)

Counted == Credits /\ Ends /\ EndsSum /\ Queries /\ Replies /\ OneBarrier /\ Ordinary

CoreIInv == TypeInv /\ Counted /\ StopOrder
-----------------------------------------------------------------------------
(* Tasks of different kinds are different. *)

LEMMA NotIdle ==
  /\ Idle \notin CTask /\ Idle \notin QueryTask /\ Idle \notin WorkerTask
  /\ Idle \notin MqttTask /\ Idle \notin FinTask /\ Idle \notin RowsTask
  /\ Idle \notin OrdTask /\ Idle \notin AnswerTask
  /\ Idle # Barrier /\ Idle # OneReading
  /\ \A x : Idle # Fin(x) /\ Idle # Http(x) /\ Idle # Rows(x) /\ Idle # QueryOf(x)
BY DEF Idle, CTask, QueryTask, WorkerTask, MqttTask, FinTask, RowsTask, OrdTask, AnswerTask,
       TelTask, HttpTask, Barrier, OneReading, Fin, Http, Rows, QueryOf

LEMMA MqttKind ==
  ASSUME NEW m \in Msg
  PROVE  /\ Mqtt(m) \in CTask /\ Mqtt(m) \in OrdTask
         /\ Mqtt(m) \in MqttTask /\ Mqtt(m) \notin FinTask /\ Mqtt(m) \notin RowsTask
         /\ Mqtt(m) # Barrier
         /\ \A x : Mqtt(m) # Fin(x) /\ Mqtt(m) # Http(x) /\ Mqtt(m) # Rows(x)
BY DEF Mqtt, Fin, Tel, Http, Rows, Barrier, MqttTask, FinTask, TelTask, HttpTask, RowsTask, OrdTask, CTask

LEMMA FinKind ==
  ASSUME NEW i \in Nat
  PROVE  /\ Fin(i) \in CTask /\ Fin(i) \notin OrdTask
         /\ Fin(i) \notin MqttTask /\ Fin(i) \in FinTask /\ Fin(i) \notin RowsTask
         /\ Fin(i) # Barrier
         /\ \A x : Fin(i) # Http(x) /\ Fin(i) # Rows(x)
         /\ \A x : Fin(i) = Fin(x) <=> x = i
BY DEF Mqtt, Fin, Tel, Http, Rows, Barrier, MqttTask, FinTask, TelTask, HttpTask, RowsTask, OrdTask, CTask

LEMMA TelKind ==
  ASSUME NEW n \in 0..MaxReadings
  PROVE  /\ Tel(n) \in CTask /\ Tel(n) \in OrdTask
         /\ Tel(n) \notin MqttTask /\ Tel(n) \notin FinTask /\ Tel(n) \notin RowsTask
         /\ Tel(n) # Barrier
         /\ \A x : Tel(n) # Fin(x) /\ Tel(n) # Http(x) /\ Tel(n) # Rows(x)
BY DEF Mqtt, Fin, Tel, Http, Rows, Barrier, MqttTask, FinTask, TelTask, HttpTask, RowsTask, OrdTask, CTask

LEMMA HttpKind ==
  ASSUME NEW q \in Request
  PROVE  /\ Http(q) \in CTask /\ Http(q) \in OrdTask
         /\ Http(q) \notin MqttTask /\ Http(q) \notin FinTask /\ Http(q) \notin RowsTask
         /\ Http(q) # Barrier
         /\ \A x : Http(q) # Fin(x) /\ Http(q) # Rows(x)
         /\ \A x : Http(q) = Http(x) <=> x = q
BY DEF Mqtt, Fin, Tel, Http, Rows, Barrier, MqttTask, FinTask, TelTask, HttpTask, RowsTask, OrdTask, CTask

LEMMA RowsKind ==
  ASSUME NEW q \in Request
  PROVE  /\ Rows(q) \in CTask /\ Rows(q) \notin OrdTask
         /\ Rows(q) \notin MqttTask /\ Rows(q) \notin FinTask /\ Rows(q) \in RowsTask
         /\ Rows(q) # Barrier
         /\ \A x : Rows(q) # Fin(x) /\ Rows(q) # Http(x)
         /\ \A x : Rows(q) = Rows(x) <=> x = q
BY DEF Mqtt, Fin, Tel, Http, Rows, Barrier, MqttTask, FinTask, TelTask, HttpTask, RowsTask, OrdTask, CTask

LEMMA BarrierKind ==
  /\ Barrier \in CTask /\ Barrier \notin OrdTask
  /\ Barrier \notin MqttTask /\ Barrier \notin FinTask /\ Barrier \notin RowsTask
  /\ \A x : Barrier # Fin(x) /\ Barrier # Http(x) /\ Barrier # Rows(x)
BY DEF Mqtt, Fin, Tel, Http, Rows, Barrier, MqttTask, FinTask, TelTask, HttpTask, RowsTask, OrdTask, CTask

(* b holds the task x more than a. *)
More(a, b, x) == \A S : Idle \notin S => Holds(b, S) = Holds(a, S) + One(x \in S)

(* The same number of each of the tasks that are counted. *)
SameCounts(a, b) ==
  /\ Holds(b, MqttTask) = Holds(a, MqttTask) /\ Holds(b, FinTask) = Holds(a, FinTask)
  /\ Holds(b, RowsTask) = Holds(a, RowsTask) /\ Holds(b, {Barrier}) = Holds(a, {Barrier})
  /\ \A x : /\ Holds(b, {Fin(x)}) = Holds(a, {Fin(x)})
            /\ Holds(b, {Http(x)}) = Holds(a, {Http(x)})
            /\ Holds(b, {Rows(x)}) = Holds(a, {Rows(x)})

LEMMA MoreMqtt ==
  ASSUME NEW a \in ExecutorOf(CTask), NEW b, NEW m \in Msg, More(a, b, Mqtt(m))
  PROVE  /\ Holds(b, MqttTask) = Holds(a, MqttTask) + 1
         /\ Holds(b, FinTask) = Holds(a, FinTask)
         /\ Holds(b, RowsTask) = Holds(a, RowsTask)
         /\ Holds(b, {Barrier}) = Holds(a, {Barrier})
         /\ \A x : Holds(b, {Fin(x)}) = Holds(a, {Fin(x)})
         /\ \A x : Holds(b, {Http(x)}) = Holds(a, {Http(x)})
         /\ \A x : Holds(b, {Rows(x)}) = Holds(a, {Rows(x)})
<1>1. \A S : Holds(a, S) \in Nat
  BY HoldsType
<1>2. QED
  BY <1>1, NotIdle, MqttKind DEF More, One

LEMMA MoreFin ==
  ASSUME NEW a \in ExecutorOf(CTask), NEW b, NEW i \in Nat, More(a, b, Fin(i))
  PROVE  /\ Holds(b, MqttTask) = Holds(a, MqttTask)
         /\ Holds(b, FinTask) = Holds(a, FinTask) + 1
         /\ Holds(b, RowsTask) = Holds(a, RowsTask)
         /\ Holds(b, {Barrier}) = Holds(a, {Barrier})
         /\ \A x : Holds(b, {Fin(x)}) = Holds(a, {Fin(x)}) + One(x = i)
         /\ \A x : Holds(b, {Http(x)}) = Holds(a, {Http(x)})
         /\ \A x : Holds(b, {Rows(x)}) = Holds(a, {Rows(x)})
<1>1. \A S : Holds(a, S) \in Nat
  BY HoldsType
<1>2. QED
  BY <1>1, NotIdle, FinKind DEF More, One

LEMMA MoreTel ==
  ASSUME NEW a \in ExecutorOf(CTask), NEW b, NEW n \in 0..MaxReadings, More(a, b, Tel(n))
  PROVE  SameCounts(a, b)
<1>1. \A S : Holds(a, S) \in Nat
  BY HoldsType
<1>2. QED
  BY <1>1, NotIdle, TelKind DEF More, One, SameCounts

LEMMA MoreHttp ==
  ASSUME NEW a \in ExecutorOf(CTask), NEW b, NEW q \in Request, More(a, b, Http(q))
  PROVE  /\ Holds(b, MqttTask) = Holds(a, MqttTask)
         /\ Holds(b, FinTask) = Holds(a, FinTask)
         /\ Holds(b, RowsTask) = Holds(a, RowsTask)
         /\ Holds(b, {Barrier}) = Holds(a, {Barrier})
         /\ \A x : Holds(b, {Fin(x)}) = Holds(a, {Fin(x)})
         /\ \A x : Holds(b, {Http(x)}) = Holds(a, {Http(x)}) + One(x = q)
         /\ \A x : Holds(b, {Rows(x)}) = Holds(a, {Rows(x)})
<1>1. \A S : Holds(a, S) \in Nat
  BY HoldsType
<1>2. QED
  BY <1>1, NotIdle, HttpKind DEF More, One

LEMMA MoreRows ==
  ASSUME NEW a \in ExecutorOf(CTask), NEW b, NEW q \in Request, More(a, b, Rows(q))
  PROVE  /\ Holds(b, MqttTask) = Holds(a, MqttTask)
         /\ Holds(b, FinTask) = Holds(a, FinTask)
         /\ Holds(b, RowsTask) = Holds(a, RowsTask) + 1
         /\ Holds(b, {Barrier}) = Holds(a, {Barrier})
         /\ \A x : Holds(b, {Fin(x)}) = Holds(a, {Fin(x)})
         /\ \A x : Holds(b, {Http(x)}) = Holds(a, {Http(x)})
         /\ \A x : Holds(b, {Rows(x)}) = Holds(a, {Rows(x)}) + One(x = q)
<1>1. \A S : Holds(a, S) \in Nat
  BY HoldsType
<1>2. QED
  BY <1>1, NotIdle, RowsKind DEF More, One

LEMMA MoreBarrier ==
  ASSUME NEW a \in ExecutorOf(CTask), NEW b, More(a, b, Barrier)
  PROVE  /\ Holds(b, MqttTask) = Holds(a, MqttTask)
         /\ Holds(b, FinTask) = Holds(a, FinTask)
         /\ Holds(b, RowsTask) = Holds(a, RowsTask)
         /\ Holds(b, {Barrier}) = Holds(a, {Barrier}) + 1
         /\ \A x : Holds(b, {Fin(x)}) = Holds(a, {Fin(x)})
         /\ \A x : Holds(b, {Http(x)}) = Holds(a, {Http(x)})
         /\ \A x : Holds(b, {Rows(x)}) = Holds(a, {Rows(x)})
<1>1. \A S : Holds(a, S) \in Nat
  BY HoldsType
<1>2. QED
  BY <1>1, NotIdle, BarrierKind DEF More, One

LEMMA CorePosted ==
  ASSUME TypeInv, NEW x \in CTask, NEW limit, core' = post(core, x, limit)
  PROVE  /\ core' \in ExecutorOf(CTask) /\ core'.closed = core.closed
         /\ core'.busy = core.busy
         /\ Accepts(core, limit) => More(core, core', x)
         /\ ~Accepts(core, limit) => core' = core
<1>1. core \in ExecutorOf(CTask)
  BY DEF TypeInv
<1>2. core' \in ExecutorOf(CTask) /\ core'.closed = core.closed /\ core'.busy = core.busy
  BY <1>1, PostFields
<1>3. ~Accepts(core, limit) => core' = core
  BY DEF post
<1>4. \A S : Holds(core', S) = Holds(core, S) + One(Accepts(core, limit) /\ x \in S)
  BY <1>1, PostCounts
<1>5. Accepts(core, limit) => More(core, core', x)
  BY <1>4 DEF More, One
<1>6. QED
  BY <1>2, <1>3, <1>5

(* Ordinary tasks are posted within the capacity, the others do not count. *)
LEMMA CorePostedOrdinary ==
  ASSUME TypeInv, Ordinary, NEW x \in CTask, NEW limit, core' = post(core, x, limit),
         limit = CoreCapacity \/ x \notin OrdTask
  PROVE  Number(core'.tasks, OrdTask) <= CoreCapacity
<1>1. core \in ExecutorOf(CTask) /\ CoreCapacity \in Nat
  BY CoreConstants DEF TypeInv
<1>2. Number(core'.tasks, OrdTask)
        = Number(core.tasks, OrdTask) + One(Accepts(core, limit) /\ x \in OrdTask)
  BY <1>1, PostCounts
<1>3. /\ Number(core.tasks, OrdTask) \in Nat /\ Len(core.tasks) \in Nat
      /\ Number(core.tasks, OrdTask) <= Len(core.tasks)
  BY <1>1, ExecutorFields, NumberType
<1>4. CASE Accepts(core, limit) /\ x \in OrdTask
  BY <1>1, <1>2, <1>3, <1>4 DEF Accepts, One
<1>5. CASE ~(Accepts(core, limit) /\ x \in OrdTask)
  BY <1>2, <1>3, <1>5 DEF Ordinary, One
<1>6. QED
  BY <1>4, <1>5

LEMMA CoreDone ==
  ASSUME TypeInv, core' = done(core)
  PROVE  /\ core' \in ExecutorOf(CTask) /\ core'.closed = core.closed
         /\ core'.tasks = core.tasks /\ core'.busy = Idle
         /\ More(core', core, core.busy)
<1>1. core \in ExecutorOf(CTask)
  BY DEF TypeInv
<1>2. QED
  BY <1>1, DoneFields, DoneCounts DEF More
-----------------------------------------------------------------------------
(* There is room for what may still come. *)

LEMMA ConstantTypes ==
  /\ kMaxCommands \in Nat /\ kMaxQueries \in Nat /\ CoreCapacity \in Nat
  /\ CoreSpare \in Nat /\ CoreSpare >= 1 /\ WorkerCapacity \in Nat /\ WorkerSpare \in Nat
  /\ MaxReadings \in Nat /\ MaxFrames \in Nat /\ IsFiniteSet(MqttThread)
BY CoreConstants

LEMMA CountTypes ==
  ASSUME CoreIInv
  PROVE  /\ \A S : Holds(core, S) \in Nat /\ Number(core.tasks, S) \in Nat
         /\ \A S : Number(core.tasks, S) <= Holds(core, S)
         /\ \A S : Holds(worker, S) \in Nat /\ Number(worker.tasks, S) \in Nat
         /\ \A S : Number(worker.tasks, S) <= Holds(worker, S)
         /\ \A S : Holds(query, S) \in Nat
         /\ \A S : Number(cmd_queue.items, S) \in Nat
         /\ IsFiniteSet(pending) /\ Cardinality(pending) \in Nat
         /\ Cardinality(inflight) \in Nat
         /\ IsFiniteSet(Posting) /\ Cardinality(Posting) \in Nat
         /\ Len(cmd_queue.items) \in Nat /\ Load(query) \in Nat
<1>1. /\ core \in ExecutorOf(CTask) /\ worker \in ExecutorOf(WorkerTask)
      /\ query \in ExecutorOf(QueryTask) /\ cmd_queue.items \in Seq(Nat)
  BY DEF CoreIInv, TypeInv
<1>2. /\ \A S : Holds(core, S) \in Nat /\ Number(core.tasks, S) \in Nat
      /\ \A S : Number(core.tasks, S) <= Holds(core, S)
  BY <1>1, HoldsType
<1>3. /\ \A S : Holds(worker, S) \in Nat /\ Number(worker.tasks, S) \in Nat
      /\ \A S : Number(worker.tasks, S) <= Holds(worker, S)
  BY <1>1, HoldsType
<1>4. \A S : Holds(query, S) \in Nat
  BY <1>1, HoldsType
<1>5. /\ \A S : Number(cmd_queue.items, S) \in Nat
      /\ Len(cmd_queue.items) \in Nat
  BY <1>1, NumberType
<1>6. IsFiniteSet(pending) /\ Cardinality(pending) \in Nat
  <2>1. Len(owner) \in Nat /\ pending \in SUBSET (1..Len(owner))
    BY DEF CoreIInv, TypeInv
  <2>2. IsFiniteSet(1..Len(owner))
    BY <2>1, FS_Interval
  <2>3. QED
    BY <2>1, <2>2, FS_Subset, FS_CardinalityType
<1>7. Cardinality(inflight) \in Nat
  BY FS_CardinalityType DEF CoreIInv, Counted, EndsSum
<1>8. IsFiniteSet(Posting) /\ Cardinality(Posting) \in Nat
  <2>1. Posting \in SUBSET MqttThread
    BY DEF Posting
  <2>2. QED
    BY <2>1, ConstantTypes, FS_Subset, FS_CardinalityType
<1>9. Load(query) \in Nat
  <2>1. Len(query.tasks) \in Nat
    BY <1>1, ExecutorFields
  <2>2. One(query.busy # Idle) \in Nat
    BY DEF One
  <2>3. QED
    BY <2>1, <2>2 DEF Load
<1>10. QED
  BY <1>2, <1>3, <1>4, <1>5, <1>6, <1>7, <1>8, <1>9

(* A mailbox is the sum of its kinds. *)
LEMMA CoreLength ==
  ASSUME CoreIInv
  PROVE  Len(core.tasks) = Number(core.tasks, OrdTask) + Number(core.tasks, FinTask)
           + Number(core.tasks, RowsTask) + Number(core.tasks, {Barrier})
<1> DEFINE s == core.tasks
<1>1. s \in Seq(CTask)
  BY ExecutorFields DEF CoreIInv, TypeInv
<1> HIDE DEF s
<1>2. /\ OrdTask \intersect FinTask = {}
      /\ (OrdTask \union FinTask) \intersect RowsTask = {}
      /\ (OrdTask \union FinTask \union RowsTask) \intersect {Barrier} = {}
  BY DEF OrdTask, MqttTask, TelTask, HttpTask, FinTask, RowsTask, Barrier
<1>3. Number(s, OrdTask \union FinTask) = Number(s, OrdTask) + Number(s, FinTask)
  BY <1>1, <1>2, NumberUnion
<1>4. Number(s, OrdTask \union FinTask \union RowsTask)
        = Number(s, OrdTask \union FinTask) + Number(s, RowsTask)
  BY <1>1, <1>2, NumberUnion
<1>5. Number(s, CTask)
        = Number(s, OrdTask \union FinTask \union RowsTask) + Number(s, {Barrier})
  BY <1>1, <1>2, NumberUnion DEF CTask
<1>6. Number(s, CTask) = Len(s)
  BY <1>1, NumberAll
<1>7. QED
  BY <1>3, <1>4, <1>5, <1>6 DEF s

LEMMA WorkerLength ==
  ASSUME CoreIInv
  PROVE  Len(worker.tasks) = Number(worker.tasks, AnswerTask) + Number(worker.tasks, {OneReading})
<1> DEFINE s == worker.tasks
<1>1. s \in Seq(WorkerTask)
  BY ExecutorFields DEF CoreIInv, TypeInv
<1> HIDE DEF s
<1>2. AnswerTask \intersect {OneReading} = {}
  BY DEF AnswerTask, OneReading
<1>3. Number(s, WorkerTask) = Number(s, AnswerTask) + Number(s, {OneReading})
  BY <1>1, <1>2, NumberUnion DEF WorkerTask
<1>4. QED
  BY <1>1, <1>3, NumberAll DEF s

(* The barrier may still be posted. *)
BeforeBarrier ==
  main \in {"loop", "join http", "reject", "finish", "accepting", "barrier"}

ToCome ==
  Len(cmd_queue.items) + Cardinality(inflight) + Load(query) + One(BeforeBarrier)

(* The reserve of core: one place for every credit, query, and barrier. *)
LEMMA CoreRoom ==
  ASSUME CoreIInv
  PROVE  /\ ToCome \in Nat
         /\ Len(core.tasks) + ToCome <= CoreLimit
         /\ ToCome > 0 => ~core.closed /\ Accepts(core, CoreLimit)
<1> DEFINE F == Holds(core, FinTask)
           R == Holds(core, RowsTask)
           B == Holds(core, {Barrier})
           O == Number(core.tasks, OrdTask)
           I == Len(cmd_queue.items)
           J == Cardinality(inflight)
           P == Cardinality(pending)
           Q == Load(query)
           L == Len(core.tasks)
           X == One(BeforeBarrier)
<1>1. /\ F \in Nat /\ R \in Nat /\ B \in Nat /\ O \in Nat
      /\ I \in Nat /\ J \in Nat /\ P \in Nat /\ Q \in Nat
      /\ X \in {0, 1}
  BY CountTypes DEF One
<1>2. L <= O + F + R + B
  <2>1. L = O + Number(core.tasks, FinTask) + Number(core.tasks, RowsTask)
              + Number(core.tasks, {Barrier})
    BY CoreLength
  <2>2. /\ Number(core.tasks, FinTask) \in Nat /\ Number(core.tasks, FinTask) <= F
        /\ Number(core.tasks, RowsTask) \in Nat /\ Number(core.tasks, RowsTask) <= R
        /\ Number(core.tasks, {Barrier}) \in Nat /\ Number(core.tasks, {Barrier}) <= B
    BY CountTypes
  <2> HIDE DEF O, F, R, B, L
  <2>3. QED
    BY <1>1, <2>1, <2>2, SMTT(20)
<1>3. O <= CoreCapacity
  BY DEF CoreIInv, Counted, Ordinary
<1>4. I + J + F = P
  BY DEF CoreIInv, Counted, EndsSum
<1>5. P <= kMaxCommands
  <2>1. /\ admitted <= kMaxCommands /\ admitted \in Nat
        /\ admitted = Cardinality(Posting) + Holds(core, MqttTask) + P
                        + Holds(worker, AnswerTask)
    BY DEF CoreIInv, TypeInv, Counted, Credits
  <2>2. Cardinality(Posting) \in Nat /\ Holds(core, MqttTask) \in Nat
        /\ Holds(worker, AnswerTask) \in Nat
    BY CountTypes
  <2>3. QED
    BY <1>1, <2>1, <2>2, ConstantTypes, SMTT(20)
<1>6. Q + R <= kMaxQueries
  BY <1>1 DEF CoreIInv, Counted, Queries
<1>7. B + X <= 1
  <2>1. B = One(main = "wait")
    BY DEF CoreIInv, Counted, OneBarrier
  <2>2. main = "wait" => ~BeforeBarrier
    BY DEF BeforeBarrier
  <2> HIDE DEF B
  <2>3. QED
    BY <2>1, <2>2 DEF One
<1>8. ToCome = I + J + Q + X
  BY DEF ToCome
<1>9. L \in Nat
  BY ExecutorFields DEF CoreIInv, TypeInv
<1> HIDE DEF F, R, B, O, I, J, P, Q, L, X
<1>10. L + ToCome <= CoreCapacity + kMaxCommands + kMaxQueries + CoreSpare /\ ToCome \in Nat
  BY <1>1, <1>2, <1>3, <1>4, <1>5, <1>6, <1>7, <1>8, <1>9, ConstantTypes
<1>11. CoreLimit \in Nat /\ CoreLimit = CoreCapacity + kMaxCommands + kMaxQueries + CoreSpare
  BY ConstantTypes DEF CoreLimit
<1>12. ASSUME ToCome > 0 PROVE ~core.closed
  <2>1. SUFFICES ASSUME core.closed PROVE FALSE
    OBVIOUS
  <2>2. main \in {"worker", "mqtt", "done"}
    BY <2>1 DEF CoreIInv, StopOrder
  <2>3. cmd_queue.items = <<>> /\ inflight = {} /\ Drained(query)
    BY <2>2 DEF CoreIInv, StopOrder
  <2>4. I = 0 /\ J = 0 /\ X = 0
    BY <2>2, <2>3, FS_EmptySet DEF I, J, X, One, BeforeBarrier
  <2>5. Q = 0
    BY <2>3 DEF Q, Load, Drained, One
  <2>6. QED
    BY <1>8, <1>12, <2>4, <2>5
<1>13. QED
  BY <1>9, <1>10, <1>11, <1>12 DEF Accepts, L

(* The reserve of the worker: one place for every credit. *)
LEMMA WorkerRoom ==
  ASSUME CoreIInv, Holds(core, MqttTask) + Cardinality(pending) > 0
  PROVE  /\ ~worker.closed
         /\ Len(worker.tasks) + Holds(core, MqttTask) + Cardinality(pending) <= WorkerLimit
<1> DEFINE M == Holds(core, MqttTask)
           P == Cardinality(pending)
           A == Holds(worker, AnswerTask)
           N == Number(worker.tasks, {OneReading})
           L == Len(worker.tasks)
           T == Cardinality(Posting)
<1>1. M \in Nat /\ P \in Nat /\ A \in Nat /\ N \in Nat /\ T \in Nat
  BY CountTypes
<1>2. L <= A + N
  BY WorkerLength, CountTypes, SMTT(20)
<1>3. N <= WorkerCapacity
  BY DEF CoreIInv, Counted, Ordinary
<1>4. admitted <= kMaxCommands /\ admitted = T + M + P + A
  BY DEF CoreIInv, Counted, Credits
<1>5. L \in Nat
  BY ExecutorFields DEF CoreIInv, TypeInv
<1>6. WorkerLimit = WorkerCapacity + kMaxCommands + WorkerSpare
  BY DEF WorkerLimit
<1> HIDE DEF M, P, A, N, L, T
<1>7. L + M + P <= WorkerLimit
  BY <1>1, <1>2, <1>3, <1>4, <1>5, <1>6, ConstantTypes
<1>8. ~worker.closed
  <2>1. SUFFICES ASSUME worker.closed PROVE FALSE
    OBVIOUS
  <2>2. main \in {"mqtt", "done"} /\ Drained(core)
    BY <2>1 DEF CoreIInv, StopOrder
  <2>3. core.tasks = <<>> /\ core.busy = Idle
    BY <2>2 DEF Drained
  <2>4. \A S : Idle \notin S => Holds(core, S) = 0
    BY <2>3, NumberEmpty DEF Holds, One
  <2>5. M = 0 /\ Holds(core, FinTask) = 0
    BY <2>4, NotIdle DEF M
  <2>6. cmd_queue.items = <<>> /\ inflight = {}
    BY <2>2 DEF CoreIInv, StopOrder
  <2>7. Len(cmd_queue.items) = 0 /\ Cardinality(inflight) = 0
    BY <2>6, FS_EmptySet
  <2>8. P = 0
    BY <2>5, <2>7 DEF CoreIInv, Counted, EndsSum, P
  <2>9. QED
    BY <2>5, <2>8 DEF M, P
<1>9. QED
  BY <1>7, <1>8 DEF L, M, P
-----------------------------------------------------------------------------
(* The invariant implies the properties. *)

LEMMA KindOf ==
  ASSUME NEW x \in CTask
  PROVE  /\ x.kind = "mqtt" <=> x \in MqttTask
         /\ x.kind = "rows" <=> x \in RowsTask
BY DEF CTask, OrdTask, MqttTask, TelTask, HttpTask, FinTask, RowsTask, Barrier

LEMMA CountIsHolds ==
  ASSUME CoreIInv
  PROVE  /\ Count(core, "mqtt") = Holds(core, MqttTask)
         /\ Count(core, "rows") = Holds(core, RowsTask)
         /\ Count(worker, "answer") = Holds(worker, AnswerTask)
         /\ \A x : x # Idle => CountOf(Held(core), x) = Holds(core, {x})
         /\ \A x : x # Idle => CountOf(Held(query), x) = Holds(query, {x})
         /\ \A x : CountOf(cmd_queue.items, x) = Number(cmd_queue.items, {x})
         /\ Len(Held(query)) = Load(query)
<1>1. /\ core \in ExecutorOf(CTask) /\ worker \in ExecutorOf(WorkerTask)
      /\ query \in ExecutorOf(QueryTask)
  BY DEF CoreIInv, TypeInv
<1>2. Held(core) \in Seq(CTask) /\ \A S : Idle \notin S => Number(Held(core), S) = Holds(core, S)
  BY <1>1, NotIdle, HeldCounts
<1>3. Held(worker) \in Seq(WorkerTask) /\ \A S : Idle \notin S => Number(Held(worker), S) = Holds(worker, S)
  BY <1>1, NotIdle, HeldCounts
<1>4. /\ \A S : Idle \notin S => Number(Held(query), S) = Holds(query, S)
      /\ Len(Held(query)) = Load(query)
  BY <1>1, NotIdle, HeldCounts DEF Load
<1>5. \A i \in DOMAIN Held(core) : Held(core)[i] \in CTask
  BY <1>2
<1>6. Count(core, "mqtt") = Holds(core, MqttTask)
  <2>1. {i \in DOMAIN Held(core) : Held(core)[i].kind = "mqtt"}
          = {i \in DOMAIN Held(core) : Held(core)[i] \in MqttTask}
    BY <1>5, KindOf
  <2>2. QED
    BY <1>2, <2>1, NotIdle DEF Count, Number
<1>7. Count(core, "rows") = Holds(core, RowsTask)
  <2>1. {i \in DOMAIN Held(core) : Held(core)[i].kind = "rows"}
          = {i \in DOMAIN Held(core) : Held(core)[i] \in RowsTask}
    BY <1>5, KindOf
  <2>2. QED
    BY <1>2, <2>1, NotIdle DEF Count, Number
<1>8. Count(worker, "answer") = Holds(worker, AnswerTask)
  <2>1. \A x \in WorkerTask : x.kind = "answer" <=> x \in AnswerTask
    BY DEF WorkerTask, AnswerTask, OneReading
  <2>2. \A i \in DOMAIN Held(worker) : Held(worker)[i] \in WorkerTask
    BY <1>3
  <2>3. {i \in DOMAIN Held(worker) : Held(worker)[i].kind = "answer"}
          = {i \in DOMAIN Held(worker) : Held(worker)[i] \in AnswerTask}
    BY <2>1, <2>2
  <2>4. QED
    BY <1>3, <2>3, NotIdle DEF Count, Number
<1>9. \A s, x : CountOf(s, x) = Number(s, {x})
  <2>1. \A s, x : {i \in DOMAIN s : s[i] = x} = {i \in DOMAIN s : s[i] \in {x}}
    OBVIOUS
  <2>2. QED
    BY <2>1 DEF CountOf, Number
<1>10. \A x : x # Idle => Idle \notin {x}
  OBVIOUS
<1>11. /\ \A x : x # Idle => CountOf(Held(core), x) = Holds(core, {x})
       /\ \A x : x # Idle => CountOf(Held(query), x) = Holds(query, {x})
  BY <1>2, <1>4, <1>9, <1>10
<1>12. QED
  BY <1>4, <1>6, <1>7, <1>8, <1>9, <1>11

(* What is in the queue to the Reactor, with the Reactor, or reported as   *)
(* finished is pending.                                                    *)
LEMMA EndsArePending ==
  ASSUME CoreIInv
  PROVE  /\ inflight \subseteq pending
         /\ cmd_queue.items \in Seq(pending)
         /\ \A id \in Nat : Holds(core, {Fin(id)}) > 0 => id \in pending
         /\ \A id \in Nat : Number(cmd_queue.items, {id}) > 0 => id \in pending
<1>1. \A id \in Nat :
        /\ Number(cmd_queue.items, {id}) \in Nat /\ Holds(core, {Fin(id)}) \in Nat
        /\ One(id \in inflight) \in {0, 1}
        /\ Number(cmd_queue.items, {id}) + One(id \in inflight) + Holds(core, {Fin(id)})
             = One(id \in pending)
  BY CountTypes DEF CoreIInv, Counted, Ends, One
<1>2. ASSUME NEW id \in Nat, id \notin pending
      PROVE  Number(cmd_queue.items, {id}) = 0 /\ id \notin inflight /\ Holds(core, {Fin(id)}) = 0
  <2>1. Number(cmd_queue.items, {id}) + One(id \in inflight) + Holds(core, {Fin(id)}) = 0
    BY <1>1, <1>2 DEF One
  <2>2. One(id \in inflight) = 0 /\ Number(cmd_queue.items, {id}) = 0 /\ Holds(core, {Fin(id)}) = 0
    BY <1>1, <2>1
  <2>3. QED
    BY <2>2 DEF One
<1>3. \A id \in Nat : /\ Holds(core, {Fin(id)}) > 0 => id \in pending
                      /\ Number(cmd_queue.items, {id}) > 0 => id \in pending
  BY <1>2
<1>4. cmd_queue.items \in Seq(Nat) /\ inflight \subseteq Nat
  BY DEF CoreIInv, TypeInv
<1>5. \A i \in DOMAIN cmd_queue.items : cmd_queue.items[i] \in pending
  <2> SUFFICES ASSUME NEW i \in DOMAIN cmd_queue.items PROVE cmd_queue.items[i] \in pending
    OBVIOUS
  <2> DEFINE x == cmd_queue.items[i]
  <2>1. x \in Nat
    BY <1>4
  <2>2. Number(cmd_queue.items, {x}) > 0
    BY <1>4, NumberMember
  <2> HIDE DEF x
  <2>3. x \in pending
    BY <1>3, <2>1, <2>2
  <2>4. QED
    BY <2>3 DEF x
<1>6. cmd_queue.items \in Seq(pending)
  <2>1. Len(cmd_queue.items) \in Nat /\ DOMAIN cmd_queue.items = 1..Len(cmd_queue.items)
        /\ cmd_queue.items \in [1..Len(cmd_queue.items) -> Nat]
    BY <1>4
  <2>2. cmd_queue.items \in [1..Len(cmd_queue.items) -> pending]
    BY <1>5, <2>1
  <2>3. QED
    BY <2>1, <2>2, SeqDef
<1>7. QED
  BY <1>2, <1>4, <1>6, <1>3

LEMMA ImpliesType == CoreIInv => CoreTypeOK
<1> SUFFICES ASSUME CoreIInv PROVE CoreTypeOK
  OBVIOUS
<1>1. admitted \in 0..kMaxCommands /\ queries \in 0..kMaxQueries
  BY ConstantTypes DEF CoreIInv, TypeInv, Counted, Credits, Queries
<1>2. core \in ExecutorOf(CoreTask)
  <2>1. /\ core \in [tasks : Seq(CTask), closed : BOOLEAN, busy : CTask \union {Idle}]
        /\ core.tasks \in Seq(CTask) /\ core.busy \in CTask \union {Idle}
    BY ExecutorFields DEF CoreIInv, TypeInv, ExecutorOf
  <2>2. ASSUME NEW x \in CTask, x \in FinTask => x.id \in pending PROVE x \in CoreTask
    <3>1. pending \subseteq 1..Len(owner)
      BY DEF CoreIInv, TypeInv
    <3>2. QED
      BY <2>2, <3>1 DEF CTask, OrdTask, MqttTask, TelTask, HttpTask, FinTask, RowsTask,
                        Barrier, CoreTask
  <2>3. ASSUME NEW x \in FinTask, Holds(core, {x}) > 0 PROVE x.id \in pending
    <3>1. x.id \in Nat /\ x = Fin(x.id)
      BY DEF FinTask, Fin
    <3>2. QED
      BY <2>3, <3>1, EndsArePending
  <2>4. \A i \in DOMAIN core.tasks : core.tasks[i] \in CoreTask
    <3> SUFFICES ASSUME NEW i \in DOMAIN core.tasks PROVE core.tasks[i] \in CoreTask
      OBVIOUS
    <3> DEFINE x == core.tasks[i]
    <3>1. x \in CTask
      BY <2>1
    <3>2. Number(core.tasks, {x}) > 0
      BY <2>1, NumberMember
    <3>3. Holds(core, {x}) > 0
      BY <3>2, CountTypes
    <3>4. QED
      BY <2>2, <2>3, <3>1, <3>3
  <2>5. core.busy \in CoreTask \union {Idle}
    <3>1. CASE core.busy \in CTask
      <4>1. Holds(core, {core.busy}) > 0
        BY HoldsBusy DEF CoreIInv, TypeInv
      <4>2. QED
        BY <2>2, <2>3, <3>1, <4>1
    <3>2. QED
      BY <2>1, <3>1
  <2>6. core.tasks \in Seq(CoreTask)
    <3>1. /\ Len(core.tasks) \in Nat /\ DOMAIN core.tasks = 1..Len(core.tasks)
          /\ core.tasks \in [1..Len(core.tasks) -> CTask]
      BY <2>1
    <3>2. core.tasks \in [1..Len(core.tasks) -> CoreTask]
      BY <2>4, <3>1
    <3>3. QED
      BY <3>1, <3>2, SeqDef
  <2>7. QED
    BY <2>1, <2>5, <2>6 DEF ExecutorOf
<1>3. query \in ExecutorOf([kind : {"query"}, req : Request])
  BY DEF CoreIInv, TypeInv, QueryTask
<1>4. worker \in ExecutorOf([kind : {"answer"}, msg : Msg] \union [kind : {"reading"}])
  <2>1. WorkerTask = [kind : {"answer"}, msg : Msg] \union [kind : {"reading"}]
    BY DEF WorkerTask, AnswerTask, OneReading
  <2>2. QED
    BY <2>1 DEF CoreIInv, TypeInv
<1>5. cmd_queue \in [items : Seq(pending), shutdown : BOOLEAN] /\ inflight \subseteq pending
  BY EndsArePending DEF CoreIInv, TypeInv
<1>6. QED
  BY <1>1, <1>2, <1>3, <1>4, <1>5 DEF CoreIInv, TypeInv, CoreTypeOK, Handling, Places

LEMMA ImpliesAccounted == CoreIInv => CommandsAccounted
<1> SUFFICES ASSUME CoreIInv PROVE CommandsAccounted
  OBVIOUS
<1>1. CreditsConserved
  BY CountIsHolds DEF CoreIInv, Counted, Credits, CreditsConserved, Posting
<1>2. OneEndPerCommand
  <2> SUFFICES ASSUME NEW id \in 1..Len(owner)
               PROVE  CountOf(cmd_queue.items, id) + Cardinality(inflight \intersect {id})
                        + CountOf(Held(core), Fin(id)) = IF id \in pending THEN 1 ELSE 0
    BY DEF OneEndPerCommand, Fin
  <2>1. id \in Nat
    OBVIOUS
  <2>2. Cardinality(inflight \intersect {id}) = One(id \in inflight)
    <3>1. inflight \intersect {id} = IF id \in inflight THEN {id} ELSE {}
      OBVIOUS
    <3>2. QED
      BY <3>1, FS_EmptySet, FS_Singleton DEF One
  <2>3. CountOf(Held(core), Fin(id)) = Holds(core, {Fin(id)})
    BY CountIsHolds, NotIdle
  <2>4. CountOf(cmd_queue.items, id) = Number(cmd_queue.items, {id})
    BY CountIsHolds
  <2>5. Number(cmd_queue.items, {id}) + One(id \in inflight) + Holds(core, {Fin(id)})
          = One(id \in pending)
    BY <2>1 DEF CoreIInv, Counted, Ends
  <2>6. QED
    BY <2>2, <2>3, <2>4, <2>5 DEF One
<1>3. QED
  BY <1>1, <1>2, ImpliesType DEF CommandsAccounted

LEMMA ImpliesRoom == CoreIInv => RoomForCompletions
<1> SUFFICES ASSUME CoreIInv PROVE RoomForCompletions
  OBVIOUS
<1>1. CompletionsToCome = ToCome
  <2>1. Len(Held(query)) = Load(query)
    BY CountIsHolds
  <2>2. QED
    BY <2>1 DEF CompletionsToCome, ToCome, BeforeBarrier, One
<1>2. CompletionsToCome > 0 => ~core.closed /\ Len(core.tasks) + CompletionsToCome <= CoreLimit
  BY <1>1, CoreRoom
<1>3. AnswersToCome = Holds(core, MqttTask) + Cardinality(pending)
  BY CountIsHolds DEF AnswersToCome
<1>4. AnswersToCome > 0 => ~worker.closed /\ Len(worker.tasks) + AnswersToCome <= WorkerLimit
  <2>1. /\ Len(worker.tasks) \in Nat /\ Holds(core, MqttTask) \in Nat
        /\ Cardinality(pending) \in Nat
    BY CountTypes, ExecutorFields DEF CoreIInv, TypeInv
  <2>2. Len(worker.tasks) + Holds(core, MqttTask) + Cardinality(pending)
          = Len(worker.tasks) + (Holds(core, MqttTask) + Cardinality(pending))
    BY <2>1
  <2>3. QED
    BY <1>3, <2>2, WorkerRoom
<1>5. QED
  BY <1>2, <1>4 DEF RoomForCompletions

LEMMA ImpliesReply == CoreIInv => OneReplyPerRequest
<1> SUFFICES ASSUME CoreIInv PROVE OneReplyPerRequest
  OBVIOUS
<1>1. queries = Len(Held(query)) + Count(core, "rows")
  BY CountIsHolds DEF CoreIInv, Counted, Queries
<1>2. ASSUME NEW r \in Request
      PROVE  replied[r] + CountOf(Held(core), Http(r)) + CountOf(Held(query), QueryOf(r))
               + CountOf(Held(core), Rows(r)) = IF r \in asked THEN 1 ELSE 0
  <2>1. /\ CountOf(Held(core), Http(r)) = Holds(core, {Http(r)})
        /\ CountOf(Held(query), QueryOf(r)) = Holds(query, {QueryOf(r)})
        /\ CountOf(Held(core), Rows(r)) = Holds(core, {Rows(r)})
    BY CountIsHolds, NotIdle
  <2>2. QED
    BY <2>1 DEF CoreIInv, Counted, Replies, One
<1>3. QED
  BY <1>1, <1>2 DEF OneReplyPerRequest, Http, QueryOf, Rows
-----------------------------------------------------------------------------
LEMMA InitInv == Init => CoreIInv
<1> SUFFICES ASSUME Init PROVE CoreIInv
  OBVIOUS
<1>1. /\ \A T : NewExecutor \in ExecutorOf(T)
      /\ NewExecutor.closed = FALSE /\ NewExecutor.tasks = <<>> /\ NewExecutor.busy = Idle
  BY NewExecutorType
<1>2. \A S : Idle \notin S => Holds(NewExecutor, S) = 0 /\ Number(NewExecutor.tasks, S) = 0
  BY <1>1, NumberEmpty DEF Holds, One
<1>3. core = NewExecutor /\ query = NewExecutor /\ worker = NewExecutor
  BY DEF Init
<1>4. TypeInv
  <2>1. /\ core \in ExecutorOf(CTask) /\ query \in ExecutorOf(QueryTask)
        /\ worker \in ExecutorOf(WorkerTask)
    BY <1>1, <1>3
  <2>2. /\ cmd_queue \in [items : Seq(Nat), shutdown : BOOLEAN]
        /\ mqtt \in [MqttThread -> {Away} \union Handling]
        /\ replied \in [Request -> Nat] /\ owner \in Seq(Msg)
    BY DEF Init
  <2>3. main \in Places /\ frames \in 0..MaxFrames
    BY ConstantTypes DEF Init, Places
  <2>4. QED
    BY <2>1, <2>2, <2>3 DEF Init, TypeInv
<1>5. StopOrder
  <2>1. query.closed = FALSE /\ core.closed = FALSE /\ worker.closed = FALSE
    BY <1>1, <1>3
  <2>2. main = "loop"
    BY DEF Init
  <2>3. QED
    BY <2>1, <2>2 DEF StopOrder
<1>6. Credits
  <2>1. Posting = {}
    BY DEF Init, Posting, Away
  <2>2. Cardinality(Posting) = 0 /\ Cardinality(pending) = 0
    BY <2>1, FS_EmptySet DEF Init
  <2>3. Holds(core, MqttTask) = 0 /\ Holds(worker, AnswerTask) = 0
    BY <1>2, <1>3, NotIdle
  <2>4. QED
    BY <2>2, <2>3, ConstantTypes DEF Init, Credits
<1>7. Ends
  <2>1. \A id \in Nat : Holds(core, {Fin(id)}) = 0 /\ Number(cmd_queue.items, {id}) = 0
    BY <1>2, <1>3, NotIdle, NumberEmpty DEF Init
  <2>2. QED
    BY <2>1 DEF Init, Ends, One
<1>8. EndsSum
  <2>1. Holds(core, FinTask) = 0
    BY <1>2, <1>3, NotIdle
  <2>2. inflight = {} /\ pending = {} /\ Len(cmd_queue.items) = 0
    BY DEF Init
  <2>3. QED
    BY <2>1, <2>2, FS_EmptySet DEF EndsSum
<1>9. Queries
  <2>1. Holds(core, RowsTask) = 0
    BY <1>2, <1>3, NotIdle
  <2>2. Load(query) = 0
    <3>1. Len(query.tasks) = 0 /\ One(query.busy # Idle) = 0
      BY <1>1, <1>3 DEF One
    <3>2. QED
      BY <3>1 DEF Load
  <2>3. QED
    BY <2>1, <2>2, ConstantTypes DEF Init, Queries
<1>10. Replies
  <2>1. \A r \in Request : /\ Holds(core, {Http(r)}) = 0 /\ Holds(query, {QueryOf(r)}) = 0
                           /\ Holds(core, {Rows(r)}) = 0
    BY <1>2, <1>3, NotIdle
  <2>2. \A r \in Request : replied[r] = 0 /\ One(r \in asked) = 0
    BY DEF Init, One
  <2>3. ASSUME NEW r \in Request
        PROVE  replied[r] + Holds(core, {Http(r)}) + Holds(query, {QueryOf(r)})
                 + Holds(core, {Rows(r)}) = One(r \in asked)
    BY <2>1, <2>2
  <2>4. QED
    BY <2>3 DEF Replies
<1>11. OneBarrier
  <2>1. Holds(core, {Barrier}) = 0
    BY <1>2, <1>3, NotIdle
  <2>2. QED
    BY <2>1 DEF Init, OneBarrier, One
<1>12. Ordinary
  <2>1. Number(core.tasks, OrdTask) = 0 /\ Number(worker.tasks, {OneReading}) = 0
    BY <1>2, <1>3, NotIdle
  <2>2. QED
    BY <2>1, ConstantTypes DEF Ordinary
<1>13. QED
  BY <1>4, <1>5, <1>6, <1>7, <1>8, <1>9, <1>10, <1>11, <1>12 DEF CoreIInv, Counted

(***************************************************************************)
(* The MQTT threads.                                                       *)
(***************************************************************************)
(* Every task but those of MQTT stays as it is. *)
LEMMA MqttFrame ==
  ASSUME CoreIInv,
         UNCHANGED <<idVars, httpVars, mainVars, cmd_queue, worker>>,
         mqtt' \in [MqttThread -> {Away} \union Handling], arrived' \subseteq Msg,
         core' \in ExecutorOf(CTask), core'.closed = core.closed,
         core.closed => core' = core,
         Holds(core', FinTask) = Holds(core, FinTask),
         Holds(core', RowsTask) = Holds(core, RowsTask),
         Holds(core', {Barrier}) = Holds(core, {Barrier}),
         \A x : Holds(core', {Fin(x)}) = Holds(core, {Fin(x)}),
         \A x : Holds(core', {Http(x)}) = Holds(core, {Http(x)}),
         \A x : Holds(core', {Rows(x)}) = Holds(core, {Rows(x)}),
         Number(core'.tasks, OrdTask) <= CoreCapacity,
         admitted' \in Nat, Credits'
  PROVE  CoreIInv'
<1> USE DEF idVars, httpVars, mainVars
<1>1. TypeInv'
  BY DEF CoreIInv, TypeInv
<1>2. StopOrder'
  BY DEF CoreIInv, StopOrder
<1>3. Ends' /\ EndsSum'
  BY DEF CoreIInv, Counted, Ends, EndsSum
<1>4. Queries' /\ Replies'
  BY DEF CoreIInv, Counted, Queries, Replies
<1>5. OneBarrier' /\ Ordinary'
  BY DEF CoreIInv, Counted, OneBarrier, Ordinary
<1>6. QED
  BY <1>1, <1>2, <1>3, <1>4, <1>5 DEF CoreIInv, Counted

(* The credits in the hands of the threads. *)
LEMMA PostingStep ==
  ASSUME CoreIInv, NEW t \in MqttThread, NEW v, mqtt' = [mqtt EXCEPT ![t] = v]
  PROVE  Posting' = IF v.at \in {"post", "release"} THEN Posting \union {t}
                                                   ELSE Posting \ {t}
<1>1. mqtt \in [MqttThread -> {Away} \union Handling]
  BY DEF CoreIInv, TypeInv
<1>2. mqtt'[t] = v /\ \A u \in MqttThread : u # t => mqtt'[u] = mqtt[u]
  BY <1>1
<1>3. QED
  BY <1>2 DEF Posting

LEMMA HandlingType ==
  ASSUME CoreIInv, NEW t \in MqttThread, mqtt[t].at # "away"
  PROVE  /\ mqtt[t] \in Handling /\ mqtt[t].msg \in Msg
         /\ \A p \in {"check", "admit", "post", "release"} :
              LET v == [mqtt[t] EXCEPT !.at = p] IN v \in Handling /\ v.at = p
<1>1. mqtt[t] \in Handling
  BY DEF CoreIInv, TypeInv, Away
<1>2. QED
  BY <1>1 DEF Handling

(* A thread that goes on with a message and leaves the mailbox alone. *)
LEMMA MqttMoves ==
  ASSUME CoreIInv, NEW t \in MqttThread, NEW v \in {Away} \union Handling,
         mqtt' = [mqtt EXCEPT ![t] = v], arrived' \subseteq Msg, core' = core,
         UNCHANGED <<idVars, httpVars, mainVars, cmd_queue, worker>>,
         admitted' = admitted + One(v.at \in {"post", "release"}) - One(t \in Posting),
         admitted' <= kMaxCommands
  PROVE  CoreIInv'
<1>1. mqtt' \in [MqttThread -> {Away} \union Handling]
  BY DEF CoreIInv, TypeInv
<1>2. /\ Posting' = IF v.at \in {"post", "release"} THEN Posting \union {t} ELSE Posting \ {t}
      /\ IsFiniteSet(Posting) /\ Cardinality(Posting) \in Nat
  BY PostingStep, CountTypes
<1>3. /\ Cardinality(Posting \union {t}) = Cardinality(Posting) + One(t \notin Posting)
      /\ Cardinality(Posting \ {t}) = Cardinality(Posting) - One(t \in Posting)
      /\ IsFiniteSet(Posting \ {t}) /\ Cardinality(Posting \ {t}) \in Nat
  <2>1. Cardinality(Posting \union {t}) = Cardinality(Posting) + One(t \notin Posting)
    <3>1. Cardinality(Posting \union {t})
            = IF t \in Posting THEN Cardinality(Posting) ELSE Cardinality(Posting) + 1
      BY <1>2, FS_AddElement
    <3>2. QED
      BY <1>2, <3>1 DEF One
  <2>2. Cardinality(Posting \ {t}) = Cardinality(Posting) - One(t \in Posting)
    BY <1>2, FS_RemoveElement, SMTT(20) DEF One
  <2>3. IsFiniteSet(Posting \ {t})
    BY <1>2, FS_RemoveElement
  <2>4. QED
    BY <2>1, <2>2, <2>3, FS_CardinalityType
<1>4. Cardinality(Posting') = Cardinality(Posting) + One(v.at \in {"post", "release"})
                                - One(t \in Posting)
  <2>1. CASE v.at \in {"post", "release"}
    BY <1>2, <1>3, <2>1 DEF One
  <2>2. CASE v.at \notin {"post", "release"}
    BY <1>2, <1>3, <2>2 DEF One
  <2>3. QED
    BY <2>1, <2>2
<1>5. /\ admitted = Cardinality(Posting) + Holds(core, MqttTask) + Cardinality(pending)
                      + Holds(worker, AnswerTask)
      /\ Holds(core, MqttTask) \in Nat /\ Holds(worker, AnswerTask) \in Nat
      /\ Cardinality(pending) \in Nat /\ Cardinality(Posting') \in Nat
  <2>1. IsFiniteSet(Posting')
    BY <1>2, FS_AddElement, FS_RemoveElement
  <2>2. Cardinality(Posting') \in Nat
    BY <2>1, FS_CardinalityType
  <2>3. QED
    BY <2>2, CountTypes DEF CoreIInv, Counted, Credits
<1>6. admitted' = Cardinality(Posting') + Holds(core, MqttTask) + Cardinality(pending)
                    + Holds(worker, AnswerTask)
  BY <1>2, <1>4, <1>5 DEF One
<1>7. Credits' /\ admitted' \in Nat
  <2>1. Credits'
    BY <1>6 DEF Credits, idVars
  <2>2. QED
    BY <1>5, <1>6, <2>1
<1>8. core \in ExecutorOf(CTask) /\ Number(core.tasks, OrdTask) <= CoreCapacity
  BY DEF CoreIInv, TypeInv, Counted, Ordinary
<1>9. QED
  BY <1>1, <1>7, <1>8, MqttFrame

LEMMA MqttArrivesStep ==
  ASSUME CoreIInv, NEW t \in MqttThread, NEW m \in Msg, MqttArrives(t, m)
  PROVE  CoreIInv'
<1> DEFINE v == [at |-> "check", msg |-> m]
<1>1. v \in Handling /\ v.at \notin {"post", "release"}
  BY DEF Handling
<1>2. t \notin Posting
  BY DEF MqttArrives, Posting, Away
<1>3. /\ mqtt' = [mqtt EXCEPT ![t] = v] /\ arrived' \subseteq Msg /\ core' = core
      /\ UNCHANGED <<idVars, httpVars, mainVars, cmd_queue, worker>> /\ admitted' = admitted
  BY DEF MqttArrives, CoreIInv, TypeInv
<1>4. admitted \in Nat /\ admitted <= kMaxCommands
  BY DEF CoreIInv, TypeInv, Counted, Credits
<1>5. admitted' = admitted + One(v.at \in {"post", "release"}) - One(t \in Posting)
  BY <1>1, <1>2, <1>3, <1>4 DEF One
<1> HIDE DEF v
<1>6. QED
  BY <1>1, <1>3, <1>4, <1>5, MqttMoves

(* A message is answered as busy by the thread. *)
LEMMA AnswerBusyStep ==
  ASSUME CoreIInv, NEW t \in MqttThread, AnswerBusy(t), arrived' = arrived, core' = core,
         UNCHANGED <<idVars, httpVars, mainVars, cmd_queue, worker>>,
         admitted' = admitted - One(t \in Posting)
  PROVE  CoreIInv'
<1>1. Away.at \notin {"post", "release"}
  BY DEF Away
<1>2. admitted \in Nat /\ admitted <= kMaxCommands /\ arrived' \subseteq Msg
  BY DEF CoreIInv, TypeInv, Counted, Credits
<1>3. mqtt' = [mqtt EXCEPT ![t] = Away]
  BY DEF AnswerBusy
<1>4. admitted' = admitted + One(Away.at \in {"post", "release"}) - One(t \in Posting)
  BY <1>1, <1>2 DEF One
<1>5. admitted' <= kMaxCommands
  BY <1>2, ConstantTypes DEF One
<1>6. QED
  BY <1>2, <1>3, <1>4, <1>5, MqttMoves

LEMMA MqttCheckStep ==
  ASSUME CoreIInv, NEW t \in MqttThread, MqttCheck(t),
         UNCHANGED <<idVars, httpVars, mainVars, cmd_queue, worker>>
  PROVE  CoreIInv'
<1>0. t \notin Posting /\ admitted' = admitted /\ core' = core /\ arrived' = arrived
  BY DEF MqttCheck, Posting
<1>1. admitted \in Nat /\ admitted <= kMaxCommands /\ arrived \subseteq Msg
  BY DEF CoreIInv, TypeInv, Counted, Credits
<1>2. CASE AnswerBusy(t)
  <2>1. admitted' = admitted - One(t \in Posting)
    BY <1>0, <1>1 DEF One
  <2>2. QED
    BY <1>0, <1>2, <2>1, AnswerBusyStep
<1>3. CASE mqtt' = [mqtt EXCEPT ![t].at = "admit"]
  <2> DEFINE v == [mqtt[t] EXCEPT !.at = "admit"]
  <2>1. v \in Handling /\ v.at = "admit" /\ mqtt' = [mqtt EXCEPT ![t] = v]
    BY <1>3, HandlingType DEF MqttCheck
  <2> HIDE DEF v
  <2>2. admitted' = admitted + One(v.at \in {"post", "release"}) - One(t \in Posting)
    BY <1>0, <1>1, <2>1 DEF One
  <2>3. QED
    BY <1>0, <1>1, <2>1, <2>2, MqttMoves
<1>4. QED
  BY <1>2, <1>3 DEF MqttCheck

LEMMA MqttAdmitStep ==
  ASSUME CoreIInv, NEW t \in MqttThread, MqttAdmit(t),
         UNCHANGED <<idVars, httpVars, mainVars, cmd_queue, worker>>
  PROVE  CoreIInv'
<1>0. t \notin Posting /\ core' = core /\ arrived' = arrived
  BY DEF MqttAdmit, Posting
<1>1. admitted \in Nat /\ admitted <= kMaxCommands /\ arrived \subseteq Msg
  BY DEF CoreIInv, TypeInv, Counted, Credits
<1>2. CASE AnswerBusy(t) /\ admitted' = admitted
  <2>1. admitted' = admitted - One(t \in Posting)
    BY <1>0, <1>1, <1>2 DEF One
  <2>2. QED
    BY <1>0, <1>2, <2>1, AnswerBusyStep
<1>3. CASE /\ admitted < kMaxCommands /\ admitted' = admitted + 1
           /\ mqtt' = [mqtt EXCEPT ![t].at = "post"]
  <2> DEFINE v == [mqtt[t] EXCEPT !.at = "post"]
  <2>1. v \in Handling /\ v.at = "post" /\ mqtt' = [mqtt EXCEPT ![t] = v]
    BY <1>3, HandlingType DEF MqttAdmit
  <2> HIDE DEF v
  <2>2. admitted' = admitted + One(v.at \in {"post", "release"}) - One(t \in Posting)
    BY <1>0, <1>1, <1>3, <2>1 DEF One
  <2>3. admitted' <= kMaxCommands
    BY <1>1, <1>3, ConstantTypes
  <2>4. QED
    BY <1>0, <1>1, <2>1, <2>2, <2>3, MqttMoves
<1>4. QED
  BY <1>2, <1>3 DEF MqttAdmit

LEMMA ReleaseCommandStep ==
  ASSUME CoreIInv, NEW t \in MqttThread, releaseCommand(t),
         UNCHANGED <<idVars, httpVars, mainVars, cmd_queue, worker>>
  PROVE  CoreIInv'
<1>1. t \in Posting /\ core' = core /\ arrived' = arrived /\ admitted' = admitted - 1
  BY DEF releaseCommand, Posting
<1>2. admitted' = admitted - One(t \in Posting)
  BY <1>1 DEF One
<1>3. QED
  BY <1>1, <1>2, AnswerBusyStep DEF releaseCommand

(* The credit goes with the message. *)
LEMMA MqttPostStep ==
  ASSUME CoreIInv, NEW t \in MqttThread, MqttPost(t),
         UNCHANGED <<idVars, httpVars, mainVars, cmd_queue, worker>>
  PROVE  CoreIInv'
<1> DEFINE m == mqtt[t].msg
<1>0. t \in Posting /\ m \in Msg /\ mqtt[t] \in Handling
  BY HandlingType DEF MqttPost, Posting
<1>1. /\ core' = post(core, Mqtt(m), CoreCapacity) /\ UNCHANGED <<arrived, admitted>>
      /\ mqtt' = [mqtt EXCEPT ![t] = IF Accepts(core, CoreCapacity) THEN Away
                                     ELSE [mqtt[t] EXCEPT !.at = "release"]]
  BY DEF MqttPost, Mqtt, CoreIInv, TypeInv
<1>2. TypeInv /\ Ordinary /\ admitted \in Nat /\ admitted <= kMaxCommands /\ arrived \subseteq Msg
  BY DEF CoreIInv, TypeInv, Counted, Credits
<1> HIDE DEF m
<1>3. CASE ~Accepts(core, CoreCapacity)
  <2> DEFINE v == [mqtt[t] EXCEPT !.at = "release"]
  <2>1. v \in Handling /\ v.at = "release" /\ mqtt' = [mqtt EXCEPT ![t] = v]
    BY <1>1, <1>3, HandlingType DEF MqttPost
  <2>2. core' = core
    BY <1>1, <1>3 DEF post
  <2> HIDE DEF v
  <2>3. admitted' = admitted + One(v.at \in {"post", "release"}) - One(t \in Posting)
    BY <1>0, <1>1, <1>2, <2>1 DEF One
  <2>4. QED
    BY <1>1, <1>2, <2>1, <2>2, <2>3, MqttMoves
<1>4. CASE Accepts(core, CoreCapacity)
  <2>1. Mqtt(m) \in CTask
    BY <1>0, MqttKind
  <2>2. /\ core' \in ExecutorOf(CTask) /\ core'.closed = core.closed
        /\ More(core, core', Mqtt(m))
    BY <1>1, <1>2, <1>4, <2>1, CorePosted
  <2>3. core \in ExecutorOf(CTask) /\ ~core.closed
    BY <1>2, <1>4 DEF TypeInv, Accepts
  <2>4. /\ Holds(core', MqttTask) = Holds(core, MqttTask) + 1
        /\ Holds(core', FinTask) = Holds(core, FinTask)
        /\ Holds(core', RowsTask) = Holds(core, RowsTask)
        /\ Holds(core', {Barrier}) = Holds(core, {Barrier})
        /\ \A x : Holds(core', {Fin(x)}) = Holds(core, {Fin(x)})
        /\ \A x : Holds(core', {Http(x)}) = Holds(core, {Http(x)})
        /\ \A x : Holds(core', {Rows(x)}) = Holds(core, {Rows(x)})
    BY <1>0, <2>2, <2>3, MoreMqtt
  <2>5. Number(core'.tasks, OrdTask) <= CoreCapacity
    BY <1>1, <1>2, <2>1, CorePostedOrdinary
  <2>6. mqtt' = [mqtt EXCEPT ![t] = Away] /\ mqtt' \in [MqttThread -> {Away} \union Handling]
    BY <1>1, <1>2, <1>4 DEF TypeInv
  <2>7. Cardinality(Posting') = Cardinality(Posting) - 1
    <3>1. Posting' = Posting \ {t}
      BY <2>6, PostingStep DEF Away
    <3>2. QED
      BY <1>0, <3>1, CountTypes, FS_RemoveElement
  <2>8. /\ admitted = Cardinality(Posting) + Holds(core, MqttTask) + Cardinality(pending)
                      + Holds(worker, AnswerTask)
        /\ Cardinality(Posting) \in Nat /\ Holds(core, MqttTask) \in Nat
        /\ Holds(worker, AnswerTask) \in Nat /\ Cardinality(pending) \in Nat
    BY CountTypes DEF CoreIInv, Counted, Credits
  <2>9. admitted = Cardinality(Posting') + Holds(core', MqttTask) + Cardinality(pending)
                      + Holds(worker, AnswerTask)
    BY <2>4, <2>7, <2>8
  <2>10. Credits'
    BY <1>1, <1>2, <2>9 DEF Credits, idVars
  <2>11. QED
    BY <1>1, <1>2, <2>2, <2>3, <2>4, <2>5, <2>6, <2>10, MqttFrame
<1>5. QED
  BY <1>3, <1>4

LEMMA MqttStep ==
  ASSUME CoreIInv, NEW t \in MqttThread, MqttNext(t) \/ \E m \in Msg : MqttArrives(t, m)
  PROVE  CoreIInv'
<1>1. CASE MqttNext(t)
  BY <1>1, MqttCheckStep, MqttAdmitStep, MqttPostStep, ReleaseCommandStep DEF MqttNext
<1>2. QED
  BY <1>1, MqttArrivesStep

(***************************************************************************)
(* The handlers of GatewayCore.                                            *)
(***************************************************************************)
LEMMA WorkerPosted ==
  ASSUME CoreIInv, NEW x \in WorkerTask, NEW limit, worker' = post(worker, x, limit),
         limit = WorkerCapacity \/ x # OneReading
  PROVE  /\ worker' \in ExecutorOf(WorkerTask) /\ worker'.closed = worker.closed
         /\ Number(worker'.tasks, {OneReading}) <= WorkerCapacity
         /\ Holds(worker', AnswerTask)
              = Holds(worker, AnswerTask) + One(Accepts(worker, limit) /\ x \in AnswerTask)
<1>1. worker \in ExecutorOf(WorkerTask) /\ WorkerCapacity \in Nat
  BY ConstantTypes DEF CoreIInv, TypeInv
<1>2. worker' \in ExecutorOf(WorkerTask) /\ worker'.closed = worker.closed
  BY <1>1, PostFields
<1>3. /\ Number(worker'.tasks, {OneReading})
           = Number(worker.tasks, {OneReading}) + One(Accepts(worker, limit) /\ x \in {OneReading})
      /\ Holds(worker', AnswerTask)
           = Holds(worker, AnswerTask) + One(Accepts(worker, limit) /\ x \in AnswerTask)
  BY <1>1, PostCounts
<1>4. /\ Number(worker.tasks, {OneReading}) \in Nat /\ Len(worker.tasks) \in Nat
      /\ Number(worker.tasks, {OneReading}) <= Len(worker.tasks)
  BY <1>1, ExecutorFields, NumberType
<1>5. Number(worker.tasks, {OneReading}) <= WorkerCapacity
  BY DEF CoreIInv, Counted, Ordinary
<1>6. Number(worker'.tasks, {OneReading}) <= WorkerCapacity
  <2>1. CASE Accepts(worker, limit) /\ x = OneReading
    BY <1>1, <1>3, <1>4, <2>1 DEF Accepts, One
  <2>2. CASE ~(Accepts(worker, limit) /\ x = OneReading)
    <3>1. One(Accepts(worker, limit) /\ x \in {OneReading}) = 0
      BY <2>2 DEF One
    <3>2. QED
      BY <1>3, <1>4, <1>5, <3>1
  <2>3. QED
    BY <2>1, <2>2
<1>7. QED
  BY <1>2, <1>3, <1>6

(* The credit goes with the answer, or is given back. *)
LEMMA AnswerPublished ==
  ASSUME CoreIInv, NEW m \in Msg, publishCommand(m)
  PROVE  /\ worker' \in ExecutorOf(WorkerTask) /\ worker'.closed = worker.closed
         /\ Number(worker'.tasks, {OneReading}) <= WorkerCapacity
         /\ admitted' <= admitted /\ admitted' \in Int /\ Holds(worker', AnswerTask) \in Nat
         /\ admitted' + Holds(worker, AnswerTask) + 1 = admitted + Holds(worker', AnswerTask)
<1>1. Answer(m) \in WorkerTask /\ Answer(m) \in AnswerTask /\ Answer(m) # OneReading
  BY DEF Answer, WorkerTask, AnswerTask, OneReading
<1>2. /\ worker' = post(worker, Answer(m), WorkerLimit)
      /\ admitted' = IF Accepts(worker, WorkerLimit) THEN admitted ELSE admitted - 1
  BY DEF publishCommand, Answer
<1>3. /\ worker' \in ExecutorOf(WorkerTask) /\ worker'.closed = worker.closed
      /\ Number(worker'.tasks, {OneReading}) <= WorkerCapacity
      /\ Holds(worker', AnswerTask) = Holds(worker, AnswerTask)
           + One(Accepts(worker, WorkerLimit) /\ Answer(m) \in AnswerTask)
  BY <1>1, <1>2, WorkerPosted
<1>4. admitted \in Nat /\ Holds(worker, AnswerTask) \in Nat
  BY CountTypes DEF CoreIInv, TypeInv
<1>5. Holds(worker', AnswerTask) = Holds(worker, AnswerTask) + One(Accepts(worker, WorkerLimit))
  BY <1>1, <1>3 DEF One
<1>6. /\ admitted' <= admitted /\ admitted' \in Int /\ Holds(worker', AnswerTask) \in Nat
      /\ admitted' + Holds(worker, AnswerTask) + 1 = admitted + Holds(worker', AnswerTask)
  BY <1>2, <1>4, <1>5 DEF One
<1>7. QED
  BY <1>3, <1>6

(* What the handlers leave alone; each ends its task. *)
handlerFrame == <<mqttVars, httpUp, asked, accepting, stopping, inflight, frames>>

(* The task that runs. *)
LEMMA BusyKind ==
  ASSUME CoreIInv
  PROVE  LET x == core.busy IN
         /\ x.kind = "mqtt" => x.msg \in Msg /\ x = Mqtt(x.msg)
         /\ x.kind = "finished" => x.id \in Nat /\ x = Fin(x.id)
         /\ x.kind = "http" => x.req \in Request /\ x = Http(x.req)
         /\ x.kind = "rows" => x.req \in Request /\ x = Rows(x.req)
         /\ x.kind = "barrier" => x = Barrier
         /\ x.kind = "telemetry" => x.readings \in 0..MaxReadings /\ x = Tel(x.readings)
<1>1. core.busy \in CTask \union {Idle}
  BY ExecutorFields DEF CoreIInv, TypeInv
<1>2. QED
  BY <1>1 DEF CTask, OrdTask, MqttTask, TelTask, HttpTask, FinTask, RowsTask, Barrier, Idle,
              Mqtt, Fin, Http, Rows, Tel

(* A task runs only before core is drained. *)
LEMMA DoneOrder ==
  ASSUME CoreIInv, core.busy # Idle, core' = done(core)
  PROVE  /\ core' \in ExecutorOf(CTask) /\ core'.closed = core.closed
         /\ More(core', core, core.busy)
         /\ Number(core'.tasks, OrdTask) <= CoreCapacity
         /\ main \notin {"mqtt", "done"}
<1>1. TypeInv /\ Ordinary
  BY DEF CoreIInv, Counted
<1>2. /\ core' \in ExecutorOf(CTask) /\ core'.closed = core.closed
      /\ More(core', core, core.busy) /\ core'.tasks = core.tasks
  BY <1>1, CoreDone
<1>3. main \notin {"mqtt", "done"}
  BY DEF CoreIInv, StopOrder, Drained
<1>4. QED
  BY <1>1, <1>2, <1>3 DEF Ordinary

(* An answer is published without a pending command. *)
LEMMA MqttRejected ==
  ASSUME CoreIInv, NEW m \in Msg, core.busy = Mqtt(m), core' = done(core),
         publishCommand(m), UNCHANGED <<pending, cmd_queue, queries, query, replied, main>>,
         owner' = owner \/ owner' = Append(owner, m), UNCHANGED handlerFrame
  PROVE  CoreIInv'
<1> USE DEF handlerFrame, mqttVars
<1>0. core.busy # Idle
  BY DEF Mqtt, Idle
<1>1. /\ core' \in ExecutorOf(CTask) /\ core'.closed = core.closed
      /\ More(core', core, Mqtt(m)) /\ Number(core'.tasks, OrdTask) <= CoreCapacity
      /\ main \notin {"mqtt", "done"}
  BY <1>0, DoneOrder
<1>2. /\ Holds(core, MqttTask) = Holds(core', MqttTask) + 1
      /\ Holds(core, FinTask) = Holds(core', FinTask)
      /\ Holds(core, RowsTask) = Holds(core', RowsTask)
      /\ Holds(core, {Barrier}) = Holds(core', {Barrier})
      /\ \A x : Holds(core, {Fin(x)}) = Holds(core', {Fin(x)})
      /\ \A x : Holds(core, {Http(x)}) = Holds(core', {Http(x)})
      /\ \A x : Holds(core, {Rows(x)}) = Holds(core', {Rows(x)})
  BY <1>1, MoreMqtt
<1>3. /\ worker' \in ExecutorOf(WorkerTask) /\ worker'.closed = worker.closed
      /\ Number(worker'.tasks, {OneReading}) <= WorkerCapacity
      /\ admitted' <= admitted /\ admitted' \in Int /\ Holds(worker', AnswerTask) \in Nat
      /\ admitted' + Holds(worker, AnswerTask) + 1 = admitted + Holds(worker', AnswerTask)
  BY AnswerPublished
<1>4. Credits' /\ admitted' \in Nat
  <2> DEFINE a == admitted'
             P == Cardinality(Posting)
             D == Cardinality(pending)
             M == Holds(core, MqttTask)
             N == Holds(core', MqttTask)
             W == Holds(worker, AnswerTask)
             V == Holds(worker', AnswerTask)
  <2>1. /\ admitted = P + M + D + W /\ admitted <= kMaxCommands /\ admitted \in Nat
        /\ P \in Nat /\ D \in Nat /\ W \in Nat /\ N \in Nat /\ V \in Nat
    BY <1>1, <1>3, CountTypes, HoldsType DEF CoreIInv, TypeInv, Counted, Credits
  <2>2. M = N + 1 /\ a + W + 1 = admitted + V /\ a <= admitted /\ a \in Int
    BY <1>2, <1>3
  <2> HIDE DEF a, P, D, M, N, W, V
  <2>3. a = P + N + D + V /\ a <= kMaxCommands /\ a \in Nat
    BY <2>1, <2>2, ConstantTypes
  <2>4. Posting' = Posting
    BY DEF Posting
  <2>5. QED
    BY <2>3, <2>4 DEF Credits, a, P, D, N, V
<1>5. TypeInv'
  <2>1. owner' \in Seq(Msg) /\ pending' \subseteq 1..Len(owner')
    <3>1. owner \in Seq(Msg) /\ Len(owner) \in Nat /\ pending' \subseteq 1..Len(owner)
      BY DEF CoreIInv, TypeInv
    <3>2. owner' \in Seq(Msg) /\ (Len(owner') = Len(owner) \/ Len(owner') = Len(owner) + 1)
      BY <3>1, AppendProperties
    <3>3. QED
      BY <3>1, <3>2
  <2>2. QED
    BY <1>1, <1>3, <1>4, <2>1 DEF CoreIInv, TypeInv
<1>6. StopOrder'
  BY <1>1, <1>3 DEF CoreIInv, StopOrder
<1>7. Ends' /\ EndsSum'
  BY <1>2 DEF CoreIInv, Counted, Ends, EndsSum
<1>8. Queries' /\ Replies'
  BY <1>2 DEF CoreIInv, Counted, Queries, Replies
<1>9. OneBarrier' /\ Ordinary'
  BY <1>1, <1>2, <1>3 DEF CoreIInv, Counted, OneBarrier, Ordinary
<1>10. QED
  BY <1>4, <1>5, <1>6, <1>7, <1>8, <1>9 DEF CoreIInv, Counted

(* A command gets an id that no place knows, and goes to the Reactor. *)
LEMMA MqttSubmitted ==
  ASSUME CoreIInv, NEW m \in Msg, core.busy = Mqtt(m), core' = done(core),
         Submits, owner' = Append(owner, m), pending' = pending \union {Len(owner')},
         cmd_queue' = [cmd_queue EXCEPT !.items = Append(@, Len(owner'))],
         UNCHANGED <<worker, admitted, queries, query, replied, main>>,
         UNCHANGED handlerFrame
  PROVE  CoreIInv'
<1> USE DEF handlerFrame, mqttVars
<1> DEFINE n == Len(owner) + 1
           items == cmd_queue.items
<1>0. core.busy # Idle
  BY DEF Mqtt, Idle
<1>1. /\ core' \in ExecutorOf(CTask) /\ core'.closed = core.closed
      /\ More(core', core, Mqtt(m)) /\ Number(core'.tasks, OrdTask) <= CoreCapacity
  BY <1>0, DoneOrder
<1>2. /\ Holds(core, MqttTask) = Holds(core', MqttTask) + 1
      /\ Holds(core, FinTask) = Holds(core', FinTask)
      /\ Holds(core, RowsTask) = Holds(core', RowsTask)
      /\ Holds(core, {Barrier}) = Holds(core', {Barrier})
      /\ \A x : Holds(core, {Fin(x)}) = Holds(core', {Fin(x)})
      /\ \A x : Holds(core, {Http(x)}) = Holds(core', {Http(x)})
      /\ \A x : Holds(core, {Rows(x)}) = Holds(core', {Rows(x)})
  BY <1>1, MoreMqtt
<1>3. /\ owner' \in Seq(Msg) /\ Len(owner') = n /\ n \in Nat /\ Len(owner) \in Nat
      /\ pending \subseteq 1..Len(owner) /\ n \notin pending
  <2>1. owner \in Seq(Msg) /\ pending \subseteq 1..Len(owner)
    BY DEF CoreIInv, TypeInv
  <2>2. owner' \in Seq(Msg) /\ Len(owner') = n
    BY <2>1, AppendProperties
  <2>3. QED
    BY <2>1, <2>2
<1>4. items \in Seq(Nat) /\ cmd_queue'.items = Append(items, n)
      /\ cmd_queue' \in [items : Seq(Nat), shutdown : BOOLEAN]
      /\ cmd_queue'.shutdown = cmd_queue.shutdown
  <2>1. cmd_queue \in [items : Seq(Nat), shutdown : BOOLEAN]
    BY DEF CoreIInv, TypeInv
  <2>2. Append(items, n) \in Seq(Nat)
    BY <1>3, <2>1, AppendProperties
  <2>3. QED
    BY <1>3, <2>1, <2>2
<1>5. Len(Append(items, n)) = Len(items) + 1 /\ Len(items) \in Nat
  BY <1>3, <1>4, AppendProperties
<1>6. \A id : Number(Append(items, n), {id}) = Number(items, {id}) + One(n \in {id})
  BY <1>3, <1>4, NumberAppend
<1>7. Cardinality(pending') = Cardinality(pending) + 1
  BY <1>3, CountTypes, FS_AddElement
<1> HIDE DEF n
<1>8. TypeInv'
  <2>1. pending' \subseteq 1..Len(owner')
    BY <1>3 DEF n
  <2>2. QED
    BY <1>1, <1>3, <1>4, <2>1 DEF CoreIInv, TypeInv
<1>9. StopOrder'
  <2>1. ~stopping
    BY DEF Submits
  <2>2. main = "loop"
    BY <2>1 DEF CoreIInv, StopOrder
  <2>3. QED
    BY <1>1, <2>2 DEF CoreIInv, StopOrder
<1>10. Credits'
  <2> DEFINE P == Cardinality(Posting)
             D == Cardinality(pending)
             E == Cardinality(pending')
             M == Holds(core, MqttTask)
             N == Holds(core', MqttTask)
             W == Holds(worker, AnswerTask)
  <2>1. /\ admitted = P + M + D + W
        /\ P \in Nat /\ D \in Nat /\ W \in Nat /\ N \in Nat
    BY <1>1, CountTypes, HoldsType DEF CoreIInv, Counted, Credits
  <2>2. M = N + 1 /\ E = D + 1
    BY <1>2, <1>7
  <2> HIDE DEF P, D, E, M, N, W
  <2>3. admitted = P + N + E + W
    BY <2>1, <2>2
  <2>4. Posting' = Posting
    BY DEF Posting
  <2>5. admitted' <= kMaxCommands
    BY DEF CoreIInv, Counted, Credits
  <2>6. QED
    BY <2>3, <2>4, <2>5 DEF Credits, P, E, N, W
<1>11. Ends'
  <2> SUFFICES ASSUME NEW id \in Nat
               PROVE  Number(cmd_queue'.items, {id}) + One(id \in inflight')
                        + Holds(core', {Fin(id)}) = One(id \in pending')
    BY DEF Ends
  <2>1. /\ Number(items, {id}) + One(id \in inflight) + Holds(core, {Fin(id)})
             = One(id \in pending)
        /\ Number(items, {id}) \in Nat /\ Holds(core, {Fin(id)}) \in Nat
    BY CountTypes DEF CoreIInv, Counted, Ends
  <2>2. /\ Number(cmd_queue'.items, {id}) = Number(items, {id}) + One(n = id)
        /\ Holds(core', {Fin(id)}) = Holds(core, {Fin(id)}) /\ inflight' = inflight
    BY <1>2, <1>4, <1>6 DEF One
  <2>3. id \in pending' <=> id \in pending \/ id = n
    BY <1>3
  <2>4. One(id \in pending') = One(id \in pending) + One(n = id)
    BY <1>3, <2>3 DEF One
  <2> HIDE DEF items
  <2>5. One(id \in inflight) \in Nat /\ One(n = id) \in Nat
    BY DEF One
  <2>6. QED
    BY <2>1, <2>2, <2>4, <2>5
<1>12. EndsSum'
  <2> DEFINE I == Len(items)
             J == Cardinality(inflight)
             F == Holds(core, FinTask)
             D == Cardinality(pending)
  <2>1. I + J + F = D /\ I \in Nat /\ J \in Nat /\ F \in Nat /\ D \in Nat
    BY CountTypes DEF CoreIInv, Counted, EndsSum
  <2>2. Len(cmd_queue'.items) = I + 1 /\ Holds(core', FinTask) = F
        /\ Cardinality(pending') = D + 1 /\ inflight' = inflight
    BY <1>2, <1>4, <1>5, <1>7
  <2>3. Cardinality(inflight') = J
    BY <2>2
  <2> HIDE DEF I, J, F, D
  <2>4. Len(cmd_queue'.items) + Cardinality(inflight') + Holds(core', FinTask)
          = Cardinality(pending')
    BY <2>1, <2>2, <2>3
  <2>5. QED
    BY <2>2, <2>4 DEF EndsSum, CoreIInv, Counted
<1>13. Queries' /\ Replies'
  BY <1>2 DEF CoreIInv, Counted, Queries, Replies
<1>14. OneBarrier' /\ Ordinary'
  BY <1>1, <1>2 DEF CoreIInv, Counted, OneBarrier, Ordinary
<1>15. QED
  BY <1>8, <1>9, <1>10, <1>11, <1>12, <1>13, <1>14 DEF CoreIInv, Counted

(* The command that ends was pending, and is nowhere else. *)
LEMMA FinishedStep ==
  ASSUME CoreIInv, NEW i \in Nat, core.busy = Fin(i), core' = done(core),
         handleFinished(i), UNCHANGED handlerFrame
  PROVE  CoreIInv'
<1> USE DEF handlerFrame, mqttVars
<1>0. core.busy # Idle
  BY DEF Fin, Idle
<1>1. /\ core' \in ExecutorOf(CTask) /\ core'.closed = core.closed
      /\ More(core', core, Fin(i)) /\ Number(core'.tasks, OrdTask) <= CoreCapacity
      /\ main \notin {"mqtt", "done"}
  BY <1>0, DoneOrder
<1>2. /\ Holds(core, MqttTask) = Holds(core', MqttTask)
      /\ Holds(core, FinTask) = Holds(core', FinTask) + 1
      /\ Holds(core, RowsTask) = Holds(core', RowsTask)
      /\ Holds(core, {Barrier}) = Holds(core', {Barrier})
      /\ \A x : Holds(core, {Fin(x)}) = Holds(core', {Fin(x)}) + One(x = i)
      /\ \A x : Holds(core, {Http(x)}) = Holds(core', {Http(x)})
      /\ \A x : Holds(core, {Rows(x)}) = Holds(core', {Rows(x)})
  BY <1>1, MoreFin
<1>3. i \in pending
  <2>1. Holds(core, {Fin(i)}) > 0
    BY HoldsBusy DEF CoreIInv, TypeInv
  <2>2. QED
    BY <2>1, EndsArePending
<1>4. owner[i] \in Msg
  BY <1>3 DEF CoreIInv, TypeInv
<1>5. pending' = pending \ {i} /\ publishCommand(owner[i])
      /\ UNCHANGED <<owner, cmd_queue, queries, query, replied, main>>
  BY <1>3 DEF handleFinished
<1>6. /\ worker' \in ExecutorOf(WorkerTask) /\ worker'.closed = worker.closed
      /\ Number(worker'.tasks, {OneReading}) <= WorkerCapacity
      /\ admitted' <= admitted /\ admitted' \in Int /\ Holds(worker', AnswerTask) \in Nat
      /\ admitted' + Holds(worker, AnswerTask) + 1 = admitted + Holds(worker', AnswerTask)
  BY <1>4, <1>5, AnswerPublished
<1>7. Cardinality(pending') = Cardinality(pending) - 1 /\ Cardinality(pending') \in Nat
  <2>1. IsFiniteSet(pending') /\ Cardinality(pending') = Cardinality(pending) - 1
    BY <1>3, <1>5, CountTypes, FS_RemoveElement
  <2>2. QED
    BY <2>1, FS_CardinalityType
<1>8. Credits' /\ admitted' \in Nat
  <2> DEFINE a == admitted'
             P == Cardinality(Posting)
             D == Cardinality(pending)
             E == Cardinality(pending')
             M == Holds(core, MqttTask)
             W == Holds(worker, AnswerTask)
             V == Holds(worker', AnswerTask)
  <2>1. /\ admitted = P + M + D + W /\ admitted <= kMaxCommands /\ admitted \in Nat
        /\ P \in Nat /\ D \in Nat /\ W \in Nat /\ M \in Nat /\ V \in Nat /\ E \in Nat
    BY <1>6, <1>7, CountTypes DEF CoreIInv, TypeInv, Counted, Credits
  <2>2. E = D - 1 /\ a + W + 1 = admitted + V /\ a <= admitted /\ a \in Int
    BY <1>6, <1>7
  <2> HIDE DEF a, P, D, E, M, W, V
  <2>3. a = P + M + E + V /\ a <= kMaxCommands /\ a \in Nat
    BY <2>1, <2>2, ConstantTypes
  <2>4. Posting' = Posting /\ Holds(core', MqttTask) = M
    BY <1>2 DEF Posting, M
  <2>5. QED
    BY <2>3, <2>4 DEF Credits, a, P, E, V
<1>9. TypeInv'
  BY <1>1, <1>5, <1>6, <1>8 DEF CoreIInv, TypeInv
<1>10. StopOrder'
  BY <1>1, <1>5, <1>6 DEF CoreIInv, StopOrder
<1>11. Ends'
  <2> SUFFICES ASSUME NEW id \in Nat
               PROVE  Number(cmd_queue'.items, {id}) + One(id \in inflight')
                        + Holds(core', {Fin(id)}) = One(id \in pending')
    BY DEF Ends
  <2> DEFINE A == Number(cmd_queue.items, {id})
             B == One(id \in inflight)
             C == Holds(core, {Fin(id)})
             E == Holds(core', {Fin(id)})
             D == One(id \in pending')
  <2>1. A + B + C = One(id \in pending) /\ A \in Nat /\ C \in Nat /\ E \in Nat /\ B \in Nat
    BY <1>1, CountTypes, HoldsType DEF CoreIInv, Counted, Ends, One
  <2>2. C = E + One(id = i)
    BY <1>2
  <2>3. One(id \in pending) = D + One(id = i)
    BY <1>3, <1>5 DEF One
  <2>4. Number(cmd_queue'.items, {id}) = A /\ One(id \in inflight') = B
    BY <1>5
  <2>5. D \in Nat /\ One(id = i) \in Nat
    BY DEF One
  <2> HIDE DEF A, B, C, D, E
  <2>6. A + B + E = D
    BY <2>1, <2>2, <2>3, <2>5
  <2>7. QED
    BY <2>4, <2>6 DEF D, E
<1>12. EndsSum'
  <2> DEFINE I == Len(cmd_queue.items)
             J == Cardinality(inflight)
             F == Holds(core, FinTask)
             G == Holds(core', FinTask)
             D == Cardinality(pending)
             E == Cardinality(pending')
  <2>1. I + J + F = D /\ I \in Nat /\ J \in Nat /\ F \in Nat /\ D \in Nat /\ G \in Nat
    BY <1>1, CountTypes, HoldsType DEF CoreIInv, Counted, EndsSum
  <2>2. F = G + 1 /\ E = D - 1
    BY <1>2, <1>7
  <2> HIDE DEF I, J, F, G, D, E
  <2>3. I + J + G = E
    BY <2>1, <2>2
  <2>4. QED
    BY <1>5, <2>3 DEF EndsSum, CoreIInv, Counted, I, J, G, E
<1>13. Queries' /\ Replies'
  BY <1>2, <1>5 DEF CoreIInv, Counted, Queries, Replies
<1>14. OneBarrier' /\ Ordinary'
  BY <1>1, <1>2, <1>5, <1>6 DEF CoreIInv, Counted, OneBarrier, Ordinary
<1>15. QED
  BY <1>8, <1>9, <1>10, <1>11, <1>12, <1>13, <1>14 DEF CoreIInv, Counted

(* What a step of HTTP, of a query or of the barrier must show. *)
LEMMA HandlerFrame ==
  ASSUME CoreIInv, UNCHANGED <<idVars, cmd_queue, admitted>>, UNCHANGED handlerFrame,
         core' \in ExecutorOf(CTask), core'.closed = core.closed,
         Holds(core', MqttTask) = Holds(core, MqttTask),
         Holds(core', FinTask) = Holds(core, FinTask),
         \A x : Holds(core', {Fin(x)}) = Holds(core, {Fin(x)}),
         Number(core'.tasks, OrdTask) <= CoreCapacity,
         worker' \in ExecutorOf(WorkerTask), worker'.closed = worker.closed,
         Holds(worker', AnswerTask) = Holds(worker, AnswerTask),
         Number(worker'.tasks, {OneReading}) <= WorkerCapacity,
         queries' \in Nat, replied' \in [Request -> Nat],
         query' \in ExecutorOf(QueryTask), query'.closed = query.closed,
         query.closed => query' = query,
         main \notin {"mqtt", "done"}, main' = main \/ (main = "wait" /\ main' = "queries"),
         Queries', Replies', OneBarrier'
  PROVE  CoreIInv'
<1> USE DEF handlerFrame, idVars, mqttVars
<1>1. TypeInv'
  <2>1. main' \in Places
    BY DEF CoreIInv, TypeInv, Places
  <2>2. QED
    BY <2>1 DEF CoreIInv, TypeInv
<1>2. StopOrder'
  BY DEF CoreIInv, StopOrder
<1>3. Credits' /\ Ends' /\ EndsSum' /\ Ordinary'
  <2>1. Posting' = Posting
    BY DEF Posting
  <2>2. Credits'
    BY <2>1 DEF CoreIInv, Counted, Credits
  <2>3. Ends' /\ EndsSum' /\ Ordinary'
    BY DEF CoreIInv, Counted, Ends, EndsSum, Ordinary
  <2>4. QED
    BY <2>2, <2>3
<1>4. QED
  BY <1>1, <1>2, <1>3 DEF CoreIInv, Counted

LEMMA ReplyFields ==
  ASSUME CoreIInv, NEW r \in Request, reply(r)
  PROVE  /\ replied' \in [Request -> Nat]
         /\ \A x \in Request : replied'[x] = replied[x] + One(x = r)
<1>1. replied \in [Request -> Nat]
  BY DEF CoreIInv, TypeInv
<1>2. QED
  BY <1>1 DEF reply, One

LEMMA WorkerFields ==
  ASSUME CoreIInv
  PROVE  /\ worker \in ExecutorOf(WorkerTask) /\ query \in ExecutorOf(QueryTask)
         /\ Number(worker.tasks, {OneReading}) <= WorkerCapacity
         /\ queries \in Nat /\ replied \in [Request -> Nat]
BY DEF CoreIInv, TypeInv, Counted, Ordinary

(* The request was replied to, or is at the database. *)
LEMMA HttpStep ==
  ASSUME CoreIInv, NEW q \in Request, core.busy = Http(q), core' = done(core),
         handleHttp(q), UNCHANGED handlerFrame
  PROVE  CoreIInv'
<1>0. core.busy # Idle
  BY DEF Http, Idle
<1>1. /\ core' \in ExecutorOf(CTask) /\ core'.closed = core.closed
      /\ More(core', core, Http(q)) /\ Number(core'.tasks, OrdTask) <= CoreCapacity
      /\ main \notin {"mqtt", "done"}
  BY <1>0, DoneOrder
<1>2. /\ Holds(core', MqttTask) = Holds(core, MqttTask)
      /\ Holds(core', FinTask) = Holds(core, FinTask)
      /\ Holds(core', RowsTask) = Holds(core, RowsTask)
      /\ Holds(core', {Barrier}) = Holds(core, {Barrier})
      /\ \A x : Holds(core', {Fin(x)}) = Holds(core, {Fin(x)})
      /\ \A x : Holds(core, {Http(x)}) = Holds(core', {Http(x)}) + One(x = q)
      /\ \A x : Holds(core', {Rows(x)}) = Holds(core, {Rows(x)})
  BY <1>1, MoreHttp
<1>3. /\ UNCHANGED <<idVars, cmd_queue, admitted, worker, main>> /\ asked' = asked
  BY DEF handleHttp, handlerFrame
<1>4. OneBarrier'
  BY <1>2, <1>3 DEF CoreIInv, Counted, OneBarrier
<1>5. CASE reply(q) /\ UNCHANGED <<queries, query>>
  <2>1. replied' \in [Request -> Nat] /\ \A x \in Request : replied'[x] = replied[x] + One(x = q)
    BY <1>5, ReplyFields
  <2>2. Queries'
    BY <1>2, <1>5 DEF CoreIInv, Counted, Queries
  <2>3. Replies'
    <3> SUFFICES ASSUME NEW r \in Request
                 PROVE  replied'[r] + Holds(core', {Http(r)}) + Holds(query', {QueryOf(r)})
                          + Holds(core', {Rows(r)}) = One(r \in asked')
      BY DEF Replies
    <3> DEFINE A == replied[r]
               B == replied'[r]
               H == Holds(core, {Http(r)})
               K == Holds(core', {Http(r)})
               Q == Holds(query, {QueryOf(r)})
               R == Holds(core, {Rows(r)})
    <3>1. /\ A + H + Q + R = One(r \in asked) /\ A \in Nat /\ H \in Nat /\ K \in Nat
          /\ Q \in Nat /\ R \in Nat /\ One(r = q) \in Nat
      BY <1>1, CountTypes, HoldsType DEF CoreIInv, TypeInv, Counted, Replies, One
    <3>2. B = A + One(r = q) /\ H = K + One(r = q)
      BY <1>2, <2>1
    <3> HIDE DEF A, B, H, K, Q, R
    <3>3. B + K + Q + R = One(r \in asked)
      BY <3>1, <3>2
    <3>4. QED
      BY <1>2, <1>3, <1>5, <3>3 DEF B, K, Q, R
  <2>4. QED
    BY <1>1, <1>2, <1>3, <1>4, <1>5, <2>1, <2>2, <2>3, WorkerFields, HandlerFrame
<1>6. CASE /\ queries < kMaxQueries /\ query' = post(query, QueryOf(q), kMaxQueries)
           /\ Accepts(query, kMaxQueries) /\ queries' = queries + 1 /\ UNCHANGED replied
  <2>1. QueryOf(q) \in QueryTask /\ \A x : QueryOf(q) = QueryOf(x) <=> x = q
    BY DEF QueryOf, QueryTask
  <2>2. /\ query' \in ExecutorOf(QueryTask) /\ query'.closed = query.closed
        /\ query'.busy = query.busy /\ query'.tasks = Append(query.tasks, QueryOf(q))
    BY <1>6, <2>1, WorkerFields, PostFields
  <2>3. \A x : Holds(query', {QueryOf(x)}) = Holds(query, {QueryOf(x)}) + One(x = q)
    <3>1. \A S : Holds(query', S) = Holds(query, S) + One(Accepts(query, kMaxQueries) /\ QueryOf(q) \in S)
      BY <1>6, <2>1, WorkerFields, PostCounts
    <3>2. QED
      BY <1>6, <2>1, <3>1 DEF One
  <2>4. Load(query') = Load(query) + 1
    <3>1. query.tasks \in Seq(QueryTask) /\ Len(query.tasks) \in Nat
      BY WorkerFields, ExecutorFields
    <3>2. Len(query'.tasks) = Len(query.tasks) + 1
      BY <2>1, <2>2, <3>1, AppendProperties
    <3>3. One(query.busy # Idle) \in Nat /\ One(query'.busy # Idle) = One(query.busy # Idle)
      BY <2>2 DEF One
    <3>4. QED
      BY <3>1, <3>2, <3>3 DEF Load
  <2>5. Queries' /\ queries' \in Nat
    <3>1. queries = Load(query) + Holds(core, RowsTask) /\ queries \in Nat
      BY DEF CoreIInv, TypeInv, Counted, Queries
    <3>2. Load(query) \in Nat /\ Holds(core, RowsTask) \in Nat
      BY CountTypes
    <3>3. queries + 1 = (Load(query) + 1) + Holds(core, RowsTask) /\ queries + 1 <= kMaxQueries
      BY <1>6, <3>1, <3>2, ConstantTypes
    <3>4. QED
      BY <1>2, <1>6, <2>4, <3>1, <3>3 DEF Queries
  <2>6. Replies'
    <3> SUFFICES ASSUME NEW r \in Request
                 PROVE  replied'[r] + Holds(core', {Http(r)}) + Holds(query', {QueryOf(r)})
                          + Holds(core', {Rows(r)}) = One(r \in asked')
      BY DEF Replies
    <3> DEFINE A == replied[r]
               H == Holds(core, {Http(r)})
               K == Holds(core', {Http(r)})
               Q == Holds(query, {QueryOf(r)})
               U == Holds(query', {QueryOf(r)})
               R == Holds(core, {Rows(r)})
    <3>1. /\ A + H + Q + R = One(r \in asked) /\ A \in Nat /\ H \in Nat /\ K \in Nat
          /\ Q \in Nat /\ R \in Nat /\ One(r = q) \in Nat
      BY <1>1, CountTypes, HoldsType DEF CoreIInv, TypeInv, Counted, Replies, One
    <3>2. U = Q + One(r = q) /\ H = K + One(r = q)
      BY <1>2, <2>3
    <3> HIDE DEF A, H, K, Q, U, R
    <3>3. A + K + U + R = One(r \in asked)
      BY <3>1, <3>2
    <3>4. QED
      BY <1>2, <1>3, <1>6, <3>3 DEF A, K, U, R
  <2>7. ~query.closed
    BY <1>6 DEF Accepts
  <2>8. QED
    BY <1>1, <1>2, <1>3, <1>4, <1>6, <2>2, <2>5, <2>6, <2>7, WorkerFields, HandlerFrame
<1>7. QED
  <2>1. ~Accepts(query, kMaxQueries) /\ query' = post(query, QueryOf(q), kMaxQueries)
          => query' = query
    BY DEF post
  <2>2. QED
    BY <1>5, <1>6, <2>1 DEF handleHttp, QueryOf

(* The completion of a query. *)
LEMMA RowsStep ==
  ASSUME CoreIInv, NEW q \in Request, core.busy = Rows(q), core' = done(core),
         queryDone(q), UNCHANGED handlerFrame
  PROVE  CoreIInv'
<1>0. core.busy # Idle
  BY DEF Rows, Idle
<1>1. /\ core' \in ExecutorOf(CTask) /\ core'.closed = core.closed
      /\ More(core', core, Rows(q)) /\ Number(core'.tasks, OrdTask) <= CoreCapacity
      /\ main \notin {"mqtt", "done"}
  BY <1>0, DoneOrder
<1>2. /\ Holds(core', MqttTask) = Holds(core, MqttTask)
      /\ Holds(core', FinTask) = Holds(core, FinTask)
      /\ Holds(core, RowsTask) = Holds(core', RowsTask) + 1
      /\ Holds(core', {Barrier}) = Holds(core, {Barrier})
      /\ \A x : Holds(core', {Fin(x)}) = Holds(core, {Fin(x)})
      /\ \A x : Holds(core', {Http(x)}) = Holds(core, {Http(x)})
      /\ \A x : Holds(core, {Rows(x)}) = Holds(core', {Rows(x)}) + One(x = q)
  BY <1>1, MoreRows
<1>3. /\ UNCHANGED <<idVars, cmd_queue, admitted, worker, query, main>> /\ asked' = asked
      /\ queries' = queries - 1 /\ reply(q)
  BY DEF queryDone, handlerFrame
<1>4. replied' \in [Request -> Nat] /\ \A x \in Request : replied'[x] = replied[x] + One(x = q)
  BY <1>3, ReplyFields
<1>5. OneBarrier'
  BY <1>2, <1>3 DEF CoreIInv, Counted, OneBarrier
<1>6. Queries' /\ queries' \in Nat
  <2> DEFINE R == Holds(core, RowsTask)
             S == Holds(core', RowsTask)
  <2>1. queries = Load(query) + R /\ queries \in Nat /\ queries <= kMaxQueries
    BY DEF CoreIInv, TypeInv, Counted, Queries
  <2>2. Load(query) \in Nat /\ R \in Nat /\ S \in Nat /\ R = S + 1
    BY <1>1, <1>2, CountTypes, HoldsType
  <2> HIDE DEF R, S
  <2>3. queries - 1 = Load(query) + S /\ queries - 1 <= kMaxQueries /\ queries - 1 \in Nat
    BY <2>1, <2>2, ConstantTypes
  <2>4. QED
    BY <1>3, <2>3 DEF Queries, S
<1>7. Replies'
  <2> SUFFICES ASSUME NEW r \in Request
               PROVE  replied'[r] + Holds(core', {Http(r)}) + Holds(query', {QueryOf(r)})
                        + Holds(core', {Rows(r)}) = One(r \in asked')
    BY DEF Replies
  <2> DEFINE A == replied[r]
             B == replied'[r]
             H == Holds(core, {Http(r)})
             Q == Holds(query, {QueryOf(r)})
             R == Holds(core, {Rows(r)})
             S == Holds(core', {Rows(r)})
  <2>1. /\ A + H + Q + R = One(r \in asked) /\ A \in Nat /\ H \in Nat
        /\ Q \in Nat /\ R \in Nat /\ S \in Nat /\ One(r = q) \in Nat
    BY <1>1, CountTypes, HoldsType DEF CoreIInv, TypeInv, Counted, Replies, One
  <2>2. B = A + One(r = q) /\ R = S + One(r = q)
    BY <1>2, <1>4
  <2> HIDE DEF A, B, H, Q, R, S
  <2>3. B + H + Q + S = One(r \in asked)
    BY <2>1, <2>2
  <2>4. QED
    BY <1>2, <1>3, <2>3 DEF B, H, Q, S
<1>8. QED
  BY <1>1, <1>2, <1>3, <1>4, <1>5, <1>6, <1>7, WorkerFields, HandlerFrame

(* The barrier is there only while the main thread waits for it. *)
LEMMA BarrierStep ==
  ASSUME CoreIInv, core.busy = Barrier, core' = done(core),
         barrierReached, UNCHANGED handlerFrame
  PROVE  CoreIInv'
<1>0. core.busy # Idle
  BY DEF Barrier, Idle
<1>1. /\ core' \in ExecutorOf(CTask) /\ core'.closed = core.closed
      /\ More(core', core, Barrier) /\ Number(core'.tasks, OrdTask) <= CoreCapacity
      /\ main \notin {"mqtt", "done"}
  BY <1>0, DoneOrder
<1>2. /\ Holds(core', MqttTask) = Holds(core, MqttTask)
      /\ Holds(core', FinTask) = Holds(core, FinTask)
      /\ Holds(core', RowsTask) = Holds(core, RowsTask)
      /\ Holds(core, {Barrier}) = Holds(core', {Barrier}) + 1
      /\ \A x : Holds(core', {Fin(x)}) = Holds(core, {Fin(x)})
      /\ \A x : Holds(core', {Http(x)}) = Holds(core, {Http(x)})
      /\ \A x : Holds(core', {Rows(x)}) = Holds(core, {Rows(x)})
  BY <1>1, MoreBarrier
<1>3. /\ UNCHANGED <<idVars, cmd_queue, admitted, worker, queries, query, replied>>
      /\ asked' = asked /\ main' = "queries"
  BY DEF barrierReached, handlerFrame
<1>4. main = "wait" /\ OneBarrier'
  <2> DEFINE B == Holds(core, {Barrier})
             C == Holds(core', {Barrier})
  <2>1. B = One(main = "wait") /\ B = C + 1 /\ C \in Nat
    BY <1>1, <1>2, HoldsType DEF CoreIInv, Counted, OneBarrier
  <2> HIDE DEF B, C
  <2>2. main = "wait" /\ C = 0
    BY <2>1 DEF One
  <2>3. QED
    BY <1>3, <2>2 DEF OneBarrier, One, C
<1>5. Queries' /\ Replies'
  BY <1>2, <1>3 DEF CoreIInv, Counted, Queries, Replies
<1>6. QED
  BY <1>1, <1>2, <1>3, <1>4, <1>5, WorkerFields, HandlerFrame

(* A step of core that moves no task that is counted. *)
LEMMA QuietStep ==
  ASSUME CoreIInv, UNCHANGED <<idVars, cmd_queue, admitted, queries, query, replied, main>>,
         UNCHANGED handlerFrame, core' \in ExecutorOf(CTask), core'.closed = core.closed,
         SameCounts(core, core'), Number(core'.tasks, OrdTask) <= CoreCapacity,
         worker' \in ExecutorOf(WorkerTask), worker'.closed = worker.closed,
         Holds(worker', AnswerTask) = Holds(worker, AnswerTask),
         Number(worker'.tasks, {OneReading}) <= WorkerCapacity,
         main \notin {"mqtt", "done"}
  PROVE  CoreIInv'
<1>1. asked' = asked
  BY DEF handlerFrame
<1>2. Queries' /\ Replies' /\ OneBarrier'
  BY <1>1 DEF CoreIInv, Counted, Queries, Replies, OneBarrier, SameCounts
<1>3. QED
  BY <1>2, WorkerFields, HandlerFrame DEF SameCounts

LEMMA TelemetryStep ==
  ASSUME CoreIInv, NEW n \in 0..MaxReadings, core.busy = Tel(n),
         handleTelemetry(n), UNCHANGED handlerFrame
  PROVE  CoreIInv'
<1>0. core.busy # Idle /\ core \in ExecutorOf(CTask) /\ main \notin {"mqtt", "done"} /\ Ordinary
  <2>1. core.busy # Idle
    BY DEF Tel, Idle
  <2>2. main \notin {"mqtt", "done"}
    BY <2>1 DEF CoreIInv, StopOrder, Drained
  <2>3. QED
    BY <2>1, <2>2 DEF CoreIInv, TypeInv, Counted
<1>1. UNCHANGED <<idVars, cmd_queue, admitted, queries, query, replied, main>>
  BY DEF handleTelemetry
<1>2. /\ worker' \in ExecutorOf(WorkerTask) /\ worker'.closed = worker.closed
      /\ Holds(worker', AnswerTask) = Holds(worker, AnswerTask)
      /\ Number(worker'.tasks, {OneReading}) <= WorkerCapacity
  <2>1. CASE n = 0
    BY <2>1, WorkerFields DEF handleTelemetry
  <2>2. CASE n # 0
    <3>1. OneReading \in WorkerTask /\ OneReading \notin AnswerTask
      BY DEF WorkerTask, OneReading, AnswerTask
    <3>2. worker' = post(worker, OneReading, WorkerCapacity)
      BY <2>2 DEF handleTelemetry, OneReading
    <3>3. Holds(worker, AnswerTask) \in Nat
      BY CountTypes
    <3>4. /\ worker' \in ExecutorOf(WorkerTask) /\ worker'.closed = worker.closed
          /\ Number(worker'.tasks, {OneReading}) <= WorkerCapacity
          /\ Holds(worker', AnswerTask) = Holds(worker, AnswerTask)
               + One(Accepts(worker, WorkerCapacity) /\ OneReading \in AnswerTask)
      BY <3>1, <3>2, WorkerPosted
    <3>5. QED
      BY <3>1, <3>3, <3>4 DEF One
  <2>3. QED
    BY <2>1, <2>2
<1>3. CASE n = 0
  <2>1. core' = done(core)
    BY <1>3 DEF handleTelemetry
  <2>2. /\ core' \in ExecutorOf(CTask) /\ core'.closed = core.closed
        /\ More(core', core, Tel(n)) /\ Number(core'.tasks, OrdTask) <= CoreCapacity
    BY <1>0, <2>1, DoneOrder
  <2>3. SameCounts(core', core)
    BY <2>2, MoreTel
  <2>4. SameCounts(core, core')
    BY <2>3 DEF SameCounts
  <2>5. QED
    BY <1>0, <1>1, <1>2, <2>2, <2>4, QuietStep
<1>4. CASE n # 0
  <2>1. core' = [core EXCEPT !.busy.readings = @ - 1]
    BY <1>4 DEF handleTelemetry
  <2>2. n - 1 \in 0..MaxReadings
    BY <1>4, ConstantTypes
  <2>3. [core.busy EXCEPT !.readings = @ - 1] = Tel(n - 1)
    BY DEF Tel
  <2>4. core' = [core EXCEPT !.busy = Tel(n - 1)]
    BY <1>0, <2>1, <2>3 DEF ExecutorOf
  <2>5. Tel(n - 1) \in CTask
    BY <2>2, TelKind
  <2>6. /\ core' \in ExecutorOf(CTask) /\ core'.closed = core.closed
        /\ core'.tasks = core.tasks /\ core'.busy = Tel(n - 1)
    BY <1>0, <2>4, <2>5 DEF ExecutorOf
  <2>7. SameCounts(core, core')
    <3>1. \A S : Tel(n) \notin S /\ Tel(n - 1) \notin S => Holds(core', S) = Holds(core, S)
      BY <2>6 DEF Holds, One
    <3>2. /\ Tel(n) \notin MqttTask /\ Tel(n) \notin FinTask /\ Tel(n) \notin RowsTask
          /\ Tel(n) # Barrier /\ \A x : Tel(n) # Fin(x) /\ Tel(n) # Http(x) /\ Tel(n) # Rows(x)
      BY TelKind
    <3>3. /\ Tel(n - 1) \notin MqttTask /\ Tel(n - 1) \notin FinTask
          /\ Tel(n - 1) \notin RowsTask /\ Tel(n - 1) # Barrier
          /\ \A x : Tel(n - 1) # Fin(x) /\ Tel(n - 1) # Http(x) /\ Tel(n - 1) # Rows(x)
      BY <2>2, TelKind
    <3>4. QED
      BY <3>1, <3>2, <3>3 DEF SameCounts
  <2>8. Number(core'.tasks, OrdTask) <= CoreCapacity
    BY <1>0, <2>6 DEF Ordinary
  <2>9. QED
    BY <1>0, <1>1, <1>2, <2>6, <2>7, <2>8, QuietStep
<1>5. QED
  BY <1>3, <1>4

LEMMA CoreTakeStep ==
  ASSUME CoreIInv, CoreTake, UNCHANGED handlerFrame
  PROVE  CoreIInv'
<1>1. core \in ExecutorOf(CTask) /\ CanTake(core) /\ core' = take(core) /\ Ordinary
  BY DEF CoreTake, CoreIInv, TypeInv, Counted
<1>2. core' \in ExecutorOf(CTask) /\ core'.closed = core.closed
  BY <1>1, TakeFields
<1>3. \A S : Idle \notin S => /\ Holds(core', S) = Holds(core, S)
                              /\ Number(core'.tasks, S) <= Number(core.tasks, S)
  BY <1>1, TakeCounts
<1>4. SameCounts(core, core')
  BY <1>3, NotIdle DEF SameCounts
<1>5. Number(core'.tasks, OrdTask) <= CoreCapacity
  <2>1. Number(core'.tasks, OrdTask) <= Number(core.tasks, OrdTask)
    BY <1>3, NotIdle
  <2>2. Number(core'.tasks, OrdTask) \in Nat /\ Number(core.tasks, OrdTask) \in Nat
    BY <1>1, <1>2, HoldsType
  <2>3. QED
    BY <1>1, <2>1, <2>2, ConstantTypes DEF Ordinary
<1>6. main \notin {"mqtt", "done"}
  BY <1>1 DEF CanTake, CoreIInv, StopOrder, Drained
<1>7. UNCHANGED <<idVars, cmd_queue, admitted, queries, query, replied, main, worker>>
  BY DEF CoreTake
<1>8. QED
  BY <1>2, <1>4, <1>5, <1>6, <1>7, WorkerFields, QuietStep

LEMMA CoreStep == CoreIInv /\ CoreNext => CoreIInv'
<1> SUFFICES ASSUME CoreIInv, CoreNext PROVE CoreIInv'
  OBVIOUS
<1>0. UNCHANGED handlerFrame
  BY DEF CoreNext, handlerFrame
<1>1. CASE CoreTake
  BY <1>0, <1>1, CoreTakeStep
<1>2. CASE core.busy.kind = "mqtt" /\ handleMqtt(core.busy.msg) /\ core' = done(core)
  <2> DEFINE m == core.busy.msg
  <2>1. m \in Msg /\ core.busy = Mqtt(m)
    BY <1>2, BusyKind
  <2>2. handleMqtt(m) /\ core' = done(core)
    BY <1>2
  <2> HIDE DEF m
  <2>3. QED
    BY <1>0, <2>1, <2>2, MqttRejected, MqttSubmitted DEF handleMqtt, idVars
<1>3. CASE core.busy.kind = "finished" /\ handleFinished(core.busy.id) /\ core' = done(core)
  BY <1>0, <1>3, BusyKind, FinishedStep
<1>4. CASE core.busy.kind = "http" /\ handleHttp(core.busy.req) /\ core' = done(core)
  BY <1>0, <1>4, BusyKind, HttpStep
<1>5. CASE core.busy.kind = "rows" /\ queryDone(core.busy.req) /\ core' = done(core)
  BY <1>0, <1>5, BusyKind, RowsStep
<1>6. CASE core.busy.kind = "barrier" /\ barrierReached /\ core' = done(core)
  BY <1>0, <1>6, BusyKind, BarrierStep
<1>7. CASE core.busy.kind = "telemetry" /\ handleTelemetry(core.busy.readings)
  BY <1>0, <1>7, BusyKind, TelemetryStep
<1>8. QED
  BY <1>1, <1>2, <1>3, <1>4, <1>5, <1>6, <1>7 DEF CoreNext, CoreRun

(***************************************************************************)
(* The executor of queries and the management worker.                      *)
(***************************************************************************)
LEMMA QueryFields ==
  ASSUME CoreIInv
  PROVE  /\ core \in ExecutorOf(CTask) /\ query \in ExecutorOf(QueryTask) /\ TypeInv /\ Ordinary
         /\ Number(core.tasks, OrdTask) <= CoreCapacity
         /\ main \in {"worker", "mqtt", "done"} => Drained(query)
BY DEF CoreIInv, TypeInv, Counted, Ordinary, StopOrder

(* A step that changes only core and query, and those while core is open.  *)
LEMMA QueryFrame ==
  ASSUME CoreIInv,
         UNCHANGED <<mqttVars, idVars, mainVars, cmd_queue, admitted, worker, queries,
                     httpUp, asked, replied>>,
         core' \in ExecutorOf(CTask), core'.closed = core.closed,
         query' \in ExecutorOf(QueryTask), query'.closed = query.closed,
         Holds(core', MqttTask) = Holds(core, MqttTask),
         Holds(core', FinTask) = Holds(core, FinTask),
         Holds(core', {Barrier}) = Holds(core, {Barrier}),
         \A x : Holds(core', {Fin(x)}) = Holds(core, {Fin(x)}),
         Number(core'.tasks, OrdTask) <= CoreCapacity,
         main \notin {"worker", "mqtt", "done"}, Queries', Replies'
  PROVE  CoreIInv'
<1> USE DEF mqttVars, idVars, mainVars
<1>1. TypeInv'
  BY DEF CoreIInv, TypeInv
<1>2. StopOrder'
  BY DEF CoreIInv, StopOrder
<1>3. Posting' = Posting
  BY DEF Posting
<1>4. Credits'
  BY <1>3 DEF CoreIInv, Counted, Credits
<1>5. Ends' /\ EndsSum' /\ OneBarrier' /\ Ordinary'
  BY DEF CoreIInv, Counted, Ends, EndsSum, OneBarrier, Ordinary
<1>6. QED
  BY <1>1, <1>2, <1>4, <1>5 DEF CoreIInv, Counted

LEMMA QueryTakeStep ==
  ASSUME CoreIInv, QueryTake,
         UNCHANGED <<mqttVars, idVars, mainVars, cmd_queue, admitted, worker, queries,
                     httpUp, asked, replied>>
  PROVE  CoreIInv'
<1>1. CanTake(query) /\ query' = take(query) /\ core' = core
  BY DEF QueryTake
<1>2. /\ query' \in ExecutorOf(QueryTask) /\ query'.closed = query.closed
      /\ query'.busy \in QueryTask /\ Len(query'.tasks) = Len(query.tasks) - 1
  BY <1>1, QueryFields, TakeFields
<1>3. \A x : Holds(query', {QueryOf(x)}) = Holds(query, {QueryOf(x)})
  <2>1. \A S : Idle \notin S => Holds(query', S) = Holds(query, S)
    BY <1>1, QueryFields, TakeCounts
  <2>2. QED
    BY <2>1, NotIdle
<1>4. Load(query') = Load(query)
  <2>1. query.busy = Idle /\ query'.busy # Idle
    BY <1>1, <1>2, NotIdle DEF CanTake
  <2>2. One(query.busy # Idle) = 0 /\ One(query'.busy # Idle) = 1
    BY <2>1 DEF One
  <2>3. Len(query.tasks) \in Nat
    BY QueryFields, ExecutorFields
  <2>4. QED
    BY <1>2, <2>2, <2>3 DEF Load
<1>5. main \notin {"worker", "mqtt", "done"}
  BY <1>1, QueryFields DEF CanTake, Drained
<1>6. Queries' /\ Replies'
  BY <1>1, <1>3, <1>4 DEF CoreIInv, Counted, Queries, Replies
<1>7. QED
  BY <1>1, <1>2, <1>5, <1>6, QueryFields, QueryFrame

(* The completion is taken in: there is room. *)
LEMMA QueryRunStep ==
  ASSUME CoreIInv, QueryRun,
         UNCHANGED <<mqttVars, idVars, mainVars, cmd_queue, admitted, worker, queries,
                     httpUp, asked, replied>>
  PROVE  CoreIInv'
<1> DEFINE q == query.busy.req
<1>1. /\ q \in Request /\ query.busy = QueryOf(q) /\ query.busy # Idle
      /\ core' = post(core, Rows(q), CoreLimit) /\ query' = done(query)
  <2>1. query.busy \in QueryTask \union {Idle} /\ query.busy # Idle
    BY QueryFields, ExecutorFields DEF QueryRun
  <2>2. query.busy = QueryOf(q) /\ q \in Request
    BY <2>1 DEF QueryTask, QueryOf
  <2>3. QED
    BY <2>1, <2>2 DEF QueryRun, Rows
<1> HIDE DEF q
<1>2. Load(query) \in Nat /\ Load(query) > 0
  <2>1. Len(query.tasks) \in Nat /\ One(query.busy # Idle) = 1
    BY <1>1, QueryFields, ExecutorFields DEF One
  <2>2. QED
    BY <2>1 DEF Load
<1>3. Accepts(core, CoreLimit)
  <2>1. ToCome > 0
    <3>1. Len(cmd_queue.items) \in Nat /\ Cardinality(inflight) \in Nat /\ One(BeforeBarrier) \in Nat
      BY CountTypes DEF One
    <3>2. QED
      BY <1>2, <3>1 DEF ToCome
  <2>2. QED
    BY <2>1, CoreRoom
<1>4. Rows(q) \in CTask /\ Rows(q) \notin OrdTask
  BY <1>1, RowsKind
<1>5. /\ core' \in ExecutorOf(CTask) /\ core'.closed = core.closed /\ More(core, core', Rows(q))
      /\ Number(core'.tasks, OrdTask) <= CoreCapacity
  BY <1>1, <1>3, <1>4, QueryFields, CorePosted, CorePostedOrdinary
<1>6. /\ Holds(core', MqttTask) = Holds(core, MqttTask)
      /\ Holds(core', FinTask) = Holds(core, FinTask)
      /\ Holds(core', RowsTask) = Holds(core, RowsTask) + 1
      /\ Holds(core', {Barrier}) = Holds(core, {Barrier})
      /\ \A x : Holds(core', {Fin(x)}) = Holds(core, {Fin(x)})
      /\ \A x : Holds(core', {Http(x)}) = Holds(core, {Http(x)})
      /\ \A x : Holds(core', {Rows(x)}) = Holds(core, {Rows(x)}) + One(x = q)
  BY <1>1, <1>5, QueryFields, MoreRows
<1>7. /\ query' \in ExecutorOf(QueryTask) /\ query'.closed = query.closed
      /\ query'.tasks = query.tasks /\ query'.busy = Idle
  BY <1>1, QueryFields, DoneFields
<1>8. \A x : Holds(query, {QueryOf(x)}) = Holds(query', {QueryOf(x)}) + One(x = q)
  <2>1. \A S : Idle \notin S => Holds(query, S) = Holds(query', S) + One(query.busy \in S)
    BY <1>1, QueryFields, DoneCounts
  <2>2. \A x : QueryOf(q) = QueryOf(x) <=> x = q
    BY DEF QueryOf
  <2>3. QED
    BY <1>1, <2>1, <2>2, NotIdle DEF One
<1>9. Load(query) = Load(query') + 1
  <2>1. Len(query.tasks) \in Nat /\ One(query.busy # Idle) = 1 /\ One(query'.busy # Idle) = 0
    BY <1>1, <1>7, QueryFields, ExecutorFields DEF One
  <2>2. QED
    BY <1>7, <2>1 DEF Load
<1>10. main \notin {"worker", "mqtt", "done"}
  BY <1>1, QueryFields DEF Drained
<1>11. Queries'
  <2> DEFINE L == Load(query')
             R == Holds(core, RowsTask)
             S == Holds(core', RowsTask)
  <2>1. queries = Load(query) + R /\ queries <= kMaxQueries /\ R \in Nat
    BY CountTypes DEF CoreIInv, Counted, Queries
  <2>2. Load(query) = L + 1 /\ S = R + 1 /\ L \in Nat
    <3>1. L \in Nat
      BY <1>7, QueryFields, ExecutorFields DEF Load, One
    <3>2. QED
      BY <1>6, <1>9, <3>1
  <2> HIDE DEF L, R, S
  <2>3. queries = L + S
    BY <2>1, <2>2
  <2>4. QED
    BY <2>1, <2>3 DEF Queries, L, S
<1>12. Replies'
  <2> SUFFICES ASSUME NEW r \in Request
               PROVE  replied'[r] + Holds(core', {Http(r)}) + Holds(query', {QueryOf(r)})
                        + Holds(core', {Rows(r)}) = One(r \in asked')
    BY DEF Replies
  <2> DEFINE A == replied[r]
             H == Holds(core, {Http(r)})
             Q == Holds(query, {QueryOf(r)})
             U == Holds(query', {QueryOf(r)})
             R == Holds(core, {Rows(r)})
             S == Holds(core', {Rows(r)})
  <2>1. /\ A + H + Q + R = One(r \in asked) /\ A \in Nat /\ H \in Nat
        /\ Q \in Nat /\ R \in Nat /\ U \in Nat /\ One(r = q) \in Nat
    BY <1>7, CountTypes, HoldsType DEF CoreIInv, TypeInv, Counted, Replies, One
  <2>2. Q = U + One(r = q) /\ S = R + One(r = q)
    BY <1>6, <1>8
  <2> HIDE DEF A, H, Q, U, R, S
  <2>3. A + H + U + S = One(r \in asked)
    BY <2>1, <2>2
  <2>4. QED
    BY <1>6, <2>3 DEF A, H, U, S
<1>13. QED
  BY <1>5, <1>6, <1>7, <1>10, <1>11, <1>12, QueryFrame

LEMMA WorkerStep == CoreIInv /\ WorkerNext => CoreIInv'
<1> SUFFICES ASSUME CoreIInv, WorkerNext PROVE CoreIInv'
  OBVIOUS
<1> USE DEF idVars, httpVars, mainVars
<1>0. /\ UNCHANGED <<mqtt, arrived, idVars, httpVars, mainVars, cmd_queue, core>>
      /\ worker \in ExecutorOf(WorkerTask)
  BY WorkerFields DEF WorkerNext
<1>1. ASSUME worker' \in ExecutorOf(WorkerTask), worker'.closed = worker.closed,
             Number(worker'.tasks, {OneReading}) <= WorkerCapacity,
             admitted' \in Nat, Credits'
      PROVE  CoreIInv'
  <2>1. TypeInv'
    BY <1>0, <1>1 DEF CoreIInv, TypeInv
  <2>2. StopOrder'
    BY <1>0, <1>1 DEF CoreIInv, StopOrder
  <2>3. Ends' /\ EndsSum' /\ Queries' /\ Replies' /\ OneBarrier' /\ Ordinary'
    BY <1>0, <1>1 DEF CoreIInv, Counted, Ends, EndsSum, Queries, Replies, OneBarrier, Ordinary
  <2>4. QED
    BY <1>1, <2>1, <2>2, <2>3 DEF CoreIInv, Counted
<1>2. Posting' = Posting
  BY <1>0 DEF Posting
<1>3. CASE WorkerTake
  <2>1. CanTake(worker) /\ worker' = take(worker) /\ admitted' = admitted
    BY <1>3 DEF WorkerTake
  <2>2. worker' \in ExecutorOf(WorkerTask) /\ worker'.closed = worker.closed
    BY <1>0, <2>1, TakeFields
  <2>3. \A S : Idle \notin S => /\ Holds(worker', S) = Holds(worker, S)
                                /\ Number(worker'.tasks, S) <= Number(worker.tasks, S)
    BY <1>0, <2>1, TakeCounts
  <2>4. Number(worker'.tasks, {OneReading}) <= WorkerCapacity
    <3>1. Number(worker'.tasks, {OneReading}) <= Number(worker.tasks, {OneReading})
      BY <2>3, NotIdle
    <3>2. Number(worker'.tasks, {OneReading}) \in Nat /\ Number(worker.tasks, {OneReading}) \in Nat
      BY <1>0, <2>2, HoldsType
    <3>3. QED
      BY <3>1, <3>2, WorkerFields, ConstantTypes
  <2>5. Holds(worker', AnswerTask) = Holds(worker, AnswerTask)
    BY <2>3, NotIdle
  <2>6. Credits' /\ admitted' \in Nat
    BY <1>0, <1>2, <2>1, <2>5 DEF CoreIInv, TypeInv, Counted, Credits
  <2>7. QED
    BY <1>1, <2>2, <2>4, <2>6
<1>4. CASE WorkerPublish
  <2>1. worker' = done(worker) /\ worker.busy # Idle
    BY <1>4 DEF WorkerPublish
  <2>2. /\ worker' \in ExecutorOf(WorkerTask) /\ worker'.closed = worker.closed
        /\ worker'.tasks = worker.tasks
    BY <1>0, <2>1, DoneFields
  <2>3. Holds(worker, AnswerTask) = Holds(worker', AnswerTask) + One(worker.busy \in AnswerTask)
    BY <1>0, <2>1, NotIdle, DoneCounts
  <2>4. admitted' = admitted - One(worker.busy \in AnswerTask)
    <3>1. worker.busy \in WorkerTask
      BY <1>0, <2>1, ExecutorFields
    <3>2. worker.busy \in AnswerTask <=> worker.busy.kind = "answer"
      BY <3>1 DEF WorkerTask, AnswerTask, OneReading
    <3>3. admitted \in Nat
      BY DEF CoreIInv, TypeInv
    <3>4. QED
      BY <1>4, <3>2, <3>3 DEF WorkerPublish, One
  <2>5. Credits' /\ admitted' \in Nat
    <3> DEFINE a == admitted'
               P == Cardinality(Posting)
               D == Cardinality(pending)
               M == Holds(core, MqttTask)
               W == Holds(worker, AnswerTask)
               V == Holds(worker', AnswerTask)
               O == One(worker.busy \in AnswerTask)
    <3>1. /\ admitted = P + M + D + W /\ admitted <= kMaxCommands /\ admitted \in Nat
          /\ P \in Nat /\ D \in Nat /\ W \in Nat /\ M \in Nat /\ V \in Nat /\ O \in Nat
      BY <2>2, CountTypes, HoldsType DEF CoreIInv, TypeInv, Counted, Credits, One
    <3>2. a = admitted - O /\ W = V + O
      BY <2>3, <2>4
    <3> HIDE DEF a, P, D, M, W, V, O
    <3>3. a = P + M + D + V /\ a <= kMaxCommands /\ a \in Nat
      BY <3>1, <3>2, ConstantTypes
    <3>4. QED
      BY <1>0, <1>2, <3>3 DEF Credits, a, P, D, M, V
  <2>6. QED
    BY <1>1, <2>2, <2>5, WorkerFields
<1>5. QED
  BY <1>3, <1>4 DEF WorkerNext

(***************************************************************************)
(* The HTTP thread.                                                        *)
(***************************************************************************)
LEMMA HttpThreadFrame ==
  ASSUME CoreIInv,
         UNCHANGED <<mqttVars, idVars, mainVars, cmd_queue, admitted, worker, queries, query>>,
         httpUp' \in BOOLEAN, asked' \subseteq Request, replied' \in [Request -> Nat],
         core' \in ExecutorOf(CTask), core'.closed = core.closed,
         core.closed => core' = core,
         Holds(core', MqttTask) = Holds(core, MqttTask),
         Holds(core', FinTask) = Holds(core, FinTask),
         Holds(core', RowsTask) = Holds(core, RowsTask),
         Holds(core', {Barrier}) = Holds(core, {Barrier}),
         \A x : Holds(core', {Fin(x)}) = Holds(core, {Fin(x)}),
         Number(core'.tasks, OrdTask) <= CoreCapacity, Replies'
  PROVE  CoreIInv'
<1> USE DEF mqttVars, idVars, mainVars
<1>1. TypeInv'
  BY DEF CoreIInv, TypeInv
<1>2. StopOrder'
  BY DEF CoreIInv, StopOrder
<1>3. Posting' = Posting
  BY DEF Posting
<1>4. Credits'
  BY <1>3 DEF CoreIInv, Counted, Credits
<1>5. Ends' /\ EndsSum' /\ Queries' /\ OneBarrier' /\ Ordinary'
  BY DEF CoreIInv, Counted, Ends, EndsSum, Queries, OneBarrier, Ordinary
<1>6. QED
  BY <1>1, <1>2, <1>4, <1>5 DEF CoreIInv, Counted

LEMMA HttpRequestStep ==
  ASSUME CoreIInv, NEW q \in Request, HttpRequest(q),
         UNCHANGED <<mqttVars, idVars, mainVars, cmd_queue, admitted, worker, queries, query>>
  PROVE  CoreIInv'
<1>1. /\ q \notin asked /\ asked' = asked \union {q} /\ httpUp' = httpUp
      /\ asked' \subseteq Request /\ httpUp' \in BOOLEAN
  BY DEF HttpRequest, CoreIInv, TypeInv
<1>2. \A r \in Request : One(r \in asked') = One(r \in asked) + One(r = q)
  BY <1>1 DEF One
<1>3. CASE reply(q) /\ UNCHANGED core
  <2>1. replied' \in [Request -> Nat] /\ \A x \in Request : replied'[x] = replied[x] + One(x = q)
    BY <1>3, ReplyFields
  <2>2. Replies'
    <3> SUFFICES ASSUME NEW r \in Request
                 PROVE  replied'[r] + Holds(core', {Http(r)}) + Holds(query', {QueryOf(r)})
                          + Holds(core', {Rows(r)}) = One(r \in asked')
      BY DEF Replies
    <3> DEFINE A == replied[r]
               B == replied'[r]
               H == Holds(core, {Http(r)})
               Q == Holds(query, {QueryOf(r)})
               R == Holds(core, {Rows(r)})
               X == One(r \in asked')
    <3>1. /\ A + H + Q + R = One(r \in asked) /\ A \in Nat /\ H \in Nat
          /\ Q \in Nat /\ R \in Nat /\ One(r = q) \in Nat
      BY CountTypes DEF CoreIInv, TypeInv, Counted, Replies, One
    <3>2. B = A + One(r = q) /\ X = One(r \in asked) + One(r = q)
      BY <1>2, <2>1
    <3> HIDE DEF A, B, H, Q, R, X
    <3>3. B + H + Q + R = X
      BY <3>1, <3>2
    <3>4. QED
      BY <1>3, <3>3 DEF B, H, Q, R, X
  <2>3. QED
    BY <1>1, <1>3, <2>1, <2>2, QueryFields, HttpThreadFrame
<1>4. CASE /\ Accepts(core, CoreCapacity) /\ core' = post(core, Http(q), CoreCapacity)
           /\ UNCHANGED replied
  <2>1. Http(q) \in CTask
    BY HttpKind
  <2>2. /\ core' \in ExecutorOf(CTask) /\ core'.closed = core.closed /\ ~core.closed
        /\ More(core, core', Http(q)) /\ Number(core'.tasks, OrdTask) <= CoreCapacity
    BY <1>4, <2>1, QueryFields, CorePosted, CorePostedOrdinary DEF Accepts
  <2>3. /\ Holds(core', MqttTask) = Holds(core, MqttTask)
        /\ Holds(core', FinTask) = Holds(core, FinTask)
        /\ Holds(core', RowsTask) = Holds(core, RowsTask)
        /\ Holds(core', {Barrier}) = Holds(core, {Barrier})
        /\ \A x : Holds(core', {Fin(x)}) = Holds(core, {Fin(x)})
        /\ \A x : Holds(core', {Http(x)}) = Holds(core, {Http(x)}) + One(x = q)
        /\ \A x : Holds(core', {Rows(x)}) = Holds(core, {Rows(x)})
    <3>1. core \in ExecutorOf(CTask) /\ More(core, core', Http(q))
      BY <2>2, QueryFields
    <3>2. QED
      BY ONLY <3>1, q \in Request, MoreHttp
  <2>4. Replies'
    <3> SUFFICES ASSUME NEW r \in Request
                 PROVE  replied'[r] + Holds(core', {Http(r)}) + Holds(query', {QueryOf(r)})
                          + Holds(core', {Rows(r)}) = One(r \in asked')
      BY DEF Replies
    <3> DEFINE A == replied[r]
               H == Holds(core, {Http(r)})
               K == Holds(core', {Http(r)})
               Q == Holds(query, {QueryOf(r)})
               R == Holds(core, {Rows(r)})
               X == One(r \in asked')
    <3>1. /\ A + H + Q + R = One(r \in asked) /\ A \in Nat /\ H \in Nat
          /\ Q \in Nat /\ R \in Nat /\ One(r = q) \in Nat
      BY CountTypes DEF CoreIInv, TypeInv, Counted, Replies, One
    <3>2. K = H + One(r = q) /\ X = One(r \in asked) + One(r = q)
      BY <1>2, <2>3
    <3> HIDE DEF A, H, K, Q, R, X
    <3>3. A + K + Q + R = X
      BY <3>1, <3>2
    <3>4. QED
      BY <1>4, <2>3, <3>3 DEF A, K, Q, R, X
  <2>5. QED
    BY <1>1, <1>4, <2>2, <2>3, <2>4, WorkerFields, HttpThreadFrame
<1>5. QED
  BY <1>3, <1>4 DEF HttpRequest, Http

LEMMA HttpThreadStep == CoreIInv /\ HttpNext => CoreIInv'
<1> SUFFICES ASSUME CoreIInv, HttpNext PROVE CoreIInv'
  OBVIOUS
<1>1. UNCHANGED <<mqttVars, idVars, mainVars, cmd_queue, admitted, worker, queries, query>>
  BY DEF HttpNext
<1>2. CASE HttpFails
  <2>1. httpUp' \in BOOLEAN /\ UNCHANGED <<asked, replied, core>>
    BY <1>2 DEF HttpFails
  <2>2. Replies' /\ asked' \subseteq Request
    BY <1>1, <2>1 DEF CoreIInv, TypeInv, Counted, Replies
  <2>3. QED
    BY <1>1, <2>1, <2>2, QueryFields, WorkerFields, HttpThreadFrame
<1>3. QED
  BY <1>1, <1>2, HttpRequestStep DEF HttpNext

(***************************************************************************)
(* The main thread.                                                        *)
(***************************************************************************)
(* A step of the main thread that moves commands, its place, and stopping. *)
LEMMA MainFrame ==
  ASSUME CoreIInv, UNCHANGED <<mqttVars, idVars, queries, query, asked, replied, admitted, worker>>,
         accepting' \in BOOLEAN, stopping' \in BOOLEAN, httpUp' \in BOOLEAN,
         frames' \in 0..MaxFrames, main' \in Places, inflight' \subseteq Nat,
         cmd_queue' \in [items : Seq(Nat), shutdown : BOOLEAN],
         core' \in ExecutorOf(CTask),
         Holds(core', MqttTask) = Holds(core, MqttTask),
         Holds(core', RowsTask) = Holds(core, RowsTask),
         \A x : Holds(core', {Http(x)}) = Holds(core, {Http(x)}),
         \A x : Holds(core', {Rows(x)}) = Holds(core, {Rows(x)}),
         Number(core'.tasks, OrdTask) <= CoreCapacity,
         Ends', EndsSum', OneBarrier', StopOrder'
  PROVE  CoreIInv'
<1> USE DEF mqttVars, idVars
<1>1. TypeInv'
  BY DEF CoreIInv, TypeInv
<1>2. Posting' = Posting
  BY DEF Posting
<1>3. Credits'
  BY <1>2 DEF CoreIInv, Counted, Credits
<1>4. Queries' /\ Replies' /\ Ordinary'
  BY DEF CoreIInv, Counted, Queries, Replies, Ordinary
<1>5. QED
  BY <1>1, <1>3, <1>4 DEF CoreIInv, Counted

(* The completion of a command is taken in, while the main thread is       *)
(* before the barrier.                                                     *)
LEMMA FinishedPosted ==
  ASSUME CoreIInv, BeforeBarrier, NEW i \in Nat, commandFinished(i)
  PROVE  /\ core' \in ExecutorOf(CTask) /\ core'.closed = core.closed
         /\ Number(core'.tasks, OrdTask) <= CoreCapacity
         /\ Holds(core', MqttTask) = Holds(core, MqttTask)
         /\ Holds(core', FinTask) = Holds(core, FinTask) + 1
         /\ Holds(core', RowsTask) = Holds(core, RowsTask)
         /\ Holds(core', {Barrier}) = Holds(core, {Barrier})
         /\ \A x : Holds(core', {Fin(x)}) = Holds(core, {Fin(x)}) + One(x = i)
         /\ \A x : Holds(core', {Http(x)}) = Holds(core, {Http(x)})
         /\ \A x : Holds(core', {Rows(x)}) = Holds(core, {Rows(x)})
<1>1. core' = post(core, Fin(i), CoreLimit)
  BY DEF commandFinished, Fin
<1>2. Fin(i) \in CTask /\ Fin(i) \notin OrdTask
  BY FinKind
<1>3. Accepts(core, CoreLimit)
  <2>1. ToCome > 0
    <3>1. /\ Len(cmd_queue.items) \in Nat /\ Cardinality(inflight) \in Nat
          /\ Load(query) \in Nat /\ One(BeforeBarrier) = 1
      BY CountTypes DEF One
    <3> DEFINE I == Len(cmd_queue.items)
               J == Cardinality(inflight)
               Q == Load(query)
               X == One(BeforeBarrier)
    <3>2. ToCome = I + J + Q + X
      BY DEF ToCome
    <3> HIDE DEF I, J, Q, X
    <3>3. I \in Nat /\ J \in Nat /\ Q \in Nat /\ X = 1
      BY <3>1 DEF I, J, Q, X
    <3>4. QED
      BY <3>2, <3>3
  <2>2. QED
    BY <2>1, CoreRoom
<1>4. /\ core' \in ExecutorOf(CTask) /\ core'.closed = core.closed
      /\ Number(core'.tasks, OrdTask) <= CoreCapacity /\ More(core, core', Fin(i))
  BY <1>1, <1>2, <1>3, QueryFields, CorePosted, CorePostedOrdinary
<1>5. QED
  BY <1>4, QueryFields, MoreFin

(* The head of cmd_queue_ leaves it. *)
LEMMA HeadOfQueue ==
  ASSUME CoreIInv, cmd_queue.items # <<>>,
         cmd_queue' = [cmd_queue EXCEPT !.items = Tail(@)]
  PROVE  LET i == Head(cmd_queue.items) IN
         /\ i \in Nat /\ cmd_queue' \in [items : Seq(Nat), shutdown : BOOLEAN]
         /\ cmd_queue'.shutdown = cmd_queue.shutdown
         /\ Len(cmd_queue.items) = Len(cmd_queue'.items) + 1 /\ Len(cmd_queue'.items) \in Nat
         /\ \A id : /\ Number(cmd_queue.items, {id}) = Number(cmd_queue'.items, {id}) + One(id = i)
                    /\ Number(cmd_queue'.items, {id}) \in Nat
<1> DEFINE s == cmd_queue.items
           i == Head(s)
<1>1. cmd_queue \in [items : Seq(Nat), shutdown : BOOLEAN] /\ s \in Seq(Nat)
  BY DEF CoreIInv, TypeInv
<1>2. /\ Head(s) \in Nat /\ Tail(s) \in Seq(Nat) /\ Len(Tail(s)) = Len(s) - 1
      /\ Len(s) \in Nat /\ Len(Tail(s)) \in Nat
  BY <1>1, HeadTailProperties, LenProperties
<1>3. /\ cmd_queue' \in [items : Seq(Nat), shutdown : BOOLEAN]
      /\ cmd_queue'.items = Tail(s) /\ cmd_queue'.shutdown = cmd_queue.shutdown
  BY <1>1, <1>2
<1>4. \A id : Number(s, {id}) = Number(Tail(s), {id}) + One(Head(s) \in {id})
  BY <1>1, NumberTail
<1>5. \A id : Number(Tail(s), {id}) \in Nat
  BY <1>2, NumberType
<1>6. \A id : One(Head(s) \in {id}) = One(id = i)
  BY DEF One
<1>7. Len(s) = Len(Tail(s)) + 1
  BY <1>2
<1>8. \A id : Number(s, {id}) = Number(Tail(s), {id}) + One(id = i)
  <2> SUFFICES ASSUME NEW id PROVE Number(s, {id}) = Number(Tail(s), {id}) + One(id = i)
    OBVIOUS
  <2>1. Number(s, {id}) = Number(Tail(s), {id}) + One(Head(s) \in {id})
    BY <1>4
  <2>2. One(Head(s) \in {id}) = One(id = i)
    BY <1>6
  <2> HIDE DEF s, i
  <2>3. QED
    BY <2>1, <2>2
<1>9. /\ Len(s) = Len(cmd_queue'.items) + 1 /\ Len(cmd_queue'.items) \in Nat
      /\ \A id : /\ Number(s, {id}) = Number(cmd_queue'.items, {id}) + One(id = i)
                 /\ Number(cmd_queue'.items, {id}) \in Nat
  <2> HIDE DEF s, i
  <2>1. QED
    BY <1>2, <1>3, <1>5, <1>7, <1>8
<1>10. QED
  BY <1>2, <1>3, <1>9

(* The head of cmd_queue_ becomes a completion. *)
LEMMA HeadFinished ==
  ASSUME CoreIInv, BeforeBarrier, cmd_queue.items # <<>>,
         cmd_queue' = [cmd_queue EXCEPT !.items = Tail(@)],
         commandFinished(Head(cmd_queue.items)), inflight' = inflight, pending' = pending
  PROVE  Ends' /\ EndsSum'
<1> DEFINE i == Head(cmd_queue.items)
<1>1. /\ i \in Nat /\ commandFinished(i)
      /\ Len(cmd_queue.items) = Len(cmd_queue'.items) + 1 /\ Len(cmd_queue'.items) \in Nat
      /\ \A id : /\ Number(cmd_queue.items, {id}) = Number(cmd_queue'.items, {id}) + One(id = i)
                 /\ Number(cmd_queue'.items, {id}) \in Nat
  BY HeadOfQueue
<1> HIDE DEF i
<1>2. /\ Holds(core', FinTask) = Holds(core, FinTask) + 1
      /\ \A x : Holds(core', {Fin(x)}) = Holds(core, {Fin(x)}) + One(x = i)
  BY <1>1, FinishedPosted
<1>3. Ends'
  <2> SUFFICES ASSUME NEW id \in Nat
               PROVE  Number(cmd_queue'.items, {id}) + One(id \in inflight')
                        + Holds(core', {Fin(id)}) = One(id \in pending')
    BY DEF Ends
  <2> DEFINE A == Number(cmd_queue.items, {id})
             U == Number(cmd_queue'.items, {id})
             B == One(id \in inflight)
             C == Holds(core, {Fin(id)})
             E == Holds(core', {Fin(id)})
  <2>1. /\ A + B + C = One(id \in pending) /\ C \in Nat /\ U \in Nat /\ B \in Nat
        /\ One(id = i) \in Nat
    BY <1>1, CountTypes DEF CoreIInv, Counted, Ends, One
  <2>2. A = U + One(id = i) /\ E = C + One(id = i)
    BY <1>1, <1>2
  <2> HIDE DEF A, B, C, E, U
  <2>3. U + B + E = One(id \in pending)
    BY <2>1, <2>2
  <2>4. QED
    BY <2>3 DEF U, B, E
<1>4. EndsSum'
  <2> DEFINE I == Len(cmd_queue.items)
             U == Len(cmd_queue'.items)
             J == Cardinality(inflight)
             F == Holds(core, FinTask)
             G == Holds(core', FinTask)
             D == Cardinality(pending)
  <2>1. I + J + F = D /\ U \in Nat /\ J \in Nat /\ F \in Nat
    BY <1>1, CountTypes DEF CoreIInv, Counted, EndsSum
  <2>2. I = U + 1 /\ G = F + 1
    BY <1>1, <1>2
  <2> HIDE DEF I, U, J, F, G, D
  <2>3. U + J + G = D
    BY <2>1, <2>2
  <2>4. QED
    BY <2>3 DEF EndsSum, CoreIInv, Counted, U, J, G, D
<1>5. QED
  BY <1>3, <1>4

(* A command that the tracker has becomes a completion. *)
LEMMA InflightFinished ==
  ASSUME CoreIInv, BeforeBarrier, NEW i \in inflight, commandFinished(i),
         inflight' = inflight \ {i}, pending' = pending, cmd_queue' = cmd_queue
  PROVE  Ends' /\ EndsSum'
<1>0. i \in Nat
  BY DEF CoreIInv, TypeInv
<1>1. /\ Holds(core', FinTask) = Holds(core, FinTask) + 1
      /\ \A x : Holds(core', {Fin(x)}) = Holds(core, {Fin(x)}) + One(x = i)
  BY <1>0, FinishedPosted
<1>2. IsFiniteSet(inflight') /\ Cardinality(inflight') = Cardinality(inflight) - 1
  BY FS_RemoveElement DEF CoreIInv, Counted, EndsSum
<1>3. Ends'
  <2> SUFFICES ASSUME NEW id \in Nat
               PROVE  Number(cmd_queue'.items, {id}) + One(id \in inflight')
                        + Holds(core', {Fin(id)}) = One(id \in pending')
    BY DEF Ends
  <2> DEFINE A == Number(cmd_queue.items, {id})
             B == One(id \in inflight)
             V == One(id \in inflight')
             C == Holds(core, {Fin(id)})
             E == Holds(core', {Fin(id)})
  <2>1. /\ A + B + C = One(id \in pending) /\ C \in Nat /\ A \in Nat /\ V \in Nat
        /\ One(id = i) \in Nat
    BY CountTypes DEF CoreIInv, Counted, Ends, One
  <2>2. B = V + One(id = i) /\ E = C + One(id = i)
    BY <1>1 DEF One
  <2> HIDE DEF A, B, C, E, V
  <2>3. A + V + E = One(id \in pending)
    BY <2>1, <2>2
  <2>4. QED
    BY <2>3 DEF A, V, E
<1>4. EndsSum'
  <2> DEFINE I == Len(cmd_queue.items)
             J == Cardinality(inflight)
             K == Cardinality(inflight')
             F == Holds(core, FinTask)
             G == Holds(core', FinTask)
             D == Cardinality(pending)
  <2>1. I + J + F = D /\ I \in Nat /\ J \in Nat /\ F \in Nat
    BY CountTypes DEF CoreIInv, Counted, EndsSum
  <2>2. K = J - 1 /\ G = F + 1
    BY <1>1, <1>2
  <2> HIDE DEF I, J, K, F, G, D
  <2>3. I + K + G = D
    BY <2>1, <2>2
  <2>4. QED
    BY <1>2, <2>3 DEF EndsSum, I, K, G, D
<1>5. QED
  BY <1>3, <1>4

(* The head of cmd_queue_ goes to the tracker. *)
LEMMA HeadInflight ==
  ASSUME CoreIInv, cmd_queue.items # <<>>,
         cmd_queue' = [cmd_queue EXCEPT !.items = Tail(@)],
         inflight' = inflight \union {Head(cmd_queue.items)},
         core' = core, pending' = pending
  PROVE  Ends' /\ EndsSum' /\ inflight' \subseteq Nat
<1> DEFINE i == Head(cmd_queue.items)
<1>1. /\ i \in Nat
      /\ Len(cmd_queue.items) = Len(cmd_queue'.items) + 1 /\ Len(cmd_queue'.items) \in Nat
      /\ \A id : /\ Number(cmd_queue.items, {id}) = Number(cmd_queue'.items, {id}) + One(id = i)
                 /\ Number(cmd_queue'.items, {id}) \in Nat
  BY HeadOfQueue
<1>2. inflight' = inflight \union {i}
  OBVIOUS
<1> HIDE DEF i
<1>3. i \notin inflight
  <2> DEFINE A == Number(cmd_queue.items, {i})
             U == Number(cmd_queue'.items, {i})
             B == One(i \in inflight)
             C == Holds(core, {Fin(i)})
             D == One(i \in pending)
  <2>1. A + B + C = D /\ C \in Nat /\ U \in Nat /\ B \in Nat /\ D \in {0, 1}
    BY <1>1, CountTypes DEF CoreIInv, Counted, Ends, One
  <2>2. A = U + 1
    BY <1>1 DEF One
  <2> HIDE DEF A, B, C, D, U
  <2>3. B = 0
    BY <2>1, <2>2
  <2>4. QED
    BY <2>3 DEF B, One
<1>4. IsFiniteSet(inflight') /\ Cardinality(inflight') = Cardinality(inflight) + 1
  BY <1>2, <1>3, FS_AddElement DEF CoreIInv, Counted, EndsSum
<1>5. Ends'
  <2> SUFFICES ASSUME NEW id \in Nat
               PROVE  Number(cmd_queue'.items, {id}) + One(id \in inflight')
                        + Holds(core', {Fin(id)}) = One(id \in pending')
    BY DEF Ends
  <2> DEFINE A == Number(cmd_queue.items, {id})
             U == Number(cmd_queue'.items, {id})
             B == One(id \in inflight)
             V == One(id \in inflight')
             C == Holds(core, {Fin(id)})
  <2>1. /\ A + B + C = One(id \in pending) /\ C \in Nat /\ U \in Nat /\ B \in Nat
        /\ One(id = i) \in Nat
    BY <1>1, CountTypes DEF CoreIInv, Counted, Ends, One
  <2>2. A = U + One(id = i)
    BY <1>1
  <2>3. V = B + One(id = i)
    BY <1>2, <1>3 DEF One
  <2> HIDE DEF A, B, C, V, U
  <2>4. U + V + C = One(id \in pending)
    BY <2>1, <2>2, <2>3
  <2>5. QED
    BY <2>4 DEF U, V, C
<1>6. EndsSum'
  <2> DEFINE I == Len(cmd_queue.items)
             U == Len(cmd_queue'.items)
             J == Cardinality(inflight)
             K == Cardinality(inflight')
             F == Holds(core, FinTask)
             D == Cardinality(pending)
  <2>1. I + J + F = D /\ U \in Nat /\ J \in Nat /\ F \in Nat
    BY <1>1, CountTypes DEF CoreIInv, Counted, EndsSum
  <2>2. I = U + 1 /\ K = J + 1
    BY <1>1, <1>4
  <2> HIDE DEF I, U, J, K, F, D
  <2>3. U + K + F = D
    BY <2>1, <2>2
  <2>4. QED
    BY <1>4, <2>3 DEF EndsSum, U, K, F, D
<1>7. inflight' \subseteq Nat
  BY <1>1, <1>2 DEF CoreIInv, TypeInv
<1>8. QED
  BY <1>5, <1>6, <1>7

(* What the main thread has, and what a step of it keeps. *)
LEMMA MainFields ==
  ASSUME CoreIInv
  PROVE  /\ accepting \in BOOLEAN /\ stopping \in BOOLEAN /\ httpUp \in BOOLEAN
         /\ frames \in 0..MaxFrames /\ main \in Places /\ inflight \subseteq Nat
         /\ cmd_queue \in [items : Seq(Nat), shutdown : BOOLEAN]
         /\ core \in ExecutorOf(CTask) /\ Number(core.tasks, OrdTask) <= CoreCapacity
         /\ OneBarrier /\ StopOrder /\ Ends /\ EndsSum
BY DEF CoreIInv, TypeInv, Counted, Ordinary

(* A completion that the main thread posts: what MainFrame needs of it.    *)
LEMMA CompletionStep ==
  ASSUME CoreIInv, BeforeBarrier, NEW i \in Nat, commandFinished(i),
         UNCHANGED <<mqttVars, idVars, queries, query, asked, replied, admitted, worker,
                     accepting, stopping, httpUp, frames, main>>,
         inflight' \subseteq inflight,
         cmd_queue' \in [items : Seq(Nat), shutdown : BOOLEAN],
         cmd_queue'.shutdown = cmd_queue.shutdown,
         cmd_queue.items = <<>> => cmd_queue'.items = <<>>,
         Ends', EndsSum'
  PROVE  CoreIInv'
<1>1. /\ core' \in ExecutorOf(CTask) /\ core'.closed = core.closed
      /\ Number(core'.tasks, OrdTask) <= CoreCapacity
      /\ Holds(core', MqttTask) = Holds(core, MqttTask)
      /\ Holds(core', RowsTask) = Holds(core, RowsTask)
      /\ Holds(core', {Barrier}) = Holds(core, {Barrier})
      /\ \A x : Holds(core', {Http(x)}) = Holds(core, {Http(x)})
      /\ \A x : Holds(core', {Rows(x)}) = Holds(core, {Rows(x)})
  BY FinishedPosted
<1>2. OneBarrier'
  BY <1>1, MainFields DEF OneBarrier
<1>3. StopOrder'
  BY <1>1, MainFields DEF StopOrder, BeforeBarrier
<1>4. inflight' \subseteq Nat
  BY MainFields
<1>5. QED
  BY <1>1, <1>2, <1>3, <1>4, MainFields, MainFrame

(* The Reactor. *)
LEMMA ReactorTakesStep == CoreIInv /\ Reactor(ReactorTakes) => CoreIInv'
<1> SUFFICES ASSUME CoreIInv, Reactor(ReactorTakes) PROVE CoreIInv'
  OBVIOUS
<1> DEFINE i == Head(cmd_queue.items)
<1>1. /\ main = "loop" /\ BeforeBarrier
      /\ UNCHANGED <<mqttVars, idVars, queries, query, asked, replied, admitted, worker,
                     accepting, stopping, httpUp, frames, main>>
      /\ pending' = pending
  BY DEF Reactor, ReactorTakes, httpVars, idVars, BeforeBarrier
<1>2. cmd_queue.items # <<>> /\ cmd_queue' = [cmd_queue EXCEPT !.items = Tail(@)]
  BY DEF Reactor, ReactorTakes
<1>3. /\ i \in Nat /\ cmd_queue' \in [items : Seq(Nat), shutdown : BOOLEAN]
      /\ cmd_queue'.shutdown = cmd_queue.shutdown
  BY <1>2, HeadOfQueue
<1>4. CASE inflight' = inflight \union {i} /\ UNCHANGED core
  <2>1. Ends' /\ EndsSum' /\ inflight' \subseteq Nat
    BY <1>1, <1>2, <1>4, HeadInflight
  <2>2. OneBarrier' /\ StopOrder'
    BY <1>1, <1>4, MainFields DEF OneBarrier, StopOrder
  <2>3. QED
    BY <1>1, <1>3, <1>4, <2>1, <2>2, MainFields, MainFrame
<1>5. CASE commandFinished(i) /\ UNCHANGED inflight
  <2>1. Ends' /\ EndsSum'
    BY <1>1, <1>2, <1>5, HeadFinished
  <2>2. QED
    BY <1>1, <1>2, <1>3, <1>5, <2>1, CompletionStep
<1>6. QED
  BY <1>4, <1>5 DEF Reactor, ReactorTakes

LEMMA ReactorFinishesStep == CoreIInv /\ Reactor(ReactorFinishes) => CoreIInv'
<1> SUFFICES ASSUME CoreIInv, Reactor(ReactorFinishes) PROVE CoreIInv'
  OBVIOUS
<1>1. /\ main = "loop" /\ BeforeBarrier /\ UNCHANGED cmd_queue
      /\ UNCHANGED <<mqttVars, idVars, queries, query, asked, replied, admitted, worker,
                     accepting, stopping, httpUp, frames, main>>
      /\ pending' = pending
  BY DEF Reactor, ReactorFinishes, httpVars, idVars, BeforeBarrier
<1>2. PICK i \in inflight : commandFinished(i) /\ inflight' = inflight \ {i}
  BY DEF Reactor, ReactorFinishes
<1>3. i \in Nat /\ inflight' \subseteq inflight
  BY <1>2, MainFields
<1>4. Ends' /\ EndsSum'
  BY <1>1, <1>2, InflightFinished
<1>5. QED
  BY <1>1, <1>2, <1>3, <1>4, MainFields, CompletionStep

LEMMA ReactorTelemetryStep == CoreIInv /\ Reactor(ReactorTelemetry) => CoreIInv'
<1> SUFFICES ASSUME CoreIInv, Reactor(ReactorTelemetry) PROVE CoreIInv'
  OBVIOUS
<1>1. /\ main = "loop" /\ UNCHANGED <<cmd_queue, inflight>> /\ pending' = pending
      /\ UNCHANGED <<mqttVars, idVars, queries, query, asked, replied, admitted, worker>>
      /\ UNCHANGED <<accepting, stopping, httpUp, main>>
  BY DEF Reactor, ReactorTelemetry, httpVars, idVars
<1>2. frames' \in 0..MaxFrames
  BY MainFields, ConstantTypes DEF Reactor, ReactorTelemetry
<1>3. PICK n \in 0..MaxReadings : core' = post(core, Tel(n), CoreCapacity)
  BY DEF Reactor, ReactorTelemetry, Tel
<1>4. Tel(n) \in CTask
  BY TelKind
<1>5. core \in ExecutorOf(CTask) /\ TypeInv
  BY MainFields DEF CoreIInv
<1>6. /\ core' \in ExecutorOf(CTask) /\ core'.closed = core.closed
      /\ Number(core'.tasks, OrdTask) <= CoreCapacity
  BY <1>3, <1>4, <1>5, QueryFields, CorePosted, CorePostedOrdinary
<1>7. SameCounts(core, core')
  <2>1. CASE Accepts(core, CoreCapacity)
    <3>1. More(core, core', Tel(n))
      BY <1>3, <1>4, <1>5, <2>1, CorePosted
    <3>2. QED
      BY <1>5, <3>1, MoreTel
  <2>2. CASE ~Accepts(core, CoreCapacity)
    <3>1. core' = core
      BY <1>3, <1>4, <1>5, <2>2, CorePosted
    <3>2. QED
      BY <3>1 DEF SameCounts
  <2>3. QED
    BY <2>1, <2>2
<1>8. Ends' /\ EndsSum'
  BY <1>1, <1>7, MainFields DEF Ends, EndsSum, SameCounts
<1>9. OneBarrier' /\ StopOrder'
  BY <1>1, <1>6, <1>7, MainFields DEF OneBarrier, StopOrder, SameCounts
<1>10. /\ Holds(core', MqttTask) = Holds(core, MqttTask)
       /\ Holds(core', RowsTask) = Holds(core, RowsTask)
       /\ \A x : Holds(core', {Http(x)}) = Holds(core, {Http(x)})
       /\ \A x : Holds(core', {Rows(x)}) = Holds(core, {Rows(x)})
  BY <1>7 DEF SameCounts
<1>11. QED
  BY <1>1, <1>2, <1>6, <1>8, <1>9, <1>10, MainFields, MainFrame

LEMMA RequestStopStep == CoreIInv /\ RequestStop => CoreIInv'
<1> SUFFICES ASSUME CoreIInv, RequestStop PROVE CoreIInv'
  OBVIOUS
<1>1. /\ stopping' \in BOOLEAN /\ UNCHANGED <<core, cmd_queue, inflight, main, pending>>
      /\ UNCHANGED <<mqttVars, idVars, queries, query, asked, replied, admitted, worker>>
      /\ UNCHANGED <<accepting, httpUp, frames>> /\ stopping'
  BY DEF RequestStop, httpVars, idVars
<1>2. Ends' /\ EndsSum'
  BY <1>1, MainFields DEF Ends, EndsSum
<1>3. OneBarrier' /\ StopOrder'
  BY <1>1, MainFields DEF OneBarrier, StopOrder
<1>4. QED
  BY <1>1, <1>2, <1>3, MainFields, MainFrame

(***************************************************************************)
(* The shutdown.                                                           *)
(***************************************************************************)
(* A step of ~GatewayApp that leaves the executors as they are. *)
LEMMA DestroyFrame ==
  ASSUME CoreIInv,
         UNCHANGED <<mqttVars, idVars, queries, asked, replied, admitted, frames>>,
         UNCHANGED <<inflight, core, query, worker>>,
         accepting' \in BOOLEAN, stopping' \in BOOLEAN, httpUp' \in BOOLEAN,
         main' \in Places, main # "wait", main' # "wait",
         cmd_queue' \in [items : Seq(Nat), shutdown : BOOLEAN],
         cmd_queue'.items = cmd_queue.items, StopOrder'
  PROVE  CoreIInv'
<1>1. Ends' /\ EndsSum'
  BY MainFields DEF Ends, EndsSum, idVars
<1>2. OneBarrier'
  BY MainFields DEF OneBarrier, One
<1>3. QED
  BY <1>1, <1>2, MainFields, MainFrame

LEMMA LeaveLoopStep ==
  ASSUME CoreIInv, LeaveLoop,
         UNCHANGED <<mqttVars, idVars, queries, asked, replied, admitted, frames>>
  PROVE  CoreIInv'
<1>1. /\ main = "loop" /\ main' = "join http" /\ stopping' = TRUE
      /\ UNCHANGED <<accepting, inflight, httpUp, core, query, worker>>
  BY DEF LeaveLoop, At
<1>2. /\ cmd_queue' \in [items : Seq(Nat), shutdown : BOOLEAN]
      /\ cmd_queue'.items = cmd_queue.items /\ cmd_queue'.shutdown
  BY MainFields DEF LeaveLoop
<1>3. StopOrder'
  BY <1>1, <1>2, MainFields DEF StopOrder
<1>4. main' \in Places
  BY <1>1 DEF Places
<1>5. QED
  BY <1>1, <1>2, <1>3, <1>4, MainFields, DestroyFrame

LEMMA JoinHttpStep ==
  ASSUME CoreIInv, JoinHttp,
         UNCHANGED <<mqttVars, idVars, queries, asked, replied, admitted, frames>>
  PROVE  CoreIInv'
<1>1. /\ main = "join http" /\ main' = "reject" /\ httpUp' = FALSE
      /\ UNCHANGED <<accepting, stopping, cmd_queue, inflight, core, query, worker>>
  BY DEF JoinHttp, At
<1>2. StopOrder'
  BY <1>1, MainFields DEF StopOrder
<1>3. main' \in Places
  BY <1>1 DEF Places
<1>4. QED
  BY <1>1, <1>2, <1>3, MainFields, DestroyFrame

LEMMA RejectQueuedStep ==
  ASSUME CoreIInv, RejectQueued,
         UNCHANGED <<mqttVars, idVars, queries, asked, replied, admitted, frames>>
  PROVE  CoreIInv'
<1>1. /\ UNCHANGED <<accepting, stopping, inflight, httpUp, query, worker>>
      /\ main = "reject" /\ BeforeBarrier /\ pending' = pending
  BY DEF RejectQueued, At, BeforeBarrier, idVars
<1>2. CASE /\ cmd_queue.items = <<>> /\ main' = "finish"
           /\ UNCHANGED <<cmd_queue, core>>
  <2>1. StopOrder'
    BY <1>1, <1>2, MainFields DEF StopOrder
  <2>2. main' \in Places
    BY <1>2 DEF Places
  <2>3. QED
    BY <1>1, <1>2, <2>1, <2>2, MainFields, DestroyFrame
<1>3. CASE /\ cmd_queue.items # <<>> /\ main' = "reject"
           /\ commandFinished(Head(cmd_queue.items))
           /\ cmd_queue' = [cmd_queue EXCEPT !.items = Tail(@)]
  <2>1. /\ Head(cmd_queue.items) \in Nat
        /\ cmd_queue' \in [items : Seq(Nat), shutdown : BOOLEAN]
        /\ cmd_queue'.shutdown = cmd_queue.shutdown
    BY <1>3, HeadOfQueue
  <2>2. Ends' /\ EndsSum'
    BY <1>1, <1>3, HeadFinished
  <2>3. QED
    BY <1>1, <1>3, <2>1, <2>2, CompletionStep
<1>4. QED
  BY <1>2, <1>3 DEF RejectQueued, At

LEMMA FinishInflightStep ==
  ASSUME CoreIInv, FinishInflight,
         UNCHANGED <<mqttVars, idVars, queries, asked, replied, admitted, frames>>
  PROVE  CoreIInv'
<1>1. /\ UNCHANGED <<accepting, stopping, cmd_queue, httpUp, query, worker>>
      /\ main = "finish" /\ BeforeBarrier /\ pending' = pending
  BY DEF FinishInflight, At, BeforeBarrier, idVars
<1>2. CASE inflight = {} /\ main' = "accepting" /\ UNCHANGED <<core, inflight>>
  <2>1. StopOrder'
    BY <1>1, <1>2, MainFields DEF StopOrder
  <2>2. main' \in Places
    BY <1>2 DEF Places
  <2>3. QED
    BY <1>1, <1>2, <2>1, <2>2, MainFields, DestroyFrame
<1>3. CASE /\ main' = "finish"
           /\ \E id \in inflight : commandFinished(id) /\ inflight' = inflight \ {id}
  <2>1. PICK i \in inflight : commandFinished(i) /\ inflight' = inflight \ {i}
    BY <1>3
  <2>2. i \in Nat /\ inflight' \subseteq inflight
    BY <2>1, MainFields
  <2>3. Ends' /\ EndsSum'
    BY <1>1, <2>1, InflightFinished
  <2>4. QED
    BY <1>1, <1>3, <2>1, <2>2, <2>3, MainFields, CompletionStep
<1>4. QED
  BY <1>2, <1>3 DEF FinishInflight, At

LEMMA StopAcceptingStep ==
  ASSUME CoreIInv, StopAccepting,
         UNCHANGED <<mqttVars, idVars, queries, asked, replied, admitted, frames>>
  PROVE  CoreIInv'
<1>1. /\ main = "accepting" /\ main' = "barrier" /\ accepting' = FALSE
      /\ UNCHANGED <<stopping, cmd_queue, inflight, httpUp, core, query, worker>>
  BY DEF StopAccepting, At
<1>2. StopOrder'
  BY <1>1, MainFields DEF StopOrder
<1>3. main' \in Places
  BY <1>1 DEF Places
<1>4. QED
  BY <1>1, <1>2, <1>3, MainFields, DestroyFrame

(* While the main thread is before the barrier, core takes a completion. *)
LEMMA BarrierAccepted ==
  ASSUME CoreIInv, BeforeBarrier
  PROVE  Accepts(core, CoreLimit)
<1> DEFINE I == Len(cmd_queue.items)
           J == Cardinality(inflight)
           Q == Load(query)
           X == One(BeforeBarrier)
<1>1. I \in Nat /\ J \in Nat /\ Q \in Nat /\ X = 1
  BY CountTypes DEF One
<1>2. ToCome = I + J + Q + X
  BY DEF ToCome
<1> HIDE DEF I, J, Q, X
<1>3. ToCome > 0
  BY <1>1, <1>2
<1>4. QED
  BY <1>3, CoreRoom

LEMMA PostBarrierStep ==
  ASSUME CoreIInv, PostBarrier,
         UNCHANGED <<mqttVars, idVars, queries, asked, replied, admitted, frames>>
  PROVE  CoreIInv'
<1>1. /\ main = "barrier" /\ BeforeBarrier /\ pending' = pending
      /\ core' = post(core, Barrier, CoreLimit)
      /\ UNCHANGED <<accepting, stopping, cmd_queue, inflight, httpUp, query, worker>>
  BY DEF PostBarrier, At, Barrier, BeforeBarrier, idVars
<1>2. Accepts(core, CoreLimit)
  BY <1>1, BarrierAccepted
<1>3. main' = "wait" /\ main' \in Places
  BY <1>2 DEF PostBarrier, At, Places
<1>4. Barrier \in CTask /\ Barrier \notin OrdTask
  BY BarrierKind
<1>5. core \in ExecutorOf(CTask) /\ TypeInv
  BY MainFields DEF CoreIInv
<1>6. /\ core' \in ExecutorOf(CTask) /\ core'.closed = core.closed
      /\ Number(core'.tasks, OrdTask) <= CoreCapacity /\ More(core, core', Barrier)
  BY <1>1, <1>2, <1>4, <1>5, QueryFields, CorePosted, CorePostedOrdinary
<1>7. /\ Holds(core', MqttTask) = Holds(core, MqttTask)
      /\ Holds(core', FinTask) = Holds(core, FinTask)
      /\ Holds(core', RowsTask) = Holds(core, RowsTask)
      /\ Holds(core', {Barrier}) = Holds(core, {Barrier}) + 1
      /\ \A x : Holds(core', {Fin(x)}) = Holds(core, {Fin(x)})
      /\ \A x : Holds(core', {Http(x)}) = Holds(core, {Http(x)})
      /\ \A x : Holds(core', {Rows(x)}) = Holds(core, {Rows(x)})
  BY <1>5, <1>6, MoreBarrier
<1>8. Ends' /\ EndsSum'
  BY <1>1, <1>7, MainFields DEF Ends, EndsSum
<1>9. OneBarrier'
  <2>1. Holds(core, {Barrier}) = 0
    BY <1>1, MainFields DEF OneBarrier, One
  <2>2. Holds(core', {Barrier}) = 1
    BY <1>7, <2>1
  <2>3. QED
    BY <1>3, <2>2 DEF OneBarrier, One
<1>10. StopOrder'
  BY <1>1, <1>3, <1>6, MainFields DEF StopOrder
<1>11. QED
  BY <1>1, <1>3, <1>6, <1>7, <1>8, <1>9, <1>10, MainFields, MainFrame

(* A step of ~GatewayApp that closes a mailbox changes nothing that counts. *)
LEMMA CloseFrame ==
  ASSUME CoreIInv,
         UNCHANGED <<mqttVars, idVars, queries, asked, replied, admitted, frames>>,
         UNCHANGED <<accepting, stopping, cmd_queue, inflight, httpUp>>,
         core' \in {core, close(core)}, query' \in {query, close(query)},
         worker' \in {worker, close(worker)},
         main' \in Places, main # "wait", main' # "wait", StopOrder'
  PROVE  CoreIInv'
<1> USE DEF mqttVars, idVars
<1>1. core \in ExecutorOf(CTask) /\ query \in ExecutorOf(QueryTask) /\ worker \in ExecutorOf(WorkerTask)
  BY QueryFields, WorkerFields
<1>2. /\ core' \in ExecutorOf(CTask) /\ core'.tasks = core.tasks
      /\ \A S : Holds(core', S) = Holds(core, S)
  BY <1>1, CloseFields
<1>3. /\ query' \in ExecutorOf(QueryTask) /\ query'.tasks = query.tasks
      /\ query'.busy = query.busy /\ \A S : Holds(query', S) = Holds(query, S)
  BY <1>1, CloseFields
<1>4. /\ worker' \in ExecutorOf(WorkerTask) /\ worker'.tasks = worker.tasks
      /\ \A S : Holds(worker', S) = Holds(worker, S)
  BY <1>1, CloseFields
<1>5. TypeInv'
  BY <1>2, <1>3, <1>4 DEF CoreIInv, TypeInv
<1>6. Posting' = Posting
  BY DEF Posting
<1>7. Credits'
  BY <1>2, <1>4, <1>6 DEF CoreIInv, Counted, Credits
<1>8. Ends' /\ EndsSum'
  BY <1>2, MainFields DEF Ends, EndsSum
<1>9. Load(query') = Load(query)
  BY <1>3 DEF Load
<1>10. Queries' /\ Replies'
  BY <1>2, <1>3, <1>9 DEF CoreIInv, Counted, Queries, Replies
<1>11. OneBarrier' /\ Ordinary'
  BY <1>2, <1>4 DEF CoreIInv, Counted, OneBarrier, Ordinary, One
<1>12. QED
  BY <1>5, <1>7, <1>8, <1>10, <1>11 DEF CoreIInv, Counted

LEMMA StopQueriesStep ==
  ASSUME CoreIInv, StopQueries,
         UNCHANGED <<mqttVars, idVars, queries, asked, replied, admitted, frames>>
  PROVE  CoreIInv'
<1>1. /\ main = "queries" /\ main' = "core" /\ query' = close(query)
      /\ UNCHANGED <<accepting, stopping, cmd_queue, inflight, httpUp, core, worker>>
  BY DEF StopQueries, At
<1>2. query'.closed
  BY <1>1, QueryFields, CloseFields
<1>3. StopOrder'
  BY <1>1, <1>2, MainFields DEF StopOrder
<1>4. main' \in Places
  BY <1>1 DEF Places
<1>5. QED
  BY <1>1, <1>3, <1>4, CloseFrame

LEMMA StopCoreStep ==
  ASSUME CoreIInv, StopCore,
         UNCHANGED <<mqttVars, idVars, queries, asked, replied, admitted, frames>>
  PROVE  CoreIInv'
<1>1. /\ main = "core" /\ main' = "worker" /\ core' = close(core) /\ Drained(query)
      /\ UNCHANGED <<accepting, stopping, cmd_queue, inflight, httpUp, query, worker>>
  BY DEF StopCore, At
<1>2. core'.closed
  BY <1>1, QueryFields, CloseFields
<1>3. Drained(query')
  BY <1>1
<1>4. StopOrder'
  BY <1>1, <1>2, <1>3, MainFields DEF StopOrder
<1>5. main' \in Places
  BY <1>1 DEF Places
<1>6. QED
  BY <1>1, <1>4, <1>5, CloseFrame

LEMMA StopWorkerStep ==
  ASSUME CoreIInv, StopWorker,
         UNCHANGED <<mqttVars, idVars, queries, asked, replied, admitted, frames>>
  PROVE  CoreIInv'
<1>1. /\ main = "worker" /\ main' = "mqtt" /\ worker' = close(worker) /\ Drained(core)
      /\ UNCHANGED <<accepting, stopping, cmd_queue, inflight, httpUp, core, query>>
  BY DEF StopWorker, At
<1>2. worker'.closed
  BY <1>1, WorkerFields, CloseFields
<1>3. StopOrder'
  BY <1>1, <1>2, MainFields DEF StopOrder
<1>4. main' \in Places
  BY <1>1 DEF Places
<1>5. QED
  BY <1>1, <1>3, <1>4, CloseFrame

LEMMA StopMqttStep ==
  ASSUME CoreIInv, StopMqtt,
         UNCHANGED <<mqttVars, idVars, queries, asked, replied, admitted, frames>>
  PROVE  CoreIInv'
<1>1. /\ main = "mqtt" /\ main' = "done"
      /\ UNCHANGED <<accepting, stopping, cmd_queue, inflight, httpUp, core, query, worker>>
  BY DEF StopMqtt, At
<1>2. StopOrder'
  BY <1>1, MainFields DEF StopOrder
<1>3. main' \in Places
  BY <1>1 DEF Places
<1>4. QED
  BY <1>1, <1>2, <1>3, CloseFrame

LEMMA DestroyStep == CoreIInv /\ Destroy => CoreIInv'
<1> SUFFICES ASSUME CoreIInv, Destroy PROVE CoreIInv'
  OBVIOUS
<1>1. UNCHANGED <<mqttVars, idVars, queries, asked, replied, admitted, frames>>
  BY DEF Destroy
<1>2. QED
  BY <1>1, LeaveLoopStep, JoinHttpStep, RejectQueuedStep, FinishInflightStep, StopAcceptingStep,
     PostBarrierStep, StopQueriesStep, StopCoreStep, StopWorkerStep, StopMqttStep DEF Destroy

LEMMA QueryStep == CoreIInv /\ QueryNext => CoreIInv'
<1> SUFFICES ASSUME CoreIInv, QueryNext PROVE CoreIInv'
  OBVIOUS
<1>1. UNCHANGED <<mqttVars, idVars, mainVars, cmd_queue, admitted, worker, queries, httpUp,
                  asked, replied>>
  BY DEF QueryNext
<1>2. QED
  BY <1>1, QueryTakeStep, QueryRunStep DEF QueryNext

LEMMA StutterInv == CoreIInv /\ UNCHANGED vars => CoreIInv'
<1> SUFFICES ASSUME CoreIInv, UNCHANGED vars PROVE CoreIInv'
  OBVIOUS
<1>1. /\ UNCHANGED <<mqttVars, idVars, queries, query, asked, replied, admitted, worker>>
      /\ UNCHANGED <<accepting, stopping, httpUp, frames, main, inflight, cmd_queue, core, pending>>
  BY DEF vars, httpVars, mainVars, idVars
<1>2. Ends' /\ EndsSum' /\ OneBarrier' /\ StopOrder'
  BY <1>1, MainFields DEF Ends, EndsSum, OneBarrier, StopOrder
<1>3. QED
  BY <1>1, <1>2, MainFields, MainFrame

LEMMA StepInv == CoreIInv /\ [Next]_vars => CoreIInv'
<1> SUFFICES ASSUME CoreIInv, [Next]_vars PROVE CoreIInv'
  OBVIOUS
<1>1. CASE \E t \in MqttThread : MqttNext(t) \/ \E m \in Msg : MqttArrives(t, m)
  BY <1>1, MqttStep, MqttArrivesStep
<1>2. CASE CoreNext
  BY <1>2, CoreStep
<1>3. CASE QueryNext
  BY <1>3, QueryStep
<1>4. CASE WorkerNext
  BY <1>4, WorkerStep
<1>5. CASE HttpNext
  BY <1>5, HttpThreadStep
<1>6. CASE Reactor(ReactorTakes)
  BY <1>6, ReactorTakesStep
<1>7. CASE Reactor(ReactorFinishes)
  BY <1>7, ReactorFinishesStep
<1>8. CASE Reactor(ReactorTelemetry)
  BY <1>8, ReactorTelemetryStep
<1>9. CASE RequestStop
  BY <1>9, RequestStopStep
<1>10. CASE Destroy
  BY <1>10, DestroyStep
<1>11. CASE UNCHANGED vars
  BY <1>11, StutterInv
<1>12. QED
  BY <1>1, <1>2, <1>3, <1>4, <1>5, <1>6, <1>7, <1>8, <1>9, <1>10, <1>11 DEF Next, Terminated
-----------------------------------------------------------------------------
(* The invariant that carries the proofs holds in every reachable state:   *)
(* credits, pending commands, queries and requests are each in exactly one *)
(* place of the mailboxes, the queue and the threads, and the mailboxes    *)
(* are closed in the order of GatewayCore::stop.                           *)
THEOREM CoreInvariant == Spec => []CoreIInv
BY InitInv, StepInv, PTL DEF Spec

(* No credit of admitted_ leaks, none is given back twice, and a pending   *)
(* command is in exactly one of cmd_queue_, requests_ and the mailbox, on  *)
(* every path of mqttMessage, handleMqtt, commandFinished, publishCommand  *)
(* and ~GatewayApp, for any number of threads and messages.                *)
THEOREM CoreCommandsAccounted == Spec => []CommandsAccounted
BY CoreInvariant, ImpliesAccounted, PTL

(* The reserve that GatewayCore gives its two mailboxes, kMaxCommands +    *)
(* kMaxQueries + 8 and kMaxCommands + 16, is enough for every completion   *)
(* that may still be posted, whatever the capacities, and neither mailbox  *)
(* is closed before the last one: no completion is ever refused.           *)
THEOREM CoreRoomForCompletions == Spec => []RoomForCompletions
BY CoreInvariant, ImpliesRoom, PTL

(* Every HTTP request that arrived was replied to exactly once or is in    *)
(* exactly one mailbox (handleHttp, the completion of a query).            *)
THEOREM CoreOneReplyPerRequest == Spec => []OneReplyPerRequest
BY CoreInvariant, ImpliesReply, PTL
-----------------------------------------------------------------------------
(* The conversions. *)

\* A word is written as two bytes, and read back wherever they stand.
LEMMA WordBytes ==
  ASSUME NEW v \in Word
  PROVE  /\ edge_u16_be_write(v) \in Seq(Octet)
         /\ Len(edge_u16_be_write(v)) = 2
         /\ edge_u16_be_write(v)[1] \in Octet /\ edge_u16_be_write(v)[2] \in Octet
         /\ 256 * edge_u16_be_write(v)[1] + edge_u16_be_write(v)[2] = v
<1> DEFINE hi == (v \div 256) % 256
           lo == v % 256
<1>1. hi \in Octet /\ lo \in Octet /\ 256 * hi + lo = v
  <2>1. v \in Nat /\ v <= 65535
    BY DEF Word
  <2>2. v = 256 * (v \div 256) + lo /\ v \div 256 \in Nat /\ lo \in Octet
    BY <2>1 DEF Octet
  <2>3. v \div 256 < 256
    BY <2>1, <2>2 DEF Octet
  <2>4. hi = v \div 256
    BY <2>2, <2>3
  <2>5. v \div 256 \in Octet
    BY <2>1, <2>2, <2>3 DEF Octet
  <2>6. QED
    BY <2>2, <2>4, <2>5
<1>2. edge_u16_be_write(v) = <<hi, lo>>
  BY DEF edge_u16_be_write
<1> HIDE DEF hi, lo
<1>3. QED
  BY <1>1, <1>2

\* One turn of the loops of edge_u64_be_write() and edge_u64_be_read().
LEMMA ShiftAndJoin ==
  ASSUME NEW v \in Nat
  PROVE  /\ Shifted(v) \in Nat
         /\ v % 256 \in Octet
         /\ Joined(Shifted(v), v % 256) = v
         /\ v < 256 => v % 256 = v
BY DEF Shifted, Joined, Octet

LEMMA SessionBytes ==
  ASSUME NEW v, IsU64(v)
  PROVE  /\ edge_u64_be_write(v) \in Seq(Octet)
         /\ Len(edge_u64_be_write(v)) = 8
         /\ \A p, at : (\A i \in 1 .. 8 : p[at + i] = edge_u64_be_write(v)[i]) =>
              edge_u64_be_read(p, at) = v
<1> DEFINE v1 == Shifted(v)   v2 == Shifted(v1)  v3 == Shifted(v2)
           v4 == Shifted(v3)  v5 == Shifted(v4)  v6 == Shifted(v5)
           v7 == Shifted(v6)  w == edge_u64_be_write(v)
<1>0. v \in Nat /\ v7 < 256
  BY DEF IsU64
<1>1. w = <<v7 % 256, v6 % 256, v5 % 256, v4 % 256,
            v3 % 256, v2 % 256, v1 % 256, v % 256>>
  BY DEF edge_u64_be_write
<1> HIDE DEF w
<1>2. v1 \in Nat /\ v % 256 \in Octet /\ Joined(v1, v % 256) = v
  BY <1>0, ShiftAndJoin
<1>3. v2 \in Nat /\ v1 % 256 \in Octet /\ Joined(v2, v1 % 256) = v1
  BY <1>2, ShiftAndJoin
<1>4. v3 \in Nat /\ v2 % 256 \in Octet /\ Joined(v3, v2 % 256) = v2
  BY <1>3, ShiftAndJoin
<1>5. v4 \in Nat /\ v3 % 256 \in Octet /\ Joined(v4, v3 % 256) = v3
  BY <1>4, ShiftAndJoin
<1>6. v5 \in Nat /\ v4 % 256 \in Octet /\ Joined(v5, v4 % 256) = v4
  BY <1>5, ShiftAndJoin
<1>7. v6 \in Nat /\ v5 % 256 \in Octet /\ Joined(v6, v5 % 256) = v5
  BY <1>6, ShiftAndJoin
<1>8. v7 \in Nat /\ v6 % 256 \in Octet /\ Joined(v7, v6 % 256) = v6
  BY <1>7, ShiftAndJoin
<1> HIDE DEF v1, v2, v3, v4, v5, v6, v7
<1>9. v7 % 256 \in Octet /\ Joined(0, v7 % 256) = v7
  BY <1>8, <1>0 DEF Joined, Octet
<1>10. w \in Seq(Octet) /\ Len(w) = 8
  BY <1>1, <1>2, <1>3, <1>4, <1>5, <1>6, <1>7, <1>8, <1>9
<1>11. ASSUME NEW p, NEW at, \A i \in 1 .. 8 : p[at + i] = w[i]
       PROVE  edge_u64_be_read(p, at) = v
  <2>1. /\ p[at + 1] = v7 % 256 /\ p[at + 2] = v6 % 256
        /\ p[at + 3] = v5 % 256 /\ p[at + 4] = v4 % 256
        /\ p[at + 5] = v3 % 256 /\ p[at + 6] = v2 % 256
        /\ p[at + 7] = v1 % 256 /\ p[at + 8] = v % 256
    BY <1>1, <1>11
  <2>2. edge_u64_be_read(p, at) =
          Joined(Joined(Joined(Joined(Joined(Joined(Joined(Joined(0,
            v7 % 256), v6 % 256), v5 % 256), v4 % 256), v3 % 256), v2 % 256),
            v1 % 256), v % 256)
    BY <2>1 DEF edge_u64_be_read
  <2>3. QED
    BY <2>2, <1>2, <1>3, <1>4, <1>5, <1>6, <1>7, <1>8, <1>9
<1>12. QED
  BY <1>10, <1>11 DEF w

\* Where the bytes of two parts, m and n long, are when they are put together.
Joins(p, s, t, m, n) ==
  /\ p \in Seq(Octet) /\ Len(p) = m + n
  /\ \A i \in 1 .. m : p[i] = s[i]
  /\ \A i \in 1 .. n : p[m + i] = t[i]

LEMMA PartsInPlace ==
  ASSUME NEW s \in Seq(Octet), NEW t \in Seq(Octet)
  PROVE  Joins(s \o t, s, t, Len(s), Len(t))
<1> DEFINE p == s \o t  m == Len(s)  n == Len(t)
<1>1. /\ p \in Seq(Octet)
      /\ Len(p) = m + n
      /\ \A i \in 1 .. m + n : p[i] = IF i <= m THEN s[i] ELSE t[i - m]
  BY ConcatProperties, Zenon
<1>2. m \in Nat /\ n \in Nat
  OBVIOUS
<1> HIDE DEF p, m, n
<1>3. ASSUME NEW i \in 1 .. m PROVE p[i] = s[i]
  BY <1>1, <1>2
<1>4. ASSUME NEW i \in 1 .. n PROVE p[m + i] = t[i]
  <2>1. m + i \in 1 .. m + n /\ ~(m + i <= m) /\ (m + i) - m = i
    BY <1>2
  <2>2. QED
    BY <1>1, <2>1
<1>5. QED
  BY <1>1, <1>3, <1>4 DEF p, m, n, Joins

\* The payloads of COMMAND and RESULT, of RECEIVED and RESULT_ACK, and of
\* OPEN_ACK: their length, and their fields where the other end reads them.
LEMMA BodyPayloadFields ==
  ASSUME NEW session, IsU64(session), NEW seq \in Octet, NEW type \in Octet,
         NEW body \in Seq(Octet)
  PROVE  LET p == BodyPayload(session, seq, type, body)
         IN  /\ p \in Seq(Octet) /\ Len(p) = 10 + Len(body)
             /\ edge_u64_be_read(p, 0) = session /\ p[9] = seq /\ p[10] = type
             /\ \A i \in 1 .. Len(body) : p[10 + i] = body[i]
             /\ Body(p) = body
<1> DEFINE w == edge_u64_be_write(session)
           p == BodyPayload(session, seq, type, body)
<1>1. w \in Seq(Octet) /\ Len(w) = 8
  BY SessionBytes
<1>2. p = w \o <<seq, type>> \o body
  BY DEF BodyPayload
<1> HIDE DEF w, p
<1> DEFINE two == <<seq, type>>
           head == w \o two
<1>a. two \in Seq(Octet) /\ Len(two) = 2 /\ two[1] = seq /\ two[2] = type
  OBVIOUS
<1> HIDE DEF two
<1>b. Joins(head, w, two, 8, 2)
  BY <1>1, <1>a, PartsInPlace, Zenon
<1>c. p = head \o body
  BY <1>2 DEF two
<1> HIDE DEF head
<1>d. head \in Seq(Octet) /\ Len(head) = 10
  BY <1>b DEF Joins
<1>e. Joins(p, head, body, 10, Len(body))
  BY <1>c, <1>d, PartsInPlace, Zenon
<1>3. /\ p \in Seq(Octet) /\ Len(p) = 10 + Len(body)
      /\ \A i \in 1 .. Len(body) : p[10 + i] = body[i]
  BY <1>e DEF Joins
<1>4. /\ \A i \in 1 .. 8 : p[i] = w[i]
      /\ p[9] = seq /\ p[10] = type
  BY <1>a, <1>b, <1>e, SMTT(20) DEF Joins
<1>5. edge_u64_be_read(p, 0) = session
  <2>1. \A i \in 1 .. 8 : p[0 + i] = w[i]
    BY <1>4
  <2>2. QED
    <3>1. \A q, at : (\A i \in 1 .. 8 : q[at + i] = edge_u64_be_write(session)[i])
                       => edge_u64_be_read(q, at) = session
      BY SessionBytes
    <3>2. QED
      BY <2>1, <3>1, ZenonT(30) DEF w
<1>6. Body(p) = body
  <2>1. Body(p) \in Seq(Octet) /\ Len(Body(p)) = Len(body)
    BY <1>3 DEF Body
  <2>2. \A i \in 1 .. Len(body) : Body(p)[i] = body[i]
    BY <1>3, <1>4 DEF Body
  <2>3. QED
    BY <2>1, <2>2
<1>7. QED
  BY <1>3, <1>4, <1>5, <1>6 DEF p

LEMMA SeqPayloadFields ==
  ASSUME NEW session, IsU64(session), NEW seq \in Octet
  PROVE  LET p == SeqPayload(session, seq)
         IN  /\ p \in Seq(Octet) /\ Len(p) = 9
             /\ edge_u64_be_read(p, 0) = session /\ p[9] = seq
<1> DEFINE w == edge_u64_be_write(session)
           p == SeqPayload(session, seq)
<1>1. w \in Seq(Octet) /\ Len(w) = 8
  BY SessionBytes
<1>2. p = w \o <<seq>>
  BY DEF SeqPayload
<1> HIDE DEF w, p
<1> DEFINE one == <<seq>>
<1>a. one \in Seq(Octet) /\ Len(one) = 1 /\ one[1] = seq
  OBVIOUS
<1>b. p = w \o one
  BY <1>2
<1> HIDE DEF one
<1>3. Joins(p, w, one, 8, 1)
  BY <1>1, <1>a, <1>b, PartsInPlace, Zenon
<1>4. /\ p \in Seq(Octet) /\ Len(p) = 9 /\ p[9] = seq
      /\ \A i \in 1 .. 8 : p[0 + i] = w[i]
  BY <1>3, <1>a DEF Joins
<1>5. edge_u64_be_read(p, 0) = session
  BY <1>4, SessionBytes, SMTT(20) DEF w
<1>6. QED
  BY <1>4, <1>5 DEF p

LEMMA OpenAckPayloadFields ==
  ASSUME NEW session, IsU64(session), NEW high, IsU64(high), NEW rc \in Octet
  PROVE  LET p == OpenAckPayload(session, high, rc)
         IN  /\ p \in Seq(Octet) /\ Len(p) = 17
             /\ edge_u64_be_read(p, 0) = session
             /\ edge_u64_be_read(p, 8) = high /\ p[17] = rc
<1> DEFINE w == edge_u64_be_write(session)
           h == edge_u64_be_write(high)
           p == OpenAckPayload(session, high, rc)
<1>1. w \in Seq(Octet) /\ Len(w) = 8 /\ h \in Seq(Octet) /\ Len(h) = 8
  BY SessionBytes
<1>2. p = w \o h \o <<rc>>
  BY DEF OpenAckPayload
<1> HIDE DEF w, h, p
<1> DEFINE one == <<rc>>
           both == w \o h
<1>a. one \in Seq(Octet) /\ Len(one) = 1 /\ one[1] = rc
  OBVIOUS
<1>b. p = both \o one
  BY <1>2
<1> HIDE DEF one
<1>c. Joins(both, w, h, 8, 8)
  BY <1>1, PartsInPlace, Zenon
<1> HIDE DEF both
<1>d. both \in Seq(Octet) /\ Len(both) = 16
  BY <1>c DEF Joins
<1>3. Joins(p, both, one, 16, 1)
  BY <1>a, <1>b, <1>d, PartsInPlace, Zenon
<1>4. /\ p \in Seq(Octet) /\ Len(p) = 17 /\ p[17] = rc
      /\ \A i \in 1 .. 8 : p[0 + i] = w[i]
      /\ \A i \in 1 .. 8 : p[8 + i] = h[i]
  BY <1>a, <1>c, <1>3 DEF Joins
<1>5. edge_u64_be_read(p, 0) = session
  <2>1. \A i \in 1 .. 8 : p[0 + i] = edge_u64_be_write(session)[i]
    BY <1>4 DEF w
  <2>2. QED
    <3>1. \A q, at : (\A i \in 1 .. 8 : q[at + i] = edge_u64_be_write(session)[i])
                       => edge_u64_be_read(q, at) = session
      BY SessionBytes
    <3>2. QED
      BY <2>1, <3>1, ZenonT(30)
<1>6. edge_u64_be_read(p, 8) = high
  <2>1. \A i \in 1 .. 8 : p[8 + i] = edge_u64_be_write(high)[i]
    BY <1>4 DEF h
  <2>2. \A q, at : (\A i \in 1 .. 8 : q[at + i] = edge_u64_be_write(high)[i]) =>
          edge_u64_be_read(q, at) = high
    BY SessionBytes, Zenon
  <2>3. QED
    BY <2>1, <2>2
<1>7. QED
  BY <1>4, <1>5, <1>6 DEF p

(***************************************************************************)
(* Both ends of the line agree on the layout of every SR frame, for every  *)
(* session of 64 bits, every number and every body that is not too long.   *)
(***************************************************************************)
THEOREM SrLayout ==
  ASSUME NEW session, IsU64(session), NEW high, IsU64(high),
         NEW seq \in Octet, NEW type \in Octet, NEW rc \in Octet,
         NEW body \in Seq(Octet), Len(body) <= EDGE_SR_ARGS_MAX
  PROVE  SrPayloadsAgree(session, high, seq, type, body, rc)
<1> DEFINE open == OpenPayload(session)
           whole == BodyPayload(session, seq, type, body)
           receipt == SeqPayload(session, seq)
           answer == OpenAckPayload(session, high, rc)
<1>1. Len(open) = 8 /\ edge_u64_be_read(open, 0) = session
  <2>1. \A i \in 1 .. 8 : open[0 + i] = edge_u64_be_write(session)[i]
    BY DEF OpenPayload
  <2>2. edge_u64_be_read(open, 0) = session
    <3>1. \A q, at : (\A i \in 1 .. 8 : q[at + i] = edge_u64_be_write(session)[i])
                       => edge_u64_be_read(q, at) = session
      BY SessionBytes
    <3>2. QED
      BY <2>1, <3>1, ZenonT(30)
  <2>3. Len(open) = 8
    BY SessionBytes DEF OpenPayload
  <2>4. QED
    BY <2>2, <2>3
<1>2. /\ Len(whole) = 10 + Len(body)
      /\ edge_u64_be_read(whole, 0) = session
      /\ whole[9] = seq /\ whole[10] = type /\ Body(whole) = body
  BY BodyPayloadFields
<1>3. /\ Len(receipt) = 9
      /\ edge_u64_be_read(receipt, 0) = session /\ receipt[9] = seq
  BY SeqPayloadFields, Zenon
<1>4. /\ Len(answer) = 17 /\ edge_u64_be_read(answer, 0) = session
      /\ edge_u64_be_read(answer, 8) = high /\ answer[17] = rc
  BY OpenAckPayloadFields
<1> HIDE DEF open, whole, receipt, answer
<1>5. Len(whole) \in 10 .. EDGE_PAYLOAD_MAX
  <2> DEFINE n == Len(body)
  <2>1. n \in Nat /\ n <= 53
    BY DEF EDGE_SR_ARGS_MAX, EDGE_PAYLOAD_MAX
  <2>2. Len(whole) = 10 + n
    BY <1>2
  <2> HIDE DEF n
  <2>3. QED
    BY <2>1, <2>2 DEF EDGE_PAYLOAD_MAX
<1>6. QED
  BY <1>1, <1>2, <1>3, <1>4, <1>5, Zenon
     DEF open, whole, receipt, answer, SrPayloadsAgree

\* A decimal without its trailing zero is the same number.
LEMMA FormatSays ==
  ASSUME NEW n \in Nat
  PROVE  Said(formatValue(n)) = n /\ formatValue(10 * n) = <<n>>
BY DEF Said, formatValue

(***************************************************************************)
(* The tracker's check of a result and the answer of the core agree, for   *)
(* every type and every result.                                            *)
(***************************************************************************)
THEOREM ValidResultsAreAnswered ==
  ASSUME NEW session, IsU64(session), NEW seq \in Octet, NEW type \in Octet,
         NEW body \in Seq(Octet)
  PROVE  ResultIsAnswered(session, seq, type, body)
<1> DEFINE p == BodyPayload(session, seq, type, body)
<1>1. /\ Len(p) = 10 + Len(body) /\ Body(p) = body
      /\ \A i \in 1 .. Len(body) : p[10 + i] = body[i]
  BY BodyPayloadFields
<1> HIDE DEF p
<1> SUFFICES ASSUME resultValid(type, p)
             PROVE  AnswerTo(type, body).says =
                      IF body[1] = EDGE_RC_OK THEN "ok" ELSE "err"
  BY <1>1 DEF ResultIsAnswered, p
<1>2. Len(body) \in Nat /\ Len(body) >= 1 /\ p[11] = body[1]
  BY <1>1 DEF resultValid
<1>3. CASE body[1] # EDGE_RC_OK
  BY <1>2, <1>3 DEF AnswerTo, Says
<1>4. CASE body[1] = EDGE_RC_OK
  <2>1. \/ type = EDGE_TYPE_QUERY_LIGHT /\ Len(p) = 13
        \/ type = EDGE_TYPE_QUERY_TH /\ Len(p) = 15
        \/ type = EDGE_TYPE_SET_PERIOD /\ Len(p) = 11
    BY <1>2, <1>4 DEF resultValid
  <2>2. \/ type = EDGE_TYPE_QUERY_LIGHT /\ Len(body) = 3
        \/ type = EDGE_TYPE_QUERY_TH /\ Len(body) = 5
        \/ type = EDGE_TYPE_SET_PERIOD /\ Len(body) = 1
    <3> DEFINE n == Len(body)
    <3>1. n \in Nat /\ Len(p) = 10 + n
      BY <1>1, <1>2
    <3> HIDE DEF n
    <3>2. \/ type = EDGE_TYPE_QUERY_LIGHT /\ n = 3
          \/ type = EDGE_TYPE_QUERY_TH /\ n = 5
          \/ type = EDGE_TYPE_SET_PERIOD /\ n = 1
      BY <3>1, <2>1
    <3>3. QED
      BY <3>2 DEF n
  <2>3. QED
    BY <2>2, <1>4 DEF AnswerTo, Says, EDGE_TYPE_QUERY_LIGHT, EDGE_TYPE_QUERY_TH,
                      EDGE_TYPE_SET_PERIOD, EDGE_RC_OK
<1>5. QED
  BY <1>3, <1>4

\* Two bytes put behind others.
LEMMA WordBehind ==
  ASSUME NEW c \in Octet, NEW d \in Octet, NEW s \in Seq(Octet), NEW p \in Seq(Octet),
         Len(p) = Len(s) + 2, p[Len(s) + 1] = c, p[Len(s) + 2] = d,
         \A i \in 1 .. Len(s) : p[i] = s[i]
  PROVE  s \o <<c, d>> = p
<1> DEFINE t == <<c, d>>
           q == s \o t
           m == Len(s)
<1>1. t \in Seq(Octet) /\ Len(t) = 2 /\ t[1] = c /\ t[2] = d
  OBVIOUS
<1> HIDE DEF t
<1>2. Joins(q, s, t, m, 2)
  BY <1>1, PartsInPlace, Zenon
<1>m. /\ m \in Nat /\ Len(p) = m + 2 /\ p[m + 1] = c /\ p[m + 2] = d
      /\ \A i \in 1 .. m : p[i] = s[i]
  OBVIOUS
<1> HIDE DEF q, m
<1>3. q \in Seq(Octet) /\ Len(q) = m + 2
  BY <1>2 DEF Joins
<1>4. ASSUME NEW i \in 1 .. m + 2 PROVE q[i] = p[i]
  <2>1. i \in 1 .. m \/ i = m + 1 \/ i = m + 2
    BY <1>m
  <2>2. \A j \in 1 .. 2 : q[m + j] = t[j]
    BY <1>2 DEF Joins
  <2>3. q[m + 1] = t[1] /\ q[m + 2] = t[2]
    BY <2>2
  <2>4. \A j \in 1 .. m : q[j] = s[j]
    BY <1>2 DEF Joins
  <2>5. QED
    BY <2>1, <2>3, <2>4, <1>1, <1>m
<1>5. q = p
  BY <1>m, <1>3, <1>4, SeqEqual
<1>6. QED
  BY <1>5 DEF q, t

\* What reading a word out of one, two or three parts of a payload gives.
LEMMA ReadingWords ==
  ASSUME NEW v \in Word, NEW u \in Word
  PROVE  /\ edge_u16_be_read(edge_u16_be_write(v), 0) = v
         /\ LET one == <<EDGE_RC_OK>> \o edge_u16_be_write(v)
            IN  /\ one \in Seq(Octet) /\ Len(one) = 3 /\ one[1] = EDGE_RC_OK
                /\ edge_u16_be_read(one, 1) = v
         /\ LET two == edge_u16_be_write(v) \o edge_u16_be_write(u)
            IN  /\ Len(two) = 4 /\ edge_u16_be_read(two, 0) = v
                /\ edge_u16_be_read(two, 2) = u
         /\ LET all == <<EDGE_RC_OK>> \o edge_u16_be_write(v) \o edge_u16_be_write(u)
            IN  /\ all \in Seq(Octet) /\ Len(all) = 5 /\ all[1] = EDGE_RC_OK
                /\ edge_u16_be_read(all, 1) = v /\ edge_u16_be_read(all, 3) = u
<1>1. PICK a \in Octet, b \in Octet : edge_u16_be_write(v) = <<a, b>> /\ 256 * a + b = v
  BY WordBytes DEF edge_u16_be_write
<1>2. PICK c \in Octet, d \in Octet : edge_u16_be_write(u) = <<c, d>> /\ 256 * c + d = u
  BY WordBytes DEF edge_u16_be_write
<1>0. EDGE_RC_OK \in Octet
  BY DEF EDGE_RC_OK, Octet
<1>3. <<EDGE_RC_OK>> \o <<a, b>> = <<EDGE_RC_OK, a, b>>
  <2> DEFINE s == <<EDGE_RC_OK>>  p == <<EDGE_RC_OK, a, b>>
  <2>1. /\ s \in Seq(Octet) /\ Len(s) = 1 /\ p \in Seq(Octet) /\ Len(p) = 1 + 2
        /\ p[1 + 1] = a /\ p[1 + 2] = b /\ \A i \in 1 .. 1 : p[i] = s[i]
    BY <1>0
  <2> HIDE DEF s, p
  <2>2. /\ Len(p) = Len(s) + 2 /\ p[Len(s) + 1] = a /\ p[Len(s) + 2] = b
        /\ \A i \in 1 .. Len(s) : p[i] = s[i]
    BY <2>1
  <2>3. s \o <<a, b>> = p
    BY <2>1, <2>2, WordBehind, Zenon
  <2>4. QED
    BY <2>3 DEF s, p
<1>4. <<a, b>> \o <<c, d>> = <<a, b, c, d>>
  <2> DEFINE s == <<a, b>>  p == <<a, b, c, d>>
  <2>1. /\ s \in Seq(Octet) /\ Len(s) = 2 /\ p \in Seq(Octet) /\ Len(p) = 2 + 2
        /\ p[2 + 1] = c /\ p[2 + 2] = d /\ \A i \in 1 .. 2 : p[i] = s[i]
    BY <1>0
  <2> HIDE DEF s, p
  <2>2. /\ Len(p) = Len(s) + 2 /\ p[Len(s) + 1] = c /\ p[Len(s) + 2] = d
        /\ \A i \in 1 .. Len(s) : p[i] = s[i]
    BY <2>1
  <2>3. s \o <<c, d>> = p
    BY <2>1, <2>2, WordBehind, Zenon
  <2>4. QED
    BY <2>3 DEF s, p
<1>5. <<EDGE_RC_OK, a, b>> \o <<c, d>> = <<EDGE_RC_OK, a, b, c, d>>
  <2> DEFINE s == <<EDGE_RC_OK, a, b>>  p == <<EDGE_RC_OK, a, b, c, d>>
  <2>1. /\ s \in Seq(Octet) /\ Len(s) = 3 /\ p \in Seq(Octet) /\ Len(p) = 3 + 2
        /\ p[3 + 1] = c /\ p[3 + 2] = d /\ \A i \in 1 .. 3 : p[i] = s[i]
    BY <1>0
  <2> HIDE DEF s, p
  <2>2. /\ Len(p) = Len(s) + 2 /\ p[Len(s) + 1] = c /\ p[Len(s) + 2] = d
        /\ \A i \in 1 .. Len(s) : p[i] = s[i]
    BY <2>1
  <2>3. s \o <<c, d>> = p
    BY <2>1, <2>2, WordBehind, Zenon
  <2>4. QED
    BY <2>3 DEF s, p
<1>7. QED
  BY <1>0, <1>1, <1>2, <1>3, <1>4, <1>5 DEF edge_u16_be_read

LEMMA WordIsNat == \A v \in Word : v \in Nat
BY DEF Word

LEMMA NatIsWord == \A v \in Nat : v <= 65535 => v \in Word
BY DEF Word

\* A telemetry frame of the length its type has is decoded.
LEMMA TelemetryLengths ==
  /\ edge_payload_len_ok(EDGE_TYPE_DHT11, 4 % 256)
  /\ edge_payload_len_ok(EDGE_TYPE_BH1750, 2 % 256)
  /\ edge_payload_len_ok(EDGE_TYPE_STATUS, 1 % 256)
<1>1. /\ edge_min_payload_len(EDGE_TYPE_DHT11) = 4
      /\ edge_min_payload_len(EDGE_TYPE_BH1750) = 2
      /\ edge_min_payload_len(EDGE_TYPE_STATUS) = 1
  BY DEF edge_min_payload_len, EDGE_TYPE_DHT11, EDGE_TYPE_BH1750, EDGE_TYPE_HEARTBEAT,
         EDGE_TYPE_STATUS, EDGE_TYPE_SR_RECEIVED, EDGE_TYPE_SR_RESULT,
         EDGE_TYPE_SR_OPEN_ACK, EDGE_TYPE_QUERY_LIGHT, EDGE_TYPE_QUERY_TH,
         EDGE_TYPE_SET_PERIOD, EDGE_TYPE_SR_OPEN, EDGE_TYPE_SR_COMMAND,
         EDGE_TYPE_SR_RESULT_ACK
<1>4. 4 % 256 = 4 /\ 2 % 256 = 2 /\ 1 % 256 = 1
  OBVIOUS
<1>5. QED
  BY <1>1, <1>4 DEF edge_payload_len_ok

\* What decodeTelemetry() makes of a frame, by its type.
LEMMA DecodedDht11 ==
  ASSUME NEW p, Len(p) = 4
  PROVE  decodeTelemetry([type |-> EDGE_TYPE_DHT11, payload |-> p]) =
           <<Reading("temperature", edge_u16_be_read(p, 0)),
             Reading("humidity", edge_u16_be_read(p, 2))>>
BY TelemetryLengths DEF decodeTelemetry, EDGE_TYPE_DHT11, EDGE_TYPE_BH1750, EDGE_TYPE_STATUS

LEMMA DecodedBh1750 ==
  ASSUME NEW p, Len(p) = 2
  PROVE  decodeTelemetry([type |-> EDGE_TYPE_BH1750, payload |-> p]) =
           <<Reading("illuminance", 10 * edge_u16_be_read(p, 0))>>
BY TelemetryLengths DEF decodeTelemetry, EDGE_TYPE_DHT11, EDGE_TYPE_BH1750, EDGE_TYPE_STATUS

LEMMA DecodedStatus ==
  ASSUME NEW bits \in Octet
  PROVE  decodeTelemetry([type |-> EDGE_TYPE_STATUS, payload |-> <<bits>>]) =
           <<Reading("status_dht11", 10 * (bits % 2)),
             Reading("status_bh1750", 10 * ((bits \div 2) % 2))>>
<1> DEFINE bit(n) == IF (bits \div n) % 2 = 1 THEN 10 ELSE 0
<1>1. decodeTelemetry([type |-> EDGE_TYPE_STATUS, payload |-> <<bits>>]) =
        <<Reading("status_dht11", bit(1)), Reading("status_bh1750", bit(2))>>
  BY TelemetryLengths DEF decodeTelemetry, EDGE_TYPE_DHT11, EDGE_TYPE_BH1750, EDGE_TYPE_STATUS
<1>2. bit(1) = 10 * (bits % 2) /\ bit(2) = 10 * ((bits \div 2) % 2)
  BY DEF Octet
<1>3. QED
  BY <1>1, <1>2

\* Each reading is published under its name, as text.
LEMMA PublishedOf ==
  ASSUME NEW f, NEW n \in Nat, Len(decodeTelemetry(f)) = n
  PROVE  /\ Len(Published(f)) = n
         /\ \A i \in 1 .. n :
              /\ Published(f)[i].topic = decodeTelemetry(f)[i].device
              /\ Published(f)[i].text = formatValue(decodeTelemetry(f)[i].tenths)
BY DEF Published

(***************************************************************************)
(* Whatever the sensors measure, what is published says just that.         *)
(***************************************************************************)
THEOREM MeasuredIsPublished ==
  ASSUME NEW temperature \in Word, NEW humidity \in Word, NEW light \in Word,
         NEW bits \in Octet
  PROVE  TelemetryIsPublished(temperature, humidity, light, bits)
<1> DEFINE dht11 == Published(Dht11Frame(temperature, humidity))
           bh1750 == Published(Bh1750Frame(light))
           status == Published(StatusFrame(bits))
<1>1. /\ Len(dht11) = 2
      /\ dht11[1].topic = "temperature" /\ dht11[1].text = formatValue(temperature)
      /\ dht11[2].topic = "humidity" /\ dht11[2].text = formatValue(humidity)
  <2> DEFINE p == edge_u16_be_write(temperature) \o edge_u16_be_write(humidity)
  <2>1. /\ Len(p) = 4 /\ edge_u16_be_read(p, 0) = temperature
        /\ edge_u16_be_read(p, 2) = humidity
    BY ReadingWords
  <2>2. decodeTelemetry(Dht11Frame(temperature, humidity)) =
          <<Reading("temperature", temperature), Reading("humidity", humidity)>>
    BY <2>1, DecodedDht11 DEF Dht11Frame, Frame
  <2> DEFINE d == decodeTelemetry(Dht11Frame(temperature, humidity))
  <2>3. /\ 2 \in Nat /\ Len(d) = 2
        /\ d[1].device = "temperature" /\ d[1].tenths = temperature
        /\ d[2].device = "humidity" /\ d[2].tenths = humidity
    BY <2>2 DEF Reading
  <2>4. /\ Len(dht11) = 2
        /\ \A i \in 1 .. 2 : /\ dht11[i].topic = d[i].device
                             /\ dht11[i].text = formatValue(d[i].tenths)
    BY <2>3, PublishedOf, Zenon
  <2> HIDE DEF d, dht11
  <2>5. QED
    BY <2>3, <2>4
<1>2. /\ Len(bh1750) = 1
      /\ bh1750[1].topic = "illuminance" /\ bh1750[1].text = formatValue(10 * light)
  <2> DEFINE p == edge_u16_be_write(light)
  <2>1. Len(p) = 2 /\ edge_u16_be_read(p, 0) = light
    BY ReadingWords, WordBytes
  <2>2. decodeTelemetry(Bh1750Frame(light)) = <<Reading("illuminance", 10 * light)>>
    BY <2>1, DecodedBh1750 DEF Bh1750Frame, Frame
  <2> DEFINE d == decodeTelemetry(Bh1750Frame(light))
  <2>3. /\ 1 \in Nat /\ Len(d) = 1
        /\ d[1].device = "illuminance" /\ d[1].tenths = 10 * light
    BY <2>2 DEF Reading
  <2>4. /\ Len(bh1750) = 1
        /\ \A i \in 1 .. 1 : /\ bh1750[i].topic = d[i].device
                             /\ bh1750[i].text = formatValue(d[i].tenths)
    BY <2>3, PublishedOf, Zenon
  <2> HIDE DEF d, bh1750
  <2>5. QED
    BY <2>3, <2>4
<1>3. /\ Len(status) = 2
      /\ status[1].topic = "status_dht11" /\ status[1].text = formatValue(10 * (bits % 2))
      /\ status[2].topic = "status_bh1750"
      /\ status[2].text = formatValue(10 * ((bits \div 2) % 2))
  <2>2. decodeTelemetry(StatusFrame(bits)) =
          <<Reading("status_dht11", 10 * (bits % 2)),
            Reading("status_bh1750", 10 * ((bits \div 2) % 2))>>
    BY DecodedStatus DEF StatusFrame, Frame
  <2> DEFINE d == decodeTelemetry(StatusFrame(bits))
  <2>3. /\ 2 \in Nat /\ Len(d) = 2
        /\ d[1].device = "status_dht11" /\ d[1].tenths = 10 * (bits % 2)
        /\ d[2].device = "status_bh1750" /\ d[2].tenths = 10 * ((bits \div 2) % 2)
    BY <2>2 DEF Reading
  <2>4. /\ Len(status) = 2
        /\ \A i \in 1 .. 2 : /\ status[i].topic = d[i].device
                             /\ status[i].text = formatValue(d[i].tenths)
    BY <2>3, PublishedOf, Zenon
  <2> HIDE DEF d, status
  <2>5. QED
    BY <2>3, <2>4
<1>4. /\ Said(formatValue(temperature)) = temperature
      /\ Said(formatValue(humidity)) = humidity
      /\ formatValue(10 * light) = <<light>>
  BY FormatSays, WordIsNat
<1>5. bits % 2 \in Nat /\ (bits \div 2) % 2 \in Nat
  BY DEF Octet
<1>6. /\ formatValue(10 * (bits % 2)) = <<bits % 2>>
      /\ formatValue(10 * ((bits \div 2) % 2)) = <<(bits \div 2) % 2>>
  BY <1>5, FormatSays
<1> HIDE DEF dht11, bh1750, status
<1>7. /\ Len(dht11) = 2 /\ Len(bh1750) = 1 /\ Len(status) = 2
      /\ dht11[1].topic = "temperature" /\ Said(dht11[1].text) = temperature
      /\ dht11[2].topic = "humidity" /\ Said(dht11[2].text) = humidity
      /\ bh1750[1].topic = "illuminance" /\ bh1750[1].text = <<light>>
      /\ status[1].topic = "status_dht11" /\ status[1].text = <<bits % 2>>
      /\ status[2].topic = "status_bh1750" /\ status[2].text = <<(bits \div 2) % 2>>
  BY <1>1, <1>2, <1>3, <1>4, <1>6
<1>8. QED
  BY <1>7, Zenon DEF dht11, bh1750, status, TelemetryIsPublished

\* A result with the length and the code of a success passes the tracker's
\* check and is answered by its type.
LEMMA SuccessIsAnswered ==
  ASSUME NEW session, IsU64(session), NEW seq \in Octet, NEW type \in Octet,
         NEW body \in Seq(Octet), body[1] = EDGE_RC_OK,
         \/ type = EDGE_TYPE_QUERY_LIGHT /\ Len(body) = 3
         \/ type = EDGE_TYPE_QUERY_TH /\ Len(body) = 5
         \/ type = EDGE_TYPE_SET_PERIOD /\ Len(body) = 1
  PROVE  /\ resultValid(type, BodyPayload(session, seq, type, body))
         /\ Body(BodyPayload(session, seq, type, body)) = body
         /\ type = EDGE_TYPE_QUERY_TH =>
              AnswerTo(type, body) = Says("ok", <<formatValue(edge_u16_be_read(body, 1)),
                                                  formatValue(edge_u16_be_read(body, 3))>>)
         /\ type = EDGE_TYPE_QUERY_LIGHT =>
              AnswerTo(type, body) = Says("ok", <<<<edge_u16_be_read(body, 1)>>>>)
         /\ type = EDGE_TYPE_SET_PERIOD => AnswerTo(type, body) = Says("ok", <<>>)
<1> DEFINE p == BodyPayload(session, seq, type, body)
<1>1. /\ Len(p) = 10 + Len(body) /\ Body(p) = body
      /\ \A i \in 1 .. Len(body) : p[10 + i] = body[i]
  BY BodyPayloadFields
<1> HIDE DEF p
<1>2. p[10 + 1] = body[1]
  BY <1>1
<1>3. resultValid(type, p)
  <2> DEFINE n == Len(body)  l == Len(p)
  <2>1. /\ n \in Nat /\ l = 10 + n /\ p[11] = 0
        /\ \/ type = EDGE_TYPE_QUERY_LIGHT /\ n = 3
           \/ type = EDGE_TYPE_QUERY_TH /\ n = 5
           \/ type = EDGE_TYPE_SET_PERIOD /\ n = 1
    BY <1>1, <1>2 DEF EDGE_RC_OK
  <2> HIDE DEF n, l
  <2>2. /\ l >= 11
        /\ \/ type = EDGE_TYPE_QUERY_LIGHT /\ l = 13
           \/ type = EDGE_TYPE_QUERY_TH /\ l = 15
           \/ type = EDGE_TYPE_SET_PERIOD /\ l = 11
    BY <2>1
  <2>3. QED
    BY <2>1, <2>2 DEF l, resultValid, EDGE_RC_OK, EDGE_RC_BUSY
<1>4. QED
  BY <1>1, <1>3 DEF p, AnswerTo, EDGE_TYPE_QUERY_LIGHT, EDGE_TYPE_QUERY_TH,
                    EDGE_TYPE_SET_PERIOD, EDGE_RC_OK

\* The readings of the simulated node are words.
LEMMA SensedWords ==
  ASSUME NEW tick \in Nat
  PROVE  lux(tick) \in Word /\ temp_x10(tick) \in Word /\ humi_x10(tick) \in Word
<1>1. PICK a \in 0 .. 899 : (tick * 7) % 900 = a
  OBVIOUS
<1>2. PICK b \in 0 .. 49 : tick % 50 = b
  OBVIOUS
<1>3. PICK c \in 0 .. 199 : tick % 200 = c
  OBVIOUS
<1>4. lux(tick) = 100 + a /\ temp_x10(tick) = 230 + b /\ humi_x10(tick) = 500 + c
  BY <1>1, <1>2, <1>3 DEF lux, temp_x10, humi_x10
<1>5. 100 + a \in Word /\ 230 + b \in Word /\ 500 + c \in Word
  BY NatIsWord
<1>6. QED
  BY <1>4, <1>5

(***************************************************************************)
(* A cloud message the gateway accepts is executed, its result accepted,   *)
(* and the answer says what was asked for, whatever the node's readings.   *)
(***************************************************************************)
THEOREM AcceptedIsUnderstood ==
  ASSUME NEW name, NEW text, text.isInt => text.value \in Int,
         NEW node \in [tick : Nat, period : Nat],
         NEW session, IsU64(session), NEW seq \in Octet
  PROVE  CommandIsUnderstood(name, text, node, session, seq)
<1> DEFINE cmd == translateCommand(name, text)
           ran == execute(node, cmd.type, cmd.arg)
           p == BodyPayload(session, seq, cmd.type, ran.result)
           answer == AnswerTo(cmd.type, Body(p))
           Understood ==
             /\ Len(cmd.arg) <= EDGE_SR_ARGS_MAX
             /\ resultValid(cmd.type, p)
             /\ answer.says = "ok"
             /\ name = "query_light" => answer.numbers = <<<<lux(node.tick)>>>>
             /\ name = "query_th" =>
                  /\ Len(answer.numbers) = 2
                  /\ Said(answer.numbers[1]) = temp_x10(node.tick)
                  /\ Said(answer.numbers[2]) = humi_x10(node.tick)
             /\ name = "set_period" => ran.node.period = text.value
<1> SUFFICES ASSUME cmd.ok PROVE Understood
  BY Zenon DEF CommandIsUnderstood
<1>t. /\ EDGE_TYPE_QUERY_LIGHT \in Octet /\ EDGE_TYPE_QUERY_TH \in Octet
      /\ EDGE_TYPE_SET_PERIOD \in Octet /\ node.tick \in Nat
  BY DEF EDGE_TYPE_QUERY_LIGHT, EDGE_TYPE_QUERY_TH, EDGE_TYPE_SET_PERIOD, Octet
<1>1. CASE name = "query_light"
  <2> DEFINE body == <<EDGE_RC_OK>> \o edge_u16_be_write(lux(node.tick))
  <2>1. cmd.type = EDGE_TYPE_QUERY_LIGHT /\ cmd.arg = <<>>
    BY <1>1 DEF translateCommand, Accepted
  <2>2. ran.result = body
    BY <2>1 DEF execute, Answered, EDGE_TYPE_QUERY_LIGHT, EDGE_TYPE_QUERY_TH,
                EDGE_TYPE_SET_PERIOD
  <2>3. /\ body \in Seq(Octet) /\ Len(body) = 3 /\ body[1] = EDGE_RC_OK
        /\ edge_u16_be_read(body, 1) = lux(node.tick)
    BY <1>t, SensedWords, ReadingWords
  <2> HIDE DEF body, cmd, ran
  <2>4. /\ resultValid(cmd.type, p) /\ Body(p) = body
        /\ AnswerTo(cmd.type, body) = Says("ok", <<<<lux(node.tick)>>>>)
    <3>1. \/ cmd.type = EDGE_TYPE_QUERY_LIGHT /\ Len(body) = 3
          \/ cmd.type = EDGE_TYPE_QUERY_TH /\ Len(body) = 5
          \/ cmd.type = EDGE_TYPE_SET_PERIOD /\ Len(body) = 1
      BY <2>1, <2>3
    <3>2. cmd.type \in Octet /\ p = BodyPayload(session, seq, cmd.type, body)
      BY <1>t, <2>1, <2>2
    <3> HIDE DEF p
    <3>3. /\ resultValid(cmd.type, p) /\ Body(p) = body
          /\ AnswerTo(cmd.type, body) = Says("ok", <<<<edge_u16_be_read(body, 1)>>>>)
      BY <3>1, <3>2, <2>1, <2>3, SuccessIsAnswered, ZenonT(30)
    <3>4. QED
      BY <3>3, <2>3
  <2>5. QED
    BY <1>1, <2>1, <2>4 DEF Says, EDGE_SR_ARGS_MAX, EDGE_PAYLOAD_MAX
<1>2. CASE name = "query_th"
  <2> DEFINE body == <<EDGE_RC_OK>> \o edge_u16_be_write(temp_x10(node.tick))
                                    \o edge_u16_be_write(humi_x10(node.tick))
  <2>1. cmd.type = EDGE_TYPE_QUERY_TH /\ cmd.arg = <<>>
    BY <1>2 DEF translateCommand, Accepted
  <2>2. ran.result = body
    BY <2>1 DEF execute, Answered, EDGE_TYPE_QUERY_LIGHT, EDGE_TYPE_QUERY_TH,
                EDGE_TYPE_SET_PERIOD
  <2>3. /\ body \in Seq(Octet) /\ Len(body) = 5 /\ body[1] = EDGE_RC_OK
        /\ edge_u16_be_read(body, 1) = temp_x10(node.tick)
        /\ edge_u16_be_read(body, 3) = humi_x10(node.tick)
    BY <1>t, SensedWords, ReadingWords, ZenonT(30)
  <2> HIDE DEF body, cmd, ran
  <2>4. /\ resultValid(cmd.type, p) /\ Body(p) = body
        /\ AnswerTo(cmd.type, body) = Says("ok", <<formatValue(temp_x10(node.tick)),
                                                  formatValue(humi_x10(node.tick))>>)
    <3>1. \/ cmd.type = EDGE_TYPE_QUERY_LIGHT /\ Len(body) = 3
          \/ cmd.type = EDGE_TYPE_QUERY_TH /\ Len(body) = 5
          \/ cmd.type = EDGE_TYPE_SET_PERIOD /\ Len(body) = 1
      BY <2>1, <2>3
    <3>2. cmd.type \in Octet /\ p = BodyPayload(session, seq, cmd.type, body)
      BY <1>t, <2>1, <2>2
    <3> HIDE DEF p
    <3>3. /\ resultValid(cmd.type, p) /\ Body(p) = body
          /\ AnswerTo(cmd.type, body) =
               Says("ok", <<formatValue(edge_u16_be_read(body, 1)),
                            formatValue(edge_u16_be_read(body, 3))>>)
      BY <3>1, <3>2, <2>1, <2>3, SuccessIsAnswered, ZenonT(30)
    <3>4. QED
      BY <3>3, <2>3
  <2>5. /\ Said(formatValue(temp_x10(node.tick))) = temp_x10(node.tick)
        /\ Said(formatValue(humi_x10(node.tick))) = humi_x10(node.tick)
    BY <1>t, SensedWords, WordIsNat, FormatSays
  <2>6. QED
    BY <1>2, <2>1, <2>4, <2>5 DEF Says, EDGE_SR_ARGS_MAX, EDGE_PAYLOAD_MAX
<1>3. CASE name = "set_period"
  <2> DEFINE body == <<EDGE_RC_OK>>
  <2>1. /\ text.value \in Word /\ text.value >= EDGE_PERIOD_MIN_S
        /\ cmd.type = EDGE_TYPE_SET_PERIOD /\ cmd.arg = edge_u16_be_write(text.value)
    <3>1. /\ text.isInt
          /\ EDGE_PERIOD_MIN_S <= text.value /\ text.value <= EDGE_PERIOD_MAX_S
      BY <1>3 DEF translateCommand, Refused
    <3>2. cmd = Accepted(EDGE_TYPE_SET_PERIOD, edge_u16_be_write(text.value))
      BY <1>3, <3>1 DEF translateCommand
    <3>3. text.value \in Word /\ text.value >= EDGE_PERIOD_MIN_S
      BY <3>1, NatIsWord DEF EDGE_PERIOD_MIN_S, EDGE_PERIOD_MAX_S
    <3>4. QED
      BY <3>2, <3>3 DEF Accepted
  <2>2. Len(cmd.arg) = 2 /\ edge_u16_be_read(cmd.arg, 0) = text.value
    BY <2>1, ReadingWords, WordBytes
  <2> HIDE DEF cmd
  <2>3. ran = Answered([node EXCEPT !.period = text.value], body)
    BY <2>1, <2>2 DEF execute, edge_period_s_valid, EDGE_TYPE_QUERY_LIGHT,
                      EDGE_TYPE_QUERY_TH, EDGE_TYPE_SET_PERIOD
  <2>4. ran.result = body /\ ran.node.period = text.value
    BY <2>3 DEF Answered
  <2>5. body \in Seq(Octet) /\ Len(body) = 1 /\ body[1] = EDGE_RC_OK
    BY DEF EDGE_RC_OK, Octet
  <2> HIDE DEF body, ran
  <2>6. /\ resultValid(cmd.type, p) /\ Body(p) = body
        /\ AnswerTo(cmd.type, body) = Says("ok", <<>>)
    <3>1. \/ cmd.type = EDGE_TYPE_QUERY_LIGHT /\ Len(body) = 3
          \/ cmd.type = EDGE_TYPE_QUERY_TH /\ Len(body) = 5
          \/ cmd.type = EDGE_TYPE_SET_PERIOD /\ Len(body) = 1
      BY <2>1, <2>5
    <3>2. cmd.type \in Octet /\ p = BodyPayload(session, seq, cmd.type, body)
      BY <1>t, <2>1, <2>4
    <3> HIDE DEF p
    <3>3. QED
      BY <3>1, <3>2, <2>1, <2>5, SuccessIsAnswered, ZenonT(30)
  <2>7. QED
    BY <1>3, <2>2, <2>4, <2>6 DEF Says, EDGE_SR_ARGS_MAX, EDGE_PAYLOAD_MAX
<1>4. QED
  <2>1. name \in {"query_light", "query_th", "set_period"}
    BY DEF translateCommand, Refused
  <2>2. QED
    BY <2>1, <1>1, <1>2, <1>3
=============================================================================
