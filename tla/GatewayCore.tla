---------------------------- MODULE GatewayCore ----------------------------
(***************************************************************************)
(* GatewayCore: the owner of the business state, and the threads around    *)
(* it.                                                                     *)
(*                                                                         *)
(*   MQTT threads     admit command messages and post them                 *)
(*   HTTP thread      posts requests                                       *)
(*   main thread      the serial Reactor: takes commands, reports their    *)
(*                    ends, posts telemetry; at the end, ~GatewayApp       *)
(*   core             the executor that runs all handlers of GatewayCore   *)
(*   query            the executor of database queries                     *)
(*   worker           management_worker_, which publishes over MQTT        *)
(*                                                                         *)
(* A command holds one of kMaxCommands credits from its admission until    *)
(* its answer is handed to the MQTT library.  The reserves of the two      *)
(* mailboxes are as large as the number of credits, so that no completion  *)
(* is turned away, however much telemetry there is.                        *)
(*                                                                         *)
(* Which command gets which result is the subject of SrLink; here the      *)
(* Reactor ends a command at any time, once (CommandService).              *)
(***************************************************************************)
EXTENDS TaskExecutor, FiniteSets

CONSTANTS
  Msg,            \* command messages; each arrives at most once
  Request,        \* HTTP requests; each arrives at most once
  MqttThread,     \* network threads: two clients overlap during a reload
  kMaxCommands,   \* 512
  kMaxQueries,    \* 32
  CoreCapacity,   \* 1024
  CoreSpare,      \* 8, the part of the reserve that is for the barrier
  WorkerCapacity, \* 1024
  WorkerSpare,    \* 16
  MaxFrames,      \* bound on the telemetry frames of a behaviour
  MaxReadings     \* the most readings of one telemetry frame

ASSUME CoreConstants ==
  /\ {kMaxCommands, kMaxQueries, CoreCapacity, CoreSpare, WorkerCapacity}
       \subseteq Nat \ {0}
  /\ {WorkerSpare, MaxFrames, MaxReadings} \subseteq Nat
  /\ IsFiniteSet(MqttThread)

VARIABLES
  accepting,  \* accepting_
  admitted,   \* admitted_, the credits in use
  pending,    \* pending_, ids of commands not yet answered
  queries,    \* queries_, queries not yet answered
  core,       \* core_
  query,      \* queries_executor_
  worker,     \* management_worker_
  stopping,   \* GatewayApp::stopping_
  cmd_queue,  \* GatewayApp::cmd_queue_
  inflight,   \* ids in GatewayApp::requests_
  httpUp,     \* the HTTP thread runs
  main,       \* where the main thread is
  mqtt,       \* where each MQTT thread is in its message handler
  frames,     \* telemetry frames so far
  arrived,    \* messages that arrived
  asked,      \* requests that arrived
  owner,      \* history: owner[id] is the message that was given id
  answered,   \* history: how often a message was answered
  replied     \* history: how often a request was replied to

mqttVars == <<mqtt, arrived, answered>>
idVars   == <<pending, owner>>
httpVars == <<queries, query, httpUp, asked, replied>>
mainVars == <<accepting, stopping, inflight, main, frames>>
vars == <<mqttVars, idVars, httpVars, mainVars, cmd_queue, admitted, core,
          worker>>

Away == [at |-> "away"]

Init ==
  /\ accepting = TRUE
  /\ admitted = 0
  /\ pending = {}
  /\ queries = 0
  /\ core = NewExecutor /\ query = NewExecutor /\ worker = NewExecutor
  /\ stopping = FALSE
  /\ cmd_queue = [items |-> <<>>, shutdown |-> FALSE]
  /\ inflight = {}
  /\ httpUp = TRUE
  /\ main = "loop"
  /\ mqtt = [t \in MqttThread |-> Away]
  /\ frames = 0
  /\ arrived = {} /\ asked = {}
  /\ owner = <<>>
  /\ answered = [m \in Msg |-> 0]
  /\ replied = [r \in Request |-> 0]

CoreLimit == CoreCapacity + kMaxCommands + kMaxQueries + CoreSpare

WorkerLimit == WorkerCapacity + kMaxCommands + WorkerSpare

-----------------------------------------------------------------------------
(* MQTT threads: the message handler of createMqttClient and mqttMessage().*)

(* A message comes; while the gateway is stopping it is ignored.           *)
MqttArrives(t, m) ==
  /\ mqtt[t] = Away
  /\ m \notin arrived
  /\ ~stopping
  /\ arrived' = arrived \union {m}
  /\ mqtt' = [mqtt EXCEPT ![t] = [at |-> "check", msg |-> m]]
  /\ UNCHANGED <<idVars, httpVars, mainVars, cmd_queue, admitted, core, worker,
                 answered>>

(* The client answers a message itself, as busy, that was not taken in.    *)
AnswerBusy(t) ==
  /\ answered' = [answered EXCEPT ![mqtt[t].msg] = @ + 1]
  /\ mqtt' = [mqtt EXCEPT ![t] = Away]

(* The test of accepting_ and of the size of the message.                  *)
MqttCheck(t) ==
  /\ mqtt[t].at = "check"
  /\ \/ /\ accepting
        /\ mqtt' = [mqtt EXCEPT ![t].at = "admit"]
        /\ UNCHANGED answered
     \/ AnswerBusy(t)
  /\ UNCHANGED <<arrived, admitted, core>>

(* The compare-and-swap loop on admitted_ that takes a credit.             *)
MqttAdmit(t) ==
  /\ mqtt[t].at = "admit"
  /\ \/ /\ admitted < kMaxCommands
        /\ admitted' = admitted + 1
        /\ mqtt' = [mqtt EXCEPT ![t].at = "post"]
        /\ UNCHANGED answered
     \/ /\ admitted >= kMaxCommands
        /\ AnswerBusy(t)
        /\ UNCHANGED admitted
  /\ UNCHANGED <<arrived, core>>

MqttPost(t) ==
  /\ mqtt[t].at = "post"
  /\ core' = post(core, [kind |-> "mqtt", msg |-> mqtt[t].msg], CoreCapacity)
  /\ mqtt' = [mqtt EXCEPT ![t] = IF Accepts(core, CoreCapacity) THEN Away
                                 ELSE [@ EXCEPT !.at = "release"]]
  /\ UNCHANGED <<arrived, answered, admitted>>

(* Bug variant: the credit of a message that was not posted is kept. *)
releaseCommand_Kept(t) ==
  /\ mqtt[t].at = "release"
  /\ AnswerBusy(t)
  /\ UNCHANGED <<arrived, admitted, core>>

releaseCommand(t) ==
  /\ mqtt[t].at = "release"
  /\ admitted' = admitted - 1
  /\ AnswerBusy(t)
  /\ UNCHANGED <<arrived, core>>

MqttNext(t) ==
  /\ MqttCheck(t) \/ MqttAdmit(t) \/ MqttPost(t) \/ releaseCommand(t)
  /\ UNCHANGED <<idVars, httpVars, mainVars, cmd_queue, worker>>
-----------------------------------------------------------------------------
(* The executor of GatewayCore. *)

(* Bug variant: an answer is posted as an ordinary task. *)
publishCommand_Ordinary(m) ==
  /\ worker' = post(worker, [kind |-> "answer", msg |-> m], WorkerCapacity)
  /\ admitted' = IF Accepts(worker, WorkerCapacity) THEN admitted ELSE admitted - 1

(* The answer goes to the management worker, which gives the credit back;  *)
(* when it is refused the credit is given back at once.                    *)
publishCommand(m) ==
  /\ worker' = post(worker, [kind |-> "answer", msg |-> m], WorkerLimit)
  /\ admitted' = IF Accepts(worker, WorkerLimit) THEN admitted ELSE admitted - 1

(* GatewayApp::submitCommand *)
Submits == ~stopping /\ ~cmd_queue.shutdown /\ Len(cmd_queue.items) < kMaxCommands

(* A message that cannot be translated is rejected.  Another is given an   *)
(* id and submitted to the Reactor, or rejected when that is refused.      *)
handleMqtt(m) ==
  /\ \/ /\ publishCommand(m)
        /\ UNCHANGED <<idVars, cmd_queue>>
     \/ /\ Submits
        /\ owner' = Append(owner, m)
        /\ pending' = pending \union {Len(owner')}
        /\ cmd_queue' = [cmd_queue EXCEPT !.items = Append(@, Len(owner'))]
        /\ UNCHANGED <<worker, admitted>>
     \/ /\ ~Submits
        /\ owner' = Append(owner, m)
        /\ publishCommand(m)
        /\ UNCHANGED <<pending, cmd_queue>>
  /\ UNCHANGED <<queries, query, replied, main>>

(* handleFinished() and reject(): the id is answered if it is pending.     *)
handleFinished(id) ==
  /\ IF id \in pending
       THEN pending' = pending \ {id} /\ publishCommand(owner[id])
       ELSE UNCHANGED <<pending, worker, admitted>>
  /\ UNCHANGED <<owner, cmd_queue, queries, query, replied, main>>

(* Each reading is published as an ordinary task, lost when there is no    *)
(* room; then they are submitted to TelemetryPipeline, which never blocks. *)
handleTelemetry(readings) ==
  /\ worker' = IF readings = 0 THEN worker
               ELSE post(worker, [kind |-> "reading"], WorkerCapacity)
  /\ core' = IF readings = 0 THEN done(core)
             ELSE [core EXCEPT !.busy.readings = @ - 1]
  /\ UNCHANGED <<idVars, cmd_queue, admitted, queries, query, replied, main>>

reply(r) == replied' = [replied EXCEPT ![r] = @ + 1]

(* Pages and bad requests are replied to at once, and so is a query when   *)
(* there are too many or no database; another one goes to the executor of  *)
(* queries.                                                                *)
handleHttp(r) ==
  /\ \/ reply(r) /\ UNCHANGED <<queries, query>>
     \/ /\ queries < kMaxQueries
        /\ query' = post(query, [kind |-> "query", req |-> r], kMaxQueries)
        /\ IF Accepts(query, kMaxQueries)
             THEN queries' = queries + 1 /\ UNCHANGED replied
             ELSE reply(r) /\ UNCHANGED queries
  /\ UNCHANGED <<idVars, cmd_queue, admitted, worker, main>>

(* The completion of a query. *)
queryDone(r) ==
  /\ queries' = queries - 1
  /\ reply(r)
  /\ UNCHANGED <<idVars, cmd_queue, admitted, worker, query, main>>

(* The barrier of stop() is reached: the main thread goes on.              *)
barrierReached ==
  /\ main' = "queries"
  /\ UNCHANGED <<idVars, cmd_queue, admitted, worker, queries, query, replied>>

CoreTake ==
  /\ CanTake(core)
  /\ core' = take(core)
  /\ UNCHANGED <<idVars, cmd_queue, admitted, worker, queries, query, replied,
                 main>>

(* The body of the task that was taken; telemetry has a step for each of   *)
(* its readings.                                                           *)
CoreRun ==
  LET task == core.busy
  IN  \/ task.kind = "mqtt" /\ handleMqtt(task.msg) /\ core' = done(core)
      \/ task.kind = "finished" /\ handleFinished(task.id) /\ core' = done(core)
      \/ task.kind = "http" /\ handleHttp(task.req) /\ core' = done(core)
      \/ task.kind = "rows" /\ queryDone(task.req) /\ core' = done(core)
      \/ task.kind = "barrier" /\ barrierReached /\ core' = done(core)
      \/ task.kind = "telemetry" /\ handleTelemetry(task.readings)

CoreNext ==
  /\ CoreTake \/ CoreRun
  /\ UNCHANGED <<mqttVars, httpUp, asked, accepting, stopping, inflight, frames>>
-----------------------------------------------------------------------------
(* The executor of queries and the management worker. *)

QueryTake == CanTake(query) /\ query' = take(query) /\ UNCHANGED core

(* Bug variant: a query that fails posts no completion. *)
QueryRun_Silent ==
  /\ query.busy # Idle
  /\ \/ core' = post(core, [kind |-> "rows", req |-> query.busy.req], CoreLimit)
     \/ UNCHANGED core
  /\ query' = done(query)

(* The query has run, or failed; its completion is posted to core.         *)
QueryRun ==
  /\ query.busy # Idle
  /\ core' = post(core, [kind |-> "rows", req |-> query.busy.req], CoreLimit)
  /\ query' = done(query)

QueryNext ==
  /\ QueryTake \/ QueryRun
  /\ UNCHANGED <<mqttVars, idVars, mainVars, cmd_queue, admitted, worker,
                 queries, httpUp, asked, replied>>

WorkerTake ==
  /\ CanTake(worker)
  /\ worker' = take(worker)
  /\ UNCHANGED <<answered, admitted>>

(* publish(): the message is given to the MQTT library, then done() gives  *)
(* the credit of a command back.                                           *)
WorkerPublish ==
  /\ worker.busy # Idle
  /\ IF worker.busy.kind = "answer"
       THEN /\ answered' = [answered EXCEPT ![worker.busy.msg] = @ + 1]
            /\ admitted' = admitted - 1
       ELSE UNCHANGED <<answered, admitted>>
  /\ worker' = done(worker)

WorkerNext ==
  /\ WorkerTake \/ WorkerPublish
  /\ UNCHANGED <<mqtt, arrived, idVars, httpVars, mainVars, cmd_queue, core>>
-----------------------------------------------------------------------------
(* The HTTP thread. *)

(* A request is posted, or the session replies itself that it is busy.     *)
HttpRequest(r) ==
  /\ r \notin asked
  /\ asked' = asked \union {r}
  /\ IF ~stopping /\ accepting /\ Accepts(core, CoreCapacity)
       THEN /\ core' = post(core, [kind |-> "http", req |-> r], CoreCapacity)
            /\ UNCHANGED replied
       ELSE reply(r) /\ UNCHANGED core
  /\ UNCHANGED httpUp

(* runHttpServer returns with an error. *)
HttpFails == httpUp' = FALSE /\ UNCHANGED <<asked, replied, core>>

HttpNext ==
  /\ httpUp
  /\ HttpFails \/ \E r \in Request : HttpRequest(r)
  /\ UNCHANGED <<mqttVars, idVars, mainVars, cmd_queue, admitted, worker,
                 queries, query>>
-----------------------------------------------------------------------------
(* The main thread: the Reactor. *)

(* commandFinished() and commandRejected(). *)
commandFinished(id) ==
  core' = post(core, [kind |-> "finished", id |-> id], CoreLimit)

(* The head of cmd_queue_ is given to the tracker, or rejected. *)
ReactorTakes ==
  /\ cmd_queue.items # <<>>
  /\ LET id == Head(cmd_queue.items)
     IN  \/ inflight' = inflight \union {id} /\ UNCHANGED core
         \/ commandFinished(id) /\ UNCHANGED inflight
  /\ cmd_queue' = [cmd_queue EXCEPT !.items = Tail(@)]
  /\ UNCHANGED frames

(* applyTrackerActions() reports the end of a command. *)
ReactorFinishes ==
  /\ \E id \in inflight : commandFinished(id) /\ inflight' = inflight \ {id}
  /\ UNCHANGED <<cmd_queue, frames>>

(* dispatchFrame(): telemetry is posted, or lost. *)
ReactorTelemetry ==
  /\ frames < MaxFrames
  /\ frames' = frames + 1
  /\ \E n \in 0..MaxReadings :
       core' = post(core, [kind |-> "telemetry", readings |-> n], CoreCapacity)
  /\ UNCHANGED <<cmd_queue, inflight>>

Reactor(step) ==
  /\ main = "loop"
  /\ step
  /\ UNCHANGED <<mqttVars, idVars, httpVars, admitted, worker, accepting,
                 stopping, main>>

(* requestStop(), called on the management thread. *)
RequestStop ==
  /\ stopping' = TRUE
  /\ UNCHANGED <<mqttVars, idVars, httpVars, cmd_queue, admitted, core, worker,
                 accepting, inflight, main, frames>>
-----------------------------------------------------------------------------
(* The main thread: ~GatewayApp and GatewayCore::stop(). *)

At(place, next) == main = place /\ main' = next

(* The loop ends; stopping_ is set and cmd_queue_ is shut down.            *)
LeaveLoop ==
  /\ stopping \/ ~httpUp
  /\ At("loop", "join http")
  /\ stopping' = TRUE
  /\ cmd_queue' = [cmd_queue EXCEPT !.shutdown = TRUE]
  /\ UNCHANGED <<accepting, inflight, httpUp, core, query, worker>>

JoinHttp ==
  /\ At("join http", "reject")
  /\ httpUp' = FALSE
  /\ UNCHANGED <<accepting, stopping, cmd_queue, inflight, core, query, worker>>

(* Bug variant: the loop looks at the head of the queue and leaves it. *)
RejectQueued_Peek ==
  /\ \/ cmd_queue.items = <<>> /\ At("reject", "finish") /\ UNCHANGED core
     \/ /\ cmd_queue.items # <<>> /\ At("reject", "reject")
        /\ commandFinished(Head(cmd_queue.items))
  /\ UNCHANGED <<accepting, stopping, cmd_queue, inflight, httpUp, query, worker>>

(* The commands left in cmd_queue_, one by one. *)
RejectQueued ==
  /\ \/ /\ cmd_queue.items = <<>> /\ At("reject", "finish")
        /\ UNCHANGED <<cmd_queue, core>>
     \/ /\ cmd_queue.items # <<>> /\ At("reject", "reject")
        /\ commandFinished(Head(cmd_queue.items))
        /\ cmd_queue' = [cmd_queue EXCEPT !.items = Tail(@)]
  /\ UNCHANGED <<accepting, stopping, inflight, httpUp, query, worker>>

(* The commands left in requests_, one by one, in the order of their seq.  *)
FinishInflight ==
  /\ \/ /\ inflight = {} /\ At("finish", "accepting")
        /\ UNCHANGED <<core, inflight>>
     \/ /\ At("finish", "finish")
        /\ \E id \in inflight : commandFinished(id) /\ inflight' = inflight \ {id}
  /\ UNCHANGED <<accepting, stopping, cmd_queue, httpUp, query, worker>>

StopAccepting ==
  /\ At("accepting", "barrier")
  /\ accepting' = FALSE
  /\ UNCHANGED <<stopping, cmd_queue, inflight, httpUp, core, query, worker>>

(* The main thread waits for the barrier unless it was refused. *)
PostBarrier ==
  /\ At("barrier", IF Accepts(core, CoreLimit) THEN "wait" ELSE "queries")
  /\ core' = post(core, [kind |-> "barrier"], CoreLimit)
  /\ UNCHANGED <<accepting, stopping, cmd_queue, inflight, httpUp, query, worker>>

StopQueries ==
  /\ At("queries", "core")
  /\ query' = close(query)
  /\ UNCHANGED <<accepting, stopping, cmd_queue, inflight, httpUp, core, worker>>

(* Bug variant: core_ is closed before the queries have been joined. *)
StopCore_Early ==
  /\ At("core", "worker")
  /\ core' = close(core)
  /\ UNCHANGED <<accepting, stopping, cmd_queue, inflight, httpUp, query, worker>>

StopCore ==
  /\ Drained(query)
  /\ At("core", "worker")
  /\ core' = close(core)
  /\ UNCHANGED <<accepting, stopping, cmd_queue, inflight, httpUp, query, worker>>

StopWorker ==
  /\ Drained(core)
  /\ At("worker", "mqtt")
  /\ worker' = close(worker)
  /\ UNCHANGED <<accepting, stopping, cmd_queue, inflight, httpUp, core, query>>

(* The destruction of mqtt_client_ joins its thread. *)
StopMqtt ==
  /\ Drained(worker)
  /\ \A t \in MqttThread : mqtt[t] = Away
  /\ At("mqtt", "done")
  /\ UNCHANGED <<accepting, stopping, cmd_queue, inflight, httpUp, core, query,
                 worker>>

Destroy ==
  /\ \/ LeaveLoop \/ JoinHttp \/ RejectQueued \/ FinishInflight
     \/ StopAccepting \/ PostBarrier \/ StopQueries \/ StopCore
     \/ StopWorker \/ StopMqtt
  /\ UNCHANGED <<mqttVars, idVars, queries, asked, replied, admitted, frames>>

(* ~GatewayApp has returned. *)
Terminated == main = "done" /\ UNCHANGED vars
-----------------------------------------------------------------------------
Next ==
  \/ \E t \in MqttThread : MqttNext(t) \/ \E m \in Msg : MqttArrives(t, m)
  \/ CoreNext \/ QueryNext \/ WorkerNext \/ HttpNext
  \/ Reactor(ReactorTakes) \/ Reactor(ReactorFinishes)
  \/ Reactor(ReactorTelemetry)
  \/ RequestStop \/ Destroy \/ Terminated

Spec == Init /\ [][Next]_vars

(* Every thread goes on; the Reactor ends each command it took (SrLink,    *)
(* EveryCommandReported).  No message, request, telemetry or stop need     *)
(* ever come.                                                              *)
FairSpec ==
  /\ Spec
  /\ \A t \in MqttThread : WF_vars(MqttNext(t))
  /\ WF_vars(CoreNext) /\ WF_vars(QueryNext) /\ WF_vars(WorkerNext)
  /\ WF_vars(Reactor(ReactorTakes)) /\ WF_vars(Reactor(ReactorFinishes))
  /\ WF_vars(Destroy)
-----------------------------------------------------------------------------
(* Properties *)

Count(ex, kind) == Cardinality({i \in DOMAIN Held(ex) : Held(ex)[i].kind = kind})

CountOf(s, x) == Cardinality({i \in DOMAIN s : s[i] = x})

CoreTask ==
  [kind : {"mqtt"}, msg : Msg]
    \union [kind : {"finished"}, id : 1..Len(owner)]
    \union [kind : {"telemetry"}, readings : 0..MaxReadings]
    \union [kind : {"http", "rows"}, req : Request]
    \union [kind : {"barrier"}]

(* Type correctness: the counters do not leave their range, so admitted_,  *)
(* an unsigned number, is never decremented below zero (GatewayCore.cpp:83)*)
CoreTypeOK ==
  /\ accepting \in BOOLEAN /\ stopping \in BOOLEAN /\ httpUp \in BOOLEAN
  /\ admitted \in 0..kMaxCommands
  /\ queries \in 0..kMaxQueries
  /\ pending \subseteq 1..Len(owner) /\ inflight \subseteq pending
  /\ owner \in Seq(Msg)
  /\ core \in ExecutorOf(CoreTask)
  /\ query \in ExecutorOf([kind : {"query"}, req : Request])
  /\ worker \in ExecutorOf([kind : {"answer"}, msg : Msg] \union [kind : {"reading"}])
  /\ cmd_queue \in [items : Seq(pending), shutdown : BOOLEAN]
  /\ mqtt \in [MqttThread -> {Away} \union
                 [at : {"check", "admit", "post", "release"}, msg : Msg]]
  /\ main \in {"loop", "join http", "reject", "finish", "accepting", "barrier",
               "wait", "queries", "core", "worker", "mqtt", "done"}
  /\ arrived \subseteq Msg /\ asked \subseteq Request /\ frames \in 0..MaxFrames

(* Every credit in use belongs to exactly one command that is on its way:  *)
(* being posted or released by an MQTT thread, in the mailbox, pending, or *)
(* waiting to be published.  None leaks and none is given back twice       *)
(* (mqttMessage, publishCommand).                                          *)
CreditsConserved ==
  admitted = Cardinality({t \in MqttThread : mqtt[t].at \in {"post", "release"}})
               + Count(core, "mqtt") + Cardinality(pending)
               + Count(worker, "answer")

(* A pending command is in exactly one place, the queue to the Reactor,    *)
(* the Reactor, or the mailbox as a completion: it will be ended, and once *)
(* (GatewayCore.h:38).                                                     *)
OneEndPerCommand ==
  \A id \in 1..Len(owner) :
    CountOf(cmd_queue.items, id) + Cardinality(inflight \intersect {id})
        + CountOf(Held(core), [kind |-> "finished", id |-> id])
      = IF id \in pending THEN 1 ELSE 0

(* Every command is accounted for while MQTT threads, Reactor and business *)
(* thread pass it on: the credits given out are those of messages and      *)
(* commands still on their way, on all the paths that release one, and a   *)
(* pending command will be ended exactly once (GatewayCore.cpp             *)
(* mqttMessage, publishCommand, commandFinished, releaseCommand).          *)
CommandsAccounted == CoreTypeOK /\ CreditsConserved /\ OneEndPerCommand

(* Completions that may still be posted to core, the barrier included.     *)
CompletionsToCome ==
  Len(cmd_queue.items) + Cardinality(inflight) + Len(Held(query))
    + (IF main \in {"loop", "join http", "reject", "finish", "accepting", "barrier"}
         THEN 1 ELSE 0)

(* Answers that may still be posted to the worker. *)
AnswersToCome == Count(core, "mqtt") + Cardinality(pending)

(* There is room in both mailboxes for every completion that may still     *)
(* come, and neither is closed before the last one: the reserves are large *)
(* enough under any load, and the order of the shutdown is right           *)
(* (GatewayCore.h:38, :63, GatewayCore.cpp:86).                            *)
RoomForCompletions ==
  /\ CompletionsToCome > 0 =>
       ~core.closed /\ Len(core.tasks) + CompletionsToCome <= CoreLimit
  /\ AnswersToCome > 0 =>
       ~worker.closed /\ Len(worker.tasks) + AnswersToCome <= WorkerLimit

(* Every request that arrived was replied to or is in exactly one mailbox, *)
(* and queries_ counts those at the database (handleHttp).                 *)
OneReplyPerRequest ==
  /\ queries = Len(Held(query)) + Count(core, "rows")
  /\ \A r \in Request :
       replied[r] + CountOf(Held(core), [kind |-> "http", req |-> r])
           + CountOf(Held(query), [kind |-> "query", req |-> r])
           + CountOf(Held(core), [kind |-> "rows", req |-> r])
         = IF r \in asked THEN 1 ELSE 0

Unanswered ==
  {m \in arrived : answered[m] # 1} \union {r \in asked : replied[r] # 1}

(* A message that arrived, a request that was asked, is answered in the    *)
(* end, and once, under any load and during a shutdown: there are finitely *)
(* many, so in the end none is unanswered.                                 *)
AllAnswered == Unanswered # {} ~> Unanswered = {}

(* A stop that was requested ends: no join waits for ever (~GatewayApp,    *)
(* GatewayCore::stop).                                                     *)
ShutdownEnds == stopping ~> main = "done"
=============================================================================
