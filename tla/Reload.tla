------------------------------- MODULE Reload -------------------------------
(***************************************************************************)
(* Configuration reload and the stop of the management side:               *)
(* ManagementReactor.cpp, ConfigManager::reload(), and the part of         *)
(* GatewayApp that prepares new resources on the management worker and     *)
(* hands them to the threads that own the old ones.                        *)
(*                                                                         *)
(* Four threads take part: the management Reactor reads signals, the       *)
(* worker runs reloads (and the publications of the business side), the    *)
(* serial Reactor and the writer apply what they are given, and the main   *)
(* thread stops everything.                                                *)
(***************************************************************************)
EXTENDS TaskExecutor, MqttClient, FiniteSets

CONSTANTS
  Value,           \* values of a field of the configuration
  kMaxCommands,    \* answers that may be on the worker's queue
  WorkerCapacity,  \* room for ordinary tasks of the management worker
  WorkerSpare,     \* 16: reserve beyond kMaxCommands
  MaxHups          \* bound on the SIGHUPs

ASSUME ReloadConstants ==
  /\ kMaxCommands \in Nat /\ WorkerCapacity \in Nat \ {0}
  /\ WorkerSpare \in Nat \ {0} /\ MaxHups \in Nat
  /\ Value # {}

(* The resources that can be rebuilt, and a field that needs a restart. *)
Resource == {"db", "mqtt", "serial"}
Field == Resource \union {"port"}
WorkerLimit == WorkerCapacity + kMaxCommands + WorkerSpare

VARIABLES
  signals,   \* signals pending in the signalfd
  admin,     \* the management Reactor: where, stopping_, shutdown_sent_, stop_fd_
  stopping,  \* GatewayApp::stopping_
  pending,   \* reload_pending_
  worker,    \* management_worker_
  job,       \* what is left of the reload that runs
  startup,   \* ConfigManager::startup_
  current,   \* ConfigManager::current_
  applied,   \* the value each resource was built with
  mqtt,      \* the MQTT clients, module MqttClient
  given,     \* resources handed over and not yet applied, oldest first
  main,      \* where the main thread is
  hups,      \* history: SIGHUPs so far
  failed     \* history: the resources whose last try failed

resourceVars == <<startup, current, mqtt>>
history == <<hups, failed>>
vars == <<resourceVars, signals, admin, stopping, pending, worker, job, applied,
          given, main, history>>

NoJob == [at |-> "none", changed |-> {}]
Config == [Field -> Value]

(* The values of a field are alike, so one startup file stands for all. *)
Init ==
  /\ startup = [f \in Field |-> CHOOSE v \in Value : TRUE] /\ current = startup
  /\ applied = [r \in Resource |-> startup[r]]
  /\ signals = {} /\ stopping = FALSE /\ pending = FALSE
  /\ admin = [at |-> "loop", stopping |-> FALSE, sent |-> FALSE, wake |-> FALSE]
  /\ worker = NewExecutor /\ job = NoJob /\ mqtt = FirstClient
  /\ given = [r \in {"db", "serial"} |-> <<>>]
  /\ main = "loop"
  /\ hups = 0 /\ failed = {}
-----------------------------------------------------------------------------
(* The environment *)

(* A signal that is pending already merges with it; those that come when   *)
(* the main thread has left its loop are like those that are pending then. *)
Signal(s) ==
  /\ s \notin signals /\ main = "loop"
  /\ s = "hup" => hups < MaxHups
  /\ signals' = signals \union {s}
  /\ hups' = IF s = "hup" THEN hups + 1 ELSE hups
  /\ UNCHANGED <<resourceVars, admin, stopping, pending, worker, job, applied,
                 given, main, failed>>

(* publish(): readings within the capacity, answers to commands with the   *)
(* reserve, of which there are at most kMaxCommands (module GatewayCore).  *)
Publications == Len(SelectSeq(Held(worker), LAMBDA task : task.kind = "publication"))
Publish ==
  /\ main \in {"loop", "join"}
  /\ \/ worker' = post(worker, [kind |-> "publication"], WorkerCapacity)
     \/ /\ Publications < WorkerCapacity + kMaxCommands
        /\ worker' = post(worker, [kind |-> "publication"], WorkerLimit)
  /\ worker' # worker
  /\ UNCHANGED <<resourceVars, signals, admin, stopping, pending, job, applied,
                 given, main, history>>
-----------------------------------------------------------------------------
(* The management Reactor *)

(* Bug variant: the reload is posted without the reserve. *)
requestReload_Ordinary ==
  IF stopping \/ pending
    THEN UNCHANGED <<pending, worker>>
    ELSE /\ worker' = post(worker, [kind |-> "reload"], WorkerCapacity)
         /\ pending' = Accepts(worker, WorkerCapacity)

(* GatewayApp::requestReload(): one reload at a time. *)
requestReload ==
  IF stopping \/ pending
    THEN UNCHANGED <<pending, worker>>
    ELSE /\ worker' = post(worker, [kind |-> "reload"], WorkerLimit)
         /\ pending' = Accepts(worker, WorkerLimit)

(* All pending signals are read; a stop goes before a reload. *)
onSignals ==
  /\ admin.at = "loop" /\ signals # {}
  /\ signals' = {}
  /\ CASE admin.stopping -> UNCHANGED <<admin, stopping, pending, worker>>
       [] ~admin.stopping /\ "term" \in signals /\ ~admin.sent ->
            /\ admin' = [admin EXCEPT !.sent = TRUE]
            /\ stopping' = TRUE
            /\ UNCHANGED <<pending, worker>>
       [] ~admin.stopping /\ "term" \notin signals /\ ~admin.sent ->
            requestReload /\ UNCHANGED <<admin, stopping>>
       [] ~admin.stopping /\ admin.sent ->
            UNCHANGED <<admin, stopping, pending, worker>>
  /\ UNCHANGED <<resourceVars, job, applied, given, main, history>>

onStop ==
  /\ admin.at = "loop" /\ admin.wake
  /\ admin' = [admin EXCEPT !.at = "left", !.wake = FALSE]
  /\ UNCHANGED <<resourceVars, signals, stopping, pending, worker, job, applied,
                 given, main, history>>

(* run(): an error of the loop stops the gateway. *)
AdminFails ==
  /\ admin.at = "loop"
  /\ admin' = [admin EXCEPT !.at = "left", !.stopping = TRUE]
  /\ stopping' = TRUE
  /\ UNCHANGED <<resourceVars, signals, pending, worker, job, applied, given,
                 main, history>>
-----------------------------------------------------------------------------
(* The management worker *)

WorkerTake ==
  /\ CanTake(worker) /\ Head(worker.tasks).kind = "reload"
  /\ worker' = take(worker)
  /\ job' = [NoJob EXCEPT !.at = "read"]
  /\ UNCHANGED <<resourceVars, signals, admin, stopping, pending, applied, given,
                 main, history>>

(* A publication; nothing in this module depends on its being half done.   *)
WorkerPublishes ==
  /\ CanTake(worker) /\ Head(worker.tasks).kind # "reload"
  /\ worker' = done(take(worker))
  /\ UNCHANGED <<resourceVars, signals, admin, stopping, pending, job, applied,
                 given, main, history>>

Job(at) == job.at = at /\ UNCHANGED <<signals, admin, stopping, worker, main, hups>>

(* The reload of the first resource that is left to be rebuilt. *)
Rebuilding(changed) ==
  [at |-> CASE "db" \in changed -> "db"
            [] "db" \notin changed /\ "mqtt" \in changed -> "mqtt"
            [] changed = {"serial"} -> "serial"
            [] OTHER -> "release",
   changed |-> changed]

(* Fields that need a restart get their startup value back. *)
Restored(fields) == [fields EXCEPT !["port"] = startup["port"]]

(* Bug variant: the differences are those from the startup configuration. *)
Differences_Startup(fresh) == {r \in Resource : startup[r] # fresh[r]}

(* What has to be rebuilt, compared with the configuration in force. *)
Differences(fresh) == {r \in Resource : current[r] # fresh[r]}

(* The task of requestReload(): nothing is begun when the gateway stops.   *)
(* ConfigManager::reload(): the file, which may have been edited at any    *)
(* time, cannot be read or is invalid and nothing changes; or it holds     *)
(* some fields, which are published before the resources are built.        *)
JobRead ==
  /\ Job("read")
  /\ \/ /\ job' = [job EXCEPT !.at = "release"]
        /\ UNCHANGED current
     \/ \E fields \in Config :
          ~stopping /\
          LET fresh == Restored(fields)
          IN  /\ current' = fresh
              /\ job' = Rebuilding(Differences(fresh))
  /\ UNCHANGED <<startup, mqtt, pending, applied, given, failed>>

Fails(r) == failed' = failed \union {r}
Succeeds(r) == failed' = failed \ {r}
Past(r) == job' = Rebuilding(job.changed \ {r})

(* reloadDatabase(), reloadSerial(): the new resource is opened and given  *)
(* to its owner, or not.  A failure does not keep the others from being    *)
(* rebuilt.                                                                *)
JobApply(r) ==
  /\ Job(r) /\ Past(r)
  /\ \/ Fails(r) /\ UNCHANGED given
     \/ Succeeds(r) /\ given' = [given EXCEPT ![r] = Append(@, current[r])]
  /\ UNCHANGED <<resourceVars, pending, applied>>

\* Bug variant: the old client is given up before there is a new one.
MqttCreate_ResetFirst ==
  /\ Job("mqtt")
  /\ \/ /\ mqtt' = destroy(mqtt, "owner")
        /\ Past("mqtt") /\ Fails("mqtt")
     \/ /\ \E shared \in BOOLEAN : mqtt' = construct(destroy(mqtt, "owner"), shared)
        /\ job' = [job EXCEPT !.at = "start"] /\ UNCHANGED failed
  /\ UNCHANGED <<startup, current, pending, applied, given>>

(* reloadMqtt(): a client is constructed, with the same broker or another  *)
(* one; its thread is started; it replaces the old one.  As long as that   *)
(* has not happened the old one is kept.                                   *)
MqttCreate ==
  /\ Job("mqtt")
  /\ \/ /\ mqtt' = constructFails(mqtt)
        /\ Past("mqtt") /\ Fails("mqtt")
     \/ /\ \E shared \in BOOLEAN : mqtt' = construct(mqtt, shared)
        /\ job' = [job EXCEPT !.at = "start"] /\ UNCHANGED failed
  /\ UNCHANGED <<startup, current, pending, applied, given>>

MqttStart ==
  /\ Job("start")
  /\ \/ /\ mqtt' = destroy(mqtt, "fresh")
        /\ Past("mqtt") /\ Fails("mqtt")
     \/ /\ mqtt' = loopStart(mqtt)
        /\ job' = [job EXCEPT !.at = "replace"] /\ UNCHANGED failed
  /\ UNCHANGED <<startup, current, pending, applied, given>>

MqttReplace ==
  /\ Job("replace")
  /\ mqtt' = replace(mqtt)
  /\ applied' = [applied EXCEPT !["mqtt"] = current["mqtt"]]
  /\ Past("mqtt") /\ Succeeds("mqtt")
  /\ UNCHANGED <<startup, current, pending, given>>

(* Bug variant: only the normal end clears the flag. *)
JobThrows_Held ==
  /\ job.at \in Resource
  /\ worker' = done(worker) /\ job' = NoJob
  /\ failed' = failed \union job.changed
  /\ UNCHANGED <<resourceVars, signals, admin, stopping, pending, applied, given,
                 main, hups>>

(* An exception ends the task; what was not reached counts as failed. *)
JobThrows ==
  /\ job.at \in Resource
  /\ pending' = FALSE
  /\ worker' = done(worker) /\ job' = NoJob
  /\ failed' = failed \union job.changed
  /\ UNCHANGED <<resourceVars, signals, admin, stopping, applied, given, main,
                 hups>>

JobRelease ==
  /\ job.at = "release"
  /\ pending' = FALSE
  /\ worker' = done(worker) /\ job' = NoJob
  /\ UNCHANGED <<resourceVars, signals, admin, stopping, applied, given, main, history>>

Worker ==
  \/ WorkerTake \/ WorkerPublishes \/ JobRead
  \/ (\E r \in {"db", "serial"} : JobApply(r)) \/ MqttCreate \/ MqttStart \/ MqttReplace
  \/ JobThrows \/ JobRelease

(* The network threads of the clients, and the network; once the gateway   *)
(* stops it makes no difference what they do.                              *)
MqttThread(s) ==
  /\ ~stopping
  /\ CanConnect(mqtt, s) /\ mqtt' = onConnect(mqtt, s)
  /\ UNCHANGED <<startup, current, signals, admin, stopping, pending, worker, job,
                 applied, given, main, history>>

ConnectionLost(s) ==
  /\ ~stopping
  /\ CanLose(mqtt, s) /\ mqtt' = Lost(mqtt, s)
  /\ UNCHANGED <<startup, current, signals, admin, stopping, pending, worker, job,
                 applied, given, main, history>>
-----------------------------------------------------------------------------
(* The owners of the resources, and the main thread *)

(* The writer switches to the database it was given (TelemetryPipeline);   *)
(* the serial Reactor configures the port it was given, or keeps the old   *)
(* one, unless it stops.                                                   *)
Owner(r) ==
  /\ given[r] # <<>>
  /\ r = "serial" => main = "loop" /\ ~stopping
  /\ given' = [given EXCEPT ![r] = Tail(@)]
  /\ \/ applied' = [applied EXCEPT ![r] = Head(given[r])] /\ UNCHANGED failed
     \/ /\ r = "serial"
        /\ failed' = IF Len(given[r]) = 1 THEN failed \union {r} ELSE failed
        /\ UNCHANGED applied
  /\ UNCHANGED <<resourceVars, signals, admin, stopping, pending, worker, job, main,
                 hups>>

(* Bug variant: the management Reactor is not woken. *)
StopAdmin_Unwoken ==
  /\ main = "loop" /\ stopping
  /\ main' = "join"
  /\ admin' = [admin EXCEPT !.stopping = TRUE]
  /\ UNCHANGED <<resourceVars, signals, stopping, pending, worker, job, applied,
                 given, history>>

(* The loop is left and the destructor begins: ManagementReactor::stop(). *)
StopAdmin ==
  /\ main = "loop" /\ stopping
  /\ main' = "join"
  /\ admin' = [admin EXCEPT !.stopping = TRUE, !.wake = (admin.at = "loop")]
  /\ UNCHANGED <<resourceVars, signals, stopping, pending, worker, job, applied,
                 given, history>>

(* The Reactor is joined; then the worker is stopped. *)
StopWorker ==
  /\ main = "join" /\ admin.at = "left"
  /\ main' = "drain"
  /\ worker' = close(worker)
  /\ UNCHANGED <<resourceVars, signals, admin, stopping, pending, job, applied,
                 given, history>>

\* The worker is joined; mqtt_client_.reset().
Ends ==
  /\ main = "drain" /\ Drained(worker)
  /\ main' = "ended"
  /\ mqtt' = destroy(mqtt, "owner")
  /\ UNCHANGED <<startup, current, signals, admin, stopping, pending, worker, job,
                 applied, given, history>>

Main == StopAdmin \/ StopWorker \/ Ends
Ended == main = "ended" /\ UNCHANGED vars

Next ==
  \/ (\E s \in {"hup", "term"} : Signal(s)) \/ Publish
  \/ onSignals \/ onStop \/ AdminFails
  \/ Worker \/ (\E s \in Slot : MqttThread(s) \/ ConnectionLost(s))
  \/ (\E r \in {"db", "serial"} : Owner(r))
  \/ Main \/ Ended

Spec == Init /\ [][Next]_vars

(* Every thread goes on with what it has begun, those of the MQTT clients  *)
(* included; signals, errors of the loop and of the network need not come. *)
FairSpec ==
  Spec /\ WF_vars(onSignals) /\ WF_vars(onStop) /\ WF_vars(Worker)
       /\ WF_vars(Main) /\ WF_vars(MqttThread("owner"))
-----------------------------------------------------------------------------
(* Properties *)

(* Type correctness; the worker's queue is within its limit, a reload runs *)
(* only as the task of the worker, and a field that needs a restart keeps  *)
(* its startup value (Config.cpp, ConfigManager::reload).                  *)
ReloadTypeOK ==
  /\ current \in Config /\ applied \in [Resource -> Value]
  /\ Len(worker.tasks) <= WorkerLimit
  /\ job.at \in {"none", "read", "start", "replace", "release"} \union Resource
  /\ ClientsCounted(mqtt)
  /\ mqtt.fresh # NoClient => job.at \in {"start", "replace"}
  /\ (job.at # "none" <=> worker.busy.kind = "reload")
  /\ current["port"] = startup["port"]

(* reload_pending_ stands for exactly one reload that is queued or runs:   *)
(* if it stayed set no SIGHUP would ever be heard again, if it were clear  *)
(* reloads would pile up (GatewayApp.cpp:342-353).                         *)
PendingIsOneReload ==
  /\ ReloadTypeOK
  /\ Cardinality({i \in DOMAIN Held(worker) : Held(worker)[i].kind = "reload"})
       = (IF pending THEN 1 ELSE 0)

(* When nothing is under way, each resource was built with the published   *)
(* configuration, or the last try to do so failed: a reload that overtakes *)
(* the hand-over of another leaves no older value behind, and going back   *)
(* to a value that was in force before is a change (355-378, Config 150).  *)
AppliedIsPublished ==
  (job.at = "none" /\ given["db"] = <<>> /\ given["serial"] = <<>>) =>
    \A r \in Resource : applied[r] = current[r] \/ r \in failed

(* A SIGHUP that finds no reload pending leads to a reload that has yet to *)
(* read the file, also when the worker's queue is full of publications,    *)
(* unless the gateway stops (requestReload).                               *)
HupIsHeard ==
  ("hup" \in signals /\ ~pending) ~>
    (stopping \/ (pending /\ job.at \in {"none", "read"}))

(* Until the gateway stops, its MQTT client is connected and subscribed    *)
(* again and again, whatever became of it: a lost connection, a reload of  *)
(* the broker's address that fails, or a second client that takes its      *)
(* session and has it taken back (MqttClient.cpp:82-95, GatewayApp.cpp     *)
(* 382-405, 450-461).  Otherwise commands from the cloud would never reach *)
(* the gateway again, and nothing would say so.                            *)
CloudIsHeard == []<>(stopping \/ mqtt.owner.subscribed)

(* A stop ends, also in the middle of a reload. *)
StopEnds == stopping ~> (main = "ended")
=============================================================================
