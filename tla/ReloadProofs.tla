---------------------------- MODULE ReloadProofs ----------------------------
(***************************************************************************)
(* Proofs about Reload, for any number of reloads and of values of the     *)
(* configuration and any capacity of the management worker.                *)
(*                                                                         *)
(* Two facts carry them.  reload_pending_ counts the reloads that are      *)
(* queued or running.  And the newest value a resource was given, or was   *)
(* built with, is the published one, unless the job that runs has yet to   *)
(* rebuild it or the last try failed.                                      *)
(***************************************************************************)
EXTENDS Reload, ExecutorProofs

ReloadTask == [kind |-> "reload"]
Publication == [kind |-> "publication"]
WTask == {ReloadTask, Publication}
JobPlace == {"none", "read", "start", "replace", "release"} \union Resource
Given == {"db", "serial"}

MqttType ==
  [lib : Nat, owner : Client \union {NoClient}, fresh : Client \union {NoClient},
   shared : BOOLEAN]

(* The library's count is the number of clients. *)
MqttInv(m) ==
  /\ m \in MqttType
  /\ m.lib = One(m.owner # NoClient) + One(m.fresh # NoClient)

(* What is left of a job agrees with where it is. *)
JobInv ==
  /\ job \in [at : JobPlace, changed : SUBSET Resource]
  /\ job.at \in {"none", "read", "release"} => job.changed = {}
  /\ job.at \in Resource => job.at \in job.changed
  /\ job.at \in {"start", "replace"} => "mqtt" \in job.changed
  /\ job.at \in {"start", "replace"} <=> mqtt.fresh # NoClient

WorkerInv ==
  /\ worker \in ExecutorOf(WTask) /\ pending \in BOOLEAN
  /\ Len(worker.tasks) <= WorkerLimit
  /\ Holds(worker, {ReloadTask}) = One(pending)
  /\ (job.at # "none" <=> worker.busy = ReloadTask)

ConfigInv ==
  /\ startup \in Config /\ current \in Config /\ applied \in [Resource -> Value]
  /\ given \in [Given -> Seq(Value)]
  /\ current["port"] = startup["port"]

(* The value a resource has, or will have when its owner has taken all it  *)
(* was given.                                                              *)
Newest(r) == IF given[r] = <<>> THEN applied[r] ELSE given[r][Len(given[r])]

(* A resource that is up to date with the published configuration, that    *)
(* the job has yet to come to, or that could not be rebuilt.               *)
UpToDate ==
  /\ \A r \in Given : r \in job.changed \/ r \in failed \/ Newest(r) = current[r]
  /\ "mqtt" \in job.changed \/ "mqtt" \in failed \/ applied["mqtt"] = current["mqtt"]

ReloadIInv == MqttInv(mqtt) /\ JobInv /\ WorkerInv /\ ConfigInv /\ UpToDate
-----------------------------------------------------------------------------
LEMMA NoClientIsNone == NoClient \notin Client
BY DEF NoClient, Client

LEMMA ReloadKinds ==
  /\ ReloadTask # Publication /\ ReloadTask # Idle /\ Publication # Idle
  /\ ReloadTask.kind = "reload" /\ Publication.kind = "publication" /\ Idle.kind = "idle"
  /\ Idle \notin WTask
BY DEF ReloadTask, Publication, Idle, WTask

(* The job goes to the first resource that is left, or to its end. *)
LEMMA RebuildingPlace ==
  ASSUME NEW S \in SUBSET Resource
  PROVE  /\ Rebuilding(S) \in [at : JobPlace, changed : SUBSET Resource]
         /\ Rebuilding(S).changed = S
         /\ Rebuilding(S).at \in Resource \union {"release"}
         /\ Rebuilding(S).at \in Resource => Rebuilding(S).at \in S
         /\ Rebuilding(S).at = "release" => S = {}
<1> DEFINE place == CASE "db" \in S -> "db"
                      [] "db" \notin S /\ "mqtt" \in S -> "mqtt"
                      [] S = {"serial"} -> "serial"
                      [] OTHER -> "release"
<1>1. /\ place \in Resource \union {"release"}
      /\ place \in Resource => place \in S
      /\ place = "release" => S = {}
  BY DEF Resource
<1>2. Rebuilding(S) = [at |-> place, changed |-> S]
  BY DEF Rebuilding
<1> HIDE DEF place
<1>3. QED
  BY <1>1, <1>2 DEF JobPlace

(* Records of clients with one part changed. *)
LEMMA MqttFields ==
  ASSUME NEW m \in MqttType
  PROVE  /\ \A l \in Nat : LET r == [m EXCEPT !.lib = l] IN
              /\ r \in MqttType /\ r.lib = l /\ r.owner = m.owner /\ r.fresh = m.fresh
              /\ r.shared = m.shared
         /\ \A c \in Client \union {NoClient} : LET r == [m EXCEPT !.owner = c] IN
              /\ r \in MqttType /\ r.lib = m.lib /\ r.owner = c /\ r.fresh = m.fresh
              /\ r.shared = m.shared
         /\ \A c \in Client \union {NoClient} : LET r == [m EXCEPT !.fresh = c] IN
              /\ r \in MqttType /\ r.lib = m.lib /\ r.owner = m.owner /\ r.fresh = c
              /\ r.shared = m.shared
BY DEF MqttType

LEMMA ClientFields ==
  ASSUME NEW c \in Client
  PROVE  /\ [c EXCEPT !.subscribed = FALSE] \in Client
         /\ [c EXCEPT !.subscribed = TRUE] \in Client
         /\ [c EXCEPT !.loop = TRUE] \in Client
BY DEF Client

(* The broker takes a connection: no client comes or goes. *)
LEMMA ConnectedKeeps ==
  ASSUME NEW m \in MqttType, NEW s \in Slot
  PROVE  /\ Connected(m, s) \in MqttType /\ Connected(m, s).lib = m.lib
         /\ Connected(m, s).owner # NoClient <=> m.owner # NoClient
         /\ Connected(m, s).fresh # NoClient <=> m.fresh # NoClient
         /\ Connected(m, s)[s] = m[s]
<1>1. m.owner \in Client \union {NoClient} /\ m.fresh \in Client \union {NoClient}
  BY DEF MqttType
<1>2. CASE s = "owner"
  <2> DEFINE c == IF m.shared /\ m.fresh # NoClient THEN [m.fresh EXCEPT !.subscribed = FALSE]
                  ELSE m.fresh
  <2>1. Other["owner"] = "fresh"
    BY DEF Other
  <2>2. Connected(m, s) = [m EXCEPT !["fresh"] = c]
    BY <1>2, <2>1 DEF Connected
  <2>3. c \in Client \union {NoClient} /\ (c # NoClient <=> m.fresh # NoClient)
    BY <1>1, ClientFields, NoClientIsNone
  <2> HIDE DEF c
  <2>4. LET r == [m EXCEPT !.fresh = c] IN
        /\ r \in MqttType /\ r.lib = m.lib /\ r.fresh = c /\ r.owner = m.owner
    BY <2>3, MqttFields
  <2>5. /\ Connected(m, s) \in MqttType /\ Connected(m, s).lib = m.lib
        /\ Connected(m, s).fresh = c /\ Connected(m, s).owner = m.owner
    BY <2>2, <2>4
  <2>6. Connected(m, s)[s] = m[s]
    BY <1>2, <2>5
  <2>7. QED
    BY <2>3, <2>5, <2>6
<1>3. CASE s = "fresh"
  <2> DEFINE c == IF m.shared /\ m.owner # NoClient THEN [m.owner EXCEPT !.subscribed = FALSE]
                  ELSE m.owner
  <2>1. Other["fresh"] = "owner"
    BY DEF Other
  <2>2. Connected(m, s) = [m EXCEPT !["owner"] = c]
    BY <1>3, <2>1 DEF Connected
  <2>3. c \in Client \union {NoClient} /\ (c # NoClient <=> m.owner # NoClient)
    BY <1>1, ClientFields, NoClientIsNone
  <2> HIDE DEF c
  <2>4. LET r == [m EXCEPT !.owner = c] IN
        /\ r \in MqttType /\ r.lib = m.lib /\ r.owner = c /\ r.fresh = m.fresh
    BY <2>3, MqttFields
  <2>5. /\ Connected(m, s) \in MqttType /\ Connected(m, s).lib = m.lib
        /\ Connected(m, s).owner = c /\ Connected(m, s).fresh = m.fresh
    BY <2>2, <2>4
  <2>6. Connected(m, s)[s] = m[s]
    BY <1>3, <2>5
  <2>7. QED
    BY <2>3, <2>5, <2>6
<1>4. QED
  BY <1>2, <1>3 DEF Slot

(* The operations of the MQTT clients keep the count. *)
LEMMA ConstructKeeps ==
  ASSUME NEW m, MqttInv(m), m.fresh = NoClient, NEW shared \in BOOLEAN
  PROVE  MqttInv(construct(m, shared)) /\ construct(m, shared).fresh # NoClient
<1> DEFINE new == [subscribed |-> FALSE, loop |-> FALSE]
           a == libInit(m)
           b == [a EXCEPT !.shared = shared, !.fresh = new]
           c == Connected(b, "fresh")
<1>1. new \in Client
  BY DEF Client
<1>2. m \in MqttType /\ m.lib \in Nat /\ m.lib = One(m.owner # NoClient)
  BY DEF MqttInv, MqttType, One
<1>3. a \in MqttType /\ a.lib = m.lib + 1 /\ a.owner = m.owner
  BY <1>2, MqttFields DEF libInit
<1> HIDE DEF new, a
<1>4. /\ b \in MqttType /\ b.lib = m.lib + 1 /\ b.owner = m.owner /\ b.fresh = new
  BY <1>1, <1>3 DEF MqttType
<1> HIDE DEF b
<1>5. new # NoClient
  BY <1>1, NoClientIsNone
<1>6. /\ c \in MqttType /\ c.lib = m.lib + 1 /\ c.fresh # NoClient
      /\ c.owner # NoClient <=> m.owner # NoClient
  BY <1>4, <1>5, ConnectedKeeps DEF Slot
<1>7. construct(m, shared) = c
  BY DEF construct, c, b, a, new
<1> HIDE DEF c
<1>8. One(c.owner # NoClient) = One(m.owner # NoClient) /\ One(c.fresh # NoClient) = 1
  BY <1>6 DEF One
<1>9. QED
  BY <1>2, <1>6, <1>7, <1>8 DEF MqttInv

LEMMA ConstructFailsKeeps ==
  ASSUME NEW m, MqttInv(m)
  PROVE  MqttInv(constructFails(m)) /\ constructFails(m).fresh = m.fresh
<1> DEFINE a == libInit(m)
           b == libCleanup(a)
<1>1. m \in MqttType /\ m.lib \in Nat /\ m.lib = One(m.owner # NoClient) + One(m.fresh # NoClient)
  BY DEF MqttInv, MqttType
<1>2. a \in MqttType /\ a.lib = m.lib + 1 /\ a.owner = m.owner /\ a.fresh = m.fresh
  BY <1>1, MqttFields DEF libInit
<1> HIDE DEF a
<1>3. b = [a EXCEPT !.lib = m.lib]
  BY <1>1, <1>2 DEF libCleanup
<1>4. b \in MqttType /\ b.lib = m.lib /\ b.owner = m.owner /\ b.fresh = m.fresh
  BY <1>1, <1>2, <1>3, MqttFields
<1>5. constructFails(m) = b
  BY DEF constructFails, b, a
<1> HIDE DEF b
<1>6. QED
  BY <1>1, <1>4, <1>5 DEF MqttInv

LEMMA DestroyFresh ==
  ASSUME NEW m, MqttInv(m)
  PROVE  MqttInv(destroy(m, "fresh")) /\ destroy(m, "fresh").fresh = NoClient
<1>1. CASE m.fresh = NoClient
  BY <1>1 DEF destroy
<1>2. CASE m.fresh # NoClient
  <2>1. destroy(m, "fresh")
          = [lib |-> m.lib - 1, owner |-> m.owner, fresh |-> NoClient, shared |-> m.shared]
    BY <1>2 DEF destroy, libCleanup, MqttInv, MqttType
  <2>2. QED
    BY <1>2, <2>1 DEF MqttInv, MqttType, One
<1>3. QED
  BY <1>1, <1>2

LEMMA DestroyOwner ==
  ASSUME NEW m, MqttInv(m)
  PROVE  /\ MqttInv(destroy(m, "owner")) /\ destroy(m, "owner").owner = NoClient
         /\ destroy(m, "owner").fresh = m.fresh
<1>1. CASE m.owner = NoClient
  BY <1>1 DEF destroy
<1>2. CASE m.owner # NoClient
  <2>1. destroy(m, "owner")
          = [lib |-> m.lib - 1, owner |-> NoClient, fresh |-> m.fresh, shared |-> m.shared]
    BY <1>2 DEF destroy, libCleanup, MqttInv, MqttType
  <2>2. QED
    BY <1>2, <2>1 DEF MqttInv, MqttType, One
<1>3. QED
  BY <1>1, <1>2

LEMMA LoopStartKeeps ==
  ASSUME NEW m, MqttInv(m), m.fresh # NoClient
  PROVE  MqttInv(loopStart(m)) /\ loopStart(m).fresh # NoClient
<1> DEFINE f == [m.fresh EXCEPT !.loop = TRUE]
           r == [m EXCEPT !.fresh = f]
<1>1. m \in MqttType /\ m.fresh \in Client
  BY DEF MqttInv, MqttType
<1>2. f \in Client
  BY <1>1, ClientFields
<1>3. loopStart(m) = r
  BY DEF loopStart
<1> HIDE DEF f
<1>4. r \in MqttType /\ r.lib = m.lib /\ r.owner = m.owner /\ r.fresh = f
  BY <1>1, <1>2, MqttFields
<1> HIDE DEF r
<1>5. f # NoClient
  BY <1>2, NoClientIsNone
<1>6. QED
  BY <1>3, <1>4, <1>5 DEF MqttInv, One

LEMMA ReplaceKeeps ==
  ASSUME NEW m, MqttInv(m)
  PROVE  MqttInv(replace(m)) /\ replace(m).fresh = NoClient
<1> DEFINE d == destroy(m, "owner")
<1>1. MqttInv(d) /\ d.owner = NoClient /\ d.fresh = m.fresh
  BY DestroyOwner
<1>2. replace(m) = [d EXCEPT !.owner = m.fresh, !.fresh = NoClient, !.shared = TRUE]
  BY DEF replace
<1> HIDE DEF d
<1>3. replace(m) = [lib |-> d.lib, owner |-> m.fresh, fresh |-> NoClient, shared |-> TRUE]
  BY <1>1, <1>2 DEF MqttInv, MqttType
<1>4. QED
  BY <1>1, <1>3 DEF MqttInv, MqttType, One

(* What the network does to a client neither makes nor destroys one. *)
LEMMA ConnectKeeps ==
  ASSUME NEW m, MqttInv(m), NEW s \in Slot, CanConnect(m, s)
  PROVE  /\ MqttInv(onConnect(m, s))
         /\ onConnect(m, s).fresh # NoClient <=> m.fresh # NoClient
<1> DEFINE a == Connected(m, s)
           d == [a[s] EXCEPT !.subscribed = TRUE]
<1>1. m \in MqttType /\ m.lib = One(m.owner # NoClient) + One(m.fresh # NoClient)
  BY DEF MqttInv
<1>2. /\ a \in MqttType /\ a.lib = m.lib /\ a[s] = m[s]
      /\ (a.owner # NoClient <=> m.owner # NoClient) /\ (a.fresh # NoClient <=> m.fresh # NoClient)
  BY <1>1, ConnectedKeeps
<1>3. m[s] \in Client \union {NoClient}
  BY <1>1 DEF Slot, MqttType
<1>4. m[s] # NoClient
  BY DEF CanConnect, NoClient
<1>5. onConnect(m, s) = [a EXCEPT ![s] = d]
  BY DEF onConnect
<1> HIDE DEF a
<1>6. d \in Client /\ d # NoClient
  BY <1>2, <1>3, <1>4, ClientFields, NoClientIsNone
<1> HIDE DEF d
<1> DEFINE r == [a EXCEPT ![s] = d]
<1>7. /\ r \in MqttType /\ r.lib = m.lib
      /\ (r.owner # NoClient <=> m.owner # NoClient) /\ (r.fresh # NoClient <=> m.fresh # NoClient)
  <2>1. CASE s = "owner"
    BY <1>2, <1>4, <1>6, <2>1, MqttFields
  <2>2. CASE s = "fresh"
    BY <1>2, <1>4, <1>6, <2>2, MqttFields
  <2>3. QED
    BY <2>1, <2>2 DEF Slot
<1> HIDE DEF r
<1>8. /\ One(r.owner # NoClient) = One(m.owner # NoClient)
      /\ One(r.fresh # NoClient) = One(m.fresh # NoClient)
  BY <1>7 DEF One
<1>9. QED
  BY <1>1, <1>5, <1>7, <1>8 DEF MqttInv, r

LEMMA LostKeeps ==
  ASSUME NEW m, MqttInv(m), NEW s \in Slot, CanLose(m, s)
  PROVE  MqttInv(Lost(m, s)) /\ (Lost(m, s).fresh # NoClient <=> m.fresh # NoClient)
<1> DEFINE d == [m[s] EXCEPT !.subscribed = FALSE]
           r == [m EXCEPT ![s] = d]
<1>1. m \in MqttType /\ m.lib = One(m.owner # NoClient) + One(m.fresh # NoClient)
  BY DEF MqttInv
<1>2. m[s] \in Client \union {NoClient}
  BY <1>1 DEF Slot, MqttType
<1>3. m[s] # NoClient
  BY DEF CanLose, NoClient
<1>4. Lost(m, s) = r
  BY DEF Lost
<1>5. d \in Client /\ d # NoClient
  BY <1>2, <1>3, ClientFields, NoClientIsNone
<1> HIDE DEF d
<1>6. /\ r \in MqttType /\ r.lib = m.lib
      /\ (r.owner # NoClient <=> m.owner # NoClient) /\ (r.fresh # NoClient <=> m.fresh # NoClient)
  <2>1. CASE s = "owner"
    BY <1>1, <1>3, <1>5, <2>1, MqttFields
  <2>2. CASE s = "fresh"
    BY <1>1, <1>3, <1>5, <2>2, MqttFields
  <2>3. QED
    BY <2>1, <2>2 DEF Slot
<1> HIDE DEF r
<1>7. /\ One(r.owner # NoClient) = One(m.owner # NoClient)
      /\ One(r.fresh # NoClient) = One(m.fresh # NoClient)
  BY <1>6 DEF One
<1>8. QED
  BY <1>1, <1>4, <1>6, <1>7 DEF MqttInv
-----------------------------------------------------------------------------
LEMMA ImpliesPending == ReloadIInv => PendingIsOneReload
<1> SUFFICES ASSUME ReloadIInv PROVE PendingIsOneReload
  OBVIOUS
<1>1. /\ worker \in ExecutorOf(WTask) /\ (job.at # "none" <=> worker.busy = ReloadTask)
      /\ Len(worker.tasks) <= WorkerLimit /\ Holds(worker, {ReloadTask}) = One(pending)
  BY DEF ReloadIInv, WorkerInv
<1>2. worker.busy \in WTask \union {Idle}
  BY <1>1, ExecutorFields
<1>3. worker.busy.kind = "reload" <=> worker.busy = ReloadTask
  BY <1>2, ReloadKinds DEF WTask
<1>4. ReloadTypeOK
  <2>1. /\ current \in Config /\ applied \in [Resource -> Value] /\ current["port"] = startup["port"]
    BY DEF ReloadIInv, ConfigInv
  <2>2. /\ job.at \in {"none", "read", "start", "replace", "release"} \union Resource
        /\ mqtt.fresh # NoClient => job.at \in {"start", "replace"}
    BY DEF ReloadIInv, JobInv, JobPlace
  <2>3. ClientsCounted(mqtt)
    <3>1. mqtt.owner \in Client \union {NoClient} /\ mqtt.fresh \in Client \union {NoClient}
      BY DEF ReloadIInv, MqttInv, MqttType
    <3>2. \A s \in Alive(mqtt) : mqtt[s] \in Client
      BY <3>1 DEF Alive, Slot
    <3>3. mqtt.lib = (IF mqtt.owner = NoClient THEN 0 ELSE 1) + (IF mqtt.fresh = NoClient THEN 0 ELSE 1)
      BY DEF ReloadIInv, MqttInv, One
    <3>4. QED
      BY <3>2, <3>3 DEF ClientsCounted
  <2>4. QED
    BY <1>1, <1>3, <2>1, <2>2, <2>3 DEF ReloadTypeOK
<1>5. Cardinality({i \in DOMAIN Held(worker) : Held(worker)[i].kind = "reload"})
        = (IF pending THEN 1 ELSE 0)
  <2>1. Held(worker) \in Seq(WTask) /\ Number(Held(worker), {ReloadTask}) = One(pending)
    BY <1>1, ReloadKinds, HeldCounts
  <2>2. \A i \in DOMAIN Held(worker) :
          Held(worker)[i].kind = "reload" <=> Held(worker)[i] \in {ReloadTask}
    <3>1. \A i \in DOMAIN Held(worker) : Held(worker)[i] \in WTask
      BY <2>1
    <3>2. QED
      BY <3>1, ReloadKinds DEF WTask
  <2>3. {i \in DOMAIN Held(worker) : Held(worker)[i].kind = "reload"}
          = {i \in DOMAIN Held(worker) : Held(worker)[i] \in {ReloadTask}}
    BY <2>2
  <2>4. QED
    BY <2>1, <2>3 DEF Number, One
<1>6. QED
  BY <1>4, <1>5 DEF PendingIsOneReload

LEMMA ImpliesApplied == ReloadIInv => AppliedIsPublished
<1> SUFFICES ASSUME ReloadIInv, job.at = "none", given["db"] = <<>>, given["serial"] = <<>>,
                    NEW r \in Resource
             PROVE  applied[r] = current[r] \/ r \in failed
  BY DEF AppliedIsPublished
<1>1. job.changed = {}
  BY DEF ReloadIInv, JobInv
<1>2. \A g \in Given : Newest(g) = applied[g]
  BY DEF Given, Newest
<1>3. QED
  BY <1>1, <1>2 DEF ReloadIInv, UpToDate, Resource, Given
-----------------------------------------------------------------------------
LEMMA ReloadInitInv == Init => ReloadIInv
<1> SUFFICES ASSUME Init PROVE ReloadIInv
  OBVIOUS
<1>1. MqttInv(mqtt) /\ mqtt.fresh = NoClient
  <2> DEFINE z == [lib |-> 0, owner |-> NoClient, fresh |-> NoClient, shared |-> TRUE]
  <2>1. MqttInv(z) /\ z.fresh = NoClient
    BY DEF MqttInv, MqttType, One
  <2>2. mqtt = replace(loopStart(construct(z, TRUE)))
    BY DEF Init, FirstClient
  <2> HIDE DEF z
  <2>3. MqttInv(construct(z, TRUE)) /\ construct(z, TRUE).fresh # NoClient
    BY <2>1, ConstructKeeps
  <2>4. MqttInv(loopStart(construct(z, TRUE)))
    BY <2>3, LoopStartKeeps
  <2>5. QED
    BY <2>2, <2>4, ReplaceKeeps
<1>2. JobInv
  BY <1>1 DEF Init, JobInv, NoJob, JobPlace, Resource
<1>3. WorkerInv
  <2>1. /\ worker \in ExecutorOf(WTask) /\ worker.tasks = <<>> /\ worker.busy = Idle
        /\ pending = FALSE /\ job.at = "none"
    BY NewExecutorType DEF Init, NoJob
  <2>2. Holds(worker, {ReloadTask}) = 0
    BY <2>1, NumberEmpty, ReloadKinds DEF Holds, One
  <2>3. Len(worker.tasks) <= WorkerLimit
    BY <2>1, ReloadConstants DEF WorkerLimit
  <2>4. QED
    BY <2>1, <2>2, <2>3, ReloadKinds DEF WorkerInv, One
<1>4. ConfigInv
  <2>1. (CHOOSE v \in Value : TRUE) \in Value
    BY ReloadConstants
  <2>2. QED
    BY <2>1 DEF Init, ConfigInv, Config, Field, Resource, Given
<1>5. UpToDate
  <2>1. \A r \in Resource : applied[r] = current[r]
    BY DEF Init, Field
  <2>2. \A r \in Given : Newest(r) = applied[r]
    BY DEF Init, Newest, Given
  <2>3. QED
    BY <2>1, <2>2 DEF UpToDate, Given, Resource
<1>6. QED
  BY <1>1, <1>2, <1>3, <1>4, <1>5 DEF ReloadIInv

(* What a step leaves alone it does not disturb. *)
LEMMA KeepsConfig ==
  ASSUME ConfigInv, UNCHANGED <<startup, current, applied, given>>
  PROVE  ConfigInv'
BY DEF ConfigInv

LEMMA KeepsUpToDate ==
  ASSUME UpToDate, UNCHANGED <<current, applied, given>>,
         job.changed \subseteq job'.changed \union failed', failed \subseteq failed'
  PROVE  UpToDate'
BY DEF UpToDate, Newest

LEMMA KeepsJob ==
  ASSUME JobInv, job' = job, mqtt'.fresh # NoClient <=> mqtt.fresh # NoClient
  PROVE  JobInv'
BY DEF JobInv

(* A task is posted. *)
LEMMA WorkerPosted ==
  ASSUME WorkerInv, NEW x \in WTask, NEW limit \in Nat, limit <= WorkerLimit,
         worker' = post(worker, x, limit)
  PROVE  /\ worker' \in ExecutorOf(WTask) /\ worker'.busy = worker.busy
         /\ Len(worker'.tasks) <= WorkerLimit
         /\ Holds(worker', {ReloadTask})
              = Holds(worker, {ReloadTask}) + One(Accepts(worker, limit) /\ x = ReloadTask)
         /\ Holds(worker, {ReloadTask}) \in Nat
<1>1. worker \in ExecutorOf(WTask) /\ Len(worker.tasks) <= WorkerLimit
  BY DEF WorkerInv
<1>2. /\ worker' \in ExecutorOf(WTask) /\ worker'.busy = worker.busy
      /\ worker'.tasks = IF Accepts(worker, limit) THEN Append(worker.tasks, x) ELSE worker.tasks
  BY <1>1, PostFields
<1>3. Len(worker'.tasks) <= WorkerLimit
  <2>1. worker.tasks \in Seq(WTask) /\ Len(worker.tasks) \in Nat
    BY <1>1, ExecutorFields
  <2>2. Len(Append(worker.tasks, x)) = Len(worker.tasks) + 1
    BY <2>1, AppendProperties
  <2>3. WorkerLimit \in Nat
    BY ReloadConstants DEF WorkerLimit
  <2>4. QED
    BY <1>1, <1>2, <2>1, <2>2, <2>3 DEF Accepts
<1>4. Holds(worker', {ReloadTask})
        = Holds(worker, {ReloadTask}) + One(Accepts(worker, limit) /\ x \in {ReloadTask})
  BY <1>1, PostCounts
<1>5. One(Accepts(worker, limit) /\ x \in {ReloadTask}) = One(Accepts(worker, limit) /\ x = ReloadTask)
  BY DEF One
<1>6. Holds(worker, {ReloadTask}) \in Nat
  BY <1>1, HoldsType
<1>7. QED
  BY <1>2, <1>3, <1>4, <1>5, <1>6

LEMMA KeepsWorker ==
  ASSUME WorkerInv, worker' = worker, pending' = pending,
         job'.at # "none" <=> job.at # "none"
  PROVE  WorkerInv'
BY DEF WorkerInv

LEMMA QuietStep ==
  ASSUME ReloadIInv,
         UNCHANGED <<resourceVars, pending, worker, job, applied, given, failed>>
  PROVE  ReloadIInv'
<1>1. UNCHANGED <<startup, current, mqtt>>
  BY DEF resourceVars
<1>2. MqttInv(mqtt)' /\ JobInv'
  BY <1>1, KeepsJob DEF ReloadIInv
<1>3. WorkerInv' /\ ConfigInv' /\ UpToDate'
  BY <1>1, KeepsWorker, KeepsConfig, KeepsUpToDate DEF ReloadIInv
<1>4. QED
  BY <1>2, <1>3 DEF ReloadIInv

(* A step that changes only the worker's queue and the flag. *)
LEMMA QueueStep ==
  ASSUME ReloadIInv, UNCHANGED <<resourceVars, job, applied, given, failed>>, WorkerInv'
  PROVE  ReloadIInv'
<1>1. UNCHANGED <<startup, current, mqtt>>
  BY DEF resourceVars
<1>2. MqttInv(mqtt)' /\ JobInv'
  BY <1>1, KeepsJob DEF ReloadIInv
<1>3. ConfigInv' /\ UpToDate'
  BY <1>1, KeepsConfig, KeepsUpToDate DEF ReloadIInv
<1>4. QED
  BY <1>2, <1>3 DEF ReloadIInv

LEMMA PublishStep == ReloadIInv /\ Publish => ReloadIInv'
<1> SUFFICES ASSUME ReloadIInv, Publish PROVE ReloadIInv'
  OBVIOUS
<1>1. UNCHANGED <<resourceVars, job, applied, given, failed, pending>> /\ WorkerInv
  BY DEF Publish, history, ReloadIInv
<1>2. PICK limit \in {WorkerCapacity, WorkerLimit} : worker' = post(worker, Publication, limit)
  BY DEF Publish, Publication
<1>3. limit \in Nat /\ limit <= WorkerLimit /\ Publication \in WTask
  BY <1>2, ReloadConstants DEF WorkerLimit, WTask
<1>4. /\ worker' \in ExecutorOf(WTask) /\ worker'.busy = worker.busy
      /\ Len(worker'.tasks) <= WorkerLimit
      /\ Holds(worker', {ReloadTask})
           = Holds(worker, {ReloadTask}) + One(Accepts(worker, limit) /\ Publication = ReloadTask)
      /\ Holds(worker, {ReloadTask}) \in Nat
  BY <1>1, <1>2, <1>3, WorkerPosted
<1>5. Holds(worker', {ReloadTask}) = Holds(worker, {ReloadTask})
  BY <1>4, ReloadKinds DEF One
<1>6. WorkerInv'
  BY <1>1, <1>4, <1>5 DEF WorkerInv
<1>7. QED
  BY <1>1, <1>6, QueueStep

LEMMA OnSignalsStep == ReloadIInv /\ onSignals => ReloadIInv'
<1> SUFFICES ASSUME ReloadIInv, onSignals PROVE ReloadIInv'
  OBVIOUS
<1>1. UNCHANGED <<resourceVars, job, applied, given, failed>> /\ WorkerInv
  BY DEF onSignals, history, ReloadIInv
<1>2. UNCHANGED <<pending, worker>> \/ requestReload
  BY DEF onSignals
<1>3. CASE UNCHANGED <<pending, worker>>
  BY <1>1, <1>3, QuietStep
<1>4. CASE /\ ~pending /\ worker' = post(worker, ReloadTask, WorkerLimit)
           /\ pending' = Accepts(worker, WorkerLimit)
  <2>1. WorkerLimit \in Nat /\ ReloadTask \in WTask
    BY ReloadConstants DEF WorkerLimit, WTask
  <2>2. /\ worker' \in ExecutorOf(WTask) /\ worker'.busy = worker.busy
        /\ Len(worker'.tasks) <= WorkerLimit
        /\ Holds(worker', {ReloadTask})
             = Holds(worker, {ReloadTask}) + One(Accepts(worker, WorkerLimit))
    <3>1. WorkerLimit <= WorkerLimit
      BY <2>1
    <3>2. QED
      BY <1>1, <1>4, <2>1, <3>1, WorkerPosted DEF One
  <2>3. Holds(worker, {ReloadTask}) = 0
    BY <1>1, <1>4 DEF WorkerInv, One
  <2>4. Accepts(worker, WorkerLimit) \in BOOLEAN
    BY DEF Accepts
  <2>5. Holds(worker', {ReloadTask}) = One(pending')
    BY <1>4, <2>2, <2>3 DEF One
  <2>6. WorkerInv'
    BY <1>1, <1>4, <2>2, <2>4, <2>5 DEF WorkerInv
  <2>7. QED
    BY <1>1, <2>6, QueueStep
<1>5. QED
  BY <1>2, <1>3, <1>4 DEF requestReload, ReloadTask
-----------------------------------------------------------------------------
(* The worker. *)

(* The worker takes its next task. *)
LEMMA WorkerTook ==
  ASSUME WorkerInv, CanTake(worker)
  PROVE  /\ take(worker) \in ExecutorOf(WTask) /\ take(worker).busy = Head(worker.tasks)
         /\ Head(worker.tasks) \in WTask
         /\ Len(take(worker).tasks) <= WorkerLimit
         /\ Holds(take(worker), {ReloadTask}) = One(pending)
         /\ job.at = "none"
<1>1. worker \in ExecutorOf(WTask) /\ Len(worker.tasks) <= WorkerLimit
  BY DEF WorkerInv
<1>2. /\ take(worker) \in ExecutorOf(WTask) /\ Len(take(worker).tasks) = Len(worker.tasks) - 1
      /\ take(worker).busy \in WTask
  BY <1>1, TakeFields
<1>3. take(worker).busy = Head(worker.tasks)
  BY <1>1 DEF take, ExecutorOf
<1>4. Holds(take(worker), {ReloadTask}) = Holds(worker, {ReloadTask})
  BY <1>1, ReloadKinds, TakeCounts
<1>5. Len(worker.tasks) \in Nat /\ WorkerLimit \in Nat
  BY <1>1, ExecutorFields, ReloadConstants DEF WorkerLimit
<1>6. job.at = "none"
  BY ReloadKinds DEF WorkerInv, CanTake
<1>7. QED
  BY <1>1, <1>2, <1>3, <1>4, <1>5, <1>6 DEF WorkerInv

LEMMA WorkerTakeStep == ReloadIInv /\ WorkerTake => ReloadIInv'
<1> SUFFICES ASSUME ReloadIInv, WorkerTake PROVE ReloadIInv'
  OBVIOUS
<1>1. /\ UNCHANGED <<startup, current, mqtt, pending, applied, given, failed>>
      /\ CanTake(worker) /\ Head(worker.tasks).kind = "reload" /\ worker' = take(worker)
      /\ job' = [at |-> "read", changed |-> {}]
  BY DEF WorkerTake, resourceVars, history, NoJob
<1>2. /\ worker' \in ExecutorOf(WTask) /\ worker'.busy = Head(worker.tasks)
      /\ Head(worker.tasks) \in WTask /\ Len(worker'.tasks) <= WorkerLimit
      /\ Holds(worker', {ReloadTask}) = One(pending) /\ job.at = "none"
  BY <1>1, WorkerTook DEF ReloadIInv
<1>3. worker'.busy = ReloadTask
  BY <1>1, <1>2, ReloadKinds DEF WTask
<1>4. job'.at = "read" /\ job'.changed = {} /\ job' \in [at : JobPlace, changed : SUBSET Resource]
  BY <1>1 DEF JobPlace
<1>5. WorkerInv'
  BY <1>1, <1>2, <1>3, <1>4 DEF ReloadIInv, WorkerInv
<1>6. mqtt.fresh = NoClient /\ job.changed = {}
  BY <1>2 DEF ReloadIInv, JobInv
<1>7. JobInv'
  BY <1>1, <1>4, <1>6 DEF JobInv, Resource
<1>8. ConfigInv' /\ UpToDate' /\ MqttInv(mqtt)'
  BY <1>1, <1>6, KeepsConfig, KeepsUpToDate DEF ReloadIInv
<1>9. QED
  BY <1>5, <1>7, <1>8 DEF ReloadIInv

LEMMA WorkerPublishesStep == ReloadIInv /\ WorkerPublishes => ReloadIInv'
<1> SUFFICES ASSUME ReloadIInv, WorkerPublishes PROVE ReloadIInv'
  OBVIOUS
<1>1. /\ UNCHANGED <<resourceVars, job, applied, given, failed>> /\ UNCHANGED pending
      /\ CanTake(worker) /\ Head(worker.tasks).kind # "reload" /\ worker' = done(take(worker))
  BY DEF WorkerPublishes, history
<1> DEFINE w == take(worker)
<1>2. /\ w \in ExecutorOf(WTask) /\ w.busy = Head(worker.tasks)
      /\ Len(w.tasks) <= WorkerLimit
      /\ Holds(w, {ReloadTask}) = One(pending) /\ job.at = "none"
  BY <1>1, WorkerTook DEF ReloadIInv
<1>3. w.busy # ReloadTask
  BY <1>1, <1>2, ReloadKinds
<1> HIDE DEF w
<1>4. /\ done(w) \in ExecutorOf(WTask) /\ done(w).tasks = w.tasks /\ done(w).busy = Idle
  BY <1>2, DoneFields
<1>5. Holds(w, {ReloadTask}) = Holds(done(w), {ReloadTask}) + One(w.busy \in {ReloadTask})
  BY <1>2, ReloadKinds, DoneCounts
<1>6. Holds(done(w), {ReloadTask}) \in Nat
  BY <1>4, HoldsType
<1>7. Holds(done(w), {ReloadTask}) = One(pending)
  BY <1>2, <1>3, <1>5, <1>6 DEF One
<1>8. worker' = done(w)
  BY <1>1 DEF w
<1>9. WorkerInv'
  BY <1>1, <1>2, <1>4, <1>7, <1>8, ReloadKinds DEF ReloadIInv, WorkerInv
<1>10. QED
  BY <1>1, <1>9, QueueStep

(* The job ends, and with it the task of the worker. *)
LEMMA WorkerDone ==
  ASSUME WorkerInv, job.at # "none", worker' = done(worker), pending' = FALSE, job' = NoJob
  PROVE  WorkerInv'
<1>1. worker \in ExecutorOf(WTask) /\ worker.busy = ReloadTask
  BY DEF WorkerInv
<1>2. /\ worker' \in ExecutorOf(WTask) /\ worker'.tasks = worker.tasks /\ worker'.busy = Idle
  BY <1>1, DoneFields
<1>3. Holds(worker, {ReloadTask}) = Holds(worker', {ReloadTask}) + One(worker.busy \in {ReloadTask})
  BY <1>1, ReloadKinds, DoneCounts
<1>4. Holds(worker', {ReloadTask}) \in Nat
  BY <1>2, HoldsType
<1>5. One(worker.busy \in {ReloadTask}) = 1 /\ One(pending) \in {0, 1}
  BY <1>1 DEF One
<1> DEFINE n == Holds(worker', {ReloadTask})
<1>6. n \in Nat /\ One(pending) = n + 1
  BY <1>3, <1>4, <1>5 DEF WorkerInv
<1> HIDE DEF n
<1>7. n = 0
  BY <1>5, <1>6
<1>8. job'.at = "none"
  BY DEF NoJob
<1>9. QED
  BY <1>2, <1>7, <1>8, ReloadKinds DEF WorkerInv, One, n

LEMMA JobEnds ==
  ASSUME ReloadIInv, job.at # "none", mqtt.fresh = NoClient,
         worker' = done(worker), pending' = FALSE, job' = NoJob,
         UNCHANGED <<startup, current, mqtt, applied, given>>,
         job.changed \subseteq failed', failed \subseteq failed'
  PROVE  ReloadIInv'
<1>1. WorkerInv'
  BY WorkerDone DEF ReloadIInv
<1>2. JobInv'
  BY DEF JobInv, NoJob, JobPlace, Resource
<1>3. ConfigInv' /\ UpToDate' /\ MqttInv(mqtt)'
  BY KeepsConfig, KeepsUpToDate DEF ReloadIInv
<1>4. QED
  BY <1>1, <1>2, <1>3 DEF ReloadIInv

LEMMA JobThrowsStep == ReloadIInv /\ JobThrows => ReloadIInv'
<1> SUFFICES ASSUME ReloadIInv, JobThrows PROVE ReloadIInv'
  OBVIOUS
<1>1. job.at # "none" /\ mqtt.fresh = NoClient
  BY DEF JobThrows, ReloadIInv, JobInv, Resource
<1>2. QED
  BY <1>1, JobEnds DEF JobThrows, resourceVars

LEMMA JobReleaseStep == ReloadIInv /\ JobRelease => ReloadIInv'
<1> SUFFICES ASSUME ReloadIInv, JobRelease PROVE ReloadIInv'
  OBVIOUS
<1>1. job.at # "none" /\ mqtt.fresh = NoClient /\ job.changed = {}
  BY DEF JobRelease, ReloadIInv, JobInv
<1>2. QED
  BY <1>1, JobEnds DEF JobRelease, resourceVars, history

LEMMA JobReadStep == ReloadIInv /\ JobRead => ReloadIInv'
<1> SUFFICES ASSUME ReloadIInv, JobRead PROVE ReloadIInv'
  OBVIOUS
<1>1. /\ job.at = "read" /\ UNCHANGED <<startup, mqtt, pending, worker, applied, given, failed>>
  BY DEF JobRead, Job
<1>2. job.changed = {} /\ mqtt.fresh = NoClient /\ job \in [at : JobPlace, changed : SUBSET Resource]
  BY <1>1 DEF ReloadIInv, JobInv
<1>3. CASE job' = [job EXCEPT !.at = "release"] /\ UNCHANGED current
  <2>1. /\ job'.at = "release" /\ job'.changed = {}
        /\ job' \in [at : JobPlace, changed : SUBSET Resource]
    BY <1>2, <1>3 DEF JobPlace
  <2>2. JobInv' /\ WorkerInv'
    BY <1>1, <1>2, <2>1, KeepsWorker DEF ReloadIInv, JobInv, Resource
  <2>3. ConfigInv' /\ UpToDate' /\ MqttInv(mqtt)'
    BY <1>1, <1>2, <1>3, KeepsConfig, KeepsUpToDate DEF ReloadIInv
  <2>4. QED
    BY <2>2, <2>3 DEF ReloadIInv
<1>4. CASE \E fields \in Config : /\ current' = Restored(fields)
                                 /\ job' = Rebuilding(Differences(Restored(fields)))
  <2>1. PICK fields \in Config : /\ current' = Restored(fields)
                                 /\ job' = Rebuilding(Differences(Restored(fields)))
    BY <1>4
  <2>2. current' \in Config /\ current'["port"] = startup["port"]
    BY <2>1 DEF Restored, Config, ReloadIInv, ConfigInv, Field
  <2> DEFINE S == {r \in Resource : current[r] # current'[r]}
  <2>3. job' = Rebuilding(S) /\ S \in SUBSET Resource
    BY <2>1 DEF Differences
  <2>4. /\ job' \in [at : JobPlace, changed : SUBSET Resource] /\ job'.changed = S
        /\ job'.at \in Resource \union {"release"}
        /\ job'.at \in Resource => job'.at \in S
        /\ job'.at = "release" => S = {}
    BY <2>3, RebuildingPlace
  <2>5. JobInv' /\ WorkerInv'
    BY <1>1, <1>2, <2>4, KeepsWorker DEF ReloadIInv, JobInv, Resource
  <2>6. ConfigInv' /\ MqttInv(mqtt)'
    BY <1>1, <2>2 DEF ReloadIInv, ConfigInv
  <2>7. UpToDate'
    <3>1. /\ \A r \in Given : r \in failed \/ Newest(r) = current[r]
          /\ "mqtt" \in failed \/ applied["mqtt"] = current["mqtt"]
      BY <1>2 DEF ReloadIInv, UpToDate
    <3>2. \A r \in Resource : r \in job'.changed \/ current'[r] = current[r]
      BY <2>4
    <3>3. \A r \in Given : r \in Resource /\ Newest(r)' = Newest(r)
      BY <1>1 DEF Given, Resource, Newest
    <3>4. "mqtt" \in Resource
      BY DEF Resource
    <3>5. QED
      BY <1>1, <3>1, <3>2, <3>3, <3>4 DEF UpToDate
  <2>8. QED
    BY <2>5, <2>6, <2>7 DEF ReloadIInv
<1>5. QED
  BY <1>3, <1>4 DEF JobRead

(* The job goes past a resource. *)
LEMMA PastJob ==
  ASSUME ReloadIInv, job.at # "none", NEW r \in Resource, Past(r),
         mqtt'.fresh = NoClient, worker' = worker, pending' = pending
  PROVE  JobInv' /\ WorkerInv' /\ job'.changed = job.changed \ {r}
<1> DEFINE S == job.changed \ {r}
<1>1. S \in SUBSET Resource /\ job' = Rebuilding(S)
  BY DEF ReloadIInv, JobInv, Past
<1> HIDE DEF S
<1>2. /\ job' \in [at : JobPlace, changed : SUBSET Resource] /\ job'.changed = S
      /\ job'.at \in Resource \union {"release"}
      /\ job'.at \in Resource => job'.at \in S
      /\ job'.at = "release" => S = {}
  BY <1>1, RebuildingPlace
<1>3. JobInv'
  BY <1>2 DEF JobInv, Resource
<1>4. WorkerInv'
  BY <1>2, KeepsWorker DEF ReloadIInv, Resource
<1>5. QED
  BY <1>2, <1>3, <1>4 DEF S

LEMMA JobApplyStep == ASSUME ReloadIInv, NEW r \in Given, JobApply(r) PROVE ReloadIInv'
<1>1. /\ job.at = r /\ Past(r) /\ UNCHANGED <<startup, current, mqtt, worker, pending, applied>>
      /\ r \in Resource /\ job.at # "none" /\ mqtt.fresh = NoClient
  BY DEF JobApply, Job, resourceVars, Given, Resource, ReloadIInv, JobInv
<1>2. JobInv' /\ WorkerInv' /\ job'.changed = job.changed \ {r}
  BY <1>1, PastJob
<1>3. /\ \A g \in Given : g \in job.changed \/ g \in failed \/ Newest(g) = current[g]
      /\ "mqtt" \in job.changed \/ "mqtt" \in failed \/ applied["mqtt"] = current["mqtt"]
      /\ r # "mqtt"
  BY DEF ReloadIInv, UpToDate, Given
<1>4. CASE Fails(r) /\ UNCHANGED given
  <2>1. failed' = failed \union {r}
    BY <1>4 DEF Fails
  <2>2. UpToDate' /\ ConfigInv'
    BY <1>1, <1>2, <1>4, <2>1, KeepsUpToDate, KeepsConfig DEF ReloadIInv
  <2>3. QED
    BY <1>1, <1>2, <2>2 DEF ReloadIInv
<1>5. CASE Succeeds(r) /\ given' = [given EXCEPT ![r] = Append(@, current[r])]
  <2>1. given \in [Given -> Seq(Value)] /\ current[r] \in Value
    BY <1>1 DEF ReloadIInv, ConfigInv, Config, Field
  <2>2. /\ given[r] \in Seq(Value) /\ Append(given[r], current[r]) \in Seq(Value)
        /\ Len(Append(given[r], current[r])) = Len(given[r]) + 1
        /\ Append(given[r], current[r])[Len(given[r]) + 1] = current[r]
        /\ Len(given[r]) \in Nat
    BY <2>1, AppendProperties
  <2>3. /\ given' \in [Given -> Seq(Value)] /\ given'[r] = Append(given[r], current[r])
        /\ \A g \in Given : g # r => given'[g] = given[g]
    BY <1>5, <2>1, <2>2
  <2>4. given'[r] # <<>>
    BY <2>2, <2>3
  <2>5. Newest(r)' = current[r]
    BY <2>2, <2>3, <2>4 DEF Newest
  <2>6. \A g \in Given : g # r => Newest(g)' = Newest(g)
    BY <1>1, <2>3 DEF Newest
  <2>7. failed' = failed \ {r}
    BY <1>5 DEF Succeeds
  <2>8. UpToDate'
    BY <1>1, <1>2, <1>3, <2>5, <2>6, <2>7 DEF UpToDate
  <2>9. ConfigInv' /\ MqttInv(mqtt)'
    BY <1>1, <2>3 DEF ReloadIInv, ConfigInv
  <2>10. QED
    BY <1>2, <2>8, <2>9 DEF ReloadIInv
<1>6. QED
  BY <1>4, <1>5 DEF JobApply

(* reloadMqtt() fails, at any of its steps: the owner is kept. *)
LEMMA MqttGivenUp ==
  ASSUME ReloadIInv, job.at # "none", Past("mqtt"), Fails("mqtt"),
         MqttInv(mqtt'), mqtt'.fresh = NoClient,
         UNCHANGED <<startup, current, worker, pending, applied, given>>
  PROVE  ReloadIInv'
<1>1. "mqtt" \in Resource
  BY DEF Resource
<1>2. JobInv' /\ WorkerInv' /\ job'.changed = job.changed \ {"mqtt"}
  BY <1>1, PastJob
<1>3. failed' = failed \union {"mqtt"}
  BY DEF Fails
<1>4. UpToDate' /\ ConfigInv'
  BY <1>2, <1>3, KeepsUpToDate, KeepsConfig DEF ReloadIInv
<1>5. QED
  BY <1>2, <1>4 DEF ReloadIInv

(* It goes on to its next step, with a candidate. *)
LEMMA MqttGoesOn ==
  ASSUME ReloadIInv, job.at # "none", "mqtt" \in job.changed, NEW place \in {"start", "replace"},
         job' = [job EXCEPT !.at = place], failed' = failed,
         MqttInv(mqtt'), mqtt'.fresh # NoClient,
         UNCHANGED <<startup, current, worker, pending, applied, given>>
  PROVE  ReloadIInv'
<1>1. job \in [at : JobPlace, changed : SUBSET Resource]
  BY DEF ReloadIInv, JobInv
<1>2. /\ job'.at = place /\ job'.changed = job.changed
      /\ job' \in [at : JobPlace, changed : SUBSET Resource]
  BY <1>1 DEF JobPlace
<1>3. JobInv'
  BY <1>2 DEF JobInv, Resource
<1>4. WorkerInv' /\ UpToDate' /\ ConfigInv'
  BY <1>2, KeepsWorker, KeepsUpToDate, KeepsConfig DEF ReloadIInv
<1>5. QED
  BY <1>3, <1>4 DEF ReloadIInv

LEMMA MqttCreateStep == ReloadIInv /\ MqttCreate => ReloadIInv'
<1> SUFFICES ASSUME ReloadIInv, MqttCreate PROVE ReloadIInv'
  OBVIOUS
<1>1. /\ job.at = "mqtt" /\ job.at # "none"
      /\ UNCHANGED <<startup, current, worker, pending, applied, given>>
  BY DEF MqttCreate, Job
<1>2. MqttInv(mqtt) /\ mqtt.fresh = NoClient /\ "mqtt" \in job.changed
  BY <1>1 DEF ReloadIInv, JobInv, Resource
<1>3. CASE mqtt' = constructFails(mqtt) /\ Past("mqtt") /\ Fails("mqtt")
  <2>1. MqttInv(mqtt') /\ mqtt'.fresh = NoClient
    BY <1>2, <1>3, ConstructFailsKeeps
  <2>2. QED
    BY <1>1, <1>3, <2>1, MqttGivenUp
<1>4. CASE /\ \E shared \in BOOLEAN : mqtt' = construct(mqtt, shared)
           /\ job' = [job EXCEPT !.at = "start"] /\ UNCHANGED failed
  <2>1. MqttInv(mqtt') /\ mqtt'.fresh # NoClient
    BY <1>2, <1>4, ConstructKeeps
  <2>2. QED
    BY <1>1, <1>2, <1>4, <2>1, MqttGoesOn
<1>5. QED
  BY <1>3, <1>4 DEF MqttCreate

LEMMA MqttStartStep == ReloadIInv /\ MqttStart => ReloadIInv'
<1> SUFFICES ASSUME ReloadIInv, MqttStart PROVE ReloadIInv'
  OBVIOUS
<1>1. /\ job.at = "start" /\ job.at # "none"
      /\ UNCHANGED <<startup, current, worker, pending, applied, given>>
  BY DEF MqttStart, Job
<1>2. MqttInv(mqtt) /\ mqtt.fresh # NoClient /\ "mqtt" \in job.changed
  BY <1>1 DEF ReloadIInv, JobInv
<1>3. CASE mqtt' = destroy(mqtt, "fresh") /\ Past("mqtt") /\ Fails("mqtt")
  <2>1. MqttInv(mqtt') /\ mqtt'.fresh = NoClient
    BY <1>2, <1>3, DestroyFresh
  <2>2. QED
    BY <1>1, <1>3, <2>1, MqttGivenUp
<1>4. CASE /\ mqtt' = loopStart(mqtt)
           /\ job' = [job EXCEPT !.at = "replace"] /\ UNCHANGED failed
  <2>1. MqttInv(mqtt') /\ mqtt'.fresh # NoClient
    BY <1>2, <1>4, LoopStartKeeps
  <2>2. QED
    BY <1>1, <1>2, <1>4, <2>1, MqttGoesOn
<1>5. QED
  BY <1>3, <1>4 DEF MqttStart

LEMMA MqttReplaceStep == ReloadIInv /\ MqttReplace => ReloadIInv'
<1> SUFFICES ASSUME ReloadIInv, MqttReplace PROVE ReloadIInv'
  OBVIOUS
<1>1. /\ job.at = "replace" /\ job.at # "none" /\ mqtt' = replace(mqtt)
      /\ applied' = [applied EXCEPT !["mqtt"] = current["mqtt"]]
      /\ Past("mqtt") /\ failed' = failed \ {"mqtt"}
      /\ UNCHANGED <<startup, current, worker, pending, given>>
  BY DEF MqttReplace, Job, Succeeds
<1>2. MqttInv(mqtt') /\ mqtt'.fresh = NoClient /\ "mqtt" \in Resource
  BY <1>1, ReplaceKeeps DEF ReloadIInv, Resource
<1>3. JobInv' /\ WorkerInv' /\ job'.changed = job.changed \ {"mqtt"}
  BY <1>1, <1>2, PastJob
<1>4. applied \in [Resource -> Value] /\ current["mqtt"] \in Value
  BY <1>2 DEF ReloadIInv, ConfigInv, Config, Field
<1>5. /\ applied' \in [Resource -> Value] /\ applied'["mqtt"] = current["mqtt"]
      /\ \A r \in Given : applied'[r] = applied[r]
  BY <1>1, <1>2, <1>4 DEF Given, Resource
<1>6. \A r \in Given : Newest(r)' = Newest(r) /\ r # "mqtt"
  BY <1>1, <1>5 DEF Newest, Given
<1>7. UpToDate'
  BY <1>1, <1>3, <1>5, <1>6 DEF ReloadIInv, UpToDate
<1>8. ConfigInv'
  BY <1>1, <1>5 DEF ReloadIInv, ConfigInv
<1>9. QED
  BY <1>2, <1>3, <1>7, <1>8 DEF ReloadIInv
-----------------------------------------------------------------------------
(* The other threads. *)

(* A step that changes only the MQTT clients, and not which of them exist. *)
LEMMA NetworkStep ==
  ASSUME ReloadIInv, MqttInv(mqtt'), mqtt'.fresh # NoClient <=> mqtt.fresh # NoClient,
         UNCHANGED <<startup, current, pending, worker, job, applied, given, failed>>
  PROVE  ReloadIInv'
<1>1. JobInv'
  BY KeepsJob DEF ReloadIInv
<1>2. WorkerInv' /\ ConfigInv' /\ UpToDate'
  BY KeepsWorker, KeepsConfig, KeepsUpToDate DEF ReloadIInv
<1>3. QED
  BY <1>1, <1>2 DEF ReloadIInv

LEMMA MqttThreadStep ==
  ASSUME ReloadIInv, NEW s \in Slot, MqttThread(s) \/ ConnectionLost(s)
  PROVE  ReloadIInv'
<1>1. UNCHANGED <<startup, current, pending, worker, job, applied, given, failed>> /\ MqttInv(mqtt)
  BY DEF MqttThread, ConnectionLost, history, ReloadIInv
<1>2. MqttInv(mqtt') /\ (mqtt'.fresh # NoClient <=> mqtt.fresh # NoClient)
  <2>1. CASE CanConnect(mqtt, s) /\ mqtt' = onConnect(mqtt, s)
    BY <1>1, <2>1, ConnectKeeps
  <2>2. CASE CanLose(mqtt, s) /\ mqtt' = Lost(mqtt, s)
    BY <1>1, <2>2, LostKeeps
  <2>3. QED
    BY <2>1, <2>2 DEF MqttThread, ConnectionLost
<1>3. QED
  BY <1>1, <1>2, NetworkStep

(* The owner of a resource takes the oldest it was given: the newest value *)
(* stays what it was, unless it was the last and could not be used.        *)
LEMMA OwnerStep == ASSUME ReloadIInv, NEW r \in Given, Owner(r) PROVE ReloadIInv'
<1>1. /\ UNCHANGED <<startup, current, mqtt, pending, worker, job>>
      /\ given[r] # <<>> /\ given' = [given EXCEPT ![r] = Tail(@)]
  BY DEF Owner, resourceVars
<1>2. given \in [Given -> Seq(Value)] /\ applied \in [Resource -> Value] /\ r \in Resource /\ r # "mqtt"
  BY DEF ReloadIInv, ConfigInv, Given, Resource
<1>3. /\ given[r] \in Seq(Value) /\ Head(given[r]) \in Value /\ Tail(given[r]) \in Seq(Value)
      /\ Len(given[r]) \in Nat /\ Len(given[r]) > 0 /\ Len(Tail(given[r])) = Len(given[r]) - 1
  BY <1>1, <1>2, HeadTailProperties, EmptySeq, LenProperties
<1>4. /\ given' \in [Given -> Seq(Value)] /\ given'[r] = Tail(given[r])
      /\ \A g \in Given : g # r => given'[g] = given[g]
  BY <1>1, <1>2, <1>3
<1>5. CASE Len(given[r]) = 1
  <2>1. Tail(given[r]) = <<>> /\ given[r][1] = Head(given[r])
    <3> DEFINE s == given[r]
    <3>1. s \in Seq(Value) /\ Tail(s) \in Seq(Value) /\ Len(Tail(s)) = 0
      BY <1>3, <1>5
    <3> HIDE DEF s
    <3>2. Tail(s) = <<>> /\ s[1] = Head(s)
      BY <3>1, EmptySeq, SMTT(20)
    <3>3. QED
      BY <3>2 DEF s
  <2>2. CASE applied' = [applied EXCEPT ![r] = Head(given[r])] /\ UNCHANGED failed
    <3>1. /\ applied' \in [Resource -> Value] /\ applied'[r] = Head(given[r])
          /\ \A g \in Resource : g # r => applied'[g] = applied[g]
      BY <1>2, <1>3, <2>2
    <3>2. Newest(r)' = Newest(r)
      BY <1>1, <1>4, <1>5, <2>1, <3>1 DEF Newest
    <3>3. \A g \in Given : Newest(g)' = Newest(g)
      BY <1>4, <3>1, <3>2 DEF Newest, Given, Resource
    <3>4. applied'["mqtt"] = applied["mqtt"]
      BY <1>2, <3>1 DEF Resource
    <3>5. UpToDate'
      BY <1>1, <2>2, <3>3, <3>4 DEF ReloadIInv, UpToDate
    <3>6. ConfigInv' /\ JobInv' /\ WorkerInv' /\ MqttInv(mqtt)'
      BY <1>1, <1>4, <3>1, KeepsJob, KeepsWorker DEF ReloadIInv, ConfigInv
    <3>7. QED
      BY <3>5, <3>6 DEF ReloadIInv
  <2>3. CASE failed' = failed \union {r} /\ UNCHANGED applied
    <3>1. \A g \in Given : g # r => Newest(g)' = Newest(g)
      BY <1>4, <2>3 DEF Newest
    <3>2. UpToDate'
      BY <1>1, <2>3, <3>1 DEF ReloadIInv, UpToDate
    <3>3. ConfigInv' /\ JobInv' /\ WorkerInv' /\ MqttInv(mqtt)'
      BY <1>1, <1>4, <2>3, KeepsJob, KeepsWorker DEF ReloadIInv, ConfigInv
    <3>4. QED
      BY <3>2, <3>3 DEF ReloadIInv
  <2>4. QED
    BY <1>5, <2>2, <2>3 DEF Owner
<1>6. CASE Len(given[r]) # 1
  <2>1. /\ Tail(given[r]) # <<>>
        /\ Tail(given[r])[Len(Tail(given[r]))] = given[r][Len(given[r])]
    <3> DEFINE s == given[r]
    <3>0. /\ s \in Seq(Value) /\ Len(s) \in Nat /\ Len(s) > 0 /\ Len(s) # 1
          /\ Len(Tail(s)) = Len(s) - 1 /\ s # <<>>
      BY <1>1, <1>3, <1>6
    <3> HIDE DEF s
    <3>1. /\ s \in Seq(Value) /\ Len(s) \in Nat /\ Len(s) > 1
          /\ Len(Tail(s)) = Len(s) - 1 /\ s # <<>> /\ Len(Tail(s)) # 0
      BY <3>0
    <3>2. Tail(s)[Len(s) - 1] = s[Len(s)]
      BY <3>1
    <3>3. Tail(s) # <<>>
      <4>1. Len(<<>>) = 0
        OBVIOUS
      <4>2. QED
        BY ONLY <3>1, <4>1
    <3>4. QED
      BY <3>1, <3>2, <3>3 DEF s
  <2>2. Newest(r)' = Newest(r)
    BY <1>1, <1>4, <2>1 DEF Newest
  <2>3. /\ applied' \in [Resource -> Value] /\ failed' = failed
        /\ \A g \in Resource : g # r => applied'[g] = applied[g]
    BY <1>2, <1>3, <1>6 DEF Owner
  <2>4. \A g \in Given : Newest(g)' = Newest(g)
    BY <1>4, <2>2, <2>3 DEF Newest, Given, Resource
  <2>5. applied'["mqtt"] = applied["mqtt"]
    BY <1>2, <2>3 DEF Resource
  <2>6. UpToDate'
    BY <1>1, <2>3, <2>4, <2>5 DEF ReloadIInv, UpToDate
  <2>7. ConfigInv' /\ JobInv' /\ WorkerInv' /\ MqttInv(mqtt)'
    BY <1>1, <1>4, <2>3, KeepsJob, KeepsWorker DEF ReloadIInv, ConfigInv
  <2>8. QED
    BY <2>6, <2>7 DEF ReloadIInv
<1>7. QED
  BY <1>5, <1>6

LEMMA StopWorkerStep == ReloadIInv /\ StopWorker => ReloadIInv'
<1> SUFFICES ASSUME ReloadIInv, StopWorker PROVE ReloadIInv'
  OBVIOUS
<1>1. /\ UNCHANGED <<resourceVars, job, applied, given, failed>> /\ UNCHANGED pending
      /\ worker' = close(worker)
  BY DEF StopWorker, history
<1>2. /\ worker' \in ExecutorOf(WTask) /\ worker'.tasks = worker.tasks /\ worker'.busy = worker.busy
      /\ Holds(worker', {ReloadTask}) = Holds(worker, {ReloadTask})
  BY <1>1, CloseFields DEF ReloadIInv, WorkerInv
<1>3. WorkerInv'
  BY <1>1, <1>2 DEF ReloadIInv, WorkerInv
<1>4. QED
  BY <1>1, <1>3, QueueStep

LEMMA EndsStep == ReloadIInv /\ Ends => ReloadIInv'
<1> SUFFICES ASSUME ReloadIInv, Ends PROVE ReloadIInv'
  OBVIOUS
<1>1. /\ mqtt' = destroy(mqtt, "owner")
      /\ UNCHANGED <<startup, current, pending, worker, job, applied, given, failed>>
  BY DEF Ends, history
<1>2. MqttInv(mqtt') /\ mqtt'.fresh = mqtt.fresh
  BY <1>1, DestroyOwner DEF ReloadIInv
<1>3. QED
  BY <1>1, <1>2, NetworkStep

LEMMA ReloadStepInv == ReloadIInv /\ [Next]_vars => ReloadIInv'
<1> SUFFICES ASSUME ReloadIInv, [Next]_vars PROVE ReloadIInv'
  OBVIOUS
<1>1. CASE Publish
  BY <1>1, PublishStep
<1>2. CASE onSignals
  BY <1>2, OnSignalsStep
<1>3. CASE (\E s \in {"hup", "term"} : Signal(s)) \/ onStop \/ AdminFails \/ StopAdmin \/ UNCHANGED vars
  <2>1. UNCHANGED <<resourceVars, pending, worker, job, applied, given, failed>>
    BY <1>3 DEF Signal, onStop, AdminFails, StopAdmin, vars, history
  <2>2. QED
    BY <2>1, QuietStep
<1>4. CASE Worker
  BY <1>4, WorkerTakeStep, WorkerPublishesStep, JobReadStep, JobApplyStep, MqttCreateStep,
     MqttStartStep, MqttReplaceStep, JobThrowsStep, JobReleaseStep DEF Worker, Given
<1>5. CASE \E s \in Slot : MqttThread(s) \/ ConnectionLost(s)
  BY <1>5, MqttThreadStep
<1>6. CASE \E r \in {"db", "serial"} : Owner(r)
  BY <1>6, OwnerStep DEF Given
<1>7. CASE StopWorker \/ Ends
  BY <1>7, StopWorkerStep, EndsStep
<1>8. QED
  BY <1>1, <1>2, <1>3, <1>4, <1>5, <1>6, <1>7 DEF Next, Main, Ended
-----------------------------------------------------------------------------
(* The invariant that carries the proofs holds in every reachable state:   *)
(* the MQTT clients are counted, a job agrees with what it has left to     *)
(* rebuild, reload_pending_ with the tasks of the worker, and the newest   *)
(* value of a resource with the published configuration.                   *)
THEOREM ReloadInvariant == Spec => []ReloadIInv
BY ReloadInitInv, ReloadStepInv, PTL DEF Spec

(* reload_pending_ is set exactly while one reload is queued or running,   *)
(* on every way out of the task, the exception included                    *)
(* (GatewayApp::requestReload), for any number of reloads.                 *)
THEOREM ReloadPendingIsOneReload == Spec => []PendingIsOneReload
BY ReloadInvariant, ImpliesPending, PTL

(* However reloads overtake the hand-over of earlier ones, and whatever    *)
(* part of them fails, when nothing is under way each resource was built   *)
(* with the published configuration or its last try failed                 *)
(* (GatewayApp::reloadConfig, onDownlinkEvent).                            *)
THEOREM ReloadAppliedIsPublished == Spec => []AppliedIsPublished
BY ReloadInvariant, ImpliesApplied, PTL
=============================================================================
