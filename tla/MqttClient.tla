----------------------------- MODULE MqttClient -----------------------------
(***************************************************************************)
(* MqttClient.cpp: the gateway's connection to the broker.  A reload makes *)
(* a second client before it gives up the first, both with the client id   *)
(* "gateway-main": on the same broker each of them, when it connects,      *)
(* takes the session of the other.  The library connects again by itself,  *)
(* and a session, being clean, starts without subscriptions every time.    *)
(*                                                                         *)
(* All clients, with the count of those that use the library, are one      *)
(* record m; the operations are operators on it.  owner is mqtt_client_,   *)
(* fresh the candidate createMqttClient() is working on.                   *)
(***************************************************************************)
EXTENDS Naturals

\* A client: whether it is connected and subscribed, and whether its network
\* thread runs.
Client == [subscribed : BOOLEAN, loop : BOOLEAN]
NoClient == [subscribed |-> FALSE, loop |-> FALSE, none |-> TRUE]

Slot == {"owner", "fresh"}
Other == [owner |-> "fresh", fresh |-> "owner"]

Alive(m) == {s \in Slot : m[s] # NoClient}

libInit(m) == [m EXCEPT !.lib = @ + 1]
libCleanup(m) == [m EXCEPT !.lib = @ - 1]

\* The broker takes CONNECT from s: another client of it loses its session.
Connected(m, s) ==
  [m EXCEPT ![Other[s]] = IF m.shared /\ @ # NoClient THEN [@ EXCEPT !.subscribed = FALSE]
                          ELSE @]

\* The constructor and the destructor.  A connection that cannot be made is
\* given up with the library's count as it was.
construct(m, shared) ==
  Connected([libInit(m) EXCEPT !.shared = shared,
                               !.fresh = [subscribed |-> FALSE, loop |-> FALSE]], "fresh")
constructFails(m) == libCleanup(libInit(m))
destroy(m, s) == IF m[s] = NoClient THEN m ELSE libCleanup([m EXCEPT ![s] = NoClient])

loopStart(m) == [m EXCEPT !.fresh.loop = TRUE]

\* mqtt_client_ = createMqttClient(): the old client is destroyed.
replace(m) ==
  [destroy(m, "owner") EXCEPT !.owner = m.fresh, !.fresh = NoClient, !.shared = TRUE]

\* The client run() made before the loop.
FirstClient ==
  replace(loopStart(construct(
    [lib |-> 0, owner |-> NoClient, fresh |-> NoClient, shared |-> TRUE], TRUE)))

(* The network thread of a client connects, unless the constructor did and *)
(* the session is still there, and the callback of CONNACK subscribes to   *)
(* everything in subs_.  Attempts that come to nothing are left out.       *)
CanConnect(m, s) == m[s].loop /\ ~m[s].subscribed
onConnect(m, s) == [Connected(m, s) EXCEPT ![s].subscribed = TRUE]

CanLose(m, s) == m[s].subscribed
Lost(m, s) == [m EXCEPT ![s].subscribed = FALSE]

\* The library is there as long as a client is.
ClientsCounted(m) ==
  /\ \A s \in Alive(m) : m[s] \in Client
  /\ m.lib = (IF m.owner = NoClient THEN 0 ELSE 1) + (IF m.fresh = NoClient THEN 0 ELSE 1)
=============================================================================
