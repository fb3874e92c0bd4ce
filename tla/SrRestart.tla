------------------------------ MODULE SrRestart ------------------------------
(***************************************************************************)
(* SrLink with restarts of the gateway process while the node, which keeps *)
(* its session high water mark in RAM, stays up.                           *)
(*                                                                         *)
(* A new process takes its first session number from the wall clock, which *)
(* may have been set back.  ClockIsFresh is the assumption its correctness *)
(* rests on: the clock, in microseconds, does not give a number that was a *)
(* session before.                                                         *)
(***************************************************************************)
EXTENDS SrLink

CONSTANT MaxRestarts    \* bound: restarts in a behaviour

ASSUME RestartAssumption == MaxRestarts \in Nat

VARIABLES
  restarts,   \* bound counter: restarts so far
  used        \* history: the sessions opened so far

restartVars == <<linkVars, restarts, used>>

RestartInit == LinkInit /\ restarts = 0 /\ used = {}

(***************************************************************************)
(* ~GatewayApp() when the Reactor has left its loop: what is queued and in *)
(* flight is reported as gateway_shutdown; then a new process begins.      *)
(***************************************************************************)
GatewayRestart ==
  /\ restarts < MaxRestarts
  /\ reactor = "idle"
  /\ restarts' = restarts + 1
  /\ outcome' = [id \in DOMAIN outcome |->
                   IF \/ \E q \in Seqs : requests[q] = id
                      \/ \E i \in DOMAIN cmdQueue : cmdQueue[i] = id
                     THEN "gateway_shutdown" ELSE outcome[id]]
  /\ tracker' = ClosedTracker
  /\ cmdQueue' = << >>
  /\ requests' = [q \in Seqs |-> 0]
  /\ output' = << >>
  /\ begun' = FALSE
  /\ notified' = FALSE
  /\ replacements' = 0
  /\ UNCHANGED <<nodeVars, discarded, reactor, processed, reloads, downlink,
                 command, assigned, used>>

ClockIsFresh ==
  (replacements = 0 /\ tracker.state = "Closed" /\ tracker'.state = "Opening")
    => tracker'.session \notin used

RestartNext ==
  \/ /\ LinkNext
     /\ ClockIsFresh
     /\ used' = used \cup {tracker'.session}
     /\ UNCHANGED restarts
  \/ GatewayRestart

RestartSpec == RestartInit /\ [][RestartNext]_restartVars

-----------------------------------------------------------------------------
(***************************************************************************)
(* At a restart nothing the old process had taken is left without a        *)
(* report: while the Reactor is idle every command still to be reported is *)
(* in cmd_queue_ or in requests_, so the destructor finds it.              *)
(***************************************************************************)
NothingForgotten ==
  \A id \in DOMAIN outcome : outcome[id] = "pending" =>
    \/ \E q \in Seqs : requests[q] = id
    \/ \E i \in DOMAIN cmdQueue : cmdQueue[i] = id
=============================================================================
