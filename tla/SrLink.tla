------------------------------- MODULE SrLink -------------------------------
(***************************************************************************)
(* The command path from GatewayCore's submission to the node's execution  *)
(* and back: GatewayApp's serial Reactor with its CommandTracker and the   *)
(* output queue of NodeLink, the two directions of the serial line, and    *)
(* the node (SrNode).                                                      *)
(*                                                                         *)
(* One thread, the Reactor, runs all handlers of this module, one at a     *)
(* time; variable reactor says which handler it is in.  Commands and       *)
(* replacement ports come from other threads at any time.                  *)
(*                                                                         *)
(* The line is the set of frames written to it so far.  Each of them may   *)
(* be received any number of times, in any order, or never: loss by CRC    *)
(* errors, delay across a port replacement, and more than a wire can do.   *)
(* The two ends have clocks of their own.                                  *)
(***************************************************************************)
EXTENDS SrNode, CommandTracker

CONSTANTS
  MaxCommands,      \* bound: commands submitted in a behaviour
  MaxReplacements,  \* bound: serial ports a behaviour reloads
  BatchSize,        \* kDownlinkBatchSize
  MaxOutput,        \* bound: frames on output_ when one more is received
  Epoch             \* session numbers the wall clock may give

ASSUME LinkAssumption ==
  /\ MaxCommands \in Nat
  /\ MaxReplacements \in Nat
  /\ BatchSize \in Nat \ {0}
  /\ MaxOutput \in Nat
  /\ Epoch \subseteq UsedSession

VARIABLES
  tracker,        \* GatewayApp::tracker_
  cmdQueue,       \* GatewayApp::cmd_queue_, the ids of the commands in it
  requests,       \* GatewayApp::requests_: seq to id, 0 where there is none
  output,         \* NodeLink::output_
  begun,          \* a prefix of the head of output has been written
  discarded,      \* discardOutput()'s queue of writes still to be told
  reactor,        \* the handler the Reactor is in
  processed,      \* commands taken in this run of the submission loop
  notified,       \* the eventfd counter is not zero
  replacements,   \* GatewayApp::replacements_, how many ports it holds
  reloads,        \* bound counter: ports reloaded so far
  downlink,       \* frames the gateway has written to the line
  command,        \* history: the commands submitted, in order; id = index
  assigned,       \* history: the (session, seq) a command was given
  outcome         \* history: what was reported for it

gatewayVars == <<tracker, cmdQueue, requests, output, begun, discarded,
                 reactor, processed, notified, replacements, reloads,
                 downlink, command, assigned, outcome>>
linkVars == <<node, nodePc, uplink, executed, tracker, cmdQueue, requests,
              output, begun, discarded, reactor, processed, notified,
              replacements, reloads, downlink, command, assigned, outcome>>

Id == 1 .. MaxCommands
NotAssigned == [session |-> 0, seq |-> 0]
Outcome == Result \cup Reason \cup {"pending", "link_failed",
                                  "gateway_shutdown"}

GatewayTypeOK ==
  /\ tracker \in Tracker
  /\ cmdQueue \in Seq(Id)
  /\ requests \in [Seqs -> Id \cup {0}]
  /\ output \in Seq(CommandSend)
  /\ begun \in BOOLEAN
  /\ discarded \in Seq(CommandSend)
  /\ reactor \in {"idle", "replace", "submit", "discard"}
  /\ processed \in 0 .. BatchSize
  /\ notified \in BOOLEAN
  /\ replacements \in Nat
  /\ reloads \in 0 .. MaxReplacements
  /\ downlink \subseteq DownFrame
  /\ command \in Seq(Command)
  /\ assigned \in Seq([session : Session, seq : Seqs])
  /\ outcome \in Seq(Outcome)

(* Type correctness of both ends, the output queue and the line: session   *)
(* numbers, windows and retries within their limits (CommandTracker.cpp:48)*)
LinkTypeOK == NodeTypeOK /\ GatewayTypeOK

LinkInit ==
  /\ NodeInit
  /\ tracker = ClosedTracker
  /\ cmdQueue = << >>
  /\ requests = [q \in Seqs |-> 0]
  /\ output = << >>
  /\ begun = FALSE
  /\ discarded = << >>
  /\ reactor = "idle"
  /\ processed = 0
  /\ notified = FALSE
  /\ replacements = 0
  /\ reloads = 0
  /\ downlink = {}
  /\ command = << >>
  /\ assigned = << >>
  /\ outcome = << >>

-----------------------------------------------------------------------------
(***************************************************************************)
(* applyTrackerActions(): every finished command is looked up in requests_ *)
(* and reported to GatewayCore; then the frames are queued on NodeLink.    *)
(* queue is the output queue they are appended to.                         *)
(***************************************************************************)
FinishedSeqs(r) == {d.seq : d \in r.finished}
OutcomeOf(r, q) == (CHOOSE d \in r.finished : d.seq = q).outcome

applyTrackerActions(r, queue) ==
  /\ tracker' = r.t
  /\ output' = queue \o r.send
  /\ requests' = [q \in Seqs |-> IF q \in FinishedSeqs(r) THEN 0
                                 ELSE requests[q]]
  /\ outcome' = [id \in DOMAIN outcome |->
       IF \E q \in FinishedSeqs(r) : requests[q] = id
         THEN OutcomeOf(r, CHOOSE q \in FinishedSeqs(r) : requests[q] = id)
         ELSE outcome[id]]

\* "if (!cmd_queue_.empty()) notifyDownlink()"
NotifyIfQueued == notified' = (notified \/ cmdQueue # << >>)

-----------------------------------------------------------------------------
\* submitCommand(), called by the business thread.
SubmitCommand(c) ==
  /\ Len(command) < MaxCommands
  /\ command' = Append(command, c)
  /\ assigned' = Append(assigned, NotAssigned)
  /\ outcome' = Append(outcome, "pending")
  /\ cmdQueue' = Append(cmdQueue, Len(command) + 1)
  /\ notified' = TRUE
  /\ UNCHANGED <<nodeVars, processed, tracker, requests, output, begun, discarded,
                 reactor, replacements, reloads, downlink>>

\* reloadSerial(), called by the management worker: an opened port.
ReloadSerial ==
  /\ reloads < MaxReplacements
  /\ reloads' = reloads + 1
  /\ replacements' = replacements + 1
  /\ notified' = TRUE
  /\ UNCHANGED <<nodeVars, processed, tracker, cmdQueue, requests, output, begun,
                 discarded, reactor, downlink, command, assigned, outcome>>

-----------------------------------------------------------------------------
\* onDownlinkEvent(): the eventfd is read first, then the queues.
OnDownlinkEvent ==
  /\ reactor = "idle"
  /\ notified
  /\ notified' = FALSE
  /\ reactor' = "replace"
  /\ UNCHANGED <<nodeVars, processed, tracker, cmdQueue, requests, output, begun,
                 discarded, replacements, reloads, downlink, command,
                 assigned, outcome>>

\* A candidate port that cannot be configured: the old link is kept.
ReplacementFails ==
  /\ reactor = "replace"
  /\ replacements > 0
  /\ replacements' = replacements - 1
  /\ UNCHANGED <<nodeVars, processed, tracker, cmdQueue, requests, output, begun,
                 discarded, reactor, notified, reloads, downlink, command,
                 assigned, outcome>>

\* The new port takes over: the old session ends, the old link's output is
\* destroyed without callbacks, and the new OPEN is the new link's first.
ReplaceSerial ==
  /\ reactor = "replace"
  /\ replacements > 0
  /\ replacements' = replacements - 1
  /\ applyTrackerActions(start(tracker, tracker.session), << >>)
  /\ begun' = FALSE
  /\ UNCHANGED <<nodeVars, processed, cmdQueue, discarded, reactor, notified, reloads,
                 downlink, command, assigned>>

\* No more ports: the first command opens the first session, whose number
\* is the wall clock's.
BeginSubmitting ==
  /\ reactor = "replace"
  /\ replacements = 0
  /\ reactor' = "submit"
  /\ IF cmdQueue # << >> /\ tracker.state = "Closed"
       THEN \E epoch \in Epoch :
              applyTrackerActions(start(tracker, epoch), output)
       ELSE UNCHANGED <<tracker, output, requests, outcome>>
  /\ UNCHANGED <<nodeVars, processed, cmdQueue, begun, discarded, notified,
                 replacements, reloads, downlink, command, assigned>>

\* One pass of the submission loop: requests_.emplace() keeps an old value.
SubmitNext ==
  /\ reactor = "submit"
  /\ processed < BatchSize
  /\ cmdQueue # << >>
  /\ canSubmit(tracker)
  /\ LET id == Head(cmdQueue)
         r == submit(tracker, command[id])
     IN
     /\ tracker' = r.t
     /\ output' = output \o r.send
     /\ requests' = [requests EXCEPT ![tracker.next] =
                       IF @ = 0 THEN id ELSE @]
     /\ assigned' = [assigned EXCEPT ![id] =
                       [session |-> tracker.session, seq |-> tracker.next]]
  /\ cmdQueue' = Tail(cmdQueue)
  /\ processed' = processed + 1
  /\ UNCHANGED <<nodeVars, begun, discarded, reactor, notified,
                 replacements, reloads, downlink, command, outcome>>

\* Bug variant: taken from the queue and not reported.
RejectNext_Silent ==
  /\ reactor = "submit"
  /\ processed < BatchSize
  /\ cmdQueue # << >>
  /\ tracker.state = "Failed"
  /\ cmdQueue' = Tail(cmdQueue)
  /\ processed' = processed + 1
  /\ UNCHANGED <<nodeVars, tracker, requests, output, begun, discarded,
                 reactor, notified, replacements, reloads, downlink, command,
                 assigned, outcome>>

\* The link has failed: commandRejected(id, "link_failed").
RejectNext ==
  /\ reactor = "submit"
  /\ processed < BatchSize
  /\ cmdQueue # << >>
  /\ tracker.state = "Failed"
  /\ outcome' = [outcome EXCEPT ![Head(cmdQueue)] = "link_failed"]
  /\ cmdQueue' = Tail(cmdQueue)
  /\ processed' = processed + 1
  /\ UNCHANGED <<nodeVars, tracker, requests, output, begun, discarded,
                 reactor, notified, replacements, reloads, downlink, command,
                 assigned>>

\* The loop ends: nothing can be submitted, or the batch is full and the
\* Reactor notifies itself of the rest.
CannotSubmit ==
  \/ cmdQueue = << >>
  \/ tracker.state # "Failed" /\ ~canSubmit(tracker)

EndSubmitting ==
  /\ reactor = "submit"
  /\ CannotSubmit \/ processed = BatchSize
  /\ reactor' = "idle"
  /\ processed' = 0
  /\ notified' = (notified \/ (processed = BatchSize /\ cmdQueue # << >>))
  /\ UNCHANGED <<nodeVars, tracker, cmdQueue, requests, output, begun,
                 discarded, replacements, reloads, downlink, command,
                 assigned, outcome>>

-----------------------------------------------------------------------------
\* onCommandTimerEvent()
OnCommandTimer ==
  /\ reactor = "idle"
  /\ \E r \in tick(tracker) : applyTrackerActions(r, output)
  /\ NotifyIfQueued
  /\ UNCHANGED <<nodeVars, processed, cmdQueue, begun, discarded, reactor,
                 replacements, reloads, downlink, command, assigned>>

(***************************************************************************)
(* onSerialEvent(), dispatchFrame(): a frame of the line is received.  A   *)
(* RESULT repeated without end would queue acknowledgements without end:   *)
(* MaxOutput bounds that.                                                  *)
(***************************************************************************)
DispatchFrame(f) ==
  /\ reactor = "idle"
  /\ Len(output) < MaxOutput
  /\ applyTrackerActions(onFrame(tracker, f), output)
  /\ NotifyIfQueued
  /\ UNCHANGED <<nodeVars, processed, cmdQueue, begun, discarded, reactor,
                 replacements, reloads, downlink, command, assigned>>

-----------------------------------------------------------------------------
(***************************************************************************)
(* onSerialWriteEvent(): flushOutput(), one turn of its loop at a time     *)
(* (write() may return EAGAIN after any of them).                          *)
(***************************************************************************)
Writable == begun \/ canSend(tracker, Head(output))

\* queueTransmission()'s callback for the head, which leaves the queue.
completeFront(sent) ==
  /\ applyTrackerActions(onWritten(tracker, Head(output), sent),
                         Tail(output))
  /\ begun' = FALSE
  /\ NotifyIfQueued

\* A frame no byte of which is written is dropped when it is out of date.
FlushCancel ==
  /\ reactor = "idle"
  /\ output # << >>
  /\ ~Writable
  /\ completeFront(FALSE)
  /\ UNCHANGED <<nodeVars, processed, cmdQueue, discarded, reactor, replacements,
                 reloads, downlink, command, assigned>>

\* A short write: the rest must follow, whatever becomes of the command.
FlushPart ==
  /\ reactor = "idle"
  /\ output # << >>
  /\ Writable
  /\ begun' = TRUE
  /\ UNCHANGED <<nodeVars, processed, tracker, cmdQueue, requests, output, discarded,
                 reactor, notified, replacements, reloads, downlink,
                 command, assigned, outcome>>

FlushFrame ==
  /\ reactor = "idle"
  /\ output # << >>
  /\ Writable
  /\ downlink' = downlink \cup {FrameOf(Head(output))}
  /\ completeFront(TRUE)
  /\ UNCHANGED <<nodeVars, processed, cmdQueue, discarded, reactor, replacements,
                 reloads, command, assigned>>

\* write() fails: discardOutput() takes the whole queue ...
FlushError ==
  /\ reactor = "idle"
  /\ output # << >>
  /\ Writable
  /\ reactor' = "discard"
  /\ discarded' = output
  /\ output' = << >>
  /\ begun' = FALSE
  /\ UNCHANGED <<nodeVars, processed, tracker, cmdQueue, requests, notified,
                 replacements, reloads, downlink, command, assigned,
                 outcome>>

\* ... and tells each frame's callback in turn, which may queue new ones.
DiscardNext ==
  /\ reactor = "discard"
  /\ discarded # << >>
  /\ applyTrackerActions(onWritten(tracker, Head(discarded), FALSE), output)
  /\ discarded' = Tail(discarded)
  /\ NotifyIfQueued
  /\ UNCHANGED <<nodeVars, processed, cmdQueue, begun, reactor, replacements, reloads,
                 downlink, command, assigned>>

DiscardEnd ==
  /\ reactor = "discard"
  /\ discarded = << >>
  /\ reactor' = "idle"
  /\ UNCHANGED <<nodeVars, processed, tracker, cmdQueue, requests, output, begun,
                 discarded, notified, replacements, reloads, downlink,
                 command, assigned, outcome>>

-----------------------------------------------------------------------------
\* A tick of the gateway's clock.  Handlers take no time; a frame that is
\* half written, with its time still running, is between two handlers.
GatewayElapse ==
  /\ reactor = "idle"
  /\ tracker' = elapse(tracker)
  /\ UNCHANGED <<nodeVars, processed, cmdQueue, requests, output, begun, discarded,
                 reactor, notified, replacements, reloads, downlink,
                 command, assigned, outcome>>

Handler ==
  \/ OnDownlinkEvent \/ ReplacementFails \/ ReplaceSerial \/ BeginSubmitting
  \/ SubmitNext \/ RejectNext \/ EndSubmitting
  \/ OnCommandTimer \/ \E f \in uplink : DispatchFrame(f)
  \/ FlushCancel \/ FlushPart \/ FlushFrame \/ FlushError
  \/ DiscardNext \/ DiscardEnd

NodeSide ==
  /\ NodeStep \/ \E f \in downlink : NodeOnFrame(f)
  /\ UNCHANGED gatewayVars

Environment == \/ \E c \in Command : SubmitCommand(c)
               \/ ReloadSerial
               \/ GatewayElapse

LinkNext == Handler \/ NodeSide \/ Environment

LinkSpec == LinkInit /\ [][LinkNext]_linkVars

-----------------------------------------------------------------------------
(***************************************************************************)
(* What is reported as a result is the result of an execution of that very *)
(* command: not of another command that had its number in an earlier       *)
(* session, nor of one with the same operation code and other arguments.   *)
(***************************************************************************)
ReportedWasExecuted ==
  \A id \in DOMAIN outcome : outcome[id] \in Result =>
    \E i \in DOMAIN executed :
      /\ executed[i].session = assigned[id].session
      /\ executed[i].seq = assigned[id].seq
      /\ executed[i].cmd = command[id]
      /\ executed[i].result = outcome[id]

(***************************************************************************)
(* requests_ and entries_ hold the same numbers whenever the Reactor is    *)
(* between two handlers, each for a command still to be reported: no       *)
(* completion finds its request missing, and emplace() never meets a       *)
(* request left from an earlier session.                                   *)
(***************************************************************************)
RequestsMatchEntries ==
  /\ LinkTypeOK
  /\ \A q \in Seqs :
       /\ tracker.entries[q].held <=> requests[q] # 0
       /\ requests[q] # 0 =>
            /\ outcome[requests[q]] = "pending"
            /\ assigned[requests[q]] =
                 [session |-> tracker.session, seq |-> q]

(***************************************************************************)
(* The gateway's window never runs ahead of the node's: in an open session *)
(* the node, between two calls, has executed all that the gateway has seen *)
(* received without a gap, so no number the gateway may use lies right of  *)
(* the node's window.                                                      *)
(***************************************************************************)
WindowsAgree ==
  (/\ tracker.state = "Ready" /\ node.active /\ nodePc = "idle"
   /\ node.session = tracker.session) =>
     /\ tracker.base <= node.base
     /\ \A q \in Seqs : q < tracker.next => q < node.base + Window

(***************************************************************************)
(* Once a session is ready, no command of an earlier session is executed:  *)
(* what a session abort gave up cannot overwrite what follows it.          *)
(***************************************************************************)
NoStaleExecution ==
  [][\A i \in DOMAIN executed' :
       (i \notin DOMAIN executed /\ tracker.state = "Ready") =>
         executed'[i].session >= tracker.session]_executed

(***************************************************************************)
(* The whole is a CommandService: the executions of the node, told by the  *)
(* ids of the commands they were sent for.                                 *)
(***************************************************************************)
IdAt(x) ==
  CHOOSE id \in DOMAIN assigned :
    assigned[id] = [session |-> x.session, seq |-> x.seq]

Performed ==
  [i \in DOMAIN executed |->
     [id |-> IdAt(executed[i]), cmd |-> executed[i].cmd,
      result |-> executed[i].result]]

Service == INSTANCE CommandService
             WITH submitted <- command, performed <- Performed,
                  reported <- outcome, Failure <- Outcome \ (Result \cup {"pending"})

\* The link implements the abstract command service.
ImplementsService == Service!Spec

(***************************************************************************)
(* Fairness.  The Reactor leaves no handler unfinished, serves a readable  *)
(* eventfd and the timerfd (both level-triggered, so a loop of other       *)
(* events cannot starve them), and time goes on.  Nothing is assumed of    *)
(* the node, of the line, or of the port's readiness to be written.        *)
(***************************************************************************)
FinishHandler ==
  \/ ReplacementFails \/ ReplaceSerial \/ BeginSubmitting
  \/ SubmitNext \/ RejectNext \/ EndSubmitting \/ DiscardNext \/ DiscardEnd

LinkFairness ==
  /\ WF_linkVars(FinishHandler)
  /\ SF_linkVars(OnDownlinkEvent)
  /\ SF_linkVars(OnCommandTimer)
  /\ SF_linkVars(GatewayElapse)

LinkFairSpec == LinkSpec /\ LinkFairness

(***************************************************************************)
(* Every command the gateway takes is reported in the end, whatever the    *)
(* node and the line do: the retry budgets, the lifetimes and the result   *)
(* time-out leave no command and no handshake waiting for ever.            *)
(***************************************************************************)
EveryCommandReported ==
  \A id \in Id :
    (id \in DOMAIN outcome) ~>
      (id \in DOMAIN outcome /\ outcome[id] # "pending")
=============================================================================
