--------------------------- MODULE SerialReactor ---------------------------
(***************************************************************************)
(* The serial Reactor of GatewayApp with its event loop: SrLink says what  *)
(* each handler does, EventLoop when the kernel lets one run.  The serial  *)
(* port is watched edge-triggered, and for writing only while output_ is   *)
(* not empty; the eventfd and the timerfd are level-triggered.             *)
(*                                                                         *)
(* A handler of SrLink that takes several steps runs here within one       *)
(* callback: another one begins when it has returned.  Other threads, the  *)
(* line and the drivers of the ports act between any two of its steps.     *)
(***************************************************************************)
EXTENDS SrLink, EventLoop

CONSTANTS
  SerialFd,   \* descriptors serial ports are opened on: numbers
  DownFd,     \* downlink_fd_
  TimerFd     \* command_timer_fd_

ASSUME DescriptorsAssumption ==
  /\ Fd = SerialFd \cup {DownFd, TimerFd}
  /\ SerialFd \subseteq Nat /\ SerialFd # {}
  /\ DownFd \notin SerialFd /\ TimerFd \notin SerialFd /\ DownFd # TimerFd

\* One batch may leave a channel behind for every port that is tried.
ASSUME ChannelsAssumption == MaxReplacements < MaxChannels

VARIABLES
  fd,         \* link_->fd()
  fresh,      \* replacements_: the descriptors of the ports in it
  rx,         \* the kernel holds input of the port (one not gone) to be read
  tx,         \* the port's transmit buffer: "room" or "full"; or "gone"
  expired     \* the timerfd is readable

portVars == <<rx, tx>>
reactorVars == <<linkVars, loopVars, fd, fresh, rx, tx, expired>>

(***************************************************************************)
(* What poll() says.  A port that is gone (unplugged, hung up) is readable *)
(* and writable: read() and write() fail at once.                          *)
(***************************************************************************)
PortPoll(input, buffer) ==
  IF buffer = "gone" THEN {"in", "out"}
  ELSE (IF input THEN {"in"} ELSE {}) \cup (IF buffer = "room" THEN {"out"} ELSE {})

PollAt(port, input, buffer) ==
  [f \in Fd |-> CASE f = DownFd -> IF notified THEN {"in"} ELSE {}
                 [] f = TimerFd -> IF expired THEN {"in"} ELSE {}
                 [] f = port -> PortPoll(input, buffer)
                 [] OTHER -> {}]

ReadMask == {"in", "et"}
Interest(queue) == IF queue = << >> THEN ReadMask ELSE ReadMask \cup {"out"}

\* registerSerialEvent() for the port on f, whose link has queue to send.
registerSerialEvent(l, poll, f, queue) ==
  addChannel(l, poll, NewChannel(l, f), Interest(queue))

\* Bug variant: EPOLLOUT is never given up and never asked for again.
updateSerialWriteInterest_Never(l, poll, f, queue) == l

(***************************************************************************)
(* updateSerialWriteInterest(): epoll is asked again only for a new mask.  *)
(***************************************************************************)
updateSerialWriteInterest(l, poll, f, queue) ==
  IF l.mask[f] = Interest(queue) THEN l
  ELSE modifyChannel(l, poll, l.channels[f], Interest(queue))

UpdateInterest(input, buffer) ==
  loop' = updateSerialWriteInterest(loop, PollAt(fd, input, buffer), fd, output')

FirstFd == CHOOSE f \in SerialFd : \A g \in SerialFd : f <= g

\* run(), before loop(): the first port is open and nothing is queued yet.
ReactorInit ==
  /\ LinkInit
  /\ fd = FirstFd /\ fresh = << >>
  /\ rx = FALSE /\ tx = "room"
  /\ expired = FALSE
  /\ loop = [NoLoop EXCEPT
               !.channels = [f \in Fd |-> IF f \in {fd, DownFd, TimerFd}
                                            THEN [fd |-> f, n |-> 1] ELSE @[f]],
               !.mask = [f \in Fd |-> CASE f = fd -> ReadMask
                                        [] f \in {DownFd, TimerFd} -> {"in"}
                                        [] OTHER -> {}]]
  /\ batch = << >> /\ pc = "wait" /\ running = TRUE

Callback(phase, fds) == pc = phase /\ Head(batch).channel.fd \in fds
-----------------------------------------------------------------------------
(* onSerialEvent(): drainAndParse().  Frames are what the line carries, or *)
(* bytes the link has no use for: telemetry, a damaged frame.              *)
DrainAndParse ==
  /\ Callback("read", SerialFd)
  /\ rx
  /\ rx' \in BOOLEAN
  /\ \/ (\E f \in uplink : DispatchFrame(f)) /\ UpdateInterest(rx', tx)
     \/ UNCHANGED <<linkVars, loop>>
  /\ UNCHANGED <<batch, pc, running, fd, fresh, tx, expired>>

\* Bug variant: one read() for one event.
Drained_Once == TRUE

\* EAGAIN; or end of file or an error, on a port that is gone.
Drained == ~rx

SerialReadReturns ==
  /\ Callback("read", SerialFd)
  /\ Drained
  /\ ReadReturns
  /\ UNCHANGED <<linkVars, loop, running, fd, fresh, portVars, expired>>

(* onSerialWriteEvent(): a turn of flushOutput().  write() takes all, or a *)
(* part for which there is room, or fails; a failure may pass.  The        *)
(* callback of each frame brings the mask up to date.                      *)
FlushTurn ==
  /\ Callback("write", SerialFd)
  /\ \/ FlushError /\ UNCHANGED <<tx, loop>>
     \/ (FlushCancel \/ DiscardNext) /\ UNCHANGED tx /\ UpdateInterest(rx, tx)
     \/ /\ tx = "room"
        /\ \/ FlushPart /\ tx' = "full" /\ UNCHANGED loop
           \/ FlushFrame /\ tx' \in {"room", "full"} /\ UpdateInterest(rx, tx')
  /\ UNCHANGED <<batch, pc, running, fd, fresh, rx, expired>>

\* The queue is empty, or write() says EAGAIN, or the queue was discarded;
\* then updateSerialWriteInterest().
SerialWriteReturns ==
  /\ Callback("write", SerialFd)
  /\ \/ DiscardEnd
     \/ /\ reactor = "idle"
        /\ output # << >> => Writable /\ tx = "full"
        /\ UNCHANGED linkVars
  /\ UpdateInterest(rx, tx)
  /\ WriteReturns
  /\ UNCHANGED <<running, fd, fresh, portVars, expired>>
-----------------------------------------------------------------------------
(* onDownlinkEvent() *)
DownlinkEvent ==
  /\ Callback("read", {DownFd})
  /\ OnDownlinkEvent
  /\ UNCHANGED <<loopVars, fd, fresh, portVars, expired>>

\* The eventfd is read, stopping_ or http_failed_ is found set, and the loop
\* told to end after this batch.
DownlinkStops ==
  /\ Callback("read", {DownFd})
  /\ reactor = "idle"
  /\ notified' = FALSE
  /\ quit /\ ReadReturns
  /\ UNCHANGED <<nodeVars, tracker, cmdQueue, requests, output, begun, discarded,
                 reactor, processed, replacements, reloads, downlink, command,
                 assigned, outcome, loop, fd, fresh, portVars, expired>>

\* A candidate that cannot be configured is closed; the old link, with its
\* output, is registered again.
CandidateFails ==
  /\ Callback("read", {DownFd})
  /\ ReplacementFails
  /\ loop' = registerSerialEvent(removeChannel(loop, fd), PollAt(fd, rx, tx), fd, output)
  /\ fresh' = Tail(fresh)
  /\ UNCHANGED <<batch, pc, running, fd, portVars, expired>>

\* The candidate becomes the link, the old port is closed with its output;
\* the new OPEN is queued after the registration.
CandidateTakesOver ==
  /\ Callback("read", {DownFd})
  /\ ReplaceSerial
  /\ fd' = Head(fresh) /\ fresh' = Tail(fresh)
  /\ rx' \in BOOLEAN /\ tx' = "room"
  /\ LET poll == PollAt(fd', rx', tx')
         l == registerSerialEvent(removeChannel(loop, fd), poll, fd', << >>)
     IN loop' = updateSerialWriteInterest(l, poll, fd', output')
  /\ UNCHANGED <<batch, pc, running, expired>>

\* epoll_ctl fails in addChannel(): the exception leaves the loop.
RegistrationFails ==
  /\ Callback("read", {DownFd})
  /\ reactor = "replace" /\ replacements > 0
  /\ loop' = removeChannel(loop, fd)
  /\ pc' = "left" /\ batch' = << >>
  /\ UNCHANGED <<linkVars, running, fd, fresh, portVars, expired>>

\* Sessions and submissions; the mask is brought up to date at the end.
DownlinkSubmits ==
  /\ Callback("read", {DownFd})
  /\ \/ BeginSubmitting /\ UpdateInterest(rx, tx) /\ UNCHANGED <<batch, pc>>
     \/ (SubmitNext \/ RejectNext) /\ UNCHANGED <<loop, batch, pc>>
     \/ EndSubmitting /\ UpdateInterest(rx, tx) /\ ReadReturns
  /\ UNCHANGED <<running, fd, fresh, portVars, expired>>

(* onCommandTimerEvent() *)
CommandTimerEvent ==
  /\ Callback("read", {TimerFd})
  /\ expired /\ expired' = FALSE
  /\ OnCommandTimer /\ UpdateInterest(rx, tx) /\ ReadReturns
  /\ UNCHANGED <<running, fd, fresh, portVars>>

(* EventLoop::loop() *)
LoopStep ==
  /\ EpollWait(PollAt(fd, rx, tx)) \/ Event \/ BatchDone
  /\ UNCHANGED <<linkVars, fd, fresh, portVars, expired>>
-----------------------------------------------------------------------------
(* Other threads: submitCommand(), reloadSerial() and requestStop(), which *)
(* sets stopping_ and notifies.  A port is opened on the lowest descriptor *)
(* that is free.                                                           *)
FreeFds == SerialFd \ ({fd} \cup {fresh[i] : i \in DOMAIN fresh})

OtherThreads ==
  /\ \/ (\E c \in Command : SubmitCommand(c)) /\ UNCHANGED fresh
     \/ /\ FreeFds # {}
        /\ ReloadSerial
        /\ fresh' = Append(fresh, CHOOSE f \in FreeFds : \A g \in FreeFds : f <= g)
     \/ /\ pc = "wait" /\ ~notified /\ notified' = TRUE
        /\ UNCHANGED <<nodeVars, tracker, cmdQueue, requests, output, begun,
                       discarded, reactor, processed, replacements, reloads,
                       downlink, command, assigned, outcome, fresh>>
  /\ UNCHANGED <<loopVars, fd, portVars, expired>>

(* The driver of the port: input comes in; the transmit buffer has room    *)
(* again, which a driver may also say of one that was not full; the device *)
(* goes away with its input (a candidate that does cannot be configured).  *)
Port ==
  /\ \/ /\ tx # "gone" /\ ~rx /\ rx' = TRUE
        /\ loop' = Wake(loop, fd, {"in"}) /\ UNCHANGED tx
     \/ /\ tx # "gone" /\ tx' = "room"
        /\ loop' = Wake(loop, fd, {"out"}) /\ UNCHANGED rx
     \/ /\ tx # "gone" /\ tx' = "gone"
        /\ loop' = Wake(loop, fd, {"in", "out"}) /\ rx' = FALSE
  /\ UNCHANGED <<linkVars, batch, pc, running, fd, fresh, expired>>

(* Callbacks take no time, and what the node does meanwhile is seen in the *)
(* next one: the node and the clock are given their turn between batches.  *)
(* A tick of the clock is an interval of the timer, which is periodic.     *)
Surroundings ==
  \/ /\ pc = "wait"
     /\ \/ NodeSide /\ UNCHANGED expired
        \/ GatewayElapse /\ expired' = TRUE
     /\ UNCHANGED <<loopVars, fd, fresh, portVars>>
  \/ OtherThreads
  \/ Port

ReactorNext ==
  \/ DrainAndParse \/ SerialReadReturns \/ FlushTurn \/ SerialWriteReturns
  \/ DownlinkEvent \/ DownlinkStops \/ CandidateFails \/ CandidateTakesOver
  \/ RegistrationFails \/ DownlinkSubmits \/ CommandTimerEvent \/ LoopStep
  \/ pc # "left" /\ Surroundings
  \/ pc = "left" /\ UNCHANGED reactorVars

ReactorSpec == ReactorInit /\ [][ReactorNext]_reactorVars
-----------------------------------------------------------------------------
(* Properties *)

Waiting == pc = "wait" /\ running

(* When the Reactor waits, input the port holds will be announced: reading *)
(* stopped at EAGAIN, a port is registered with what it already holds, and *)
(* what comes in after the last read() gives a new edge (NodeLink.cpp:61,  *)
(* GatewayApp.cpp:132-143, 210-226).                                       *)
InputIsHeard ==
  Waiting /\ rx => fd \in loop.edge

(* Output that waits for an event that is not going to come by itself: the *)
(* port has room and no edge is left.                                      *)
Stranded == output # << >> /\ tx = "room" /\ fd \notin loop.edge

(* When the Reactor waits, the port is watched for writing just when there *)
(* is output, and all that a write error can strand is the OPEN of the     *)
(* session it began, never a command: the time-out of the handshake bounds *)
(* the damage (GatewayApp.cpp:299-306, NodeLink.cpp:92-131).               *)
OutputIsWatched ==
  Waiting =>
    /\ loop.mask[fd] = Interest(output)
    /\ Stranded => /\ tracker.state \in {"Opening", "Failed"}
                   /\ Len(output) = 1 /\ Head(output).type = "OPEN"

(* What NodeLink.h:63 says of send(): a frame that is queued is carried on *)
(* by the event that the port is writable.                                 *)
WritableEventComes == Waiting => ~Stranded
=============================================================================
