# Specifications of the edge gateway

TLA+ modules, TLC configurations and TLAPS proofs for the edge gateway: a
C++17 process on a small Linux board (`src/gateway`) that talks to an STM32
sensor node over a serial line with a shared C99 protocol library (`protocol`),
to an MQTT broker, and to browsers over HTTP.

## 1. The system

| Part | State it keeps | Operations | Runs on |
|---|---|---|---|
| SR node receiver, `edge_sr.c` | session high water mark, window base, `active`, a pool of 16 slots | `on_frame`, `deliver`, `expire`, `tick` | the node's only protocol task |
| `CommandTracker` | session, window, entries in flight, receipts, results, handshake | `start`, `submit`, `onWritten`, `onFrame`, `tick` | serial Reactor |
| `NodeLink` | output queue with the offset of its head; the frame parser | `send`, `flushOutput`, `discardOutput`, `drainAndParse` | serial Reactor |
| `GatewayApp` (Reactor) | `cmd_queue_`, `requests_`, `replacements_`, eventfd, timerfd | `onDownlinkEvent`, `onCommandTimerEvent`, `dispatchFrame`, `applyTrackerActions`, shutdown | serial Reactor, called by others |
| `GatewayCore` | pending requests, reservations of queue space | MQTT message, telemetry, completion, HTTP request, `stop` | business executor, query executor |
| `TaskExecutor`, `ThreadSafeQueue` | bounded queue, closed flag | `post`, `stop`, `push`, `pop`, `shutdown` | all threads |
| `TelemetryPipeline`, `Database` | write queue, database to swap to | `submit`, `swapDatabase`, writer loop | writer thread |
| `ManagementReactor`, `Config` | pending stop and reload, configuration snapshot | signals, reload | management thread and worker |
| `AsyncLogger` | current and full buffers | `append`, flush thread | all threads, logger thread |
| `EventLoop` | fd to channel | `loop`, add, modify, remove | both Reactors |
| `HttpServer` | sessions, connection limit, timers | library callbacks | HTTP thread |
| `MqttClient` | connection, subscriptions, count of users of the library | constructor, destructor, `onConnect` | network thread of a client; the worker rebuilds |
| `CommandTranslator`, `TelemetryDecoder`, `Number.h` | none | conversions of one message | business executor, serial Reactor |
| `node-sim` | period, tick | `execute`, `reportOnce`, loop | a simulated node |
| frame parser, `edge_frame.c` | FSM state, buffer | `feed`, resynchronisation | both ends |

A command comes from MQTT through `GatewayCore` into `cmd_queue_`. An eventfd
wakes the serial Reactor, which gives the command to `CommandTracker`; the
frames the tracker asks for are put on `NodeLink`'s output queue and written
when the port is writable. The node buffers, acknowledges (`SR_RECEIVED`),
executes in order, and sends the result (`SR_RESULT`), which the gateway
acknowledges (`SR_RESULT_ACK`) and reports to `GatewayCore`, once. Whatever goes
wrong for good (a lifetime, a retry budget, a write error, a port replacement)
ends the whole session; a session with a higher number is opened before any
other command is sent.

What is hard: the two ends have windows, clocks and time-outs of their own;
frames are lost, repeated and late; writes are short, fail, or complete after
the command they were for is gone; a handler's callbacks call back into the
state machine; other threads add commands and ports at any time; the gateway
restarts, with a clock that may have been set back, while the node stays up.
`PROJECT.json` lists these hazards at their lines.

What makes the parts correct:

* node: each command at most once, in order, none past a gap; a result is sent
  only of an execution; an acknowledged command is not lost; slots come free;
* tracker and Reactor: each command is reported exactly once; success only of an
  execution of that very command; no number outside the node's window;
* `GatewayCore` and queues: space reserved is given back; shutdown ends;
* pipeline, logger: what was accepted is written, in order, or counted as lost;
* reload: the last request is honoured, a failed part leaves the old one, and the
  gateway finds its way back to its MQTT subscriptions;
* event loop: no callback of a channel that is gone, no input or output stranded
  behind an edge that was used up;
* payloads: both ends mean the same by the same bytes.

## 2. The modules

| Module | Models | Extends |
|---|---|---|
| `SrProtocol` | limits and frames both ends share | |
| `SrNode` | `edge_sr.c` | `SrProtocol` |
| `CommandTracker` | `CommandTracker.cpp`, as operators | `SrProtocol` |
| `SrLink` | Reactor, `NodeLink` output, the line, with tracker and node | `SrNode`, `CommandTracker` |
| `SrRestart` | restarts of the gateway process | `SrLink` |
| `CommandService` | abstract: what is promised of a command | |
| `EventLoop` | `EventLoop.cpp` and epoll, as operators and the steps of `loop()` | |
| `SerialReactor` | the Reactor's handlers under its event loop | `SrLink`, `EventLoop` |
| `TaskExecutor` | `TaskExecutor.h`, as operators on a mailbox | |
| `GatewayCore` | `GatewayCore.cpp`, the threads around it and `~GatewayApp` | `TaskExecutor` |
| `MqttClient` | `MqttClient.cpp`, as operators on the clients there are | |
| `Reload` | `ManagementReactor.cpp`, `ConfigManager::reload`, the reload part of `GatewayApp` | `TaskExecutor`, `MqttClient` |
| `TelemetryPipeline` | `TelemetryPipeline.cpp`, `ThreadSafeQueue.h`, `insertBatch` of `Database.h` | |
| `HttpServer` | `HttpServer.cpp` | |
| `AsyncLogger` | `AsyncLogger.cpp` | |
| `FrameParser` | `edge_frame.c`, `edge_crc16.c` | |
| `Payloads` | the layouts of `edge_proto.h`, `CommandTranslator.cpp`, `TelemetryDecoder.cpp`, `Number.h`, the business of `node-sim` | |
| `LinkProofs` | proofs about `SrNode`, `SrLink`, `SrRestart` and `CommandService` | `SrRestart` |
| `SerialProofs` | proofs about `SerialReactor` and `FrameParser` | `SerialReactor`, `LinkProofs`, `FrameParser` |
| `ExecutorProofs` | lemmas about the operators of `TaskExecutor` | `TaskExecutor` |
| `CoreProofs` | proofs about `GatewayCore` and `Payloads` | `GatewayCore`, `ExecutorProofs`, `Payloads` |
| `ReloadProofs` | proofs about `Reload` and `MqttClient` | `Reload`, `ExecutorProofs` |
| `HttpProofs` | proofs about `HttpServer` | `HttpServer` |
| `PipelineProofs` | proofs about `TelemetryPipeline` | `TelemetryPipeline` |
| `LoggerProofs` | proofs about `AsyncLogger` | `AsyncLogger` |
| `MC...` | symmetry, the frames of `FrameParser` and the inputs of `Payloads`, for TLC | |

**SrNode.** `node` is `edge_sr_node_t`. The slots are a function from sequence
numbers to entries, since a number is given a slot only when no slot holds it;
`HasFreeSlot` counts them. `edge_sr_node_on_frame` is one action `NodeOnFrame`
with one disjunct per branch, up to its call of `deliver()`; the loop of
`deliver()` is `NodeDeliver` (the tests at its head) and `NodeExecuted` (the
return of the synchronous `execute` hook), because time passes while `execute`
runs and `expire()` is called again after it. `nodePc` keeps frames and ticks
out meanwhile: the header demands that hooks are synchronous and do not re-enter.
`uplink` is the set of frames ever emitted, `executed` a history variable.
Alone, the node is checked and proved under any wire: any frame, any time.

**CommandTracker.** The class does no I/O, so each method is an operator from a
tracker to the tracker after, the frames to send in order and the commands
finished, as `TrackerActions` are. `entries_` is a function on all numbers.
Fields that no code reads until they are set again (those of a finished
handshake) are given a fixed value by `handshakeOver`; `Entry::received` is the
same as `received_`.

**SrLink.** All handlers run on the Reactor thread; `reactor` says where it is
inside a handler that other threads can interleave with (`onDownlinkEvent`: the
replacements, then the submission loop) or whose callbacks change the state
(`discardOutput`). `flushOutput` is one action per turn of its loop, as `write`
may return `EAGAIN` after each; `begun` is `offset # 0`. `applyTrackerActions`
is an operator used by every handler: completions are looked up in `requests_`,
then frames are queued. The eventfd is a flag, read before the queues. The line
is the set of frames written so far in each direction: each may be received any
number of times, in any order, or never. `command`, `assigned` and `outcome` are
history variables: the commands by id, the (session, seq) they were given, and
what was reported.

**SrRestart.** `GatewayRestart` is the destructor and a new process. The first
session number of a process is the wall clock's, any of `Epoch`;
`ClockIsFresh` is the assumption that the clock does not give a number that
was a session before. It may well be lower than the node's.

**CommandService.** Commands are performed at most once, in the order of
submission, and reported once; a result is reported only if the command was
performed with that result; a failure may be reported of any (`protocol.md`
6.6: a time-out does not mean that nothing was executed).

**TaskExecutor.** A mailbox is a record and each critical section of the class
an operator. A task that was popped and has not returned is `busy`. A producer
never waits; `stop()` closes the mailbox and its join waits until it is drained.

**GatewayCore.** Seven threads: two MQTT network threads (a reload overlaps two
clients), HTTP, the main thread (the Reactor, then `~GatewayApp`), the executors
of business and of queries, and the management worker. `mqttMessage` is one
action per atomic access: the test of `accepting_`, the compare-and-swap on
`admitted_`, the post, the release. A handler of the business executor is one
action, as no other thread sees the state it changes before the posts at its
end; only telemetry, which posts several times, has a step for each reading. The
destructor is one action per join, stop or loop turn. What the Reactor does with
a command is reduced to "ends it, once", which is what `SrLink` is checked for.

**TelemetryPipeline.** `writerLoop()` is split at every point where a producer
or a reader can tell: pop, batch taken, rows inserted, database switched,
callback called, flush. An insertion keeps any subset of its rows: single rows
fail by themselves and a commit for all. When COMMIT fails and ROLLBACK too, the
transaction stays open: its rows are in `open`, no later batch can BEGIN, and the
close of the connection rolls them back. `target` is a history variable: the
database that a row is meant for when it is accepted.

**HttpServer.** All handlers run on one thread; a session is what is under way
for it (a read, a write, a running timer) and the timer handlers that are queued
already. `cancel()` does not take back a queued handler, so late timers and late
replies happen. `sent` records of each response the request it answers.

**AsyncLogger.** A critical section is a step; the wait of the flush thread is
two, the test of the predicate and the sleep, since the destructor notifies
without the lock. Blocks are sequences of numbered lines with lengths, so the
order of lines, the cut and the reports can be told apart. A write fails after any
number of bytes of its block (`Begun`): `safe_write` goes on after a short count, and
what it has written when it gives up stays in the log, the last line maybe cut
short. `output` is what was written of each block; `failed`, `discarded` and
`reports` say what became of the others.

**FrameParser.** Bytes are bytes, and the CRC is the real CRC-16/MODBUS (an
assumption evaluates its check value); its exclusive or is written as a sum over
16 places, which both TLC and the prover can work with. The line replaces, loses
or inserts bytes and the parser may be reset, up to `MaxFaults` times.

**EventLoop.** A channel has an identity apart from its descriptor. The kernel's
interest list maps descriptors to channel pointers, and a batch holds pointers.
The kernel is modelled from how the code uses it: `EPOLL_CTL_ADD` and `_MOD` look
at the device's readiness once; a level-triggered descriptor is reported as long
as something watched is the case; an edge-triggered one only if it was put on the
ready list since the last `epoll_wait`, and then with all that is the case.

**SerialReactor.** Each handler of `SrLink` runs inside the callback that runs it
in the code, and only when the loop has called it, so the module adds guards to
the actions of `SrLink`, not behaviour. The port has input or none, room or none,
and may go away. Its driver may announce room in a buffer that was not full.
A port opened by a reload takes the lowest free descriptor, which is one that an
event of the same batch may still name; how much input it holds is chosen when it
takes over. `epoll_ctl` may fail there, and the exception ends the loop. That
`stopping_` was set is a choice at the eventfd callback. The node and the
clocks act between batches only: what they do during a callback is seen in
the next one. A tick of the clock is an interval of the periodic timerfd.

**Reload.** A reload is a task of the worker, one action per stage: it reads the
file (invalid, or any valid content), publishes the configuration, then rebuilds
database, MQTT client and port, each of which may fail or throw. Database and
port are handed to their owners through queues and applied later; the port may
be refused then, too. The MQTT client is built in the worker itself, in three
steps: constructed (and connected), started, put in the place of the old one.

**MqttClient.** All clients have the id `gateway-main`: on one broker, a client
that connects takes the session of the other, and since sessions are clean the
loser's subscriptions are gone until it connects again and `onConnect` repeats
them. The new client may be on the same broker or on another. Broker, network
and libmosquitto are external; attempts to connect that fail are left out, as
the library just tries again.

**Payloads.** Pure operators; a payload is the sequence of its bytes. Values with
one decimal are counted in tenths, since the double next to n/10 is printed as n
tenths for each n of 16 bits. Text is a number or not (`isInt`, `value`), and the
pseudo-random `tick_` of the simulated node does not wrap.

Times are ages in ticks, counted up to the largest limit they are compared
with: above it all ages behave alike. The two clocks tick independently. The
32-bit wrap of the node's clock is not modelled: ages are differences, exact as
long as they are below 2^32 ms, and every slot is looked at each 100 ms.

Definitions whose name ends in an underscore and a word (`Opened_Again`) are
bug variants: what the definition after them would be with a plausible mistake.
Each property is shown to fail when a variant takes its definition's place.

## 3. The runs

| Run | Question | Checks |
|---|---|---|
| `node` | any wire: gaps, closed sessions, numbers reused, a full pool | `InOrderOnce`, `NoGapSkipped`, `ResultsAreOfExecutions`, `ReceivedIsKept`, `ClosedStaysClosed`, `SlotsAreReleased` |
| `link` | both ends and the line, with a restart, the clock set back | `RequestsMatchEntries`, `WindowsAgree`, `NothingForgotten`, `NoStaleExecution`, `ImplementsService` |
| `live` | a port is replaced, or not, at any moment; does every command end? | `ReportedWasExecuted`, `EveryCommandReported` |
| `reused_session` | a port reloaded before the first command, in two lives | `ReportedWasExecuted`, violated |
| `core` | do credits balance, is there room for completions, is all answered, does the shutdown end? | `CommandsAccounted`, `RoomForCompletions`, `OneReplyPerRequest`, `AllAnswered`, `ShutdownEnds` |
| `pipeline` | rows, changes of database, failures, shutdown | `RowsAccounted`, `ReadersFollow`, `RowsSettle` |
| `http` | late replies and timers, limit, stop | `HttpTypeOK`, `OneResponsePerRequest`, `OneThingAtATime`, `WaitsEnd` |
| `logger` | overflow, writes failing midway, last drain, lost notification | `LinesAccounted`, `EveryLineSettles`, `DestructorReturns` |
| `parser` | two faults anywhere, payloads with headers, resynchronisation | `AlignedIsDelivered`, `FindsNextFrame`, `DeliveredWasReceived` |
| `serial` | the Reactor's loop: removal and reuse inside a batch, used-up edges | `NoDanglingEvent`, `CalledIsRegistered`, `InputIsHeard`, `OutputIsWatched` |
| `missed_edge` | does the writable event come after a write error? | `WritableEventComes`, violated |
| `reload` | partial failure, overtaking, stop; is SIGHUP heard, are messages? | `PendingIsOneReload`, `AppliedIsPublished`, `HupIsHeard`, `CloudIsHeard`, `StopEnds` |

Some invariants are conjunctions of named parts. `RequestsMatchEntries` contains
`LinkTypeOK`, and that the node's `NodeTypeOK`; `FindsNextFrame` contains
`ParserTypeOK`, the bound of the payload array. `CommandsAccounted` is `CreditsConserved` (the credits given out are
those of commands under way) and `OneEndPerCommand` (a pending command is in one
place only). `RowsAccounted` is `EachRowOnce`, `StoredWhereMeant` and
`DrainedAtExit` of the pipeline. `LinesAccounted` is `LinesInOrder`,
`NoLineVanishes`, `DropsAddUp` and `DrainedAtExit` of the logger. Each of these,
`NoDanglingEvent` and `PendingIsOneReload` also has the type invariant of its
module as a part.

**Bounds.** A window of 2 is the least that has a gap; a pool of twice the
window is what `edge_proto.h` demands. A sequence space of 5 in `node` lets the
window slide and the pool of 4 fill up; of 2 in `link` it is used up by the two
commands, so sessions roll over. The hook of `node` leaves no result, which the
node replaces by an error; in the other runs it leaves one. Two or three sessions are
enough for a frame of an old one to meet the same number in a new one; the bound is also `2^64 - 1`, so running out of
sessions is in every run. Two arguments make an old command differ from a new
one of the same number. `MaxRetry` 0 or 1, and limits of 1 to 3 ticks, allow
every order of the time-outs. `MaxOutput` bounds the acknowledgements that a
RESULT repeated for ever would queue; the other queues are bounded by the two
commands. `MaxSession` is an assumption of the code too: `begin` fails there.

In `core` one credit for two messages on two threads, and mailboxes with room for
one ordinary task, make every limit bind: a message finds no credit, no room, or
both, while completions use the reserve. In `pipeline` a queue of two jobs and
four rows fill the queue and exceed a transaction (three rows, batches of up to
two). In `http` the second connection is above the limit; three requests on a
connection let a handler of the first run at the third. In `logger` a block holds
two short lines or one long one, and a failing write may stop within either;
five lines overflow a queue of two blocks while
the thread holds others. In `parser` a length limit of 7 makes the bound of resynchronisation
the least that holds: one byte put into the frame `02 55 07` makes a false header
with the longest length, whose CRC ends within the second next frame; with a
limit of 4, or a bound one less, the run says nothing or fails. The assumptions of `MCFrameParser` evaluate
`Payloads` on values at the edges of a byte, a word and TLC's integers. In
`serial` two replacements on two descriptors make the second port take the
descriptor the first one left, while an event of the same batch may name it; one
command and two sessions are enough for a write error to begin a session.
`missed_edge` needs no replacement. In `reload` two SIGHUPs and two values per
field allow a change and the change back, and a single publication fills the
ordinary room of the worker, so that a reload needs the reserve. The largest runs
are `serial` (2.6 million states), `parser` (1.1 million), `link` (0.5 million) and `reload` (0.4
million).

**Fairness.** `NodeFairSpec`: the node's task finishes what it has begun, its
tick runs, its clock goes on. `LinkFairSpec`: the Reactor finishes its handlers
and comes back to the eventfd and the timerfd, both level-triggered, and time
goes on; nothing is assumed of the node, the line, or the port being writable.
So `EveryCommandReported` holds for a dead node and a blocked port: the lifetime
of a queued command and of a handshake end them. `core`: every thread goes
on, and the Reactor ends each command it took, which is `EveryCommandReported` of
`live`; no message, request or stop need come. `pipeline`, `logger`:
the one thread is scheduled; a wait with a time-out returns. `http`: queued
handlers run, timers expire, and a write ends (the stream has a time-out of its
own); nothing is assumed of clients or business. `reload`: the management
Reactor, the worker and the main thread go on, and so does the network thread of
the client in use, which connects if it is not connected. Nothing keeps the
connection from being lost again, so `CloudIsHeard` says that the gateway is
subscribed again and again, not that it stays so. Nothing is assumed of the port
in `serial`, whose properties are about safety: what is promised by epoll of a
state in which the Reactor waits.

**The disagreements.** `reused_session` shows a command reported as `ok` that was
never executed. A port reload before the first command calls
`start(tracker_.session(), ...)` with session 0, so the session is 1 and not one
of the wall clock. A second gateway process with the same history opens session
1 again; the node accepts it as the session it is in, and a result of the first
process answers a command of the second. `CommandTracker.cpp:49` says that a
used session is never returned to. `link` shows that across a restart
without such a reload the command service is implemented: no command is
reported as done that was not.

`missed_edge` shows output that no event will carry on. The port is watched for
`EPOLLOUT` because a COMMAND waits; its write fails; the callback aborts the
session and queues the OPEN of the next one, and `updateSerialWriteInterest`
finds the mask as it should be and asks epoll nothing. The event was used up by
this very callback, so on a port that has room nothing comes until there is
input, or until the handshake's lifetime ends and the tracker fails although
port and node are fine. `NodeLink.h:63` says that writable events carry the
output on. `OutputIsWatched` (run `serial`) bounds the damage: nothing but that
OPEN can be stranded, never a COMMAND; and `EveryCommandReported` does not rely
on the port.

Two smaller ones were met while modelling and have no run. `protocol.md:389` says
that an error costs one frame at most, but a length byte corrupted to a larger
legal length swallows up to `EDGE_LEN_MAX` + 2 of the bytes that follow, which may
be several short frames. `FindsNextFrame` states the bound: two bytes more, since a
fault may make the first byte of a false header whose rest was sent.
`AsyncLogger.cpp:168` says that a report of dropped blocks does not precede its
gap, but line 175 writes it before all blocks taken with it, and the first of
these are older than the gap; `DropsAddUp` speaks of the count only.

## 4. The proofs

| Module | Theorems | Of the runs |
|---|---|---|
| `LinkProofs` | the node under any wire; the link, with restarts; the command service | `node`, `link`, `live` |
| `SerialProofs` | the serial Reactor under its event loop; the frame parser | `serial`, `parser` |
| `CoreProofs` | credits, completions and requests of `GatewayCore`; the two ends agree on the payloads | `core`, assumptions of `parser` |
| `ReloadProofs` | reloads | `reload` |
| `HttpProofs` | sessions and responses of `HttpServer` | `http` |
| `PipelineProofs` | rows and changes of database | `pipeline` |
| `LoggerProofs` | lines and cut blocks of `AsyncLogger` | `logger` |

All hold for every value of the constants that the assumptions of the modules
allow: any number of commands, sessions, messages, requests, threads,
connections and descriptors, any capacity and limit. The assumptions say that
limits are natural numbers, that what differs in the code differs in the model
(descriptors, tasks), and that the sets that are counted are finite.
`ChannelsAssumption` (`SerialReactor`) says that there are more channel
identities than replacements, since an identity in use is never given again.

**The node.** The first part of `LinkProofs` proves, for every value of the constants allowed by
`LimitsAssumption` (any window, pool, sequence space, session bound and time
limits; `CapacityAssumption` is not needed) and under every wire:
`NodeTypeOK`, `InOrderOnce`, `NoGapSkipped`, `ResultsAreOfExecutions`,
`ReceivedIsKept` and `ClosedStaysClosed`. All but the first are checked by `node`,
the first by `link` as a part of `RequestsMatchEntries`.

None of them is inductive alone: that the next execution is later than all
before it needs that `base` is exactly how far the session's executions have got;
that a repeated result is right needs that every executed slot holds the result
of an execution. `NodeIInv` adds

* `PoolInv`: buffered slots lie at or above `base`, executed ones below it, each
  with the command and result of an execution;
* `FrontierInv`: all executions come before (session, base), and each number
  below `base` was executed in this session;
* `ReceiptInv`: no receipt on the wire names a session still to come, so that a
  new session starts without promises;
* inside `execute` the command at `base` is still buffered.

The proof has two kinds of step. A *settled* step keeps session and base, loses
no buffered command while the session is open, and adds *harmless* frames:
`SettledStep` proves the invariant for all of them at once, and each branch of
`on_frame`, the head of `deliver`, `tick` and the clock are shown to be of that
kind (`ExpireSettled`, `FreeResult`, `StoreCommand`, `Retouch`). The others are
a new session (`NewSession`) and an execution (`ExecutedStep`).

**The link.** `LineInv` joins three invariants, and is kept by every step
of `SrRestart` and so of `SrLink`.

* `TrackerInv`: only a ready session has entries; what lies left of the
  window is received; an entry's retries are within their budget. Every call of
  the tracker is shown to keep it and to return a step with which its caller can
  go on (`Progress`): what is reported was held, and is held no longer; a frame
  of a command is of one that is held; a session becomes ready, a number received
  and a command answered only by a frame of that session and number; numbers
  only go up.
* `GatewayInv`: requests and entries hold the same numbers (`MatchInv`), each for
  a different command that is still to be reported; `cmd_queue_` holds commands
  not yet given a number, none twice (`QueueInv`); a command not reported is in
  one of the two (`NothingForgotten`). The parts need each other: that a
  completion finds its request, in the middle of a handler that aborts a session
  whose commands the same loop is submitting, is `MatchInv`, and that the
  destructor answers all is `NothingForgotten`.
* what the ends know of each other: the node is never behind a session the
  gateway holds to be ready (`HighWaterInv`, `ReadyInv`); what the tracker has
  received was promised on the line (`HeardInv`), and then `ReceivedIsKept` of the
  node says that it is buffered or executed; between two calls the node has
  executed all it can (`IdleInv`). `WindowsAgree` and `NoStaleExecution` follow.

`RequestsMatchEntries`, `NothingForgotten`, `WindowsAgree` and `NoStaleExecution`
hold across restarts with any clock. `ReportedWasExecuted` and the refinement are
about one process (`LinkSpec`): across restarts the first is false when a port is
reloaded before the first command, as `reused_session` shows, and that it holds
without such a reload is left to the run `link`. `ServiceInv` is the chain from
a command to its report: numbers are given in strict (session, seq) order
(`SessionInv`, `OrderInv`), so that each belongs to one command for ever
(`IsGiven`), and the frames queued and on the line (`SentInv`), the entries of
the node (`StoredInv`) and its executions (`ExecutedInv`) are all of the command
that has their number. A RESULT is of an execution (the node's theorem), its
number is that of the entry, the entry's number is that of the request: so what
is reported is the result of that very command. In `LinkImplementsService` the
abstract `performed` is the list of executions with the command each number was
given to; each step of the link is shown to be a step of `CommandService` or to
leave it alone, and an execution is later than all before it in the order of
submission because the node's order is that of the numbers.

**The serial Reactor.** `ReactorInv` is proved beside `LineInv`, since the
callbacks are handlers of `SrLink` with more guards. `Tables` and `BatchInv`: a
channel is registered under its own descriptor, every event of the batch has a
channel that still exists, and a channel being removed is not destroyed before
the batch ends. `RoomInv`: each replacement leaves at most one such channel, so
an identity is always free. For the edges an invariant of the waiting Reactor is
not enough: an edge may be used up by an event of the batch that is not yet
handled, or by the callback that runs. `InputInv` and `OutputInv` say where the
announcement is (with the kernel, or in the batch, and not past it);
`MaskInv` says in which callbacks the mask may differ from what the queue
demands; `OpenOnly` names the one frame that a write error can strand.
TLC checked `ReactorInv` on the instance of `serial` before it was proved.

**GatewayCore.** `CoreIInv` counts with cardinalities: `Credits` (`admitted_` is
the number of threads about to post, commands in the mailbox, pending commands and
answers on their way), `Ends` (each pending command is once in `cmd_queue_`,
`requests_` or the mailbox), `Queries` and `Replies` likewise. That a completion
finds room (`RoomForCompletions`) follows from the counts, and the counts
are kept only because no completion is refused: neither can be proved before the
other. `StopOrder` is the order in which the destructor closes the mailboxes:
a task is posted to a closed one by nobody who still owes something.
`ExecutorProofs` says what each critical section of `TaskExecutor` does to the
number of tasks of a kind, for any kind; `ReloadProofs` uses it too.

**Reload.** `ReloadIInv`: `reload_pending_` is the number of reload tasks queued or
running (`WorkerInv`), so no exit of the job may leave it set; the newest
value a resource was given, or else the one it has, is the published one, unless
the job has yet to come to it or its last try failed (`UpToDate`). Hand-overs of
several reloads may be under way, which is why it speaks of the newest.
`MqttInv` ties the library's count of users to the clients that exist.

**HttpServer.** `HttpIInv`: an open session has exactly one operation under way
(`Busy`), and the responses sent answer strictly increasing requests up to the
current one, which is not among them while it is awaited (`Answered`): that is what
makes a late reply or an old timer harmless. The theorems on the connections
come from one lemma on a step that changes one session.

**FrameParser.** The last part of `SerialProofs` proves all three properties for
every frame, every `EDGE_LEN_MAX` up to 255 and any number of faults. It begins with
the checksum: `edge_crc16` is defined by recursion over the bytes, and what is
needed of it, that the checksum of one byte more is `edge_crc16_update` of the
checksum so far (`CrcFacts`), is shown without an induction theorem, by a least
counterexample (`LeastNumber`, from the well-foundedness of the numbers). No
property of the polynomial is used: that two ends with the same table agree holds
for any table, and what a CRC can *not* detect is not claimed.

The parser is then described by the bytes it has taken (`Count`, `Taken`):
`FeedFacts` says that a byte is taken as the next of the frame, or is a second
first byte, or the parser searches again; `ParserInv` that its checksum is that of
the bytes taken and its payload as long as its state and LEN say. `FrameInv` adds:
the bytes taken are the last received (`HeardLast`), from which follows
`DeliveredWasReceived`; a frame that was met and not disturbed is `InStep`, that is,
the bytes taken and those still to come are its encoding (`AlignInv`), from which
follows `AlignedIsDelivered`; and when frames are plain, whatever was taken is part
of such a frame or goes back to the last fault (`FindInv`), so that it is longer
than `quiet` and at most `EDGE_LEN_MAX` + 4 long. TLC checked `FrameInv` on the
instance of `parser`. An earlier version of `FindsNextFrame` had the bound
`EDGE_LEN_MAX` + 2, which the instance then used could not refute; it is wrong, and
the attempt to prove it showed so.

**TelemetryPipeline.** `PipelineIInv` says where each accepted row is. `LastInv`: the
rows not yet written are the last ones accepted; with `OrderInv` (transaction, job
and queue are each rising, and in this order) what is written next is later than
all that is settled, which keeps a file in order and a row from being written
twice. A row in the queue is aimed (`Aims`) at the database of the last change
before it, or, when there is none, at that of the change in the writer's hands, or
at the current one; taking a job from the queue shifts this by one place. `StoredInv` also
follows the rows of a transaction that SQLite could not end: they were logged as
failed, and are later than all in the file, so that a COMMIT of the next batch that
ends both still writes each row once, where it is meant. `SizeInv` is the sizes of
queue and transaction. That an insertion keeps any part of the rows is
`Subsequences`. TLC checked `PipelineIInv` on the instance of `pipeline`.

**AsyncLogger.** `LoggerIInv` has four lists of blocks: written, in the flush
thread's hands, in the queue, in use. Each is sorted and each comes before the
next (`OrderInv`); the lines in them and those of cut and failed blocks are all
that were appended. A line of a cut block is in none of the lists, and a line of a failed
one in none but the output, which has the beginning of that block (`LossInv`,
`OnlyABeginning`): the blocks still to be written share no line with a failed one, so what is
written later completes no block behind a missing line. Critical sections move blocks from one list to the
next, so the steps need only what a concatenation, a cut and the head of a list
do to these facts (`SortedConcat`, `CutBlocks`, `FirstBlock`), and the write what
the beginning of a block is (`BegunBlock`). `ControlInv` says
what the flush thread holds by where it is: outside its drain it has a
spare block, or has written one, so there always is a block for `append()` to
write to, although `append()` itself may have used up the other spare. TLC checked
`LoggerIInv` on the instance of `logger`.

**Payloads.** The last part of `CoreProofs` proves the agreement of the two ends
for all values. `SrLayout`:
what one end writes as an SR payload the other reads, for every session of 64
bits and every body that fits. `AcceptedIsUnderstood`: a cloud message the
gateway accepts becomes a command that the node executes, with the period asked
for, and whose result passes the tracker's `resultValid` and is answered as `ok`.
`ValidResultsAreAnswered`: the check of a result in `CommandTracker.cpp` and the
answer made of it in `GatewayCore.cpp` agree: what passes the check is answered as
`ok` or `err` by its return code, never as an answer that cannot be read. `MeasuredIsPublished`: the text published for a telemetry
frame denotes the value the node put in. They need no invariant; the work is in
taking a number apart into bytes and putting it together, which is split into
single divisions by 256 (`Shifted`, `Joined`) for the solver's sake.
TLC evaluates the same formulas as assumptions in the run `parser`.

**Only model-checked.** All liveness (`SlotsAreReleased`, `EveryCommandReported`,
`AllAnswered`, `ShutdownEnds`, `RowsSettle`, `WaitsEnd`, `EveryLineSettles`,
`DestructorReturns`, `HupIsHeard`, `CloudIsHeard`, `StopEnds`), as liveness under
fairness and `ENABLED` are out of reach of the proof system. That a
restart without an early reload still implements the command service. That the
check value of the CRC is the published one is an evaluation.

## 5. Not modelled

* Inside `SrLink`: bytes. The line loses whole frames, and lengths that do not
  fit their type, which both ends drop, do not occur; `FrameParser` is about bytes.
* Failure of an allocation, in the logger above all.
* In `AsyncLogger` the text of a line that a failing write cut short, and that the
  next block begins right behind it: such a line counts as written.
* A `write` that returns 0, for which `safe_write` would not end (its precondition,
  line 27).
* A failing `EPOLL_CTL_MOD` in `modifyChannel` or `epoll_wait`: the exception leaves
  `loop()` and `run()`, and the gateway ends.
* Attempts to connect to the broker that fail for ever: `CloudIsHeard` assumes
  that one succeeds in the end.
* The parsing of the configuration file and of JSON, digits, and the texts of
  messages and pages.
* SQLite, libmosquitto, Boost.Beast, epoll and the tty: what they do is a choice
  of their callbacks, or a model of how the code uses them (marked external).
* The `Logger` front end, the options and the pseudo-terminal of `node-sim`,
  `SerialPort` (opening and configuring a tty) and `main`: no state, or none that
  a property could relate to another. `ThreadPool` is unused.
* A restart of the node: it loses its high water mark, and `protocol.md` 6.6
  promises nothing then.
* A SIGHUP during a reload is dropped by `reload_pending_`. That is intended
  (`docs/multi-reactor-validation.md:29`), and `HupIsHeard` speaks of signals
  that find no reload pending.

## 6. Plan

The components above were modelled in the order of their importance: the command
link, `GatewayCore`, the pipeline, HTTP, the logger, the parser, reload with its
MQTT clients, the event loop under the serial Reactor, payloads. What is left:

1. `GatewayCore` shown to implement an abstract request-reply service, and
   `AsyncLogger` and `TelemetryPipeline` an abstract lossy queue.
2. Failure of an allocation in the logger's `append`.
