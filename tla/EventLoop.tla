----------------------------- MODULE EventLoop -----------------------------
(***************************************************************************)
(* EventLoop.cpp and the epoll instance behind it.  epoll gives the loop a *)
(* batch of events, each with a bare pointer to a channel; the callbacks   *)
(* of earlier events may remove the channel of a later one, and register a *)
(* new channel on the same file descriptor, before its turn comes.         *)
(*                                                                         *)
(* The calls a callback makes are operators from loop to loop; poll, a     *)
(* function on descriptors, is what poll() of the device says just then.   *)
(* Which callbacks there are is the business of the module that extends    *)
(* this one (SerialReactor).                                               *)
(***************************************************************************)
EXTENDS Naturals, Sequences, FiniteSets, SequencesExt

CONSTANTS
  Fd,           \* file descriptors
  MaxChannels,  \* bound: channels of one descriptor that exist together
  NoChannel

ASSUME LoopConstants ==
  /\ MaxChannels \in Nat
  /\ IsFiniteSet(Fd)
  /\ NoChannel \notin [fd : Fd, n : 1 .. MaxChannels]

VARIABLES
  loop,      \* the tables of the loop and of the kernel, see below
  batch,     \* the events not yet handled: their channel and mask
  pc,        \* "wait", "event", "read" or "write" (in a callback), "left"
  running    \* running_

loopVars == <<loop, batch, pc, running>>

\* A channel is an object, told from others of its descriptor by n, until it
\* is destroyed.
Channel == [fd : Fd, n : 1 .. MaxChannels]
EventMask == SUBSET {"in", "out", "et"}     \* EPOLLIN, EPOLLOUT, EPOLLET

NoLoop ==
  [channels |-> [f \in Fd |-> NoChannel],  \* channels_; the kernel's pointer
   mask |-> [f \in Fd |-> {}],             \* the events the kernel watches
   edge |-> {},       \* descriptors on the kernel's ready list
   dying |-> {},      \* dying_
   dead |-> {}]       \* the channels with dead set

\* The channels that exist, and a new one.
Living(l) == {l.channels[f] : f \in Fd} \union l.dying
NewChannel(l, f) ==
  LET unused == {n \in 1 .. MaxChannels : [fd |-> f, n |-> n] \notin Living(l)}
  IN [fd |-> f, n |-> CHOOSE n \in unused : \A m \in unused : n <= m]
-----------------------------------------------------------------------------
(* What a callback, or the code before loop(), may call.  EPOLL_CTL_ADD    *)
(* and EPOLL_CTL_MOD put a descriptor on the ready list when something     *)
(* watched is the case already.                                            *)
Watch(l, poll, c, mask) ==
  [l EXCEPT !.channels[c.fd] = c,
            !.mask[c.fd] = mask,
            !.edge = IF poll[c.fd] \cap mask # {} THEN @ \union {c.fd} ELSE @]

addChannel(l, poll, c, mask) == Watch(l, poll, c, mask)
modifyChannel(l, poll, c, mask) == Watch(l, poll, c, mask)

(* Bug variant: the channel is destroyed at once. *)
removeChannel_AtOnce(l, f) ==
  [l EXCEPT !.channels[f] = NoChannel, !.mask[f] = {}, !.edge = @ \ {f},
            !.dead = @ \union {l.channels[f]}]

removeChannel(l, f) ==
  [l EXCEPT !.channels[f] = NoChannel, !.mask[f] = {}, !.edge = @ \ {f},
            !.dead = @ \union {l.channels[f]},
            !.dying = @ \union {l.channels[f]}]

(* The device reports kinds of readiness: a wake-up of the kernel. *)
Wake(l, f, kinds) ==
  [l EXCEPT !.edge = IF l.mask[f] \cap kinds # {} THEN @ \union {f} ELSE @]
-----------------------------------------------------------------------------
(* loop() *)

(* A level-triggered descriptor is ready as long as something watched is   *)
(* the case, an edge-triggered one when it is on the ready list as well.   *)
Ready(poll) ==
  {f \in Fd : /\ poll[f] \cap loop.mask[f] # {}
              /\ "et" \in loop.mask[f] => f \in loop.edge}

(* epoll_wait returns an event for each ready descriptor, in any order,    *)
(* and forgets the edges.                                                  *)
EpollWait(poll) ==
  /\ pc = "wait" /\ running
  /\ Ready(poll) # {}
  /\ \E order \in SetToSeqs(Ready(poll)) :
       batch' = [i \in DOMAIN order |->
                   [channel |-> loop.channels[order[i]],
                    mask |-> poll[order[i]] \cap loop.mask[order[i]]]]
  /\ loop' = [loop EXCEPT !.edge = {}]
  /\ pc' = "event"
  /\ UNCHANGED running

(* Bug variant: an event of a removed channel is not skipped. *)
Skipped_Never(c) == FALSE

(* Whether a channel was removed since the batch came. *)
Skipped(c) == c \in loop.dead

(* The first test of an event: read callback first, then write callback.   *)
Event ==
  /\ pc = "event" /\ batch # <<>>
  /\ IF Skipped(Head(batch).channel)
       THEN batch' = Tail(batch) /\ UNCHANGED pc
       ELSE pc' = (IF "in" \in Head(batch).mask THEN "read" ELSE "write")
            /\ UNCHANGED batch
  /\ UNCHANGED <<loop, running>>

(* The read callback returns; it may have removed its own channel. *)
ReadReturns ==
  /\ pc = "read"
  /\ IF "out" \in Head(batch).mask /\ ~Skipped(Head(batch).channel)
       THEN pc' = "write" /\ UNCHANGED batch
       ELSE pc' = "event" /\ batch' = Tail(batch)

WriteReturns == pc = "write" /\ pc' = "event" /\ batch' = Tail(batch)

(* Removed channels are destroyed when the batch is done. *)
BatchDone ==
  /\ pc = "event" /\ batch = <<>>
  /\ loop' = [loop EXCEPT !.dying = {}, !.dead = @ \ loop.dying]
  /\ pc' = IF running THEN "wait" ELSE "left"
  /\ UNCHANGED <<batch, running>>

quit == running' = FALSE
-----------------------------------------------------------------------------
(* Properties *)

LoopTypeOK ==
  /\ loop.channels \in [Fd -> Channel \union {NoChannel}]
  /\ loop.mask \in [Fd -> EventMask] /\ loop.edge \subseteq Fd
  /\ loop.dying \subseteq Channel /\ loop.dead \subseteq Channel
  /\ pc \in {"wait", "event", "read", "write", "left"} /\ running \in BOOLEAN

(* No pointer to a destroyed channel is left.  As long as an event waits   *)
(* in the batch, or its callback runs, its channel exists, whatever the    *)
(* callbacks before it removed (EventLoop.cpp:73, 84, 109); and no         *)
(* descriptor is watched with the pointer of a channel that was given up.  *)
NoDanglingEvent ==
  /\ LoopTypeOK
  /\ \A i \in DOMAIN batch : batch[i].channel \in Living(loop)
  /\ \A f \in Fd : loop.channels[f] \notin loop.dead

(* A callback is begun only for a channel that is registered, under its    *)
(* own descriptor: not for one that was removed in this batch, and not for *)
(* the new channel of a descriptor that was reused (EventLoop.cpp:72-81).  *)
CalledIsRegistered ==
  [][(pc' \in {"read", "write"} /\ pc' # pc) =>
       LET c == Head(batch').channel IN loop.channels[c.fd] = c]_loopVars
=============================================================================
