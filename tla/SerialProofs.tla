---------------------------- MODULE SerialProofs ----------------------------
(***************************************************************************)
(* Theorems about SerialReactor, for every number of descriptors, ports    *)
(* and commands: no event of epoll meets a destroyed channel, a callback   *)
(* is begun for registered channels only, and neither input nor output of  *)
(* the port waits for an event that does not come.                         *)
(*                                                                         *)
(* The handlers of the Reactor keep the invariant of the command link      *)
(* (LinkProofs); here it is joined by one of the loop, ReactorInv.         *)
(*                                                                         *)
(* The last part is about FrameParser, which finds the frames in the bytes *)
(* of the port: Init, Next and Spec are those of that module.              *)
(***************************************************************************)
EXTENDS SerialReactor, LinkProofs, FrameParser

(***************************************************************************)
(* The tables of the loop.  A channel is registered under its own          *)
(* descriptor; what is watched is registered; a channel removed is dead    *)
(* for as long as it exists.                                               *)
(***************************************************************************)
LoopRecord ==
  [channels : [Fd -> Channel \cup {NoChannel}],
   mask : [Fd -> EventMask],
   edge : SUBSET Fd,
   dying : SUBSET Channel,
   dead : SUBSET Channel]

Tables(l) ==
  /\ l \in LoopRecord
  /\ \A f \in Fd : l.channels[f] # NoChannel => l.channels[f].fd = f
  /\ \A f \in Fd : l.mask[f] # {} => l.channels[f] # NoChannel
  /\ \A f \in Fd : l.channels[f] \notin l.dead
  /\ l.dead = l.dying

EventRecord == [channel : Channel, mask : SUBSET {"in", "out"}]

\* The events still to be handled, and the one whose callback runs.
BatchInv ==
  /\ batch \in Seq(EventRecord)
  /\ \A i \in 1 .. Len(batch) :
       batch[i].channel \in Living(loop) /\ batch[i].mask # {}
  /\ pc = "wait" => batch = << >>
  /\ pc \in {"read", "write"} =>
       /\ batch # << >>
       /\ loop.channels[Head(batch).channel.fd] = Head(batch).channel
  /\ pc = "read" => "in" \in Head(batch).mask
  /\ pc = "write" => "out" \in Head(batch).mask

PortsInv ==
  /\ fd \in SerialFd
  /\ fresh \in Seq(SerialFd)
  /\ Len(fresh) = replacements
  /\ rx \in BOOLEAN
  /\ tx \in {"room", "full", "gone"}
  /\ pc \in {"wait", "event", "read", "write", "left"}
  /\ running \in BOOLEAN

\* A port that is not the link's is not registered.
Registered(l, f) ==
  /\ \A g \in {f, DownFd, TimerFd} : l.channels[g] # NoChannel
  /\ \A g \in SerialFd : g # f => l.channels[g] = NoChannel

\* A replacement leaves at most one channel behind.
RoomInv ==
  /\ IsFiniteSet(loop.dying)
  /\ Cardinality(loop.dying) + replacements <= reloads

CallbackInv ==
  /\ reactor \in {"replace", "submit"} => Callback("read", {DownFd})
  /\ reactor = "discard" => Callback("write", SerialFd)

WriteMask == ReadMask \cup {"out"}

\* The mask may be behind the queue only within a callback.
MaskInv ==
  /\ reactor \notin {"submit", "discard"} => loop.mask[fd] = Interest(output)
  /\ reactor = "submit" =>
       \/ loop.mask[fd] = ReadMask
       \/ loop.mask[fd] = WriteMask /\ output # << >>
  /\ reactor = "discard" => loop.mask[fd] \in {ReadMask, WriteMask}

\* An event of the port is to be handled, or its callback runs.
Announced(kind) ==
  \E i \in 1 .. Len(batch) :
    /\ batch[i].channel = loop.channels[fd]
    /\ kind \in batch[i].mask
    /\ (kind = "in" /\ i = 1) => pc # "write"

InputInv == rx => fd \in loop.edge \/ Announced("in")

\* What a write error may leave behind: the first OPEN of a session.
OpenOnly(queue, t) ==
  /\ Len(queue) = 1
  /\ Head(queue).type = "OPEN"
  /\ \/ t.state = "Failed"
     \/ t.state = "Opening" /\ t.openPending /\ t.openSends = 0

OutputInv ==
  (output # << >> /\ tx = "room") =>
    \/ fd \in loop.edge
    \/ Announced("out")
    \/ OpenOnly(output, tracker)
    \/ reactor = "submit" /\ loop.mask[fd] = ReadMask

DiscardInv == reactor = "discard" => output = << >> \/ OpenOnly(output, tracker)

ServingInv ==
  /\ Registered(loop, fd)
  /\ RoomInv
  /\ CallbackInv
  /\ MaskInv
  /\ InputInv
  /\ OutputInv
  /\ DiscardInv

ReactorInv ==
  /\ Tables(loop)
  /\ BatchInv
  /\ PortsInv
  /\ pc # "left" => ServingInv

-----------------------------------------------------------------------------
(***************************************************************************)
(* What the calls on the loop do to its tables.                            *)
(***************************************************************************)
LEMMA Descriptors ==
  /\ SerialFd \subseteq Fd /\ DownFd \in Fd /\ TimerFd \in Fd
  /\ DownFd \notin SerialFd /\ TimerFd \notin SerialFd /\ DownFd # TimerFd
  /\ \A f \in Fd : f \in SerialFd \/ f = DownFd \/ f = TimerFd
BY DescriptorsAssumption

LEMMA Masks ==
  /\ ReadMask \in EventMask /\ WriteMask \in EventMask
  /\ "in" \in ReadMask /\ "in" \in WriteMask
  /\ "out" \notin ReadMask /\ "out" \in WriteMask
  /\ ReadMask # WriteMask
  /\ \A q : Interest(q) = IF q = << >> THEN ReadMask ELSE WriteMask
BY DEF ReadMask, WriteMask, EventMask, Interest

LEMMA ChannelFields ==
  ASSUME NEW c \in Channel
  PROVE  c.fd \in Fd /\ c.n \in 1 .. MaxChannels /\ c # NoChannel
BY LoopConstants DEF Channel

LEMMA LoopFields ==
  ASSUME NEW l \in LoopRecord
  PROVE  /\ l.channels \in [Fd -> Channel \cup {NoChannel}]
         /\ l.mask \in [Fd -> EventMask]
         /\ l.edge \subseteq Fd
         /\ l.dying \subseteq Channel
         /\ l.dead \subseteq Channel
BY DEF LoopRecord

\* The loop w that watches c for mask, and is l otherwise.
Watches(w, l, poll, c, mask) ==
  /\ w \in LoopRecord
  /\ \A f \in Fd :
       /\ w.channels[f] = IF f = c.fd THEN c ELSE l.channels[f]
       /\ w.mask[f] = IF f = c.fd THEN mask ELSE l.mask[f]
  /\ l.edge \subseteq w.edge
  /\ poll[c.fd] \cap mask # {} => c.fd \in w.edge
  /\ w.dying = l.dying /\ w.dead = l.dead

LEMMA WatchFacts ==
  ASSUME NEW l, Tables(l), NEW poll, NEW c \in Channel, NEW mask \in EventMask
  PROVE  Watches(Watch(l, poll, c, mask), l, poll, c, mask)
<1> DEFINE w == Watch(l, poll, c, mask)
           cs == [l.channels EXCEPT ![c.fd] = c]
           ms == [l.mask EXCEPT ![c.fd] = mask]
           es == IF poll[c.fd] \cap mask # {} THEN l.edge \union {c.fd} ELSE l.edge
<1>1. l \in LoopRecord /\ c.fd \in Fd
  BY ChannelFields DEF Tables
<1>2. /\ l.channels \in [Fd -> Channel \cup {NoChannel}]
      /\ l.mask \in [Fd -> EventMask]
      /\ l.edge \subseteq Fd
  BY <1>1, LoopFields
<1>3. w = [l EXCEPT !.channels = cs, !.mask = ms, !.edge = es]
  BY DEF Watch
<1>4. /\ cs \in [Fd -> Channel \cup {NoChannel}]
      /\ ms \in [Fd -> EventMask]
      /\ es \subseteq Fd
      /\ l.edge \subseteq es
      /\ poll[c.fd] \cap mask # {} => c.fd \in es
  BY <1>1, <1>2
<1>5. \A f \in Fd : /\ cs[f] = IF f = c.fd THEN c ELSE l.channels[f]
                    /\ ms[f] = IF f = c.fd THEN mask ELSE l.mask[f]
  BY <1>1, <1>2
<1> HIDE DEF cs, ms, es, w
<1>6. /\ w \in LoopRecord
      /\ w.channels = cs /\ w.mask = ms /\ w.edge = es
      /\ w.dying = l.dying /\ w.dead = l.dead
  BY <1>1, <1>3, <1>4 DEF LoopRecord
<1>7. Watches(w, l, poll, c, mask)
  BY <1>4, <1>5, <1>6 DEF Watches
<1>8. QED
  BY <1>7 DEF w

LEMMA WatchTables ==
  ASSUME NEW l, Tables(l), NEW poll, NEW c \in Channel,
         c \notin l.dead, NEW mask \in EventMask
  PROVE  Tables(Watch(l, poll, c, mask))
<1> DEFINE w == Watch(l, poll, c, mask)
<1>1. c # NoChannel
  BY ChannelFields
<1>2. Watches(w, l, poll, c, mask)
  BY WatchFacts
<1> HIDE DEF w
<1>3. Tables(w)
  BY <1>1, <1>2 DEF Tables, Watches
<1>4. QED
  BY <1>3 DEF w

LEMMA RemoveFacts ==
  ASSUME NEW l, Tables(l), NEW f \in Fd, l.channels[f] # NoChannel
  PROVE  LET w == removeChannel(l, f) IN
         /\ Tables(w)
         /\ w.channels = [l.channels EXCEPT ![f] = NoChannel]
         /\ w.mask = [l.mask EXCEPT ![f] = {}]
         /\ w.edge = l.edge \ {f}
         /\ w.dying = l.dying \cup {l.channels[f]}
         /\ l.channels[f] \in Channel
<1> DEFINE w == removeChannel(l, f)
           c == l.channels[f]
           cs == [l.channels EXCEPT ![f] = NoChannel]
           ms == [l.mask EXCEPT ![f] = {}]
<1>1. /\ l \in LoopRecord
      /\ l.channels \in [Fd -> Channel \cup {NoChannel}]
      /\ l.mask \in [Fd -> EventMask]
      /\ l.edge \subseteq Fd
      /\ l.dying \subseteq Channel /\ l.dead \subseteq Channel
      /\ l.dead = l.dying
  BY LoopFields DEF Tables
<1>2. c \in Channel
  BY <1>1
<1>3. w = [l EXCEPT !.channels = cs, !.mask = ms, !.edge = l.edge \ {f},
                    !.dead = l.dead \union {c}, !.dying = l.dying \union {c}]
  BY DEF removeChannel
<1>4. cs \in [Fd -> Channel \cup {NoChannel}] /\ ms \in [Fd -> EventMask]
  BY <1>1 DEF EventMask
<1>5. /\ cs[f] = NoChannel /\ ms[f] = {}
      /\ \A g \in Fd : g # f => cs[g] = l.channels[g] /\ ms[g] = l.mask[g]
  BY <1>1
<1>6. c.fd = f
  BY DEF Tables
<1> HIDE DEF cs, ms, w, c
<1>7. /\ w \in LoopRecord
      /\ w.channels = cs /\ w.mask = ms /\ w.edge = l.edge \ {f}
      /\ w.dying = l.dying \union {c} /\ w.dead = l.dead \union {c}
  BY <1>1, <1>2, <1>3, <1>4 DEF LoopRecord
<1>8. \A g \in Fd : cs[g] # NoChannel => cs[g].fd = g
  BY <1>5 DEF Tables
<1>9. \A g \in Fd : ms[g] # {} => cs[g] # NoChannel
  BY <1>5 DEF Tables
<1>10. \A g \in Fd : cs[g] \notin l.dead \union {c}
  <2> TAKE g \in Fd
  <2>1. CASE g = f
    BY <1>1, <1>2, <1>5, <2>1, ChannelFields
  <2>2. CASE g # f
    <3>1. cs[g] = l.channels[g] /\ l.channels[g] \notin l.dead
      BY <1>5, <2>2 DEF Tables
    <3>2. cs[g] # c
      BY <1>2, <1>6, <1>8, <2>2, ChannelFields
    <3>3. QED
      BY <3>1, <3>2
  <2>3. QED
    BY <2>1, <2>2
<1>11. Tables(w)
  BY <1>1, <1>7, <1>8, <1>9, <1>10 DEF Tables
<1>12. QED
  BY <1>2, <1>7, <1>11 DEF w, cs, ms, c

LEMMA WakeFacts ==
  ASSUME NEW l, Tables(l), NEW f \in Fd, NEW kinds
  PROVE  LET w == Wake(l, f, kinds) IN
         /\ Tables(w)
         /\ w.channels = l.channels /\ w.mask = l.mask
         /\ w.dying = l.dying
         /\ l.edge \subseteq w.edge
         /\ l.mask[f] \cap kinds # {} => f \in w.edge
<1> DEFINE w == Wake(l, f, kinds)
           es == IF l.mask[f] \cap kinds # {} THEN l.edge \union {f} ELSE l.edge
<1>1. l \in LoopRecord /\ l.edge \subseteq Fd
  BY LoopFields DEF Tables
<1>2. w = [l EXCEPT !.edge = es]
  BY DEF Wake
<1>3. /\ es \subseteq Fd /\ l.edge \subseteq es
      /\ l.mask[f] \cap kinds # {} => f \in es
  BY <1>1
<1> HIDE DEF w, es
<1>4. /\ w \in LoopRecord
      /\ w.channels = l.channels /\ w.mask = l.mask /\ w.edge = es
      /\ w.dying = l.dying /\ w.dead = l.dead
  BY <1>1, <1>2, <1>3 DEF LoopRecord
<1>5. Tables(w)
  BY <1>4 DEF Tables
<1>6. QED
  BY <1>3, <1>4, <1>5 DEF w

-----------------------------------------------------------------------------
(***************************************************************************)
(* A new channel.  As long as fewer channels wait for their destruction    *)
(* than may exist together there is room for one more.                     *)
(***************************************************************************)
LEMMA RoomForChannel ==
  ASSUME NEW dying, IsFiniteSet(dying), Cardinality(dying) < MaxChannels,
         NEW f \in Fd
  PROVE  \E n \in 1 .. MaxChannels : [fd |-> f, n |-> n] \notin dying
<1> DEFINE c(n) == [fd |-> f, n |-> n]
           g == [n \in 1 .. MaxChannels |-> c(n)]
<1>1. MaxChannels \in Nat
  BY LoopConstants
<1>2. Cardinality(1 .. MaxChannels) = MaxChannels
  BY <1>1, FS_Interval
<1>3. \A m, n \in 1 .. MaxChannels : c(m) = c(n) => m = n
  OBVIOUS
<1>4. SUFFICES ASSUME \A n \in 1 .. MaxChannels : c(n) \in dying
      PROVE  FALSE
  OBVIOUS
<1> HIDE DEF c
<1>5. g \in Injection(1 .. MaxChannels, dying)
  BY <1>3, <1>4 DEF Injection, IsInjective
<1>6. Cardinality(1 .. MaxChannels) <= Cardinality(dying)
  <2> HIDE DEF g
  <2>1. QED
    BY <1>5, FS_Injection
<1>7. Cardinality(dying) \in Nat
  BY FS_CardinalityType
<1>8. QED
  BY <1>1, <1>2, <1>6, <1>7

LEMMA NewChannelFacts ==
  ASSUME NEW l, Tables(l), NEW f \in Fd, l.channels[f] = NoChannel,
         IsFiniteSet(l.dying), Cardinality(l.dying) < MaxChannels
  PROVE  /\ NewChannel(l, f) \in Channel
         /\ NewChannel(l, f).fd = f
         /\ NewChannel(l, f) \notin Living(l)
         /\ NewChannel(l, f) \notin l.dead
<1> DEFINE c(n) == [fd |-> f, n |-> n]
           unused == {n \in 1 .. MaxChannels : c(n) \notin Living(l)}
           least == CHOOSE n \in unused : \A m \in unused : n <= m
<1>1. /\ l.channels \in [Fd -> Channel \cup {NoChannel}]
      /\ l.dead = l.dying
  BY LoopFields DEF Tables
<1>2. \A n \in 1 .. MaxChannels : c(n) \in Channel /\ c(n).fd = f
  BY DEF Channel
<1>3. PICK n \in 1 .. MaxChannels : c(n) \notin l.dying
  BY RoomForChannel
<1>4. \A g \in Fd : l.channels[g] # c(n)
  <2> TAKE g \in Fd
  <2>1. CASE g = f
    BY <1>2, <2>1, ChannelFields
  <2>2. CASE g # f
    BY <1>2, <2>2, ChannelFields DEF Tables
  <2>3. QED
    BY <2>1, <2>2
<1>5. n \in unused
  BY <1>3, <1>4 DEF Living
<1>6. unused \subseteq Nat /\ unused # {}
  BY <1>5
<1>7. least \in unused
  <2>1. \E m \in unused : \A k \in unused : m <= k
    BY <1>6, LeastNumber
  <2>2. QED
    BY <2>1
<1>8. NewChannel(l, f) = c(least)
  BY DEF NewChannel
<1> HIDE DEF least, c
<1>9. /\ c(least) \in Channel /\ c(least).fd = f
      /\ c(least) \notin Living(l)
  BY <1>2, <1>7
<1>10. QED
  BY <1>1, <1>8, <1>9 DEF Living

LEMMA RegisterFacts ==
  ASSUME NEW l, Tables(l), NEW f \in Fd, l.channels[f] = NoChannel,
         IsFiniteSet(l.dying), Cardinality(l.dying) < MaxChannels,
         NEW poll, NEW queue
  PROVE  LET w == registerSerialEvent(l, poll, f, queue) IN
         /\ Tables(w)
         /\ w.channels[f] \in Channel
         /\ \A g \in Fd : g # f => w.channels[g] = l.channels[g]
         /\ w.mask[f] = Interest(queue)
         /\ w.dying = l.dying
         /\ poll[f] \cap Interest(queue) # {} => f \in w.edge
<1> DEFINE c == NewChannel(l, f)
           w == registerSerialEvent(l, poll, f, queue)
<1>1. c \in Channel /\ c.fd = f /\ c \notin l.dead
  BY NewChannelFacts
<1>2. Interest(queue) \in EventMask
  BY Masks
<1> HIDE DEF c
<1>3. w = Watch(l, poll, c, Interest(queue))
  BY DEF registerSerialEvent, addChannel, c
<1> HIDE DEF w
<1>4. /\ Tables(w)
      /\ \A g \in Fd : w.channels[g] = IF g = f THEN c ELSE l.channels[g]
      /\ w.mask[f] = Interest(queue)
      /\ poll[f] \cap Interest(queue) # {} => f \in w.edge
      /\ w.dying = l.dying
  <2>1. Tables(w)
    BY <1>1, <1>2, <1>3, WatchTables
  <2>2. /\ \A g \in Fd : w.channels[g] = IF g = f THEN c ELSE l.channels[g]
        /\ w.mask[f] = Interest(queue)
        /\ poll[f] \cap Interest(queue) # {} => f \in w.edge
        /\ w.dying = l.dying
    <3>1. Watches(w, l, poll, c, Interest(queue))
      BY <1>1, <1>2, <1>3, WatchFacts
    <3>2. QED
      BY <1>1, <3>1 DEF Watches
  <2>3. QED
    BY <2>1, <2>2
<1>5. QED
  BY <1>1, <1>4 DEF w

LEMMA UpdateFacts ==
  ASSUME NEW l, Tables(l), NEW f \in Fd, l.channels[f] # NoChannel,
         NEW poll, NEW queue
  PROVE  LET w == updateSerialWriteInterest(l, poll, f, queue) IN
         /\ Tables(w)
         /\ w.channels = l.channels
         /\ w.dying = l.dying
         /\ w.mask[f] = Interest(queue)
         /\ l.edge \subseteq w.edge
         /\ (l.mask[f] # Interest(queue) /\ poll[f] \cap Interest(queue) # {})
              => f \in w.edge
<1> DEFINE c == l.channels[f]
           w == updateSerialWriteInterest(l, poll, f, queue)
<1>1. /\ l.channels \in [Fd -> Channel \cup {NoChannel}]
      /\ l.mask \in [Fd -> EventMask]
  BY LoopFields DEF Tables
<1>2. c \in Channel /\ c.fd = f /\ c \notin l.dead
  BY <1>1 DEF Tables
<1>3. Interest(queue) \in EventMask
  BY Masks
<1>4. CASE l.mask[f] = Interest(queue)
  BY <1>4 DEF updateSerialWriteInterest
<1>5. CASE l.mask[f] # Interest(queue)
  <2>1. w = Watch(l, poll, c, Interest(queue))
    BY <1>5 DEF updateSerialWriteInterest, modifyChannel
  <2>2. c.fd = f /\ c = l.channels[f]
    BY <1>2
  <2> HIDE DEF c, w
  <2>t. Tables(w)
    BY <1>2, <1>3, <2>1, WatchTables
  <2>3. /\ \A g \in Fd : w.channels[g] = IF g = f THEN c ELSE l.channels[g]
        /\ w.mask[f] = Interest(queue)
        /\ l.edge \subseteq w.edge
        /\ poll[f] \cap Interest(queue) # {} => f \in w.edge
        /\ w.dying = l.dying
    <3>1. Watches(w, l, poll, c, Interest(queue))
      BY <1>2, <1>3, <2>1, WatchFacts
    <3>2. QED
      BY <2>2, <3>1 DEF Watches
  <2>4. w.channels = l.channels
    <3>1. w.channels \in [Fd -> Channel \cup {NoChannel}]
      BY <2>t, LoopFields DEF Tables
    <3>2. \A g \in Fd : w.channels[g] = l.channels[g]
      BY <2>2, <2>3
    <3>3. QED
      BY <1>1, <3>1, <3>2
  <2>5. QED
    BY <2>t, <2>3, <2>4 DEF w
<1>6. QED
  BY <1>4, <1>5

\* The port's channel is replaced by one of descriptor g.
LEMMA ReplaceFacts ==
  ASSUME NEW l, Tables(l), NEW f \in SerialFd, NEW g \in SerialFd,
         Registered(l, f),
         IsFiniteSet(l.dying), Cardinality(l.dying) + 1 < MaxChannels,
         NEW poll, NEW queue
  PROVE  LET w == registerSerialEvent(removeChannel(l, f), poll, g, queue) IN
         /\ Tables(w)
         /\ Registered(w, g)
         /\ \A h \in {DownFd, TimerFd} : w.channels[h] = l.channels[h]
         /\ Living(l) \ {NoChannel} \subseteq Living(w)
         /\ w.mask[g] = Interest(queue)
         /\ IsFiniteSet(w.dying)
         /\ Cardinality(w.dying) <= Cardinality(l.dying) + 1
         /\ poll[g] \cap Interest(queue) # {} => g \in w.edge
<1> DEFINE r == removeChannel(l, f)
           w == registerSerialEvent(r, poll, g, queue)
<1>1. /\ l.channels \in [Fd -> Channel \cup {NoChannel}]
      /\ f \in Fd /\ g \in Fd /\ l.channels[f] # NoChannel
  BY LoopFields, Descriptors DEF Tables, Registered
<1>2. /\ Tables(r)
      /\ r.channels = [l.channels EXCEPT ![f] = NoChannel]
      /\ r.dying = l.dying \cup {l.channels[f]}
  BY <1>1, RemoveFacts
<1> HIDE DEF r
<1>3. \A h \in Fd : r.channels[h] = IF h = f THEN NoChannel ELSE l.channels[h]
  BY <1>1, <1>2
<1>4. r.channels[g] = NoChannel
  BY <1>1, <1>3 DEF Registered
<1>5. /\ IsFiniteSet(r.dying)
      /\ Cardinality(r.dying) <= Cardinality(l.dying) + 1
      /\ Cardinality(r.dying) < MaxChannels
  <2>1. Cardinality(l.dying) \in Nat /\ MaxChannels \in Nat
    BY FS_CardinalityType, LoopConstants
  <2>2. /\ IsFiniteSet(r.dying)
        /\ \/ Cardinality(r.dying) = Cardinality(l.dying)
           \/ Cardinality(r.dying) = Cardinality(l.dying) + 1
    BY <1>2, FS_AddElement, SMTT(20)
  <2>3. QED
    BY <2>1, <2>2
<1>6. /\ Tables(w)
      /\ w.channels[g] \in Channel
      /\ \A h \in Fd : h # g => w.channels[h] = r.channels[h]
      /\ w.mask[g] = Interest(queue)
      /\ w.dying = r.dying
      /\ poll[g] \cap Interest(queue) # {} => g \in w.edge
  BY <1>1, <1>2, <1>4, <1>5, RegisterFacts
<1> HIDE DEF w
<1>7. \A h \in {DownFd, TimerFd} : h \in Fd /\ h # f /\ h # g
  BY Descriptors
<1>8. \A h \in {DownFd, TimerFd} : w.channels[h] = l.channels[h]
  BY <1>3, <1>6, <1>7
<1>9. Registered(w, g)
  <2>1. \A h \in {g, DownFd, TimerFd} : w.channels[h] # NoChannel
    BY <1>6, <1>8, ChannelFields DEF Registered
  <2>2. ASSUME NEW h \in SerialFd, h # g PROVE w.channels[h] = NoChannel
    <3>1. h \in Fd
      BY Descriptors
    <3>2. QED
      BY <1>3, <1>6, <2>2, <3>1 DEF Registered
  <2>3. QED
    BY <2>1, <2>2 DEF Registered
<1>10. ASSUME NEW c \in Living(l) \ {NoChannel} PROVE c \in Living(w)
  <2>1. CASE c \in l.dying
    BY <1>2, <1>6, <2>1 DEF Living
  <2>2. CASE c \notin l.dying
    <3>1. PICK h \in Fd : c = l.channels[h]
      BY <2>2 DEF Living
    <3>2. CASE h = f
      BY <1>2, <1>6, <3>1, <3>2 DEF Living
    <3>3. CASE h # f
      <4>1. h # g
        BY <1>3, <1>4, <1>10, <3>1, <3>3
      <4>2. w.channels[h] = c
        BY <1>3, <1>6, <3>1, <3>3, <4>1
      <4>3. QED
        BY <4>2 DEF Living
    <3>4. QED
      BY <3>2, <3>3
  <2>3. QED
    BY <2>1, <2>2
<1>11. QED
  BY <1>5, <1>6, <1>8, <1>9, <1>10 DEF w, r

-----------------------------------------------------------------------------
(***************************************************************************)
(* What the port says.                                                     *)
(***************************************************************************)
LEMMA PollFacts ==
  ASSUME NEW f \in SerialFd, NEW input, NEW buffer
  PROVE  LET poll == PollAt(f, input, buffer) IN
         /\ \A g \in Fd : poll[g] \subseteq {"in", "out"}
         /\ input => "in" \in poll[f]
         /\ buffer = "room" => "out" \in poll[f]
<1>1. f \in Fd /\ f # DownFd /\ f # TimerFd
  BY Descriptors
<1>2. PollAt(f, input, buffer)[f] = PortPoll(input, buffer)
  BY <1>1 DEF PollAt
<1>3. \A g \in Fd : PollAt(f, input, buffer)[g] \subseteq {"in", "out"}
  BY DEF PollAt, PortPoll
<1>4. QED
  BY <1>2, <1>3 DEF PortPoll

(***************************************************************************)
(* The order of a batch is one of all that is ready.                       *)
(***************************************************************************)
LEMMA OrderCovers ==
  ASSUME NEW S, IsFiniteSet(S), NEW order \in SetToSeqs(S)
  PROVE  /\ order \in Seq(S)
         /\ DOMAIN order = 1 .. Len(order)
         /\ \A x \in S : \E i \in DOMAIN order : order[i] = x
<1> DEFINE n == Cardinality(S)
<1>1. n \in Nat
  BY FS_CardinalityType
<1>2. order \in [1 .. n -> S] /\ \A i, j \in 1 .. n : i # j => order[i] # order[j]
  BY DEF SetToSeqs
<1>3. Cardinality(1 .. n) = n
  BY <1>1, FS_Interval
<1> HIDE DEF n
<1>4. order \in Injection(1 .. n, S)
  BY <1>2 DEF Injection, IsInjective
<1>5. order \in Surjection(1 .. n, S)
  BY <1>3, <1>4, FS_Injection DEF n
<1>6. QED
  BY <1>1, <1>2, <1>5 DEF Surjection

-----------------------------------------------------------------------------
(***************************************************************************)
(* The link.  A step of the reactor is one of the link, or the eventfd is  *)
(* read or written without one.                                            *)
(***************************************************************************)
NotifyOnly ==
  /\ notified' \in BOOLEAN
  /\ UNCHANGED <<nodeVars, tracker, cmdQueue, requests, output, begun,
                 discarded, reactor, processed, replacements, reloads,
                 downlink, command, assigned, outcome>>

LEMMA NotifyLine ==
  ASSUME LineInv, NotifyOnly
  PROVE  LineInv'
<1>1. GatewayTypeOK'
  BY DEF LineInv, GatewayInv, GatewayTypeOK, NotifyOnly
<1>2. GatewayInv'
  BY <1>1, GatewaySame DEF LineInv, NotifyOnly
<1>3. UNCHANGED nodeVars
  BY DEF NotifyOnly
<1>4. ReadyInv' /\ HeardInv'
  BY DEF LineInv, ReadyInv, HeardInv, NotifyOnly, nodeVars
<1>5. QED
  BY <1>2, <1>3, <1>4, NodeKept DEF LineInv

LEMMA ReactorIsLink ==
  ASSUME [ReactorNext]_reactorVars
  PROVE  LinkNext \/ NotifyOnly \/ UNCHANGED linkVars
<1>1. CASE UNCHANGED reactorVars
  BY <1>1 DEF reactorVars
<1>2. CASE DrainAndParse
  BY <1>2 DEF DrainAndParse, LinkNext, Handler
<1>3. CASE SerialReadReturns \/ RegistrationFails \/ LoopStep
  BY <1>3 DEF SerialReadReturns, RegistrationFails, LoopStep
<1>4. CASE FlushTurn
  BY <1>4 DEF FlushTurn, LinkNext, Handler
<1>5. CASE SerialWriteReturns
  BY <1>5 DEF SerialWriteReturns, LinkNext, Handler
<1>6. CASE DownlinkEvent
  BY <1>6 DEF DownlinkEvent, LinkNext, Handler
<1>7. CASE DownlinkStops
  BY <1>7 DEF DownlinkStops, NotifyOnly
<1>8. CASE CandidateFails
  BY <1>8 DEF CandidateFails, LinkNext, Handler
<1>9. CASE CandidateTakesOver
  BY <1>9 DEF CandidateTakesOver, LinkNext, Handler
<1>10. CASE DownlinkSubmits
  BY <1>10 DEF DownlinkSubmits, LinkNext, Handler
<1>11. CASE CommandTimerEvent
  BY <1>11 DEF CommandTimerEvent, LinkNext, Handler
<1>12. CASE Surroundings
  <2>1. CASE NodeSide \/ GatewayElapse
    BY <2>1 DEF LinkNext, Environment
  <2>2. CASE OtherThreads
    <3>1. CASE (\E c \in Command : SubmitCommand(c)) \/ ReloadSerial
      BY <3>1 DEF LinkNext, Environment
    <3>2. CASE ~((\E c \in Command : SubmitCommand(c)) \/ ReloadSerial)
      BY <2>2, <3>2 DEF OtherThreads, NotifyOnly
    <3>3. QED
      BY <3>1, <3>2
  <2>3. CASE Port
    BY <2>3 DEF Port
  <2>4. QED
    BY <1>12, <2>1, <2>2, <2>3 DEF Surroundings
<1>13. QED
  BY <1>1, <1>2, <1>3, <1>4, <1>5, <1>6, <1>7, <1>8, <1>9, <1>10, <1>11, <1>12
  DEF ReactorNext

LEMMA ReactorLine ==
  ASSUME LineInv, [ReactorNext]_reactorVars
  PROVE  LineInv'
BY ReactorIsLink, LinkLine, NotifyLine, LinkStutterLine

-----------------------------------------------------------------------------
(***************************************************************************)
(* The OPEN that may stay behind.  While its session is opening and it has *)
(* not been written, or when the link has failed, the tracker sends        *)
(* nothing more.                                                           *)
(***************************************************************************)
LEMMA FailedStays ==
  ASSUME NEW t \in Tracker, NEW queue, OpenOnly(queue, t)
  PROVE  OpenOnly(queue, handshakeOver(t, "Failed"))
BY HandshakeFields DEF OpenOnly

LEMMA OpenOnlyTick ==
  ASSUME NEW t \in Tracker, NEW queue, OpenOnly(queue, t), NEW r \in tick(t)
  PROVE  r.send = << >> /\ OpenOnly(queue, r.t)
<1>1. CASE t.state = "Failed"
  BY <1>1 DEF tick, Nothing
<1>2. CASE t.state = "Opening"
  <2>1. r = tickOpening(t) /\ t.openPending
    BY <1>2 DEF tick, OpenOnly
  <2>2. r \in {Nothing(handshakeOver(t, "Failed")), Nothing(t)}
    BY <2>1 DEF tickOpening
  <2>3. QED
    BY <2>2, FailedStays DEF Nothing
<1>3. QED
  BY <1>1, <1>2 DEF OpenOnly

LEMMA OpenOnlyFrame ==
  ASSUME NEW t \in Tracker, NEW queue, OpenOnly(queue, t), NEW f \in UpFrame
  PROVE  /\ onFrame(t, f).send = << >>
         /\ OpenOnly(queue, onFrame(t, f).t)
<1>1. f.type \in {"OPEN_ACK", "RECEIVED", "RESULT"}
  BY DEF UpFrame, OpenAckFrame, ReceivedFrame, ResultFrame
<1>2. t.state # "Ready" /\ (t.state # "Opening" \/ t.openSends = 0)
  BY DEF OpenOnly
<1>3. onOpenAck(t, f) = Nothing(t)
  BY <1>2 DEF onOpenAck
<1>4. onReceived(t, f) = Nothing(t)
  BY <1>2 DEF onReceived
<1>5. onResult(t, f) = Nothing(t)
  BY <1>2 DEF onResult
<1>6. onFrame(t, f) = Nothing(t)
  BY <1>1, <1>3, <1>4, <1>5 DEF onFrame
<1>7. QED
  BY <1>6 DEF Nothing

LEMMA OpenOnlyElapse ==
  ASSUME NEW t \in Tracker, NEW queue, OpenOnly(queue, t)
  PROVE  OpenOnly(queue, elapse(t))
<1>1. CASE t.state = "Failed"
  BY <1>1 DEF elapse
<1>2. CASE t.state = "Opening"
  <2>1. /\ elapse(t).state = "Opening"
        /\ elapse(t).openPending = t.openPending
        /\ elapse(t).openSends = t.openSends
    BY <1>2 DEF elapse, Tracker
  <2>2. QED
    BY <1>2, <2>1 DEF OpenOnly
<1>3. QED
  BY <1>1, <1>2 DEF OpenOnly

\* What an abort leaves: a session that opens, or a link that has failed.
LEMMA AbortSends ==
  ASSUME NEW t \in Tracker, NEW q, NEW reason
  PROVE  LET r == abort(t, q, reason) IN
         r.send = << >> \/ OpenOnly(r.send, r.t)
<1> DEFINE u == [t EXCEPT !.entries = NoTrackerEntries]
           s == IF t.session <= u.session THEN u.session + 1 ELSE t.session
           b == begin(u, t.session)
           n == [ClosedTracker EXCEPT !.state = "Opening", !.session = s,
                                      !.openPending = TRUE]
<1>1. abort(t, q, reason).send = b.send /\ abort(t, q, reason).t = b.t
  BY DEF abort, restart
<1>2. CASE s > MaxSession
  BY <1>1, <1>2 DEF begin
<1>3. CASE ~(s > MaxSession)
  <2>1. b = [t |-> n, send |-> <<openSend(n)>>]
    BY <1>3 DEF begin
  <2>2. /\ n.state = "Opening" /\ n.openPending /\ n.openSends = 0
        /\ openSend(n).type = "OPEN"
    BY DEF ClosedTracker, openSend
  <2> HIDE DEF n
  <2>3. Len(<<openSend(n)>>) = 1 /\ Head(<<openSend(n)>>) = openSend(n)
    OBVIOUS
  <2>4. OpenOnly(b.send, b.t)
    BY <2>1, <2>2, <2>3 DEF OpenOnly
  <2>5. QED
    BY <1>1, <2>4
<1>4. QED
  BY <1>2, <1>3

\* One frame of a queue that was discarded.
LEMMA DiscardSends ==
  ASSUME NEW t \in Tracker, NEW queue \in Seq(CommandSend),
         NEW s \in CommandSend, onWritten(t, s, FALSE).send \in Seq(CommandSend),
         queue = << >> \/ OpenOnly(queue, t)
  PROVE  LET r == onWritten(t, s, FALSE) IN
         queue \o r.send = << >> \/ OpenOnly(queue \o r.send, r.t)
<1> DEFINE r == onWritten(t, s, FALSE)
<1>1. \/ r = Nothing(t)
      \/ r = Nothing(openWritten(t, FALSE))
      \/ t.state = "Ready" /\ \E q, reason : r = abort(t, q, reason)
  BY DEF onWritten, DataAwaited
<1>2. openWritten(t, FALSE) = handshakeOver(t, "Failed")
  BY DEF openWritten
<1> HIDE DEF r
<1>3. CASE r = Nothing(t) \/ r = Nothing(openWritten(t, FALSE))
  <2>1. r.send = << >> /\ (r.t = t \/ r.t = handshakeOver(t, "Failed"))
    <3>1. r = Nothing(t) \/ r = Nothing(handshakeOver(t, "Failed"))
      BY <1>2, <1>3
    <3>2. QED
      BY <3>1 DEF Nothing
  <2>2. queue \o r.send = queue
    BY <2>1
  <2>3. QED
    BY <2>1, <2>2, FailedStays DEF r
<1>4. CASE t.state = "Ready" /\ \E q, reason : r = abort(t, q, reason)
  <2>1. queue = << >>
    BY <1>4 DEF OpenOnly
  <2>2. queue \o r.send = r.send
    BY <2>1 DEF r
  <2>3. r.send = << >> \/ OpenOnly(r.send, r.t)
    BY <1>4, AbortSends
  <2>4. QED
    BY <2>2, <2>3 DEF r
<1>5. QED
  BY <1>1, <1>3, <1>4

-----------------------------------------------------------------------------
(***************************************************************************)
(* The batch, as callbacks go on and return.                               *)
(***************************************************************************)
LEMMA BatchSame ==
  ASSUME BatchInv, UNCHANGED <<batch, pc>>,
         Living(loop) \ {NoChannel} \subseteq Living(loop'),
         pc \in {"read", "write"} =>
           loop'.channels[Head(batch).channel.fd] =
             loop.channels[Head(batch).channel.fd]
  PROVE  BatchInv'
<1>1. \A i \in 1 .. Len(batch) : batch[i].channel \in Living(loop')
  <2> TAKE i \in 1 .. Len(batch)
  <2>1. batch[i] \in EventRecord /\ batch[i].channel \in Living(loop)
    BY DEF BatchInv
  <2>2. batch[i].channel # NoChannel
    BY <2>1, ChannelFields DEF EventRecord
  <2>3. QED
    BY <2>1, <2>2
<1>2. QED
  BY <1>1 DEF BatchInv

\* Nothing was registered or removed.
LEMMA LivingSame ==
  ASSUME NEW l, NEW w, w.channels = l.channels, w.dying = l.dying
  PROVE  Living(w) = Living(l)
BY DEF Living

LEMMA HeadFacts ==
  ASSUME BatchInv, batch # << >>
  PROVE  /\ Head(batch) = batch[1] /\ 1 \in 1 .. Len(batch)
         /\ Head(batch) \in EventRecord
         /\ Head(batch).channel \in Channel
         /\ Head(batch).channel.fd \in Fd
         /\ Head(batch).mask \subseteq {"in", "out"} /\ Head(batch).mask # {}
         /\ Tail(batch) \in Seq(EventRecord)
         /\ Len(batch) \in Nat
         /\ Len(Tail(batch)) = Len(batch) - 1
         /\ \A i \in 1 .. Len(batch) - 1 : Tail(batch)[i] = batch[i + 1]
<1>1. batch \in Seq(EventRecord)
  BY DEF BatchInv
<1>2. /\ Head(batch) = batch[1] /\ Head(batch) \in EventRecord
      /\ Tail(batch) \in Seq(EventRecord)
      /\ Len(batch) \in Nat \ {0}
      /\ Len(Tail(batch)) = Len(batch) - 1
      /\ \A i \in 1 .. Len(batch) - 1 : Tail(batch)[i] = batch[i + 1]
  BY <1>1, TailFacts
<1>3. Head(batch).channel \in Channel /\ Head(batch).mask \subseteq {"in", "out"}
  BY <1>2 DEF EventRecord
<1>4. 1 \in 1 .. Len(batch)
  BY <1>2
<1>5. Head(batch).mask # {}
  BY <1>2, <1>4 DEF BatchInv
<1>6. QED
  BY <1>2, <1>3, <1>4, <1>5, ChannelFields

\* The head leaves the batch.
LEMMA BatchTail ==
  ASSUME BatchInv, batch # << >>, batch' = Tail(batch), pc' = "event",
         Living(loop') = Living(loop)
  PROVE  BatchInv'
<1>1. \A i \in 1 .. Len(batch') :
        /\ i + 1 \in 1 .. Len(batch)
        /\ batch'[i] = batch[i + 1]
  BY HeadFacts
<1>2. \A i \in 1 .. Len(batch') :
        batch'[i].channel \in Living(loop') /\ batch'[i].mask # {}
  BY <1>1 DEF BatchInv
<1>3. batch' \in Seq(EventRecord)
  BY HeadFacts
<1>4. QED
  BY <1>2, <1>3 DEF BatchInv

LEMMA CallbackReturns ==
  ASSUME BatchInv, ReadReturns \/ WriteReturns,
         loop'.channels = loop.channels, loop'.dying = loop.dying
  PROVE  /\ BatchInv'
         /\ pc' \in {"write", "event"}
<1>1. Living(loop') = Living(loop)
  BY DEF Living
<1>2. batch # << >> /\ pc \in {"read", "write"}
  BY DEF BatchInv, ReadReturns, WriteReturns
<1>3. ASSUME batch' = Tail(batch), pc' = "event"
      PROVE  BatchInv'
  BY <1>1, <1>2, <1>3, BatchTail
<1>4. ASSUME batch' = batch, pc' = "write", "out" \in Head(batch).mask
      PROVE  BatchInv'
  <2>1. \A i \in 1 .. Len(batch') :
          batch'[i].channel \in Living(loop') /\ batch'[i].mask # {}
    BY <1>1, <1>4 DEF BatchInv
  <2>2. loop'.channels[Head(batch').channel.fd] = Head(batch').channel
    BY <1>2, <1>4 DEF BatchInv
  <2>3. batch' \in Seq(EventRecord)
    BY <1>4 DEF BatchInv
  <2>4. QED
    BY <1>2, <1>4, <2>1, <2>2, <2>3 DEF BatchInv
<1>5. \/ batch' = Tail(batch) /\ pc' = "event"
      \/ /\ batch' = batch /\ pc' = "write"
         /\ "out" \in Head(batch).mask
  BY DEF ReadReturns, WriteReturns
<1>6. pc' \in {"write", "event"}
  BY <1>5
<1>7. BatchInv'
  BY <1>3, <1>4, <1>5
<1>8. QED
  BY <1>6, <1>7

\* An event that is not the head stays to be handled.
LEMMA AnnouncedShift ==
  ASSUME BatchInv, batch # << >>, batch' = Tail(batch), pc' = "event",
         UNCHANGED fd, loop'.channels = loop.channels,
         NEW kind, Announced(kind),
         ~(/\ batch[1].channel = loop.channels[fd]
           /\ kind \in batch[1].mask
           /\ kind = "in" => pc # "write")
  PROVE  Announced(kind)'
<1>1. PICK i \in 1 .. Len(batch) :
        /\ batch[i].channel = loop.channels[fd]
        /\ kind \in batch[i].mask
        /\ (kind = "in" /\ i = 1) => pc # "write"
  BY DEF Announced
<1>2. i # 1
  BY <1>1
<1>3. i - 1 \in 1 .. Len(batch') /\ batch'[i - 1] = batch[i]
  BY <1>1, <1>2, HeadFacts
<1>4. QED
  BY <1>1, <1>3 DEF Announced

LEMMA AnnouncedSame ==
  ASSUME UNCHANGED <<batch, pc, fd>>, loop'.channels = loop.channels,
         NEW kind, Announced(kind)
  PROVE  Announced(kind)'
BY DEF Announced

\* A callback of another descriptor returns.
LEMMA AnnouncedOther ==
  ASSUME Tables(loop), BatchInv, ReadReturns,
         Head(batch).channel.fd # fd, fd \in Fd, loop.channels[fd] # NoChannel,
         UNCHANGED fd, loop'.channels = loop.channels,
         NEW kind, Announced(kind)
  PROVE  Announced(kind)'
<1>1. batch # << >> /\ Head(batch) = batch[1]
  <2>1. batch # << >>
    BY DEF BatchInv, ReadReturns
  <2>2. QED
    BY <2>1, HeadFacts
<1>2. loop.channels[fd].fd = fd
  BY DEF Tables
<1>3. batch[1].channel # loop.channels[fd]
  BY <1>1, <1>2
<1>4. CASE batch' = Tail(batch) /\ pc' = "event"
  BY <1>1, <1>3, <1>4, AnnouncedShift
<1>5. CASE UNCHANGED batch /\ pc' = "write"
  <2>1. PICK i \in 1 .. Len(batch) :
          batch[i].channel = loop.channels[fd] /\ kind \in batch[i].mask
    BY DEF Announced
  <2>2. i # 1
    BY <1>3, <2>1
  <2>3. QED
    BY <1>5, <2>1, <2>2 DEF Announced
<1>6. QED
  BY <1>4, <1>5 DEF ReadReturns

-----------------------------------------------------------------------------
(***************************************************************************)
(* What holds as long as the Reactor serves.                               *)
(***************************************************************************)
LEMMA LineNumbers ==
  ASSUME LineInv
  PROVE  /\ tracker \in Tracker
         /\ output \in Seq(CommandSend)
         /\ discarded \in Seq(CommandSend)
         /\ reactor \in {"idle", "replace", "submit", "discard"}
         /\ replacements \in Nat
         /\ reloads \in Nat
         /\ reloads <= MaxReplacements
         /\ MaxReplacements \in Nat
BY LinkAssumption DEF LineInv, GatewayInv, GatewayTypeOK

LEMMA ServingFacts ==
  ASSUME ReactorInv, pc # "left"
  PROVE  /\ Tables(loop) /\ BatchInv /\ PortsInv /\ ServingInv
         /\ fd \in SerialFd /\ fd \in Fd /\ fd # DownFd /\ fd # TimerFd
         /\ loop.channels[fd] # NoChannel
         /\ loop.channels[fd].fd = fd
         /\ loop.channels[fd] \notin loop.dead
<1>1. Tables(loop) /\ BatchInv /\ PortsInv /\ ServingInv
  BY DEF ReactorInv
<1>2. fd \in SerialFd /\ fd \in Fd /\ fd # DownFd /\ fd # TimerFd
  BY <1>1, Descriptors DEF PortsInv
<1>3. loop.channels[fd] # NoChannel
  BY <1>1 DEF ServingInv, Registered
<1>4. QED
  BY <1>1, <1>2, <1>3 DEF Tables

LEMMA MaskFacts ==
  ASSUME LineInv, ReactorInv, pc # "left"
  PROVE  /\ loop.mask[fd] \in {ReadMask, WriteMask}
         /\ "in" \in loop.mask[fd]
<1>1. MaskInv
  BY DEF ReactorInv, ServingInv
<1>2. loop.mask[fd] \in {ReadMask, WriteMask}
  BY <1>1, Masks, LineNumbers DEF MaskInv
<1>3. QED
  BY <1>2, Masks

\* A callback is one of a registered channel; a port's is the link's.
LEMMA CallbackFacts ==
  ASSUME ReactorInv, NEW phase \in {"read", "write"}, NEW fds,
         Callback(phase, fds)
  PROVE  /\ pc = phase /\ pc # "left"
         /\ batch # << >> /\ Head(batch) = batch[1]
         /\ 1 \in 1 .. Len(batch)
         /\ Head(batch).channel.fd \in fds
         /\ fds = SerialFd =>
              /\ Head(batch).channel = loop.channels[fd]
              /\ Head(batch).channel.fd = fd
<1>1. /\ pc = phase /\ pc # "left"
      /\ Head(batch).channel.fd \in fds
  BY DEF Callback
<1>2. batch # << >>
  BY <1>1 DEF ReactorInv, BatchInv
<1>3. /\ Head(batch) = batch[1]
      /\ 1 \in 1 .. Len(batch)
      /\ Head(batch).channel # NoChannel
      /\ loop.channels[Head(batch).channel.fd] = Head(batch).channel
  BY <1>1, <1>2, HeadFacts, ChannelFields DEF ReactorInv, BatchInv
<1>4. ASSUME fds = SerialFd PROVE Head(batch).channel.fd = fd
  BY <1>1, <1>3, <1>4 DEF ReactorInv, ServingInv, Registered
<1>5. QED
  BY <1>1, <1>2, <1>3, <1>4

\* updateSerialWriteInterest() with the port's poll().
LEMMA InterestFacts ==
  ASSUME NEW l, Tables(l), NEW f \in SerialFd, l.channels[f] # NoChannel,
         NEW input, NEW buffer, NEW queue, NEW w,
         w = updateSerialWriteInterest(l, PollAt(f, input, buffer), f, queue)
  PROVE  /\ Tables(w)
         /\ w.channels = l.channels
         /\ w.dying = l.dying
         /\ w.mask[f] = Interest(queue)
         /\ l.edge \subseteq w.edge
         /\ (buffer = "room" /\ queue # << >> /\ l.mask[f] # WriteMask)
              => f \in w.edge
<1> DEFINE poll == PollAt(f, input, buffer)
<1>1. f \in Fd
  BY Descriptors
<1>2. buffer = "room" => "out" \in poll[f]
  BY PollFacts
<1>3. queue # << >> => Interest(queue) = WriteMask /\ "out" \in Interest(queue)
  BY Masks
<1> HIDE DEF poll
<1>4. w = updateSerialWriteInterest(l, poll, f, queue)
  BY DEF poll
<1>5. /\ Tables(w)
      /\ w.channels = l.channels
      /\ w.dying = l.dying
      /\ w.mask[f] = Interest(queue)
      /\ l.edge \subseteq w.edge
      /\ (l.mask[f] # Interest(queue) /\ poll[f] \cap Interest(queue) # {})
           => f \in w.edge
  BY <1>1, <1>4, UpdateFacts
<1>6. QED
  BY <1>2, <1>3, <1>5

(***************************************************************************)
(* A step that neither registers nor removes a channel.                    *)
(***************************************************************************)
LEMMA ServingKept ==
  ASSUME ReactorInv, pc # "left", replacements \in Nat, reloads \in Nat,
         Tables(loop'), loop'.channels = loop.channels,
         loop'.dying = loop.dying, UNCHANGED fd,
         \/ UNCHANGED <<replacements, reloads>>
         \/ replacements' = replacements + 1 /\ reloads' = reloads + 1,
         BatchInv', PortsInv', CallbackInv', MaskInv', InputInv',
         OutputInv', DiscardInv'
  PROVE  ReactorInv'
<1>1. Registered(loop, fd) /\ RoomInv
  BY DEF ReactorInv, ServingInv
<1>2. Registered(loop, fd)'
  BY <1>1 DEF Registered
<1>3. RoomInv'
  BY <1>1, FS_CardinalityType DEF RoomInv
<1>4. QED
  BY <1>2, <1>3 DEF ReactorInv, ServingInv

\* What was queued is carried on: a port that was not watched for writing
\* is now, and gives an edge if it has room.
LEMMA OutputCarried ==
  ASSUME ServingInv, reactor \in {"idle", "replace"}, UNCHANGED <<fd, tx>>,
         loop.edge \subseteq loop'.edge,
         (tx = "room" /\ output' # << >> /\ loop.mask[fd] # WriteMask)
           => fd \in loop'.edge,
         Announced("out") => Announced("out")',
         OpenOnly(output, tracker) => OpenOnly(output', tracker')
  PROVE  OutputInv'
<1>1. loop.mask[fd] = Interest(output)
  BY DEF ServingInv, MaskInv
<1>2. SUFFICES ASSUME output' # << >>, tx' = "room"
      PROVE  \/ fd \in loop'.edge
             \/ Announced("out")'
             \/ OpenOnly(output', tracker')
  BY DEF OutputInv
<1>3. CASE output = << >>
  BY <1>1, <1>2, <1>3, Masks
<1>4. CASE output # << >>
  <2>1. \/ fd \in loop.edge \/ Announced("out") \/ OpenOnly(output, tracker)
    BY <1>2, <1>4 DEF ServingInv, OutputInv
  <2>2. QED
    BY <2>1
<1>5. QED
  BY <1>3, <1>4

\* The same, for input: none has come.
LEMMA InputCarried ==
  ASSUME InputInv, UNCHANGED fd, rx' => rx, loop.edge \subseteq loop'.edge,
         Announced("in") => Announced("in")'
  PROVE  InputInv'
BY DEF InputInv

LEMMA IdleUnless ==
  ASSUME LineInv, ReactorInv, pc # "left"
  PROVE  /\ ~Callback("read", {DownFd}) =>
              reactor \in {"idle", "discard"}
         /\ ~Callback("write", SerialFd) =>
              reactor \in {"idle", "replace", "submit"}
BY LineNumbers DEF ReactorInv, ServingInv, CallbackInv

-----------------------------------------------------------------------------
(***************************************************************************)
(* The serial port's callbacks.                                            *)
(***************************************************************************)
LEMMA DrainStep ==
  ASSUME LineInv, ReactorInv, DrainAndParse
  PROVE  ReactorInv'
<1>1. /\ Callback("read", SerialFd)
      /\ rx /\ rx' \in BOOLEAN
      /\ UNCHANGED <<batch, pc, running, fd, fresh, tx, expired>>
  BY DEF DrainAndParse
<1>2. pc = "read" /\ pc # "left" /\ Head(batch).channel.fd \in SerialFd
  BY <1>1, CallbackFacts
<1>3. /\ Tables(loop) /\ BatchInv /\ PortsInv /\ ServingInv
      /\ fd \in SerialFd /\ loop.channels[fd] # NoChannel
  BY <1>2, ServingFacts
<1>4. reactor = "idle"
  BY <1>1, <1>2, Descriptors, IdleUnless DEF Callback
<1>5. replacements \in Nat /\ reloads \in Nat /\ tracker \in Tracker
  BY LineNumbers
<1>6. /\ UNCHANGED <<reactor, replacements, reloads>>
      /\ OpenOnly(output, tracker) => OpenOnly(output', tracker')
      /\ Tables(loop')
      /\ loop'.channels = loop.channels
      /\ loop'.dying = loop.dying
      /\ loop'.mask[fd] = Interest(output')
      /\ loop.edge \subseteq loop'.edge
      /\ (tx = "room" /\ output' # << >> /\ loop.mask[fd] # WriteMask)
           => fd \in loop'.edge
  <2>1. CASE UNCHANGED <<linkVars, loop>>
    <3>1. UNCHANGED <<reactor, replacements, reloads, output, tracker, loop>>
      BY <2>1 DEF linkVars
    <3>2. loop.mask[fd] = Interest(output)
      BY <1>3, <1>4 DEF ServingInv, MaskInv
    <3>3. OpenOnly(output, tracker) => OpenOnly(output', tracker')
      BY <3>1
    <3>4. output' # << >> => loop.mask[fd] = WriteMask
      BY <3>1, <3>2, Masks
    <3>5. Tables(loop') /\ loop'.mask[fd] = Interest(output')
      BY <1>3, <3>1, <3>2
    <3>6. /\ UNCHANGED <<reactor, replacements, reloads>>
          /\ loop' = loop
      BY <3>1
    <3>7. QED
      BY <3>1, <3>3, <3>4, <3>5, <3>6
  <2>2. CASE (\E f \in uplink : DispatchFrame(f)) /\ UpdateInterest(rx', tx)
    <3>1. PICK f \in uplink : DispatchFrame(f)
      BY <2>2
    <3>2. f \in UpFrame
      BY LineTypes
    <3>3. /\ tracker' = onFrame(tracker, f).t
          /\ output' = output \o onFrame(tracker, f).send
          /\ UNCHANGED <<reactor, replacements, reloads>>
      BY <3>1 DEF DispatchFrame, applyTrackerActions
    <3>4. ASSUME OpenOnly(output, tracker)
          PROVE  OpenOnly(output', tracker')
      <4>1. /\ onFrame(tracker, f).send = << >>
            /\ OpenOnly(output, onFrame(tracker, f).t)
        BY <1>5, <3>2, <3>4, OpenOnlyFrame
      <4>2. output' = output
        BY <3>3, <4>1, LineNumbers
      <4>3. QED
        BY <3>3, <4>1, <4>2
    <3>5. loop' = updateSerialWriteInterest(loop, PollAt(fd, rx', tx), fd, output')
      BY <2>2 DEF UpdateInterest
    <3>6. /\ Tables(loop')
          /\ loop'.channels = loop.channels
          /\ loop'.dying = loop.dying
          /\ loop'.mask[fd] = Interest(output')
          /\ loop.edge \subseteq loop'.edge
          /\ (tx = "room" /\ output' # << >> /\ loop.mask[fd] # WriteMask)
               => fd \in loop'.edge
      BY <1>3, <3>5, InterestFacts
    <3>7. QED
      BY <3>3, <3>4, <3>6
  <2>3. QED
    BY <2>1, <2>2 DEF DrainAndParse
<1>7. \A kind : Announced(kind) => Announced(kind)'
  BY <1>1, <1>6, AnnouncedSame
<1>8. BatchInv'
  <2>1. Living(loop') = Living(loop)
    BY <1>6 DEF Living
  <2>2. QED
    BY <1>1, <1>3, <1>6, <2>1, BatchSame
<1>9. PortsInv'
  BY <1>1, <1>3, <1>6 DEF PortsInv
<1>10. CallbackInv' /\ MaskInv' /\ DiscardInv'
  BY <1>1, <1>4, <1>6 DEF CallbackInv, MaskInv, DiscardInv
<1>11. InputInv'
  BY <1>1, <1>3, <1>6, <1>7, InputCarried DEF ServingInv
<1>12. OutputInv'
  BY <1>1, <1>3, <1>4, <1>6, <1>7, OutputCarried
<1>13. QED
  BY <1>1, <1>2, <1>5, <1>6, <1>8, <1>9, <1>10, <1>11, <1>12, ServingKept

LEMMA ReadReturnsStep ==
  ASSUME LineInv, ReactorInv, SerialReadReturns
  PROVE  ReactorInv'
<1>1. /\ Callback("read", SerialFd)
      /\ ~rx
      /\ ReadReturns
      /\ UNCHANGED <<linkVars, loop, running, fd, fresh, rx, tx, expired>>
  BY DEF SerialReadReturns, Drained, portVars
<1>2. /\ pc = "read" /\ pc # "left"
      /\ batch # << >> /\ Head(batch) = batch[1]
      /\ Head(batch).channel = loop.channels[fd]
      /\ Head(batch).channel.fd \in SerialFd
  BY <1>1, CallbackFacts
<1>3. /\ Tables(loop) /\ BatchInv /\ PortsInv /\ ServingInv
      /\ loop.channels[fd] \notin loop.dead
  BY <1>2, ServingFacts
<1>4. reactor = "idle"
  BY <1>1, <1>2, Descriptors, IdleUnless DEF Callback
<1>5. replacements \in Nat /\ reloads \in Nat
  BY LineNumbers
<1>6. UNCHANGED <<reactor, replacements, reloads, output, tracker>>
  BY <1>1 DEF linkVars
<1>7. BatchInv' /\ pc' \in {"write", "event"}
  BY <1>1, <1>3, CallbackReturns
<1>8. Announced("out") => Announced("out")'
  <2>1. CASE "out" \in Head(batch).mask
    <3>1. UNCHANGED batch
      BY <1>1, <1>2, <1>3, <2>1 DEF ReadReturns, Skipped
    <3>2. QED
      BY <1>1, <3>1 DEF Announced
  <2>2. CASE "out" \notin Head(batch).mask
    <3>1. batch' = Tail(batch) /\ pc' = "event"
      BY <1>1, <2>2 DEF ReadReturns
    <3>2. QED
      BY <1>1, <1>2, <1>3, <2>2, <3>1, AnnouncedShift
  <2>3. QED
    BY <2>1, <2>2
<1>9. OutputInv'
  BY <1>1, <1>3, <1>6, <1>8 DEF ServingInv, OutputInv, OpenOnly
<1>10. InputInv'
  BY <1>1 DEF InputInv
<1>11. PortsInv'
  BY <1>1, <1>3, <1>6, <1>7 DEF PortsInv
<1>12. CallbackInv' /\ MaskInv' /\ DiscardInv'
  BY <1>1, <1>3, <1>4, <1>6 DEF ServingInv, CallbackInv, MaskInv, DiscardInv
<1>13. QED
  BY <1>1, <1>2, <1>3, <1>5, <1>6, <1>7, <1>9, <1>10, <1>11, <1>12, ServingKept

\* What a callback may do to the tables: nothing, or bring the mask up to
\* date.
LEMMA FlushLoop ==
  ASSUME LineInv, ReactorInv, FlushTurn
  PROVE  /\ Tables(loop')
         /\ loop'.channels = loop.channels
         /\ loop'.dying = loop.dying
         /\ loop.edge \subseteq loop'.edge
         /\ \/ loop' = loop
            \/ loop'.mask[fd] = Interest(output')
<1>1. Callback("write", SerialFd)
  BY DEF FlushTurn
<1>2. pc # "left"
  BY <1>1, CallbackFacts
<1>3. Tables(loop) /\ fd \in SerialFd /\ loop.channels[fd] # NoChannel
  BY <1>2, ServingFacts
<1>4. CASE UNCHANGED loop
  BY <1>3, <1>4
<1>5. CASE \E buffer : UpdateInterest(rx, buffer)
  <2>1. PICK buffer : UpdateInterest(rx, buffer)
    BY <1>5
  <2>2. loop' = updateSerialWriteInterest(loop, PollAt(fd, rx, buffer), fd, output')
    BY <2>1 DEF UpdateInterest
  <2>3. QED
    BY <1>3, <2>2, InterestFacts
<1>6. QED
  BY <1>4, <1>5 DEF FlushTurn

LEMMA FlushStep ==
  ASSUME LineInv, ReactorInv, FlushTurn
  PROVE  ReactorInv'
<1>1. /\ Callback("write", SerialFd)
      /\ UNCHANGED <<batch, pc, running, fd, fresh, rx, expired>>
  BY DEF FlushTurn
<1>2. /\ pc = "write" /\ pc # "left" /\ 1 \in 1 .. Len(batch)
      /\ Head(batch) = batch[1]
      /\ Head(batch).channel = loop.channels[fd]
      /\ Head(batch).channel.fd \in SerialFd
  BY <1>1, CallbackFacts
<1>3. Tables(loop) /\ BatchInv /\ PortsInv /\ ServingInv
  BY <1>2, ServingFacts
<1>4. /\ tracker \in Tracker /\ output \in Seq(CommandSend)
      /\ discarded \in Seq(CommandSend)
      /\ replacements \in Nat /\ reloads \in Nat
  BY LineNumbers
<1>5. /\ UNCHANGED <<replacements, reloads>>
      /\ tx' \in {"room", "full", "gone"}
  <2>1. tx \in {"room", "full", "gone"}
    BY <1>3 DEF PortsInv
  <2>2. QED
    BY <2>1 DEF FlushTurn, FlushError, FlushCancel, DiscardNext, FlushPart, FlushFrame
<1>6. /\ Tables(loop')
      /\ loop'.channels = loop.channels
      /\ loop'.dying = loop.dying
      /\ loop.edge \subseteq loop'.edge
      /\ loop' = loop \/ loop'.mask[fd] = Interest(output')
  BY FlushLoop
<1>7. /\ reactor' = "idle" \/ reactor' = "discard"
      /\ reactor' = "idle" => loop'.mask[fd] = Interest(output')
  <2>1. CASE FlushError
    BY <2>1 DEF FlushError
  <2>2. CASE (FlushCancel \/ DiscardNext) /\ UpdateInterest(rx, tx)
    <3>1. reactor' = "idle" \/ reactor' = "discard"
      BY <2>2 DEF FlushCancel, DiscardNext
    <3>2. loop' = updateSerialWriteInterest(loop, PollAt(fd, rx, tx), fd, output')
      BY <2>2 DEF UpdateInterest
    <3>3. QED
      BY <1>2, <3>1, <3>2, ServingFacts, InterestFacts
  <2>3. CASE FlushPart /\ UNCHANGED loop
    <3>1. reactor = "idle" /\ reactor' = "idle" /\ output' = output
      BY <2>3 DEF FlushPart
    <3>2. loop.mask[fd] = Interest(output)
      BY <1>3, <3>1 DEF ServingInv, MaskInv
    <3>3. QED
      BY <1>1, <2>3, <3>1, <3>2
  <2>4. CASE FlushFrame /\ UpdateInterest(rx, tx')
    <3>1. reactor' = "idle"
      BY <2>4 DEF FlushFrame
    <3>2. loop' = updateSerialWriteInterest(loop, PollAt(fd, rx, tx'), fd, output')
      BY <2>4 DEF UpdateInterest
    <3>3. QED
      BY <1>2, <3>1, <3>2, ServingFacts, InterestFacts
  <2>5. QED
    BY <2>1, <2>2, <2>3, <2>4 DEF FlushTurn
<1>8. reactor' = "discard" =>
        output' = << >> \/ OpenOnly(output', tracker')
  <2>1. CASE FlushError
    BY <2>1 DEF FlushError
  <2>2. CASE DiscardNext
    <3>1. /\ reactor = "discard" /\ discarded # << >>
          /\ tracker' = onWritten(tracker, Head(discarded), FALSE).t
          /\ output' = output \o onWritten(tracker, Head(discarded), FALSE).send
      BY <2>2 DEF DiscardNext, applyTrackerActions
    <3>2. Head(discarded) \in CommandSend
      BY <1>4, <3>1
    <3>3. TrackerInv(tracker)
      BY DEF LineInv, GatewayInv
    <3>4. onWritten(tracker, Head(discarded), FALSE).send \in Seq(CommandSend)
      BY <3>2, <3>3, OnWrittenStep DEF Progress, SendsHeld
    <3>5. output = << >> \/ OpenOnly(output, tracker)
      BY <1>3, <3>1 DEF ServingInv, DiscardInv
    <3>6. QED
      BY <1>4, <3>1, <3>2, <3>4, <3>5, DiscardSends
  <2>3. CASE FlushCancel \/ FlushPart \/ FlushFrame
    BY <2>3 DEF FlushCancel, FlushPart, FlushFrame
  <2>4. QED
    BY <2>1, <2>2, <2>3 DEF FlushTurn
<1>9. reactor' = "discard" => loop'.mask[fd] \in {ReadMask, WriteMask}
  <2>1. loop.mask[fd] \in {ReadMask, WriteMask}
    BY <1>2, MaskFacts
  <2>2. Interest(output') \in {ReadMask, WriteMask}
    BY Masks
  <2>3. QED
    BY <1>6, <2>1, <2>2
<1>10. BatchInv'
  <2>1. Living(loop') = Living(loop)
    BY <1>6 DEF Living
  <2>2. QED
    BY <1>1, <1>3, <1>6, <2>1, BatchSame
<1>11. PortsInv'
  BY <1>1, <1>3, <1>5 DEF PortsInv
<1>12. CallbackInv' /\ MaskInv' /\ DiscardInv'
  <2>1. Callback("write", SerialFd)'
    BY <1>1 DEF Callback
  <2>2. MaskInv'
    BY <1>1, <1>7, <1>9 DEF MaskInv
  <2>3. QED
    BY <1>7, <1>8, <2>1, <2>2 DEF CallbackInv, DiscardInv
<1>13. \A kind : Announced(kind) => Announced(kind)'
  BY <1>1, <1>6, AnnouncedSame
<1>14. InputInv'
  BY <1>1, <1>3, <1>6, <1>13, InputCarried DEF ServingInv
<1>15. OutputInv'
  <2>1. "out" \in Head(batch).mask
    BY <1>2, <1>3 DEF BatchInv
  <2>2. Announced("out")
    BY <1>2, <2>1 DEF Announced
  <2>3. QED
    BY <1>13, <2>2 DEF OutputInv
<1>16. QED
  BY <1>1, <1>2, <1>4, <1>5, <1>6, <1>10, <1>11, <1>12, <1>14, <1>15, ServingKept

LEMMA WriteReturnsStep ==
  ASSUME LineInv, ReactorInv, SerialWriteReturns
  PROVE  ReactorInv'
<1>1. /\ Callback("write", SerialFd)
      /\ WriteReturns
      /\ UpdateInterest(rx, tx)
      /\ UNCHANGED <<running, fd, fresh, rx, tx, expired>>
  BY DEF SerialWriteReturns, portVars
<1>2. /\ pc = "write" /\ pc # "left" /\ batch # << >>
  BY <1>1, CallbackFacts
<1>3. /\ Tables(loop) /\ BatchInv /\ PortsInv /\ ServingInv
      /\ fd \in SerialFd /\ loop.channels[fd] # NoChannel
  BY <1>2, ServingFacts
<1>4. replacements \in Nat /\ reloads \in Nat
  BY LineNumbers
<1>5. /\ UNCHANGED <<replacements, reloads, output, tracker>>
      /\ reactor' = "idle"
      /\ \/ reactor = "discard"
         \/ output # << >> => tx # "room"
  BY DEF SerialWriteReturns, DiscardEnd, linkVars
<1>6. loop' = updateSerialWriteInterest(loop, PollAt(fd, rx, tx), fd, output')
  BY <1>1 DEF UpdateInterest
<1>7. /\ Tables(loop')
      /\ loop'.channels = loop.channels
      /\ loop'.dying = loop.dying
      /\ loop'.mask[fd] = Interest(output')
      /\ loop.edge \subseteq loop'.edge
  BY <1>3, <1>6, InterestFacts
<1>8. BatchInv' /\ pc' \in {"write", "event"}
  BY <1>1, <1>3, <1>7, CallbackReturns
<1>9. Announced("in") => Announced("in")'
  <2>1. batch' = Tail(batch) /\ pc' = "event"
    BY <1>1 DEF WriteReturns
  <2>2. QED
    BY <1>1, <1>2, <1>3, <1>7, <2>1, AnnouncedShift
<1>10. InputInv'
  BY <1>1, <1>3, <1>7, <1>9, InputCarried DEF ServingInv
<1>11. OutputInv'
  <2>1. reactor = "discard" => output = << >> \/ OpenOnly(output, tracker)
    BY <1>3 DEF ServingInv, DiscardInv
  <2>2. OpenOnly(output, tracker) => OpenOnly(output', tracker')
    BY <1>5
  <2>3. QED
    BY <1>1, <1>5, <2>1, <2>2 DEF OutputInv
<1>12. PortsInv'
  BY <1>1, <1>3, <1>5, <1>8 DEF PortsInv
<1>13. CallbackInv' /\ MaskInv' /\ DiscardInv'
  BY <1>1, <1>5, <1>7 DEF CallbackInv, MaskInv, DiscardInv
<1>14. QED
  BY <1>1, <1>2, <1>4, <1>5, <1>7, <1>8, <1>10, <1>11, <1>12, <1>13, ServingKept

-----------------------------------------------------------------------------
(***************************************************************************)
(* The callback of the timer, and that of the eventfd as far as the port   *)
(* stays the same.                                                         *)
(***************************************************************************)
LEMMA CommandTimerStep ==
  ASSUME LineInv, ReactorInv, CommandTimerEvent
  PROVE  ReactorInv'
<1>1. /\ Callback("read", {TimerFd})
      /\ OnCommandTimer /\ UpdateInterest(rx, tx) /\ ReadReturns
      /\ UNCHANGED <<running, fd, fresh, rx, tx>>
  BY DEF CommandTimerEvent, portVars
<1>2. /\ pc = "read" /\ pc # "left"
      /\ Head(batch).channel.fd = TimerFd
  BY <1>1, CallbackFacts
<1>3. /\ Tables(loop) /\ BatchInv /\ PortsInv /\ ServingInv
      /\ fd \in SerialFd /\ fd \in Fd /\ fd # TimerFd
      /\ loop.channels[fd] # NoChannel
  BY <1>2, ServingFacts
<1>4. /\ tracker \in Tracker /\ output \in Seq(CommandSend)
      /\ replacements \in Nat /\ reloads \in Nat
  BY LineNumbers
<1>5. PICK r \in tick(tracker) :
        tracker' = r.t /\ output' = output \o r.send
  BY <1>1 DEF OnCommandTimer, applyTrackerActions
<1>6. /\ reactor = "idle" /\ reactor' = "idle"
      /\ UNCHANGED <<replacements, reloads>>
  BY <1>1 DEF OnCommandTimer
<1>7. ASSUME OpenOnly(output, tracker)
      PROVE  OpenOnly(output', tracker')
  <2>1. r.send = << >> /\ OpenOnly(output, r.t)
    BY <1>4, <1>7, OpenOnlyTick
  <2>2. output' = output
    BY <1>4, <1>5, <2>1
  <2>3. QED
    BY <1>5, <2>1, <2>2
<1>8. loop' = updateSerialWriteInterest(loop, PollAt(fd, rx, tx), fd, output')
  BY <1>1 DEF UpdateInterest
<1>9. /\ Tables(loop')
      /\ loop'.channels = loop.channels
      /\ loop'.dying = loop.dying
      /\ loop'.mask[fd] = Interest(output')
      /\ loop.edge \subseteq loop'.edge
      /\ (tx = "room" /\ output' # << >> /\ loop.mask[fd] # WriteMask)
           => fd \in loop'.edge
  BY <1>3, <1>8, InterestFacts
<1>10. BatchInv' /\ pc' \in {"write", "event"}
  BY <1>1, <1>3, <1>9, CallbackReturns
<1>11. \A kind : Announced(kind) => Announced(kind)'
  BY <1>1, <1>2, <1>3, <1>9, AnnouncedOther
<1>12. InputInv'
  BY <1>1, <1>3, <1>9, <1>11, InputCarried DEF ServingInv
<1>13. OutputInv'
  BY <1>1, <1>3, <1>6, <1>7, <1>9, <1>11, OutputCarried
<1>14. PortsInv'
  BY <1>1, <1>3, <1>6, <1>10 DEF PortsInv
<1>15. CallbackInv' /\ MaskInv' /\ DiscardInv'
  BY <1>1, <1>6, <1>9 DEF CallbackInv, MaskInv, DiscardInv
<1>16. QED
  BY <1>1, <1>2, <1>4, <1>6, <1>9, <1>10, <1>12, <1>13, <1>14, <1>15, ServingKept

LEMMA DownlinkEventStep ==
  ASSUME LineInv, ReactorInv, DownlinkEvent
  PROVE  ReactorInv'
<1>1. /\ Callback("read", {DownFd})
      /\ OnDownlinkEvent
      /\ UNCHANGED <<loop, batch, pc, running, fd, fresh, rx, tx, expired>>
  BY DEF DownlinkEvent, loopVars, portVars
<1>2. pc = "read" /\ pc # "left"
  BY <1>1, CallbackFacts
<1>3. Tables(loop) /\ BatchInv /\ PortsInv /\ ServingInv
  BY <1>2, ServingFacts
<1>4. replacements \in Nat /\ reloads \in Nat
  BY LineNumbers
<1>5. /\ reactor = "idle" /\ reactor' = "replace"
      /\ UNCHANGED <<output, tracker, replacements, reloads>>
  BY <1>1 DEF OnDownlinkEvent
<1>6. \A kind : Announced(kind) => Announced(kind)'
  BY <1>1, AnnouncedSame
<1>7. BatchInv'
  BY <1>1, <1>3, BatchSame
<1>8. InputInv'
  BY <1>1, <1>3, <1>6, InputCarried DEF ServingInv
<1>9. OutputInv'
  <2>1. OpenOnly(output, tracker) => OpenOnly(output', tracker')
    BY <1>5
  <2>2. QED
    BY <1>1, <1>3, <1>5, <1>6, <2>1 DEF ServingInv, OutputInv
<1>10. PortsInv'
  BY <1>1, <1>3, <1>5 DEF PortsInv
<1>11. Callback("read", {DownFd})'
  BY <1>1 DEF Callback
<1>12. MaskInv'
  BY <1>1, <1>3, <1>5 DEF ServingInv, MaskInv
<1>13. CallbackInv' /\ DiscardInv'
  BY <1>5, <1>11 DEF CallbackInv, DiscardInv
<1>14. Tables(loop') /\ loop' = loop
  BY <1>1, <1>3
<1>15. QED
  BY <1>1, <1>2, <1>4, <1>5, <1>7, <1>8, <1>9, <1>10, <1>12, <1>13, <1>14, ServingKept

\* The loop, the ports and the batch are left alone, and so are the queue
\* and the tracker.
LEMMA PassingCallback ==
  ASSUME LineInv, ReactorInv, pc # "left",
         UNCHANGED <<loop, fd, fresh, rx, tx>>,
         UNCHANGED <<output, tracker, replacements, reloads>>,
         BatchInv', pc' \in {"wait", "event", "read", "write"},
         running' \in BOOLEAN,
         \A kind : Announced(kind) => Announced(kind)',
         CallbackInv', reactor' \notin {"submit", "discard"},
         reactor \notin {"submit", "discard"}
  PROVE  ReactorInv'
<1>1. Tables(loop) /\ PortsInv /\ ServingInv
  BY ServingFacts
<1>2. replacements \in Nat /\ reloads \in Nat
  BY LineNumbers
<1>3. Tables(loop') /\ loop' = loop
  BY <1>1
<1>4. InputInv'
  BY <1>1, InputCarried DEF ServingInv
<1>5. OutputInv'
  <2>1. OpenOnly(output, tracker) => OpenOnly(output', tracker')
    OBVIOUS
  <2>2. QED
    BY <1>1, <2>1 DEF ServingInv, OutputInv
<1>6. PortsInv'
  BY <1>1 DEF PortsInv
<1>7. MaskInv' /\ DiscardInv'
  BY <1>1 DEF ServingInv, MaskInv, DiscardInv
<1>8. QED
  BY <1>2, <1>3, <1>4, <1>5, <1>6, <1>7, ServingKept

LEMMA DownlinkStopsStep ==
  ASSUME LineInv, ReactorInv, DownlinkStops
  PROVE  ReactorInv'
<1>1. /\ Callback("read", {DownFd})
      /\ reactor = "idle" /\ reactor' = "idle"
      /\ running' = FALSE /\ ReadReturns
      /\ UNCHANGED <<loop, fd, fresh, rx, tx>>
      /\ UNCHANGED <<output, tracker, replacements, reloads>>
  BY DEF DownlinkStops, quit, portVars
<1>2. pc # "left" /\ Head(batch).channel.fd = DownFd
  BY <1>1, CallbackFacts
<1>3. /\ Tables(loop) /\ BatchInv
      /\ fd \in Fd /\ fd # DownFd
      /\ loop.channels[fd] # NoChannel
  BY <1>2, ServingFacts
<1>4. BatchInv' /\ pc' \in {"write", "event"}
  BY <1>1, <1>3, CallbackReturns
<1>5. \A kind : Announced(kind) => Announced(kind)'
  BY <1>1, <1>2, <1>3, AnnouncedOther
<1>6. CallbackInv'
  BY <1>1 DEF CallbackInv
<1>7. QED
  BY <1>1, <1>2, <1>4, <1>5, <1>6, PassingCallback

LEMMA BeginSubmittingStep ==
  ASSUME LineInv, ReactorInv, DownlinkSubmits,
         BeginSubmitting, UpdateInterest(rx, tx), UNCHANGED <<batch, pc>>
  PROVE  ReactorInv'
<1>1. /\ Callback("read", {DownFd})
      /\ UNCHANGED <<running, fd, fresh, rx, tx>>
  BY DEF DownlinkSubmits, portVars
<1>2. pc = "read" /\ pc # "left"
  BY <1>1, CallbackFacts
<1>3. /\ Tables(loop) /\ BatchInv /\ PortsInv /\ ServingInv
      /\ fd \in SerialFd /\ loop.channels[fd] # NoChannel
  BY <1>2, ServingFacts
<1>4. replacements \in Nat /\ reloads \in Nat
  BY LineNumbers
<1>5. /\ reactor = "replace" /\ reactor' = "submit"
      /\ UNCHANGED <<replacements, reloads>>
  BY DEF BeginSubmitting
<1>6. ASSUME OpenOnly(output, tracker)
      PROVE  OpenOnly(output', tracker')
  <2>1. tracker.state # "Closed"
    BY <1>6 DEF OpenOnly
  <2>2. UNCHANGED <<tracker, output>>
    BY <2>1 DEF BeginSubmitting
  <2>3. QED
    BY <1>6, <2>2
<1>7. loop' = updateSerialWriteInterest(loop, PollAt(fd, rx, tx), fd, output')
  BY DEF UpdateInterest
<1>8. /\ Tables(loop')
      /\ loop'.channels = loop.channels
      /\ loop'.dying = loop.dying
      /\ loop'.mask[fd] = Interest(output')
      /\ loop.edge \subseteq loop'.edge
      /\ (tx = "room" /\ output' # << >> /\ loop.mask[fd] # WriteMask)
           => fd \in loop'.edge
  BY <1>3, <1>7, InterestFacts
<1>9. BatchInv'
  <2>1. Living(loop') = Living(loop)
    BY <1>8 DEF Living
  <2>2. QED
    BY <1>1, <1>3, <1>8, <2>1, BatchSame
<1>10. \A kind : Announced(kind) => Announced(kind)'
  BY <1>1, <1>8, AnnouncedSame
<1>11. InputInv'
  BY <1>1, <1>3, <1>8, <1>10, InputCarried DEF ServingInv
<1>12. OutputInv'
  BY <1>1, <1>3, <1>5, <1>6, <1>8, <1>10, OutputCarried
<1>13. PortsInv'
  BY <1>1, <1>3, <1>5 DEF PortsInv
<1>14. Callback("read", {DownFd})'
  BY <1>1 DEF Callback
<1>15. MaskInv'
  BY <1>1, <1>5, <1>8, Masks DEF MaskInv
<1>16. CallbackInv' /\ DiscardInv'
  BY <1>5, <1>14 DEF CallbackInv, DiscardInv
<1>17. QED
  BY <1>1, <1>2, <1>4, <1>5, <1>8, <1>9, <1>11, <1>12, <1>13, <1>15, <1>16,
     ServingKept

\* A pass of the submission loop: the mask is left to its end.
LEMMA SubmissionStep ==
  ASSUME LineInv, ReactorInv, DownlinkSubmits, SubmitNext \/ RejectNext,
         UNCHANGED <<loop, batch, pc>>
  PROVE  ReactorInv'
<1>1. /\ Callback("read", {DownFd})
      /\ UNCHANGED <<running, fd, fresh, rx, tx>>
  BY DEF DownlinkSubmits, portVars
<1>2. pc = "read" /\ pc # "left"
  BY <1>1, CallbackFacts
<1>3. Tables(loop) /\ BatchInv /\ PortsInv /\ ServingInv
  BY <1>2, ServingFacts
<1>4. /\ output \in Seq(CommandSend)
      /\ replacements \in Nat /\ reloads \in Nat
  BY LineNumbers
<1>5. /\ reactor = "submit" /\ reactor' = "submit"
      /\ UNCHANGED <<replacements, reloads>>
  BY DEF SubmitNext, RejectNext
<1>6. /\ output # << >> => output' # << >>
      /\ loop.mask[fd] # ReadMask =>
           (OpenOnly(output, tracker) => OpenOnly(output', tracker'))
  <2>1. CASE SubmitNext
    <3>1. tracker.state = "Ready"
      BY <2>1 DEF SubmitNext, canSubmit
    <3>2. ~OpenOnly(output, tracker)
      BY <3>1 DEF OpenOnly
    <3>3. PICK s : output' = output \o <<s>>
      BY <2>1 DEF SubmitNext, submit
    <3>4. output' # << >>
      BY <1>4, <3>3
    <3>5. QED
      BY <3>2, <3>4
  <2>2. CASE RejectNext
    BY <2>2 DEF RejectNext
  <2>3. QED
    BY <2>1, <2>2
<1>7. BatchInv'
  BY <1>3, BatchSame
<1>8. \A kind : Announced(kind) => Announced(kind)'
  BY <1>1, AnnouncedSame
<1>9. InputInv'
  BY <1>1, <1>3, <1>8, InputCarried DEF ServingInv
<1>10. \/ loop.mask[fd] = ReadMask
       \/ loop.mask[fd] = WriteMask /\ output # << >>
  BY <1>3, <1>5 DEF ServingInv, MaskInv
<1>11. MaskInv'
  BY <1>1, <1>5, <1>6, <1>10 DEF MaskInv
<1>12. OutputInv'
  <2>1. CASE loop.mask[fd] = ReadMask
    BY <1>1, <1>5, <2>1 DEF OutputInv
  <2>2. CASE loop.mask[fd] # ReadMask /\ output # << >>
    BY <1>1, <1>3, <1>6, <1>8, <2>2 DEF ServingInv, OutputInv
  <2>3. QED
    BY <1>10, <2>1, <2>2, Masks
<1>13. PortsInv'
  BY <1>1, <1>3, <1>5 DEF PortsInv
<1>14. Callback("read", {DownFd})'
  BY <1>1 DEF Callback
<1>15. CallbackInv' /\ DiscardInv'
  BY <1>5, <1>14 DEF CallbackInv, DiscardInv
<1>16. Tables(loop') /\ loop' = loop
  BY <1>3
<1>17. QED
  BY <1>1, <1>2, <1>4, <1>5, <1>7, <1>9, <1>11, <1>12, <1>13, <1>15, <1>16,
     ServingKept

LEMMA EndSubmittingStep ==
  ASSUME LineInv, ReactorInv, DownlinkSubmits,
         EndSubmitting, UpdateInterest(rx, tx), ReadReturns
  PROVE  ReactorInv'
<1>1. /\ Callback("read", {DownFd})
      /\ UNCHANGED <<running, fd, fresh, rx, tx>>
  BY DEF DownlinkSubmits, portVars
<1>2. pc # "left" /\ Head(batch).channel.fd = DownFd
  BY <1>1, CallbackFacts
<1>3. /\ Tables(loop) /\ BatchInv /\ PortsInv /\ ServingInv
      /\ fd \in SerialFd /\ fd \in Fd /\ fd # DownFd
      /\ loop.channels[fd] # NoChannel
  BY <1>2, ServingFacts
<1>4. replacements \in Nat /\ reloads \in Nat
  BY LineNumbers
<1>5. /\ reactor = "submit" /\ reactor' = "idle"
      /\ UNCHANGED <<replacements, reloads, output, tracker>>
  BY DEF EndSubmitting
<1>6. loop' = updateSerialWriteInterest(loop, PollAt(fd, rx, tx), fd, output')
  BY DEF UpdateInterest
<1>7. /\ Tables(loop')
      /\ loop'.channels = loop.channels
      /\ loop'.dying = loop.dying
      /\ loop'.mask[fd] = Interest(output')
      /\ loop.edge \subseteq loop'.edge
      /\ (tx = "room" /\ output' # << >> /\ loop.mask[fd] # WriteMask)
           => fd \in loop'.edge
  BY <1>3, <1>6, InterestFacts
<1>8. BatchInv' /\ pc' \in {"write", "event"}
  BY <1>3, <1>7, CallbackReturns
<1>9. \A kind : Announced(kind) => Announced(kind)'
  BY <1>1, <1>2, <1>3, <1>7, AnnouncedOther
<1>10. InputInv'
  BY <1>1, <1>3, <1>7, <1>9, InputCarried DEF ServingInv
<1>11. OutputInv'
  <2>1. OpenOnly(output, tracker) => OpenOnly(output', tracker')
    BY <1>5
  <2>2. SUFFICES ASSUME output' # << >>, tx' = "room"
        PROVE  \/ fd \in loop'.edge
               \/ Announced("out")'
               \/ OpenOnly(output', tracker')
    BY <1>1 DEF OutputInv
  <2>3. \/ fd \in loop.edge \/ Announced("out") \/ OpenOnly(output, tracker)
        \/ loop.mask[fd] = ReadMask
    BY <1>1, <1>3, <1>5, <2>2 DEF ServingInv, OutputInv
  <2>4. QED
    BY <1>1, <1>7, <1>9, <2>1, <2>2, <2>3, Masks
<1>12. PortsInv'
  BY <1>1, <1>3, <1>5, <1>8 DEF PortsInv
<1>13. CallbackInv' /\ MaskInv' /\ DiscardInv'
  BY <1>1, <1>5, <1>7 DEF CallbackInv, MaskInv, DiscardInv
<1>14. QED
  BY <1>1, <1>2, <1>4, <1>5, <1>7, <1>8, <1>10, <1>11, <1>12, <1>13, ServingKept

-----------------------------------------------------------------------------
(***************************************************************************)
(* A candidate port: each leaves at most one channel behind.               *)
(***************************************************************************)
LEMMA CandidateFacts ==
  ASSUME LineInv, ReactorInv, Callback("read", {DownFd}), replacements > 0
  PROVE  /\ Cardinality(loop.dying) \in Nat /\ IsFiniteSet(loop.dying)
         /\ Cardinality(loop.dying) + replacements <= reloads
         /\ Cardinality(loop.dying) + 1 < MaxChannels
         /\ fresh # << >> /\ Head(fresh) \in SerialFd
         /\ Tail(fresh) \in Seq(SerialFd)
         /\ Len(Tail(fresh)) = replacements - 1
<1>1. pc # "left"
  BY CallbackFacts
<1>2. /\ IsFiniteSet(loop.dying)
      /\ Cardinality(loop.dying) + replacements <= reloads
      /\ fresh \in Seq(SerialFd) /\ Len(fresh) = replacements
  BY <1>1 DEF ReactorInv, ServingInv, RoomInv, PortsInv
<1>3. Cardinality(loop.dying) \in Nat
  BY <1>2, FS_CardinalityType
<1>4. Cardinality(loop.dying) + 1 < MaxChannels
  BY <1>2, <1>3, LineNumbers, ChannelsAssumption, LoopConstants
<1>5. fresh # << >>
  BY <1>2
<1>6. QED
  BY <1>2, <1>3, <1>4, <1>5, TailFacts

LEMMA ReplacedKept ==
  ASSUME LineInv, ReactorInv, Callback("read", {DownFd}), replacements > 0,
         replacements' = replacements - 1, UNCHANGED reloads,
         UNCHANGED <<batch, pc, running>>,
         fresh' = Tail(fresh), fd' \in SerialFd, rx' \in BOOLEAN,
         tx' \in {"room", "full", "gone"},
         reactor' = "replace",
         Tables(loop'), Registered(loop', fd'),
         loop'.channels[DownFd] = loop.channels[DownFd],
         Living(loop) \ {NoChannel} \subseteq Living(loop'),
         IsFiniteSet(loop'.dying),
         Cardinality(loop'.dying) <= Cardinality(loop.dying) + 1,
         loop'.mask[fd'] = Interest(output'),
         rx' => fd' \in loop'.edge,
         (tx' = "room" /\ output' # << >>) => fd' \in loop'.edge
  PROVE  ReactorInv'
<1>1. /\ pc = "read" /\ pc # "left" /\ batch # << >>
      /\ Head(batch).channel.fd = DownFd
  BY CallbackFacts
<1>2. BatchInv /\ PortsInv
  BY <1>1, ServingFacts
<1>3. BatchInv'
  BY <1>1, <1>2, BatchSame
<1>4. PortsInv'
  BY <1>2, CandidateFacts DEF PortsInv
<1>5. Registered(loop, fd)'
  BY DEF Registered
<1>6. RoomInv'
  <2>1. Cardinality(loop'.dying) \in Nat
    BY FS_CardinalityType
  <2>2. QED
    BY <2>1, CandidateFacts, LineNumbers, SMTT(20) DEF RoomInv
<1>7. Callback("read", {DownFd})'
  BY DEF Callback
<1>8. CallbackInv' /\ MaskInv' /\ InputInv' /\ OutputInv' /\ DiscardInv'
  BY <1>7 DEF CallbackInv, MaskInv, InputInv, OutputInv, DiscardInv
<1>9. QED
  BY <1>3, <1>4, <1>5, <1>6, <1>8 DEF ReactorInv, ServingInv

LEMMA CandidateFailsStep ==
  ASSUME LineInv, ReactorInv, CandidateFails
  PROVE  ReactorInv'
<1> DEFINE poll == PollAt(fd, rx, tx)
<1>1. /\ Callback("read", {DownFd})
      /\ loop' = registerSerialEvent(removeChannel(loop, fd), poll, fd, output)
      /\ fresh' = Tail(fresh)
      /\ UNCHANGED <<batch, pc, running, fd, rx, tx>>
      /\ replacements > 0 /\ replacements' = replacements - 1
      /\ reactor' = "replace"
      /\ UNCHANGED <<reloads, output>>
  BY DEF CandidateFails, ReplacementFails, portVars
<1>2. pc # "left"
  BY <1>1, CallbackFacts
<1>3. /\ Tables(loop) /\ PortsInv /\ Registered(loop, fd) /\ fd \in SerialFd
  BY <1>2, ServingFacts DEF ServingInv
<1>4. /\ IsFiniteSet(loop.dying)
      /\ Cardinality(loop.dying) + 1 < MaxChannels
  BY <1>1, CandidateFacts
<1>5. /\ rx => "in" \in poll[fd]
      /\ tx = "room" => "out" \in poll[fd]
  BY <1>3, PollFacts
<1> HIDE DEF poll
<1>6. /\ Tables(loop')
      /\ Registered(loop', fd)
      /\ \A h \in {DownFd, TimerFd} : loop'.channels[h] = loop.channels[h]
      /\ Living(loop) \ {NoChannel} \subseteq Living(loop')
      /\ loop'.mask[fd] = Interest(output)
      /\ IsFiniteSet(loop'.dying)
      /\ Cardinality(loop'.dying) <= Cardinality(loop.dying) + 1
      /\ poll[fd] \cap Interest(output) # {} => fd \in loop'.edge
  BY <1>1, <1>3, <1>4, ReplaceFacts
<1>7. /\ rx => fd \in loop'.edge
      /\ (tx = "room" /\ output # << >>) => fd \in loop'.edge
  BY <1>5, <1>6, Masks
<1>8. Registered(loop', fd') /\ loop'.mask[fd'] = Interest(output')
  BY <1>1, <1>6
<1>9. rx' \in BOOLEAN /\ tx' \in {"room", "full", "gone"}
  BY <1>1, <1>3 DEF PortsInv
<1>10. QED
  BY <1>1, <1>3, <1>6, <1>7, <1>8, <1>9, ReplacedKept

LEMMA CandidateTakesOverStep ==
  ASSUME LineInv, ReactorInv, CandidateTakesOver
  PROVE  ReactorInv'
<1> DEFINE poll == PollAt(fd', rx', tx')
           l == registerSerialEvent(removeChannel(loop, fd), poll, fd', << >>)
<1>1. /\ Callback("read", {DownFd})
      /\ loop' = updateSerialWriteInterest(l, poll, fd', output')
      /\ fd' = Head(fresh) /\ fresh' = Tail(fresh)
      /\ rx' \in BOOLEAN /\ tx' = "room"
      /\ UNCHANGED <<batch, pc, running>>
      /\ replacements > 0 /\ replacements' = replacements - 1
      /\ reactor' = "replace"
      /\ UNCHANGED reloads
  BY DEF CandidateTakesOver, ReplaceSerial
<1>2. pc # "left"
  BY <1>1, CallbackFacts
<1>3. Tables(loop) /\ Registered(loop, fd) /\ fd \in SerialFd
  BY <1>2, ServingFacts DEF ServingInv
<1>4. /\ IsFiniteSet(loop.dying)
      /\ Cardinality(loop.dying) + 1 < MaxChannels
      /\ fd' \in SerialFd
  BY <1>1, CandidateFacts
<1>5. rx' => "in" \in poll[fd']
  BY <1>4, PollFacts
<1>6. /\ Tables(l)
      /\ Registered(l, fd')
      /\ \A h \in {DownFd, TimerFd} : l.channels[h] = loop.channels[h]
      /\ Living(loop) \ {NoChannel} \subseteq Living(l)
      /\ l.mask[fd'] = Interest(<< >>)
      /\ IsFiniteSet(l.dying)
      /\ Cardinality(l.dying) <= Cardinality(loop.dying) + 1
      /\ poll[fd'] \cap Interest(<< >>) # {} => fd' \in l.edge
  <2> HIDE DEF poll
  <2>1. QED
    BY <1>3, <1>4, ReplaceFacts
<1>7. l.channels[fd'] # NoChannel
  BY <1>6 DEF Registered
<1> HIDE DEF l
<1>8. /\ Tables(loop')
      /\ loop'.channels = l.channels
      /\ loop'.dying = l.dying
      /\ loop'.mask[fd'] = Interest(output')
      /\ l.edge \subseteq loop'.edge
      /\ (tx' = "room" /\ output' # << >> /\ l.mask[fd'] # WriteMask)
           => fd' \in loop'.edge
  BY <1>1, <1>4, <1>6, <1>7, InterestFacts
<1>9. rx' => fd' \in loop'.edge
  BY <1>5, <1>6, <1>8, Masks
<1>10. (tx' = "room" /\ output' # << >>) => fd' \in loop'.edge
  BY <1>6, <1>8, Masks
<1>11. Registered(loop', fd')
  BY <1>6, <1>8 DEF Registered
<1>12. Living(loop') = Living(l)
  BY <1>8 DEF Living
<1>13. QED
  BY <1>1, <1>4, <1>6, <1>8, <1>9, <1>10, <1>11, <1>12, ReplacedKept

LEMMA RegistrationFailsStep ==
  ASSUME LineInv, ReactorInv, RegistrationFails
  PROVE  ReactorInv'
<1>1. /\ Callback("read", {DownFd})
      /\ loop' = removeChannel(loop, fd)
      /\ pc' = "left" /\ batch' = << >>
      /\ UNCHANGED <<running, fd, fresh, rx, tx, replacements>>
  BY DEF RegistrationFails, portVars, linkVars
<1>2. pc # "left"
  BY <1>1, CallbackFacts
<1>3. /\ Tables(loop) /\ PortsInv /\ fd \in Fd
      /\ loop.channels[fd] # NoChannel
  BY <1>2, ServingFacts
<1>4. Tables(loop')
  BY <1>1, <1>3, RemoveFacts
<1>5. BatchInv'
  BY <1>1 DEF BatchInv
<1>6. PortsInv'
  BY <1>1, <1>3 DEF PortsInv
<1>7. QED
  BY <1>1, <1>4, <1>5, <1>6 DEF ReactorInv

-----------------------------------------------------------------------------
(***************************************************************************)
(* The loop.  epoll_wait announces all that is ready, and forgets its      *)
(* edges.                                                                  *)
(***************************************************************************)
LEMMA BatchOfReady ==
  ASSUME Tables(loop), NEW poll, \A g \in Fd : poll[g] \subseteq {"in", "out"},
         NEW order \in SetToSeqs(Ready(poll)),
         batch' = [i \in DOMAIN order |->
                     [channel |-> loop.channels[order[i]],
                      mask |-> poll[order[i]] \cap loop.mask[order[i]]]]
  PROVE  /\ batch' \in Seq(EventRecord)
         /\ \A i \in 1 .. Len(batch') :
              batch'[i].channel \in Living(loop) /\ batch'[i].mask # {}
         /\ \A f \in Ready(poll) : \E i \in 1 .. Len(batch') :
              /\ batch'[i].channel = loop.channels[f]
              /\ batch'[i].mask = poll[f] \cap loop.mask[f]
<1> DEFINE event(f) == [channel |-> loop.channels[f],
                        mask |-> poll[f] \cap loop.mask[f]]
<1>1. Ready(poll) \subseteq Fd
  BY DEF Ready
<1>2. IsFiniteSet(Ready(poll))
  BY <1>1, LoopConstants, FS_Subset
<1>3. /\ order \in Seq(Ready(poll))
      /\ DOMAIN order = 1 .. Len(order)
      /\ Len(order) \in Nat
      /\ \A f \in Ready(poll) : \E i \in DOMAIN order : order[i] = f
  BY <1>2, OrderCovers
<1>4. ASSUME NEW f \in Ready(poll)
      PROVE  /\ event(f) \in EventRecord
             /\ event(f).channel \in Living(loop) /\ event(f).mask # {}
             /\ event(f).channel = loop.channels[f]
             /\ event(f).mask = poll[f] \cap loop.mask[f]
  <2>1. f \in Fd /\ poll[f] \cap loop.mask[f] # {}
    BY DEF Ready
  <2>2. loop.channels[f] \in Channel
    BY <2>1, LoopFields DEF Tables
  <2>3. loop.channels[f] \in Living(loop)
    BY <2>1 DEF Living
  <2>4. QED
    BY <2>1, <2>2, <2>3 DEF EventRecord
<1> HIDE DEF event
<1>5. batch' = [i \in 1 .. Len(order) |-> event(order[i])]
  BY <1>3 DEF event
<1>6. \A i \in 1 .. Len(order) : order[i] \in Ready(poll)
  BY <1>3
<1>7. batch' \in Seq(EventRecord) /\ Len(batch') = Len(order)
  <2>1. \A i \in 1 .. Len(order) : event(order[i]) \in EventRecord
    BY <1>4, <1>6
  <2>2. DOMAIN batch' = 1 .. Len(order)
    BY <1>5
  <2>3. batch' \in [1 .. Len(order) -> EventRecord]
    BY <1>5, <2>1
  <2>4. QED
    BY <1>3, <2>2, <2>3, SeqDef
<1>8. \A i \in 1 .. Len(batch') : batch'[i] = event(order[i])
  BY <1>5, <1>7
<1>9. ASSUME NEW f \in Ready(poll)
      PROVE  \E i \in 1 .. Len(batch') :
               /\ batch'[i].channel = loop.channels[f]
               /\ batch'[i].mask = poll[f] \cap loop.mask[f]
  <2>1. PICK i \in 1 .. Len(batch') : order[i] = f
    BY <1>3, <1>7
  <2>2. QED
    BY <1>4, <1>8, <2>1
<1>10. \A i \in 1 .. Len(batch') :
         batch'[i].channel \in Living(loop) /\ batch'[i].mask # {}
  BY <1>4, <1>6, <1>7, <1>8
<1>11. QED
  BY <1>7, <1>9, <1>10

LEMMA EpollWaitStep ==
  ASSUME LineInv, ReactorInv, EpollWait(PollAt(fd, rx, tx)),
         UNCHANGED <<linkVars, fd, fresh, portVars, expired>>
  PROVE  ReactorInv'
<1> DEFINE poll == PollAt(fd, rx, tx)
<1>1. /\ pc = "wait" /\ pc' = "event" /\ UNCHANGED running
      /\ loop' = [loop EXCEPT !.edge = {}]
      /\ UNCHANGED <<output, tracker, reactor, replacements, reloads>>
      /\ UNCHANGED <<fd, fresh, rx, tx>>
  BY DEF EpollWait, linkVars, portVars
<1>2. pc # "left"
  BY <1>1
<1>3. /\ Tables(loop) /\ BatchInv /\ PortsInv /\ ServingInv
      /\ fd \in SerialFd /\ fd \in Fd
  BY <1>2, ServingFacts
<1>4. reactor = "idle"
  BY <1>1, IdleUnless DEF Callback
<1>5. replacements \in Nat /\ reloads \in Nat
  BY LineNumbers
<1>6. batch = << >>
  BY <1>1, <1>3 DEF BatchInv
<1>7. /\ \A g \in Fd : poll[g] \subseteq {"in", "out"}
      /\ rx => "in" \in poll[fd]
      /\ tx = "room" => "out" \in poll[fd]
  BY <1>3, PollFacts
<1>8. /\ Tables(loop')
      /\ loop'.channels = loop.channels /\ loop'.dying = loop.dying
      /\ loop'.mask = loop.mask
  <2>1. loop \in LoopRecord
    BY <1>3 DEF Tables
  <2>2. /\ loop' \in LoopRecord
        /\ loop'.channels = loop.channels /\ loop'.mask = loop.mask
        /\ loop'.dying = loop.dying /\ loop'.dead = loop.dead
    BY <1>1, <2>1 DEF LoopRecord
  <2>3. QED
    BY <1>3, <2>2 DEF Tables
<1>9. PICK order \in SetToSeqs(Ready(poll)) :
        batch' = [i \in DOMAIN order |->
                    [channel |-> loop.channels[order[i]],
                     mask |-> poll[order[i]] \cap loop.mask[order[i]]]]
  BY DEF EpollWait
<1> HIDE DEF poll
<1>10. /\ batch' \in Seq(EventRecord)
       /\ \A i \in 1 .. Len(batch') :
            batch'[i].channel \in Living(loop) /\ batch'[i].mask # {}
       /\ \A f \in Ready(poll) : \E i \in 1 .. Len(batch') :
            /\ batch'[i].channel = loop.channels[f]
            /\ batch'[i].mask = poll[f] \cap loop.mask[f]
  BY <1>3, <1>7, <1>9, BatchOfReady
<1>11. ASSUME NEW kind, kind \in poll[fd], kind \in loop.mask[fd],
              fd \in loop.edge
       PROVE  Announced(kind)'
  <2>1. fd \in Ready(poll)
    BY <1>3, <1>11 DEF Ready
  <2>2. PICK i \in 1 .. Len(batch') :
          /\ batch'[i].channel = loop.channels[fd]
          /\ batch'[i].mask = poll[fd] \cap loop.mask[fd]
    BY <1>10, <2>1
  <2>3. QED
    BY <1>1, <1>8, <1>11, <2>2 DEF Announced
<1>12. \A kind : ~Announced(kind)
  BY <1>6 DEF Announced
<1>13. BatchInv'
  <2>1. Living(loop') = Living(loop)
    BY <1>8 DEF Living
  <2>2. QED
    BY <1>1, <1>10, <2>1 DEF BatchInv
<1>14. PortsInv'
  BY <1>1, <1>3 DEF PortsInv
<1>15. InputInv'
  <2>1. ASSUME rx PROVE Announced("in")'
    <3>1. fd \in loop.edge
      BY <1>3, <1>12, <2>1 DEF ServingInv, InputInv
    <3>2. "in" \in loop.mask[fd]
      BY <1>2, MaskFacts
    <3>3. QED
      BY <1>7, <1>11, <2>1, <3>1, <3>2
  <2>2. QED
    BY <1>1, <2>1 DEF InputInv
<1>16. OutputInv'
  <2>1. ASSUME output # << >>, tx = "room"
        PROVE  Announced("out")' \/ OpenOnly(output, tracker)
    <3>1. fd \in loop.edge \/ OpenOnly(output, tracker)
      BY <1>3, <1>4, <1>12, <2>1 DEF ServingInv, OutputInv
    <3>2. "out" \in loop.mask[fd]
      BY <1>3, <1>4, <2>1, Masks DEF ServingInv, MaskInv
    <3>3. QED
      BY <1>7, <1>11, <2>1, <3>1, <3>2
  <2>2. OpenOnly(output, tracker) => OpenOnly(output', tracker')
    BY <1>1
  <2>3. QED
    BY <1>1, <2>1, <2>2 DEF OutputInv
<1>17. CallbackInv' /\ MaskInv' /\ DiscardInv'
  BY <1>1, <1>3, <1>4, <1>8 DEF ServingInv, CallbackInv, MaskInv, DiscardInv
<1>18. QED
  BY <1>1, <1>2, <1>5, <1>8, <1>13, <1>14, <1>15, <1>16, <1>17, ServingKept

LEMMA EventStep ==
  ASSUME LineInv, ReactorInv, Event,
         UNCHANGED <<linkVars, fd, fresh, portVars, expired>>
  PROVE  ReactorInv'
<1>1. /\ pc = "event" /\ batch # << >> /\ UNCHANGED <<loop, running>>
      /\ UNCHANGED <<output, tracker, reactor, replacements, reloads>>
      /\ UNCHANGED <<fd, fresh, rx, tx>>
  BY DEF Event, linkVars, portVars
<1>2. pc # "left"
  BY <1>1
<1>3. /\ Tables(loop) /\ BatchInv
      /\ loop.channels[fd] \notin loop.dead
  BY <1>2, ServingFacts
<1>4. reactor = "idle"
  BY <1>1, IdleUnless DEF Callback
<1>5. CallbackInv'
  BY <1>1, <1>4 DEF CallbackInv
<1>6. /\ Head(batch) = batch[1] /\ 1 \in 1 .. Len(batch)
      /\ Head(batch).channel \in Channel
      /\ Head(batch).mask \subseteq {"in", "out"} /\ Head(batch).mask # {}
  BY <1>1, <1>3, HeadFacts
<1>7. Living(loop') = Living(loop)
  BY <1>1 DEF Living
<1>8. CASE Skipped(Head(batch).channel)
  <2>1. batch' = Tail(batch) /\ pc' = "event"
    BY <1>1, <1>8 DEF Event
  <2>2. BatchInv'
    BY <1>1, <1>3, <1>7, <2>1, BatchTail
  <2>3. batch[1].channel # loop.channels[fd]
    BY <1>3, <1>6, <1>8 DEF Skipped
  <2>4. \A kind : Announced(kind) => Announced(kind)'
    BY <1>1, <1>3, <2>1, <2>3, AnnouncedShift
  <2>5. running' \in BOOLEAN
    BY <1>1, <1>2, ServingFacts DEF PortsInv
  <2>6. QED
    BY <1>1, <1>2, <1>4, <1>5, <2>1, <2>2, <2>4, <2>5, PassingCallback
<1>9. CASE ~Skipped(Head(batch).channel)
  <2>1. /\ UNCHANGED batch
        /\ pc' = IF "in" \in Head(batch).mask THEN "read" ELSE "write"
    BY <1>1, <1>9 DEF Event
  <2>2. loop.channels[Head(batch).channel.fd] = Head(batch).channel
    <3>1. Head(batch).channel \in Living(loop) \ loop.dying
      BY <1>3, <1>6, <1>9 DEF BatchInv, Skipped, Tables
    <3>2. PICK f \in Fd : loop.channels[f] = Head(batch).channel
      BY <3>1 DEF Living
    <3>3. loop.channels[f].fd = f
      BY <1>3, <1>6, <3>2, ChannelFields DEF Tables
    <3>4. QED
      BY <3>2, <3>3
  <2>3. BatchInv'
    <3>1. batch' \in Seq(EventRecord)
      BY <1>3, <2>1 DEF BatchInv
    <3>2. \A i \in 1 .. Len(batch') :
            batch'[i].channel \in Living(loop') /\ batch'[i].mask # {}
      BY <1>3, <1>7, <2>1 DEF BatchInv
    <3>3. /\ pc' = "read" => "in" \in Head(batch').mask
          /\ pc' = "write" => "out" \in Head(batch').mask
          /\ pc' # "wait"
      BY <1>6, <2>1
    <3>4. loop'.channels[Head(batch').channel.fd] = Head(batch').channel
      BY <1>1, <2>1, <2>2
    <3>5. QED
      BY <1>1, <2>1, <3>1, <3>2, <3>3, <3>4 DEF BatchInv
  <2>4. ASSUME NEW kind, Announced(kind) PROVE Announced(kind)'
    <3>1. PICK i \in 1 .. Len(batch) :
            batch[i].channel = loop.channels[fd] /\ kind \in batch[i].mask
      BY <2>4 DEF Announced
    <3>2. (kind = "in" /\ i = 1) => pc' # "write"
      BY <1>6, <2>1, <3>1
    <3>3. QED
      BY <1>1, <2>1, <3>1, <3>2 DEF Announced
  <2>5. running' \in BOOLEAN
    BY <1>1, <1>2, ServingFacts DEF PortsInv
  <2>6. QED
    BY <1>1, <1>2, <1>4, <1>5, <2>1, <2>3, <2>4, <2>5, PassingCallback
<1>10. QED
  BY <1>8, <1>9

LEMMA BatchDoneStep ==
  ASSUME LineInv, ReactorInv, BatchDone,
         UNCHANGED <<linkVars, fd, fresh, portVars, expired>>
  PROVE  ReactorInv'
<1>1. /\ pc = "event" /\ batch = << >> /\ batch' = << >>
      /\ loop' = [loop EXCEPT !.dying = {}, !.dead = loop.dead \ loop.dying]
      /\ pc' \in {"wait", "left"}
      /\ UNCHANGED <<output, tracker, reactor, replacements, reloads>>
      /\ UNCHANGED <<running, fd, fresh, rx, tx>>
  BY DEF BatchDone, linkVars, portVars
<1>2. pc # "left"
  BY <1>1
<1>3. Tables(loop) /\ BatchInv /\ PortsInv /\ ServingInv
  BY <1>2, ServingFacts
<1>4. reactor = "idle"
  BY <1>1, IdleUnless DEF Callback
<1>5. /\ Tables(loop')
      /\ loop'.channels = loop.channels /\ loop'.mask = loop.mask
      /\ loop'.edge = loop.edge /\ loop'.dying = {}
  <2>1. loop \in LoopRecord /\ loop.dead = loop.dying
    BY <1>3 DEF Tables
  <2>2. loop.dead \ loop.dying = {}
    BY <2>1
  <2>3. /\ loop' \in LoopRecord
        /\ loop'.channels = loop.channels /\ loop'.mask = loop.mask
        /\ loop'.edge = loop.edge /\ loop'.dying = {} /\ loop'.dead = {}
    BY <1>1, <2>1, <2>2 DEF LoopRecord
  <2>4. QED
    BY <1>3, <2>3 DEF Tables
<1>6. BatchInv'
  BY <1>1 DEF BatchInv
<1>7. PortsInv'
  BY <1>1, <1>3 DEF PortsInv
<1>8. \A kind : ~Announced(kind)
  BY <1>1 DEF Announced
<1>9. Registered(loop, fd)'
  BY <1>1, <1>3, <1>5 DEF ServingInv, Registered
<1>10. RoomInv'
  <2>1. Cardinality(loop.dying) \in Nat /\ replacements \in Nat /\ reloads \in Nat
    BY <1>3, FS_CardinalityType, LineNumbers DEF ServingInv, RoomInv
  <2>2. replacements <= reloads
    BY <1>3, <2>1 DEF ServingInv, RoomInv
  <2>3. IsFiniteSet(loop'.dying) /\ Cardinality(loop'.dying) = 0
    BY <1>5, FS_EmptySet
  <2>4. QED
    BY <1>1, <2>1, <2>2, <2>3 DEF RoomInv
<1>11. InputInv' /\ OutputInv'
  <2>1. OpenOnly(output, tracker) => OpenOnly(output', tracker')
    BY <1>1
  <2>2. InputInv'
    BY <1>1, <1>3, <1>5, <1>8 DEF ServingInv, InputInv
  <2>3. OutputInv'
    BY <1>1, <1>3, <1>4, <1>5, <1>8, <2>1 DEF ServingInv, OutputInv
  <2>4. QED
    BY <2>2, <2>3
<1>12. CallbackInv' /\ MaskInv' /\ DiscardInv'
  BY <1>1, <1>3, <1>4, <1>5 DEF ServingInv, CallbackInv, MaskInv, DiscardInv
<1>13. QED
  BY <1>5, <1>6, <1>7, <1>9, <1>10, <1>11, <1>12 DEF ReactorInv, ServingInv

-----------------------------------------------------------------------------
(***************************************************************************)
(* What happens around the Reactor: the node and the clock, other threads, *)
(* the driver of the port.                                                 *)
(***************************************************************************)

\* No callback, batch or port takes part.
LEMMA AsideKept ==
  ASSUME LineInv, ReactorInv, pc # "left",
         UNCHANGED <<loop, batch, pc, running, fd, rx, tx>>,
         UNCHANGED <<output, reactor>>,
         \/ UNCHANGED <<replacements, reloads>>
         \/ replacements' = replacements + 1 /\ reloads' = reloads + 1,
         fresh' \in Seq(SerialFd), Len(fresh') = replacements',
         OpenOnly(output, tracker) => OpenOnly(output', tracker')
  PROVE  ReactorInv'
<1>1. Tables(loop) /\ BatchInv /\ PortsInv /\ ServingInv
  BY ServingFacts
<1>2. replacements \in Nat /\ reloads \in Nat
  BY LineNumbers
<1>3. Tables(loop') /\ loop' = loop
  BY <1>1
<1>4. BatchInv'
  BY <1>1, BatchSame
<1>5. \A kind : Announced(kind) => Announced(kind)'
  BY AnnouncedSame
<1>6. InputInv'
  BY <1>1, <1>5, InputCarried DEF ServingInv
<1>7. OutputInv'
  BY <1>1, <1>5 DEF ServingInv, OutputInv
<1>8. PortsInv'
  BY <1>1 DEF PortsInv
<1>9. CallbackInv'
  BY <1>1 DEF ServingInv, CallbackInv, Callback
<1>10. MaskInv' /\ DiscardInv'
  BY <1>1 DEF ServingInv, MaskInv, DiscardInv
<1>11. QED
  BY <1>2, <1>3, <1>4, <1>6, <1>7, <1>8, <1>9, <1>10, ServingKept

\* A reloaded port is opened on a descriptor of SerialFd.
LEMMA FreeDescriptor ==
  ASSUME FreeFds # {}
  PROVE  (CHOOSE f \in FreeFds : \A g \in FreeFds : f <= g) \in SerialFd
<1>1. FreeFds \subseteq SerialFd
  BY DEF FreeFds
<1>2. FreeFds \subseteq Nat
  BY <1>1, DescriptorsAssumption
<1>3. \E f \in FreeFds : \A g \in FreeFds : f <= g
  BY <1>2, LeastNumber
<1>4. QED
  BY <1>1, <1>3

LEMMA PortStep ==
  ASSUME LineInv, ReactorInv, pc # "left", Port
  PROVE  ReactorInv'
<1>1. /\ UNCHANGED <<batch, pc, running, fd, fresh>>
      /\ UNCHANGED <<output, tracker, reactor, replacements, reloads>>
  BY DEF Port, linkVars
<1>2. Tables(loop) /\ BatchInv /\ PortsInv /\ ServingInv /\ fd \in Fd
  BY ServingFacts
<1>3. replacements \in Nat /\ reloads \in Nat
  BY LineNumbers
<1>4. "in" \in loop.mask[fd] /\ loop.mask[fd] \in {ReadMask, WriteMask}
  BY MaskFacts
<1>5. PICK kinds : loop' = Wake(loop, fd, kinds)
  BY DEF Port
<1>6. /\ Tables(loop')
      /\ loop'.channels = loop.channels /\ loop'.mask = loop.mask
      /\ loop'.dying = loop.dying
      /\ loop.edge \subseteq loop'.edge
  BY <1>2, <1>5, WakeFacts
<1>7. /\ rx' \in BOOLEAN /\ tx' \in {"room", "full", "gone"}
      /\ rx' => rx \/ fd \in loop'.edge
      /\ tx' = "room" => tx = "room" \/ "out" \notin loop.mask[fd]
                         \/ fd \in loop'.edge
  <2>1. rx \in BOOLEAN /\ tx \in {"room", "full", "gone"}
    BY <1>2 DEF PortsInv
  <2>2. CASE /\ rx' = TRUE
             /\ loop' = Wake(loop, fd, {"in"}) /\ UNCHANGED tx
    <3>1. fd \in loop'.edge
      BY <1>2, <1>4, <2>2, WakeFacts
    <3>2. QED
      BY <2>1, <2>2, <3>1
  <2>3. CASE /\ tx' = "room"
             /\ loop' = Wake(loop, fd, {"out"}) /\ UNCHANGED rx
    <3>1. "out" \in loop.mask[fd] => fd \in loop'.edge
      BY <1>2, <2>3, WakeFacts
    <3>2. QED
      BY <2>1, <2>3, <3>1
  <2>4. CASE tx' = "gone" /\ rx' = FALSE
    BY <2>4
  <2>5. QED
    BY <2>2, <2>3, <2>4 DEF Port
<1>8. BatchInv'
  <2>1. Living(loop') = Living(loop)
    BY <1>6 DEF Living
  <2>2. QED
    BY <1>1, <1>2, <1>6, <2>1, BatchSame
<1>9. \A kind : Announced(kind) => Announced(kind)'
  BY <1>1, <1>6, AnnouncedSame
<1>10. InputInv'
  BY <1>1, <1>2, <1>6, <1>7, <1>9 DEF ServingInv, InputInv
<1>11. PortsInv'
  BY <1>1, <1>2, <1>7 DEF PortsInv
<1>12. CallbackInv'
  BY <1>1, <1>2 DEF ServingInv, CallbackInv, Callback
<1>13. MaskInv' /\ DiscardInv'
  BY <1>1, <1>2, <1>6 DEF ServingInv, MaskInv, DiscardInv
<1>14. OutputInv'
  <2>1. OpenOnly(output, tracker) => OpenOnly(output', tracker')
    BY <1>1
  <2>2. SUFFICES ASSUME output # << >>, tx' = "room"
        PROVE  \/ fd \in loop'.edge
               \/ Announced("out")'
               \/ OpenOnly(output', tracker')
               \/ reactor' = "submit" /\ loop'.mask[fd'] = ReadMask
    BY <1>1 DEF OutputInv
  <2>3. CASE tx = "room"
    BY <1>1, <1>2, <1>6, <1>9, <2>1, <2>2, <2>3 DEF ServingInv, OutputInv
  <2>4. CASE fd \in loop'.edge
    BY <2>4
  <2>5. CASE "out" \notin loop.mask[fd]
    <3>1. loop.mask[fd] = ReadMask
      BY <1>4, <2>5, Masks
    <3>2. reactor \in {"submit", "discard"}
      BY <1>2, <2>2, <3>1, Masks DEF ServingInv, MaskInv
    <3>3. CASE reactor = "submit"
      BY <1>1, <1>6, <3>1, <3>3
    <3>4. CASE reactor = "discard"
      BY <1>2, <2>1, <2>2, <3>4 DEF ServingInv, DiscardInv
    <3>5. QED
      BY <3>2, <3>3, <3>4
  <2>6. QED
    BY <1>7, <2>2, <2>3, <2>4, <2>5
<1>15. QED
  BY <1>1, <1>3, <1>6, <1>8, <1>10, <1>11, <1>12, <1>13, <1>14, ServingKept

LEMMA SurroundingsStep ==
  ASSUME LineInv, ReactorInv, pc # "left", Surroundings
  PROVE  ReactorInv'
<1>1. /\ PortsInv /\ fresh \in Seq(SerialFd) /\ Len(fresh) = replacements
      /\ tracker \in Tracker /\ replacements \in Nat
  BY ServingFacts, LineNumbers DEF PortsInv
<1>2. CASE NodeSide /\ UNCHANGED <<loopVars, fd, fresh, portVars>>
  <2>1. /\ UNCHANGED <<loop, batch, pc, running, fd, fresh, rx, tx>>
        /\ UNCHANGED <<output, tracker, reactor, replacements, reloads>>
    BY <1>2 DEF NodeSide, gatewayVars, loopVars, portVars
  <2>2. OpenOnly(output, tracker) => OpenOnly(output', tracker')
    BY <2>1
  <2>3. QED
    BY <1>1, <2>1, <2>2, AsideKept
<1>3. CASE GatewayElapse /\ UNCHANGED <<loopVars, fd, fresh, portVars>>
  <2>1. /\ UNCHANGED <<loop, batch, pc, running, fd, fresh, rx, tx>>
        /\ UNCHANGED <<output, reactor, replacements, reloads>>
        /\ tracker' = elapse(tracker)
    BY <1>3 DEF GatewayElapse, loopVars, portVars
  <2>2. ASSUME OpenOnly(output, tracker) PROVE OpenOnly(output', tracker')
    <3>1. OpenOnly(output, elapse(tracker))
      BY <1>1, <2>2, OpenOnlyElapse
    <3>2. QED
      BY <2>1, <3>1
  <2>3. QED
    BY <1>1, <2>1, <2>2, AsideKept
<1>4. CASE OtherThreads
  <2>1. /\ UNCHANGED <<loop, batch, pc, running, fd, rx, tx>>
        /\ UNCHANGED <<output, tracker, reactor>>
    BY <1>4 DEF OtherThreads, SubmitCommand, ReloadSerial, loopVars, portVars
  <2>2. OpenOnly(output, tracker) => OpenOnly(output', tracker')
    BY <2>1
  <2>3. CASE FreeFds # {} /\ ReloadSerial
             /\ fresh' = Append(fresh, CHOOSE f \in FreeFds : \A g \in FreeFds : f <= g)
    <3>1. PICK f \in SerialFd : fresh' = Append(fresh, f)
      BY <2>3, FreeDescriptor
    <3>2. replacements' = replacements + 1 /\ reloads' = reloads + 1
      BY <2>3 DEF ReloadSerial
    <3>3. fresh' \in Seq(SerialFd) /\ Len(fresh') = replacements'
      BY <1>1, <3>1, <3>2
    <3>4. QED
      BY <2>1, <2>2, <3>2, <3>3, AsideKept
  <2>4. CASE UNCHANGED <<fresh, replacements, reloads>>
    BY <1>1, <2>1, <2>2, <2>4, AsideKept
  <2>5. QED
    BY <1>4, <2>3, <2>4 DEF OtherThreads, SubmitCommand
<1>5. CASE Port
  BY <1>5, PortStep
<1>6. QED
  BY <1>2, <1>3, <1>4, <1>5 DEF Surroundings

-----------------------------------------------------------------------------
(***************************************************************************)
(* Every step keeps the invariant, and it holds at the start.              *)
(***************************************************************************)
LEMMA ReactorStutters ==
  ASSUME ReactorInv, UNCHANGED reactorVars
  PROVE  ReactorInv'
<1>1. /\ UNCHANGED <<loop, batch, pc, running, fd, fresh, rx, tx>>
      /\ UNCHANGED <<output, tracker, reactor, replacements, reloads>>
  BY DEF reactorVars, loopVars, linkVars
<1>2. Tables(loop')
  BY <1>1 DEF ReactorInv
<1>3. Living(loop') = Living(loop)
  BY <1>1 DEF Living
<1>4. BatchInv'
  BY <1>1, <1>3 DEF ReactorInv, BatchInv
<1>5. PortsInv'
  BY <1>1 DEF ReactorInv, PortsInv
<1>6. ASSUME pc # "left" PROVE ServingInv'
  <2>1. ServingInv
    BY <1>6 DEF ReactorInv
  <2>2. Registered(loop, fd)' /\ RoomInv'
    BY <1>1, <2>1 DEF ServingInv, Registered, RoomInv
  <2>3. CallbackInv' /\ MaskInv'
    BY <1>1, <2>1 DEF ServingInv, CallbackInv, Callback, MaskInv
  <2>4. OpenOnly(output, tracker) => OpenOnly(output', tracker')
    BY <1>1
  <2>5. \A kind : Announced(kind) => Announced(kind)'
    BY <1>1, AnnouncedSame
  <2>6. InputInv'
    BY <1>1, <2>1, <2>5 DEF ServingInv, InputInv
  <2>7. OutputInv' /\ DiscardInv'
    BY <1>1, <2>1, <2>4, <2>5 DEF ServingInv, OutputInv, DiscardInv
  <2>8. QED
    BY <2>2, <2>3, <2>6, <2>7 DEF ServingInv
<1>7. QED
  BY <1>1, <1>2, <1>4, <1>5, <1>6 DEF ReactorInv

LEMMA ReactorSteps ==
  ASSUME LineInv, ReactorInv, [ReactorNext]_reactorVars
  PROVE  ReactorInv'
<1>1. CASE UNCHANGED reactorVars
  BY <1>1, ReactorStutters
<1>2. CASE DrainAndParse
  BY <1>2, DrainStep
<1>3. CASE SerialReadReturns
  BY <1>3, ReadReturnsStep
<1>4. CASE FlushTurn
  BY <1>4, FlushStep
<1>5. CASE SerialWriteReturns
  BY <1>5, WriteReturnsStep
<1>6. CASE DownlinkEvent
  BY <1>6, DownlinkEventStep
<1>7. CASE DownlinkStops
  BY <1>7, DownlinkStopsStep
<1>8. CASE CandidateFails
  BY <1>8, CandidateFailsStep
<1>9. CASE CandidateTakesOver
  BY <1>9, CandidateTakesOverStep
<1>10. CASE RegistrationFails
  BY <1>10, RegistrationFailsStep
<1>11. CASE DownlinkSubmits
  BY <1>11, BeginSubmittingStep, SubmissionStep, EndSubmittingStep
  DEF DownlinkSubmits
<1>12. CASE CommandTimerEvent
  BY <1>12, CommandTimerStep
<1>13. CASE LoopStep
  BY <1>13, EpollWaitStep, EventStep, BatchDoneStep DEF LoopStep
<1>14. CASE pc # "left" /\ Surroundings
  BY <1>14, SurroundingsStep
<1>15. CASE pc = "left" /\ UNCHANGED reactorVars
  BY <1>15, ReactorStutters
<1>16. QED
  BY <1>1, <1>2, <1>3, <1>4, <1>5, <1>6, <1>7, <1>8, <1>9, <1>10, <1>11,
     <1>12, <1>13, <1>14, <1>15 DEF ReactorNext

LEMMA ReactorInitially ==
  ASSUME ReactorInit
  PROVE  LineInv /\ ReactorInv
<1> DEFINE cs == [f \in Fd |-> IF f \in {fd, DownFd, TimerFd}
                                 THEN [fd |-> f, n |-> 1] ELSE NoChannel]
           ms == [f \in Fd |-> CASE f = fd -> ReadMask
                                 [] f \in {DownFd, TimerFd} -> {"in"}
                                 [] OTHER -> {}]
<1>1. LinkInit /\ LineInv
  BY LineInitially DEF ReactorInit
<1>2. /\ output = << >> /\ reactor = "idle"
      /\ replacements = 0 /\ reloads = 0
  BY <1>1 DEF LinkInit
<1>3. /\ fd = FirstFd /\ fresh = << >> /\ rx = FALSE /\ tx = "room"
      /\ batch = << >> /\ pc = "wait" /\ running = TRUE
  BY DEF ReactorInit
<1>4. fd \in SerialFd /\ fd \in Fd
  <2>1. \E f \in SerialFd : \A g \in SerialFd : f <= g
    BY DescriptorsAssumption, LeastNumber
  <2>2. fd \in SerialFd
    BY <1>3, <2>1 DEF FirstFd
  <2>3. QED
    BY <2>2, Descriptors
<1>5. 1 \in 1 .. MaxChannels
  BY ChannelsAssumption, LinkAssumption, LoopConstants
<1>6. /\ cs \in [Fd -> Channel \cup {NoChannel}]
      /\ ms \in [Fd -> EventMask]
  <2>1. \A f \in Fd : [fd |-> f, n |-> 1] \in Channel
    BY <1>5 DEF Channel
  <2>2. \A f \in Fd : ms[f] \in EventMask
    BY DEF ReadMask, EventMask
  <2>3. QED
    BY <2>1, <2>2
<1>7. /\ loop.channels = cs /\ loop.mask = ms
      /\ loop.edge = {} /\ loop.dying = {} /\ loop.dead = {}
      /\ loop \in LoopRecord
  <2>1. loop = [channels |-> cs, mask |-> ms, edge |-> {}, dying |-> {},
                dead |-> {}]
    <3>1. \A f \in Fd : NoLoop.channels[f] = NoChannel
      BY DEF NoLoop
    <3>2. QED
      BY <3>1 DEF ReactorInit, NoLoop
  <2> HIDE DEF cs, ms
  <2>2. QED
    BY <1>6, <2>1 DEF LoopRecord
<1>8. \A f \in Fd : f \in {fd, DownFd, TimerFd} =>
        cs[f].fd = f /\ cs[f] # NoChannel
  BY <1>5, ChannelFields DEF Channel
<1>9. \A f \in Fd : f \notin {fd, DownFd, TimerFd} =>
        cs[f] = NoChannel /\ ms[f] = {}
  OBVIOUS
<1>10. ms[fd] = ReadMask
  <2>1. fd # DownFd /\ fd # TimerFd
    BY <1>4, Descriptors
  <2>2. \A f \in Fd : f \notin {DownFd, TimerFd} /\ f = fd => ms[f] = ReadMask
    OBVIOUS
  <2>3. QED
    BY <1>4, <2>1, <2>2
<1> HIDE DEF cs, ms
<1>11. Tables(loop)
  BY <1>7, <1>8, <1>9 DEF Tables
<1>12. BatchInv /\ PortsInv
  <2>1. << >> \in Seq(EventRecord) /\ << >> \in Seq(SerialFd) /\ Len(<< >>) = 0
    OBVIOUS
  <2>2. \A i \in 1 .. Len(batch) : FALSE
    BY <1>3
  <2>3. BatchInv
    BY <1>3, <2>1, <2>2 DEF BatchInv
  <2>4. PortsInv
    BY <1>2, <1>3, <1>4, <2>1 DEF PortsInv
  <2>5. QED
    BY <2>3, <2>4
<1>13. Registered(loop, fd)
  BY <1>4, <1>7, <1>8, <1>9, Descriptors DEF Registered
<1>14. RoomInv
  BY <1>2, <1>7, FS_EmptySet DEF RoomInv
<1>15. CallbackInv /\ InputInv /\ OutputInv /\ DiscardInv
  BY <1>2, <1>3 DEF CallbackInv, InputInv, OutputInv, DiscardInv
<1>16. MaskInv
  BY <1>2, <1>7, <1>10, Masks DEF MaskInv
<1>17. QED
  BY <1>1, <1>11, <1>12, <1>13, <1>14, <1>15, <1>16 DEF ReactorInv, ServingInv

(***************************************************************************)
(* In every behaviour of the serial Reactor, whatever the number of ports, *)
(* descriptors and commands: the invariant of the command link, and that   *)
(* of the loop, which says where the announcement of every byte of input   *)
(* and of room for output is kept (GatewayApp.cpp:132-306, EventLoop.cpp). *)
(***************************************************************************)
THEOREM ReactorInvariant == ReactorSpec => [](LineInv /\ ReactorInv)
<1>1. ReactorInit => LineInv /\ ReactorInv
  BY ReactorInitially
<1>2. LineInv /\ ReactorInv /\ [ReactorNext]_reactorVars
        => (LineInv /\ ReactorInv)'
  BY ReactorLine, ReactorSteps
<1>3. QED
  BY <1>1, <1>2, PTL DEF ReactorSpec

(***************************************************************************)
(* No event of a batch, no callback and no descriptor that is watched has  *)
(* the pointer of a channel that was destroyed, whatever the callbacks     *)
(* before it removed (EventLoop.cpp:73, 84, 109).                          *)
(***************************************************************************)
THEOREM SerialNoDanglingEvent == ReactorSpec => []NoDanglingEvent
<1>1. ReactorInv => NoDanglingEvent
  <2> SUFFICES ASSUME ReactorInv PROVE NoDanglingEvent
    OBVIOUS
  <2>1. Tables(loop) /\ BatchInv /\ PortsInv
    BY DEF ReactorInv
  <2>2. LoopTypeOK
    BY <2>1, LoopFields DEF LoopTypeOK, Tables, PortsInv
  <2>3. \A i \in DOMAIN batch : batch[i].channel \in Living(loop)
    BY <2>1 DEF BatchInv
  <2>4. QED
    BY <2>1, <2>2, <2>3 DEF NoDanglingEvent, Tables
<1>2. QED
  BY <1>1, ReactorInvariant, PTL

(***************************************************************************)
(* When the Reactor waits, the kernel announces the input the port holds   *)
(* (NodeLink.cpp:61, GatewayApp.cpp:132-143, 210-226).                     *)
(***************************************************************************)
THEOREM SerialInputIsHeard == ReactorSpec => []InputIsHeard
<1>1. ReactorInv => InputIsHeard
  <2> SUFFICES ASSUME ReactorInv, Waiting, rx PROVE fd \in loop.edge
    BY DEF InputIsHeard
  <2>1. pc = "wait" /\ pc # "left"
    BY DEF Waiting
  <2>2. BatchInv /\ ServingInv
    BY <2>1, ServingFacts
  <2>3. batch = << >>
    BY <2>1, <2>2 DEF BatchInv
  <2>4. ~Announced("in")
    BY <2>3 DEF Announced
  <2>5. QED
    BY <2>2, <2>4 DEF ServingInv, InputInv
<1>2. QED
  BY <1>1, ReactorInvariant, PTL

(***************************************************************************)
(* When the Reactor waits, the port is watched for writing just when there *)
(* is output, and only the OPEN of the session that a write error began    *)
(* can wait for an event that does not come (NodeLink.cpp:92-131,          *)
(* GatewayApp.cpp:299-306).                                                *)
(***************************************************************************)
THEOREM SerialOutputIsWatched == ReactorSpec => []OutputIsWatched
<1>1. LineInv /\ ReactorInv => OutputIsWatched
  <2> SUFFICES ASSUME LineInv, ReactorInv, Waiting
      PROVE  /\ loop.mask[fd] = Interest(output)
             /\ Stranded => /\ tracker.state \in {"Opening", "Failed"}
                            /\ Len(output) = 1 /\ Head(output).type = "OPEN"
    BY DEF OutputIsWatched
  <2>1. pc = "wait" /\ pc # "left"
    BY DEF Waiting
  <2>2. BatchInv /\ ServingInv
    BY <2>1, ServingFacts
  <2>3. batch = << >>
    BY <2>1, <2>2 DEF BatchInv
  <2>4. ~Announced("out")
    BY <2>3 DEF Announced
  <2>5. reactor = "idle"
    BY <2>1, IdleUnless DEF Callback
  <2>6. loop.mask[fd] = Interest(output)
    BY <2>2, <2>5 DEF ServingInv, MaskInv
  <2>7. Stranded => OpenOnly(output, tracker)
    BY <2>2, <2>4, <2>5 DEF Stranded, ServingInv, OutputInv
  <2>8. QED
    BY <2>6, <2>7 DEF OpenOnly
<1>2. QED
  BY <1>1, ReactorInvariant, PTL

\* No step that begins a callback registers or removes a channel.
LEMMA CallKeepsChannels ==
  ASSUME ReactorInv, [ReactorNext]_reactorVars,
         pc' \in {"read", "write"}, pc' # pc
  PROVE  loop'.channels = loop.channels
<1>1. ~(pc = "left" /\ UNCHANGED reactorVars) /\ ~UNCHANGED reactorVars
  BY DEF reactorVars, loopVars
<1>2. CASE SerialReadReturns \/ DownlinkStops \/ LoopStep
  <2>1. CASE SerialReadReturns \/ DownlinkStops
    BY <2>1 DEF SerialReadReturns, DownlinkStops
  <2>2. CASE LoopStep
    BY <2>2 DEF LoopStep, EpollWait, Event, BatchDone
  <2>3. QED
    BY <1>2, <2>1, <2>2
<1>3. CASE DownlinkSubmits \/ CommandTimerEvent
  <2>1. /\ pc # "left"
        /\ UNCHANGED fd
        /\ UNCHANGED loop \/ UpdateInterest(rx, tx)
    BY <1>3 DEF DownlinkSubmits, CommandTimerEvent, Callback
  <2>2. CASE UNCHANGED loop
    BY <2>2
  <2>3. CASE UpdateInterest(rx, tx)
    <3>1. /\ Tables(loop) /\ fd \in SerialFd
          /\ loop.channels[fd] # NoChannel
      BY <2>1, ServingFacts
    <3>2. loop' = updateSerialWriteInterest(loop, PollAt(fd, rx, tx), fd, output')
      BY <2>3 DEF UpdateInterest
    <3>3. QED
      BY <3>1, <3>2, InterestFacts
  <2>4. QED
    BY <2>1, <2>2, <2>3
<1>4. ~(DrainAndParse \/ FlushTurn \/ DownlinkEvent \/ CandidateFails
          \/ CandidateTakesOver)
  BY DEF DrainAndParse, FlushTurn, DownlinkEvent, CandidateFails,
         CandidateTakesOver, loopVars
<1>5. ~(SerialWriteReturns \/ RegistrationFails)
  BY DEF SerialWriteReturns, RegistrationFails, WriteReturns
<1>6. ~Surroundings
  BY DEF Surroundings, OtherThreads, Port, loopVars
<1>7. QED
  BY <1>1, <1>2, <1>3, <1>4, <1>5, <1>6 DEF ReactorNext

(***************************************************************************)
(* A callback is begun only for a channel that is registered under its own *)
(* descriptor: not for one removed in this batch, and not for the new      *)
(* channel of a descriptor that was reused (EventLoop.cpp:72-81).          *)
(***************************************************************************)
THEOREM SerialCalledIsRegistered == ReactorSpec => CalledIsRegistered
<1> DEFINE Called == (pc' \in {"read", "write"} /\ pc' # pc) =>
                       LET c == Head(batch').channel IN loop.channels[c.fd] = c
<1>1. ASSUME ReactorInv, ReactorInv', [ReactorNext]_reactorVars
      PROVE  [Called]_loopVars
  <2> SUFFICES ASSUME pc' \in {"read", "write"}, pc' # pc
      PROVE  loop.channels[Head(batch').channel.fd] = Head(batch').channel
    BY DEF Called
  <2>1. loop'.channels[Head(batch').channel.fd] = Head(batch').channel
    BY <1>1 DEF ReactorInv, BatchInv
  <2>2. loop'.channels = loop.channels
    BY <1>1, CallKeepsChannels
  <2>3. QED
    BY <2>1, <2>2
<1>2. QED
  BY <1>1, ReactorInvariant, PTL DEF ReactorSpec, CalledIsRegistered

-----------------------------------------------------------------------------
(***************************************************************************)
(* FrameParser: the bytes of the port and the frames in them, for every    *)
(* payload, every EDGE_LEN_MAX and all that a line can do to the bytes.    *)
(***************************************************************************)
\* The elements of two sequences of lengths m and n that are put together.
Concatenated(s, t, m, n) ==
  /\ s \o t \in Seq(uint8_t) /\ Len(s \o t) = m + n
  /\ \A i \in 1 .. m : (s \o t)[i] = s[i]
  /\ \A i \in 1 .. n : (s \o t)[m + i] = t[i]

LEMMA ConcatFacts ==
  ASSUME NEW s \in Seq(uint8_t), NEW t \in Seq(uint8_t),
         NEW m, NEW n, Len(s) = m, Len(t) = n
  PROVE  Concatenated(s, t, m, n)
<1>1. /\ s \o t \in Seq(uint8_t) /\ Len(s \o t) = Len(s) + Len(t)
      /\ \A i \in 1 .. Len(s) : (s \o t)[i] = s[i]
      /\ \A i \in 1 .. Len(t) : (s \o t)[Len(s) + i] = t[i]
  OBVIOUS
<1>2. QED
  BY <1>1, Zenon DEF Concatenated

(***************************************************************************)
(* edge_crc16().  What the loop computes is defined by recursion; that it  *)
(* is defined, and is one value, is shown with a least counterexample.     *)
(***************************************************************************)
\* No carry: the places of Xor sum up to a word.
LEMMA XorType ==
  ASSUME NEW a \in Nat, NEW b \in Nat
  PROVE  Xor(a, b) \in uint16_t
<1> DEFINE At(place) == place * ((a \div place + b \div place) % 2)
<1>1. ASSUME NEW place \in Nat, place > 0
      PROVE  0 <= At(place) /\ At(place) <= place /\ At(place) \in Nat
  <2>1. a \div place \in Nat /\ b \div place \in Nat
    BY <1>1
  <2>2. (a \div place + b \div place) % 2 \in {0, 1}
    BY <2>1
  <2>3. QED
    BY <1>1, <2>2
<1> DEFINE Low == At(1) + At(2) + At(4) + At(8) + At(16) + At(32) + At(64) + At(128)
           High == At(256) + At(512) + At(1024) + At(2048) + At(4096) + At(8192)
                     + At(16384) + At(32768)
<1>2. Xor(a, b) = Low + High
  BY DEF Xor
<1> HIDE DEF At
<1>3. Low \in Nat /\ Low <= 255
  <2>1. /\ At(1) \in Nat /\ At(1) <= 1 /\ At(2) \in Nat /\ At(2) <= 2
        /\ At(4) \in Nat /\ At(4) <= 4 /\ At(8) \in Nat /\ At(8) <= 8
        /\ At(16) \in Nat /\ At(16) <= 16 /\ At(32) \in Nat /\ At(32) <= 32
        /\ At(64) \in Nat /\ At(64) <= 64 /\ At(128) \in Nat /\ At(128) <= 128
    BY <1>1
  <2>2. QED
    BY <2>1
<1>4. High \in Nat /\ High <= 65280
  <2>1. /\ At(256) \in Nat /\ At(256) <= 256 /\ At(512) \in Nat /\ At(512) <= 512
        /\ At(1024) \in Nat /\ At(1024) <= 1024
        /\ At(2048) \in Nat /\ At(2048) <= 2048
        /\ At(4096) \in Nat /\ At(4096) <= 4096
        /\ At(8192) \in Nat /\ At(8192) <= 8192
        /\ At(16384) \in Nat /\ At(16384) <= 16384
        /\ At(32768) \in Nat /\ At(32768) <= 32768
    BY <1>1
  <2>2. QED
    BY <2>1
<1> HIDE DEF Low, High
<1>5. QED
  BY <1>2, <1>3, <1>4 DEF uint16_t

LEMMA CrcUpdateType ==
  ASSUME NEW crc \in uint16_t, NEW byte \in uint8_t
  PROVE  edge_crc16_update(crc, byte) \in uint16_t
<1>1. \A c \in Nat : Round(c) \in Nat
  <2> TAKE c \in Nat
  <2>1. c \div 2 \in Nat /\ 40961 \in Nat
    OBVIOUS
  <2>2. Xor(c \div 2, 40961) \in Nat
    BY <2>1, XorType DEF uint16_t
  <2>3. QED
    BY <2>1, <2>2 DEF Round
<1>2. \A b \in uint8_t : kCrc16Table[b] \in Nat
  <2> TAKE b \in uint8_t
  <2>1. b \in Nat
    BY DEF uint8_t
  <2>2. Round(Round(Round(Round(b)))) \in Nat
    BY <1>1, <2>1
  <2>3. QED
    BY <1>1, <2>2 DEF kCrc16Table
<1>3. crc \in Nat /\ byte \in Nat /\ crc \div 256 \in Nat
  BY DEF uint8_t, uint16_t
<1>4. Xor(crc, byte) \in uint16_t
  BY <1>3, XorType
<1>5. Xor(crc, byte) % 256 \in uint8_t
  <2>1. Xor(crc, byte) \in Nat
    BY <1>4 DEF uint16_t
  <2>2. QED
    BY <2>1 DEF uint8_t
<1>6. QED
  BY <1>2, <1>3, <1>5, XorType DEF edge_crc16_update

\* The checksums of the beginnings of a sequence, up to that of n bytes.
CrcOf(crc, bytes, n) ==
  crc = [i \in 0 .. n |-> IF i = 0 THEN EDGE_CRC16_INIT
                          ELSE edge_crc16_update(crc[i - 1], bytes[i])]

LEMMA CrcExists ==
  ASSUME NEW bytes, NEW n \in Nat
  PROVE  \E crc : CrcOf(crc, bytes, n)
<1> DEFINE Without == {m \in Nat : ~\E crc : CrcOf(crc, bytes, m)}
<1> SUFFICES ASSUME Without # {} PROVE FALSE
  OBVIOUS
<1>1. PICK m \in Without : \A k \in Without : m <= k
  BY LeastNumber
<1>2. m # 0
  <2>1. CrcOf([i \in 0 .. 0 |-> EDGE_CRC16_INIT], bytes, 0)
    BY DEF CrcOf
  <2>2. QED
    BY <2>1
<1>3. PICK crc : CrcOf(crc, bytes, m - 1)
  BY <1>1, <1>2
<1> DEFINE more == [i \in 0 .. m |-> IF i = 0 THEN EDGE_CRC16_INIT
                                     ELSE edge_crc16_update(crc[i - 1], bytes[i])]
<1>4. \A i \in 0 .. m - 1 : more[i] = crc[i]
  BY <1>3 DEF CrcOf
<1>5. CrcOf(more, bytes, m)
  <2>1. \A i \in 0 .. m : i # 0 => i - 1 \in 0 .. m - 1
    OBVIOUS
  <2>2. more = [i \in 0 .. m |-> IF i = 0 THEN EDGE_CRC16_INIT
                                 ELSE edge_crc16_update(more[i - 1], bytes[i])]
    BY <1>4, <2>1
  <2>3. QED
    BY <2>2 DEF CrcOf
<1>6. QED
  BY <1>5

\* It depends on the bytes it covers only.
LEMMA CrcDetermined ==
  ASSUME NEW f, NEW s, NEW m \in Nat, CrcOf(f, s, m),
         NEW g, NEW t, NEW n \in Nat, CrcOf(g, t, n),
         NEW k \in Nat, k <= m, k <= n, \A i \in 1 .. k : s[i] = t[i]
  PROVE  f[k] = g[k]
<1> DEFINE Differ == {i \in 0 .. k : f[i] # g[i]}
<1> SUFFICES ASSUME Differ # {} PROVE FALSE
  OBVIOUS
<1>1. PICK i \in Differ : \A j \in Differ : i <= j
  <2>1. Differ \subseteq Nat
    OBVIOUS
  <2>2. QED
    BY <2>1, LeastNumber
<1>2. i # 0
  <2>1. 0 \in 0 .. m /\ 0 \in 0 .. n
    OBVIOUS
  <2>2. f[0] = EDGE_CRC16_INIT /\ g[0] = EDGE_CRC16_INIT
    BY <2>1 DEF CrcOf
  <2>3. QED
    BY <2>2
<1>3. f[i - 1] = g[i - 1]
  BY <1>1, <1>2
<1>4. i \in 0 .. m /\ i \in 0 .. n
  OBVIOUS
<1>5. f[i] = edge_crc16_update(f[i - 1], s[i]) /\ g[i] = edge_crc16_update(g[i - 1], t[i])
  BY <1>2, <1>4 DEF CrcOf
<1>6. QED
  BY <1>2, <1>3, <1>5

LEMMA CrcTyped ==
  ASSUME NEW crc, NEW bytes \in Seq(uint8_t), CrcOf(crc, bytes, Len(bytes)),
         NEW n \in 0 .. Len(bytes)
  PROVE  crc[n] \in uint16_t
<1> DEFINE Bad == {i \in 0 .. n : crc[i] \notin uint16_t}
<1> SUFFICES ASSUME Bad # {} PROVE FALSE
  OBVIOUS
<1>1. PICK i \in Bad : \A j \in Bad : i <= j
  <2>1. Bad \subseteq Nat
    OBVIOUS
  <2>2. QED
    BY <2>1, LeastNumber
<1>2. i # 0
  <2>1. crc[0] = EDGE_CRC16_INIT
    BY DEF CrcOf
  <2>2. EDGE_CRC16_INIT \in uint16_t
    BY DEF EDGE_CRC16_INIT, uint16_t
  <2>3. QED
    BY <2>1, <2>2
<1>3. crc[i - 1] \in uint16_t /\ bytes[i] \in uint8_t
  BY <1>1, <1>2
<1>4. crc[i] = edge_crc16_update(crc[i - 1], bytes[i])
  BY <1>2 DEF CrcOf
<1>5. QED
  BY <1>3, <1>4, CrcUpdateType

LEMMA CrcLoop ==
  ASSUME NEW bytes
  PROVE  edge_crc16(bytes) = (CHOOSE crc : CrcOf(crc, bytes, Len(bytes)))[Len(bytes)]
BY DEF edge_crc16, CrcOf

(***************************************************************************)
(* The checksum of a sequence, byte by byte: edge_crc16() and the parser,  *)
(* which calls edge_crc16_update() as the bytes come, agree.               *)
(***************************************************************************)
LEMMA CrcFacts ==
  ASSUME NEW bytes \in Seq(uint8_t)
  PROVE  /\ edge_crc16(bytes) \in uint16_t
         /\ edge_crc16(<<>>) = EDGE_CRC16_INIT
         /\ \A byte \in uint8_t : edge_crc16(Append(bytes, byte))
                                    = edge_crc16_update(edge_crc16(bytes), byte)
<1> DEFINE Crcs(s) == CHOOSE crc : CrcOf(crc, s, Len(s))
<1>1. \A s \in Seq(uint8_t) : CrcOf(Crcs(s), s, Len(s)) /\ edge_crc16(s) = Crcs(s)[Len(s)]
  <2> TAKE s \in Seq(uint8_t)
  <2>1. \E crc : CrcOf(crc, s, Len(s))
    BY CrcExists
  <2>2. CrcOf(Crcs(s), s, Len(s))
    BY <2>1
  <2>3. QED
    BY <2>2, CrcLoop
<1> HIDE DEF Crcs
<1>2. edge_crc16(bytes) \in uint16_t
  BY <1>1, CrcTyped
<1>3. edge_crc16(<<>>) = EDGE_CRC16_INIT
  <2>1. <<>> \in Seq(uint8_t) /\ Len(<<>>) = 0
    OBVIOUS
  <2>2. CrcOf(Crcs(<<>>), <<>>, 0) /\ edge_crc16(<<>>) = Crcs(<<>>)[0]
    BY <1>1, <2>1
  <2>3. QED
    BY <2>2 DEF CrcOf
<1>4. ASSUME NEW byte \in uint8_t
      PROVE  edge_crc16(Append(bytes, byte)) = edge_crc16_update(edge_crc16(bytes), byte)
  <2> DEFINE more == Append(bytes, byte)
             n == Len(bytes)
  <2>1. /\ more \in Seq(uint8_t) /\ Len(more) = n + 1 /\ more[n + 1] = byte
        /\ n \in Nat /\ \A i \in 1 .. n : bytes[i] = more[i]
    OBVIOUS
  <2>2. CrcOf(Crcs(more), more, n + 1) /\ edge_crc16(more) = Crcs(more)[n + 1]
    BY <1>1, <2>1
  <2>3. CrcOf(Crcs(bytes), bytes, n) /\ edge_crc16(bytes) = Crcs(bytes)[n]
    BY <1>1
  <2> HIDE DEF more
  <2>4. Crcs(bytes)[n] = Crcs(more)[n]
    BY <2>1, <2>2, <2>3, CrcDetermined
  <2>5. Crcs(more)[n + 1] = edge_crc16_update(Crcs(more)[n], byte)
    BY <2>1, <2>2 DEF CrcOf
  <2>6. QED
    BY <2>2, <2>3, <2>4, <2>5 DEF more
<1>5. QED
  BY <1>2, <1>3, <1>4

(***************************************************************************)
(* The frame on the line, byte by byte.                                    *)
(***************************************************************************)
Code(f) == edge_frame_encode(f.type, f.payload)
Body(type, payload) == <<1 + Len(payload), type>> \o payload

SendableFrame == {f \in FrameRecord : Len(f.payload) < EDGE_LEN_MAX}

LEMMA BodyFacts ==
  ASSUME NEW type \in uint8_t, NEW payload \in Seq(uint8_t), Len(payload) < 255
  PROVE  /\ Body(type, payload) \in Seq(uint8_t)
         /\ Len(Body(type, payload)) = Len(payload) + 2
         /\ Body(type, payload)[1] = 1 + Len(payload)
         /\ Body(type, payload)[2] = type
         /\ \A i \in 1 .. Len(payload) : Body(type, payload)[2 + i] = payload[i]
<1> DEFINE head == <<1 + Len(payload), type>>
<1>1. Len(payload) \in Nat /\ 1 + Len(payload) \in uint8_t
  <2>1. Len(payload) \in Nat
    OBVIOUS
  <2>2. ASSUME NEW k \in Nat, k < 255 PROVE 1 + k \in uint8_t
    BY <2>2 DEF uint8_t
  <2>3. QED
    BY <2>1, <2>2
<1>2. head \in Seq(uint8_t) /\ Len(head) = 2
  BY <1>1
<1>3. head[1] = 1 + Len(payload) /\ head[2] = type
  OBVIOUS
<1> HIDE DEF head
<1>4. Body(type, payload) = head \o payload
  BY DEF Body, head
<1>5. QED
  <2>0. Concatenated(head, payload, 2, Len(payload))
    BY <1>2, ConcatFacts, Zenon
  <2>1. /\ head \o payload \in Seq(uint8_t)
        /\ Len(head \o payload) = 2 + Len(payload)
        /\ \A i \in 1 .. 2 : (head \o payload)[i] = head[i]
        /\ \A i \in 1 .. Len(payload) : (head \o payload)[2 + i] = payload[i]
    BY <2>0, Zenon DEF Concatenated
  <2>2. QED
    BY <1>1, <1>3, <1>4, <2>1

LEMMA CodeFacts ==
  ASSUME NEW f \in SendableFrame
  PROVE  LET n   == Len(f.payload)
             crc == edge_crc16(Body(f.type, f.payload))
         IN  /\ Code(f) \in Seq(uint8_t) /\ Len(Code(f)) = n + 6 /\ n \in Nat
             /\ Code(f)[1] = EDGE_HDR0 /\ Code(f)[2] = EDGE_HDR1
             /\ Code(f)[3] = 1 + n /\ Code(f)[4] = f.type
             /\ \A i \in 1 .. n : Code(f)[4 + i] = f.payload[i]
             /\ Code(f)[n + 5] = crc % 256 /\ Code(f)[n + 6] = crc \div 256
<1> DEFINE n    == Len(f.payload)
           body == Body(f.type, f.payload)
           crc  == edge_crc16(body)
           head == <<EDGE_HDR0, EDGE_HDR1>>
           tail == <<crc % 256, crc \div 256>>
<1>1. f.type \in uint8_t /\ f.payload \in Seq(uint8_t) /\ n \in Nat /\ n < 255
  BY ParserConstants DEF SendableFrame, FrameRecord
<1>2. /\ body \in Seq(uint8_t) /\ Len(body) = n + 2
      /\ body[1] = 1 + n /\ body[2] = f.type
      /\ \A i \in 1 .. n : body[2 + i] = f.payload[i]
  BY <1>1, BodyFacts
<1>3. Code(f) = (head \o body) \o tail
  BY DEF Code, edge_frame_encode, Body
<1> HIDE DEF n, body
<1>4. crc \in Nat /\ crc <= 65535
  BY <1>2, CrcFacts DEF uint16_t
<1> HIDE DEF crc
<1>5. crc % 256 \in uint8_t /\ crc \div 256 \in uint8_t
  BY <1>4 DEF uint8_t
<1>6. /\ tail \in Seq(uint8_t) /\ Len(tail) = 2
      /\ tail[1] = crc % 256 /\ tail[2] = crc \div 256
  BY <1>5
<1>7. /\ head \in Seq(uint8_t) /\ Len(head) = 2
      /\ head[1] = EDGE_HDR0 /\ head[2] = EDGE_HDR1
  BY DEF uint8_t, EDGE_HDR0, EDGE_HDR1
<1> HIDE DEF head, tail
<1>8. /\ head \o body \in Seq(uint8_t) /\ Len(head \o body) = n + 4
      /\ (head \o body)[1] = EDGE_HDR0 /\ (head \o body)[2] = EDGE_HDR1
      /\ (head \o body)[3] = 1 + n /\ (head \o body)[4] = f.type
      /\ \A i \in 1 .. n : (head \o body)[4 + i] = f.payload[i]
  <2>0. Concatenated(head, body, 2, n + 2)
    BY <1>2, <1>7, ConcatFacts, Zenon
  <2>1. /\ head \o body \in Seq(uint8_t) /\ Len(head \o body) = 2 + (n + 2)
        /\ \A i \in 1 .. 2 : (head \o body)[i] = head[i]
        /\ \A i \in 1 .. n + 2 : (head \o body)[2 + i] = body[i]
    BY <2>0, Zenon DEF Concatenated
  <2>2. \A i \in 1 .. n : 2 + i \in 1 .. n + 2 /\ 2 + (2 + i) = 4 + i
    BY <1>1
  <2>3. \A i \in 1 .. n : (head \o body)[4 + i] = body[2 + i]
    BY <2>1, <2>2
  <2>4. (head \o body)[3] = body[1] /\ (head \o body)[4] = body[2]
    BY <1>1, <2>1
  <2>5. QED
    BY <1>1, <1>2, <1>7, <2>1, <2>3, <2>4
<1> DEFINE front == head \o body
<1> HIDE DEF front
<1>9. /\ front \in Seq(uint8_t) /\ Len(front) = n + 4 /\ Code(f) = front \o tail
      /\ front[1] = EDGE_HDR0 /\ front[2] = EDGE_HDR1
      /\ front[3] = 1 + n /\ front[4] = f.type
      /\ \A i \in 1 .. n : front[4 + i] = f.payload[i]
  BY <1>3, <1>8, Zenon DEF front
<1>10. /\ Code(f) \in Seq(uint8_t) /\ Len(Code(f)) = n + 6
       /\ \A i \in 1 .. n + 4 : Code(f)[i] = front[i]
       /\ Code(f)[n + 5] = tail[1] /\ Code(f)[n + 6] = tail[2]
  <2>0. Concatenated(front, tail, n + 4, 2)
    <3>1. front \in Seq(uint8_t) /\ Len(front) = n + 4
      BY <1>9
    <3>2. tail \in Seq(uint8_t) /\ Len(tail) = 2
      BY <1>6
    <3>3. QED
      BY <3>1, <3>2, ConcatFacts, Zenon
  <2>1. /\ front \o tail \in Seq(uint8_t) /\ Len(front \o tail) = (n + 4) + 2
        /\ \A i \in 1 .. n + 4 : (front \o tail)[i] = front[i]
        /\ \A i \in 1 .. 2 : (front \o tail)[(n + 4) + i] = tail[i]
    BY <2>0, Zenon DEF Concatenated
  <2>2. (front \o tail)[n + 5] = tail[1] /\ (front \o tail)[n + 6] = tail[2]
    <3>1. (n + 4) + 1 = n + 5 /\ (n + 4) + 2 = n + 6
      BY <1>1
    <3>2. 1 \in 1 .. 2 /\ 2 \in 1 .. 2
      OBVIOUS
    <3>3. QED
      BY <2>1, <3>1, <3>2, Zenon
  <2>3. (n + 4) + 2 = n + 6
    BY <1>1
  <2>4. QED
    BY <1>9, <2>1, <2>2, <2>3, Zenon
<1>11. \A i \in 1 .. n : Code(f)[4 + i] = f.payload[i]
  <2> TAKE i \in 1 .. n
  <2>1. 4 + i \in 1 .. n + 4
    BY <1>1
  <2>2. Code(f)[4 + i] = front[4 + i]
    BY <1>10, <2>1
  <2>3. front[4 + i] = f.payload[i]
    BY <1>9
  <2>4. QED
    BY <2>2, <2>3
<1>12. /\ Code(f)[1] = EDGE_HDR0 /\ Code(f)[2] = EDGE_HDR1
       /\ Code(f)[3] = 1 + n /\ Code(f)[4] = f.type
  <2>1. {1, 2, 3, 4} \subseteq 1 .. n + 4
    BY <1>1
  <2>2. \A i \in {1, 2, 3, 4} : Code(f)[i] = front[i]
    BY <1>10, <2>1
  <2>3. QED
    BY <1>9, <2>2
<1>13. Code(f)[n + 5] = crc % 256 /\ Code(f)[n + 6] = crc \div 256
  BY <1>6, <1>10
<1>14. QED
  BY <1>1, <1>10, <1>11, <1>12, <1>13, Zenon DEF n, crc, body

(***************************************************************************)
(* What the parser has taken for the begin of a frame: how many bytes, and *)
(* which.  Its checksum is that of the bytes after the header, and its     *)
(* payload is as long as its state and LEN say.                            *)
(***************************************************************************)
Count(p) ==
  CASE p.state = "HDR0" -> 0 [] p.state = "HDR1" -> 1
    [] p.state = "LEN" -> 2 [] p.state = "TYPE" -> 3
    [] p.state \in {"PAYLOAD", "CRC_LO"} -> 4 + Len(p.payload)
    [] p.state = "CRC_HI" -> 5 + Len(p.payload)

Taken(p, i) ==
  CASE i = 1 -> EDGE_HDR0 [] i = 2 -> EDGE_HDR1 [] i = 3 -> p.len [] i = 4 -> p.type
    [] i > 4 -> IF i <= 4 + Len(p.payload) THEN p.payload[i - 4] ELSE p.crc_lo

Covered(len, type, payload) == <<len, type>> \o payload

ParserRecord ==
  [state : {"HDR0", "HDR1", "LEN", "TYPE", "PAYLOAD", "CRC_LO", "CRC_HI"},
   len : uint8_t, type : uint8_t, payload : Seq(uint8_t),
   crc : uint16_t, crc_lo : uint8_t]

ParserInv(p) ==
  /\ p \in ParserRecord /\ p.len <= EDGE_LEN_MAX
  /\ p.state \in {"TYPE", "PAYLOAD", "CRC_LO", "CRC_HI"} => p.len >= EDGE_LEN_MIN
  /\ p.state = "LEN" => p.crc = EDGE_CRC16_INIT
  /\ p.state = "TYPE" => p.crc = edge_crc16(<<p.len>>)
  /\ p.state \in {"PAYLOAD", "CRC_LO", "CRC_HI"} =>
       p.crc = edge_crc16(Covered(p.len, p.type, p.payload))
  /\ p.state = "PAYLOAD" => Len(p.payload) < p.len - 1
  /\ p.state \in {"CRC_LO", "CRC_HI"} => Len(p.payload) = p.len - 1

\* A byte is the next of the frame, for all the parser can tell.
TakesByte(p, q, byte) ==
  /\ Count(q) = Count(p) + 1
  /\ \A i \in 1 .. Count(p) : Taken(q, i) = Taken(p, i)
  /\ Taken(q, Count(q)) = byte

LEMMA CoveredFirst ==
  ASSUME NEW len \in uint8_t, NEW type \in uint8_t
  PROVE  /\ edge_crc16(<<len>>) = edge_crc16_update(EDGE_CRC16_INIT, len)
         /\ edge_crc16(Covered(len, type, <<>>))
              = edge_crc16_update(edge_crc16(<<len>>), type)
<1>1. edge_crc16(<<len>>) = edge_crc16_update(EDGE_CRC16_INIT, len)
  <2>1. <<>> \in Seq(uint8_t) /\ <<len>> = Append(<<>>, len)
    OBVIOUS
  <2>2. QED
    BY <2>1, CrcFacts
<1>2. edge_crc16(Covered(len, type, <<>>)) = edge_crc16_update(edge_crc16(<<len>>), type)
  <2>1. <<len>> \in Seq(uint8_t) /\ <<len, type>> \o <<>> = Append(<<len>>, type)
    OBVIOUS
  <2>2. QED
    BY <2>1, CrcFacts DEF Covered
<1>3. QED
  BY <1>1, <1>2

LEMMA CoveredMore ==
  ASSUME NEW len \in uint8_t, NEW type \in uint8_t, NEW payload \in Seq(uint8_t),
         NEW byte \in uint8_t
  PROVE  edge_crc16(Covered(len, type, Append(payload, byte)))
           = edge_crc16_update(edge_crc16(Covered(len, type, payload)), byte)
<1> DEFINE head == <<len, type>>
<1>1. head \in Seq(uint8_t)
  OBVIOUS
<1> HIDE DEF head
<1>2. head \o payload \in Seq(uint8_t)
      /\ head \o Append(payload, byte) = Append(head \o payload, byte)
  BY <1>1
<1>3. edge_crc16(head \o Append(payload, byte))
        = edge_crc16_update(edge_crc16(head \o payload), byte)
  BY <1>2, CrcFacts
<1>4. QED
  BY <1>3 DEF head, Covered

LEMMA SearchingFacts ==
  /\ ParserInv(Searching) /\ Count(Searching) = 0
  /\ \A p \in ParserRecord : p.state = "HDR0" <=> Count(p) = 0
<1>1. ParserConstants
  BY ParserConstants
<1>2. ParserInv(Searching)
  BY <1>1 DEF ParserInv, ParserRecord, Searching, uint8_t, uint16_t, EDGE_CRC16_INIT,
              ParserConstants, EDGE_LEN_MIN
<1>3. QED
  BY <1>2 DEF Count, ParserRecord, Searching

(***************************************************************************)
(* edge_parser_feed(): a byte is taken as the next of the frame, or it is  *)
(* a second first byte, or the parser searches again.                      *)
(***************************************************************************)
LEMMA FeedFacts ==
  ASSUME NEW p, ParserInv(p), NEW byte \in uint8_t
  PROVE  LET q == edge_parser_feed(p, byte)
         IN  /\ ParserInv(q)
             /\ \/ q.state = "HDR0"
                \/ TakesByte(p, q, byte)
                \/ p.state = "HDR1" /\ byte = EDGE_HDR0 /\ q = p
<1> DEFINE q == edge_parser_feed(p, byte)
<1>0. /\ p \in ParserRecord /\ p.len <= EDGE_LEN_MAX /\ EDGE_LEN_MAX \in Nat
      /\ EDGE_LEN_MAX <= 255
  BY ParserConstants DEF ParserInv, EDGE_LEN_MIN
<1>1. p.state \in {"HDR0", "HDR1", "LEN", "TYPE", "PAYLOAD", "CRC_LO", "CRC_HI"}
  BY <1>0 DEF ParserRecord
<1> SUFFICES /\ ParserInv(q)
             /\ \/ q.state = "HDR0"
                \/ TakesByte(p, q, byte)
                \/ p.state = "HDR1" /\ byte = EDGE_HDR0 /\ q = p
  OBVIOUS
<1>2. CASE p.state = "HDR0"
  <2>1. q = [p EXCEPT !.state = IF byte = EDGE_HDR0 THEN "HDR1" ELSE "HDR0"]
    BY <1>0, <1>2 DEF edge_parser_feed, ParserRecord
  <2>2. ParserInv(q)
    BY <1>2, <2>1 DEF ParserInv, ParserRecord
  <2>3. q.state = "HDR0" \/ (q.state = "HDR1" /\ byte = EDGE_HDR0)
    BY <1>0, <2>1 DEF ParserRecord
  <2>4. QED
    BY <1>2, <2>2, <2>3 DEF TakesByte, Count, Taken
<1>3. CASE p.state = "HDR1"
  <2>1. q = OnHdr1(p, byte)
    BY <1>3 DEF edge_parser_feed
  <2>2. CASE byte = EDGE_HDR1
    <3>1. q = [p EXCEPT !.state = "LEN", !.crc = EDGE_CRC16_INIT]
      BY <2>1, <2>2 DEF OnHdr1, EDGE_HDR0, EDGE_HDR1
    <3>2. EDGE_CRC16_INIT \in uint16_t
      BY DEF EDGE_CRC16_INIT, uint16_t
    <3>3. ParserInv(q) /\ q.state = "LEN"
      BY <1>0, <3>1, <3>2 DEF ParserInv, ParserRecord
    <3>4. TakesByte(p, q, byte)
      BY <1>3, <2>2, <3>3 DEF TakesByte, Count, Taken
    <3>5. QED
      BY <3>3, <3>4
  <2>3. CASE byte = EDGE_HDR0
    BY <1>3, <2>1, <2>3 DEF OnHdr1, EDGE_HDR0, EDGE_HDR1
  <2>4. CASE byte # EDGE_HDR0 /\ byte # EDGE_HDR1
    <3>1. q = [p EXCEPT !.state = "HDR0"]
      BY <2>1, <2>4 DEF OnHdr1
    <3>2. QED
      BY <1>0, <3>1 DEF ParserInv, ParserRecord
  <2>5. QED
    BY <2>2, <2>3, <2>4
<1>4. CASE p.state = "LEN"
  <2>1. q = OnLen(p, byte)
    BY <1>4 DEF edge_parser_feed
  <2>2. CASE LenValid(byte)
    <3>1. q = [p EXCEPT !.state = "TYPE", !.len = byte,
                        !.crc = edge_crc16_update(p.crc, byte)]
      BY <2>1, <2>2 DEF OnLen
    <3>2. p.crc \in uint16_t /\ p.crc = EDGE_CRC16_INIT
      BY <1>0, <1>4 DEF ParserInv, ParserRecord
    <3>3. edge_crc16_update(p.crc, byte) \in uint16_t
      BY <3>2, CrcUpdateType
    <3>4. edge_crc16_update(p.crc, byte) = edge_crc16(<<byte>>)
      BY <1>0, <3>2, CoveredFirst DEF ParserRecord
    <3>5. /\ q \in ParserRecord /\ q.state = "TYPE" /\ q.len = byte
          /\ q.crc = edge_crc16(<<byte>>)
      BY <1>0, <3>1, <3>3, <3>4 DEF ParserRecord
    <3>6. ParserInv(q)
      BY <2>2, <3>5 DEF ParserInv, LenValid
    <3>7. TakesByte(p, q, byte)
      BY <1>4, <3>5 DEF TakesByte, Count, Taken
    <3>8. QED
      BY <3>6, <3>7
  <2>3. CASE ~LenValid(byte)
    BY <2>1, <2>3, SearchingFacts DEF OnLen, Searching
  <2>4. QED
    BY <2>2, <2>3
<1>5. CASE p.state = "TYPE"
  <2>1. q = [p EXCEPT !.state = IF p.len = EDGE_LEN_MIN THEN "CRC_LO" ELSE "PAYLOAD",
                      !.type = byte, !.payload = <<>>,
                      !.crc = edge_crc16_update(p.crc, byte)]
    BY <1>5 DEF edge_parser_feed, OnType
  <2>2. p.crc \in uint16_t /\ p.len \in uint8_t /\ p.crc = edge_crc16(<<p.len>>)
    BY <1>0, <1>5 DEF ParserInv, ParserRecord
  <2>3. edge_crc16_update(p.crc, byte) \in uint16_t
    BY <2>2, CrcUpdateType
  <2>4. edge_crc16_update(p.crc, byte) = edge_crc16(Covered(p.len, byte, <<>>))
    BY <1>0, <2>2, CoveredFirst DEF ParserRecord
  <2>5. /\ q \in ParserRecord /\ q.len = p.len /\ q.type = byte /\ q.payload = <<>>
        /\ q.state = IF p.len = EDGE_LEN_MIN THEN "CRC_LO" ELSE "PAYLOAD"
        /\ q.crc = edge_crc16_update(p.crc, byte)
    <3> DEFINE state == IF p.len = EDGE_LEN_MIN THEN "CRC_LO" ELSE "PAYLOAD"
               crc == edge_crc16_update(p.crc, byte)
    <3>1. state \in {"PAYLOAD", "CRC_LO"} /\ <<>> \in Seq(uint8_t) /\ crc \in uint16_t
      BY <2>3
    <3>2. q = [p EXCEPT !.state = state, !.type = byte, !.payload = <<>>, !.crc = crc]
      BY <2>1
    <3> HIDE DEF state, crc
    <3>3. /\ q \in ParserRecord /\ q.len = p.len /\ q.type = byte
          /\ q.payload = <<>> /\ q.state = state /\ q.crc = crc
      BY <1>0, <3>1, <3>2 DEF ParserRecord
    <3>4. QED
      BY <3>3 DEF state, crc
  <2>6. q.crc = edge_crc16(Covered(q.len, q.type, q.payload))
    BY <2>4, <2>5
  <2>7. p.len >= EDGE_LEN_MIN /\ p.len \in Nat
    BY <1>5, <2>2 DEF ParserInv, uint8_t
  <2>8. ParserInv(q)
    BY <1>0, <2>5, <2>6, <2>7 DEF ParserInv, EDGE_LEN_MIN
  <2>9. TakesByte(p, q, byte)
    BY <1>5, <2>5 DEF TakesByte, Count, Taken
  <2>10. QED
    BY <2>8, <2>9
<1>6. CASE p.state = "PAYLOAD"
  <2>1. q = [p EXCEPT !.state = IF Len(p.payload) + 1 >= p.len - 1 THEN "CRC_LO" ELSE "PAYLOAD",
                      !.payload = Append(p.payload, byte),
                      !.crc = edge_crc16_update(p.crc, byte)]
    BY <1>0, <1>6 DEF edge_parser_feed, OnPayload, ParserRecord
  <2>2. /\ p.crc \in uint16_t /\ p.len \in Nat /\ p.payload \in Seq(uint8_t)
        /\ p.len \in uint8_t /\ p.type \in uint8_t
        /\ p.crc = edge_crc16(Covered(p.len, p.type, p.payload)) /\ Len(p.payload) < p.len - 1
        /\ p.len >= EDGE_LEN_MIN
    <3>1. /\ p.crc \in uint16_t /\ p.len \in uint8_t /\ p.type \in uint8_t
          /\ p.payload \in Seq(uint8_t)
      BY <1>0 DEF ParserRecord
    <3>2. /\ p.crc = edge_crc16(Covered(p.len, p.type, p.payload)) /\ Len(p.payload) < p.len - 1
          /\ p.len >= EDGE_LEN_MIN
      BY <1>6 DEF ParserInv
    <3>3. p.len \in Nat
      <4>1. p.len \in uint8_t
        BY <3>1
      <4>2. QED
        BY <4>1 DEF uint8_t
    <3>4. QED
      BY <3>1, <3>2, <3>3, Zenon
  <2>3. edge_crc16_update(p.crc, byte) \in uint16_t
    BY <2>2, CrcUpdateType
  <2>4. edge_crc16_update(p.crc, byte)
          = edge_crc16(Covered(p.len, p.type, Append(p.payload, byte)))
    <3>1. \A len \in uint8_t, type \in uint8_t, payload \in Seq(uint8_t) :
             edge_crc16(Covered(len, type, Append(payload, byte)))
               = edge_crc16_update(edge_crc16(Covered(len, type, payload)), byte)
      BY CoveredMore
    <3>2. edge_crc16(Covered(p.len, p.type, Append(p.payload, byte)))
            = edge_crc16_update(edge_crc16(Covered(p.len, p.type, p.payload)), byte)
      BY <2>2, <3>1
    <3>3. p.crc = edge_crc16(Covered(p.len, p.type, p.payload))
      BY <2>2
    <3>4. QED
      BY <3>2, <3>3, Zenon
  <2>5. /\ q \in ParserRecord /\ q.len = p.len /\ q.type = p.type
        /\ q.payload = Append(p.payload, byte)
        /\ q.state = IF Len(p.payload) + 1 >= p.len - 1 THEN "CRC_LO" ELSE "PAYLOAD"
        /\ q.crc = edge_crc16_update(p.crc, byte)
    <3> DEFINE state == IF Len(p.payload) + 1 >= p.len - 1 THEN "CRC_LO" ELSE "PAYLOAD"
               crc == edge_crc16_update(p.crc, byte)
               payload == Append(p.payload, byte)
    <3>1. /\ state \in {"PAYLOAD", "CRC_LO"} /\ payload \in Seq(uint8_t)
          /\ crc \in uint16_t
      BY <2>2, <2>3
    <3>2. q = [p EXCEPT !.state = state, !.payload = payload, !.crc = crc]
      BY <2>1
    <3> HIDE DEF state, crc, payload
    <3>3. /\ q \in ParserRecord /\ q.len = p.len /\ q.type = p.type
          /\ q.payload = payload /\ q.state = state /\ q.crc = crc
      BY <1>0, <3>1, <3>2 DEF ParserRecord
    <3>4. QED
      BY <3>3 DEF state, crc, payload
  <2>6. q.crc = edge_crc16(Covered(q.len, q.type, q.payload))
    BY <2>4, <2>5
  <2>7. /\ Len(q.payload) = Len(p.payload) + 1 /\ Len(p.payload) \in Nat
        /\ q.payload[Len(q.payload)] = byte
        /\ \A i \in 1 .. Len(p.payload) : q.payload[i] = p.payload[i]
    BY <2>2, <2>5
  <2>8. ParserInv(q)
    <3>1. q.state = "PAYLOAD" => Len(q.payload) < q.len - 1
      BY <2>2, <2>5, <2>7
    <3>2. q.state = "CRC_LO" => Len(q.payload) = q.len - 1
      BY <2>2, <2>5, <2>7
    <3>3. q.state \in {"PAYLOAD", "CRC_LO"}
      BY <2>5
    <3>4. QED
      BY <1>0, <2>2, <2>5, <2>6, <3>1, <3>2, <3>3 DEF ParserInv
  <2>9. Count(q) = 4 + Len(q.payload) /\ Count(p) = 4 + Len(p.payload)
    BY <1>6, <2>5 DEF Count
  <2>10. TakesByte(p, q, byte)
    <3>1. Count(q) = Count(p) + 1
      BY <2>7, <2>9
    <3>2. ASSUME NEW i \in 1 .. Count(p) PROVE Taken(q, i) = Taken(p, i)
      <4>1. CASE i <= 4
        BY <2>5, <4>1 DEF Taken
      <4>2. CASE i > 4
        <5>1. i - 4 \in 1 .. Len(p.payload) /\ i <= 4 + Len(p.payload)
              /\ i <= 4 + Len(q.payload)
          BY <2>7, <2>9, <4>2
        <5>2. Taken(q, i) = q.payload[i - 4] /\ Taken(p, i) = p.payload[i - 4]
          BY <4>2, <5>1 DEF Taken
        <5>3. QED
          BY <2>7, <5>1, <5>2
      <4>3. i \in Nat
        BY <2>7, <2>9
      <4>4. QED
        BY <4>1, <4>2, <4>3
    <3>3. Taken(q, Count(q)) = byte
      <4>1. /\ Count(q) \in Nat /\ Count(q) > 4 /\ Count(q) <= 4 + Len(q.payload)
            /\ Count(q) - 4 = Len(q.payload)
        BY <2>7, <2>9
      <4>2. Taken(q, Count(q)) = q.payload[Count(q) - 4]
        BY <4>1 DEF Taken
      <4>3. QED
        BY <2>7, <4>1, <4>2
    <3>4. QED
      BY <3>1, <3>2, <3>3 DEF TakesByte
  <2>11. QED
    BY <2>8, <2>10
<1>7. CASE p.state = "CRC_LO"
  <2>1. q = [p EXCEPT !.state = "CRC_HI", !.crc_lo = byte]
    BY <1>7 DEF edge_parser_feed
  <2>2. p.payload \in Seq(uint8_t) /\ Len(p.payload) \in Nat
    BY <1>0 DEF ParserRecord
  <2>3. /\ q \in ParserRecord /\ q.state = "CRC_HI" /\ q.len = p.len /\ q.type = p.type
        /\ q.payload = p.payload /\ q.crc = p.crc /\ q.crc_lo = byte
    BY <1>0, <2>1 DEF ParserRecord
  <2>4. ParserInv(q)
    BY <1>0, <1>7, <2>3 DEF ParserInv
  <2>5. Count(q) = 5 + Len(p.payload) /\ Count(p) = 4 + Len(p.payload)
    BY <1>7, <2>3 DEF Count
  <2>6. TakesByte(p, q, byte)
    <3>1. Count(q) = Count(p) + 1
      BY <2>2, <2>5
    <3>2. ASSUME NEW i \in 1 .. Count(p) PROVE Taken(q, i) = Taken(p, i)
      <4>1. i \in Nat /\ i <= 4 + Len(p.payload)
        BY <2>2, <2>5
      <4>2. QED
        BY <2>3, <4>1 DEF Taken
    <3>3. Taken(q, Count(q)) = byte
      <4>1. Count(q) \in Nat /\ Count(q) > 4 /\ ~(Count(q) <= 4 + Len(q.payload))
        BY <2>2, <2>3, <2>5
      <4>2. QED
        BY <2>3, <4>1 DEF Taken
    <3>4. QED
      BY <3>1, <3>2, <3>3 DEF TakesByte
  <2>7. QED
    BY <2>4, <2>6
<1>8. CASE p.state = "CRC_HI"
  <2>1. q = OnCrcHi(p, byte)
    BY <1>8 DEF edge_parser_feed
  <2>2. CASE CrcMatches(p, byte)
    <3>1. q = [p EXCEPT !.state = "HDR0"]
      BY <2>1, <2>2 DEF OnCrcHi
    <3>2. QED
      BY <1>0, <3>1 DEF ParserInv, ParserRecord
  <2>3. CASE ~CrcMatches(p, byte)
    BY <2>1, <2>3, SearchingFacts DEF OnCrcHi, Searching
  <2>4. QED
    BY <2>2, <2>3
<1>9. QED
  BY <1>1, <1>2, <1>3, <1>4, <1>5, <1>6, <1>7, <1>8

-----------------------------------------------------------------------------
(***************************************************************************)
(* edge_parser_deliver(): what is delivered is what was taken.             *)
(***************************************************************************)
LEMMA DeliverFacts ==
  ASSUME NEW p, ParserInv(p), NEW byte \in uint8_t, Delivers(p, byte)
  PROVE  LET f == Delivery(p)
         IN  /\ f \in SendableFrame
             /\ Len(Code(f)) = Count(p) + 1
             /\ \A i \in 1 .. Count(p) : Code(f)[i] = Taken(p, i)
             /\ Code(f)[Count(p) + 1] = byte
<1> DEFINE f == Delivery(p)
           n == Len(p.payload)
           code == Code(f)
<1>1. /\ p \in ParserRecord /\ p.state = "CRC_HI" /\ p.len <= EDGE_LEN_MAX
      /\ p.crc = edge_crc16(Covered(p.len, p.type, p.payload)) /\ n = p.len - 1
      /\ byte * 256 + p.crc_lo = p.crc
  BY DEF ParserInv, Delivers, CrcMatches
<1>2. /\ p.payload \in Seq(uint8_t) /\ p.type \in uint8_t /\ n \in Nat
      /\ p.crc_lo \in uint8_t
  BY <1>1 DEF ParserRecord
<1>3. p.len \in Nat
  <2>1. p.len \in uint8_t
    BY <1>1 DEF ParserRecord
  <2>2. QED
    BY <2>1 DEF uint8_t
<1>4. f \in SendableFrame /\ f.payload = p.payload /\ f.type = p.type
  <2>1. f \in FrameRecord /\ f.payload = p.payload /\ f.type = p.type
    BY <1>2 DEF Delivery, FrameRecord
  <2>2. n < EDGE_LEN_MAX /\ EDGE_LEN_MAX \in Nat
    BY <1>1, <1>2, <1>3, ParserConstants DEF EDGE_LEN_MIN
  <2>3. QED
    BY <2>1, <2>2 DEF SendableFrame
<1>5. p.crc = edge_crc16(Body(f.type, f.payload))
  <2>1. p.len = 1 + n
    BY <1>1, <1>2, <1>3
  <2>2. Covered(p.len, p.type, p.payload) = Body(f.type, f.payload)
    BY <1>4, <2>1, Zenon DEF Covered, Body
  <2>3. QED
    BY <1>1, <2>2
<1>6. p.crc % 256 = p.crc_lo /\ p.crc \div 256 = byte
  <2>1. ASSUME NEW hi \in Nat, NEW lo \in Nat, lo <= 255
        PROVE  (hi * 256 + lo) % 256 = lo /\ (hi * 256 + lo) \div 256 = hi
    BY <2>1
  <2>2. byte \in Nat /\ p.crc_lo \in Nat /\ p.crc_lo <= 255
    <3>1. \A b \in uint8_t : b \in Nat /\ b <= 255
      BY DEF uint8_t
    <3>2. QED
      BY <1>2, <3>1
  <2>3. QED
    BY <1>1, <2>1, <2>2
<1> DEFINE g == f.payload
           crc == edge_crc16(Body(f.type, f.payload))
<1>7. /\ Len(code) = n + 6
      /\ code[1] = EDGE_HDR0 /\ code[2] = EDGE_HDR1
      /\ code[3] = 1 + n /\ code[4] = p.type
      /\ \A i \in 1 .. n : code[4 + i] = p.payload[i]
      /\ code[n + 5] = p.crc % 256 /\ code[n + 6] = p.crc \div 256
  <2> HIDE DEF f
  <2>1. /\ Len(code) = Len(g) + 6
        /\ code[1] = EDGE_HDR0 /\ code[2] = EDGE_HDR1
        /\ code[3] = 1 + Len(g) /\ code[4] = f.type
        /\ \A i \in 1 .. Len(g) : code[4 + i] = g[i]
        /\ code[Len(g) + 5] = crc % 256 /\ code[Len(g) + 6] = crc \div 256
    <3>1. f \in SendableFrame
      BY <1>4
    <3>2. QED
      BY <3>1, CodeFacts
  <2>2. g = p.payload /\ crc = p.crc /\ f.type = p.type
    BY <1>4, <1>5
  <2> HIDE DEF g, crc, code
  <2>3. QED
    BY <2>1, <2>2, Zenon
<1> HIDE DEF f, code
<1>8. Count(p) = 5 + n
  BY <1>1 DEF Count
<1>9. ASSUME NEW i \in 1 .. Count(p) PROVE code[i] = Taken(p, i)
  <2>1. i \in Nat /\ i >= 1 /\ i <= 5 + n
    BY <1>2, <1>8
  <2>2. CASE i <= 4
    <3>1. 1 + n = p.len
      BY <1>1, <1>2, <1>3
    <3>2. i \in {1, 2, 3, 4}
      BY <2>1, <2>2
    <3>3. QED
      BY <1>7, <3>1, <3>2 DEF Taken
  <2>3. CASE 4 < i /\ i <= 4 + n
    <3>1. i - 4 \in 1 .. n /\ 4 + (i - 4) = i
      BY <1>2, <2>1, <2>3
    <3>2. code[4 + (i - 4)] = p.payload[i - 4]
      BY <1>7, <3>1
    <3>3. Taken(p, i) = p.payload[i - 4]
      BY <2>1, <2>3 DEF Taken
    <3>4. QED
      BY <3>1, <3>2, <3>3
  <2>4. CASE i = n + 5
    <3>1. i > 4 /\ ~(i <= 4 + n)
      BY <1>2, <2>4
    <3>2. Taken(p, i) = p.crc_lo
      BY <2>1, <3>1 DEF Taken
    <3>3. QED
      BY <1>6, <1>7, <2>4, <3>2
  <2>5. QED
    BY <1>2, <2>1, <2>2, <2>3, <2>4
<1>10. Len(code) = Count(p) + 1 /\ code[Count(p) + 1] = byte
  BY <1>2, <1>6, <1>7, <1>8
<1>11. QED
  BY <1>4, <1>9, <1>10 DEF code, f

(***************************************************************************)
(* The parser is within a frame that is being sent: what it has taken and  *)
(* what is still to come are the frame.                                    *)
(***************************************************************************)
InStep(p, rest, f) ==
  /\ p.state # "HDR0"
  /\ Count(p) + Len(rest) = Len(Code(f))
  /\ \A i \in 1 .. Count(p) : Code(f)[i] = Taken(p, i)
  /\ \A i \in 1 .. Len(rest) : rest[i] = Code(f)[Count(p) + i]

\* Its fields are those of the frame.
LEMMA FieldsAgree ==
  ASSUME NEW p, ParserInv(p), NEW f \in SendableFrame,
         \A i \in 1 .. Count(p) : Code(f)[i] = Taken(p, i)
  PROVE  /\ p.state \in {"TYPE", "PAYLOAD", "CRC_LO", "CRC_HI"} =>
              p.len = 1 + Len(f.payload)
         /\ p.state \in {"PAYLOAD", "CRC_LO", "CRC_HI"} => p.type = f.type
         /\ p.state \in {"CRC_LO", "CRC_HI"} => p.payload = f.payload
         /\ p.state = "CRC_HI" =>
              p.crc_lo = edge_crc16(Body(f.type, f.payload)) % 256
<1> DEFINE n == Len(f.payload)
           code == Code(f)
<1>1. /\ p \in ParserRecord /\ p.payload \in Seq(uint8_t) /\ Len(p.payload) \in Nat
      /\ n \in Nat /\ f.payload \in Seq(uint8_t) /\ f \in FrameRecord
  BY DEF ParserInv, ParserRecord, SendableFrame, FrameRecord
<1>2. /\ Len(code) = n + 6
      /\ code[3] = 1 + n /\ code[4] = f.type
      /\ \A i \in 1 .. n : code[4 + i] = f.payload[i]
      /\ code[n + 5] = edge_crc16(Body(f.type, f.payload)) % 256
  BY CodeFacts
<1> HIDE DEF n, code
<1>3. ASSUME p.state \in {"TYPE", "PAYLOAD", "CRC_LO", "CRC_HI"} PROVE p.len = 1 + n
  <2>1. 3 \in 1 .. Count(p)
    BY <1>1, <1>3 DEF Count
  <2>2. code[3] = p.len
    BY <2>1 DEF Taken, code
  <2>3. QED
    BY <1>2, <2>2
<1>4. ASSUME p.state \in {"PAYLOAD", "CRC_LO", "CRC_HI"} PROVE p.type = f.type
  <2>1. 4 \in 1 .. Count(p)
    BY <1>1, <1>4 DEF Count
  <2>2. code[4] = p.type
    BY <2>1 DEF Taken, code
  <2>3. QED
    BY <1>2, <2>2
<1>5. ASSUME p.state \in {"CRC_LO", "CRC_HI"} PROVE p.payload = f.payload
  <2>1. Len(p.payload) = n
    <3>1. p.len = 1 + n /\ Len(p.payload) = p.len - 1
      BY <1>3, <1>5 DEF ParserInv
    <3>2. QED
      BY <1>1, <3>1
  <2>2. ASSUME NEW i \in 1 .. n PROVE p.payload[i] = f.payload[i]
    <3>1. 4 + i \in 1 .. Count(p) /\ 4 + i > 4 /\ 4 + i <= 4 + n /\ (4 + i) - 4 = i
      BY <1>1, <1>5, <2>1 DEF Count
    <3>2. Taken(p, 4 + i) = p.payload[i]
      BY <2>1, <3>1 DEF Taken
    <3>3. code[4 + i] = Taken(p, 4 + i)
      BY <3>1 DEF code
    <3>4. QED
      BY <1>2, <3>2, <3>3
  <2>3. Len(f.payload) = n
    BY DEF n
  <2>4. QED
    BY <1>1, <2>1, <2>2, <2>3
<1>6. ASSUME p.state = "CRC_HI"
      PROVE  p.crc_lo = edge_crc16(Body(f.type, f.payload)) % 256
  <2>1. Len(p.payload) = n
    BY <1>5, <1>6 DEF n
  <2>2. n + 5 \in 1 .. Count(p) /\ n + 5 > 4 /\ ~(n + 5 <= 4 + n)
    BY <1>1, <1>6, <2>1 DEF Count
  <2>3. Taken(p, n + 5) = p.crc_lo
    BY <2>1, <2>2 DEF Taken
  <2>4. code[n + 5] = Taken(p, n + 5)
    BY <2>2 DEF code
  <2>5. QED
    BY <1>2, <2>3, <2>4
<1>7. QED
  BY <1>3, <1>4, <1>5, <1>6 DEF n

LEMMA InStepFacts ==
  ASSUME NEW p, ParserInv(p), NEW f \in SendableFrame, NEW rest \in Seq(uint8_t),
         InStep(p, rest, f)
  PROVE  LET byte == Head(rest)
             q    == edge_parser_feed(p, byte)
         IN  /\ rest # <<>>
             /\ \/ Tail(rest) = <<>> /\ Delivers(p, byte) /\ Delivery(p) = f
                \/ Tail(rest) # <<>> /\ ~Delivers(p, byte) /\ InStep(q, Tail(rest), f)
<1> DEFINE n == Len(f.payload)
           code == Code(f)
           crc == edge_crc16(Body(f.type, f.payload))
           byte == Head(rest)
           q == edge_parser_feed(p, byte)
<1>1. /\ p \in ParserRecord /\ p.payload \in Seq(uint8_t) /\ Len(p.payload) \in Nat
      /\ p.state \in {"HDR0", "HDR1", "LEN", "TYPE", "PAYLOAD", "CRC_LO", "CRC_HI"}
      /\ p.state # "HDR0"
  BY DEF ParserInv, ParserRecord, InStep
<1>2. /\ n \in Nat /\ f \in FrameRecord /\ n < EDGE_LEN_MAX
  BY CodeFacts DEF SendableFrame
<1>3. /\ code \in Seq(uint8_t) /\ Len(code) = n + 6
      /\ code[1] = EDGE_HDR0 /\ code[2] = EDGE_HDR1 /\ code[3] = 1 + n
      /\ code[n + 5] = crc % 256 /\ code[n + 6] = crc \div 256
  BY CodeFacts
<1>4. /\ p.state \in {"TYPE", "PAYLOAD", "CRC_LO", "CRC_HI"} => p.len = 1 + n
      /\ p.state \in {"PAYLOAD", "CRC_LO", "CRC_HI"} => p.type = f.type
      /\ p.state \in {"CRC_LO", "CRC_HI"} => p.payload = f.payload
      /\ p.state = "CRC_HI" => p.crc_lo = crc % 256
  BY FieldsAgree DEF InStep
<1>5. crc \in Nat /\ crc <= 65535
  <2>1. Body(f.type, f.payload) \in Seq(uint8_t)
    <3>1. n < 255 /\ f.type \in uint8_t /\ f.payload \in Seq(uint8_t)
      BY <1>2, ParserConstants DEF FrameRecord, EDGE_LEN_MIN
    <3>2. QED
      BY <3>1, BodyFacts
  <2>2. QED
    BY <2>1, CrcFacts DEF uint16_t
<1> HIDE DEF n, code, crc
<1>6. /\ Count(p) + Len(rest) = Len(code) /\ Len(rest) \in Nat
      /\ \A i \in 1 .. Count(p) : code[i] = Taken(p, i)
      /\ \A i \in 1 .. Len(rest) : rest[i] = code[Count(p) + i]
  BY DEF InStep, code
<1>7. /\ p.state = "PAYLOAD" => Count(p) = 4 + Len(p.payload) /\ Len(p.payload) < n
      /\ p.state = "CRC_LO" => Count(p) = 4 + n
      /\ p.state = "CRC_HI" => Count(p) = 5 + n
  <2>1. p.state = "PAYLOAD" => Len(p.payload) < n
    BY <1>1, <1>2, <1>4 DEF ParserInv
  <2>2. p.state \in {"CRC_LO", "CRC_HI"} => Len(p.payload) = n
    BY <1>4 DEF n
  <2>3. QED
    BY <2>1, <2>2 DEF Count
<1>8. Count(p) \in Nat /\ Count(p) < n + 6 /\ Count(p) >= 1
  BY <1>1, <1>2, <1>7 DEF Count
<1>9. /\ rest # <<>> /\ byte \in uint8_t /\ byte = code[Count(p) + 1]
      /\ Len(rest) = (n + 6) - Count(p) /\ Len(rest) > 0
  <2>1. Len(rest) = (n + 6) - Count(p) /\ Len(rest) > 0
    BY <1>2, <1>3, <1>6, <1>8
  <2>2. rest # <<>> /\ byte = rest[1] /\ byte \in uint8_t
    BY <2>1
  <2>3. QED
    BY <1>6, <2>1, <2>2
<1>10. /\ Tail(rest) \in Seq(uint8_t) /\ Len(Tail(rest)) = Len(rest) - 1
       /\ \A i \in 1 .. Len(rest) - 1 : Tail(rest)[i] = rest[i + 1]
  BY <1>9
<1> HIDE DEF byte
<1>11. CASE p.state = "CRC_HI"
  <2>1. Len(rest) = 1 /\ byte = crc \div 256 /\ p.crc_lo = crc % 256
    BY <1>2, <1>3, <1>4, <1>7, <1>9, <1>11
  <2>2. Tail(rest) = <<>>
    <3>1. Tail(rest) \in Seq(uint8_t) /\ Len(Tail(rest)) = 0
      BY <1>10, <2>1
    <3>2. \A s \in Seq(uint8_t) : Len(s) = 0 => s = <<>>
      OBVIOUS
    <3>3. QED
      BY <3>1, <3>2, Zenon
  <2>3. Delivery(p) = f
    <3>1. p.type = f.type /\ p.payload = f.payload
      BY <1>4, <1>11
    <3>2. f = [type |-> f.type, payload |-> f.payload]
      BY <1>2 DEF FrameRecord
    <3>3. QED
      BY <3>1, <3>2 DEF Delivery
  <2>4. p.crc = crc
    <3>1. p.crc = edge_crc16(Covered(p.len, p.type, p.payload))
      BY <1>11 DEF ParserInv
    <3>2. Covered(p.len, p.type, p.payload) = Body(f.type, f.payload)
      BY <1>4, <1>11 DEF Covered, Body, n
    <3>3. QED
      BY <3>1, <3>2 DEF crc
  <2>5. byte * 256 + p.crc_lo = crc
    <3>1. (crc \div 256) * 256 + (crc % 256) = crc
      BY <1>5
    <3>2. QED
      BY <2>1, <3>1
  <2>6. Delivers(p, byte)
    BY <1>11, <2>4, <2>5 DEF Delivers, CrcMatches
  <2>7. QED
    BY <1>9, <2>2, <2>3, <2>6 DEF byte
<1>12. CASE p.state # "CRC_HI"
  <2>1. ~Delivers(p, byte)
    BY <1>12 DEF Delivers
  <2>2. Count(p) < n + 5
    BY <1>1, <1>2, <1>7, <1>12 DEF Count
  <2>3. Tail(rest) # <<>>
    BY <1>2, <1>8, <1>9, <1>10, <2>2
  <2>4. q.state # "HDR0" /\ TakesByte(p, q, byte)
    <3>1. p.state = "HDR1" => byte = EDGE_HDR1
      BY <1>3, <1>9 DEF Count
    <3>2. p.state = "LEN" => LenValid(byte)
      <4>1. p.state = "LEN" => byte = 1 + n
        BY <1>3, <1>9 DEF Count
      <4>2. QED
        BY <1>2, <4>1, ParserConstants DEF LenValid, EDGE_LEN_MIN
    <3>3. q.state # "HDR0"
      BY <1>1, <1>12, <3>1, <3>2 DEF edge_parser_feed, OnHdr1, OnLen, OnType,
         OnPayload, ParserRecord
    <3>4. EDGE_HDR0 # EDGE_HDR1
      BY DEF EDGE_HDR0, EDGE_HDR1
    <3>5. QED
      BY <1>9, <3>1, <3>3, <3>4, FeedFacts
  <2>5. Count(q) = Count(p) + 1
    BY <2>4 DEF TakesByte
  <2>6. Count(q) + Len(Tail(rest)) = Len(code)
    BY <1>6, <1>8, <1>10, <2>5
  <2>7. ASSUME NEW i \in 1 .. Count(q) PROVE code[i] = Taken(q, i)
    <3>1. CASE i \in 1 .. Count(p)
      BY <1>6, <2>4, <3>1 DEF TakesByte
    <3>2. CASE i = Count(q)
      BY <1>9, <2>4, <2>5, <3>2 DEF TakesByte
    <3>3. QED
      BY <1>8, <2>5, <3>1, <3>2
  <2>8. ASSUME NEW i \in 1 .. Len(Tail(rest)) PROVE Tail(rest)[i] = code[Count(q) + i]
    <3>1. i \in 1 .. Len(rest) - 1 /\ i + 1 \in 1 .. Len(rest)
          /\ Count(p) + (i + 1) = Count(q) + i
      BY <1>6, <1>8, <1>10, <2>5
    <3>2. QED
      BY <1>6, <1>10, <3>1
  <2>9. InStep(q, Tail(rest), f)
    BY <2>4, <2>6, <2>7, <2>8 DEF InStep, code
  <2>10. QED
    BY <1>9, <2>1, <2>3, <2>9 DEF byte
<1>13. QED
  BY <1>11, <1>12

\* A new frame that meets a parser waiting for a header.
LEMMA FirstByte ==
  ASSUME NEW p, ParserInv(p), AwaitsHeader(p), NEW f \in SendableFrame
  PROVE  LET q == edge_parser_feed(p, EDGE_HDR0)
         IN  /\ Head(Code(f)) = EDGE_HDR0 /\ Tail(Code(f)) # <<>>
             /\ ~Delivers(p, EDGE_HDR0)
             /\ InStep(q, Tail(Code(f)), f)
<1> DEFINE q == edge_parser_feed(p, EDGE_HDR0)
           code == Code(f)
           n == Len(f.payload)
<1>1. /\ code \in Seq(uint8_t) /\ Len(code) = n + 6 /\ n \in Nat /\ code[1] = EDGE_HDR0
  BY CodeFacts
<1> HIDE DEF code, n
<1>2. /\ Head(code) = EDGE_HDR0 /\ Tail(code) # <<>> /\ Tail(code) \in Seq(uint8_t)
      /\ Len(Tail(code)) = n + 5
      /\ \A i \in 1 .. n + 5 : Tail(code)[i] = code[1 + i]
  <2>1. code # <<>> /\ Head(code) = EDGE_HDR0
    BY <1>1
  <2>2. Tail(code) \in Seq(uint8_t) /\ Len(Tail(code)) = n + 5
    BY <1>1, <2>1
  <2>3. \A i \in 1 .. n + 5 : Tail(code)[i] = code[1 + i]
    <3>1. \A i \in 1 .. Len(code) - 1 : Tail(code)[i] = code[i + 1]
      BY <1>1, <2>1
    <3>2. \A i \in 1 .. n + 5 : i \in 1 .. Len(code) - 1 /\ i + 1 = 1 + i
      BY <1>1
    <3>3. QED
      BY <3>1, <3>2
  <2>4. Tail(code) # <<>>
    <3>1. Len(<<>>) = 0 /\ n + 5 # 0
      BY <1>1
    <3>2. QED
      BY <2>2, <3>1, Zenon
  <2>5. QED
    BY <2>1, <2>2, <2>3, <2>4
<1>3. q.state = "HDR1"
  BY DEF AwaitsHeader, edge_parser_feed, OnHdr1, EDGE_HDR0, EDGE_HDR1, ParserInv, ParserRecord
<1>4. Count(q) = 1 /\ Taken(q, 1) = EDGE_HDR0
  BY <1>3 DEF Count, Taken
<1>5. InStep(q, Tail(code), f)
  <2>1. Count(q) + Len(Tail(code)) = Len(code)
    BY <1>1, <1>2, <1>4
  <2>2. \A i \in 1 .. Count(q) : code[i] = Taken(q, i)
    BY <1>1, <1>4
  <2>3. \A i \in 1 .. Len(Tail(code)) : Tail(code)[i] = code[Count(q) + i]
    BY <1>2, <1>4
  <2>4. QED
    BY <1>3, <2>1, <2>2, <2>3 DEF InStep, code
<1>6. ~Delivers(p, EDGE_HDR0)
  BY DEF Delivers, AwaitsHeader
<1>7. QED
  BY <1>2, <1>5, <1>6 DEF code

-----------------------------------------------------------------------------
(***************************************************************************)
(* The bytes received last.                                                *)
(***************************************************************************)
Kept(h, byte) ==
  LET all == Append(h, byte) IN IF Len(all) > EDGE_FRAME_MAX THEN Tail(all) ELSE all

\* What the parser has taken was received last.
HeardLast(p, h) ==
  /\ Count(p) <= Len(h)
  /\ \A i \in 1 .. Count(p) : h[(Len(h) - Count(p)) + i] = Taken(p, i)

LEMMA CountBound ==
  ASSUME NEW p, ParserInv(p)
  PROVE  /\ Count(p) \in Nat /\ Count(p) <= EDGE_LEN_MAX + 4 /\ EDGE_LEN_MAX \in Nat
         /\ Count(p) = 0 <=> p.state = "HDR0"
<1>1. /\ p.state \in {"HDR0", "HDR1", "LEN", "TYPE", "PAYLOAD", "CRC_LO", "CRC_HI"}
      /\ p.len \in uint8_t /\ p.payload \in Seq(uint8_t) /\ p.len <= EDGE_LEN_MAX
  BY DEF ParserInv, ParserRecord
<1>2. p.len \in Nat
  <2>1. p.len \in uint8_t
    BY <1>1
  <2>2. QED
    BY <2>1 DEF uint8_t
<1>3. Len(p.payload) \in Nat /\ EDGE_LEN_MAX \in Nat
  BY <1>1, ParserConstants DEF EDGE_LEN_MIN
<1>4. p.state \in {"PAYLOAD", "CRC_LO", "CRC_HI"} => Len(p.payload) <= p.len - 1
  BY <1>2, <1>3 DEF ParserInv
<1> DEFINE m == Len(p.payload)
<1>5. CASE p.state \in {"HDR0", "HDR1", "LEN", "TYPE"}
  BY <1>3, <1>5 DEF Count
<1>6. CASE p.state \in {"PAYLOAD", "CRC_LO", "CRC_HI"}
  <2>1. m \in Nat /\ m <= EDGE_LEN_MAX - 1
    BY <1>1, <1>2, <1>3, <1>4, <1>6
  <2>2. Count(p) = 4 + m \/ Count(p) = 5 + m
    BY <1>6 DEF Count
  <2> HIDE DEF m
  <2>3. QED
    BY <1>3, <1>6, <2>1, <2>2
<1>7. QED
  BY <1>1, <1>5, <1>6

LEMMA KeptFacts ==
  ASSUME NEW p, ParserInv(p), NEW h \in Seq(uint8_t), NEW byte \in uint8_t,
         Len(h) <= EDGE_FRAME_MAX, HeardLast(p, h)
  PROVE  LET k == Kept(h, byte)
         IN  /\ k \in Seq(uint8_t) /\ Len(k) <= EDGE_FRAME_MAX /\ Len(k) \in Nat
             /\ Count(p) + 1 <= Len(k)
             /\ \A i \in 1 .. Count(p) : k[(Len(k) - (Count(p) + 1)) + i] = Taken(p, i)
             /\ k[Len(k)] = byte
<1> DEFINE k == Kept(h, byte)
           all == Append(h, byte)
           c == Count(p)
<1>1. /\ c \in Nat /\ c + 1 <= EDGE_FRAME_MAX /\ EDGE_FRAME_MAX \in Nat
      /\ EDGE_FRAME_MAX > 0 /\ c <= Len(h) /\ Len(h) \in Nat
  BY CountBound DEF EDGE_FRAME_MAX, HeardLast
<1>2. /\ all \in Seq(uint8_t) /\ Len(all) = Len(h) + 1 /\ all[Len(h) + 1] = byte
      /\ \A i \in 1 .. Len(h) : all[i] = h[i]
  OBVIOUS
<1>3. k = IF Len(all) > EDGE_FRAME_MAX THEN Tail(all) ELSE all
  BY DEF Kept
<1>4. \A i \in 1 .. c : h[(Len(h) - c) + i] = Taken(p, i)
  BY DEF HeardLast
<1> HIDE DEF k, all, c
<1>5. CASE Len(all) > EDGE_FRAME_MAX
  <2>1. Len(h) = EDGE_FRAME_MAX /\ all # <<>>
    BY <1>1, <1>2, <1>5
  <2>2. /\ k \in Seq(uint8_t) /\ Len(k) = Len(h)
        /\ \A i \in 1 .. Len(h) : k[i] = all[i + 1]
    <3>1. k = Tail(all) /\ Len(Tail(all)) = Len(all) - 1 /\ Tail(all) \in Seq(uint8_t)
      BY <1>2, <1>3, <1>5, <2>1
    <3>2. \A i \in 1 .. Len(all) - 1 : Tail(all)[i] = all[i + 1]
      BY <1>2, <2>1
    <3>3. Len(all) - 1 = Len(h)
      BY <1>1, <1>2
    <3>4. QED
      BY <3>1, <3>2, <3>3
  <2>3. k[Len(k)] = byte
    BY <1>1, <1>2, <2>1, <2>2
  <2>4. ASSUME NEW i \in 1 .. c PROVE k[(Len(k) - (c + 1)) + i] = Taken(p, i)
    <3>1. /\ (Len(k) - (c + 1)) + i \in 1 .. Len(h)
          /\ ((Len(k) - (c + 1)) + i) + 1 = (Len(h) - c) + i
          /\ (Len(h) - c) + i \in 1 .. Len(h)
      BY <1>1, <2>1, <2>2
    <3>2. k[(Len(k) - (c + 1)) + i] = all[(Len(h) - c) + i]
      BY <2>2, <3>1
    <3>3. all[(Len(h) - c) + i] = h[(Len(h) - c) + i]
      BY <1>2, <3>1
    <3>4. QED
      BY <1>4, <3>2, <3>3
  <2>5. Len(k) <= EDGE_FRAME_MAX /\ Len(k) \in Nat /\ c + 1 <= Len(k)
    BY <1>1, <2>1, <2>2
  <2>6. QED
    BY <2>2, <2>3, <2>4, <2>5 DEF k, c
<1>6. CASE ~(Len(all) > EDGE_FRAME_MAX)
  <2>1. k = all
    BY <1>3, <1>6
  <2>2. Len(k) <= EDGE_FRAME_MAX /\ Len(k) \in Nat /\ c + 1 <= Len(k)
    BY <1>1, <1>2, <1>6, <2>1
  <2>3. k \in Seq(uint8_t) /\ k[Len(k)] = byte
    BY <1>2, <2>1
  <2>4. ASSUME NEW i \in 1 .. c PROVE k[(Len(k) - (c + 1)) + i] = Taken(p, i)
    <3>1. /\ (Len(k) - (c + 1)) + i = (Len(h) - c) + i
          /\ (Len(h) - c) + i \in 1 .. Len(h)
      BY <1>1, <1>2, <2>1
    <3>2. QED
      BY <1>2, <1>4, <2>1, <3>1
  <2>5. QED
    BY <2>2, <2>3, <2>4 DEF k, c
<1>7. QED
  BY <1>5, <1>6

LEMMA HeardStep ==
  ASSUME NEW p, ParserInv(p), NEW h \in Seq(uint8_t), NEW byte \in uint8_t,
         Len(h) <= EDGE_FRAME_MAX, HeardLast(p, h)
  PROVE  HeardLast(edge_parser_feed(p, byte), Kept(h, byte))
<1> DEFINE q == edge_parser_feed(p, byte)
           k == Kept(h, byte)
           c == Count(p)
<1>1. /\ Len(k) \in Nat /\ c + 1 <= Len(k) /\ k[Len(k)] = byte
      /\ \A i \in 1 .. c : k[(Len(k) - (c + 1)) + i] = Taken(p, i)
  BY KeptFacts
<1>2. c \in Nat
  BY CountBound
<1>3. \/ q.state = "HDR0"
      \/ TakesByte(p, q, byte)
      \/ p.state = "HDR1" /\ byte = EDGE_HDR0 /\ q = p
  BY FeedFacts
<1> HIDE DEF q, k
<1>4. CASE q.state = "HDR0"
  BY <1>1, <1>4 DEF HeardLast, Count, q, k
<1>5. CASE TakesByte(p, q, byte)
  <2>1. /\ Count(q) = c + 1 /\ Taken(q, c + 1) = byte
        /\ \A i \in 1 .. c : Taken(q, i) = Taken(p, i)
    BY <1>5 DEF TakesByte
  <2> HIDE DEF c
  <2>2. ASSUME NEW i \in 1 .. c + 1 PROVE k[(Len(k) - (c + 1)) + i] = Taken(q, i)
    <3>1. CASE i \in 1 .. c
      BY <1>1, <2>1, <3>1
    <3>2. CASE i = c + 1
      <4>1. (Len(k) - (c + 1)) + i = Len(k)
        BY <1>1, <1>2, <3>2
      <4>2. QED
        BY <1>1, <2>1, <3>2, <4>1
    <3>3. QED
      BY <1>2, <3>1, <3>2
  <2>3. QED
    BY <1>1, <2>1, <2>2 DEF HeardLast, q, k
<1>6. CASE p.state = "HDR1" /\ byte = EDGE_HDR0 /\ q = p
  <2>1. Count(q) = 1 /\ Taken(q, 1) = byte
    BY <1>6 DEF Count, Taken
  <2>2. Len(k) >= 1 /\ (Len(k) - 1) + 1 = Len(k)
    BY <1>1, <1>2
  <2>3. QED
    BY <1>1, <2>1, <2>2 DEF HeardLast, q, k
<1>7. QED
  BY <1>3, <1>4, <1>5, <1>6

LEMMA SuffixByIndex ==
  ASSUME NEW s \in Seq(uint8_t), NEW t \in Seq(uint8_t), Len(s) <= Len(t),
         \A i \in 1 .. Len(s) : t[(Len(t) - Len(s)) + i] = s[i]
  PROVE  IsSuffix(s, t)
<1> DEFINE m == Len(s)
           n == Len(t)
           u == Reverse(s)
           v == Reverse(t)
<1>1. m \in Nat /\ n \in Nat /\ m <= n
  OBVIOUS
<1>2. /\ u \in Seq(uint8_t) /\ Len(u) = m
      /\ \A i \in 1 .. m : u[i] = s[(m - i) + 1]
  BY DEF Reverse
<1>3. /\ v \in Seq(uint8_t) /\ Len(v) = n
      /\ \A i \in 1 .. n : v[i] = t[(n - i) + 1]
  BY DEF Reverse
<1>4. \A j \in 1 .. m : t[(n - m) + j] = s[j]
  OBVIOUS
<1> HIDE DEF m, n, u, v
<1>5. \A i \in 1 .. m : u[i] = v[i]
  <2> TAKE i \in 1 .. m
  <2>1. i \in Nat /\ m \in Nat /\ n \in Nat /\ 1 <= i /\ i <= m /\ m <= n
    BY <1>1
  <2>2. (m - i) + 1 \in 1 .. m /\ i \in 1 .. n
    BY <2>1
  <2>3. (n - m) + ((m - i) + 1) = (n - i) + 1
    BY <2>1
  <2>4. u[i] = s[(m - i) + 1] /\ v[i] = t[(n - i) + 1]
    BY <1>2, <1>3, <2>2
  <2>5. t[(n - m) + ((m - i) + 1)] = s[(m - i) + 1]
    BY <1>4, <2>2
  <2>6. QED
    BY <2>3, <2>4, <2>5
<1>6. SubSeq(u, 1, m) = SubSeq(v, 1, m)
  BY <1>1, <1>2, <1>3, <1>5
<1>7. QED
  BY <1>1, <1>2, <1>3, <1>6 DEF IsSuffix, IsPrefix, u, v

-----------------------------------------------------------------------------
(***************************************************************************)
(* The invariant of the line.                                              *)
(***************************************************************************)
FrameTypeOK ==
  /\ ParserInv(parser)
  /\ sending \in Seq(uint8_t) /\ frame \in SendableFrame
  /\ aligned \in BOOLEAN /\ plain \in BOOLEAN
  /\ got \in Seq(FrameRecord) /\ quiet \in Nat
  /\ heard \in Seq(uint8_t) /\ Len(heard) <= EDGE_FRAME_MAX

\* A frame that has met no fault is found, and then taken byte by byte.
AlignInv ==
  aligned =>
    IF sending = <<>>
      THEN got = <<frame>>
      ELSE /\ got = <<>>
           /\ \/ sending = Code(frame) /\ AwaitsHeader(parser)
              \/ InStep(parser, sending, frame)

\* A plain frame has its only first byte of a header at its begin.
PlainInv ==
  (plain /\ sending # <<>>) =>
    /\ ~Contains(Tail(sending), EDGE_HDR0)
    /\ Head(sending) = EDGE_HDR0 => sending = Code(frame)

\* Between plain frames, what the parser has taken goes back to a fault.
FindInv ==
  (plain /\ parser.state # "HDR0") =>
    Count(parser) > quiet \/ InStep(parser, sending, frame)

FrameInv == FrameTypeOK /\ HeardLast(parser, heard) /\ AlignInv /\ PlainInv /\ FindInv


LEMMA FrameInit == Init => FrameInv
<1> SUFFICES ASSUME Init PROVE FrameInv
  OBVIOUS
<1>1. frame \in SendableFrame
  BY ParserConstants DEF Init, SendableFrame
<1>2. EDGE_FRAME_MAX \in Nat
  BY ParserConstants DEF EDGE_FRAME_MAX, EDGE_LEN_MIN
<1>3. /\ parser = Searching /\ sending = <<>> /\ aligned = FALSE /\ got = <<>>
      /\ plain = TRUE /\ quiet = EDGE_FRAME_MAX /\ heard = <<>>
  BY DEF Init
<1>4. FrameTypeOK
  <2>1. ParserInv(parser)
    BY <1>3, SearchingFacts
  <2>2. <<>> \in Seq(uint8_t) /\ <<>> \in Seq(FrameRecord) /\ Len(<<>>) = 0
    OBVIOUS
  <2>3. Len(<<>>) <= EDGE_FRAME_MAX
    BY <1>2, <2>2
  <2>4. QED
    BY <1>1, <1>2, <1>3, <2>1, <2>2, <2>3 DEF FrameTypeOK
<1>5. parser.state = "HDR0" /\ Count(parser) = 0
  BY <1>3, SearchingFacts DEF Searching
<1>6. HeardLast(parser, heard)
  BY <1>3, <1>5 DEF HeardLast
<1>7. AlignInv /\ PlainInv /\ FindInv
  BY <1>3, <1>5 DEF AlignInv, PlainInv, FindInv
<1>8. QED
  BY <1>4, <1>6, <1>7 DEF FrameInv

\* A byte reaches the parser.
LEMMA FeedKeeps ==
  ASSUME FrameInv, NEW byte \in uint8_t, Feed(byte)
  PROVE  /\ ParserInv(parser)' /\ HeardLast(parser, heard)'
         /\ heard' \in Seq(uint8_t) /\ Len(heard') <= EDGE_FRAME_MAX
         /\ got' \in Seq(FrameRecord)
<1>1. /\ ParserInv(parser) /\ got \in Seq(FrameRecord) /\ heard \in Seq(uint8_t)
      /\ Len(heard) <= EDGE_FRAME_MAX /\ HeardLast(parser, heard)
  BY DEF FrameInv, FrameTypeOK
<1>2. /\ parser' = edge_parser_feed(parser, byte) /\ heard' = Kept(heard, byte)
      /\ got' = IF Delivers(parser, byte) THEN Append(got, Delivery(parser)) ELSE got
  BY DEF Feed, Kept
<1>3. ParserInv(parser')
  BY <1>1, <1>2, FeedFacts
<1>4. HeardLast(parser', heard')
  BY <1>1, <1>2, HeardStep
<1>5. heard' \in Seq(uint8_t) /\ Len(heard') <= EDGE_FRAME_MAX
  BY <1>1, <1>2, KeptFacts
<1>6. got' \in Seq(FrameRecord)
  <2>1. CASE Delivers(parser, byte)
    <3>1. Delivery(parser) \in FrameRecord
      BY <1>1, <2>1, DeliverFacts DEF SendableFrame
    <3>2. QED
      BY <1>1, <1>2, <2>1, <3>1
  <2>2. CASE ~Delivers(parser, byte)
    BY <1>1, <1>2, <2>2
  <2>3. QED
    BY <2>1, <2>2
<1>7. QED
  BY <1>3, <1>4, <1>5, <1>6

\* What a delivery adds is what was received last.
LEMMA FeedDelivers ==
  ASSUME FrameInv, NEW byte \in uint8_t, Feed(byte), got' # got
  PROVE  IsSuffix(Code(Last(got')), heard')
<1> DEFINE f == Delivery(parser)
           c == Count(parser)
<1>1. /\ ParserInv(parser) /\ got \in Seq(FrameRecord) /\ heard \in Seq(uint8_t)
      /\ Len(heard) <= EDGE_FRAME_MAX /\ HeardLast(parser, heard)
  BY DEF FrameInv, FrameTypeOK
<1>2. Delivers(parser, byte) /\ got' = Append(got, f) /\ heard' = Kept(heard, byte)
  BY DEF Feed, Kept
<1>3. /\ f \in SendableFrame /\ Len(Code(f)) = c + 1
      /\ \A i \in 1 .. c : Code(f)[i] = Taken(parser, i)
      /\ Code(f)[c + 1] = byte
  BY <1>1, <1>2, DeliverFacts
<1>4. f \in FrameRecord
  BY <1>3 DEF SendableFrame
<1>5. c \in Nat
  BY <1>1, CountBound
<1> HIDE DEF f, c
<1>6. Last(got') = f
  BY <1>1, <1>2, <1>4 DEF Last
<1>7. /\ heard' \in Seq(uint8_t) /\ Len(heard') \in Nat /\ c + 1 <= Len(heard')
      /\ \A i \in 1 .. c : heard'[(Len(heard') - (c + 1)) + i] = Taken(parser, i)
      /\ heard'[Len(heard')] = byte
  BY <1>1, <1>2, KeptFacts DEF c
<1> DEFINE code == Code(f)
           k == heard'
<1>8. code \in Seq(uint8_t)
  BY <1>3, CodeFacts
<1> HIDE DEF code, k
<1>9. ASSUME NEW i \in 1 .. c + 1 PROVE k[(Len(k) - (c + 1)) + i] = code[i]
  <2>1. CASE i \in 1 .. c
    BY <1>3, <1>7, <2>1 DEF code, k
  <2>2. CASE i = c + 1
    <3>1. (Len(k) - (c + 1)) + i = Len(k)
      BY <1>5, <1>7, <2>2 DEF k
    <3>2. k[Len(k)] = byte /\ code[i] = byte
      BY <1>3, <1>7, <2>2 DEF code, k
    <3>3. QED
      BY <3>1, <3>2
  <2>3. QED
    BY <1>5, <2>1, <2>2
<1>10. Len(code) = c + 1 /\ k \in Seq(uint8_t) /\ c + 1 <= Len(k)
  BY <1>3, <1>7 DEF code, k
<1>11. IsSuffix(code, k)
  <2>1. Len(code) <= Len(k) /\ \A i \in 1 .. Len(code) : k[(Len(k) - Len(code)) + i] = code[i]
    BY <1>9, <1>10, Zenon
  <2>2. QED
    BY <1>8, <1>10, <2>1, SuffixByIndex
<1>12. QED
  BY <1>6, <1>11 DEF code, k

\* The sender's next byte is gone, whatever came out at the other end.
LEMMA PlainStep ==
  ASSUME FrameInv, sending # <<>>, sending' = Tail(sending), plain' = plain
  PROVE  PlainInv' /\ sending' \in Seq(uint8_t)
<1>1. sending \in Seq(uint8_t) /\ PlainInv
  BY DEF FrameInv, FrameTypeOK
<1> DEFINE rest == Tail(sending)
<1>2. rest \in Seq(uint8_t)
  BY <1>1
<1> HIDE DEF rest
<1>3. ASSUME plain, rest # <<>> PROVE ~Contains(Tail(rest), EDGE_HDR0) /\ Head(rest) # EDGE_HDR0
  <2>1. ~Contains(rest, EDGE_HDR0)
    BY <1>1, <1>3 DEF PlainInv, rest
  <2>2. \A i \in 1 .. Len(rest) : rest[i] # EDGE_HDR0
    BY <2>1 DEF Contains
  <2>3. Len(rest) \in Nat /\ Len(rest) > 0 /\ Head(rest) = rest[1]
    BY <1>2, <1>3
  <2>4. /\ Len(Tail(rest)) = Len(rest) - 1
        /\ \A i \in 1 .. Len(rest) - 1 : Tail(rest)[i] = rest[i + 1]
    BY <1>2, <1>3
  <2>5. \A i \in 1 .. Len(Tail(rest)) : Tail(rest)[i] # EDGE_HDR0
    <3> TAKE i \in 1 .. Len(Tail(rest))
    <3>1. i \in 1 .. Len(rest) - 1 /\ i + 1 \in 1 .. Len(rest)
      BY <2>3, <2>4
    <3>2. QED
      BY <2>2, <2>4, <3>1
  <2>6. Head(rest) # EDGE_HDR0
    BY <2>2, <2>3
  <2>7. QED
    BY <2>5, <2>6 DEF Contains
<1>4. QED
  BY <1>2, <1>3 DEF PlainInv, rest

\* After a fault nothing is promised but that no delivery was begun before.
LEMMA FaultStep ==
  ASSUME ParserInv(parser)', quiet' = 0
  PROVE  FindInv'
<1>1. parser'.state # "HDR0" => Count(parser') # 0 /\ Count(parser') \in Nat
  BY CountBound
<1>2. QED
  BY <1>1 DEF FindInv


(***************************************************************************)
(* Every step keeps the invariant.                                         *)
(***************************************************************************)
LEMMA FrameBeginStep ==
  ASSUME FrameInv, NEW f \in Frames, Begin(f)
  PROVE  FrameInv'
<1>1. /\ FrameTypeOK /\ HeardLast(parser, heard) /\ FindInv /\ ParserInv(parser)
      /\ EDGE_LEN_MAX \in Nat
  BY ParserConstants DEF FrameInv, FrameTypeOK, EDGE_LEN_MIN
<1>2. f \in SendableFrame
  BY ParserConstants DEF SendableFrame
<1>3. /\ sending = <<>> /\ sending' = Code(f) /\ frame' = f /\ got' = <<>>
      /\ aligned' = AwaitsHeader(parser)
      /\ plain' = (plain /\ ~Contains(Tail(sending'), EDGE_HDR0))
      /\ parser' = parser /\ quiet' = quiet /\ heard' = heard
  BY DEF Begin, Code
<1>4. Code(f) \in Seq(uint8_t) /\ Code(f) # <<>>
  <2>1. Code(f) \in Seq(uint8_t) /\ Len(Code(f)) = Len(f.payload) + 6 /\ Len(f.payload) \in Nat
    BY <1>2, CodeFacts
  <2>2. Len(Code(f)) # 0
    BY <2>1
  <2>3. QED
    BY <2>1, <2>2
<1>5. FrameTypeOK'
  <2>1. aligned' \in BOOLEAN /\ plain' \in BOOLEAN /\ got' \in Seq(FrameRecord)
    BY <1>1, <1>3 DEF FrameTypeOK, AwaitsHeader
  <2>2. QED
    BY <1>1, <1>2, <1>3, <1>4, <2>1 DEF FrameTypeOK
<1>6. HeardLast(parser, heard)'
  BY <1>1, <1>3
<1>7. AlignInv'
  BY <1>3, <1>4 DEF AlignInv
<1>8. PlainInv'
  BY <1>3 DEF PlainInv
<1>9. FindInv'
  <2>1. ASSUME plain, parser.state # "HDR0" PROVE Count(parser) > quiet
    <3>1. Count(parser) > quiet \/ InStep(parser, sending, frame)
      BY <1>1, <2>1 DEF FindInv
    <3>2. ~InStep(parser, sending, frame)
      <4>1. frame \in SendableFrame /\ sending \in Seq(uint8_t)
        BY <1>1 DEF FrameTypeOK
      <4>2. QED
        BY <1>1, <1>3, <4>1, InStepFacts
    <3>3. QED
      BY <3>1, <3>2
  <2>2. QED
    BY <1>3, <2>1 DEF FindInv
<1>10. QED
  BY <1>5, <1>6, <1>7, <1>8, <1>9 DEF FrameInv

LEMMA ByteStep ==
  ASSUME FrameInv, Byte
  PROVE  FrameInv'
<1> DEFINE byte == Head(sending)
<1>1. /\ FrameTypeOK /\ AlignInv /\ PlainInv /\ FindInv
      /\ ParserInv(parser) /\ sending \in Seq(uint8_t) /\ frame \in SendableFrame
      /\ quiet \in Nat
  BY DEF FrameInv, FrameTypeOK
<1>2. /\ sending # <<>> /\ Feed(byte) /\ sending' = Tail(sending)
      /\ quiet' = IF quiet < EDGE_FRAME_MAX THEN quiet + 1 ELSE quiet
      /\ frame' = frame /\ aligned' = aligned /\ plain' = plain
  BY DEF Byte
<1>3. byte \in uint8_t
  BY <1>1, <1>2
<1> HIDE DEF byte
<1>4. /\ ParserInv(parser)' /\ HeardLast(parser, heard)'
      /\ heard' \in Seq(uint8_t) /\ Len(heard') <= EDGE_FRAME_MAX
      /\ got' \in Seq(FrameRecord)
  BY <1>2, <1>3, FeedKeeps
<1>5. PlainInv' /\ sending' \in Seq(uint8_t)
  BY <1>2, PlainStep
<1>6. /\ parser' = edge_parser_feed(parser, byte)
      /\ got' = IF Delivers(parser, byte) THEN Append(got, Delivery(parser)) ELSE got
  BY <1>2 DEF Feed
<1>7. quiet' \in Nat /\ quiet' <= quiet + 1
  BY <1>1, <1>2
<1>8. FrameTypeOK'
  BY <1>1, <1>2, <1>4, <1>5, <1>7 DEF FrameTypeOK
<1>9. ASSUME InStep(parser, sending, frame)
      PROVE  \/ sending' = <<>> /\ Delivers(parser, byte) /\ Delivery(parser) = frame
             \/ sending' # <<>> /\ ~Delivers(parser, byte) /\ InStep(parser', sending', frame)
  BY <1>1, <1>2, <1>6, <1>9, InStepFacts DEF byte
<1>10. ASSUME sending = Code(frame), AwaitsHeader(parser)
       PROVE  /\ sending' # <<>> /\ ~Delivers(parser, byte)
              /\ InStep(parser', sending', frame)
  <2>1. byte = EDGE_HDR0
    BY <1>1, <1>10, FirstByte DEF byte
  <2>2. QED
    BY <1>1, <1>2, <1>6, <1>10, <2>1, FirstByte
<1>11. AlignInv'
  <2> SUFFICES ASSUME aligned
               PROVE  IF sending' = <<>> THEN got' = <<frame>>
                      ELSE got' = <<>> /\ InStep(parser', sending', frame)
    BY <1>2 DEF AlignInv
  <2>1. /\ got = <<>>
        /\ \/ sending = Code(frame) /\ AwaitsHeader(parser)
           \/ InStep(parser, sending, frame)
    BY <1>1, <1>2 DEF AlignInv
  <2>2. CASE sending = Code(frame) /\ AwaitsHeader(parser)
    BY <1>6, <1>10, <2>1, <2>2
  <2>3. CASE InStep(parser, sending, frame)
    <3>1. Append(<<>>, frame) = <<frame>>
      OBVIOUS
    <3>2. QED
      BY <1>6, <1>9, <2>1, <2>3, <3>1
  <2>4. QED
    BY <2>1, <2>2, <2>3
<1>12. FindInv'
  <2> SUFFICES ASSUME plain, parser'.state # "HDR0", ~(Count(parser') > quiet')
               PROVE  InStep(parser', sending', frame)
    BY <1>2 DEF FindInv
  <2>1. CASE InStep(parser, sending, frame)
    <3>1. Delivers(parser, byte) => parser'.state = "HDR0"
      <4>1. ASSUME Delivers(parser, byte) PROVE parser'.state = "HDR0"
        <5>1. parser.state = "CRC_HI" /\ CrcMatches(parser, byte)
          BY <4>1 DEF Delivers
        <5>2. parser' = [parser EXCEPT !.state = "HDR0"]
          BY <1>6, <5>1 DEF edge_parser_feed, OnCrcHi
        <5>3. QED
          BY <1>1, <5>2 DEF ParserInv, ParserRecord
      <4>2. QED
        BY <4>1
    <3>2. QED
      BY <1>9, <2>1, <3>1
  <2>2. CASE byte = EDGE_HDR0 /\ AwaitsHeader(parser)
    <3>1. sending = Code(frame)
      BY <1>1, <1>2, <2>2 DEF PlainInv, byte
    <3>2. QED
      BY <1>10, <2>2, <3>1
  <2>3. CASE ~InStep(parser, sending, frame) /\ ~(byte = EDGE_HDR0 /\ AwaitsHeader(parser))
    <3>1. TakesByte(parser, parser', byte)
      BY <1>1, <1>3, <1>6, <2>3, FeedFacts DEF AwaitsHeader
    <3>2. parser.state # "HDR0"
      <4>1. ASSUME parser.state = "HDR0" PROVE FALSE
        <5>1. byte # EDGE_HDR0
          BY <2>3, <4>1 DEF AwaitsHeader
        <5>2. parser'.state = "HDR0"
          BY <1>1, <1>6, <4>1, <5>1 DEF edge_parser_feed, ParserInv, ParserRecord
        <5>3. QED
          BY <5>2
      <4>2. QED
        BY <4>1
    <3>3. Count(parser) > quiet
      BY <1>1, <2>3, <3>2 DEF FindInv
    <3>4. Count(parser') = Count(parser) + 1 /\ Count(parser) \in Nat
      BY <1>1, <3>1, CountBound DEF TakesByte
    <3>5. QED
      BY <1>1, <1>7, <3>3, <3>4
  <2>4. QED
    BY <2>1, <2>2, <2>3
<1>13. QED
  BY <1>4, <1>5, <1>8, <1>11, <1>12 DEF FrameInv

\* A fault: a byte that was not sent, or one that does not arrive.
LEMMA FaultyStep ==
  ASSUME FrameInv, Fault, NEW byte \in uint8_t,
         \/ Feed(byte)
         \/ UNCHANGED <<parser, heard, got>>
         \/ parser' = Searching /\ heard' = <<>> /\ got' = got,
         \/ sending # <<>> /\ sending' = Tail(sending)
         \/ sending' = sending
  PROVE  FrameInv'
<1>1. /\ FrameTypeOK /\ PlainInv /\ HeardLast(parser, heard)
      /\ ParserInv(parser) /\ sending \in Seq(uint8_t) /\ frame \in SendableFrame
      /\ got \in Seq(FrameRecord) /\ heard \in Seq(uint8_t) /\ Len(heard) <= EDGE_FRAME_MAX
      /\ plain \in BOOLEAN
  BY DEF FrameInv, FrameTypeOK
<1>2. quiet' = 0 /\ aligned' = FALSE /\ frame' = frame /\ plain' = plain
  BY DEF Fault
<1>3. /\ ParserInv(parser)' /\ HeardLast(parser, heard)'
      /\ heard' \in Seq(uint8_t) /\ Len(heard') <= EDGE_FRAME_MAX
      /\ got' \in Seq(FrameRecord)
  <2>1. CASE Feed(byte)
    BY <2>1, FeedKeeps
  <2>2. CASE UNCHANGED <<parser, heard, got>>
    BY <1>1, <2>2
  <2>3. CASE parser' = Searching /\ heard' = <<>> /\ got' = got
    <3>1. <<>> \in Seq(uint8_t) /\ Len(<<>>) = 0
      OBVIOUS
    <3>2. EDGE_FRAME_MAX \in Nat
      BY ParserConstants DEF EDGE_FRAME_MAX, EDGE_LEN_MIN
    <3>3. 0 <= EDGE_FRAME_MAX
      BY <3>2
    <3>4. HeardLast(Searching, <<>>)
      BY <3>1, SearchingFacts DEF HeardLast
    <3>5. QED
      BY <1>1, <2>3, <3>1, <3>3, <3>4, SearchingFacts
  <2>4. QED
    BY <2>1, <2>2, <2>3
<1>4. PlainInv' /\ sending' \in Seq(uint8_t)
  <2>1. CASE sending # <<>> /\ sending' = Tail(sending)
    BY <1>2, <2>1, PlainStep
  <2>2. CASE sending' = sending
    BY <1>1, <1>2, <2>2 DEF PlainInv
  <2>3. QED
    BY <2>1, <2>2
<1>5. FindInv'
  BY <1>2, <1>3, FaultStep
<1>6. AlignInv'
  BY <1>2 DEF AlignInv
<1>7. FrameTypeOK'
  BY <1>1, <1>2, <1>3, <1>4 DEF FrameTypeOK
<1>8. QED
  BY <1>3, <1>4, <1>5, <1>6, <1>7 DEF FrameInv

LEMMA FrameNext ==
  ASSUME FrameInv, [Next]_vars
  PROVE  FrameInv'
<1>1. ASSUME NEW f \in Frames, Begin(f) PROVE FrameInv'
  BY <1>1, FrameBeginStep
<1>2. CASE Byte
  BY <1>2, ByteStep
<1>3. ASSUME NEW byte \in Noise, Replaced(byte) \/ Inserted(byte) PROVE FrameInv'
  <2>1. byte \in uint8_t
    BY ParserConstants
  <2>2. QED
    BY <1>3, <2>1, FaultyStep DEF Replaced, Inserted
<1>4. CASE LostByte \/ Reset
  <2>1. 0 \in uint8_t
    BY DEF uint8_t
  <2>2. /\ Fault
        /\ \/ UNCHANGED <<parser, heard, got>>
           \/ parser' = Searching /\ heard' = <<>> /\ got' = got
        /\ (sending # <<>> /\ sending' = Tail(sending)) \/ sending' = sending
    BY <1>4 DEF LostByte, Reset
  <2>3. QED
    BY <2>1, <2>2, FaultyStep
<1>5. CASE UNCHANGED vars
  BY <1>5 DEF vars, FrameInv, FrameTypeOK, HeardLast, AlignInv, PlainInv, FindInv
<1>6. QED
  BY <1>1, <1>2, <1>3, <1>4, <1>5 DEF Next, Over

(***************************************************************************)
(* The invariant of the sender, the line and the parser, from which the    *)
(* properties of FrameParser follow (edge_frame.c, edge_crc16.c).          *)
(***************************************************************************)
THEOREM FrameInvariant == Spec => []FrameInv
<1>1. Init => FrameInv
  BY FrameInit
<1>2. FrameInv /\ [Next]_vars => FrameInv'
  BY FrameNext
<1>3. QED
  BY <1>1, <1>2, PTL DEF Spec

(***************************************************************************)
(* A frame that finds the parser searching, or after one stray first byte  *)
(* (edge_frame.c:119), and comes undisturbed, is delivered, once and       *)
(* alone, whatever bytes it has: edge_frame_encode() and edge_parser_feed()*)
(* agree on every frame.                                                   *)
(***************************************************************************)
THEOREM FrameAlignedIsDelivered == Spec => []AlignedIsDelivered
<1>1. FrameInv => AlignedIsDelivered
  BY DEF FrameInv, AlignInv, AlignedIsDelivered
<1>2. QED
  BY <1>1, FrameInvariant, PTL

(***************************************************************************)
(* No byte is written behind the payload array, and the parser is ready    *)
(* for a new frame once LEN_MAX + 4 bytes came without a fault: no false   *)
(* frame is longer (the check of LEN, edge_frame.c:127).                   *)
(***************************************************************************)
THEOREM FrameFindsNext == Spec => []FindsNextFrame
<1>1. ASSUME FrameInv PROVE FindsNextFrame
  <2>1. /\ ParserInv(parser) /\ parser \in ParserRecord /\ FindInv /\ FrameTypeOK
    BY <1>1 DEF FrameInv, FrameTypeOK, ParserInv
  <2>2. ParserTypeOK
    <3>1. /\ parser.state \in {"HDR0", "HDR1", "LEN", "TYPE", "PAYLOAD", "CRC_LO", "CRC_HI"}
          /\ parser.crc \in uint16_t /\ parser.payload \in Seq(uint8_t)
          /\ parser.len \in uint8_t /\ parser.len <= EDGE_LEN_MAX
      BY <2>1 DEF ParserInv, ParserRecord
    <3>2. parser.len \in Nat
      <4>1. parser.len \in uint8_t
        BY <3>1
      <4>2. QED
        BY <4>1 DEF uint8_t
    <3>3. parser.len \in 0 .. EDGE_LEN_MAX /\ EDGE_LEN_MAX \in Nat
      BY <3>1, <3>2, ParserConstants DEF EDGE_LEN_MIN
    <3>4. Len(parser.payload) \in Nat
      BY <3>1
    <3>5. parser.state = "PAYLOAD" =>
            Len(parser.payload) < EDGE_LEN_MAX - 1 /\ Len(parser.payload) < parser.len - 1
      BY <2>1, <3>1, <3>2, <3>3, <3>4 DEF ParserInv
    <3>6. parser.state \in {"CRC_LO", "CRC_HI"} => Len(parser.payload) = parser.len - 1
      BY <2>1 DEF ParserInv
    <3>7. QED
      BY <3>1, <3>3, <3>5, <3>6 DEF ParserTypeOK
  <2>3. ASSUME sending = Code(frame), quiet >= EDGE_LEN_MAX + 4, plain
        PROVE  AwaitsHeader(parser)
    <3>1. Count(parser) \in Nat /\ Count(parser) <= EDGE_LEN_MAX + 4 /\ EDGE_LEN_MAX \in Nat
          /\ (Count(parser) = 0 <=> parser.state = "HDR0") /\ quiet \in Nat
      BY <2>1, CountBound DEF FrameTypeOK
    <3>2. ~(Count(parser) > quiet)
      BY <2>3, <3>1
    <3>3. ~InStep(parser, sending, frame)
      <4>1. ASSUME InStep(parser, sending, frame) PROVE FALSE
        <5>1. Count(parser) + Len(sending) = Len(sending) /\ Count(parser) # 0
          BY <2>3, <3>1, <4>1 DEF InStep
        <5>2. Len(sending) \in Nat
          BY <2>1 DEF FrameTypeOK
        <5>3. QED
          BY <3>1, <5>1, <5>2
      <4>2. QED
        BY <4>1
    <3>4. parser.state = "HDR0"
      BY <2>1, <2>3, <3>2, <3>3 DEF FindInv
    <3>5. QED
      BY <3>4 DEF AwaitsHeader
  <2>4. QED
    BY <2>2, <2>3 DEF FindsNextFrame, Code
<1>2. QED
  BY <1>1, FrameInvariant, PTL

(***************************************************************************)
(* Whatever the line did, what is delivered is what was received last, in  *)
(* the very bytes edge_frame_encode() makes of it.                         *)
(***************************************************************************)
THEOREM FrameDeliveredWasReceived == Spec => DeliveredWasReceived
<1> DEFINE Received == (got' # got /\ got' # <<>>) =>
             LET code == edge_frame_encode(Last(got').type, Last(got').payload)
             IN  IsSuffix(code, heard')
<1>1. ASSUME FrameInv, [Next]_vars PROVE [Received]_vars
  <2> SUFFICES ASSUME got' # got, got' # <<>>
               PROVE  IsSuffix(Code(Last(got')), heard')
    BY DEF Code
  <2>1. ASSUME NEW byte \in uint8_t, Feed(byte) PROVE IsSuffix(Code(Last(got')), heard')
    BY <1>1, <2>1, FeedDelivers
  <2>2. \A f \in Frames : ~Begin(f)
    BY DEF Begin
  <2>3. ~LostByte /\ ~Reset /\ ~Over /\ ~UNCHANGED vars
    BY DEF LostByte, Reset, Over, vars
  <2>4. CASE Byte
    <3>1. sending \in Seq(uint8_t) /\ sending # <<>> /\ Feed(Head(sending))
      BY <1>1, <2>4 DEF Byte, FrameInv, FrameTypeOK
    <3>2. Head(sending) \in uint8_t
      BY <3>1
    <3>3. QED
      BY <2>1, <3>1, <3>2
  <2>5. ASSUME NEW byte \in Noise, Replaced(byte) \/ Inserted(byte)
        PROVE  IsSuffix(Code(Last(got')), heard')
    BY <2>1, <2>5, ParserConstants DEF Replaced, Inserted
  <2>6. QED
    BY <1>1, <2>2, <2>3, <2>4, <2>5 DEF Next
<1>2. QED
  BY <1>1, FrameInvariant, PTL DEF Spec, DeliveredWasReceived
=============================================================================
