---------------------------- MODULE FrameParser ----------------------------
(***************************************************************************)
(* edge_frame.c and edge_crc16.c: the encoder of a frame and the parser    *)
(* that finds frames in a stream of bytes, with the real CRC-16/MODBUS.    *)
(*                                                                         *)
(* A sender puts frames on a line; on the way a byte may be replaced, lost *)
(* or inserted, and the receiver may reset its parser.  NodeLink hands     *)
(* every byte it reads to the parser, in order.                            *)
(*                                                                         *)
(*    0xAA 0x55 | LEN | TYPE | payload (LEN - 1 bytes) | CRC low, CRC high *)
(***************************************************************************)
EXTENDS Naturals, Sequences, SequencesExt

CONSTANTS
  EDGE_LEN_MAX, \* 64 in the code
  Frames,       \* the frames a sender may send
  Noise,        \* bytes the line may put in
  MaxFrames,    \* bound on the frames sent
  MaxFaults     \* bound on the faults of the line

EDGE_HDR0 == 170
EDGE_HDR1 == 85
EDGE_LEN_MIN == 1
EDGE_CRC16_INIT == 65535
EDGE_FRAME_MAX == 2 + 1 + EDGE_LEN_MAX + 2

uint8_t == 0 .. 255
uint16_t == {v \in Nat : v <= 65535}
FrameRecord == [type : uint8_t, payload : Seq(uint8_t)]

ASSUME ParserConstants ==
  /\ EDGE_LEN_MAX \in EDGE_LEN_MIN .. 255
  /\ Noise \subseteq uint8_t
  /\ \A f \in Frames : f \in FrameRecord /\ Len(f.payload) < EDGE_LEN_MAX
  /\ MaxFrames \in Nat /\ MaxFaults \in Nat

VARIABLES
  parser,   \* edge_parser_t without its statistics and its callback
  sending,  \* the bytes of the sender's frame that are still to come
  frame,    \* the frame being sent, or sent last
  aligned,  \* whether it met a searching parser and no fault so far
  got,      \* the frames delivered since it was begun
  sent,     \* history: how many frames were begun
  plain,    \* history: none of them had EDGE_HDR0 after its first byte
  faults,   \* history: how many faults there were
  quiet,    \* history: the bytes received since the last fault, capped
  heard     \* history: the last EDGE_FRAME_MAX bytes received

vars == <<parser, sending, frame, aligned, got, sent, plain, faults, quiet, heard>>
-----------------------------------------------------------------------------
(* edge_crc16.c *)

(* Exclusive or of 16 bits: the sum of the places where a and b differ. *)
Xor(a, b) ==
  LET At(place) == place * ((a \div place + b \div place) % 2)
      low  == At(1) + At(2) + At(4) + At(8) + At(16) + At(32) + At(64) + At(128)
      high == At(256) + At(512) + At(1024) + At(2048) + At(4096) + At(8192)
                + At(16384) + At(32768)
  IN  low + high

(* The table holds eight rounds of the reflected polynomial 0xA001. *)
Round(c) == IF c % 2 = 1 THEN Xor(c \div 2, 40961) ELSE c \div 2
kCrc16Table ==
  [b \in uint8_t |-> Round(Round(Round(Round(Round(Round(Round(Round(b))))))))]

edge_crc16_update(crc, byte) == Xor(crc \div 256, kCrc16Table[Xor(crc, byte) % 256])

(* crc[i] is the checksum of the first i bytes. *)
edge_crc16(bytes) ==
  LET crc[i \in 0 .. Len(bytes)] ==
        IF i = 0 THEN EDGE_CRC16_INIT ELSE edge_crc16_update(crc[i - 1], bytes[i])
  IN  crc[Len(bytes)]

(* The check value of CRC-16/MODBUS, for "123456789". *)
ASSUME CrcCheckValue == edge_crc16(<<49, 50, 51, 52, 53, 54, 55, 56, 57>>) = 19255
-----------------------------------------------------------------------------
(* edge_frame_encode() *)
edge_frame_encode(type, payload) ==
  LET body == <<1 + Len(payload), type>> \o payload
      crc  == edge_crc16(body)
  IN  <<EDGE_HDR0, EDGE_HDR1>> \o body \o <<crc % 256, crc \div 256>>
-----------------------------------------------------------------------------
(* The parser *)

Searching == [state |-> "HDR0", len |-> 0, type |-> 0, payload |-> <<>>,
              crc |-> EDGE_CRC16_INIT, crc_lo |-> 0]

(* edge_parser_deliver(), once the second byte of the CRC has come *)
CrcMatches(p, byte) == byte * 256 + p.crc_lo = p.crc

(* Bug variant: a second first byte is not taken for the begin of a frame. *)
OnHdr1_Restart(p, byte) ==
  [p EXCEPT !.state = IF byte = EDGE_HDR1 THEN "LEN" ELSE "HDR0",
            !.crc = IF byte = EDGE_HDR1 THEN EDGE_CRC16_INIT ELSE @]

OnHdr1(p, byte) ==
  CASE byte = EDGE_HDR1 -> [p EXCEPT !.state = "LEN", !.crc = EDGE_CRC16_INIT]
    [] byte = EDGE_HDR0 -> p
    [] OTHER -> [p EXCEPT !.state = "HDR0"]

(* Bug variant: the length may be one more than fits. *)
LenValid_Loose(byte) == EDGE_LEN_MIN <= byte /\ byte <= EDGE_LEN_MAX + 1

LenValid(byte) == EDGE_LEN_MIN <= byte /\ byte <= EDGE_LEN_MAX

OnLen(p, byte) ==
  IF LenValid(byte)
    THEN [p EXCEPT !.state = "TYPE", !.len = byte,
                   !.crc = edge_crc16_update(@, byte)]
    ELSE Searching

OnType(p, byte) ==
  [p EXCEPT !.state = IF p.len = EDGE_LEN_MIN THEN "CRC_LO" ELSE "PAYLOAD",
            !.type = byte, !.payload = <<>>, !.crc = edge_crc16_update(@, byte)]

OnPayload(p, byte) ==
  [p EXCEPT !.state = IF Len(p.payload) + 1 >= p.len - 1 THEN "CRC_LO" ELSE @,
            !.payload = Append(@, byte), !.crc = edge_crc16_update(@, byte)]

(* Bug variant: after a CRC error the parser waits for the next CRC. *)
OnCrcHi_Waits(p, byte) ==
  IF CrcMatches(p, byte) THEN [p EXCEPT !.state = "HDR0"]
                         ELSE [p EXCEPT !.state = "CRC_LO"]

OnCrcHi(p, byte) ==
  IF CrcMatches(p, byte) THEN [p EXCEPT !.state = "HDR0"] ELSE Searching

(* edge_parser_feed(): the parser after a byte. *)
edge_parser_feed(p, byte) ==
  CASE p.state = "HDR0" ->
         [p EXCEPT !.state = IF byte = EDGE_HDR0 THEN "HDR1" ELSE @]
    [] p.state = "HDR1" -> OnHdr1(p, byte)
    [] p.state = "LEN" -> OnLen(p, byte)
    [] p.state = "TYPE" -> OnType(p, byte)
    [] p.state = "PAYLOAD" -> OnPayload(p, byte)
    [] p.state = "CRC_LO" -> [p EXCEPT !.state = "CRC_HI", !.crc_lo = byte]
    [] p.state = "CRC_HI" -> OnCrcHi(p, byte)

Delivers(p, byte) == p.state = "CRC_HI" /\ CrcMatches(p, byte)
Delivery(p) == [type |-> p.type, payload |-> p.payload]

(* The effect of one byte on the receiver. *)
Feed(byte) ==
  /\ parser' = edge_parser_feed(parser, byte)
  /\ got' = IF Delivers(parser, byte) THEN Append(got, Delivery(parser)) ELSE got
  /\ heard' = LET all == Append(heard, byte)
              IN  IF Len(all) > EDGE_FRAME_MAX THEN Tail(all) ELSE all
-----------------------------------------------------------------------------
(* The sender and the line *)

Init ==
  /\ parser = Searching
  /\ sending = <<>> /\ frame \in Frames /\ aligned = FALSE /\ got = <<>>
  /\ sent = 0 /\ plain = TRUE /\ faults = 0 /\ quiet = EDGE_FRAME_MAX /\ heard = <<>>

(* A parser that has just seen one first byte accepts a frame as well. *)
AwaitsHeader(p) == p.state \in {"HDR0", "HDR1"}

Begin(f) ==
  /\ sending = <<>> /\ sent < MaxFrames
  /\ sending' = edge_frame_encode(f.type, f.payload)
  /\ frame' = f /\ sent' = sent + 1 /\ got' = <<>>
  /\ aligned' = AwaitsHeader(parser)
  /\ plain' = (plain /\ ~Contains(Tail(sending'), EDGE_HDR0))
  /\ UNCHANGED <<parser, faults, quiet, heard>>

Byte ==
  /\ sending # <<>>
  /\ Feed(Head(sending)) /\ sending' = Tail(sending)
  /\ quiet' = IF quiet < EDGE_FRAME_MAX THEN quiet + 1 ELSE quiet
  /\ UNCHANGED <<frame, aligned, sent, plain, faults>>

Fault ==
  /\ faults < MaxFaults
  /\ faults' = faults + 1 /\ quiet' = 0 /\ aligned' = FALSE
  /\ UNCHANGED <<frame, sent, plain>>

Replaced(byte) ==
  /\ sending # <<>> /\ byte # Head(sending)
  /\ Fault /\ Feed(byte) /\ sending' = Tail(sending)

LostByte ==
  /\ sending # <<>>
  /\ Fault /\ got' = got /\ sending' = Tail(sending)
  /\ UNCHANGED <<parser, heard>>

Inserted(byte) == Fault /\ Feed(byte) /\ UNCHANGED sending

(* edge_parser_reset(), when the port is another one *)
Reset ==
  /\ Fault
  /\ parser' = Searching /\ heard' = <<>>
  /\ UNCHANGED <<sending, got>>

Over == sending = <<>> /\ sent = MaxFrames /\ UNCHANGED vars

Next ==
  \/ \E f \in Frames : Begin(f)
  \/ Byte \/ LostByte \/ Reset \/ Over
  \/ \E byte \in Noise : Replaced(byte) \/ Inserted(byte)

Spec == Init /\ [][Next]_vars
-----------------------------------------------------------------------------
(* Properties *)

(* Type, and the bounds of the payload array: the next byte that is stored *)
(* has an index below EDGE_PAYLOAD_MAX = EDGE_LEN_MAX - 1 and below LEN.   *)
ParserTypeOK ==
  /\ parser.state \in {"HDR0", "HDR1", "LEN", "TYPE", "PAYLOAD", "CRC_LO", "CRC_HI"}
  /\ parser.len \in 0 .. EDGE_LEN_MAX /\ parser.crc \in uint16_t
  /\ parser.payload \in Seq(uint8_t)
  /\ parser.state = "PAYLOAD" =>
       /\ Len(parser.payload) < EDGE_LEN_MAX - 1
       /\ Len(parser.payload) < parser.len - 1
  /\ parser.state \in {"CRC_LO", "CRC_HI"} => Len(parser.payload) = parser.len - 1

(* Whatever the line did, a frame is delivered only when its encoding, as  *)
(* edge_frame_encode() makes it, is exactly what was received last: no     *)
(* byte of an earlier frame, of noise or of a resynchronisation is in it.  *)
DeliveredWasReceived ==
  [][(got' # got /\ got' # <<>>) =>
       LET code == edge_frame_encode(Last(got').type, Last(got').payload)
       IN  IsSuffix(code, heard')]_vars

(* A frame that finds the parser searching, or after one stray first byte  *)
(* (AA AA 55, edge_frame.c:119), and comes undisturbed, is delivered, once *)
(* and alone, also when it contains a header itself.                       *)
AlignedIsDelivered ==
  (sending = <<>> /\ aligned) => got = <<frame>>

(* The payload array is never exceeded, and resynchronisation is bounded:  *)
(* after a fault the parser may take up to LEN_MAX + 4 bytes for a false   *)
(* frame (the second byte of its header, LEN, LEN_MAX bytes and the CRC).  *)
(* When so many came without another fault, and no frame has the first     *)
(* byte of a header but at its begin, the next frame is found.  Both rest  *)
(* on the check of LEN (edge_frame.c:127, :147).                           *)
FindsNextFrame ==
  /\ ParserTypeOK
  /\ (sending # <<>> /\ sending = edge_frame_encode(frame.type, frame.payload)
        /\ quiet >= EDGE_LEN_MAX + 4 /\ plain) => AwaitsHeader(parser)
=============================================================================
