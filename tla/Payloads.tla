------------------------------ MODULE Payloads ------------------------------
(***************************************************************************)
(* What is inside the frames: the payloads both ends of the serial line    *)
(* write and read (edge_proto.h), and the conversions at their ends.  On   *)
(* the way down a cloud message becomes a command (CommandTranslator.cpp), *)
(* the node executes it (the business of tools/node-sim), and its result   *)
(* becomes an answer (CommandTracker.cpp, GatewayCore.cpp).  On the way up *)
(* a telemetry frame becomes readings (TelemetryDecoder.cpp) and text      *)
(* (Number.h).                                                             *)
(*                                                                         *)
(* A payload is the sequence of its bytes, and p[i] of the code p[i + 1].  *)
(* Values with one decimal are counted in tenths: the double next to n/10  *)
(* is printed by "%.1f" as n tenths, for every n of 16 bits.  Text that is *)
(* a number is the sequence of its whole part and its decimal, if any.     *)
(***************************************************************************)
EXTENDS Integers, Sequences

Octet == 0 .. 255
Word == {v \in Nat : v <= 65535}

EDGE_PAYLOAD_MAX == 63
EDGE_SR_ARGS_MAX == EDGE_PAYLOAD_MAX - 10    \* EDGE_SR_RESULT_MAX as well
EDGE_PERIOD_MIN_S == 1
EDGE_PERIOD_MAX_S == 65535

\* edge_type_t and edge_rc_t
EDGE_TYPE_DHT11 == 1
EDGE_TYPE_BH1750 == 2
EDGE_TYPE_HEARTBEAT == 3
EDGE_TYPE_STATUS == 4
EDGE_TYPE_SR_RECEIVED == 7
EDGE_TYPE_SR_RESULT == 8
EDGE_TYPE_SR_OPEN_ACK == 9
EDGE_TYPE_QUERY_LIGHT == 32
EDGE_TYPE_QUERY_TH == 33
EDGE_TYPE_SET_PERIOD == 34
EDGE_TYPE_SR_OPEN == 35
EDGE_TYPE_SR_COMMAND == 36
EDGE_TYPE_SR_RESULT_ACK == 37

EDGE_RC_OK == 0
EDGE_RC_BAD_PARAM == 1
EDGE_RC_UNSUPPORTED == 2
EDGE_RC_BUSY == 3
-----------------------------------------------------------------------------
(* edge_proto.h *)

edge_u16_be_read(p, at) == 256 * p[at + 1] + p[at + 2]
edge_u16_be_write(v) == <<(v \div 256) % 256, v % 256>>

\* v >> 8
Shifted(v) == v \div 256

edge_u64_be_write(v) ==
  LET v1 == Shifted(v)    v2 == Shifted(v1)  v3 == Shifted(v2)  v4 == Shifted(v3)
      v5 == Shifted(v4)   v6 == Shifted(v5)  v7 == Shifted(v6)
  IN  <<v7 % 256, v6 % 256, v5 % 256, v4 % 256, v3 % 256, v2 % 256, v1 % 256, v % 256>>

\* A turn of the loop of edge_u64_be_read(): (v << 8) | byte.
Joined(v, byte) == 256 * v + byte

edge_u64_be_read(p, at) ==
  LET r1 == Joined(0, p[at + 1])   r2 == Joined(r1, p[at + 2])
      r3 == Joined(r2, p[at + 3])  r4 == Joined(r3, p[at + 4])
      r5 == Joined(r4, p[at + 5])  r6 == Joined(r5, p[at + 6])
      r7 == Joined(r6, p[at + 7])
  IN  Joined(r7, p[at + 8])

\* Whether v fits into 64 bits.
IsU64(v) ==
  v \in Nat /\ Shifted(Shifted(Shifted(Shifted(Shifted(Shifted(Shifted(v))))))) < 256

edge_min_payload_len(type) ==
  CASE type = EDGE_TYPE_DHT11 -> 4
    [] type = EDGE_TYPE_BH1750 -> 2
    [] type = EDGE_TYPE_HEARTBEAT -> 0
    [] type \in {EDGE_TYPE_STATUS, EDGE_TYPE_QUERY_LIGHT, EDGE_TYPE_QUERY_TH} -> 1
    [] type \in {5, 6} -> 2                   \* QUERY_RESP, ACK
    [] type \in {EDGE_TYPE_SR_RECEIVED, EDGE_TYPE_SR_RESULT_ACK} -> 9
    [] type = EDGE_TYPE_SR_RESULT -> 11
    [] type = EDGE_TYPE_SR_OPEN_ACK -> 17
    [] type = EDGE_TYPE_SR_OPEN -> 8
    [] type = EDGE_TYPE_SR_COMMAND -> 10
    [] type = EDGE_TYPE_SET_PERIOD -> 3
    [] OTHER -> -1

edge_payload_len_ok(type, len) ==
  edge_min_payload_len(type) >= 0 /\ len >= edge_min_payload_len(type)

edge_period_s_valid(period) == period >= EDGE_PERIOD_MIN_S
-----------------------------------------------------------------------------
(* The payloads of the SR frames, as openSend(), dataSend(), resultAck(),  *)
(* emit_received(), emit_result() and the answer to OPEN write them.       *)

OpenPayload(session) == edge_u64_be_write(session)
BodyPayload(session, seq, type, body) ==       \* COMMAND and RESULT
  edge_u64_be_write(session) \o <<seq, type>> \o body
SeqPayload(session, seq) ==                    \* RECEIVED and RESULT_ACK
  edge_u64_be_write(session) \o <<seq>>
OpenAckPayload(session, highWater, rc) ==
  edge_u64_be_write(session) \o edge_u64_be_write(highWater) \o <<rc>>

\* The other end's reading: args, or p.begin() + 10 .. p.end().
Body(p) == SubSeq(p, 11, Len(p))

(* resultValid(), for the payload of a RESULT *)
resultValid(type, p) ==
  /\ Len(p) >= 11 /\ p[11] <= EDGE_RC_BUSY
  /\ IF p[11] # EDGE_RC_OK THEN Len(p) = 11
     ELSE \/ type = EDGE_TYPE_QUERY_LIGHT /\ Len(p) = 13
          \/ type = EDGE_TYPE_QUERY_TH /\ Len(p) = 15
          \/ type = EDGE_TYPE_SET_PERIOD /\ Len(p) = 11
-----------------------------------------------------------------------------
(* CommandTranslator.cpp.  A message is the last level of its topic and    *)
(* what strtol makes of its text; a number beyond a long is LONG_MAX or    *)
(* LONG_MIN, and out of range all the same.                                *)

Refused == [ok |-> FALSE, type |-> 0, arg |-> <<>>]
Accepted(type, arg) == [ok |-> TRUE, type |-> type, arg |-> arg]

translateCommand(name, text) ==
  CASE name = "query_light" -> Accepted(EDGE_TYPE_QUERY_LIGHT, <<>>)
    [] name = "query_th" -> Accepted(EDGE_TYPE_QUERY_TH, <<>>)
    [] /\ name = "set_period" /\ text.isInt
       /\ EDGE_PERIOD_MIN_S <= text.value /\ text.value <= EDGE_PERIOD_MAX_S ->
         Accepted(EDGE_TYPE_SET_PERIOD, edge_u16_be_write(text.value))
    [] OTHER -> Refused
-----------------------------------------------------------------------------
(* tools/node-sim.  A node is its tick_ and its period_s; tick_ counts the *)
(* reports and is far from wrapping around.                                *)

temp_x10(tick) == 230 + (tick % 50)
humi_x10(tick) == 500 + (tick % 200)
lux(tick) == 100 + ((tick * 7) % 900)

Answered(node, result) == [node |-> node, result |-> result]

execute(node, type, args) ==
  CASE type = EDGE_TYPE_QUERY_LIGHT /\ args = <<>> ->
         Answered(node, <<EDGE_RC_OK>> \o edge_u16_be_write(lux(node.tick)))
    [] type = EDGE_TYPE_QUERY_TH /\ args = <<>> ->
         Answered(node, <<EDGE_RC_OK>> \o edge_u16_be_write(temp_x10(node.tick))
                                       \o edge_u16_be_write(humi_x10(node.tick)))
    [] /\ type = EDGE_TYPE_SET_PERIOD /\ Len(args) = 2
       /\ edge_period_s_valid(edge_u16_be_read(args, 0)) ->
         Answered([node EXCEPT !.period = edge_u16_be_read(args, 0)], <<EDGE_RC_OK>>)
    [] type \notin {EDGE_TYPE_QUERY_LIGHT, EDGE_TYPE_QUERY_TH, EDGE_TYPE_SET_PERIOD} ->
         Answered(node, <<EDGE_RC_UNSUPPORTED>>)
    [] OTHER -> Answered(node, <<EDGE_RC_BAD_PARAM>>)

Frame(type, payload) == [type |-> type, payload |-> payload]

\* reportOnce(): the frames of a round; dropped are the faults it injects.
Dht11Frame(temperature, humidity) ==
  Frame(EDGE_TYPE_DHT11, edge_u16_be_write(temperature) \o edge_u16_be_write(humidity))
Bh1750Frame(light) == Frame(EDGE_TYPE_BH1750, edge_u16_be_write(light))
StatusFrame(bits) == Frame(EDGE_TYPE_STATUS, <<bits>>)

reportOnce(tick, dropped) ==
  (IF "dht11" \in dropped THEN <<>>
   ELSE <<Dht11Frame(temp_x10(tick), humi_x10(tick))>>)
    \o (IF "bh1750" \in dropped THEN <<>> ELSE <<Bh1750Frame(lux(tick))>>)
    \o <<StatusFrame(3), Frame(EDGE_TYPE_HEARTBEAT, <<>>)>>
-----------------------------------------------------------------------------
(* TelemetryDecoder.cpp, Number.h and the end of GatewayCore.cpp           *)

Reading(device, tenths) == [device |-> device, tenths |-> tenths]

decodeTelemetry(f) ==
  LET p == f.payload
      bit(n) == IF (p[1] \div n) % 2 = 1 THEN 10 ELSE 0
  IN CASE ~edge_payload_len_ok(f.type, Len(p) % 256) -> <<>>
       [] f.type = EDGE_TYPE_DHT11 ->
            <<Reading("temperature", edge_u16_be_read(p, 0)),
              Reading("humidity", edge_u16_be_read(p, 2))>>
       [] f.type = EDGE_TYPE_BH1750 ->
            <<Reading("illuminance", 10 * edge_u16_be_read(p, 0))>>
       [] f.type = EDGE_TYPE_STATUS ->
            <<Reading("status_dht11", bit(1)), Reading("status_bh1750", bit(2))>>
       [] OTHER -> <<>>

\* "%.1f" without a trailing zero.
formatValue(tenths) ==
  IF tenths % 10 = 0 THEN <<tenths \div 10>> ELSE <<tenths \div 10, tenths % 10>>

\* The number a text says, in tenths.
Said(text) == 10 * text[1] + (IF Len(text) = 2 THEN text[2] ELSE 0)

\* handleTelemetry(): what is published, topic and text.
Published(f) ==
  LET readings == decodeTelemetry(f)
  IN  [i \in 1 .. Len(readings) |->
         [topic |-> readings[i].device, text |-> formatValue(readings[i].tenths)]]

\* handleFinished() for a result without an error: what the ack or the
\* response says, and the numbers in it.
Says(word, numbers) == [says |-> word, numbers |-> numbers]

AnswerTo(type, result) ==
  CASE Len(result) = 0 -> Says("invalid_result", <<>>)
    [] Len(result) > 0 /\ result[1] # EDGE_RC_OK -> Says("err", <<<<result[1]>>>>)
    [] Len(result) = 5 /\ result[1] = EDGE_RC_OK /\ type = EDGE_TYPE_QUERY_TH ->
         Says("ok", <<formatValue(edge_u16_be_read(result, 1)),
                      formatValue(edge_u16_be_read(result, 3))>>)
    [] Len(result) = 3 /\ result[1] = EDGE_RC_OK /\ type = EDGE_TYPE_QUERY_LIGHT ->
         Says("ok", <<<<edge_u16_be_read(result, 1)>>>>)
    [] Len(result) = 1 /\ result[1] = EDGE_RC_OK /\ type = EDGE_TYPE_SET_PERIOD ->
         Says("ok", <<>>)
    [] OTHER -> Says("invalid_result", <<>>)
-----------------------------------------------------------------------------
(* Properties *)

(* What one end writes into an SR frame the other end reads out of it, at  *)
(* the offsets and lengths each of them has in its own code                *)
(* (CommandTracker.cpp:26-46, 156-200 and edge_sr.c:25-43, 92-147); the    *)
(* longest command or result fits into a frame.                            *)
SrPayloadsAgree(session, high, seq, type, body, rc) ==
  LET open == OpenPayload(session)
      whole == BodyPayload(session, seq, type, body)
      receipt == SeqPayload(session, seq)
      answer == OpenAckPayload(session, high, rc)
  IN  /\ Len(open) = 8 /\ edge_u64_be_read(open, 0) = session
      /\ Len(whole) \in 10 .. EDGE_PAYLOAD_MAX
      /\ edge_u64_be_read(whole, 0) = session
      /\ whole[9] = seq /\ whole[10] = type /\ Body(whole) = body
      /\ Len(receipt) = 9
      /\ edge_u64_be_read(receipt, 0) = session /\ receipt[9] = seq
      /\ Len(answer) = 17 /\ edge_u64_be_read(answer, 0) = session
      /\ edge_u64_be_read(answer, 8) = high /\ answer[17] = rc

(* A message the gateway accepts (CommandTranslator.cpp:57) is a command   *)
(* the node executes with success, its result passes the gateway's check   *)
(* (CommandTracker.cpp:10), and the answer (GatewayCore.cpp:142) says what *)
(* was asked: the node's readings, or that the period is now the one that  *)
(* was sent.                                                               *)
CommandIsUnderstood(name, text, node, session, seq) ==
  LET cmd == translateCommand(name, text)
      done == execute(node, cmd.type, cmd.arg)
      p == BodyPayload(session, seq, cmd.type, done.result)
      answer == AnswerTo(cmd.type, Body(p))
  IN  cmd.ok =>
        /\ Len(cmd.arg) <= EDGE_SR_ARGS_MAX
        /\ resultValid(cmd.type, p)
        /\ answer.says = "ok"
        /\ name = "query_light" => answer.numbers = <<<<lux(node.tick)>>>>
        /\ name = "query_th" =>
             /\ Len(answer.numbers) = 2
             /\ Said(answer.numbers[1]) = temp_x10(node.tick)
             /\ Said(answer.numbers[2]) = humi_x10(node.tick)
        /\ name = "set_period" => done.node.period = text.value

(* Whatever a node returns: a result that passes resultValid() is never    *)
(* answered "invalid_result", and it is answered "ok" just when its code   *)
(* says so.  The two checks (CommandTracker.cpp:10, GatewayCore.cpp:147)   *)
(* are written apart and must agree.                                       *)
ResultIsAnswered(session, seq, type, body) ==
  LET p == BodyPayload(session, seq, type, body)
  IN  resultValid(type, p) =>
        AnswerTo(type, Body(p)).says = IF body[1] = EDGE_RC_OK THEN "ok" ELSE "err"

(* Telemetry is published with the values that were measured: whatever the *)
(* sensors say, the text reads as the number of tenths or units that was   *)
(* put into the frame (TelemetryDecoder.cpp:9, Number.h:23).               *)
TelemetryIsPublished(temperature, humidity, light, bits) ==
  LET dht11 == Published(Dht11Frame(temperature, humidity))
      bh1750 == Published(Bh1750Frame(light))
      status == Published(StatusFrame(bits))
  IN  /\ Len(dht11) = 2 /\ Len(bh1750) = 1 /\ Len(status) = 2
      /\ dht11[1].topic = "temperature" /\ Said(dht11[1].text) = temperature
      /\ dht11[2].topic = "humidity" /\ Said(dht11[2].text) = humidity
      /\ bh1750[1].topic = "illuminance" /\ bh1750[1].text = <<light>>
      /\ status[1].topic = "status_dht11" /\ status[1].text = <<bits % 2>>
      /\ status[2].topic = "status_bh1750" /\ status[2].text = <<(bits \div 2) % 2>>
=============================================================================
