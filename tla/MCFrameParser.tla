--------------------------- MODULE MCFrameParser ---------------------------
(* Frames for model checking FrameParser, and inputs for Payloads. *)
EXTENDS FrameParser, Payloads

(* A heartbeat; a frame that has a header in it but for a byte the line    *)
(* puts in, with the longest LEN; and one whose payload begins a header.   *)
MCFrames == {[type |-> 1, payload |-> <<>>], [type |-> 2, payload |-> <<EDGE_HDR1, 7>>],
             [type |-> 1, payload |-> <<EDGE_HDR0, EDGE_HDR1, 2>>]}

(* Values at the edges of a byte, of a word and of what TLC can count.     *)
MCWords == {0, 1, 9, 10, 255, 256, 2999, 65535}
MCSessions == {0, 1, 255, 256, 65536, 2147483647}
MCBodies == {<<>>, <<0>>, <<1>>, <<4>>, <<0, 1>>, <<0, 1, 2>>, <<3, 1, 2>>,
             <<0, 255, 255, 0, 9>>, <<0, 1, 2, 3, 4, 5>>}
MCTypes == {EDGE_TYPE_QUERY_LIGHT, EDGE_TYPE_QUERY_TH, EDGE_TYPE_SET_PERIOD, 0}
MCTexts == {[isInt |-> FALSE, value |-> 0]}
             \cup {[isInt |-> TRUE, value |-> v] : v \in MCWords \cup {-1, 65536}}

ASSUME PayloadsAgree ==
  \A s \in MCSessions, h \in MCSessions, type \in MCTypes, body \in MCBodies :
    /\ SrPayloadsAgree(s, h, 255, type, body, 1)
    /\ ResultIsAnswered(s, 0, type, body)

ASSUME MessagesAreUnderstood ==
  \A name \in {"query_light", "query_th", "set_period", "reboot"}, text \in MCTexts :
    \A tick \in {0, 1, 70, 199} :
      CommandIsUnderstood(name, text, [tick |-> tick, period |-> 2], 1, 0)

ASSUME TelemetryIsRead ==
  \A v \in MCWords, w \in MCWords, bits \in {0, 1, 2, 3, 255} :
    TelemetryIsPublished(v, w, v, bits)

(* One round of the simulated node, as the README of the repository shows  *)
(* it: 23.1, 50.1, 107, and both sensors present.                          *)
ASSUME FirstReport ==
  LET published(i) == Published(reportOnce(1, {})[i])
  IN  /\ published(1)[1].text = <<23, 1>> /\ published(1)[2].text = <<50, 1>>
      /\ published(2)[1].text = <<107>> /\ published(3)[1].text = <<1>>
      /\ published(4) = <<>> /\ Len(reportOnce(1, {"dht11", "bh1750"})) = 2
=============================================================================
