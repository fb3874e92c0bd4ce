----------------------------- MODULE SrProtocol -----------------------------
(***************************************************************************)
(* The vocabulary the two ends of the selective-repeat (SR) command link   *)
(* share: the limits of protocol/include/edge_proto/edge_proto.h and the   *)
(* frames of the five SR types.  The gateway (CommandTracker) and the node *)
(* (edge_sr.c) are modelled in modules of their own that extend this one.  *)
(*                                                                         *)
(* Times are counted in ticks.  Code that compares "now - t >= LIMIT" is   *)
(* modelled by the age of t, counted up to the largest limit it is         *)
(* compared with: beyond it all ages behave alike.                         *)
(***************************************************************************)
EXTENDS Naturals, FiniteSets

CONSTANTS
  Op,             (* operation codes: 0x20, 0x21, 0x22                     *)
  Arg,            (* argument bytes of a command                           *)
  SeqSpace,       (* sequence numbers of a session: 256                    *)
  Returned,       (* what an execution may return in this instance         *)
  MaxSession,     (* the largest session number: 2^64 - 1                  *)
  Window,         (* EDGE_SR_WINDOW_SIZE                                   *)
  Capacity,       (* EDGE_SR_RESULT_CAPACITY                               *)
  MaxRetry,       (* EDGE_MAX_RETRY                                        *)
  AckTimeout,     (* EDGE_ACK_TIMEOUT_MS                                   *)
  Lifetime,       (* EDGE_COMMAND_LIFETIME_MS                              *)
  ResultTtl,      (* EDGE_SR_RESULT_TTL_MS                                 *)
  ResultTimeout   (* EDGE_SR_RESULT_TIMEOUT_MS                             *)

ASSUME LimitsAssumption ==
  /\ SeqSpace \in Nat \ {0}
  /\ MaxSession \in Nat \ {0}
  /\ Window \in Nat \ {0}
  /\ Capacity \in Nat
  /\ MaxRetry \in Nat
  /\ AckTimeout \in Nat \ {0}
  /\ Lifetime \in Nat \ {0}
  /\ ResultTtl \in Nat \ {0}
  /\ ResultTimeout \in Nat \ {0}

\* The #error of edge_proto.h: room for a window of pending commands and a
\* window of results.
ASSUME CapacityAssumption == Capacity >= 2 * Window

Seqs == 0 .. SeqSpace - 1
Session == 0 .. MaxSession      \* 0 is "none yet", both ends start there
UsedSession == Session \ {0}    \* begin() never opens session 0

\* A business command: its operation code and its arguments.
Command == [op : Op, arg : Arg]

(***************************************************************************)
(* What an executed command returns: rc = OK with the data its operation   *)
(* code asks for, an error code alone, or a reply whose length or code     *)
(* does not fit, which the gateway's resultValid() refuses.                *)
(***************************************************************************)
Result == {"ok", "error", "malformed"}
NoResult == "none"      \* nothing, or more than fits
resultValid(r) == r # "malformed"

ASSUME ReturnedAssumption == Returned \subseteq Result \cup {NoResult}

(***************************************************************************)
(* Frames from the gateway to the node.  Every one carries its session.    *)
(***************************************************************************)
OpenFrame == [type : {"OPEN"}, session : UsedSession]
CommandFrame ==
  [type : {"COMMAND"}, session : UsedSession, seq : Seqs, cmd : Command]
ResultAckFrame == [type : {"RESULT_ACK"}, session : UsedSession, seq : Seqs]
DownFrame == OpenFrame \cup CommandFrame \cup ResultAckFrame

(***************************************************************************)
(* Frames from the node to the gateway.  A RESULT names the operation code *)
(* of the command it answers, not its arguments.                           *)
(***************************************************************************)
OpenAckFrame ==
  [type : {"OPEN_ACK"}, session : UsedSession, highWater : Session,
   rc : {"OK", "BAD_PARAM"}]
ReceivedFrame == [type : {"RECEIVED"}, session : UsedSession, seq : Seqs]
ResultFrame ==
  [type : {"RESULT"}, session : UsedSession, seq : Seqs, op : Op,
   result : Result]
UpFrame == OpenAckFrame \cup ReceivedFrame \cup ResultFrame

\* One more tick of an age that no code tells apart beyond limit.
Older(age, limit) == IF age < limit THEN age + 1 ELSE age
=============================================================================
