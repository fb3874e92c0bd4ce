---------------------------- MODULE AsyncLogger ----------------------------
(***************************************************************************)
(* AsyncLogger.cpp: logging threads append whole lines to blocks, and one  *)
(* flush thread exchanges the full blocks for empty ones and writes them.  *)
(*                                                                         *)
(* What happens under mtx_ is one step.  The flush thread's wait is two:   *)
(* it looks at the predicate with the lock held, then sleeps.  The         *)
(* destructor takes no lock, so it can notify in between.                  *)
(***************************************************************************)
EXTENDS Naturals, Sequences, SequencesExt, FiniteSetsExt

CONSTANTS
  kBufferSize,       \* bytes of a block
  kMaxQueuedBuffers, \* blocks waiting, above which the queue is cut
  kKeepOnOverflow,   \* blocks that are kept then
  Length,            \* lengths of lines
  MaxLines           \* bound on the lines appended

ASSUME LoggerConstants ==
  /\ kBufferSize \in Nat \ {0} /\ MaxLines \in Nat
  /\ kKeepOnOverflow \in Nat /\ kMaxQueuedBuffers \in Nat
  /\ kKeepOnOverflow < kMaxQueuedBuffers
  /\ Length \subseteq 1 .. kBufferSize - 1

VARIABLES
  currentBuffer,  \* currentBuffer_: a sequence of lines, or NoBuffer
  nextBuffer,     \* nextBuffer_: whether there is one (it is empty)
  bufferToWrite,  \* bufferToWrite_
  dropped,        \* dropped_
  running,        \* running_
  flush,          \* the flush thread
  lines,          \* history: how many lines were appended
  output,         \* history: what was written of each block, in order
  failed,         \* history: the blocks whose write failed, maybe in part
  discarded,      \* history: the blocks cut from the queue
  reports         \* history: how many cut blocks were reported, or failed to be

vars == <<currentBuffer, nextBuffer, bufferToWrite, dropped, running, flush,
          lines, output, failed, discarded, reports>>
front == <<currentBuffer, nextBuffer, bufferToWrite, dropped>>
written == <<output, failed, reports>>

NoBuffer == <<[id |-> 0, len |-> 0]>>   \* a null pointer: lines count from 1
Size(buffer) == FoldSeq(LAMBDA line, sum : line.len + sum, 0, buffer)

(* newCurrent and newNext: whether the thread holds these spare blocks.    *)
(* local: the blocks of localBuffers still to be written, of taken.        *)
(* last: it is in the drain after the loop.                                *)
Init ==
  /\ currentBuffer = <<>> /\ nextBuffer = TRUE
  /\ bufferToWrite = <<>> /\ dropped = 0 /\ running = TRUE
  /\ flush = [pc |-> "open", newCurrent |-> TRUE, newNext |-> TRUE,
              local |-> <<>>, taken |-> 0, dropped |-> 0, last |-> FALSE,
              notified |-> FALSE]
  /\ lines = 0 /\ output = <<>> /\ failed = {} /\ discarded = <<>>
  /\ reports = [written |-> 0, failed |-> 0]
-----------------------------------------------------------------------------
(* append() *)

Notified(f) == IF f.pc = "asleep" THEN [f EXCEPT !.notified = TRUE] ELSE f

(* The blocks after the first kKeepOnOverflow are given up and counted. *)
Cut ==
  /\ dropped' = dropped + Len(bufferToWrite) - kKeepOnOverflow
  /\ discarded' = discarded \o SubSeq(bufferToWrite, kKeepOnOverflow + 1,
                                      Len(bufferToWrite))

Overflow == Len(bufferToWrite) >= kMaxQueuedBuffers

(* Not while the destructor runs: its caller has to exclude that. *)
append(len) ==
  LET line == [id |-> lines + 1, len |-> len]
      kept == IF Overflow THEN SubSeq(bufferToWrite, 1, kKeepOnOverflow)
                          ELSE bufferToWrite
  IN  /\ running /\ lines < MaxLines
      /\ flush.pc # "checked"
      /\ lines' = lines + 1
      /\ \/ /\ len + Size(currentBuffer) < kBufferSize
            /\ currentBuffer' = Append(currentBuffer, line)
            /\ UNCHANGED <<nextBuffer, bufferToWrite, dropped, flush, discarded>>
         \/ /\ len + Size(currentBuffer) >= kBufferSize
            /\ IF Overflow THEN Cut ELSE UNCHANGED <<dropped, discarded>>
            /\ bufferToWrite' = Append(kept, currentBuffer)
            /\ currentBuffer' = <<line>>
            /\ nextBuffer' = FALSE
            /\ flush' = Notified(flush)
      /\ UNCHANGED <<running, written>>

(* ~AsyncLogger(), up to its join *)
Destroy ==
  /\ running
  /\ running' = FALSE
  /\ flush' = Notified(flush)
  /\ UNCHANGED <<front, lines, discarded, written>>
-----------------------------------------------------------------------------
(* flushThread() *)

Goto(pc) == flush' = [flush EXCEPT !.pc = pc]

(* A file that cannot be opened ends the thread. *)
Open ==
  /\ flush.pc = "open"
  /\ Goto("head") \/ Goto("ended")
  /\ UNCHANGED <<front, running, lines, discarded, written>>

(* Bug variant: the loop does not look at running_. *)
LoopHead_Forever ==
  /\ flush.pc = "head"
  /\ Goto("lock")
  /\ UNCHANGED <<front, running, lines, discarded, written>>

LoopHead ==
  /\ flush.pc = "head"
  /\ Goto(IF running THEN "lock" ELSE "drain")
  /\ UNCHANGED <<front, running, lines, discarded, written>>

Predicate == bufferToWrite # <<>> \/ ~running

(* The blocks to write: those that wait, then the current one. *)
Collected ==
  IF currentBuffer \in {NoBuffer, <<>>} THEN bufferToWrite
                                        ELSE Append(bufferToWrite, currentBuffer)

(* The rest of the critical section: the current block joins the queue, an *)
(* empty one replaces it, a missing spare is replaced, and the queue is    *)
(* taken with the count of dropped blocks.                                 *)
Exchange ==
  LET took == currentBuffer \notin {NoBuffer, <<>>}
  IN  /\ currentBuffer' = CASE ~took -> currentBuffer
                            [] took /\ flush.newCurrent -> <<>>
                            [] took /\ ~flush.newCurrent -> NoBuffer
      /\ nextBuffer' = (nextBuffer \/ flush.newNext)
      /\ bufferToWrite' = <<>>
      /\ dropped' = IF Collected = <<>> THEN dropped ELSE 0
      /\ flush' = [flush EXCEPT
           !.pc = IF Collected = <<>> THEN "head" ELSE "report",
           !.newCurrent = @ /\ ~took, !.newNext = @ /\ nextBuffer,
           !.local = Collected, !.taken = Len(Collected), !.notified = FALSE,
           !.dropped = IF Collected = <<>> THEN 0 ELSE dropped]
      /\ UNCHANGED <<running, lines, discarded, written>>

Lock ==
  /\ flush.pc = "lock"
  /\ \/ Predicate /\ Exchange
     \/ /\ ~Predicate /\ Goto("checked")
        /\ UNCHANGED <<front, running, lines, discarded, written>>

Sleep ==
  /\ flush.pc = "checked"
  /\ Goto("asleep")
  /\ UNCHANGED <<front, running, lines, discarded, written>>

Wake ==
  /\ flush.pc = "asleep" /\ flush.notified /\ Predicate
  /\ Exchange

(* Bug variant: the wait begins again when there is no full block. *)
TimeOut_Again ==
  /\ flush.pc = "asleep" /\ Predicate
  /\ Exchange

(* wait_for() returns after the flush interval, whatever the predicate. *)
TimeOut ==
  /\ flush.pc = "asleep"
  /\ Exchange

(* report_dropped(): a failed write, of all of it or a part, is ignored. *)
ReportDropped ==
  /\ flush.pc = "report"
  /\ flush' = [flush EXCEPT !.pc = "write", !.dropped = 0]
  /\ \/ reports' = [reports EXCEPT !.written = @ + flush.dropped]
     \/ reports' = [reports EXCEPT !.failed = @ + flush.dropped]
  /\ UNCHANGED <<front, running, lines, discarded, output, failed>>

(* The spares that were handed out are refilled from the blocks written. *)
Recycled(f, blocks) ==
  [f EXCEPT !.newCurrent = @ \/ blocks > 0,
            !.newNext = @ \/ blocks > (IF f.newCurrent THEN 0 ELSE 1)]

(* The lines of a block that its first bytes reach, the last one maybe cut. *)
Begun(block, bytes) ==
  LET reached == {i \in DOMAIN block : Size(SubSeq(block, 1, i - 1)) < bytes}
  IN  SubSeq(block, 1, Cardinality(reached))

(* safe_write() goes on after a short count and gives up at an error: what *)
(* it has written of the block until then, total bytes of it, stays in the *)
(* log, and the block is reported as not written.                          *)
WriteFails(block) ==
  /\ failed' = failed \union {block}
  /\ \E total \in 0 .. Size(block) - 1 :
       output' = Append(output, Begun(block, total))

(* Bug variant: an error ends the loop over the blocks. *)
WriteBlock_Break ==
  LET block == Head(flush.local)
  IN  /\ flush.pc = "write" /\ flush.local # <<>>
      /\ \/ /\ output' = Append(output, block) /\ UNCHANGED failed
            /\ flush' = [flush EXCEPT !.local = Tail(@)]
         \/ /\ WriteFails(block)
            /\ flush' = [flush EXCEPT !.local = <<>>]
      /\ UNCHANGED <<front, running, lines, discarded, reports>>

(* One block is written, or fails with a message; the next one follows. *)
WriteBlock ==
  LET block == Head(flush.local)
  IN  /\ flush.pc = "write" /\ flush.local # <<>>
      /\ \/ output' = Append(output, block) /\ UNCHANGED failed
         \/ WriteFails(block)
      /\ flush' = [flush EXCEPT !.local = Tail(@)]
      /\ UNCHANGED <<front, running, lines, discarded, reports>>

Written ==
  /\ flush.pc = "write" /\ flush.local = <<>>
  /\ flush' = IF flush.last
                THEN [flush EXCEPT !.pc = "ended"]
                ELSE [Recycled(flush, flush.taken) EXCEPT !.pc = "head", !.taken = 0]
  /\ UNCHANGED <<front, running, lines, discarded, written>>

(* The critical section after the loop takes everything; nothing replaces  *)
(* the block in use.                                                       *)
Drain ==
  /\ flush.pc = "drain"
  /\ bufferToWrite' = <<>> /\ dropped' = 0
  /\ currentBuffer' = IF currentBuffer = <<>> THEN <<>> ELSE NoBuffer
  /\ flush' = [flush EXCEPT !.pc = "report", !.last = TRUE,
                            !.local = Collected, !.dropped = dropped]
  /\ UNCHANGED <<nextBuffer, running, lines, discarded, written>>

FlushThread ==
  \/ Open \/ LoopHead \/ Lock \/ Sleep \/ Wake \/ TimeOut
  \/ ReportDropped \/ WriteBlock \/ Written \/ Drain

Terminated == flush.pc = "ended" /\ ~running /\ UNCHANGED vars

Next == (\E len \in Length : append(len)) \/ Destroy \/ FlushThread \/ Terminated

Spec == Init /\ [][Next]_vars

(* The flush thread is scheduled, its wait ends after the interval, and a  *)
(* write returns.                                                          *)
FairSpec == Spec /\ WF_vars(FlushThread)
-----------------------------------------------------------------------------
(* Properties *)

Line == [id : 1 .. MaxLines, len : Length]

(* Type, and the bounds: no more than kMaxQueuedBuffers blocks wait        *)
(* between critical sections, and as long as the flush thread has not      *)
(* begun its last drain there is a block for append() to dereference.      *)
LoggerTypeOK ==
  /\ currentBuffer \in Seq(Line)
       \/ (currentBuffer = NoBuffer /\ ~running /\ flush.last)
  /\ \A i \in DOMAIN bufferToWrite : bufferToWrite[i] \in Seq(Line)
  /\ Len(bufferToWrite) <= kMaxQueuedBuffers
  /\ nextBuffer \in BOOLEAN /\ running \in BOOLEAN
  /\ dropped \in Nat
  /\ flush.pc \in {"open", "head", "lock", "checked", "asleep", "report",
                   "write", "drain", "ended"}

(* The blocks that are written or on their way, in their order: those in   *)
(* the output, in the flush thread's hands, in the queue, and in use.      *)
InUse == IF currentBuffer = NoBuffer THEN <<>> ELSE <<currentBuffer>>
Waiting == flush.local \o bufferToWrite \o InUse
Blocks == output \o Waiting

Ids(block) == {block[i].id : i \in DOMAIN block}
LinesIn(blocks) == UNION {Ids(block) : block \in Range(blocks)}
CutLines == LinesIn(discarded)
FailedLines == UNION {Ids(block) : block \in failed}

(* Lines are written in the order of append(), none twice: within a block, *)
(* and from each block to the later ones, whatever exchanges and cuts      *)
(* there were (append 89-124, flushThread 147-199).                        *)
LinesInOrder ==
  /\ \A k \in DOMAIN Blocks : \A i, j \in DOMAIN Blocks[k] :
       i < j => Blocks[k][i].id < Blocks[k][j].id
  /\ \A k, l \in DOMAIN Blocks : k < l =>
       \A m \in Ids(Blocks[k]), n \in Ids(Blocks[l]) : m < n

(* A failed block is in the log up to some line: none after a missing one. *)
OnlyABeginning ==
  \A block \in failed : \A i, j \in DOMAIN block :
    i < j /\ block[j].id \in LinesIn(output) => block[i].id \in LinesIn(output)

(* No line disappears: one that is neither in the log nor on its way was   *)
(* in a block that was cut from the queue, and then nothing of it is       *)
(* written, or in a block whose write failed, and then it is not written   *)
(* later: of such a block the first lines may be in the log, and no line   *)
(* behind a missing one (safe_write 30-43, flushThread 177-183, 216-222).  *)
NoLineVanishes ==
  /\ LinesIn(Blocks) \union CutLines \union FailedLines = 1 .. lines
  /\ LinesIn(Blocks) \intersect CutLines = {}
  /\ LinesIn(Waiting) \intersect FailedLines = {}
  /\ CutLines \intersect FailedLines = {}
  /\ OnlyABeginning

(* Each block that was cut is reported once: what was reported, or failed  *)
(* to be, what the flush thread has taken and what is still counted add up *)
(* to the blocks cut (append 99, flushThread 168-175).                     *)
DropsAddUp ==
  reports.written + reports.failed + flush.dropped + dropped = Len(discarded)

(* When the flush thread of a file that could be opened has ended, nothing *)
(* is left unwritten and no cut block unreported (202-222).                *)
DrainedAtExit ==
  (flush.pc = "ended" /\ flush.last) =>
    /\ currentBuffer \in {NoBuffer, <<>>}
    /\ bufferToWrite = <<>> /\ flush.local = <<>> /\ dropped = 0

(* All that append() took is accounted for at every moment: lines in their *)
(* order, none lost without a trace, cut blocks counted until they are     *)
(* reported, the queue within its limit, and nothing left by the last      *)
(* drain (AsyncLogger.cpp append and flushThread).                         *)
LinesAccounted ==
  LoggerTypeOK /\ LinesInOrder /\ NoLineVanishes /\ DropsAddUp /\ DrainedAtExit

Settled(n) == n \in LinesIn(output) \union CutLines \union FailedLines

(* Every line is written, cut or lost with an error, unless the output     *)
(* could not be opened: also the last lines before a pause, which only the *)
(* flush interval brings out (flushThread 149).                            *)
EveryLineSettles ==
  \A n \in 1 .. MaxLines :
    (lines >= n) ~> (Settled(n) \/ (flush.pc = "ended" /\ ~flush.last))

(* The destructor's join returns, also when its notification is lost       *)
(* between the predicate and the sleep.                                    *)
DestructorReturns == ~running ~> (flush.pc = "ended")
=============================================================================
