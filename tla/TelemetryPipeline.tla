------------------------- MODULE TelemetryPipeline -------------------------
(***************************************************************************)
(* TelemetryPipeline: readings are queued by the business thread and       *)
(* written by one writer thread, which also changes the database when a    *)
(* reload asked for it.  Batches and changes of database go through one    *)
(* bounded ThreadSafeQueue, so they are applied in the order in which they *)
(* were accepted.                                                          *)
(*                                                                         *)
(* A row is the number of its reading, counted over the accepted ones, so  *)
(* the order of rows is that of their acceptance.                          *)
(***************************************************************************)
EXTENDS Naturals, Sequences, SequencesExt, FiniteSets

CONSTANTS
  Db,              \* database files
  kQueueCapacity,  \* 1024
  kMaxRowsPerTxn,  \* 256
  MaxBatch,        \* the most readings of one frame
  MaxRows,         \* bound on the rows accepted in a behaviour
  MaxSwaps         \* bound on the changes of database

ASSUME PipelineConstants ==
  /\ {kQueueCapacity, kMaxRowsPerTxn, MaxBatch} \subseteq Nat \ {0}
  /\ {MaxRows, MaxSwaps} \subseteq Nat

VARIABLES
  queue,    \* queue_: its items and whether it is shut down
  writer,   \* where writerLoop() is, with its local variables
  swapper,  \* the management worker in swapDatabase(), or away
  read_db,  \* GatewayApp::read_db_, the database of new queries
  stored,   \* the rows of each database file, in the order written
  open,     \* rows of a transaction the writer's connection could not end
  failed,   \* rows that are not stored, which was logged
  target,   \* history: the database that each accepted row is meant for
  swaps     \* changes of database so far

vars == <<queue, writer, swapper, read_db, stored, open, failed, target, swaps>>

Away == [at |-> "away"]

NoJob == [kind |-> "none"]

Batch(rows) == [kind |-> "batch", rows |-> rows]

SwapDb(db) == [kind |-> "swap", db |-> db]

Init ==
  /\ queue = [items |-> <<>>, shutdown |-> FALSE]
  /\ \E db \in Db :
       /\ writer = [at |-> "pop", rows |-> <<>>, db |-> db, job |-> NoJob]
       /\ read_db = db
  /\ swapper = Away
  /\ stored = [db \in Db |-> <<>>]
  /\ open = <<>> /\ failed = {}
  /\ target = <<>>
  /\ swaps = 0

(* The test of try_push() and push_for(). *)
Room == Len(queue.items) < kQueueCapacity

push(job) == queue' = [queue EXCEPT !.items = Append(@, job)]

(* The database that a row accepted now will be written to: that of the    *)
(* last change in the queue or in the writer's hands, or the current one.  *)
NextTarget ==
  LET ahead == {i \in DOMAIN queue.items : queue.items[i].kind = "swap"}
  IN  CASE ahead # {} -> queue.items[Max(ahead)].db
        [] ahead = {} /\ writer.job.kind = "swap" -> writer.job.db
        [] OTHER -> writer.db
-----------------------------------------------------------------------------
(* Producers *)

(* submit(): the readings of a frame, at once or not at all. *)
Submit(n) ==
  /\ ~queue.shutdown
  /\ Len(target) + n <= MaxRows
  /\ Room
  /\ push(Batch([i \in 1..n |-> Len(target) + i]))
  /\ target' = target \o [i \in 1..n |-> NextTarget]
  /\ UNCHANGED <<writer, swapper, read_db, stored, open, failed, swaps>>

(* reloadDatabase() has opened both connections and calls swapDatabase().  *)
SwapBegin(db) ==
  /\ ~queue.shutdown
  /\ swapper = Away
  /\ swaps < MaxSwaps
  /\ swaps' = swaps + 1
  /\ swapper' = [at |-> "push", db |-> db]
  /\ UNCHANGED <<queue, writer, read_db, stored, open, failed, target>>

(* Bug variant: the readers change when the swap is queued. *)
SwapPush_Publishes ==
  /\ swapper.at = "push"
  /\ \/ Room /\ push(SwapDb(swapper.db)) /\ read_db' = swapper.db
     \/ ~Room /\ UNCHANGED <<queue, read_db>>
  /\ swapper' = Away
  /\ UNCHANGED <<writer, stored, open, failed, target, swaps>>

(* push_for() waits for room, and gives up when there was none in time.    *)
SwapPush ==
  /\ swapper.at = "push"
  /\ \/ Room /\ push(SwapDb(swapper.db))
     \/ ~Room /\ UNCHANGED queue
  /\ swapper' = Away
  /\ UNCHANGED <<writer, read_db, stored, open, failed, target, swaps>>

(* ~TelemetryPipeline: its callers have been stopped before.               *)
Shutdown ==
  /\ ~queue.shutdown
  /\ swapper = Away
  /\ queue' = [queue EXCEPT !.shutdown = TRUE]
  /\ UNCHANGED <<writer, swapper, read_db, stored, open, failed, target, swaps>>
-----------------------------------------------------------------------------
(* writerLoop() *)

(* ~Database: closing a connection rolls its transaction back. *)
CloseConnection == open' = <<>>

(* Bug variant: the rows wait in memory for the next job. *)
Pop_Waits ==
  /\ \/ /\ writer.at \in {"pop", "more"}
        /\ queue.items # <<>>
        /\ writer' = [writer EXCEPT !.at = "job", !.job = Head(queue.items)]
        /\ queue' = [queue EXCEPT !.items = Tail(@)]
        /\ UNCHANGED open
     \/ /\ writer.at \in {"pop", "more"}
        /\ queue.items = <<>> /\ queue.shutdown
        /\ writer' = [writer EXCEPT !.at = IF @ = "pop" THEN "gone" ELSE "flush"]
        /\ CloseConnection /\ UNCHANGED queue
  /\ UNCHANGED <<swapper, read_db, stored, failed, target, swaps>>

(* pop() blocks for the first job of a round and ends the thread when the  *)
(* queue is shut down and empty; try_pop() looks for more and ends the     *)
(* round when there is none.                                               *)
Pop ==
  /\ \/ /\ writer.at \in {"pop", "more"}
        /\ queue.items # <<>>
        /\ writer' = [writer EXCEPT !.at = "job", !.job = Head(queue.items)]
        /\ queue' = [queue EXCEPT !.items = Tail(@)]
        /\ UNCHANGED open
     \/ /\ writer.at = "more"
        /\ queue.items = <<>>
        /\ writer' = [writer EXCEPT !.at = "flush"]
        /\ UNCHANGED <<queue, open>>
     \/ /\ writer.at = "pop"
        /\ queue.items = <<>> /\ queue.shutdown
        /\ writer' = [writer EXCEPT !.at = "gone"]
        /\ CloseConnection /\ UNCHANGED queue
  /\ UNCHANGED <<swapper, read_db, stored, failed, target, swaps>>

(* Rows of a batch are added to the transaction, up to about               *)
(* kMaxRowsPerTxn.                                                         *)
TakeBatch ==
  /\ writer.at = "job" /\ writer.job.kind = "batch"
  /\ LET rows == writer.rows \o writer.job.rows
     IN  writer' = [writer EXCEPT !.rows = rows, !.job = NoJob,
                      !.at = IF Len(rows) >= kMaxRowsPerTxn THEN "flush" ELSE "more"]
  /\ UNCHANGED <<queue, swapper, read_db, stored, open, failed, target, swaps>>

(* What is left of s when any of its elements are taken out. *)
Subsequences(s) ==
  LET ascending(n) == {at \in [1..n -> DOMAIN s] :
                         \A i, j \in 1..n : i < j => at[i] < at[j]}
  IN  UNION {{[i \in 1..n |-> s[at[i]]] : at \in ascending(n)} : n \in 0..Len(s)}

(* insertBatch(): any row may fail by itself, and so may BEGIN and COMMIT, *)
(* each of which is logged.  A transaction whose COMMIT failed is rolled   *)
(* back; if that fails too it stays open, BEGIN of the next batch fails,   *)
(* and the rows of both are ended together, unless SQLite has rolled back  *)
(* the first by itself.  Without BEGIN each row is committed on its own.   *)
insertBatch ==
  IF writer.rows = <<>> THEN UNCHANGED <<stored, open, failed>>
  ELSE \E kept \in Subsequences(writer.rows), before \in {open, <<>>} :
         LET txn == before \o kept
         IN  \/ /\ stored' = [stored EXCEPT ![writer.db] = @ \o txn]
                /\ open' = <<>>
                /\ failed' = (failed \union Range(writer.rows)) \ Range(txn)
             \/ /\ open' \in {txn, <<>>}
                /\ failed' = failed \union Range(writer.rows)
                /\ UNCHANGED stored

(* Bug variant: the rows are written after the change. *)
TakeSwap_Late ==
  /\ writer.at = "job" /\ writer.job.kind = "swap"
  /\ stored' = [stored EXCEPT ![writer.job.db] = @ \o writer.rows]
  /\ writer' = [writer EXCEPT !.rows = <<>>, !.at = "switch"]
  /\ UNCHANGED <<queue, swapper, read_db, open, failed, target, swaps>>

(* A change of database ends the transaction of the old one, which may     *)
(* have no rows.                                                           *)
TakeSwap ==
  /\ writer.at = "job" /\ writer.job.kind = "swap"
  /\ insertBatch
  /\ writer' = [writer EXCEPT !.rows = <<>>, !.at = "switch"]
  /\ UNCHANGED <<queue, swapper, read_db, target, swaps>>

Switch ==
  /\ writer.at = "switch"
  /\ writer' = [writer EXCEPT !.db = writer.job.db, !.at = "applied"]
  /\ CloseConnection
  /\ UNCHANGED <<queue, swapper, read_db, stored, failed, target, swaps>>

(* on_applied() gives the new database to the readers. *)
Applied ==
  /\ writer.at = "applied"
  /\ read_db' = writer.job.db
  /\ writer' = [writer EXCEPT !.job = NoJob, !.at = "flush"]
  /\ UNCHANGED <<queue, swapper, stored, open, failed, target, swaps>>

(* The end of a round. *)
Flush ==
  /\ writer.at = "flush"
  /\ insertBatch
  /\ writer' = [writer EXCEPT !.rows = <<>>, !.at = "pop"]
  /\ UNCHANGED <<queue, swapper, read_db, target, swaps>>

(* The writer has returned and was joined. *)
Terminated == writer.at = "gone" /\ UNCHANGED vars
-----------------------------------------------------------------------------
WriterNext == Pop \/ TakeBatch \/ TakeSwap \/ Switch \/ Applied \/ Flush

Next ==
  \/ \E n \in 1..MaxBatch : Submit(n)
  \/ \E db \in Db : SwapBegin(db)
  \/ SwapPush \/ Shutdown \/ WriterNext \/ Terminated

Spec == Init /\ [][Next]_vars

(* The writer thread goes on. *)
FairSpec == Spec /\ WF_vars(WriterNext)
-----------------------------------------------------------------------------
(* Properties *)

RowsOf(job) == IF job.kind = "batch" THEN job.rows ELSE <<>>

(* The rows that are not yet written, in the order of their places: those  *)
(* of the transaction, of the writer's job, and of the jobs queued.        *)
Places == 1 .. Len(queue.items) + 2
RowsAt(p) ==
  CASE p = 1 -> writer.rows
    [] p = 2 -> RowsOf(writer.job)
    [] OTHER -> RowsOf(queue.items[p - 2])

Unwritten == UNION {Range(RowsAt(p)) : p \in Places}

Settled(r) == r \in failed \/ \E db \in Db : r \in Range(stored[db])

Row == 1..Len(target)

(* Type correctness; the queue is never longer than its capacity, and a    *)
(* transaction is longer than its limit by less than one batch             *)
(* (ThreadSafeQueue.h:84, TelemetryPipeline.cpp:77).                       *)
PipelineTypeOK ==
  /\ Len(queue.items) <= kQueueCapacity /\ queue.shutdown \in BOOLEAN
  /\ Range(queue.items) \subseteq
       {SwapDb(db) : db \in Db} \union [kind : {"batch"}, rows : Seq(Row)]
  /\ writer.at \in {"pop", "more", "job", "switch", "applied", "flush", "gone"}
  /\ writer.db \in Db /\ read_db \in Db
  /\ Len(writer.rows) < kMaxRowsPerTxn + MaxBatch
  /\ swapper = Away \/ swapper.db \in Db
  /\ failed \subseteq Row /\ target \in Seq(Db)

(* Every accepted row is exactly once in a database, among the failures    *)
(* that were logged, or still on its way; and those on their way are in    *)
(* the order of acceptance (writerLoop, insertBatch).  What is left in a   *)
(* transaction that could not be ended was logged.                         *)
EachRowOnce ==
  /\ \A r \in Row : ~Settled(r) <=> r \in Unwritten
  /\ \A p, q \in Places : \A i \in DOMAIN RowsAt(p), j \in DOMAIN RowsAt(q) :
       (p < q \/ (p = q /\ i < j)) => RowsAt(p)[i] < RowsAt(q)[j]
  /\ \A db \in Db : failed \intersect Range(stored[db]) = {}
  /\ Range(open) \subseteq failed

(* A row accepted before a change of database is written to the old one, a *)
(* row accepted after it to the new one; within a file rows are in the     *)
(* order of their acceptance (TelemetryPipeline.cpp:52).                   *)
StoredWhereMeant ==
  \A db \in Db :
    /\ \A r \in Range(stored[db]) : target[r] = db
    /\ \A i, j \in DOMAIN stored[db] : i < j => stored[db][i] < stored[db][j]

(* The readers are given a database only after the writer has changed to   *)
(* it and has written all that was accepted before the change              *)
(* (TelemetryPipeline.cpp:61, GatewayApp.cpp:431).                         *)
ReadersFollow ==
  [][read_db' # read_db =>
       /\ read_db' = writer.db
       /\ \A r \in Row : Settled(r) \/ \E i \in DOMAIN queue.items :
                                         r \in Range(RowsOf(queue.items[i]))]_vars

(* When the writer has ended, every accepted row is written or logged as   *)
(* failed, and readers and writer have the same database                   *)
(* (~TelemetryPipeline).                                                   *)
DrainedAtExit ==
  writer.at = "gone" => /\ \A r \in Row : Settled(r)
                        /\ queue.items = <<>> /\ read_db = writer.db

(* Every accepted row is accounted for: queued, gathered, written once or  *)
(* logged as failed, in the file that was current when it was submitted,   *)
(* and none is left when the writer ends, however batches, changes of      *)
(* database and shutdown fall (TelemetryPipeline.cpp writerLoop).          *)
RowsAccounted ==
  PipelineTypeOK /\ EachRowOnce /\ StoredWhereMeant /\ DrainedAtExit

(* An accepted row is written, or fails, in the end: none waits for        *)
(* another reading or for a shutdown (TelemetryPipeline.cpp:3).            *)
RowsSettle == \A r \in 1..MaxRows : r <= Len(target) ~> Settled(r)
=============================================================================
