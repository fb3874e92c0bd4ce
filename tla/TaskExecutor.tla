---------------------------- MODULE TaskExecutor ----------------------------
(***************************************************************************)
(* TaskExecutor.h: a bounded mailbox that one thread empties in order.     *)
(* Part of its room, the reserve, is for the completions of work that was  *)
(* accepted before; a producer never waits for room.  After stop() no task *)
(* is taken in, and those taken in before are still run.                   *)
(*                                                                         *)
(* An executor is a record; every operation is an operator on it, so that  *)
(* a module may have several.  Each operation is one critical section of   *)
(* the class, so it is atomic.  busy is the task that was popped and whose *)
(* body has not returned yet.                                              *)
(***************************************************************************)
EXTENDS Naturals, Sequences

Idle == [kind |-> "idle"]

ExecutorOf(task) ==
  [tasks : Seq(task), closed : BOOLEAN, busy : task \union {Idle}]

NewExecutor == [tasks |-> <<>>, closed |-> FALSE, busy |-> Idle]

(* post() takes a task when the mailbox is open and shorter than limit,    *)
(* which is the capacity, with the reserve added for a completion.         *)
Accepts(ex, limit) == ~ex.closed /\ Len(ex.tasks) < limit

post(ex, task, limit) ==
  IF Accepts(ex, limit) THEN [ex EXCEPT !.tasks = Append(@, task)] ELSE ex

(* One turn of run() is a take and, when the body has returned, a done.    *)
CanTake(ex) == ex.busy = Idle /\ ex.tasks # <<>>

take(ex) == [ex EXCEPT !.busy = Head(ex.tasks), !.tasks = Tail(@)]

done(ex) == [ex EXCEPT !.busy = Idle]

(* stop() closes the mailbox; the join that follows returns when it is     *)
(* Drained.                                                                *)
close(ex) == [ex EXCEPT !.closed = TRUE]

Drained(ex) == ex.busy = Idle /\ ex.tasks = <<>>

(* The tasks that are queued or running, oldest first. *)
Held(ex) == IF ex.busy = Idle THEN ex.tasks ELSE <<ex.busy>> \o ex.tasks
=============================================================================
