--------------------------- MODULE IOBatchingStage ---------------------------
(***************************************************************************)
(* IOBatchingStage::Batching (batching_stage.cpp) with the resource it    *)
(* writes and the worker pool that runs the tasks it returns.             *)
(*                                                                         *)
(* For every frame, Batching picks a ticket on the output resource,       *)
(* reserving it unless the frame fills the last slot of the batch,        *)
(* creates an InferTask whose function waits for the ticket, writes the   *)
(* frame at Offset(bidx) of the resource value (ProcessOneFrame) and calls *)
(* DeallingDone, and advances batch_idx_. The engine binds each task      *)
(* behind the previous task of the same slot and submits it to a pool of *)
(* NWorkers threads that take tasks in submission order.                  *)
(*                                                                         *)
(* The resource (InferResource / its ticket queue) is not part of the     *)
(* sources and follows the specification: one value, tickets served in   *)
(* FIFO order, a reserved ticket handed again to the next pick, and the   *)
(* ticket released when every pick of it has called DeallingDone.        *)
(***************************************************************************)
EXTENDS Naturals, Sequences, FiniteSets

CONSTANTS
  BatchSize,   \* batchsize_ of the stage
  MaxFrames,   \* bound: frames given to Batching
  NWorkers     \* threads of the engine's task pool

ASSUME StageAssumption ==
  /\ BatchSize \in Nat \ {0}
  /\ MaxFrames \in Nat
  /\ NWorkers \in Nat \ {0}

TaskStates == {"queued", "waiting", "writing", "done"}

VARIABLES
  batchIdx,    \* batch_idx_
  tasks,       \* the tasks returned by Batching, in call order
  tq,          \* resource: outstanding tickets, oldest first
  reserved,    \* resource: the last ticket was picked with reserve = true
  nextTicket   \* resource: name of the next ticket created

vars == <<batchIdx, tasks, tq, reserved, nextTicket>>

Task == [ticket : Nat, bidx : Nat, pc : TaskStates]
Ticket == [id : Nat, holds : Nat]

TypeOK ==
  /\ batchIdx \in Nat
  /\ tasks \in Seq(Task)
  /\ Len(tasks) <= MaxFrames
  /\ tq \in Seq(Ticket)
  /\ reserved \in BOOLEAN
  /\ nextTicket \in Nat

Init ==
  /\ batchIdx = 0
  /\ tasks = <<>>
  /\ tq = <<>>
  /\ reserved = FALSE
  /\ nextTicket = 0

-----------------------------------------------------------------------------
(* Resource operations (from the specification).                          *)

(* PickUpTicket(reserve): a reserved ticket is handed out again, one more *)
(* pick of it to be matched by DeallingDone; otherwise a new ticket joins *)
(* the queue. The ticket picked is the last one of the queue.             *)
PickUpTicket(reserve) ==
  /\ IF reserved
       THEN /\ tq' = [tq EXCEPT ![Len(tq)].holds = @ + 1]
            /\ UNCHANGED nextTicket
       ELSE /\ tq' = Append(tq, [id |-> nextTicket, holds |-> 1])
            /\ nextTicket' = nextTicket + 1
  /\ reserved' = reserve

(* WaitResourceByTicket returns once the ticket is the oldest outstanding. *)
Served(id) == tq # <<>> /\ Head(tq).id = id

(* DeallingDone, called by the holder of the served ticket: one pick of   *)
(* it is done. The ticket leaves the queue when no pick of it is left and *)
(* it is not the ticket still reserved for the next pick.                 *)
DeallingDone ==
  LET left == Head(tq).holds - 1 IN
  IF left = 0 /\ ~(reserved /\ Len(tq) = 1)
    THEN tq' = Tail(tq)
    ELSE tq' = [tq EXCEPT ![1].holds = left]

-----------------------------------------------------------------------------
(* IOBatchingStage::Batching for the next frame, and the submission of   *)
(* the task it returns. reserve_ticket is false exactly when              *)
(* batch_idx_ + 1 == batchsize_; batch_idx_ advances by                   *)
(* batch_idx_ + 1 % batchsize_, which C++ parses as                      *)
(* batch_idx_ + (1 % batchsize_).                                         *)
Batching ==
  /\ Len(tasks) < MaxFrames
  /\ PickUpTicket(~(batchIdx + 1 = BatchSize))
  /\ tasks' = Append(tasks, [ticket |-> IF reserved THEN tq[Len(tq)].id
                                                    ELSE nextTicket,
                             bidx   |-> batchIdx,
                             pc     |-> "queued"])
  /\ batchIdx' = batchIdx + (1 % BatchSize)

(* The task bound in front of task i: the previous task of the same slot. *)
FrontDone(i) ==
  \A j \in 1 .. i - 1 : tasks[j].bidx = tasks[i].bidx => tasks[j].pc = "done"

Busy == {i \in 1 .. Len(tasks) : tasks[i].pc \in {"waiting", "writing"}}

(* An idle worker takes the oldest queued task.                          *)
TaskStart(i) ==
  /\ tasks[i].pc = "queued"
  /\ \A j \in 1 .. i - 1 : tasks[j].pc # "queued"
  /\ Cardinality(Busy) < NWorkers
  /\ tasks' = [tasks EXCEPT ![i].pc = "waiting"]
  /\ UNCHANGED <<batchIdx, tq, reserved, nextTicket>>


(* Mutant of TaskWrite: the task writes without WaitResourceByTicket.    *)
TaskWriteUnserved(i) ==
  /\ tasks[i].pc = "waiting"
  /\ FrontDone(i)
  /\ tasks' = [tasks EXCEPT ![i].pc = "writing"]
  /\ UNCHANGED <<batchIdx, tq, reserved, nextTicket>>

(* The worker runs the task: WaitForFrontTasksComplete, then, inside the *)
(* task function, WaitResourceByTicket; both only block, so the worker    *)
(* starts ProcessOneFrame once the front task is done and the ticket is   *)
(* served. ProcessOneFrame writes the frame at Offset(bidx).              *)
TaskWrite(i) ==
  /\ tasks[i].pc = "waiting"
  /\ FrontDone(i)
  /\ Served(tasks[i].ticket)
  /\ tasks' = [tasks EXCEPT ![i].pc = "writing"]
  /\ UNCHANGED <<batchIdx, tq, reserved, nextTicket>>

(* Mutant of TaskDone: the task function returns without DeallingDone.  *)
TaskDoneNoRelease(i) ==
  /\ tasks[i].pc = "writing"
  /\ tasks' = [tasks EXCEPT ![i].pc = "done"]
  /\ UNCHANGED <<batchIdx, tq, reserved, nextTicket>>

(* The task function ends with DeallingDone and returns 0; Execute       *)
(* fulfils the task's promise.                                             *)
TaskDone(i) ==
  /\ tasks[i].pc = "writing"
  /\ DeallingDone
  /\ tasks' = [tasks EXCEPT ![i].pc = "done"]
  /\ UNCHANGED <<batchIdx, reserved, nextTicket>>

Next ==
  \/ Batching
  \/ \E i \in 1 .. Len(tasks) : TaskStart(i) \/ TaskWrite(i) \/ TaskDone(i)

(* Workers keep taking and running tasks; the producer need not call     *)
(* Batching again.                                                         *)
Fairness ==
  /\ WF_vars(\E i \in 1 .. Len(tasks) : TaskStart(i))
  /\ WF_vars(\E i \in 1 .. Len(tasks) : TaskWrite(i))
  /\ WF_vars(\E i \in 1 .. Len(tasks) : TaskDone(i))

Spec == Init /\ [][Next]_vars /\ Fairness

-----------------------------------------------------------------------------
(* Two tasks inside ProcessOneFrame at the same time write the same       *)
(* resource value under the same ticket, at different offsets: the       *)
(* ticket discipline keeps the frames of one batch from racing with the  *)
(* frames of another or with each other.                                   *)
NoDataRace ==
  \A i, j \in 1 .. Len(tasks) :
    i # j /\ tasks[i].pc = "writing" /\ tasks[j].pc = "writing" =>
      tasks[i].ticket = tasks[j].ticket /\ tasks[i].bidx # tasks[j].bidx

(* ProcessOneFrame writes inside the value: Offset(bidx) is one of the   *)
(* batchsize sample slots the resource allocated.                          *)
OffsetInBounds ==
  \A i \in 1 .. Len(tasks) : tasks[i].pc = "writing" => tasks[i].bidx < BatchSize

(* Every task submitted eventually completes: tickets are released and   *)
(* no worker waits forever on its front task or its ticket.               *)
TasksComplete ==
  \A i \in 1 .. MaxFrames : (i <= Len(tasks)) ~> (i <= Len(tasks) /\ tasks[i].pc = "done")

=============================================================================
