----------------------- MODULE IOBatchingStage_proofs -----------------------
(***************************************************************************)
(* Proofs about IOBatchingStage::Batching and the ticket queue: tasks    *)
(* inside ProcessOneFrame at the same time share the served ticket and    *)
(* write different offsets, for every batch size, frame bound and number *)
(* of workers.                                                             *)
(***************************************************************************)
EXTENDS IOBatchingStage, FiniteSetTheorems, SequenceTheorems, TLAPS

\* The tasks that picked ticket id and have not called DeallingDone.
Holders(id) ==
  {i \in 1 .. Len(tasks) : tasks[i].ticket = id /\ tasks[i].pc # "done"}

(* The offsets Batching hands out: batch_idx_ + 1 % batchsize_ adds 1    *)
(* when batchsize_ > 1, so task i writes at i - 1 and never wraps; with   *)
(* batchsize_ = 1 it adds 0, every frame fills the batch, and each task   *)
(* picks a ticket of its own.                                              *)
OffsetInv ==
  /\ batchIdx = IF BatchSize = 1 THEN 0 ELSE Len(tasks)
  /\ \A i \in 1 .. Len(tasks) :
       tasks[i].bidx = IF BatchSize = 1 THEN 0 ELSE i - 1
  /\ BatchSize = 1 =>
       /\ ~reserved /\ nextTicket = Len(tasks)
       /\ \A i \in 1 .. Len(tasks) : tasks[i].ticket = i - 1

(* The ticket queue: ids in the queue increase and were handed out; a    *)
(* reserved ticket is still queued; every unfinished task's ticket is     *)
(* queued, and each queued ticket counts exactly its unfinished holders; *)
(* a task inside ProcessOneFrame holds the served ticket.                 *)
QueueInv ==
  /\ reserved => tq # << >>
  /\ \A k \in 1 .. Len(tq) : tq[k].id < nextTicket
  /\ \A k1, k2 \in 1 .. Len(tq) : k1 < k2 => tq[k1].id < tq[k2].id
  /\ \A i \in 1 .. Len(tasks) : tasks[i].ticket < nextTicket
  /\ \A i \in 1 .. Len(tasks) :
       tasks[i].pc # "done" => \E k \in 1 .. Len(tq) : tq[k].id = tasks[i].ticket
  /\ \A k \in 1 .. Len(tq) : tq[k].holds = Cardinality(Holders(tq[k].id))
  /\ \A i \in 1 .. Len(tasks) :
       tasks[i].pc = "writing" => tq # << >> /\ tasks[i].ticket = Head(tq).id

RaceInv == TypeOK /\ OffsetInv /\ QueueInv

-----------------------------------------------------------------------------
(* Facts about the ingredients.                                           *)

(* batch_idx_ + 1 % batchsize_ adds 0 when batchsize_ is 1 and 1 otherwise. *)
LEMMA OneMod ==
  ASSUME NEW b \in Nat \ {0}
  PROVE  /\ b = 1 => 1 % b = 0
         /\ b # 1 => 1 % b = 1
  BY SMT

(* The holders of a ticket are a finite set of task positions.            *)
LEMMA HoldersFinite ==
  ASSUME tasks \in Seq(Task), NEW id
  PROVE  /\ IsFiniteSet(Holders(id))
         /\ Holders(id) \subseteq 1 .. Len(tasks)
<1>1. Holders(id) \subseteq 1 .. Len(tasks)
  BY DEF Holders
<1>2. IsFiniteSet(1 .. Len(tasks))
  BY FS_Interval
<1>. QED
  BY <1>1, <1>2, FS_Subset

(* The invariant gives the property: writing tasks hold the served ticket *)
(* and, sharing it, sit at offsets i - 1 and j - 1, or (batchsize_ = 1)   *)
(* cannot share it at all.                                                 *)
LEMMA RaceInvSafe == RaceInv => NoDataRace
<1> SUFFICES ASSUME RaceInv,
                    NEW i \in 1 .. Len(tasks), NEW j \in 1 .. Len(tasks), i # j,
                    tasks[i].pc = "writing", tasks[j].pc = "writing"
             PROVE  tasks[i].ticket = tasks[j].ticket /\ tasks[i].bidx # tasks[j].bidx
  BY DEF NoDataRace
<1>0. i \in Nat /\ j \in Nat
  BY DEF RaceInv, TypeOK
<1>1. tasks[i].ticket = tasks[j].ticket
  BY DEF RaceInv, QueueInv
<1>2. tasks[i].bidx # tasks[j].bidx
  <2>1. CASE BatchSize = 1
    <3>1. tasks[i].ticket = i - 1 /\ tasks[j].ticket = j - 1
      BY <2>1 DEF RaceInv, OffsetInv
    <3>2. i - 1 = j - 1
      BY <1>1, <3>1, Zenon
    <3>3. FALSE
      BY <1>0, <3>2
    <3>. QED
      BY <3>3
  <2>2. CASE BatchSize # 1
    <3>1. tasks[i].bidx = i - 1 /\ tasks[j].bidx = j - 1
      BY <2>2 DEF RaceInv, OffsetInv
    <3>. QED
      BY <1>0, <3>1
  <2>. QED
    BY <2>1, <2>2
<1>. QED
  BY <1>1, <1>2

LEMMA InitRaceInv == Init => RaceInv
<1> SUFFICES ASSUME Init PROVE RaceInv
  OBVIOUS
<1>1. TypeOK
  <2>1. tasks \in Seq(Task) /\ tq \in Seq(Ticket)
    BY DEF Init
  <2>2. Len(tasks) <= MaxFrames
    BY StageAssumption DEF Init
  <2>. QED
    BY <2>1, <2>2 DEF Init, TypeOK
<1>2. OffsetInv
  BY DEF Init, OffsetInv
<1>3. QueueInv
  BY DEF Init, QueueInv
<1>. QED
  BY <1>1, <1>2, <1>3 DEF RaceInv

-----------------------------------------------------------------------------
(* TaskStart and TaskWrite move a task between unfinished states: no      *)
(* ticket gains or loses a holder.                                         *)
LEMMA PcStepHolders ==
  ASSUME tasks \in Seq(Task), NEW i \in 1 .. Len(tasks), NEW p,
         tasks[i].pc # "done", p # "done",
         tasks' = [tasks EXCEPT ![i].pc = p], NEW id
  PROVE  Holders(id)' = Holders(id)
  BY DEF Holders, Task

LEMMA PcStepRaceInv ==
  ASSUME RaceInv, NEW i \in 1 .. Len(tasks), NEW p \in {"waiting", "writing"},
         tasks[i].pc # "done",
         p = "writing" => Served(tasks[i].ticket),
         tasks' = [tasks EXCEPT ![i].pc = p],
         UNCHANGED <<batchIdx, tq, reserved, nextTicket>>
  PROVE  RaceInv'
<1>0. /\ tasks \in Seq(Task)
      /\ tasks' = [tasks EXCEPT ![i] = [tasks[i] EXCEPT !.pc = p]]
      /\ [tasks[i] EXCEPT !.pc = p] \in Task
      /\ p # "done"
  <2>1. tasks \in Seq(Task)
    BY DEF RaceInv, TypeOK
  <2>2. tasks[i] \in Task
    BY <2>1, ElementOfSeq
  <2>3. [tasks[i] EXCEPT !.pc = p] \in Task
    BY <2>2 DEF Task, TaskStates
  <2>. QED
    BY <2>1, <2>3
<1>1. TypeOK'
  <2>1. tasks' \in Seq(Task) /\ Len(tasks') = Len(tasks)
    BY <1>0
  <2>. QED
    BY <2>1 DEF RaceInv, TypeOK
<1>2. OffsetInv'
  BY <1>0 DEF RaceInv, OffsetInv
<1>3. ASSUME NEW id PROVE Holders(id)' = Holders(id)
  BY <1>0, PcStepHolders, Zenon
<1>4. QueueInv'
  <2>0. /\ reserved' => tq' # << >>
        /\ \A k \in 1 .. Len(tq') : tq'[k].id < nextTicket'
        /\ \A k1, k2 \in 1 .. Len(tq') : k1 < k2 => tq'[k1].id < tq'[k2].id
    BY DEF RaceInv, QueueInv
  <2>1. (\A k \in 1 .. Len(tq) : tq[k].holds = Cardinality(Holders(tq[k].id)))'
    <3> SUFFICES ASSUME NEW k \in 1 .. Len(tq)
                 PROVE  tq[k].holds = Cardinality(Holders(tq[k].id)')
      OBVIOUS
    <3>1. Holders(tq[k].id)' = Holders(tq[k].id)
      BY <1>3
    <3>. QED
      BY <3>1 DEF RaceInv, QueueInv
  <2>2. \A j \in 1 .. Len(tasks') : tasks'[j].pc = "writing" =>
          tq' # << >> /\ tasks'[j].ticket = Head(tq').id
    BY <1>0 DEF RaceInv, QueueInv, Served
  <2>3. \A j \in 1 .. Len(tasks') :
          tasks'[j].pc # "done" => \E k \in 1 .. Len(tq') : tq'[k].id = tasks'[j].ticket
    BY <1>0 DEF RaceInv, QueueInv
  <2>4. \A j \in 1 .. Len(tasks') : tasks'[j].ticket < nextTicket'
    BY <1>0 DEF RaceInv, QueueInv
  <2>. QED
    BY <2>0, <2>1, <2>2, <2>3, <2>4 DEF QueueInv
<1>. QED
  BY <1>1, <1>2, <1>4 DEF RaceInv

-----------------------------------------------------------------------------
(* Batching: the task it returns holds the ticket it picked.              *)

\* The task Batching appends.
NewTask == [ticket |-> IF reserved THEN tq[Len(tq)].id ELSE nextTicket,
            bidx   |-> batchIdx,
            pc     |-> "queued"]

(* Appending a queued task adds it to the holders of its ticket only.    *)
LEMMA AppendHolders ==
  ASSUME tasks \in Seq(Task), NEW nt \in Task, nt.pc = "queued",
         tasks' = Append(tasks, nt), NEW id
  PROVE  Holders(id)' = IF nt.ticket = id THEN Holders(id) \cup {Len(tasks) + 1}
                                           ELSE Holders(id)
<1>1. /\ Len(tasks') = Len(tasks) + 1
      /\ tasks'[Len(tasks) + 1] = nt
      /\ \A j \in 1 .. Len(tasks) : tasks'[j] = tasks[j]
  OBVIOUS
<1>. QED
  BY <1>1 DEF Holders

(* ... and raises the size of that holder set by one.                     *)
LEMMA AppendHoldersCard ==
  ASSUME tasks \in Seq(Task), NEW id
  PROVE  /\ Len(tasks) + 1 \notin Holders(id)
         /\ Cardinality(Holders(id) \cup {Len(tasks) + 1}) = Cardinality(Holders(id)) + 1
<1>1. Len(tasks) + 1 \notin Holders(id)
  BY DEF Holders
<1>. QED
  BY <1>1, HoldersFinite, FS_AddElement

LEMMA BatchingRaceInv ==
  ASSUME RaceInv, Batching
  PROVE  RaceInv'
<1> DEFINE n == Len(tasks)
           L == Len(tq)
<1>0. /\ tasks \in Seq(Task) /\ tq \in Seq(Ticket) /\ n \in Nat /\ L \in Nat
      /\ batchIdx \in Nat /\ nextTicket \in Nat /\ reserved \in BOOLEAN
  BY DEF RaceInv, TypeOK
<1>1. /\ n < MaxFrames
      /\ reserved' = ~(batchIdx + 1 = BatchSize)
      /\ tasks' = Append(tasks, NewTask)
      /\ batchIdx' = batchIdx + (1 % BatchSize)
  BY DEF Batching, PickUpTicket, NewTask
<1>9. /\ reserved => /\ tq' = [tq EXCEPT ![L].holds = @ + 1]
                    /\ nextTicket' = nextTicket
      /\ ~reserved => /\ tq' = Append(tq, [id |-> nextTicket, holds |-> 1])
                     /\ nextTicket' = nextTicket + 1
  BY DEF Batching, PickUpTicket
<1>2. reserved => L >= 1 /\ tq[L] \in Ticket /\ tq[L].id < nextTicket
  BY <1>0 DEF RaceInv, QueueInv
<1>3. NewTask \in Task /\ NewTask.pc = "queued" /\ NewTask.ticket < nextTicket + 1
  BY <1>0, <1>2 DEF NewTask, Task, TaskStates, Ticket
<1>4. /\ Len(tasks') = n + 1
      /\ tasks'[n + 1] = NewTask
      /\ \A j \in 1 .. n : tasks'[j] = tasks[j]
      /\ tasks' \in Seq(Task)
  BY <1>0, <1>1, <1>3
<1>5. ASSUME NEW id
      PROVE  /\ Holders(id)' = IF NewTask.ticket = id THEN Holders(id) \cup {n + 1}
                                                      ELSE Holders(id)
             /\ Cardinality(Holders(id) \cup {n + 1}) = Cardinality(Holders(id)) + 1
  BY <1>0, <1>1, <1>3, AppendHolders, AppendHoldersCard
<1>6. OffsetInv'
  <2>1. CASE BatchSize = 1
    <3>1. 1 % BatchSize = 0 /\ batchIdx = 0 /\ ~reserved /\ nextTicket = n
      BY <2>1, OneMod, StageAssumption DEF RaceInv, OffsetInv
    <3>2. ~reserved' /\ nextTicket' = n + 1 /\ batchIdx' = 0
      <4>1. ~reserved'
        <5>1. batchIdx + 1 = BatchSize
          BY <2>1, <3>1
        <5>. QED
          BY <1>1, <5>1, Zenon
      <4>2. nextTicket' = n + 1
        BY <1>9, <3>1
      <4>3. batchIdx' = 0
        BY <1>1, <3>1
      <4>. QED
        BY <4>1, <4>2, <4>3
    <3>3. NewTask.ticket = n /\ NewTask.bidx = 0
      BY <3>1 DEF NewTask
    <3>. QED
      BY <1>0, <1>4, <2>1, <3>2, <3>3 DEF RaceInv, OffsetInv
  <2>2. CASE BatchSize # 1
    <3>1. 1 % BatchSize = 1 /\ batchIdx = n
      BY <2>2, OneMod, StageAssumption DEF RaceInv, OffsetInv
    <3>2. batchIdx' = n + 1 /\ NewTask.bidx = n
      BY <1>0, <1>1, <3>1 DEF NewTask
    <3>. QED
      BY <1>0, <1>4, <2>2, <3>2 DEF RaceInv, OffsetInv
  <2>. QED
    BY <2>1, <2>2
<1>7. CASE reserved
  <2>1. /\ tq' = [tq EXCEPT ![L].holds = @ + 1]
        /\ nextTicket' = nextTicket
        /\ NewTask.ticket = tq[L].id
    BY <1>7, <1>9 DEF NewTask
  <2>2. /\ Len(tq') = L
        /\ \A k \in 1 .. L : tq'[k].id = tq[k].id
        /\ tq'[L].holds = tq[L].holds + 1
        /\ \A k \in 1 .. L - 1 : tq'[k].holds = tq[k].holds
        /\ tq' \in Seq(Ticket)
    <3> DEFINE r == [tq[L] EXCEPT !.holds = tq[L].holds + 1]
    <3>1. r \in Ticket /\ r.id = tq[L].id /\ r.holds = tq[L].holds + 1
      BY <1>2, <1>7 DEF Ticket
    <3>2. tq' = [tq EXCEPT ![L] = r]
      BY <2>1
    <3>3. L \in 1 .. Len(tq)
      BY <1>0, <1>2, <1>7
    <3>. QED
      BY <1>0, <3>1, <3>2, <3>3, ExceptSeq
  <2>3. TypeOK'
    BY <1>0, <1>1, <1>4, <2>1, <2>2, OneMod, StageAssumption DEF TypeOK
  <2>4. (\A k \in 1 .. L : tq[k].holds = Cardinality(Holders(tq[k].id)))'
    <3> SUFFICES ASSUME NEW k \in 1 .. L
                 PROVE  (tq[k].holds = Cardinality(Holders(tq[k].id)))'
      BY <2>2
    <3> PICK id : id = tq[k].id
      OBVIOUS
    <3>0. /\ (Cardinality(Holders(tq[k].id)))' = Cardinality(Holders(id)')
          /\ tq[k].holds = Cardinality(Holders(id))
      BY <2>2 DEF Holders, RaceInv, QueueInv
    <3>1. CASE k = L
      <4>1. Holders(id)' = Holders(id) \cup {n + 1}
        BY <1>5, <2>1, <3>1
      <4>. QED
        BY <1>5, <2>2, <3>0, <3>1, <4>1
    <3>2. CASE k # L
      <4>1. id # tq[L].id
        <5>1. k < L /\ L \in 1 .. L
          BY <1>0, <1>2, <1>7, <3>2
        <5>2. \A k1, k2 \in 1 .. L : k1 < k2 => tq[k1].id < tq[k2].id
          BY DEF RaceInv, QueueInv
        <5>3. tq[k].id \in Nat /\ tq[L].id \in Nat
          <6>1. tq[k] \in Ticket /\ tq[L] \in Ticket
            BY <1>0, <5>1, ElementOfSeq
          <6>. QED
            BY <6>1 DEF Ticket
        <5>. QED
          BY <5>1, <5>2, <5>3
      <4>2. Holders(id)' = Holders(id)
        BY <1>5, <2>1, <4>1
      <4>3. tq'[k].holds = tq[k].holds
        BY <1>0, <2>2, <3>2
      <4>. QED
        BY <3>0, <4>2, <4>3
    <3>. QED
      BY <3>1, <3>2
  <2>5. QueueInv'
    <3>1. /\ reserved' => tq' # << >>
          /\ \A k \in 1 .. Len(tq') : tq'[k].id < nextTicket'
          /\ \A k1, k2 \in 1 .. Len(tq') : k1 < k2 => tq'[k1].id < tq'[k2].id
      BY <1>0, <1>2, <1>7, <2>1, <2>2 DEF RaceInv, QueueInv
    <3>2. \A i \in 1 .. Len(tasks') : tasks'[i].ticket < nextTicket'
      BY <1>0, <1>3, <1>4, <2>1, <1>2, <1>7 DEF RaceInv, QueueInv
    <3>3. \A i \in 1 .. Len(tasks') :
            tasks'[i].pc # "done" => \E k \in 1 .. Len(tq') : tq'[k].id = tasks'[i].ticket
      <4> SUFFICES ASSUME NEW i \in 1 .. n + 1, tasks'[i].pc # "done"
                   PROVE  \E k \in 1 .. L : tq'[k].id = tasks'[i].ticket
        BY <1>4, <2>2
      <4>1. CASE i = n + 1
        BY <1>0, <1>2, <1>4, <1>7, <2>1, <2>2, <4>1
      <4>2. CASE i # n + 1
        BY <1>0, <1>4, <2>2, <4>2 DEF RaceInv, QueueInv
      <4>. QED
        BY <4>1, <4>2
    <3>4. \A i \in 1 .. Len(tasks') :
            tasks'[i].pc = "writing" => tq' # << >> /\ tasks'[i].ticket = Head(tq').id
      <4> SUFFICES ASSUME NEW i \in 1 .. n, tasks'[i].pc = "writing"
                   PROVE  tq' # << >> /\ tasks'[i].ticket = Head(tq').id
        BY <1>0, <1>3, <1>4
      <4>1. tasks[i].pc = "writing" /\ tasks'[i] = tasks[i]
        BY <1>4
      <4>2. tq # << >> /\ tasks[i].ticket = tq[1].id
        BY <4>1 DEF RaceInv, QueueInv
      <4>3. Len(tq') = L /\ 1 \in 1 .. L /\ tq'[1].id = tq[1].id
        BY <1>0, <2>2, <4>2
      <4>. QED
        BY <4>1, <4>2, <4>3
    <3>. QED
      BY <2>4, <3>1, <3>2, <3>3, <3>4 DEF QueueInv
  <2>. QED
    BY <1>6, <2>3, <2>5 DEF RaceInv
<1>8. CASE ~reserved
  <2>1. /\ tq' = Append(tq, [id |-> nextTicket, holds |-> 1])
        /\ nextTicket' = nextTicket + 1
        /\ NewTask.ticket = nextTicket
    BY <1>8, <1>9 DEF NewTask
  <2>2. /\ Len(tq') = L + 1
        /\ \A k \in 1 .. L : tq'[k] = tq[k]
        /\ tq'[L + 1] = [id |-> nextTicket, holds |-> 1]
        /\ tq' \in Seq(Ticket)
    <3>1. [id |-> nextTicket, holds |-> 1] \in Ticket
      BY <1>0 DEF Ticket
    <3>. QED
      BY <1>0, <2>1, <3>1, AppendProperties
  <2>3. TypeOK'
    BY <1>0, <1>1, <1>4, <2>1, <2>2, OneMod, StageAssumption DEF TypeOK
  <2>4. Holders(nextTicket) = {}
    BY <1>0 DEF RaceInv, QueueInv, Holders
  <2>5. (\A k \in 1 .. L : tq[k].holds = Cardinality(Holders(tq[k].id)))'
    <3> SUFFICES ASSUME NEW k \in 1 .. L + 1
                 PROVE  (tq[k].holds = Cardinality(Holders(tq[k].id)))'
      BY <2>2
    <3> PICK id : id = tq'[k].id
      OBVIOUS
    <3>0. (Cardinality(Holders(tq[k].id)))' = Cardinality(Holders(id)')
      BY DEF Holders
    <3>1. CASE k = L + 1
      <4>1. id = nextTicket /\ tq'[k].holds = 1
        BY <2>2, <3>1
      <4>2. Holders(id)' = {n + 1}
        BY <1>5, <2>1, <2>4, <4>1
      <4>. QED
        BY <3>0, <4>1, <4>2, FS_Singleton
    <3>2. CASE k # L + 1
      <4>1. k \in 1 .. L /\ tq'[k] = tq[k]
        BY <1>0, <2>2, <3>2
      <4>2. id # nextTicket
        BY <1>0, <4>1 DEF RaceInv, QueueInv
      <4>3. Holders(id)' = Holders(id)
        BY <1>5, <2>1, <4>2
      <4>. QED
        BY <3>0, <4>1, <4>3 DEF RaceInv, QueueInv
    <3>. QED
      BY <3>1, <3>2
  <2>6. QueueInv'
    <3>0. /\ \A k \in 1 .. L : tq[k] \in Ticket /\ tq[k].id < nextTicket
          /\ \A k1, k2 \in 1 .. L : k1 < k2 => tq[k1].id < tq[k2].id
      BY <1>0, ElementOfSeq DEF RaceInv, QueueInv
    <3>1. /\ reserved' => tq' # << >>
          /\ \A k \in 1 .. Len(tq') : tq'[k].id < nextTicket'
          /\ \A k1, k2 \in 1 .. Len(tq') : k1 < k2 => tq'[k1].id < tq'[k2].id
      <4>1. tq' # << >>
        BY <1>0, <2>2
      <4>0. \A k \in 1 .. L + 1 :
              tq'[k].id \in Nat /\ (k # L + 1 => tq'[k].id < nextTicket)
                             /\ (k = L + 1 => tq'[k].id = nextTicket)
        <5> SUFFICES ASSUME NEW k \in 1 .. L + 1
                     PROVE  tq'[k].id \in Nat /\ (k # L + 1 => tq'[k].id < nextTicket)
                                            /\ (k = L + 1 => tq'[k].id = nextTicket)
          OBVIOUS
        <5>1. CASE k = L + 1
          BY <1>0, <2>2, <5>1
        <5>2. CASE k # L + 1
          <6>1. k \in 1 .. L /\ tq'[k] = tq[k]
            BY <1>0, <2>2, <5>2
          <6>. QED
            BY <3>0, <5>2, <6>1 DEF Ticket
        <5>. QED
          BY <5>1, <5>2
      <4>2. \A k \in 1 .. L + 1 : tq'[k].id < nextTicket + 1
        BY <1>0, <4>0
      <4>3. \A k1, k2 \in 1 .. L + 1 : k1 < k2 => tq'[k1].id < tq'[k2].id
        <5> SUFFICES ASSUME NEW k1 \in 1 .. L + 1, NEW k2 \in 1 .. L + 1, k1 < k2
                     PROVE  tq'[k1].id < tq'[k2].id
          OBVIOUS
        <5>1. k1 \in 1 .. L /\ tq'[k1] = tq[k1]
          BY <1>0, <2>2
        <5>2. CASE k2 = L + 1
          BY <1>0, <4>0, <5>1, <5>2
        <5>3. CASE k2 # L + 1
          <6>1. k2 \in 1 .. L /\ tq'[k2] = tq[k2]
            BY <1>0, <2>2, <5>3
          <6>. QED
            BY <3>0, <5>1, <6>1
        <5>. QED
          BY <5>2, <5>3
      <4>. QED
        BY <2>1, <2>2, <4>1, <4>2, <4>3
    <3>2. \A i \in 1 .. Len(tasks') : tasks'[i].ticket < nextTicket'
      <4> SUFFICES ASSUME NEW i \in 1 .. n + 1
                   PROVE  tasks'[i].ticket < nextTicket + 1
        BY <1>4, <2>1
      <4>1. CASE i = n + 1
        BY <1>0, <1>4, <2>1, <4>1
      <4>2. CASE i # n + 1
        <5>1. i \in 1 .. n /\ tasks'[i] = tasks[i]
          BY <1>0, <1>4, <4>2
        <5>2. tasks[i].ticket < nextTicket /\ tasks[i] \in Task
          BY <1>0, <5>1, ElementOfSeq DEF RaceInv, QueueInv
        <5>. QED
          BY <1>0, <5>1, <5>2 DEF Task
      <4>. QED
        BY <4>1, <4>2
    <3>3. \A i \in 1 .. Len(tasks') :
            tasks'[i].pc # "done" => \E k \in 1 .. Len(tq') : tq'[k].id = tasks'[i].ticket
      <4> SUFFICES ASSUME NEW i \in 1 .. n + 1, tasks'[i].pc # "done"
                   PROVE  \E k \in 1 .. L + 1 : tq'[k].id = tasks'[i].ticket
        BY <1>4, <2>2
      <4>1. CASE i = n + 1
        BY <1>0, <1>4, <2>1, <2>2, <4>1
      <4>2. CASE i # n + 1
        <5>1. i \in 1 .. n /\ tasks'[i] = tasks[i] /\ tasks[i].pc # "done"
          BY <1>0, <1>4, <4>2
        <5>2. PICK k \in 1 .. L : tq[k].id = tasks[i].ticket
          BY <5>1 DEF RaceInv, QueueInv
        <5>3. k \in 1 .. L + 1 /\ tq'[k] = tq[k]
          BY <1>0, <2>2
        <5>. QED
          BY <5>1, <5>2, <5>3
      <4>. QED
        BY <4>1, <4>2
    <3>4. \A i \in 1 .. Len(tasks') :
            tasks'[i].pc = "writing" => tq' # << >> /\ tasks'[i].ticket = Head(tq').id
      <4> SUFFICES ASSUME NEW i \in 1 .. n, tasks'[i].pc = "writing"
                   PROVE  tq' # << >> /\ tasks'[i].ticket = Head(tq').id
        BY <1>0, <1>3, <1>4
      <4>1. tasks[i].pc = "writing" /\ tasks'[i] = tasks[i]
        BY <1>4
      <4>2. tq # << >> /\ tasks[i].ticket = tq[1].id
        BY <4>1 DEF RaceInv, QueueInv
      <4>3. 1 \in 1 .. L /\ tq'[1] = tq[1]
        BY <1>0, <2>2, <4>2
      <4>. QED
        BY <1>0, <2>2, <4>1, <4>2, <4>3
    <3>. QED
      BY <2>5, <3>1, <3>2, <3>3, <3>4 DEF QueueInv
  <2>. QED
    BY <1>6, <2>3, <2>6 DEF RaceInv
<1>. QED
  BY <1>0, <1>7, <1>8

-----------------------------------------------------------------------------
(* TaskDone: the writer calls DeallingDone on the served ticket.          *)

(* The task that finishes leaves the holders of every ticket.             *)
LEMMA DoneHolders ==
  ASSUME tasks \in Seq(Task), NEW i \in 1 .. Len(tasks),
         tasks' = [tasks EXCEPT ![i].pc = "done"], NEW id
  PROVE  Holders(id)' = Holders(id) \ {i}
  BY DEF Holders, Task

(* The facts every case of TaskDone starts from: the finishing task holds *)
(* the served ticket, which counts at least that task.                    *)
LEMMA DoneFacts ==
  ASSUME RaceInv, NEW i \in 1 .. Len(tasks), TaskDone(i)
  PROVE  /\ tasks \in Seq(Task) /\ tq \in Seq(Ticket)
         /\ tq # << >> /\ Len(tq) \in Nat \ {0} /\ Head(tq) = tq[1]
         /\ tasks[i].ticket = tq[1].id /\ i \in Holders(tq[1].id)
         /\ tq[1] \in Ticket /\ tq[1].holds = Cardinality(Holders(tq[1].id))
         /\ tq[1].holds \in Nat \ {0}
         /\ tasks' \in Seq(Task) /\ Len(tasks') = Len(tasks)
         /\ \A j \in 1 .. Len(tasks) :
              /\ tasks'[j].ticket = tasks[j].ticket /\ tasks'[j].bidx = tasks[j].bidx
              /\ j # i => tasks'[j] = tasks[j]
         /\ tasks'[i].pc = "done"
         /\ \A id : Holders(id)' = Holders(id) \ {i}
         /\ \/ /\ tq[1].holds - 1 = 0 /\ ~(reserved /\ Len(tq) = 1)
               /\ tq' = Tail(tq)
            \/ /\ ~(tq[1].holds - 1 = 0 /\ ~(reserved /\ Len(tq) = 1))
               /\ tq' = [tq EXCEPT ![1].holds = tq[1].holds - 1]
<1>1. tasks \in Seq(Task) /\ tq \in Seq(Ticket)
  BY DEF RaceInv, TypeOK
<1>2. tasks[i].pc = "writing" /\ tq # << >> /\ tasks[i].ticket = Head(tq).id
  BY DEF TaskDone, RaceInv, QueueInv
<1>3. Len(tq) \in Nat \ {0} /\ Head(tq) = tq[1] /\ tq[1] \in Ticket
  BY <1>1, <1>2, ElementOfSeq
<1>4. i \in Holders(tq[1].id)
  BY <1>2, <1>3 DEF Holders
<1>5. tq[1].holds = Cardinality(Holders(tq[1].id))
  BY <1>3 DEF RaceInv, QueueInv
<1>6. tq[1].holds \in Nat \ {0}
  <2>1. IsFiniteSet(Holders(tq[1].id))
    BY <1>1, HoldersFinite
  <2>2. Cardinality(Holders(tq[1].id)) # 0
    BY <1>4, <2>1, FS_EmptySet
  <2>. QED
    BY <1>5, <2>1, <2>2, FS_CardinalityType
<1>7. /\ tasks' = [tasks EXCEPT ![i] = [tasks[i] EXCEPT !.pc = "done"]]
      /\ [tasks[i] EXCEPT !.pc = "done"] \in Task
  <2>1. tasks[i] \in Task
    BY <1>1, ElementOfSeq
  <2>. QED
    BY <2>1 DEF TaskDone, Task, TaskStates
<1>8. \A id : Holders(id)' = Holders(id) \ {i}
  BY <1>1, DoneHolders DEF TaskDone
<1>9. \/ /\ tq[1].holds - 1 = 0 /\ ~(reserved /\ Len(tq) = 1)
         /\ tq' = Tail(tq)
      \/ /\ ~(tq[1].holds - 1 = 0 /\ ~(reserved /\ Len(tq) = 1))
         /\ tq' = [tq EXCEPT ![1].holds = tq[1].holds - 1]
  BY <1>3 DEF TaskDone, DeallingDone
<1>. QED
  BY <1>1, <1>2, <1>3, <1>4, <1>5, <1>6, <1>7, <1>8, <1>9, ExceptSeq

LEMMA DoneRaceInv ==
  ASSUME RaceInv, NEW i \in 1 .. Len(tasks), TaskDone(i)
  PROVE  RaceInv'
<1> DEFINE n == Len(tasks)
           L == Len(tq)
           H == tq[1].id
<1>0. /\ tasks \in Seq(Task) /\ tq \in Seq(Ticket)
      /\ tq # << >> /\ L \in Nat \ {0} /\ Head(tq) = tq[1]
      /\ tasks[i].ticket = H /\ i \in Holders(H)
      /\ tq[1] \in Ticket /\ tq[1].holds = Cardinality(Holders(H))
      /\ tq[1].holds \in Nat \ {0}
      /\ tasks' \in Seq(Task) /\ Len(tasks') = n
      /\ \A j \in 1 .. n :
           /\ tasks'[j].ticket = tasks[j].ticket /\ tasks'[j].bidx = tasks[j].bidx
           /\ j # i => tasks'[j] = tasks[j]
      /\ tasks'[i].pc = "done"
      /\ \A id : Holders(id)' = Holders(id) \ {i}
  BY DoneFacts
<1>1. UNCHANGED <<batchIdx, reserved, nextTicket>>
  BY DEF TaskDone
<1>2. /\ \A k \in 1 .. L : tq[k] \in Ticket /\ tq[k].id < nextTicket
      /\ \A k1, k2 \in 1 .. L : k1 < k2 => tq[k1].id < tq[k2].id
  BY <1>0, ElementOfSeq DEF RaceInv, QueueInv
(* Only the holders of the served ticket lose the finishing task.         *)
<1>3. /\ \A k \in 2 .. L : tq[k].id # H
      /\ \A id : id # H => Holders(id)' = Holders(id)
  <2>1. \A k \in 2 .. L : tq[k].id # H
    <3> SUFFICES ASSUME NEW k \in 2 .. L PROVE tq[k].id # H
      OBVIOUS
    <3>1. 1 \in 1 .. L /\ k \in 1 .. L /\ 1 < k
      BY <1>0
    <3>. QED
      BY <1>2, <3>1 DEF Ticket
  <2>2. ASSUME NEW id, id # H PROVE Holders(id)' = Holders(id)
    <3>1. i \notin Holders(id)
      BY <1>0, <2>2 DEF Holders
    <3>. QED
      BY <1>0, <3>1
  <2>. QED
    BY <2>1, <2>2
<1>4. OffsetInv'
  BY <1>0, <1>1 DEF RaceInv, OffsetInv
<1>5. \A j \in 1 .. n : tasks'[j].pc # "done" => j # i /\ tasks[j].pc # "done"
  BY <1>0
<1>6. \A j \in 1 .. n : tasks'[j].ticket < nextTicket'
  BY <1>0, <1>1 DEF RaceInv, QueueInv
<1>7. CASE tq[1].holds - 1 = 0 /\ ~(reserved /\ L = 1) /\ tq' = Tail(tq)
  <2>1. /\ tq' \in Seq(Ticket) /\ Len(tq') = L - 1
        /\ \A k \in 1 .. L - 1 : tq'[k] = tq[k + 1]
    BY <1>0, <1>7, HeadTailProperties
  <2>2. Holders(H) = {i}
    <3>1. IsFiniteSet(Holders(H)) /\ Cardinality(Holders(H)) = 1
      BY <1>0, <1>7, HoldersFinite
    <3>2. Cardinality(Holders(H) \ {i}) = 0 /\ IsFiniteSet(Holders(H) \ {i})
      <4>1. Cardinality(Holders(H) \ {i}) = Cardinality(Holders(H)) - 1
            /\ IsFiniteSet(Holders(H) \ {i})
        BY <1>0, <3>1, FS_RemoveElement
      <4>. QED
        BY <3>1, <4>1
    <3>3. Holders(H) \ {i} = {}
      BY <3>2, FS_EmptySet
    <3>. QED
      BY <1>0, <3>3
  <2>3. TypeOK'
    BY <1>0, <1>1, <2>1 DEF RaceInv, TypeOK
  <2>4. /\ reserved' => tq' # << >>
        /\ \A k \in 1 .. Len(tq') : tq'[k].id < nextTicket'
        /\ \A k1, k2 \in 1 .. Len(tq') : k1 < k2 => tq'[k1].id < tq'[k2].id
    <3>1. reserved' => tq' # << >>
      BY <1>0, <1>1, <1>7, <2>1 DEF RaceInv, QueueInv
    <3>2. \A k \in 1 .. L - 1 : tq'[k].id < nextTicket'
      BY <1>0, <1>1, <1>2, <2>1
    <3>3. \A k1, k2 \in 1 .. L - 1 : k1 < k2 => tq'[k1].id < tq'[k2].id
      <4> SUFFICES ASSUME NEW k1 \in 1 .. L - 1, NEW k2 \in 1 .. L - 1, k1 < k2
                   PROVE  tq'[k1].id < tq'[k2].id
        OBVIOUS
      <4>1. k1 + 1 \in 1 .. L /\ k2 + 1 \in 1 .. L /\ k1 + 1 < k2 + 1
        BY <1>0
      <4>. QED
        BY <1>2, <2>1, <4>1
    <3>. QED
      BY <2>1, <3>1, <3>2, <3>3
  <2>5. \A j \in 1 .. Len(tasks') :
          tasks'[j].pc # "done" => \E k \in 1 .. Len(tq') : tq'[k].id = tasks'[j].ticket
    <3> SUFFICES ASSUME NEW j \in 1 .. n, tasks'[j].pc # "done"
                 PROVE  \E k \in 1 .. L - 1 : tq'[k].id = tasks'[j].ticket
      BY <1>0, <2>1
    <3>1. j # i /\ tasks[j].pc # "done" /\ tasks'[j] = tasks[j]
      BY <1>0, <1>5
    <3>2. PICK k \in 1 .. L : tq[k].id = tasks[j].ticket
      BY <3>1 DEF RaceInv, QueueInv
    <3>3. k # 1
      BY <2>2, <3>1, <3>2 DEF Holders
    <3>4. k - 1 \in 1 .. L - 1 /\ tq'[k - 1] = tq[k]
      BY <1>0, <2>1, <3>3
    <3>. QED
      BY <3>1, <3>2, <3>4
  <2>6. (\A k \in 1 .. L : tq[k].holds = Cardinality(Holders(tq[k].id)))'
    <3> SUFFICES ASSUME NEW k \in 1 .. L - 1
                 PROVE  (tq[k].holds = Cardinality(Holders(tq[k].id)))'
      BY <2>1
    <3> PICK id : id = tq'[k].id
      OBVIOUS
    <3>0. (Cardinality(Holders(tq[k].id)))' = Cardinality(Holders(id)')
      BY DEF Holders
    <3>1. k + 1 \in 2 .. L /\ tq'[k] = tq[k + 1]
      BY <1>0, <2>1
    <3>2. id = tq[k + 1].id /\ id # H
      BY <1>3, <3>1
    <3>3. Holders(id)' = Holders(id) /\ tq[k + 1].holds = Cardinality(Holders(id))
      BY <1>3, <3>1, <3>2 DEF RaceInv, QueueInv
    <3>. QED
      BY <3>0, <3>1, <3>3
  <2>7. \A j \in 1 .. Len(tasks') :
          tasks'[j].pc = "writing" => tq' # << >> /\ tasks'[j].ticket = Head(tq').id
    <3> SUFFICES ASSUME NEW j \in 1 .. n, tasks'[j].pc = "writing"
                 PROVE  FALSE
      BY <1>0
    <3>1. j # i /\ tasks[j].pc = "writing" /\ tasks'[j] = tasks[j]
      BY <1>0, <1>5
    <3>2. tasks[j].ticket = H
      BY <1>0, <3>1 DEF RaceInv, QueueInv
    <3>. QED
      BY <2>2, <3>1, <3>2 DEF Holders
  <2>. QED
    BY <1>4, <1>6, <2>3, <2>4, <2>5, <2>6, <2>7, <1>0 DEF RaceInv, QueueInv
<1>8. CASE ~(tq[1].holds - 1 = 0 /\ ~(reserved /\ L = 1))
           /\ tq' = [tq EXCEPT ![1].holds = tq[1].holds - 1]
  <2> DEFINE r == [tq[1] EXCEPT !.holds = tq[1].holds - 1]
  <2>1. r \in Ticket /\ r.id = H /\ r.holds = tq[1].holds - 1
    <3>1. tq[1] = [id |-> tq[1].id, holds |-> tq[1].holds] /\ tq[1].id \in Nat
      BY <1>0 DEF Ticket
    <3>2. r = [id |-> tq[1].id, holds |-> tq[1].holds - 1]
      BY <3>1
    <3>3. tq[1].holds - 1 \in Nat
      BY <1>0
    <3>. QED
      BY <3>1, <3>2, <3>3 DEF Ticket
  <2>2. /\ tq' \in Seq(Ticket) /\ Len(tq') = L
        /\ \A k \in 1 .. L : tq'[k] = IF k = 1 THEN r ELSE tq[k]
    <3>1. tq' = [tq EXCEPT ![1] = r]
      BY <1>8
    <3>. QED
      BY <1>0, <2>1, <3>1, ExceptSeq
  <2>3. TypeOK'
    BY <1>0, <1>1, <2>2 DEF RaceInv, TypeOK
  <2>4. /\ reserved' => tq' # << >>
        /\ \A k \in 1 .. Len(tq') : tq'[k].id < nextTicket'
        /\ \A k1, k2 \in 1 .. Len(tq') : k1 < k2 => tq'[k1].id < tq'[k2].id
    BY <1>0, <1>1, <1>2, <2>1, <2>2
  <2>5. \A j \in 1 .. Len(tasks') :
          tasks'[j].pc # "done" => \E k \in 1 .. Len(tq') : tq'[k].id = tasks'[j].ticket
    <3> SUFFICES ASSUME NEW j \in 1 .. n, tasks'[j].pc # "done"
                 PROVE  \E k \in 1 .. L : tq'[k].id = tasks'[j].ticket
      BY <1>0, <2>2
    <3>1. j # i /\ tasks[j].pc # "done" /\ tasks'[j] = tasks[j]
      BY <1>0, <1>5
    <3>2. PICK k \in 1 .. L : tq[k].id = tasks[j].ticket
      BY <3>1 DEF RaceInv, QueueInv
    <3>3. tq'[k].id = tq[k].id
      BY <2>1, <2>2
    <3>. QED
      BY <3>1, <3>2, <3>3
  <2>6. (\A k \in 1 .. L : tq[k].holds = Cardinality(Holders(tq[k].id)))'
    <3> SUFFICES ASSUME NEW k \in 1 .. L
                 PROVE  (tq[k].holds = Cardinality(Holders(tq[k].id)))'
      BY <2>2
    <3> PICK id : id = tq'[k].id
      OBVIOUS
    <3>0. (Cardinality(Holders(tq[k].id)))' = Cardinality(Holders(id)')
      BY DEF Holders
    <3>1. CASE k = 1
      <4>1. id = H /\ tq'[k].holds = Cardinality(Holders(H)) - 1
        BY <1>0, <2>1, <2>2, <3>1
      <4>2. Cardinality(Holders(H) \ {i}) = Cardinality(Holders(H)) - 1
        BY <1>0, HoldersFinite, FS_RemoveElement
      <4>. QED
        BY <1>0, <3>0, <4>1, <4>2
    <3>2. CASE k # 1
      <4>1. k \in 2 .. L /\ tq'[k] = tq[k]
        BY <1>0, <2>2, <3>2
      <4>. QED
        BY <1>3, <3>0, <4>1 DEF RaceInv, QueueInv
    <3>. QED
      BY <3>1, <3>2
  <2>7. \A j \in 1 .. Len(tasks') :
          tasks'[j].pc = "writing" => tq' # << >> /\ tasks'[j].ticket = Head(tq').id
    <3> SUFFICES ASSUME NEW j \in 1 .. n, tasks'[j].pc = "writing"
                 PROVE  tq' # << >> /\ tasks'[j].ticket = Head(tq').id
      BY <1>0
    <3>1. j # i /\ tasks[j].pc = "writing" /\ tasks'[j] = tasks[j]
      BY <1>0, <1>5
    <3>2. tasks[j].ticket = H
      BY <1>0, <3>1 DEF RaceInv, QueueInv
    <3>3. tq' # << >> /\ Head(tq') = tq'[1] /\ tq'[1].id = H
      <4>0. 1 \in 1 .. L
        BY <1>0
      <4>1. tq'[1] = r
        BY <2>2, <4>0
      <4>2. tq' # << >>
        BY <1>0, <2>2
      <4>. QED
        BY <2>1, <2>2, <4>0, <4>1, <4>2
    <3>. QED
      BY <3>1, <3>2, <3>3
  <2>. QED
    BY <1>4, <1>6, <2>3, <2>4, <2>5, <2>6, <2>7, <1>0 DEF RaceInv, QueueInv
<1>. QED
  BY <1>7, <1>8, DoneFacts

-----------------------------------------------------------------------------
LEMMA NextRaceInv == RaceInv /\ [Next]_vars => RaceInv'
<1> SUFFICES ASSUME RaceInv, [Next]_vars PROVE RaceInv'
  OBVIOUS
<1>1. CASE Batching
  BY <1>1, BatchingRaceInv
<1>2. ASSUME NEW i \in 1 .. Len(tasks), TaskStart(i) PROVE RaceInv'
  BY <1>2, PcStepRaceInv DEF TaskStart
<1>3. ASSUME NEW i \in 1 .. Len(tasks), TaskWrite(i) PROVE RaceInv'
  BY <1>3, PcStepRaceInv DEF TaskWrite
<1>4. ASSUME NEW i \in 1 .. Len(tasks), TaskDone(i) PROVE RaceInv'
  BY <1>4, DoneRaceInv
<1>5. CASE UNCHANGED vars
  BY <1>5 DEF vars, RaceInv, TypeOK, OffsetInv, QueueInv, Holders
<1>. QED
  BY <1>1, <1>2, <1>3, <1>4, <1>5 DEF Next

(* Two tasks of the engine's pool inside ProcessOneFrame at the same time *)
(* hold the same ticket of the output resource and write it at different *)
(* offsets, for every batch size, frame bound and number of workers.      *)
THEOREM NoDataRaceHolds == Spec => []NoDataRace
<1>1. Spec => []RaceInv
  BY InitRaceInv, NextRaceInv, PTL DEF Spec
<1>. QED
  BY <1>1, RaceInvSafe, PTL

=============================================================================
