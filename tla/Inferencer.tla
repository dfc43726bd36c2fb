----------------------------- MODULE Inferencer -----------------------------
(***************************************************************************)
(* The inference module of CNStream as seen by its producers.             *)
(*                                                                         *)
(* Inferencer::Process (inferencer.cpp) runs on each producer thread: it  *)
(* looks up (or creates) the thread's InferContext, decides from the       *)
(* context's drop_count whether the frame is dropped by infer_interval,   *)
(* and either hands a pre-fulfilled card (EOS or dropped frame) or the     *)
(* card returned by engine->FeedData to the context's TransDataHelper.    *)
(*                                                                         *)
(* The engine (InferEngine) and the helper (InferTransDataHelper) are not *)
(* part of the sources; they are modelled from the specification: an open *)
(* batch per context that FeedData fills and that commits when full or    *)
(* when the batching watchdog fires, an inference step per committed      *)
(* batch, one post-processing step per frame that writes the frame's      *)
(* objects and fulfils its card, and a per-context FIFO that releases a   *)
(* frame downstream once its card is ready.                                *)
(***************************************************************************)
EXTENDS Naturals, Sequences, Functions

CONSTANTS
  Threads,     \* producer threads calling Process; one InferContext each
  BatchSize,   \* bsize_: frames per batch
  Interval,    \* interval_: infer 1 of every Interval frames, 0 = all
  MaxFrames    \* bound: frames each producer thread submits

ASSUME ConstantsAssumption ==
  /\ BatchSize \in Nat \ {0}
  /\ Interval \in Nat
  /\ MaxFrames \in Nat

\* A frame is named by its producer thread and its position in that
\* thread's stream (1 for the first Process call of the thread).
Frames == Threads \X (1 .. MaxFrames)

CardStates == {"none", "pending", "ready"}

VARIABLES
  opened,      \* d_ptr_ # nullptr: Open succeeded and Close has not run
  closed,      \* Close has run
  ctxs,        \* keys of ctxs_: threads that own an InferContext
  dropCount,   \* drop_count of each thread's context
  nsent,       \* number of Process calls made by each thread
  ended,       \* the thread has submitted its EOS frame
  batch,       \* engine: the open batch of each context, in FeedData order
  inferQ,      \* engine: committed batches whose inference has not run
  postQ,       \* engine: frames whose batch ran, awaiting post-processing
  fed,         \* history: frames handed to engine->FeedData
  card,        \* the ResultWaitingCard of each frame
  objs,        \* number of times post-processing wrote a frame's objects
  hq,          \* helper: per-context FIFO of submitted (frame, card) pairs
  delivered    \* history: frames transmitted downstream, per thread

vars == <<opened, closed, ctxs, dropCount, nsent, ended, batch, inferQ,
          postQ, fed, card, objs, hq, delivered>>

(* The type invariant, in three parts: the module and its contexts, the *)
(* engines, the helpers.                                                   *)
TypeContext ==
  /\ opened \in BOOLEAN
  /\ closed \in BOOLEAN
  /\ ctxs \subseteq Threads
  /\ dropCount \in [Threads -> Nat]
  /\ nsent \in [Threads -> 0 .. MaxFrames]
  /\ ended \in [Threads -> BOOLEAN]

TypeEngine ==
  /\ batch \in [Threads -> Seq(Frames)]
  /\ inferQ \subseteq SUBSET Frames
  /\ postQ \subseteq Frames
  /\ fed \subseteq Frames
  /\ card \in [Frames -> CardStates]
  /\ objs \in [Frames -> Nat]

TypeHelper ==
  /\ hq \in [Threads -> Seq(Frames)]
  /\ delivered \in [Threads -> Seq(Frames)]

TypeOK == TypeContext /\ TypeEngine /\ TypeHelper

Init ==
  /\ opened = FALSE
  /\ closed = FALSE
  /\ ctxs = {}
  /\ dropCount = [t \in Threads |-> 0]
  /\ nsent = [t \in Threads |-> 0]
  /\ ended = [t \in Threads |-> FALSE]
  /\ batch = [t \in Threads |-> <<>>]
  /\ inferQ = {}
  /\ postQ = {}
  /\ fed = {}
  /\ card = [f \in Frames |-> "none"]
  /\ objs = [f \in Frames |-> 0]
  /\ hq = [t \in Threads |-> <<>>]
  /\ delivered = [t \in Threads |-> <<>>]

-----------------------------------------------------------------------------
(* Inferencer::Open: the required parameters are present, the model and   *)
(* the post-processor load; d_ptr_ is created. Parameter parsing and the  *)
(* failure returns are left out: they leave no context behind.            *)
Open ==
  /\ ~opened /\ ~closed
  /\ opened' = TRUE
  /\ UNCHANGED <<closed, ctxs, dropCount, nsent, ended, batch, inferQ, postQ,
                 fed, card, objs, hq, delivered>>

(* InferEngine::FeedData (from the specification): the frame joins the  *)
(* open batch with a pending card; a batch that becomes full commits.     *)
FeedData(t, f) ==
  LET nb == Append(batch[t], f) IN
  /\ IF Len(nb) = BatchSize
       THEN /\ batch' = [batch EXCEPT ![t] = <<>>]
            /\ inferQ' = inferQ \cup {Range(nb)}
       ELSE /\ batch' = [batch EXCEPT ![t] = nb]
            /\ inferQ' = inferQ
  /\ card' = [card EXCEPT ![f] = "pending"]
  /\ fed' = fed \cup {f}

(* InferencerPrivate::GetInferContext for thread t, under ctx_mtx_: the  *)
(* thread's context, created (drop_count = 0) when ctxs_ has none.        *)
GetInferContext(t) == ctxs \cup {t}

(* Mutant of Process: an EOS or dropped frame is transmitted at once      *)
(* instead of being submitted to the helper behind the frames before it.  *)
ProcessBypassHelper(t, eos) ==
  LET f    == <<t, nsent[t] + 1>>
      dc   == dropCount[t]
      drop == Interval > 0 /\ dc % Interval # 0
      dc1  == IF Interval > 0 THEN dc + 1 ELSE dc
  IN
  /\ opened /\ ~ended[t] /\ nsent[t] < MaxFrames
  /\ ctxs' = GetInferContext(t)
  /\ dropCount' = [dropCount EXCEPT ![t] = IF drop THEN dc1 % Interval ELSE dc1]
  /\ IF eos \/ drop
       THEN /\ card' = [card EXCEPT ![f] = "ready"]
            /\ delivered' = [delivered EXCEPT ![t] = Append(@, f)]
            /\ UNCHANGED <<batch, inferQ, fed, hq>>
       ELSE /\ FeedData(t, f)
            /\ hq' = [hq EXCEPT ![t] = Append(@, f)]
            /\ UNCHANGED delivered
  /\ nsent' = [nsent EXCEPT ![t] = @ + 1]
  /\ ended' = [ended EXCEPT ![t] = eos]
  /\ UNCHANGED <<opened, closed, postQ, objs>>

(* Mutant of Process: drop_count pre-incremented (++drop_count).         *)
ProcessPreIncrement(t, eos) ==
  LET f    == <<t, nsent[t] + 1>>
      dc1  == IF Interval > 0 THEN dropCount[t] + 1 ELSE dropCount[t]
      drop == Interval > 0 /\ dc1 % Interval # 0
  IN
  /\ opened /\ ~ended[t] /\ nsent[t] < MaxFrames
  /\ ctxs' = GetInferContext(t)
  /\ dropCount' = [dropCount EXCEPT ![t] = IF drop THEN dc1 % Interval ELSE dc1]
  /\ IF eos \/ drop
       THEN /\ card' = [card EXCEPT ![f] = "ready"]
            /\ UNCHANGED <<batch, inferQ, fed>>
       ELSE FeedData(t, f)
  /\ hq' = [hq EXCEPT ![t] = Append(@, f)]
  /\ nsent' = [nsent EXCEPT ![t] = @ + 1]
  /\ ended' = [ended EXCEPT ![t] = eos]
  /\ UNCHANGED <<opened, closed, postQ, objs, delivered>>

(* Mutant of NextDropCount: a dropped frame does not reduce drop_count.  *)
NextDropCountNoReduce(dc) ==
  IF Interval > 0 THEN dc + 1 ELSE dc

(* drop_count after Process read dc from it: the post-increment of        *)
(* drop_count++ % interval_ (evaluated only when interval_ > 0), then      *)
(* drop_count %= interval_ when the frame was dropped.                     *)
NextDropCount(dc) ==
  LET dc1 == IF Interval > 0 THEN dc + 1 ELSE dc IN
  IF Interval > 0 /\ dc % Interval # 0 THEN dc1 % Interval ELSE dc1

(* Inferencer::Process on thread t with a frame whose EOS flag is eos.    *)
(* GetInferContext creates the context (drop_count = 0) on first use.     *)
(* drop = interval_ > 0 && drop_count++ % interval_ != 0: the increment   *)
(* happens only when interval_ > 0; a dropped frame reduces drop_count    *)
(* modulo interval_. An EOS or dropped frame gets a fulfilled card, any   *)
(* other is fed to the engine; both go to the helper in call order.       *)
Process(t, eos) ==
  LET f    == <<t, nsent[t] + 1>>
      dc   == dropCount[t]
      drop == Interval > 0 /\ dc % Interval # 0
  IN
  /\ opened
  /\ ~ended[t]
  /\ nsent[t] < MaxFrames
  /\ ctxs' = GetInferContext(t)
  /\ dropCount' = [dropCount EXCEPT ![t] = NextDropCount(dc)]
  /\ IF eos \/ drop
       THEN /\ card' = [card EXCEPT ![f] = "ready"]
            /\ UNCHANGED <<batch, inferQ, fed>>
       ELSE FeedData(t, f)
  /\ hq' = [hq EXCEPT ![t] = Append(@, f)]
  /\ nsent' = [nsent EXCEPT ![t] = @ + 1]
  /\ ended' = [ended EXCEPT ![t] = eos]
  /\ UNCHANGED <<opened, closed, postQ, objs, delivered>>

(* Mutant of Timeout: the watchdog only commits a full batch.            *)
TimeoutOnlyFull(t) ==
  /\ Len(batch[t]) = BatchSize
  /\ batch' = [batch EXCEPT ![t] = <<>>]
  /\ inferQ' = inferQ \cup {Range(batch[t])}
  /\ UNCHANGED <<opened, closed, ctxs, dropCount, nsent, ended, postQ, fed,
                 card, objs, hq, delivered>>

(* The batching watchdog of t's engine: the open batch, still partial,    *)
(* is committed.                                                           *)
Timeout(t) ==
  /\ batch[t] # <<>>
  /\ batch' = [batch EXCEPT ![t] = <<>>]
  /\ inferQ' = inferQ \cup {Range(batch[t])}
  /\ UNCHANGED <<opened, closed, ctxs, dropCount, nsent, ended, postQ, fed,
                 card, objs, hq, delivered>>

(* Mutant of Infer: the cards are fulfilled when inference ends, before  *)
(* post-processing ran.                                                    *)
InferFulfilsEarly(B) ==
  /\ B \in inferQ
  /\ inferQ' = inferQ \ {B}
  /\ postQ' = postQ \cup B
  /\ card' = [f \in Frames |-> IF f \in B THEN "ready" ELSE card[f]]
  /\ UNCHANGED <<opened, closed, ctxs, dropCount, nsent, ended, batch, fed,
                 objs, hq, delivered>>

(* The inference task of a committed batch runs on a worker once the     *)
(* pre-processing tasks it is bound to are done.                           *)
Infer(B) ==
  /\ B \in inferQ
  /\ inferQ' = inferQ \ {B}
  /\ postQ' = postQ \cup B
  /\ UNCHANGED <<opened, closed, ctxs, dropCount, nsent, ended, batch, fed,
                 card, objs, hq, delivered>>

(* Mutant of Postproc: the frame stays queued and may be post-processed  *)
(* again.                                                                  *)
PostprocKeepsFrame(f) ==
  /\ f \in postQ
  /\ objs' = [objs EXCEPT ![f] = @ + 1]
  /\ card' = [card EXCEPT ![f] = "ready"]
  /\ UNCHANGED <<opened, closed, ctxs, dropCount, nsent, ended, batch, inferQ,
                 postQ, fed, hq, delivered>>

(* The post-processing task of frame f writes the decoded objects into   *)
(* the frame and fulfils its card.                                         *)
Postproc(f) ==
  /\ f \in postQ
  /\ postQ' = postQ \ {f}
  /\ objs' = [objs EXCEPT ![f] = @ + 1]
  /\ card' = [card EXCEPT ![f] = "ready"]
  /\ UNCHANGED <<opened, closed, ctxs, dropCount, nsent, ended, batch, inferQ,
                 fed, hq, delivered>>

(* The helper thread of t's context: the head pair's card is ready, the  *)
(* frame is transmitted downstream (Module::TransmitData).                 *)
Deliver(t) ==
  /\ hq[t] # <<>>
  /\ card[Head(hq[t])] = "ready"
  /\ hq' = [hq EXCEPT ![t] = Tail(@)]
  /\ delivered' = [delivered EXCEPT ![t] = Append(@, Head(hq[t]))]
  /\ UNCHANGED <<opened, closed, ctxs, dropCount, nsent, ended, batch, inferQ,
                 postQ, fed, card, objs>>

(* Inferencer::Close: ctxs_ is cleared and d_ptr_ deleted. The contexts' *)
(* destructors drain the engine and join the helper, so Close completes   *)
(* once nothing is left in flight; the pipeline calls it after the        *)
(* producers stopped.                                                      *)
Close ==
  /\ opened
  /\ \A t \in Threads : ended[t] \/ nsent[t] = MaxFrames
  /\ \A t \in Threads : batch[t] = <<>> /\ hq[t] = <<>>
  /\ inferQ = {} /\ postQ = {}
  /\ opened' = FALSE
  /\ closed' = TRUE
  /\ ctxs' = {}
  /\ UNCHANGED <<dropCount, nsent, ended, batch, inferQ, postQ, fed, card,
                 objs, hq, delivered>>

Next ==
  \/ Open
  \/ \E t \in Threads, eos \in BOOLEAN : Process(t, eos)
  \/ \E t \in Threads : Timeout(t)
  \/ \E B \in inferQ : Infer(B)
  \/ \E f \in postQ : Postproc(f)
  \/ \E t \in Threads : Deliver(t)
  \/ Close

(* The watchdog, the worker pool and the helper threads keep running      *)
(* while they have work; producers and Close are not obliged to act.      *)
Fairness ==
  /\ \A t \in Threads : WF_vars(Timeout(t)) /\ WF_vars(Deliver(t))
  /\ WF_vars(\E B \in inferQ : Infer(B))
  /\ WF_vars(\E f \in postQ : Postproc(f))

Spec == Init /\ [][Next]_vars /\ Fairness

-----------------------------------------------------------------------------
(* The frame thread t submitted in position n, and whether it was EOS.   *)
Processed(f) == f[2] <= nsent[f[1]]
IsEos(f) == ended[f[1]] /\ f[2] = nsent[f[1]]

(* In-order delivery (spec 8.1): each producer thread's frames leave the *)
(* module in the order it called Process, whatever order the engine's    *)
(* workers fulfilled their cards in.                                       *)
InOrderDelivery ==
  \A t \in Threads : \A i \in 1 .. Len(delivered[t]) : delivered[t][i] = <<t, i>>

(* A frame handed to the engine is released downstream only after its    *)
(* post-processing wrote its objects, exactly once (spec 8.2, 6).         *)
ResultsBeforeDelivery ==
  \A t \in Threads : \A i \in 1 .. Len(delivered[t]) :
    delivered[t][i] \in fed => objs[delivered[t][i]] = 1

(* Post-processing writes a frame's objects at most once, and never those *)
(* of an EOS frame or of a frame dropped by infer_interval.               *)
ObjectsWrittenOnce ==
  \A f \in Frames : objs[f] <= 1 /\ (objs[f] = 1 => f \in fed)

(* infer_interval (spec 8.6, scenario S4): of each thread's frames,      *)
(* exactly the 1st, (k+1)th, (2k+1)th ... non-EOS ones reach the engine. *)
IntervalCorrect ==
  \A f \in Frames : Processed(f) =>
    (f \in fed <=> ~IsEos(f) /\ (Interval = 0 \/ (f[2] - 1) % Interval = 0))

(* Every frame a producer submits is eventually delivered downstream,     *)
(* even when no further frame arrives to fill its batch (spec 8.3).       *)
EventuallyDelivered ==
  \A t \in Threads, n \in 1 .. MaxFrames :
    (n <= nsent[t]) ~> (Len(delivered[t]) >= n)

(* The module as its producers see it: nsent counts each thread's        *)
(* submissions and delivered is what the helper released downstream.     *)
OD == INSTANCE OrderedDelivery WITH submitted <- nsent, out <- delivered

(* Refinement (spec 4.5, 8.1): every Process call is a submission, every  *)
(* TransmitData of a helper thread emits the oldest frame of its thread   *)
(* not yet emitted, every other step changes neither, and each submitted *)
(* frame is emitted eventually under the fairness of the engine and the   *)
(* helper threads.                                                         *)
RefinesOrderedDelivery == OD!Spec

(* Spec 4.4: an EOS frame makes the engine commit its partial batch at   *)
(* once, so no frame of the stream waits for the watchdog after EOS.      *)
EosCommitsBatch ==
  [][\A t \in Threads : ~ended[t] /\ ended'[t] => batch'[t] = <<>>]_vars

=============================================================================
