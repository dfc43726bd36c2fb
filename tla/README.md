# TLA+ models of the CNStream inference pipeline

This directory holds TLA+ specifications of the parts of CNStream under
`src/`, TLC configurations that model-check them on small instances, and
TLAPS proofs of their main invariants for all values of the constants.

## The system

A pipeline calls the inference module (`Inferencer`, inferencer.cpp) from one
producer thread per group of channels. `Process` looks up the calling thread's
`InferContext` (`GetInferContext`, guarded by `ctx_mtx_`). Every context owns
one `InferEngine` and one `InferTransDataHelper`.

- **Interval drop.** With `infer_interval` = k, the expression
  `drop = k > 0 && drop_count++ % k != 0` lets only 1 frame in k through to the
  engine.
- **Cards.** EOS frames and dropped frames get a pre-fulfilled card. Every
  other frame goes to `engine->FeedData`, which returns a card that is
  fulfilled once post-processing has written the frame's objects. Either way,
  the frame and its card go to the helper.
- **The helper.** It releases frames downstream in submission order, each one
  once its card is ready.

Inside the engine, each frame passes through a batching stage
(batching_stage.cpp):

- **The IO stages** (CPU pre-processing, YUV split, YUV packed) pick a ticket
  on an output resource. The ticket is reserved unless the frame fills the
  last slot of the batch. The stage returns an `InferTask` (infer_task.hpp)
  that waits for the ticket, writes the frame at `Offset(batch_idx)` and calls
  `DeallingDone`. The engine binds each task behind the previous task of the
  same slot and runs it on a worker pool.
- **The resize-convert stage** drives an `RCOpResource` (infer_resource.cpp)
  instead. It initialises a device operator lazily from the first frame,
  checks every later frame against the frozen attributes, and allocates fake
  planes per slot.
- **Tensor storage.** The IO resources (`Cpu/Mlu Input/Output Resource`)
  allocate and free the tensor buffers of the loaded model.

The RTSP sink (rtsp_sink.cpp) is a downstream module. It keeps one context
and one RTSP stream per channel, or a single mosaic "join" stream.

The display module (displayer.cpp) is another downstream module. When its
`show` parameter is set, it initialises an SDL player in `Open`, feeds it
every frame in `Process`, runs the player's event loop in `GUILoop` on the
application thread, and destroys the player in `Close`.

`InferEngine`, `InferTransDataHelper` and the ticket queue (`InferResource`)
are not under `src/`. Where they are needed, they are modelled from spec.md
and marked `spec_modelled` in PROJECT.json.

## Modules

| Module | Models | State | Actions |
|---|---|---|---|
| `Inferencer` | `Inferencer` Open/Process/Close, with the engine and helper from the spec | contexts, `drop_count`, per-thread open batch, committed batches, post-processing queue, cards, objects written, helper FIFOs, delivered frames | `Open`, `Process(t, eos)`, `Timeout(t)`, `Infer(B)`, `Postproc(f)`, `Deliver(t)`, `Close` |
| `IOBatchingStage` | `IOBatchingStage::Batching`, its tasks, the worker pool and the ticket queue | `batch_idx_`, tasks with ticket, slot and phase, ticket queue with hold counts, reservation flag | `Batching`, `TaskStart(i)`, `TaskWrite(i)`, `TaskDone(i)` |
| `RCOpResource` | `ResizeConvertBatchingStage::Batching` and `RCOpResource` | ticket held, context failed, `initialized`, operator, `op.Destroy` count, frozen attributes, fake-plane arrays, planes allocated, crash flag | `Batching(fmt, g, k)`, `Destruct` |
| `IOResource` | `Allocate`/`Deallocate` of the four IO resource kinds | model tensor counts, state and buffers held per engine and kind | `Allocate(r)`, `Deallocate(r)` |
| `RtspSink` | `RtspSink` Open/Process/Close | `ctxs_`, streams open and their ports, per-channel-thread phase | `Open`, `Lookup(c)`, `Create(c)`, `Close` |
| `Displayer` | `Displayer` Open/Process/GUILoop/Close over pipeline sessions | `show_`, SDL player state, full screen, session outcome, frames, GUI thread, misuse history | `Open(complete, s, valid, full, initOk)`, `Process`, `GUILoop`, `Close` |
| `OrderedDelivery` | What the inference module promises (spec 4.5, 8.1) | submissions and emitted frames per thread | `Submit(t)`, `Emit(t)` |

The proof modules are `Inferencer_proofs`, `InferencerEngine_proofs` (which
EXTENDS `Inferencer_proofs`), `IOBatchingStage_proofs`, `RCOpResource_proofs`,
`IOResource_proofs`, `RtspSink_proofs` and `Displayer_proofs`. Each one
EXTENDS its component and `TLAPS`.

How each model relates to the code:

- **One action per handler.** Each action is a whole handler of the code, with
  its guards taken from the code's conditions and early returns.
- **Where a handler is split.** `RtspSink` splits `Process` into the lookup of
  `ctxs_` and the creation of a context. The map has no lock and the pipeline
  calls `Process` from several threads, so another thread may act between
  these two steps.
- **Tasks.** In `IOBatchingStage` a task is split into the steps the worker
  blocks between: taken by a worker, writing, done.
- **Data.** Frame contents, sizes and pixel data are abstracted. A frame is
  named by its thread and its position in that thread's stream. A geometry is
  a model value. Buffers are counted, not named.

## Runs

| Run | Checks | Shows |
|---|---|---|
| `inferencer_pass` | `InOrderDelivery`, `ResultsBeforeDelivery`, `ObjectsWrittenOnce`, `IntervalCorrect`, `EventuallyDelivered`, `RefinesOrderedDelivery` | With 2 threads, batch 2, interval 2 and 4 frames per thread:<br>• delivery keeps Process order;<br>• a fed frame leaves only after its objects are written;<br>• objects are written once, and only for fed frames;<br>• the drop pattern is exactly 1 in k;<br>• every frame is eventually delivered;<br>• the module implements `OrderedDelivery`, fairness included. |
| `inferencer_eos` (violation) | `EosCommitsBatch` | EOS does not commit the partial batch (finding). |
| `batching_pass` | `NoDataRace`, `TasksComplete` | With 6 frames, batch 2 and 2 workers:<br>• writers that run together share a ticket and never a slot;<br>• every task completes. |
| `batching_bounds` (violation) | `OffsetInBounds` | `batch_idx_` never wraps (finding). |
| `rcop_pass` | `AttrsFrozen`, `CleanTeardown` | With 3 slots, 4 geometries and 3 formats:<br>• only frames matching the first reach `BatchingUp`;<br>• when no frame threw, the destructor frees every fake plane and reads no null array. |
| `rcop_destroy` (violation) | `OpDestroyedOnce` | The operator is destroyed twice (finding). |
| `rcop_fake` (violation) | `FakeDataWhenInitialized` | An initialised resource can lack its fake data (finding). |
| `ioresource_pass` | `FreedAsAllocated` | The Cpu input/output and Mlu input kinds free what they allocate, for every model with 1–2 inputs and 1–2 outputs. |
| `ioresource_mluout` (violation) | `FreedAsAllocated` | Mlu output frees `InputNum` buffers (finding). |
| `rtsp_pass` | `FramesOnOwnPort`, `StreamsReachable` | With 3 channels, 3 frames each, and Close and reopen between frames:<br>• frames go to their own channel's stream;<br>• no stream becomes unreachable. |
| `displayer_pass` | `PlayerUsedWhenInitialised` | Sessions with every outcome of `Open`:<br>• frames and the event loop reach the player only when this session's `Init` set it up. |
| `rtsp_mosaic` (violation) | `MosaicSingleStream` | Mosaic style opens several join streams (finding). |

Every property of a passing run also has a mutant in PROJECT.json. A mutant
is a plausible bug in the modelled code: a dropped guard, a pre-increment,
a missing release, a wrong key. TLC finds the property violated once the
mutant is substituted.

### Bounds

- **Inferencer.** Batch 2 with 4 frames per thread gives two batches per
  thread. Some frames are dropped, EOS can fall mid-batch, and the watchdog
  can commit partial batches. Cards of different batches can fulfil out of
  order. Two threads show that per-thread state stays separate.
- **IOBatchingStage.** 6 frames at batch 2 run past the end of the first
  batch. That exposes the non-wrapping `batch_idx_` and lets tasks of two
  batches run on two workers at once.
- **RtspSink.** Key 0 plus two other channels, with three frames each, gives
  lookups after creation as well as concurrent misses.
- **Overflow.** No bounded run reaches 2^31 frames, and scaling `INT_MAX`
  down would only show what the proof already says. So the `drop_count`
  overflow is not model-checked. The theorem `DropCountGrowth` states for
  every constant what `drop_count` holds, interval 1 included.
- **Displayer.** Three frames per session, with every combination of the five
  facts `Open` tests, and sessions reopened after `Close`. This reaches a
  stale `show_` from an earlier session.
- **IOResource.** Tensor counts in 1..2 cover models with equal and unequal
  numbers of inputs and outputs.

### Fairness

- **Inferencer.** Weak fairness on:
  - each thread's watchdog (`Timeout`);
  - each helper thread (`Deliver`);
  - the engine's inference and post-processing workers.

  These are dedicated threads that loop while they have work. Producers and
  `Close` get no fairness, because the pipeline is not obliged to call them.
- **IOBatchingStage.** Weak fairness on the pool workers taking, running and
  finishing tasks.
- **RCOpResource, RtspSink, IOResource and Displayer.** Safety properties
  only, so no fairness.
- **OrderedDelivery.** Weak fairness on `Emit(t)`: the module must emit a
  waiting frame. In `inferencer_pass`, TLC checks this against Inferencer's
  own fairness as part of `RefinesOrderedDelivery`.

## Findings

1. **`batching_stage.cpp:53`**
   - `batch_idx_ + 1 % batchsize_` never wraps.
   - From the third frame of a batch of two, the write at `Offset(bidx)`
     leaves the batch.
   - The ticket also stays reserved for ever.
2. **`infer_resource.cpp:227`**
   - `Destroy` calls `op.Destroy()`, then `DeallocateFakeData` calls it again,
     because `initialized` is still true.
3. **`infer_resource.cpp:191`**
   - `initialized` is set before `AllocateFakeData`.
   - If `cnrtMalloc` fails, the resource stays initialised with null arrays
     and leaked planes.
   - The destructor then dereferences the null arrays.
4. **`inferencer.cpp:229`**
   - An EOS frame never reaches the engine, so EOS does not commit the partial
     batch as spec §4.4 and scenario S5 say.
   - The batch waits for the timeout.
5. **`infer_resource.cpp:160`**
   - `MluOutputResource::Deallocate` frees `InputNum()` output buffers.
6. **`rtsp_sink.cpp:54`**
   - Mosaic style searches key 0 but stores under `channel_idx`.
   - Each frame of another channel that arrives before channel 0's first frame
     opens a new join stream and leaks the old one.
   - Unlocked concurrent misses do the same.

Two more issues turned up while modelling. Neither has a violation run of
its own:

- **`inferencer.cpp:227`**
   - With `infer_interval` = 1, `drop_count++ % 1` is always 0. No frame is
     dropped, so the reduction modulo the interval never runs.
   - The int `drop_count` grows by one per frame and overflows (undefined
     behaviour) after 2^31 frames of one producer thread.
   - `DropCountGrowth` proves it for every constant: with interval 1
     `drop_count` equals the number of calls. With interval 0 it stays 0,
     and otherwise it stays below the interval.
- **`displayer.cpp:53`** (a gap in the spec)
   - `Open` sets `show_` before it checks the numbers and before
     `player_->Init`.
   - When either fails, `Open` returns false with `show_` true. A `Close`
     that follows calls `Destroy` on a player that was never set up.
   - The spec says a failed `Open` aborts startup. It does not say whether
     `Close` may follow.

## Refinement

`OrderedDelivery` states what a producer sees of the inference module:
- each thread submits frames;
- the module emits, per thread, the oldest frame it has not emitted yet;
- under weak fairness, every waiting frame is emitted.

`Inferencer` instantiates it as `OD` with `submitted <- nsent` and
`out <- delivered`. Under this mapping:
- `Process` is `Submit`;
- the helper's `Deliver` is `Emit`;
- every engine step, `Open` and `Close` is a stutter.

TLC checks `OD!Spec`, fairness included, as the property
`RefinesOrderedDelivery` of `inferencer_pass`. TLAPS proves the safety part
(`ImplementsOrderedDelivery`).

## Proofs

`Inferencer_proofs` proves the following with TLAPS, for every set of threads,
batch size, interval and frame bound satisfying `ConstantsAssumption`:

- **`TypeCorrect`**: `Spec => []TypeOK`.
  - `TypeOK` is inductive on its own.
  - The proof has one lemma for `Init`, one for `Process`, and one step for
    each other action.
  - Each step is split per conjunct group (contexts, engines, helpers).
- **`InOrderDeliveryHolds`**: `Spec => []InOrderDelivery`.
  - `InOrderDelivery` alone is not inductive. It says nothing about the
    frames still in the helper FIFO, so a `Deliver` step could append any
    head.
  - The strengthening `OrderInv` states `Numbered(t, delivered[t], hq[t],
    nsent[t])` for every thread t:
    - the delivered frames are 1..d;
    - the FIFO holds the following frames, d+1, d+2, …;
    - together they are all `nsent[t]` submitted frames.
  - Two lemmas about sequences carry the argument:
    - `NumberedAppend` (Process appends frame n+1);
    - `NumberedShift` (Deliver moves the head).
  - Their proofs rest on `AppendProperties` and `HeadTailProperties` of
    `SequenceTheorems`.
  - TLC also checked `OrderInv` as an invariant of `inferencer_pass` before the
    proof was written.

- **`IntervalCorrectHolds`**: `Spec => []IntervalCorrect`.
  - `DropCountOf(n)` gives `drop_count` after n calls: 0 without an interval,
    n at interval 1, and `n % k` otherwise.
  - The inductive invariant `IntervalInv` states three things:
    - `drop_count` equals `DropCountOf(nsent)`;
    - only submitted frames were fed;
    - `IntervalCorrect` itself.
  - The lemma `DropStep` shows that one call moves `DropCountOf(n)` to
    `DropCountOf(n + 1)` and drops exactly when n is not a multiple of k. It
    rests on the arithmetic lemmas `ModOfMultiple` and `ModSucc`.
- **`DropCountGrowth`**: `Spec => []DropCountLaw`. For every interval, it
  states what `drop_count` holds:
  - interval 1: the number of `Process` calls of the context, so call
    `INT_MAX + 1` overflows the signed int;
  - interval 0: always 0;
  - any other interval: a value below the interval.
  It follows from `IntervalInv`, which ties `drop_count` to `DropCountOf` of
  the call count.
- **`ImplementsOrderedDelivery`**: `Spec => OD!SafetySpec`.
  - It uses `OrderInv` to show that a `Deliver` step moves the oldest
    undelivered frame (lemmas `HeadIsNext` and `DeliverIsEmit`).

`RtspSink_proofs` proves three theorems for every number of channels, style
and frame bound:
- **`SinkTypeCorrect`**.
  - `TypeOK` is strengthened by `TypeInv`: a thread that missed is still
    under its frame bound, as its `Lookup` checked.
  - `Create` needs this, because it counts that frame.
- **`FramesOnOwnPortHolds`**, in both styles.
  - `PortInv` adds three facts to the property:
    - every context in `ctxs_` and in the history is numbered at most
      `nctx`, so a new context never overwrites a port entry in use;
    - the context held for channel c streams on `PortOf(c)`;
    - `FramesOnOwnPort` itself.
- **`StreamsReachableHolds`**, in per-channel style.
  - `ReachInv` adds that a thread that missed still finds its own key empty.
    Only that thread inserts under it, so its `Create` overwrites no context.
  - In mosaic style this fails, as `rtsp_mosaic` shows.

`Create` has one guard, `nctx < MaxCtx`, that bounds the model only. It never
blocks, because each `Create` also counts one of at most `MaxCtx` frames.
`rtsp_pass` reaches the same number of states with and without it.

`InferencerEngine_proofs` proves two theorems about the path of a frame
through the engine, for every set of threads, batch size and frame bound:
**`ObjectsWrittenOnceHolds`** and **`ResultsBeforeDeliveryHolds`**.
- Both follow from the inductive invariant `LifeInv`. It tracks each frame
  through the stages of the engine: its thread's open batch (`InBatch`), a
  committed batch (`InInfer`) and the post-processing queue (`InPost`).
  - A frame not submitted has no card.
  - A frame submitted but not fed was dropped by the interval. It has no
    objects, its card is not pending, and it is in no stage.
  - A fed frame is in one of two states:
    - pending, with no objects, in exactly one stage;
    - ready, with its one write of objects, in no stage.
  - The committed batches are pairwise disjoint.
  - A thread's open batch holds only its own frames.
  - A delivered frame is ready.
- Without the disjointness and uniqueness of stages, `Postproc` could write
  a frame's objects twice. Without the card states, `Deliver` could emit a
  frame that is still pending.
- There is one lemma per action. `Process` gets one per case: no feed, feed
  into an open batch, and feed that fills the batch. The facts the three
  cases share are collected in `ProcessFacts`.
- TLC checked `LifeInv` on the `inferencer_pass` instance before the proof.

`IOBatchingStage_proofs` proves **`NoDataRaceHolds`** for every batch size,
frame bound and pool size.
- It rests on the inductive invariant `RaceInv` = `TypeOK /\ OffsetInv /\
  QueueInv`.
- `QueueInv` carries the ticket discipline:
  - the ids in the ticket queue increase and were all handed out;
  - a reserved ticket is still in the queue;
  - the ticket of every unfinished task is in the queue;
  - every queued ticket's hold count equals the number of its unfinished
    holders (`Holders`, a `Cardinality`);
  - a task inside `ProcessOneFrame` holds the ticket at the head.
- The counting conjunct is what `TaskDone` needs. When `DeallingDone` drops
  the head ticket, its count was 1, so the finishing task was its only holder
  and no other writer is left on it. The lemmas `AppendHolders`,
  `AppendHoldersCard` and `DoneHolders` take the counts through the actions,
  with `FS_AddElement`, `FS_RemoveElement` and `FS_EmptySet` of
  `FiniteSetTheorems`.
- `OffsetInv` records what `batch_idx_ + 1 % batchsize_` does:
  - with `batchsize_` > 1, `batch_idx_` never wraps and task i writes at
    offset i − 1;
  - with `batchsize_` = 1 it stays 0, no ticket is reserved, and each task
    has a ticket of its own.
- So the offsets of two concurrent writers differ because of this bug, not
  because of the slot arithmetic the code means. The same bug makes
  `batching_bounds` fail: the offset leaves the batch.
- TLC checked `RaceInv` for batch sizes 1, 2 and 3 before the proof.

`RCOpResource_proofs` proves **`AttrsFrozenHolds`** and
**`CleanTeardownHolds`** for every batch size and set of geometries.
- The inductive invariant `FrozenInv` adds one fact to `AttrsFrozen`: while
  the operator is alive but not initialised, no frame has been accepted.
- The lemma `BatchingArms` turns the nested conditionals of `Batching` into
  four disjoint arms:
  - the exception;
  - the first frame, failing;
  - the first frame, initialising with every plane allocated;
  - a later frame with the frozen attributes.
- `CleanTeardown` needs the strengthening `CleanInv`:
  - a destroyed resource is not initialised;
  - while no call has thrown, no null array was read;
  - while no call has thrown, an initialised resource holds all
    2 × `batchsize_` planes through stored arrays, and an uninitialised one
    holds none.
  `Destruct` then frees exactly those planes.
- In `Batching`, the success arm of the first frame is guarded by
  `k = 2 * BatchSize`, which makes the arms of the CASE disjoint. TLC takes
  the first true arm, but a TLA+ CASE with overlapping guards may pick any
  of them, so the prover needs the guards to exclude each other.

`IOResource_proofs` proves **`FreedAsAllocatedHolds`** under the hypothesis
that the Mlu output kind is not among the modelled kinds.
- The inductive invariant `HeldInv` states that a resource holds exactly
  `TensorNum` buffers when allocated and none otherwise.
- With Mlu output the property is false, as `ioresource_mluout` shows, so the
  theorem states that case as excluded rather than proving less about it.

`Displayer_proofs` proves **`PlayerUsedWhenInitialisedHolds`**.
- The inductive invariant `ShowInv` adds one fact: in an open session with
  `show_` set, the player has been initialised.
- `Open` opens a session with `show_` set only when `player_->Init`
  succeeded, and `Close` ends the session in the same step in which it
  destroys the player.

**What stays with TLC only.**
- **Liveness.** `EventuallyDelivered` and `TasksComplete` depend on fairness
  and `ENABLED`, which the prover does not handle.
- **The liveness part of `RefinesOrderedDelivery`.** The fairness of
  `OD!Spec` is checked by TLC only.
- **The violation runs.** They show counterexamples; there is nothing to
  prove.

## Not modelled

- **Parameter parsing and `CheckParamSet`.** They only decide whether `Open`
  fails.
- **The post-processor registry and the frame data model.** They are pure
  factories and declarations.
- **`Displayer::CheckParamSet`.** It changes no state. Its number checks
  belong to `ParametersChecker`, which is not under `src/`.
- **The SDL player.** It is not under `src/`, so only its state (not set up,
  set up, destroyed) is modelled.
- **The engine's error callback.**
- **The content of what `ProcessOneFrame` copies.**
- **`Process` racing `Close` (`inferencer.cpp:216`).** `Close` runs only after
  the producers have stopped and everything has drained, as the pipeline
  calls it. The pipeline is not under `src/`.
