---------------------------- MODULE RCOpResource ----------------------------
(***************************************************************************)
(* The device resize-and-convert path: ResizeConvertBatchingStage::       *)
(* Batching (batching_stage.cpp) and the RCOpResource it drives           *)
(* (infer_resource.cpp): the operator is initialised lazily from the      *)
(* first frame, its attributes are frozen afterwards, and per-slot fake   *)
(* planes are allocated on the device. The resource is destroyed when the *)
(* engine that owns it is destroyed.                                       *)
(*                                                                         *)
(* A frame's width, height and stride are abstracted to a geometry drawn  *)
(* from Geoms; its pixel format is one of Formats. cnrtMalloc of a fake   *)
(* plane may fail.                                                         *)
(***************************************************************************)
EXTENDS Naturals

CONSTANTS
  BatchSize,   \* batchsize_: fake planes are allocated per batch slot
  Geoms        \* frame geometries (width, height, stride[0])

ASSUME RCOpAssumption ==
  /\ BatchSize \in Nat \ {0}
  /\ Geoms # {}

Formats == {"NV12", "NV21", "BGR24"}
ColorModes == {"YUV2RGBA_NV12", "YUV2RGBA_NV21"}
Attrs == [geom : Geoms, cmode : ColorModes]
NoAttr == [geom |-> "none", cmode |-> "none"]

VARIABLES
  alive,       \* the RCOpResource exists (its destructor has not run)
  held,        \* a ticket of the resource is picked and not DeallingDone
  failed,      \* an exception escaped Batching: the context is dead
  initialized, \* value_->initialized
  op,          \* the device operator: "none", "live" or "destroyed"
  destroys,    \* op.Destroy calls since the operator was last initialised
  attr,        \* the attributes the operator was initialised with
  fakeSet,     \* value_->y/uv_plane_fake_data point to allocated arrays
  planes,      \* fake planes allocated on the device and not freed
  crashed,     \* a null fake-plane array was dereferenced
  accepted     \* history: attributes of the frames passed to BatchingUp

vars == <<alive, held, failed, initialized, op, destroys, attr, fakeSet,
          planes, crashed, accepted>>

TypeOK ==
  /\ alive \in BOOLEAN
  /\ held \in BOOLEAN
  /\ failed \in BOOLEAN
  /\ initialized \in BOOLEAN
  /\ op \in {"none", "live", "destroyed"}
  /\ destroys \in 0 .. 2
  /\ attr \in Attrs \cup {NoAttr}
  /\ fakeSet \in BOOLEAN
  /\ planes \in 0 .. 2 * BatchSize
  /\ crashed \in BOOLEAN
  /\ accepted \subseteq Attrs

Init ==
  /\ alive = TRUE
  /\ held = FALSE
  /\ failed = FALSE
  /\ initialized = FALSE
  /\ op = "none"
  /\ destroys = 0
  /\ attr = NoAttr
  /\ fakeSet = FALSE
  /\ planes = 0
  /\ crashed = FALSE
  /\ accepted = {}

-----------------------------------------------------------------------------
(* The colour mode Batching derives from the pixel format.                *)
CMode(fmt) == IF fmt = "NV12" THEN "YUV2RGBA_NV12" ELSE "YUV2RGBA_NV21"

(* RCOpResource::Init on an uninitialised resource: op.Init, then         *)
(* initialized = true, then AllocateFakeData, which allocates the y and   *)
(* uv plane of each slot in turn. When cnrtMalloc fails on plane k (k <   *)
(* 2 * BatchSize) the k planes already allocated stay allocated, the      *)
(* arrays are not stored, and CnstreamError is thrown.                     *)
InitOp(a, k) ==
  /\ op' = "live"
  /\ destroys' = 0
  /\ initialized' = TRUE
  /\ attr' = a
  /\ planes' = k
  /\ fakeSet' = (k = 2 * BatchSize)

(* Mutant of Batching: the attribute check ignores the colour mode.     *)
BatchingNoCModeCheck(fmt, g, k) ==
  LET a == [geom |-> g, cmode |-> CMode(fmt)] IN
  /\ alive /\ ~failed /\ ~held
  /\ UNCHANGED <<alive, crashed>>
  /\ CASE fmt \notin {"NV12", "NV21"} ->
            /\ held' = TRUE /\ failed' = TRUE
            /\ UNCHANGED <<initialized, op, destroys, attr, fakeSet, planes,
                           accepted>>
       [] ~initialized ->
            /\ InitOp(a, 2 * BatchSize)
            /\ held' = FALSE /\ failed' = FALSE
            /\ accepted' = accepted \cup {a}
       [] attr.geom # g ->
            /\ held' = TRUE /\ failed' = TRUE
            /\ UNCHANGED <<initialized, op, destroys, attr, fakeSet, planes,
                           accepted>>
       [] OTHER ->
            /\ held' = FALSE /\ failed' = FALSE
            /\ accepted' = accepted \cup {a}
            /\ UNCHANGED <<initialized, op, destroys, attr, fakeSet, planes>>

(* ResizeConvertBatchingStage::Batching(frame) on the producer thread:    *)
(* PickUpTicket and WaitResourceByTicket (blocking while a ticket is      *)
(* held), colour mode from the format or throw, lazy Init or attribute   *)
(* check or throw, BatchingUp, DeallingDone. A throw leaves the ticket    *)
(* held. k is the number of fake planes cnrtMalloc delivers if Init runs. *)
Batching(fmt, g, k) ==
  LET a == [geom |-> g, cmode |-> CMode(fmt)] IN
  /\ alive /\ ~failed
  /\ ~held
  /\ UNCHANGED <<alive, crashed>>
  /\ CASE fmt \notin {"NV12", "NV21"} ->
            /\ held' = TRUE /\ failed' = TRUE
            /\ UNCHANGED <<initialized, op, destroys, attr, fakeSet, planes,
                           accepted>>
       [] ~initialized /\ k < 2 * BatchSize ->
            /\ InitOp(a, k)
            /\ held' = TRUE /\ failed' = TRUE
            /\ UNCHANGED accepted
       [] ~initialized /\ k = 2 * BatchSize ->
            /\ InitOp(a, k)
            /\ held' = FALSE /\ failed' = FALSE
            /\ accepted' = accepted \cup {a}
       [] attr # a ->
            /\ held' = TRUE /\ failed' = TRUE
            /\ UNCHANGED <<initialized, op, destroys, attr, fakeSet, planes,
                           accepted>>
       [] OTHER ->
            /\ held' = FALSE /\ failed' = FALSE
            /\ accepted' = accepted \cup {a}
            /\ UNCHANGED <<initialized, op, destroys, attr, fakeSet, planes>>

(* Mutant of DeallocateFakeData: the loop frees only the y plane of each *)
(* slot.                                                                   *)
DeallocateFakeDataYOnly(d) ==
  IF initialized
    THEN /\ destroys' = d + 1
         /\ crashed' = ~fakeSet
         /\ planes' = IF fakeSet THEN planes - BatchSize ELSE planes
         /\ fakeSet' = FALSE
    ELSE /\ destroys' = d
         /\ UNCHANGED <<crashed, planes, fakeSet>>

(* RCOpResource::DeallocateFakeData after d calls of op.Destroy: if     *)
(* initialized is still set, it is cleared, op.Destroy is called again   *)
(* and the planes of every slot are freed through the fake-plane arrays  *)
(* (a null array, left by a failed AllocateFakeData, is dereferenced).   *)
DeallocateFakeData(d) ==
  IF initialized
    THEN /\ destroys' = d + 1
         /\ crashed' = ~fakeSet
         /\ planes' = IF fakeSet THEN 0 ELSE planes
         /\ fakeSet' = FALSE
    ELSE /\ destroys' = d
         /\ UNCHANGED <<crashed, planes, fakeSet>>

(* RCOpResource::Destroy: op.Destroy, DeallocateFakeData, then           *)
(* initialized = false.                                                    *)
Destroy ==
  /\ op' = "destroyed"
  /\ DeallocateFakeData(destroys + 1)
  /\ initialized' = FALSE

(* ~RCOpResource, run when the engine owning the resource is destroyed:  *)
(* Destroy if the resource is initialised.                                 *)
Destruct ==
  /\ alive
  /\ alive' = FALSE
  /\ IF initialized
       THEN Destroy
       ELSE UNCHANGED <<op, destroys, initialized, crashed, planes, fakeSet>>
  /\ UNCHANGED <<held, failed, attr, accepted>>

Next ==
  \/ \E fmt \in Formats, g \in Geoms, k \in 0 .. 2 * BatchSize : Batching(fmt, g, k)
  \/ Destruct

Spec == Init /\ [][Next]_vars

-----------------------------------------------------------------------------
(* Spec 4.2: the operator's attributes are frozen at the first frame;     *)
(* every frame handed to BatchingUp has the geometry and colour mode the  *)
(* operator was initialised with, however the formats and sizes of later  *)
(* frames vary.                                                            *)
AttrsFrozen ==
  \A a \in accepted : a = attr

(* A context in which no Batching call threw is torn down cleanly: once  *)
(* ~RCOpResource has run, every fake plane AllocateFakeData took on the   *)
(* device has been freed by DeallocateFakeData, and no null fake-plane    *)
(* array was dereferenced, whatever frames came before.                   *)
CleanTeardown ==
  (~alive /\ ~failed) => (planes = 0 /\ ~crashed)

(* The device operator is destroyed at most once per initialisation.     *)
OpDestroyedOnce ==
  destroys <= 1

(* An initialised resource owns its fake planes: DeallocateFakeData frees *)
(* through the fake-plane arrays whenever initialized is true.            *)
FakeDataWhenInitialized ==
  initialized => fakeSet

=============================================================================
