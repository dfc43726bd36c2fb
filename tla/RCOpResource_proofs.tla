------------------------- MODULE RCOpResource_proofs -------------------------
(***************************************************************************)
(* Proofs about the resize-and-convert resource: the operator's           *)
(* attributes are frozen at the first frame, and a context torn down     *)
(* without an exception frees every fake plane, for every batch size and *)
(* every set of geometries.                                                *)
(***************************************************************************)
EXTENDS RCOpResource, TLAPS

(* Inductive strengthening of AttrsFrozen: while the resource lives and  *)
(* is not initialised, no frame has reached BatchingUp, so the first     *)
(* frame's attributes, which Init stores, are the only ones accepted.     *)
FrozenInv ==
  /\ (alive /\ ~initialized) => accepted = {}
  /\ AttrsFrozen

(* Batching takes one arm of its CASE: the outcomes that escape with an  *)
(* exception, the first frame's Init (which returns only when every      *)
(* cnrtMalloc succeeded), or the attribute check.                          *)
LEMMA BatchingArms ==
  ASSUME NEW fmt \in Formats, NEW g \in Geoms, NEW k \in 0 .. 2 * BatchSize,
         Batching(fmt, g, k)
  PROVE  LET a == [geom |-> g, cmode |-> CMode(fmt)] IN
         /\ alive /\ ~failed /\ ~held /\ UNCHANGED <<alive, crashed>>
         /\ \/ /\ held' = TRUE /\ failed' = TRUE
               /\ UNCHANGED <<initialized, op, destroys, attr, fakeSet,
                              planes, accepted>>
            \/ /\ ~initialized /\ InitOp(a, k)
               /\ held' = TRUE /\ failed' = TRUE /\ UNCHANGED accepted
            \/ /\ ~initialized /\ InitOp(a, k) /\ k = 2 * BatchSize
               /\ held' = FALSE /\ failed' = FALSE
               /\ accepted' = accepted \cup {a}
            \/ /\ initialized /\ attr = a
               /\ held' = FALSE /\ failed' = FALSE
               /\ accepted' = accepted \cup {a}
               /\ UNCHANGED <<initialized, op, destroys, attr, fakeSet,
                              planes>>
<1>1. CASE ~initialized /\ k < 2 * BatchSize
  <2>1. k # 2 * BatchSize
    BY <1>1, RCOpAssumption
  <2> QED
    BY <1>1, <2>1 DEF Batching
<1>2. CASE ~initialized /\ ~(k < 2 * BatchSize)
  <2>1. k = 2 * BatchSize
    BY <1>2, RCOpAssumption
  <2> QED
    BY <1>2, <2>1 DEF Batching
<1>3. CASE initialized
  BY <1>3 DEF Batching
<1> QED
  BY <1>1, <1>2, <1>3

(* The first frame's Init stores its attributes while none were accepted *)
(* yet; a later frame reaches BatchingUp only with the stored attributes; *)
(* Destruct ends the resource's life.                                      *)
LEMMA NextFrozenInv == FrozenInv /\ [Next]_vars => FrozenInv'
<1> SUFFICES ASSUME FrozenInv, [Next]_vars PROVE FrozenInv'
  OBVIOUS
<1>1. ASSUME NEW fmt \in Formats, NEW g \in Geoms,
             NEW k \in 0 .. 2 * BatchSize, Batching(fmt, g, k)
      PROVE  FrozenInv'
  <2> DEFINE a == [geom |-> g, cmode |-> CMode(fmt)]
  <2>1. alive' = alive
    BY <1>1, BatchingArms
  <2>2. CASE /\ held' = TRUE /\ failed' = TRUE
             /\ UNCHANGED <<initialized, op, destroys, attr, fakeSet,
                            planes, accepted>>
    BY <2>1, <2>2 DEF FrozenInv, AttrsFrozen
  <2>3. CASE ~initialized /\ InitOp(a, k) /\ UNCHANGED accepted
    <3>1. accepted = {} /\ initialized'
      BY <1>1, <2>3, BatchingArms DEF FrozenInv, InitOp
    <3> QED
      BY <2>3, <3>1 DEF FrozenInv, AttrsFrozen
  <2>4. CASE ~initialized /\ InitOp(a, k) /\ accepted' = accepted \cup {a}
    <3>1. accepted = {} /\ initialized' /\ attr' = a
      BY <1>1, <2>4, BatchingArms DEF FrozenInv, InitOp
    <3> QED
      BY <2>4, <3>1 DEF FrozenInv, AttrsFrozen
  <2>5. CASE /\ initialized /\ attr = a /\ accepted' = accepted \cup {a}
             /\ UNCHANGED <<initialized, attr>>
    BY <2>1, <2>5 DEF FrozenInv, AttrsFrozen
  <2> QED
    BY <1>1, <2>2, <2>3, <2>4, <2>5, BatchingArms
<1>2. CASE Destruct
  BY <1>2 DEF Destruct, FrozenInv, AttrsFrozen
<1>3. CASE UNCHANGED vars
  BY <1>3 DEF vars, FrozenInv, AttrsFrozen
<1> QED
  BY <1>1, <1>2, <1>3 DEF Next

(* Spec 4.2: whatever sizes and formats later frames have, every frame   *)
(* handed to BatchingUp has the geometry and colour mode the operator was *)
(* initialised with at the first frame, for every batch size and every   *)
(* set of geometries.                                                      *)
THEOREM AttrsFrozenHolds == Spec => []AttrsFrozen
<1>1. Init => FrozenInv
  BY DEF Init, FrozenInv, AttrsFrozen
<1>2. FrozenInv => AttrsFrozen
  BY DEF FrozenInv
<1> QED
  BY <1>1, <1>2, NextFrozenInv, PTL DEF Spec

(* Inductive strengthening of CleanTeardown: while no Batching call has  *)
(* thrown, an initialised resource holds all 2 * BatchSize fake planes   *)
(* through stored arrays and an uninitialised one holds none; and the    *)
(* destructor leaves the resource uninitialised.                          *)
CleanInv ==
  /\ ~alive => ~initialized
  /\ ~failed => /\ ~crashed
                /\ initialized => fakeSet /\ planes = 2 * BatchSize
                /\ ~initialized => planes = 0

(* A Batching call that returns has either run Init with every cnrtMalloc *)
(* succeeding or found the resource initialised; a throw sets failed.     *)
LEMMA NextCleanInv == CleanInv /\ [Next]_vars => CleanInv'
<1> SUFFICES ASSUME CleanInv, [Next]_vars PROVE CleanInv'
  OBVIOUS
<1>1. ASSUME NEW fmt \in Formats, NEW g \in Geoms,
             NEW k \in 0 .. 2 * BatchSize, Batching(fmt, g, k)
      PROVE  CleanInv'
  <2> DEFINE a == [geom |-> g, cmode |-> CMode(fmt)]
  <2>1. alive /\ alive' = alive /\ crashed' = crashed /\ ~failed
    BY <1>1, BatchingArms
  <2>2. CASE held' = TRUE /\ failed' = TRUE /\ UNCHANGED initialized
    BY <2>1, <2>2 DEF CleanInv
  <2>3. CASE ~initialized /\ InitOp(a, k) /\ failed' = TRUE
    BY <2>1, <2>3 DEF CleanInv, InitOp
  <2>4. CASE /\ ~initialized /\ InitOp(a, k) /\ k = 2 * BatchSize
             /\ failed' = FALSE
    BY <2>1, <2>4 DEF CleanInv, InitOp
  <2>5. CASE /\ initialized /\ failed' = FALSE
             /\ UNCHANGED <<initialized, fakeSet, planes>>
    BY <2>1, <2>5 DEF CleanInv
  <2> QED
    BY <1>1, <2>2, <2>3, <2>4, <2>5, BatchingArms
<1>2. CASE Destruct
  <2>1. ~alive' /\ ~initialized' /\ failed' = failed
    BY <1>2 DEF Destruct, Destroy
  <2>2. CASE initialized
    <3>1. ~failed => crashed' = FALSE /\ planes' = 0
      BY <1>2, <2>2 DEF Destruct, Destroy, DeallocateFakeData, CleanInv
    <3> QED
      BY <2>1, <3>1 DEF CleanInv
  <2>3. CASE ~initialized
    BY <1>2, <2>1, <2>3 DEF Destruct, CleanInv
  <2> QED
    BY <2>2, <2>3
<1>3. CASE UNCHANGED vars
  BY <1>3 DEF vars, CleanInv
<1> QED
  BY <1>1, <1>2, <1>3 DEF Next

(* The engine's teardown of a context in which no Batching call threw    *)
(* frees, through ~RCOpResource and DeallocateFakeData, every fake plane *)
(* AllocateFakeData took on the device and never dereferences a null     *)
(* fake-plane array, for every batch size and every set of geometries.   *)
THEOREM CleanTeardownHolds == Spec => []CleanTeardown
<1>1. Init => CleanInv
  BY DEF Init, CleanInv
<1>2. CleanInv => CleanTeardown
  BY DEF CleanInv, CleanTeardown
<1> QED
  BY <1>1, <1>2, NextCleanInv, PTL DEF Spec

=============================================================================
