-------------------------- MODULE IOResource_proofs --------------------------
(***************************************************************************)
(* Proofs about the tensor storage of the engines: without the Mlu       *)
(* output kind, whose Deallocate frees InputNum buffers, every resource  *)
(* frees exactly what it allocated, for every set of engines and every    *)
(* model size.                                                             *)
(***************************************************************************)
EXTENDS IOResource, TLAPS

(* Inductive strengthening of FreedAsAllocated: a resource not allocated *)
(* yet, or freed, holds nothing; an allocated one holds one buffer per    *)
(* tensor of its kind, for the model that stays loaded.                   *)
HeldInv ==
  /\ TypeOK
  /\ \A r \in Res :
       held[r] = IF state[r] = "allocated" THEN TensorNum(r[2]) ELSE 0

LEMMA InitHeldInv == Init => HeldInv
BY DEF Init, HeldInv, TypeOK

(* Allocate takes one buffer per tensor; Deallocate of every kind but    *)
(* MluOutput frees as many as the kind allocated: the whole block for the *)
(* Cpu kinds, InputNum buffers for the Mlu input kind.                    *)
LEMMA NextHeldInv ==
  ASSUME "MluOutput" \notin Kinds
  PROVE  HeldInv /\ [Next]_vars => HeldInv'
<1> SUFFICES ASSUME HeldInv, [Next]_vars PROVE HeldInv'
  OBVIOUS
<1>1. ASSUME NEW r \in Res, Allocate(r) PROVE HeldInv'
  <2>1. TensorNum(r[2]) \in Int
    BY ResourceAssumption DEF HeldInv, TypeOK, TensorNum
  <2>2. held' = [held EXCEPT ![r] = TensorNum(r[2])]
        /\ state' = [state EXCEPT ![r] = "allocated"] /\ model' = model
    BY <1>1 DEF Allocate
  <2> QED
    BY <2>1, <2>2 DEF HeldInv, TypeOK, TensorNum
<1>2. ASSUME NEW r \in Res, Deallocate(r) PROVE HeldInv'
  <2>1. r[2] \in {"CpuInput", "CpuOutput", "MluInput"}
    BY ResourceAssumption DEF Res
  <2>2. held[r] - FreeCount(r[2], held[r]) = 0
    BY <1>2, <2>1 DEF Deallocate, HeldInv, TypeOK, FreeCount, TensorNum,
                      InputKinds
  <2>3. held' = [held EXCEPT ![r] = 0] /\ state' = [state EXCEPT ![r] = "freed"]
        /\ model' = model
    BY <1>2, <2>2 DEF Deallocate, HeldInv, TypeOK
  <2> QED
    BY <2>3 DEF HeldInv, TypeOK, TensorNum
<1>3. CASE UNCHANGED vars
  BY <1>3 DEF vars, HeldInv, TypeOK, TensorNum
<1> QED
  BY <1>1, <1>2, <1>3 DEF Next

(* With the Cpu kinds and the Mlu input kind, a resource's Deallocate    *)
(* frees exactly the buffers its Allocate took, for every model: no      *)
(* buffer leaks and FreeArrayMlu reads no pointer past the array. The    *)
(* Mlu output kind is excluded: it frees InputNum buffers, as the run    *)
(* ioresource_mluout shows.                                                *)
THEOREM FreedAsAllocatedHolds ==
  "MluOutput" \notin Kinds => (Spec => []FreedAsAllocated)
<1> SUFFICES ASSUME "MluOutput" \notin Kinds PROVE Spec => []FreedAsAllocated
  OBVIOUS
<1>1. HeldInv => FreedAsAllocated
  BY DEF HeldInv, FreedAsAllocated
<1>2. HeldInv /\ [Next]_vars => HeldInv'
  BY NextHeldInv
<1> QED
  BY <1>1, <1>2, InitHeldInv, PTL DEF Spec

=============================================================================
