------------------------------ MODULE IOResource ------------------------------
(***************************************************************************)
(* The tensor storage of the inference engines (infer_resource.cpp): the  *)
(* four IOResource kinds allocate, for the model the Inferencer loaded,   *)
(* one buffer per input (or output) tensor, and free them again when the  *)
(* resource is destroyed.                                                  *)
(*                                                                         *)
(* The Cpu kinds allocate the tensors of the model in one host block      *)
(* (AllocCpuInput / AllocCpuOutput) and free the block as a whole; the    *)
(* Mlu kinds allocate an array of device buffers, one per tensor          *)
(* (AllocMluInput / AllocMluOutput), and free it with FreeArrayMlu(ptrs,  *)
(* n), which frees the first n buffers of the array. Each engine          *)
(* (InferContext) owns its own resources; all share the model loaded by   *)
(* Inferencer::Open. Buffers are counted, not named.                       *)
(***************************************************************************)
EXTENDS Integers

CONSTANTS
  Engines,     \* the engines (one per InferContext) owning resources
  Kinds,       \* the resource kinds the engines build
  MaxTensors   \* bound: tensors of a model input or output

ASSUME ResourceAssumption ==
  /\ Kinds \subseteq {"CpuInput", "CpuOutput", "MluInput", "MluOutput"}
  /\ MaxTensors \in Nat \ {0}

InputKinds == {"CpuInput", "MluInput"}

VARIABLES
  model,       \* InputNum and OutputNum of the loaded model
  state,       \* each resource: "none", "allocated" or "freed"
  held         \* buffers each resource allocated and has not freed

vars == <<model, state, held>>

Res == Engines \X Kinds

TypeOK ==
  /\ model \in [in : 1 .. MaxTensors, out : 1 .. MaxTensors]
  /\ state \in [Res -> {"none", "allocated", "freed"}]
  /\ held \in [Res -> Int]

Init ==
  /\ model \in [in : 1 .. MaxTensors, out : 1 .. MaxTensors]
  /\ state = [r \in Res |-> "none"]
  /\ held = [r \in Res |-> 0]

-----------------------------------------------------------------------------
(* The tensors Allocate sets up: value.datas.resize(input_num) and one   *)
(* buffer per input for the input kinds, output_num for the output kinds. *)
TensorNum(k) == IF k \in InputKinds THEN model.in ELSE model.out

(* Mutant of FreeCount: MluInputResource frees output_num buffers.       *)
FreeCountOutputNum(k, n) ==
  CASE k \in {"CpuInput", "CpuOutput"} -> n
    [] k = "MluInput"                  -> model.out
    [] k = "MluOutput"                 -> model.in

(* The buffers Deallocate frees of a resource holding n: the Cpu kinds   *)
(* free the whole block (FreeCpuInput / FreeCpuOutput); both Mlu kinds    *)
(* call FreeArrayMlu(value.ptrs, input_num), with input_num =             *)
(* model->InputNum().                                                       *)
FreeCount(k, n) ==
  CASE k \in {"CpuInput", "CpuOutput"} -> n
    [] k = "MluInput"                  -> model.in
    [] k = "MluOutput"                 -> model.in

(* <Kind>Resource::Allocate for resource r = <<engine, kind>>.           *)
Allocate(r) ==
  /\ state[r] = "none"
  /\ state' = [state EXCEPT ![r] = "allocated"]
  /\ held' = [held EXCEPT ![r] = TensorNum(r[2])]
  /\ UNCHANGED model

(* <Kind>Resource::Deallocate: value.ptrs is set, so the buffers are     *)
(* freed.                                                                   *)
Deallocate(r) ==
  /\ state[r] = "allocated"
  /\ state' = [state EXCEPT ![r] = "freed"]
  /\ held' = [held EXCEPT ![r] = @ - FreeCount(r[2], @)]
  /\ UNCHANGED model

Next == \E r \in Res : Allocate(r) \/ Deallocate(r)

Spec == Init /\ [][Next]_vars

-----------------------------------------------------------------------------
(* Every buffer a resource allocated for the model's tensors is freed by  *)
(* its Deallocate, and no buffer beyond those: no device memory leaks and *)
(* FreeArrayMlu never reads past the pointer array, whatever the numbers  *)
(* of inputs and outputs of the model.                                     *)
FreedAsAllocated ==
  \A r \in Res : state[r] = "freed" => held[r] = 0

=============================================================================
