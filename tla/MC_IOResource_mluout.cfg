CONSTANTS
  Engines = {e1, e2}
  Kinds = {"CpuInput", "CpuOutput", "MluInput", "MluOutput"}
  MaxTensors <- MCMaxTensors
SPECIFICATION Spec
INVARIANT FreedAsAllocated
CHECK_DEADLOCK FALSE
