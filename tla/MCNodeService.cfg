CONSTANTS
  None = None
SPECIFICATION Spec
INVARIANTS
  NodeTypeOK
  NodeIsWhole
PROPERTIES
  NothingOutlivesTheNode
  NodeNeverOutlivesConsensus
  BenchmarkTasksStop
CHECK_DEADLOCK FALSE
