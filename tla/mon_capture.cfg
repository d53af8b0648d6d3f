SPECIFICATION Spec
CONSTANTS
  Event = {e1, e2}
  Storages = {"FILE", "IOBUF", "PIPE"}
  Pipe = {p1}
  PipesOf <- MCPipesOf
  NoPipe = NoPipe
  QueueSize = 2
  PcktLimit = 2
  BufferSize = 4
  Limits = {1}
  OwnerCalls = {"stop", "restart", "reset", "enable", "disable", "set", "unset", "destroy"}
  MaxPackets = 2
  MaxGaps = 5
  MaxCalls = 3
CHECK_DEADLOCK FALSE
INVARIANTS TypeOK CaptureWellFormed AmountMatchesCapture BufferBound PipeFramed
PROPERTIES CallsReturn ShutdownEnds
