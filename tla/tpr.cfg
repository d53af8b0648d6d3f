SPECIFICATION Spec
CONSTANT kMaxServerId = 2
INVARIANTS
  IdPublished
  NothingAttachedBehind
  TimerStopped
PROPERTIES
  OwnDescriptors
  ShutdownReturns
