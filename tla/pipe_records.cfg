SPECIFICATION Spec
CONSTANTS
  Client = {c1, c2}
  HdrSize = 2
  Lens = {1, 2}
  ReadBufSize = 3
  MaxRecords = 3
CHECK_DEADLOCK FALSE
INVARIANT WholeRecordsInOrder
PROPERTY RecordsArrive
