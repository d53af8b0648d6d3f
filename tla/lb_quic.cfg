SPECIFICATION Spec
CONSTANTS
  Addr = {a1, a2, a3}
  EmptyAddr = EmptyAddr
  Absent = Absent
  VipKey = {}
  QuicId = {q1, q2}
  Src = {s1}
  Weight = {1}
  RealFlag = {}
  VipFlag = {}
  MaxReals = 3
  MaxVips = 0
  VipDef <- OwnAddress
  MaxLpmSrcSize = 1
  ChRingSize = 2
  EnableCidV3 = TRUE
  Testing = FALSE
  SrcRouting = TRUE
  BpfMayFail = TRUE
  Liberties = {}
  MaxBatch = 2
  MaxRefCount = 4
SYMMETRY Symmetry
INVARIANTS QuicRouteCurrent
