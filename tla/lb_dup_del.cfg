SPECIFICATION Spec
CONSTANTS
  Addr = {a1, a2}
  EmptyAddr = EmptyAddr
  Absent = Absent
  VipKey = {v1, v2}
  QuicId = {q1}
  Src = {s1}
  Weight = {1}
  RealFlag = {}
  VipFlag = {}
  MaxReals = 3
  MaxVips = 2
  VipDef <- OwnAddress
  MaxLpmSrcSize = 1
  ChRingSize = 2
  EnableCidV3 = FALSE
  Testing = TRUE
  SrcRouting = FALSE
  BpfMayFail = FALSE
  Liberties = {"dupDel"}
  MaxBatch = 2
  MaxRefCount = 3
SYMMETRY Symmetry
INVARIANT FreedRealHasNoVip
