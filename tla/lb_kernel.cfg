SPECIFICATION Spec
CONSTANTS
  Addr = {a1, a2}
  EmptyAddr = EmptyAddr
  Absent = Absent
  VipKey = {v1, v2}
  QuicId = {}
  Src = {s1}
  Weight = {1}
  RealFlag = {rf}
  VipFlag = {vf}
  MaxReals = 2
  MaxVips = 2
  VipDef <- OneAddress
  MaxLpmSrcSize = 1
  ChRingSize = 2
  EnableCidV3 = FALSE
  Testing = FALSE
  SrcRouting = TRUE
  BpfMayFail = TRUE
  Liberties = {}
  MaxBatch = 1
  MaxRefCount = 4
SYMMETRY Symmetry
INVARIANTS TypeOK KernelAgrees
