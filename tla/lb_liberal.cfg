SPECIFICATION Spec
CONSTANTS
  Addr = {a1, a2, a3}
  EmptyAddr = EmptyAddr
  Absent = Absent
  VipKey = {v1, v2}
  QuicId = {q1}
  Src = {s1}
  Weight = {1}
  RealFlag = {}
  VipFlag = {}
  MaxReals = 3
  MaxVips = 2
  VipDef <- OwnAddress
  MaxLpmSrcSize = 2
  ChRingSize = 2
  EnableCidV3 = FALSE
  Testing = TRUE
  SrcRouting = FALSE
  BpfMayFail = FALSE
  Liberties = {"dupAdd", "dupDel", "remapQuic", "readdSrc", "aliasVip", "rehashDrained", "revalidateAny"}
  MaxBatch = 2
  MaxRefCount = 2
SYMMETRY Symmetry
INVARIANTS NumberConservation VipNumberConservation IndexAgrees
PROPERTY RealIdsSpec
