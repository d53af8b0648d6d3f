SPECIFICATION Spec
CONSTANTS
  Addr = {a1, a2, a3}
  EmptyAddr = EmptyAddr
  Absent = Absent
  VipKey = {v1, v2}
  QuicId = {q1}
  Src = {s1}
  Weight = {0, 1}
  RealFlag = {}
  VipFlag = {}
  MaxReals = 3
  MaxVips = 2
  VipDef <- OwnAddress
  MaxLpmSrcSize = 1
  ChRingSize = 1
  EnableCidV3 = FALSE
  Testing = TRUE
  SrcRouting = FALSE
  BpfMayFail = FALSE
  Liberties = {}
  MaxEndpoints = 3
  MaxWeight = 3
  MaxRingSize = 7
  MaxBatch = 2
  MaxRefCount = 4
SYMMETRY Symmetry
INVARIANTS NoDangling RefCountExact NoCrash RingServesVip MakesRing
