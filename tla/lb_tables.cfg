SPECIFICATION Spec
CONSTANTS
  k1 = k1
  k1x = k1x
  k2 = k2
  bad = bad
  d1 = d1
  d2 = d2
  a4 = a4
  a6 = a6
  HcKey = {k1, k1x, k2, bad}
  HcKeyDef <- MCHcKeyDef
  BadAddress = BadAddress
  Somark = {m1, m2, m3}
  Dst4 = {a4, b4}
  Dst6 = {a6}
  Mac = {mac1, mac2}
  ConfigMac = mac1
  ConfigSrc <- MCConfigSrc
  Absent = Absent
  MaxVips = 3
  MaxReals = 2
  MaxDecapDst = 2
  EnableHc = TRUE
  Callers <- MCCallers
INVARIANTS HcNumberConservation MirrorsAgree ProbeFollowsTable HeadersAgree
