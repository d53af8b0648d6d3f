SPECIFICATION Spec
CONSTANTS
  Src = {"s1", "s2"}
  Port = {"p80", "p81"}
  Wildcard = "p0"
  VipPort = {"p0", "p80"}
  Configs <- MCConfigs
  Cpu = {"c1", "c2"}
  Forwarding = {"c1"}
  Arrivals <- MCArrivals
  Bucket <- MCBucket
  Capacity = 2
  kLruMaxLookups = 4
  Limits = {1}
  NoKey = NoKey
  ENOENT = ENOENT
  EOther = EOther
INVARIANT NothingMissed
PROPERTY WalksEnd
