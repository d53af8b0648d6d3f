SPECIFICATION Spec
CONSTANTS
  Client = {c1, c2}
  Event = {e1, e2}
  Requests <- MCRequests
  kDefaultClientLimit = 1
  Limits = {2}
  CancelAnytime = FALSE
  MaxSends = 2
SYMMETRY Symmetry
CHECK_DEADLOCK FALSE
INVARIANT MapsAgree
PROPERTY NoEventAfterCancel
