SPECIFICATION Spec
CONSTANTS
  Requests = {k1, k2, k3, k4, k5, k6}
  Addresses = {a1, a2}
  NoRequest = NoRequest
  NoAddress = NoAddress
  Burst = 2
  Tick = 2
  MaxNow = 4
SYMMETRY Symmetry
INVARIANTS
  WithinBurst
PROPERTIES
  NoNeedlessRefusal
CHECK_DEADLOCK FALSE
