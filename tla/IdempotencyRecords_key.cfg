SPECIFICATION Spec
CONSTANTS
  r1 = r1
  r2 = r2
  r3 = r3
  b1 = b1
  b2 = b2
  None = None
  Requests <- ThreeRequests
  Bodies <- TwoBodies
  Lease = 2
  Retention = 3
  MaxTime = 4
  MaxFaults = 1
SYMMETRY Symmetry
CHECK_DEADLOCK FALSE
INVARIANTS
  TypeOK
  ReplayMatches
  OneExecutor
PROPERTIES
  OncePerWindow
  StableReplay
