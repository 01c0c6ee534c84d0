SPECIFICATION Spec
CONSTANTS
  a = a
  b = b
  c = c
  s1 = s1
  s2 = s2
  s3 = s3
  None = None
  Calls = {a, b, c}
  Batches <- PairAndOne
  Sessions = {s1, s2, s3}
  Faults <- SharedFaults
  Parallel = TRUE
INVARIANTS NoSessionLeaks DenialIsShared
SYMMETRY AlikePair
CHECK_DEADLOCK FALSE
