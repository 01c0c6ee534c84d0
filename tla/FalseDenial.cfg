SPECIFICATION Spec
CONSTANTS
  a = a
  b = b
  c = c
  s1 = s1
  s2 = s2
  s3 = s3
  None = None
  Calls = {a, b}
  Batches <- Twins
  Sessions = {s1, s2}
  Faults <- ConnectOnly
  Parallel = TRUE
INVARIANTS NoFalseDenial
SYMMETRY TwinsAlike
CHECK_DEADLOCK FALSE
