SPECIFICATION FairSpec
CONSTANTS
  a = a
  b = b
  c = c
  s1 = s1
  s2 = s2
  s3 = s3
  None = None
  Calls = {a, b}
  Batches <- Twins
  Sessions = {s1, s2}
  Faults <- PromptFaults
  Parallel = FALSE
INVARIANTS TypeOK NoSessionLeaks
PROPERTIES KeepsPromise EveryCallAnswered
CHECK_DEADLOCK FALSE
