SPECIFICATION FairSpec
CONSTANTS
  Procs = {p1}
  Cli = cli
  NoOne = noone
  MaxGen = 2
  Publishes = TRUE
  Faults = {"nosave", "noretire", "nounlink", "noforget", "crash", "torn", "garbled"}
INVARIANTS SeenDetectsStale
PROPERTIES RefusedNotPresented FenceReleased TaskEnds
