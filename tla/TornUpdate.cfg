SPECIFICATION Spec
CONSTANTS
  Procs = {p1, p2}
  Cli = cli
  NoOne = noone
  MaxGen = 2
  Publishes = TRUE
  Faults = {"torn"}
SYMMETRY Peers
INVARIANTS NoReplay
