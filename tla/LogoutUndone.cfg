SPECIFICATION Spec
CONSTANTS
  Procs = {p1, p2}
  Cli = cli
  NoOne = noone
  MaxGen = 2
  Publishes = FALSE
  Faults = {"nosave", "noretire"}
SYMMETRY Peers
INVARIANTS LogoutSticks
