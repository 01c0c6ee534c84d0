SPECIFICATION Spec
CONSTANTS
  Procs = {p1, p2}
  Cli = cli
  NoOne = noone
  MaxGen = 3
  Publishes = FALSE
  Faults = {"nosave"}
SYMMETRY Peers
INVARIANTS TypeOK NoReplay CleanDisk LogoutSticks SeenDetectsStale IInv
PROPERTIES SignInNotOverwritten KeptPairFate OneSignIn
