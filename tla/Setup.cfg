SPECIFICATION FairSpec
CONSTANTS
  MaxRounds = 2
  MaxResults = 2
  e1 = e1
  e2 = e2
  e3 = e3
  Entries = {e1, e2, e3}
  BatchSize = 2
  MaxRuns = 2
  p1 = p1
  Providers = {p1}
  Listings <- Grants
  NoListing = NoListing
  NoChoice = NoChoice
  Blocks0 <- Before
INVARIANTS TypeOK StillListening PortReleased ProposedOnce ImportComplete OfferedIsRouted CredentialFirst ReviewConsented OneLineEach
PROPERTIES NeverHalfWritten LoginSettles
