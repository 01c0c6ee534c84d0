SPECIFICATION Spec
CONSTANTS
  MaxRounds = 1
  MaxResults = 1
  e1 = e1
  e2 = e2
  e3 = e3
  Entries = {e1}
  BatchSize = 1
  MaxRuns = 1
  p1 = p1
  Providers = {p1}
  Listings <- Grants
  NoListing = NoListing
  NoChoice = NoChoice
  Blocks0 <- Untouched
INVARIANTS ChecksAgree
