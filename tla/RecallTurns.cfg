SPECIFICATION FairSpec
CONSTANTS
  owner = owner
  member = member
  m1 = m1
  NoId = NoId
  LocalPlatforms <- Local
  Owners <- Listing
  Idents <- SharedIdents
  Authors <- Everyone
  Ids = {m1}
  RecallOn = TRUE
  DigestOn = TRUE
  RefusesQuery = TRUE
  DigestMax = 6
  HitsMax = 1
  Interval = 2
  Room = 8
  MaxQueue = 2
INVARIANTS TypeOK InjectedOnce NothingDropped NudgeEarned SilenceExplained OwnerOnly
PROPERTIES DigestKept DigestArrives
