SPECIFICATION FairSpec
CONSTANTS
  c1 = c1  c2 = c2
  KindsOf <- MCKindsOf
  Commands = {c1, c2}
  p1 = p1  p2 = p2
  ServedBy <- MCServedBy
  CompletedSets <- MCCompletedSets
  Accounts = {1, 2}
  Names = {1, 2, 3}
  FirstName <- MCFirstName
  Media = {1, 2, 3}
  Marked = {1, 2}
  MaxChanges = 2
  MaxFaults = 1
  Nobody = Nobody
  MetaUser = 0
INVARIANTS
  TypeOK
  RowIsAuthors
  TurnedAwayForName
  ComparesLikeWithLike
PROPERTY
  Answered
CHECK_DEADLOCK FALSE
