SPECIFICATION Spec
CONSTANTS
  ann = ann  bob = bob
  m1 = m1  m2 = m2  m3 = m3
  v1 = v1  v2 = v2
  old = old  new = new
  Voters <- MCVoters
  Media <- MCMedia
  Nominated <- MCMedia
  CreatorOf <- MCCreatorOf
  NameOf <- MCNamesakes
  Views <- MCViews
  Clicks = {c1, c2, c3}
  Bots = {old, new}
  BotOf <- MCBotOf
  Handled = {m2}
  MaxFaults = 0
  NoClick = NoClick  NoView = NoView  NoVoter = NoVoter  NoMedia = NoMedia
INVARIANTS
  TypeOK
  HonestCount
  RevisionNeedsSecondClick
SYMMETRY SymmetricClicks
CHECK_DEADLOCK FALSE
