SPECIFICATION FormSpec
CONSTANTS
  ann = ann  bob = bob
  m1 = m1  m2 = m2
  v1 = v1  v2 = v2
  old = old  new = new
  Voters <- MCVoters
  Media <- MCMedia
  Nominated <- MCMedia
  CreatorOf <- MCCreatorOf
  NameOf <- MCNameOf
  Views <- MCViews
  Clicks = {c1, c2, c3}
  Bots = {old, new}
  BotOf <- MCBotOf
  Handled = {}
  MaxFaults = 0
  MaxForms = 1
  NoClick = NoClick  NoView = NoView  NoVoter = NoVoter  NoMedia = NoMedia
  NoForm = NoForm
INVARIANTS
  FormTypeOK
  ReopenedOnlyByForm
PROPERTY
  ResolvesOneState
SYMMETRY SymmetricClicks
CHECK_DEADLOCK FALSE
