SPECIFICATION FairSpec
CONSTANTS
  ann = ann  bob = bob
  m1 = m1  m2 = m2  m3 = m3
  v1 = v1  v2 = v2
  old = old  new = new
  Voters <- MCVoters
  Media <- MCMedia
  Nominated <- MCMedia
  CreatorOf <- MCCreatorOf
  NameOf <- MCNameOf
  Views <- MCViews
  Clicks = {c1, c2}
  Bots = {old, new}
  BotOf <- MCBotOf
  Handled = {}
  MaxFaults = 0
  NoClick = NoClick  NoView = NoView  NoVoter = NoVoter  NoMedia = NoMedia
PROPERTIES
  KeepsFairPromise
  Resolved
CHECK_DEADLOCK FALSE
