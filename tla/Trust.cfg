SPECIFICATION FairSpec
CONSTANTS
  Identities <- Everyone
  Order <- MCOrder
  MaxSteps = 2
  MaxLists = 2
  Unread = Unread
  Me = "me"
  People = {"p"}
  Tokens = {1, 2}
  Ids = {1, 2, 3}
  Elsewhere = {0, 4}
  Signed <- Builders
  Wishes <- MCWishes
  Always = 9
  Starts <- MCStarts
CHECK_DEADLOCK FALSE
INVARIANTS BuildsKeepUp NewestNotShunned ChangesAccumulate
PROPERTY WordGetsOut
