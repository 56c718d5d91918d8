SPECIFICATION FairSpec
CONSTANTS
  Docs = {d1, d2}
  Files = {f1}
  d1 = d1
  d2 = d2
  f1 = f1
  None = None
  MAX = 2
  Habits = {"lost", "overlap"}
INVARIANTS
  PageInv
  OneTimer
  PageIsCurrent
  SavedUnderItsName
PROPERTIES
  FollowedToTheEnd
  PollingStops
