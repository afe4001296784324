\* Both behaviours: two adders that compete for room, two takers.  Under fairness.
CONSTANTS
  Adders = {p1, p2}
  Takers = {t1, t2}
  Items = {w, x, y, z}
  Behaviors = {"THROW", "BLOCK"}
  Capacity = 3
  NoItem = NoItem
  MaxSem = 1
SPECIFICATION FairSpec
INVARIANTS NoSleepOnWork
PROPERTIES EveryItemTaken
