\* Two sessions on one connection, a channel that two unread events fill.
CONSTANTS
  Pages = {p1, p2}
  Capacity = 2
  MaxNoise = 1
SPECIFICATION FairSpec
INVARIANT LoadedIsOwnNavigation
PROPERTY TimeoutsHonest
PROPERTY NavigationEnds
CHECK_DEADLOCK FALSE
