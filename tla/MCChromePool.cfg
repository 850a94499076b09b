\* Three calls for two permits.  Three false alarms are what it takes for each of two calls to hold
\* two browsers of its own: four run at once.
CONSTANTS
  Jobs = {j1, j2, j3}
  Permits = 2
  MaxBrowsers = 4
  MaxCrashes = 1
  MaxFalseAlarms = 3
SPECIFICATION FairSpec
INVARIANT PermitsConserved
INVARIANT BrowsersBounded
PROPERTY JobsFinish
CHECK_DEADLOCK FALSE
