\* Logins, restores and saves in every order, one after the other or overlapping, with the
\* browser replaced in between.
CONSTANTS
  Captures = {a, b, c, d}
  Loads = {b, c}
  Saves = {a, c, d}
  LogsIn = {a, c, d}
  Renavigates = {a, c}
  MaxRelaunches = 1
SPECIFICATION Spec
INVARIANT RestoredLoginSeen
PROPERTY LoginSaved
CHECK_DEADLOCK FALSE
