\* Two requests, one redirect: subscriptions before, between and after their starts, on a
\* page that may go on requesting for ever.
CONSTANTS
  Requests = {r1, r2}
  IdleTicks = 1
  GraceTicks = 1
  BudgetTicks = 3
  Capacity = 4
  MaxRedirects = 1
SPECIFICATION IdleFairSpec
INVARIANT CounterConservative
PROPERTY WaitEnds
CHECK_DEADLOCK FALSE
