\* Two launches of one process of sniff.
CONSTANTS
  l1 = l1
  l2 = l2
  Launches = {l1, l2}
  Assigned <- MCAssigned
  PipeSize = 1
  MaxLines = 2
  Deadline = 1
  Polls = 2
SPECIFICATION ToolsSpec
INVARIANT NoStrays
INVARIANT ProfileKept
PROPERTY LaunchEnds
CHECK_DEADLOCK FALSE
