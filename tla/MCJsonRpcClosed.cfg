\* Does a call return once the peer has closed the connection?
CONSTANTS
  Calls = {c1, c2}
  MaxEvents = 1
SPECIFICATION FairSpec
PROPERTY CallsReturn
CHECK_DEADLOCK FALSE
