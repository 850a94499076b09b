\* Two server captures of a target and a CLI capture of the same one, over two seconds.
CONSTANTS
  a1 = a1
  a2 = a2
  b1 = b1
  c1 = c1
  c2 = c2
  Mcp = {a1, a2}
  Cli = {c1}
  TargetOf <- MCTargetOf
  BlocksOf <- MCBlocksOf
  MaxSeconds = 1
SPECIFICATION Spec
INVARIANT AtomicAlone
INVARIANT HandleHolds
CHECK_DEADLOCK FALSE
