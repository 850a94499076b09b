\* Captures one after the other or overlapping, any of them failing anywhere; one of the
\* server and one of the command line have a viewport.
CONSTANTS
  Captures = {c1, c2, c3}
  Sized = {c1, c2}
  Attached = {c1, c2}
  Acting = {c2, c3}
  Cli = {c1}
  MaxAdbFails = 1
SPECIFICATION Spec
INVARIANT ActsAtRealTime
INVARIANT OwnSizeWhileExtracting
INVARIANT SizeRestored
CHECK_DEADLOCK FALSE
