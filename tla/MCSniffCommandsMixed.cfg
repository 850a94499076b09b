\* A capture whose roots have children, some of them: its own reader refuses it.
CONSTANTS
  Category <- MCCategory
  Slim <- MCSlim
  Kept <- MCKept
  Physical <- MCPhysical
  Noise <- MCNoise
  Pages <- MCPages
  Elements <- MCElements
  Written <- WriteCapture
  Read <- ReadCapture
  NoText <- EmptyCapture
  Answer <- Computed
  Runs <- MCRuns
  BatchMax = 3
  MaxClimb = 12
  Deepest = 8
  Signature <- MCSignature
  RootSignature <- MCRootSignature
  RoleTags = {"BUTTON", "A"}
  TextTags = {"P", "BUTTON", "A"}
  InteractiveTags = {"BUTTON", "SUMMARY"}
  SvgTags = {"path"}
  KnownCategories = {"all", "layout", "visual"}
  MaxClock = 0
  TextLine <- MCTextLine
  Edits <- MCEdits
SPECIFICATION CommandsSpec
CHECK_DEADLOCK FALSE
INVARIANT CapturesLoad
