\* The captures of lists, layers, nested boxes and colours, diffed and checked; the captures asked for.
CONSTANTS
  Category <- MCCategory
  Slim <- MCSlim
  Kept <- MCKept
  Physical <- MCPhysical
  Noise <- MCNoise
  Pages <- MCPages
  Elements <- MCElements
  Written <- WriteCapture
  Read <- ReadCapture
  NoText <- EmptyCapture
  Answer <- Computed
  Runs <- AllRuns
  BatchMax = 3
  MaxClimb = 12
  Deepest = 8
  Signature <- MCSignature
  RootSignature <- MCRootSignature
  RoleTags = {"BUTTON", "A"}
  TextTags = {"P", "BUTTON", "A"}
  InteractiveTags = {"BUTTON", "SUMMARY"}
  SvgTags = {"path"}
  KnownCategories = {"all", "layout", "visual"}
  MaxClock = 1
  TextLine <- MCTextLine
  Edits <- MCEdits
SPECIFICATION CommandsSpec
INVARIANT RoundTrip
INVARIANT SelectorsUnique
INVARIANT BackgroundsAgree
INVARIANT BatchIsolated
INVARIANT PayloadReachable
INVARIANT ChecksSound
INVARIANT DiffSound
INVARIANT EffectsTruthful
INVARIANT SurfacesAgree
INVARIANT BlockManaged
CHECK_DEADLOCK FALSE
