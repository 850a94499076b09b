\* A click that reveals an input, a text that reveals a file input, an upload; the page moves,
\* covers, hides or replaces something once, blocks, and reacts in time or late.
CONSTANTS
  button = button
  field = field
  file = file
  Given <- PanelForm
  Shortcuts = FALSE
  Elements = {button, field, file}
  Looks <- PanelLooks
  Reveals <- PanelReveals
  WaitLists <- PanelWaits
  MaxPolls = 1
  MaxChanges = 1
SPECIFICATION FairSpec
INVARIANT ReachesTarget
INVARIANT EffectAttributed
INVARIANT WaitsMet
PROPERTY CaptureEnds
CHECK_DEADLOCK FALSE
