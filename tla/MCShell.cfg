SPECIFICATION FairSpec
CONSTANTS
  KeyParses = TRUE
  MaxRefused = 1
  MaxPolls = 1
INVARIANTS
  TypeOK
  OnlyMemoryCosts
  StatusComplete
  PanelsComplete
PROPERTIES
  PanelsAppear
  Reconnects
