SPECIFICATION FairSpec
CONSTANTS
  at = at
  reset = reset
  Blank = Blank
  Cmds = {at, reset}
  HistorySize = 2
  MaxSent = 5
INVARIANTS
  TypeOK
  HistoryInOrder
PROPERTY Unblocks
