SPECIFICATION FairSpec
CONSTANTS
  devices = devices
  log = log
  other = other
  card = card
  viewer = viewer
  None = None
  Tabs = {devices, log, other}
  PageTabs <- MCPageTabs
  Pollers = {card, viewer}
  Viewers = {viewer}
  TabOf <- MCTabOf
  MaxFlight = 2
INVARIANTS
  TypeOK
PROPERTIES
  FetchesInSight
  CatchesUp
  ShowsSomething
