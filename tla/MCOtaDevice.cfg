SPECIFICATION FairSpec
CONSTANTS
  good = good
  crash = crash
  offline = offline
  unsigned = unsigned
  unsigned_crash = unsigned_crash
  Images = {good, crash, offline, unsigned, unsigned_crash}
  Signed = {good, crash, offline}
  Crashing = {crash, unsigned_crash}
  Offline = {offline}
  Shipped = good
  Erased = Erased
  Partial = Partial
INVARIANTS
  TypeOK
  ConfirmedGood
  SignedBoots
PROPERTIES
  KeepsLastGood
  ConfirmsRunning
  RollsBack
  Settles
  AcceptedBoots
