SPECIFICATION Spec
CONSTANTS
  HdrMax = 16
  BufMax = 4
  KeyBytes = 1
  Logins <- MCLogins
  Digits <- MCDigits
INVARIANTS
  LoginExact
  KeyExact
