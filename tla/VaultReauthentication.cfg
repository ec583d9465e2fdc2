SPECIFICATION RuntimeSpec
CONSTANTS
  Margin = 5
  Retry = 1
  CallTime = 1
  TokenTtl = 9
  TokenLimit = 24
  LeaseTtl = 22
  LeaseLimit = 22
  MaxInstant = 20
  MaxGrants = 2
  MaxLeased = 2
INVARIANTS
  CredentialsWork
CHECK_DEADLOCK FALSE
