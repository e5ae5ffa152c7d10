\* Fair threads of one user who reconnects; every allocation may fail.
\* No symmetry: liveness.
SPECIFICATION FairSpec
CONSTANTS
  NULL = NULL
  Sweeper = Sweeper
  s1 = s1
  s2 = s2
  s3 = s3
  alice = alice
  bob = bob
  l1 = l1
  l2 = l2
  l3 = l3
  l4 = l4
  Uid = {s1, s2}
  User = {alice, bob}
  Chunk = {l1, l2, l3}
  UserOf <- MCUserOf
  StartH = 1
  EndH = 2
  Address = {1, 2}
  LeaseIp = {1, 2}
  Policies <- OnlyDynamic
  AnonPrefixed = {}
  ReloadRaces = FALSE
  AllocFails = TRUE
  SweepEnabled = TRUE
  OneSaPerUser = FALSE
  MaxAcquire = 1
INVARIANTS
  AddressesExclusive
  DestroyedByOne
  IndexesAgree
PROPERTIES
  LossesAreFailures
  CallsReturn
  OrphanReclaimed
