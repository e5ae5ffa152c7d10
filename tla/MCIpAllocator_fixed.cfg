\* A fixed address inside the pool, reloads, also while it is copied, alice
\* connected twice, no sweep job.
SPECIFICATION Spec
CONSTANTS
  NULL = NULL
  Sweeper = Sweeper
  s1 = s1
  s2 = s2
  s3 = s3
  alice = alice
  bob = bob
  l1 = l1
  l2 = l2
  l3 = l3
  l4 = l4
  Uid = {s1, s2, s3}
  User = {alice, bob}
  Chunk = {l1, l2, l3}
  UserOf <- MCUserOf
  StartH = 1
  EndH = 2
  Address = {1, 2}
  LeaseIp = {1, 2}
  Policies <- FixedOrNot
  AnonPrefixed = {}
  ReloadRaces = TRUE
  AllocFails = FALSE
  SweepEnabled = FALSE
  OneSaPerUser = FALSE
  MaxAcquire = 1
SYMMETRY ChunkSymmetry
INVARIANTS
  IpTypeOK
  AddressesExclusive
  NoLeakedAddress
