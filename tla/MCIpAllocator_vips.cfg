\* One IKE_SA per user at a time and no sweep job, each may ask twice; a fixed
\* address outside the pool that reloads assign and withdraw.
\* The system stops when every IKE_SA is dead.
SPECIFICATION Spec
CONSTANTS
  NULL = NULL
  Sweeper = Sweeper
  s1 = s1
  s2 = s2
  s3 = s3
  alice = alice
  bob = bob
  l1 = l1
  l2 = l2
  l3 = l3
  l4 = l4
  Uid = {s1, s2, s3}
  User = {alice, bob}
  Chunk = {l1, l2, l3}
  UserOf <- MCUserOf
  StartH = 1
  EndH = 2
  Address = {1, 2, 9}
  LeaseIp = {1, 2, 9}
  Policies <- FixedOutsideOrNot
  AnonPrefixed = {}
  ReloadRaces = FALSE
  AllocFails = FALSE
  SweepEnabled = FALSE
  OneSaPerUser = TRUE
  MaxAcquire = 2
SYMMETRY ChunkSymmetry
INVARIANTS
  VipsAreLeased
  NoSharedVip
  FixedOfTheirUser
PROPERTIES
  ImplementsAddressLeases
CHECK_DEADLOCK FALSE
