\* Every order of calls on three unique_ids of two users, and on a pool of
\* five addresses whose callers release any address; every range of addresses;
\* every identity of a peer; unloading at any moment; two reloads that overlap,
\* beside the one reader the allocator's lock admits.  A peer is authenticated
\* once: no deadlock check.
SPECIFICATION TablesSpec
CONSTANTS
  StartH = 10
  EndH = 14
  Address = {8, 9, 10, 11, 12, 13, 14, 15}
  NULL = NULL
  s1 = s1
  s2 = s2
  s3 = s3
  alice = alice
  bob = bob
  Uid = {s1, s2, s3}
  User = {alice, bob}
  Chunk = {l1, l2, l3}
  LeaseIp = {1}
  UserOf <- MCUserOf
  Word = 64
  StringId = {"name1", "name2"}
  OtherId = {"addr"}
  Anon = "anon-1"
  Thread = {t1, t2, t3}
  Reader = {r1}
  Reloader = {p1, p2}
  MaxEdition = 2
CHECK_DEADLOCK FALSE
INVARIANTS
  UsedCountsBits
  ExhaustedOnlyWhenFull
  IndexesAgree
  LeasesOfTheirUser
  RangeFits
  OneNamePerSa
  RefsAreHolders
  FreedAfterLastUse
  QuietAfterUnregister
  PolicyTypeOK
  OneOwner
PROPERTIES
  UnloadEnds
  PluginFreed
  PolicyNeverGoesBack
  ReloadsEnd
