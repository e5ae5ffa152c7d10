\* Every document of the documented shape for two users, one of them named as
\* a keyword; one allocation may fail.  A file ends: no deadlock check.
SPECIFICATION YamlSpec
CONSTANTS
  NULL = NULL
  Name = {"alice", "ip"}
  ValidIp = {"a1", "a2"}
  Scalar = {"users", "pool", "ip", "start", "end", "alice", "a1", "a2"}
  MaxReplaced = 1
  MaxShort = 1
CHECK_DEADLOCK FALSE
INVARIANTS
  CountsUsers
  FollowsDocument
  LoadsWhatItSays
  HostsOwned
