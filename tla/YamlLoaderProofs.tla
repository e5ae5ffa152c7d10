-------------------------- MODULE YamlLoaderProofs --------------------------
(***************************************************************************)
(* Proofs about YamlLoader and the table it fills, for every set of names, *)
(* addresses and scalars and documents of any length.  What the loader     *)
(* owns is right wherever it thinks it is, and the content is right        *)
(* because it follows the document while memory lasts.                     *)
(***************************************************************************)
EXTENDS YamlLoader, FiniteSetTheorems, TLAPS

(* Where the document is determines what it can be looking at. *)
DocumentOK ==
  /\ where = "user" <=> who # NULL
  /\ where \in {"before", "after"} => key = NULL
  /\ where = "users" => key \in Name \cup {NULL}

(* Also when keys were forgotten the loader is no deeper than the document, *)
(* and what it holds is the last key or nothing.                           *)
PositionOK ==
  /\ st \in {"S_USERS", "S_POOL"} => where \in {"users", "user", "pool"}
  /\ st = "S_USER" => where = "user" /\ cur_user \in Name
  /\ key # NULL => pending \in {NULL, key}
  /\ where = "before" => pending = NULL

TableOK == IsFiniteSet(Entries) /\ CountsUsers

LoaderInv == LoaderTypeOK /\ TableOK /\ HostsOwned

FileInv == FileTypeOK /\ DocumentOK /\ PositionOK /\ FollowsDocument

YamlInv == LoaderInv /\ FileInv /\ LoadsWhatItSays

LEMMA LoaderConstants ==
  /\ NULL \notin Scalar /\ NULL \notin Name /\ NULL \notin ValidIp
  /\ Name \subseteq Scalar /\ ValidIp \subseteq Scalar
  /\ {"users", "pool", "ip", "start", "end"} \subseteq Scalar
  /\ MaxReplaced \in Nat /\ MaxShort \in Nat /\ Wrong \notin ValidIp
BY LoaderAssumption

LEMMA HostOfType == ASSUME NEW v PROVE HostOf(v) \in ValidIp \cup {NULL}
BY DEF HostOf

LEMMA OneType == ASSUME NEW b PROVE One(b) \in {0, 1}
BY DEF One

-----------------------------------------------------------------------------
(* fixed_pool.c *)

(* add makes n an entry, counts it if it was none, and changes no other.   *)
LEMMA AddOK ==
  ASSUME FixedTypeOK, TableOK, LoaderAssumption, NEW n \in Name, NEW ip \in ValidIp, add(n, ip)
  PROVE  /\ FixedTypeOK' /\ TableOK'
         /\ users' = [users EXCEPT ![n] = ip]
         /\ Cardinality(Entries') = Cardinality(Entries) + One(lookup(n) = NULL)
<1>1. FixedTypeOK' /\ users' = [users EXCEPT ![n] = ip]
  BY DEF add, FixedTypeOK
<1>2. Entries' = Entries \cup {n}
  BY <1>1, LoaderConstants DEF Entries, FixedTypeOK
<1>3. n \in Entries <=> lookup(n) # NULL
  BY DEF Entries, lookup
<1>4. /\ IsFiniteSet(Entries \cup {n})
      /\ Cardinality(Entries \cup {n})
           = IF n \in Entries THEN Cardinality(Entries) ELSE Cardinality(Entries) + 1
  BY FS_AddElement DEF TableOK
<1>5. Cardinality(Entries) \in Nat
  BY FS_CardinalityType DEF TableOK
<1>6. count' = Cardinality(Entries')
  BY <1>2, <1>3, <1>4 DEF add, TableOK, CountsUsers
<1>7. Cardinality(Entries') = Cardinality(Entries) + One(lookup(n) = NULL)
  BY <1>2, <1>3, <1>4, <1>5 DEF One
<1>. QED  BY <1>1, <1>2, <1>4, <1>6, <1>7 DEF TableOK, CountsUsers

(* The empty table. *)
LEMMA EmptyTableOK ==
  ASSUME FixedDestroy
  PROVE  FixedTypeOK' /\ TableOK' /\ Entries' = {} /\ users' = [n \in Name |-> NULL]
<1>1. Entries' = {}
  BY DEF FixedDestroy, Entries
<1>. QED  BY <1>1, FS_EmptySet DEF FixedDestroy, FixedTypeOK, TableOK, CountsUsers

LEMMA TableUnchangedOK ==
  ASSUME UNCHANGED fixedVars, FixedTypeOK, TableOK
  PROVE  FixedTypeOK' /\ TableOK' /\ Entries' = Entries
BY DEF fixedVars, FixedTypeOK, TableOK, Entries, CountsUsers

LEMMA YamlInitOK == YamlInit => YamlInv
<1>. SUFFICES ASSUME YamlInit PROVE YamlInv
  OBVIOUS
<1>1. Entries = {}
  BY DEF YamlInit, FixedInit, Entries
<1>2. TableOK /\ Cardinality(Entries) = 0
  BY <1>1, FS_EmptySet DEF TableOK, CountsUsers, YamlInit, FixedInit
<1>3. LoaderTypeOK /\ FileTypeOK
  BY LoaderConstants DEF YamlInit, FixedInit, LoaderTypeOK, FileTypeOK, FixedTypeOK
<1>4. DocumentOK /\ PositionOK /\ FollowsDocument /\ LoadsWhatItSays
  BY DEF YamlInit, FixedInit, DocumentOK, PositionOK, FollowsDocument, LoadsWhatItSays, Endpoint
<1>5. HostsOwned
  BY <1>2 DEF YamlInit, HostsOwned, Owned, One
<1>. QED  BY <1>2, <1>3, <1>4, <1>5 DEF YamlInv, LoaderInv, FileInv

-----------------------------------------------------------------------------
(* What the loader owns *)

(* A step that loads nothing leaves it right. *)
LEMMA NothingLoadedOK ==
  ASSUME LoaderInv, LoaderTypeOK', UNCHANGED <<fixedVars, pool_start, pool_end, hosts, replaced>>
  PROVE  LoaderInv'
<1>1. TableOK' /\ Entries' = Entries
  BY TableUnchangedOK DEF LoaderInv, LoaderTypeOK
<1>2. HostsOwned'
  BY <1>1 DEF LoaderInv, HostsOwned, Owned
<1>. QED  BY <1>1, <1>2 DEF LoaderInv

LEMMA OwnedParts ==
  ASSUME LoaderInv
  PROVE  /\ Cardinality(Entries) \in Nat /\ replaced \in Nat /\ hosts \in Nat /\ short \in Nat
         /\ hosts = Cardinality(Entries) + One(pool_start # NULL) + One(pool_end # NULL) + replaced
         /\ One(pool_start # NULL) \in {0, 1} /\ One(pool_end # NULL) \in {0, 1}
BY FS_CardinalityType, OneType DEF LoaderInv, LoaderTypeOK, TableOK, HostsOwned, Owned

(* The address of a user joins the table, or replaces one there. *)
LEMMA UserPairOK ==
  ASSUME LoaderInv, cur_user \in Name, NEW ip \in ValidIp \cup {NULL}, user_pair(ip)
  PROVE  FixedTypeOK' /\ TableOK' /\ HostsOwned' /\ hosts' \in Nat
<1>1. CASE GivesAddress /\ ip # NULL
  <2>1. ip \in ValidIp /\ add(cur_user, ip) /\ hosts' = hosts + One(lookup(cur_user) = NULL)
    BY <1>1 DEF user_pair
  <2>2. /\ FixedTypeOK' /\ TableOK'
        /\ Cardinality(Entries') = Cardinality(Entries) + One(lookup(cur_user) = NULL)
    BY <2>1, AddOK, LoaderAssumption DEF LoaderInv, LoaderTypeOK
  <2>3. One(lookup(cur_user) = NULL) \in Nat
    BY OneType
  <2>4. UNCHANGED <<pool_start, pool_end, replaced>>
    BY DEF user_pair
  <2>5. HostsOwned' /\ hosts' \in Nat
    BY <2>1, <2>2, <2>3, <2>4, OwnedParts DEF HostsOwned, Owned
  <2>. QED  BY <2>2, <2>5
<1>2. CASE ~(GivesAddress /\ ip # NULL)
  <2>1. UNCHANGED <<fixedVars, hosts, pool_start, pool_end, replaced>>
    BY <1>2 DEF user_pair
  <2>2. FixedTypeOK' /\ TableOK' /\ Entries' = Entries
    BY <2>1, TableUnchangedOK DEF LoaderInv, LoaderTypeOK
  <2>. QED  BY <2>1, <2>2, OwnedParts DEF HostsOwned, Owned
<1>. QED  BY <1>1, <1>2

(* An end of the pool is set; one that was there is counted as lost. *)
LEMMA PoolPairOK ==
  ASSUME LoaderInv, NEW ip \in ValidIp \cup {NULL}, pool_pair(ip)
  PROVE  /\ FixedTypeOK' /\ TableOK' /\ HostsOwned' /\ hosts' \in Nat
         /\ pool_start' \in ValidIp \cup {NULL} /\ pool_end' \in ValidIp \cup {NULL}
         /\ replaced' \in 0 .. MaxReplaced
<1>1. FixedTypeOK' /\ TableOK' /\ Entries' = Entries
  BY TableUnchangedOK DEF pool_pair, LoaderInv, LoaderTypeOK
<1>2. /\ pool_start' \in ValidIp \cup {NULL} /\ pool_end' \in ValidIp \cup {NULL}
      /\ hosts' \in Nat /\ replaced' \in 0 .. MaxReplaced
  BY OwnedParts, OneType, LoaderConstants DEF pool_pair, LoaderInv, LoaderTypeOK
<1>3. HostsOwned'
  BY <1>1, OwnedParts DEF pool_pair, HostsOwned, Owned, Overwrites, One, Endpoint
<1>. QED  BY <1>1, <1>2, <1>3

(* Whatever the loader takes a scalar for. *)
LEMMA OnScalarOK ==
  ASSUME LoaderInv, PositionOK, NEW v \in Scalar, on_scalar(v) PROVE LoaderInv'
<1>1. CASE pending = NULL
  <2>1. PICK copy \in {v, NULL} : pending' = copy /\ Allocates(copy = v)
    BY <1>1 DEF on_scalar
  <2>2. short' \in 0 .. MaxShort
    BY <2>1, OneType, OwnedParts, LoaderConstants DEF Allocates
  <2>3. UNCHANGED <<fixedVars, st, cur_user, rc, pool_start, pool_end, hosts, replaced>>
    BY <1>1 DEF on_scalar
  <2>4. LoaderTypeOK'
    BY <2>1, <2>2, <2>3 DEF LoaderInv, LoaderTypeOK, FixedTypeOK, fixedVars
  <2>. QED  BY <2>3, <2>4, NothingLoadedOK
<1>2. CASE pending # NULL
  <2>1. PICK ip \in {HostOf(v)} \cup (IF CreatesHost THEN {NULL} ELSE {}) :
          /\ Allocates(ip = HostOf(v))
          /\ CASE st = "S_USER" -> user_pair(ip)
               [] st = "S_POOL" -> pool_pair(ip)
               [] OTHER -> UNCHANGED <<fixedVars, pool_start, pool_end, hosts, replaced>>
    BY <1>2 DEF on_scalar
  <2>2. ip \in ValidIp \cup {NULL}
    BY HostOfType
  <2>3. short' \in 0 .. MaxShort
    BY <2>1, OneType, OwnedParts, LoaderConstants DEF Allocates
  <2>4. pending' = NULL /\ UNCHANGED <<st, cur_user, rc>>
    BY <1>2 DEF on_scalar
  <2>5. CASE st = "S_USER"
    <3>1. user_pair(ip)
      BY <2>1, <2>5
    <3>2. FixedTypeOK' /\ TableOK' /\ HostsOwned' /\ hosts' \in Nat
      BY <2>2, <2>5, <3>1, UserPairOK DEF PositionOK
    <3>. QED  BY <2>3, <2>4, <3>1, <3>2 DEF user_pair, LoaderInv, LoaderTypeOK
  <2>6. CASE st = "S_POOL"
    <3>1. pool_pair(ip)
      BY <2>1, <2>6
    <3>. QED  BY <2>2, <2>3, <2>4, <3>1, PoolPairOK DEF LoaderInv, LoaderTypeOK
  <2>7. CASE st \notin {"S_USER", "S_POOL"}
    <3>1. UNCHANGED <<fixedVars, pool_start, pool_end, hosts, replaced>>
      BY <2>1, <2>7
    <3>2. LoaderTypeOK'
      BY <2>3, <2>4, <3>1 DEF LoaderInv, LoaderTypeOK, FixedTypeOK, fixedVars
    <3>. QED  BY <3>1, <3>2, NothingLoadedOK
  <2>. QED  BY <2>5, <2>6, <2>7
<1>. QED  BY <1>1, <1>2

-----------------------------------------------------------------------------
(* Steps that load nothing *)

LEMMA MappingStartOK == ASSUME YamlInv, mapping_start PROVE YamlInv'
<1>. USE LoaderConstants DEF YamlInv, FileInv
<1>1. LoaderTypeOK'
  <2>1. st = "S_USERS" /\ pending # NULL => pending \in Name
    BY DEF mapping_start, PositionOK, DocumentOK
  <2>. QED  BY <2>1 DEF mapping_start, on_mapping_start, KeyInside, LoaderInv, LoaderTypeOK,
                       FixedTypeOK, fixedVars, historyVars
<1>2. LoaderInv'
  BY <1>1, NothingLoadedOK DEF mapping_start, on_mapping_start, historyVars
<1>3. FileTypeOK' /\ DocumentOK'
  BY DEF mapping_start, Opens, DocumentOK, FileTypeOK
<1>4. PositionOK'
  BY DEF mapping_start, Opens, on_mapping_start, KeyInside, DocumentOK, PositionOK, FileTypeOK,
         LoaderInv, LoaderTypeOK
<1>5. FollowsDocument'
  BY DEF mapping_start, Opens, on_mapping_start, KeyInside, DocumentOK, FollowsDocument,
         historyVars
<1>6. LoadsWhatItSays'
  BY DEF mapping_start, on_mapping_start, LoadsWhatItSays, fixedVars, historyVars
<1>. QED  BY <1>2, <1>3, <1>4, <1>5, <1>6

LEMMA MappingEndOK == ASSUME YamlInv, mapping_end PROVE YamlInv'
<1>. USE LoaderConstants DEF YamlInv, FileInv
<1>1. LoaderTypeOK'
  BY DEF mapping_end, on_mapping_end, LoaderInv, LoaderTypeOK, FixedTypeOK, fixedVars,
         historyVars
<1>2. LoaderInv'
  BY <1>1, NothingLoadedOK DEF mapping_end, on_mapping_end, historyVars
<1>3. FileTypeOK' /\ DocumentOK'
  BY DEF mapping_end, DocumentOK, FileTypeOK
<1>4. PositionOK'
  BY DEF mapping_end, on_mapping_end, PositionOK, FileTypeOK, LoaderInv, LoaderTypeOK
<1>5. FollowsDocument'
  BY DEF mapping_end, on_mapping_end, DocumentOK, FollowsDocument, FileTypeOK, historyVars
<1>6. LoadsWhatItSays'
  BY DEF mapping_end, on_mapping_end, LoadsWhatItSays, fixedVars, historyVars
<1>. QED  BY <1>2, <1>3, <1>4, <1>5, <1>6

LEMMA StreamEndOK == ASSUME YamlInv, stream_end PROVE YamlInv'
<1>. USE LoaderConstants DEF YamlInv, FileInv, fileVars
<1>1. LoaderTypeOK'
  BY DEF stream_end, on_stream_end, LoaderInv, LoaderTypeOK, FixedTypeOK, fixedVars, historyVars
<1>2. LoaderInv'
  BY <1>1, NothingLoadedOK DEF stream_end, on_stream_end, historyVars
<1>3. FileTypeOK' /\ DocumentOK' /\ PositionOK' /\ FollowsDocument'
  BY DEF stream_end, on_stream_end, FileTypeOK, DocumentOK, PositionOK, FollowsDocument
<1>4. LoadsWhatItSays'
  BY DEF stream_end, on_stream_end, LoadsWhatItSays, fixedVars, historyVars
<1>. QED  BY <1>2, <1>3, <1>4

-----------------------------------------------------------------------------
(* The end of a load that fails: everything but the lost endpoints goes.   *)
LEMMA ParseErrorOK == ASSUME YamlInv, parse_error PROVE YamlInv'
<1>1. FixedTypeOK' /\ TableOK' /\ Entries' = {} /\ Cardinality(Entries') = 0
  BY EmptyTableOK, FS_EmptySet DEF parse_error, on_parse_error
<1>2. hosts' = replaced /\ UNCHANGED <<replaced, short>> /\ replaced \in Nat
  BY OwnedParts
     DEF parse_error, on_parse_error, Discarded, Owned, YamlInv, historyVars
<1>3. HostsOwned'
  BY <1>1, <1>2 DEF parse_error, on_parse_error, HostsOwned, Owned, One
<1>4. LoaderTypeOK'
  BY <1>1, <1>2 DEF parse_error, on_parse_error, YamlInv, LoaderInv, LoaderTypeOK
<1>5. FileInv' /\ LoadsWhatItSays'
  BY DEF parse_error, on_parse_error, YamlInv, FileInv, FileTypeOK, DocumentOK, PositionOK,
         FollowsDocument, LoadsWhatItSays, fileVars
<1>. QED  BY <1>1, <1>3, <1>4, <1>5 DEF YamlInv, LoaderInv

-----------------------------------------------------------------------------
(* Scalars *)

(* If no allocation has failed after a step, none had before. *)
LEMMA ShortStays ==
  ASSUME LoaderInv, NEW ok, Allocates(ok), short' = 0 PROVE short = 0 /\ ok
BY OwnedParts DEF Allocates, One

LEMMA ScalarKeyOK == ASSUME YamlInv, NEW v \in Scalar, scalar_key(v) PROVE YamlInv'
<1>. USE LoaderConstants DEF YamlInv, FileInv
<1>1. LoaderInv'
  BY OnScalarOK DEF scalar_key
<1>2. FileTypeOK' /\ DocumentOK'
  BY DEF scalar_key, FileTypeOK, DocumentOK
<1>3. PositionOK'
  BY DEF scalar_key, on_scalar, PositionOK
<1>4. ASSUME short' = 0
      PROVE  /\ short = 0 /\ pending = NULL /\ pending' = v
             /\ UNCHANGED <<fixedVars, pool_start, pool_end, st, cur_user>>
  <2>1. short = 0
    BY <1>4, ShortStays DEF scalar_key, on_scalar
  <2>2. pending = NULL
    BY <2>1 DEF scalar_key, FollowsDocument
  <2>3. PICK copy \in {v, NULL} : pending' = copy /\ Allocates(copy = v)
    BY <2>2 DEF scalar_key, on_scalar
  <2>4. copy = v
    BY <1>4, <2>3, ShortStays
  <2>. QED  BY <2>1, <2>2, <2>3, <2>4 DEF scalar_key, on_scalar
<1>5. FollowsDocument'
  BY <1>4 DEF scalar_key, on_scalar, FollowsDocument
<1>6. LoadsWhatItSays'
  BY <1>4 DEF scalar_key, on_scalar, LoadsWhatItSays, fixedVars
<1>. QED  BY <1>1, <1>2, <1>3, <1>5, <1>6

(* While memory lasts a value is taken for the value of its key. *)
LEMMA AtValue ==
  ASSUME YamlInv, NEW v \in Scalar, scalar_value(v), short' = 0
  PROVE  /\ short = 0 /\ pending = key /\ key # NULL /\ cur_user = who
         /\ st = "S_USER" <=> where = "user"
         /\ st = "S_POOL" <=> where = "pool"
         /\ st = "S_USER" => user_pair(HostOf(v)) /\ who \in Name
         /\ st = "S_POOL" => pool_pair(HostOf(v))
         /\ st \notin {"S_USER", "S_POOL"} => UNCHANGED <<fixedVars, pool_start, pool_end>>
<1>1. short = 0
  BY ShortStays DEF scalar_value, on_scalar, YamlInv
<1>2. /\ pending = key /\ key # NULL /\ cur_user = who
      /\ st = "S_USER" <=> where = "user"
      /\ st = "S_POOL" <=> where = "pool"
  BY <1>1 DEF scalar_value, YamlInv, FileInv, FollowsDocument, FileTypeOK
<1>3. PICK ip \in {HostOf(v)} \cup (IF CreatesHost THEN {NULL} ELSE {}) :
        /\ Allocates(ip = HostOf(v))
        /\ CASE st = "S_USER" -> user_pair(ip)
             [] st = "S_POOL" -> pool_pair(ip)
             [] OTHER -> UNCHANGED <<fixedVars, pool_start, pool_end, hosts, replaced>>
  BY <1>2 DEF scalar_value, on_scalar
<1>4. ip = HostOf(v)
  BY <1>3, ShortStays DEF YamlInv
<1>5. st = "S_USER" => who \in Name
  BY <1>2 DEF YamlInv, FileInv, PositionOK
<1>. QED  BY <1>1, <1>2, <1>3, <1>4, <1>5

LEMMA ValueLoads ==
  ASSUME YamlInv, NEW v \in Scalar, scalar_value(v), short' = 0 PROVE LoadsWhatItSays'
<1>. USE LoaderConstants
<1>1. /\ \A n \in Name : says.ip[n] # Wrong => users[n] = says.ip[n]
      /\ says.pool["start"] # Wrong => pool_start = says.pool["start"]
      /\ says.pool["end"] # Wrong => pool_end = says.pool["end"]
  BY AtValue DEF YamlInv, LoadsWhatItSays, scalar_value
<1>2. says \in [ip   : [Name -> ValidIp \cup {NULL, Wrong}],
               pool : [Endpoint -> ValidIp \cup {NULL, Wrong}]]
  BY DEF YamlInv, FileInv, FileTypeOK
<1>3. users \in [Name -> ValidIp \cup {NULL}]
  BY DEF YamlInv, LoaderInv, LoaderTypeOK, FixedTypeOK
<1>4. Means(v) # Wrong => Means(v) = v /\ HostOf(v) = v /\ v \in ValidIp
  BY DEF Means, HostOf
<1>5. CASE where = "user" /\ key = "ip"
  <2>1. says' = [says EXCEPT !.ip[who] = Means(v)] /\ who \in Name
    BY <1>5, AtValue DEF scalar_value
  <2>2. UNCHANGED <<pool_start, pool_end>>
    BY <1>5, AtValue DEF user_pair
  <2>3. Means(v) # Wrong => users' = [users EXCEPT ![who] = v]
    BY <1>4, <1>5, AtValue DEF user_pair, GivesAddress, add
  <2>4. users' = users \/ \E ip \in ValidIp : users' = [users EXCEPT ![who] = ip]
    BY <1>5, AtValue, HostOfType DEF user_pair, GivesAddress, add, fixedVars
  <2>5. /\ says'.pool = says.pool /\ says'.ip[who] = Means(v)
        /\ \A n \in Name \ {who} : says'.ip[n] = says.ip[n]
    BY <1>2, <2>1
  <2>6. /\ \A n \in Name \ {who} : users'[n] = users[n]
        /\ Means(v) # Wrong => users'[who] = v
    BY <1>3, <2>1, <2>3, <2>4
  <2>. QED  BY <1>1, <1>4, <2>1, <2>2, <2>5, <2>6 DEF LoadsWhatItSays
<1>6. CASE where = "pool" /\ key \in Endpoint
  <2>1. says' = [says EXCEPT !.pool[key] = Means(v)] /\ users' = users
    BY <1>6, AtValue DEF scalar_value, pool_pair, fixedVars
  <2>2. /\ says'.ip = says.ip /\ says'.pool[key] = Means(v)
        /\ \A e \in Endpoint \ {key} : says'.pool[e] = says.pool[e]
    BY <1>2, <1>6, <2>1
  <2>3. /\ pool_start' = IF key = "start" THEN HostOf(v) ELSE pool_start
        /\ pool_end' = IF key = "end" THEN HostOf(v) ELSE pool_end
    BY <1>6, AtValue DEF pool_pair
  <2>. QED  BY <1>1, <1>4, <1>6, <2>1, <2>2, <2>3 DEF LoadsWhatItSays, Endpoint
<1>7. CASE ~(where = "user" /\ key = "ip") /\ ~(where = "pool" /\ key \in Endpoint)
  <2>1. says' = says
    BY <1>7 DEF scalar_value
  <2>2. users' = users /\ UNCHANGED <<pool_start, pool_end>>
    BY <1>7, AtValue DEF user_pair, GivesAddress, pool_pair, Endpoint, fixedVars
  <2>. QED  BY <1>1, <2>1, <2>2 DEF LoadsWhatItSays
<1>. QED  BY <1>5, <1>6, <1>7

LEMMA ScalarValueOK == ASSUME YamlInv, NEW v \in Scalar, scalar_value(v) PROVE YamlInv'
<1>. USE LoaderConstants DEF YamlInv, FileInv
<1>1. LoaderInv'
  BY OnScalarOK DEF scalar_value
<1>2. FileTypeOK' /\ DocumentOK'
  <2>1. Means(v) \in ValidIp \cup {NULL, Wrong}
    BY DEF Means
  <2>. QED  BY <2>1 DEF scalar_value, FileTypeOK, DocumentOK
<1>3. PositionOK'
  BY DEF scalar_value, on_scalar, PositionOK, DocumentOK
<1>4. FollowsDocument'
  BY AtValue DEF scalar_value, on_scalar, FollowsDocument
<1>5. LoadsWhatItSays'
  BY ValueLoads, <1>1, OwnedParts DEF LoadsWhatItSays
<1>. QED  BY <1>1, <1>2, <1>3, <1>4, <1>5

LEMMA YamlStepOK == YamlInv /\ [YamlNext]_yamlVars => YamlInv'
<1>. SUFFICES ASSUME YamlInv, [YamlNext]_yamlVars PROVE YamlInv'
  OBVIOUS
<1>1. CASE UNCHANGED yamlVars
  BY <1>1 DEF yamlVars, loaderVars, fileVars, historyVars, fixedVars, YamlInv, LoaderInv,
              FileInv, LoaderTypeOK, FileTypeOK, FixedTypeOK, DocumentOK, PositionOK, TableOK,
              CountsUsers, Entries, FollowsDocument, LoadsWhatItSays, HostsOwned, Owned
<1>. QED  BY <1>1, MappingStartOK, MappingEndOK, ScalarKeyOK, ScalarValueOK, StreamEndOK,
             ParseErrorOK DEF YamlNext

LEMMA YamlInvariant == YamlSpec => []YamlInv
BY YamlInitOK, YamlStepOK, PTL DEF YamlSpec

(* Whatever a document of the documented shape contains, the loader is     *)
(* where the document is while memory lasts.                               *)
THEOREM StaysWithTheDocument == YamlSpec => []FollowsDocument
<1>1. YamlInv => FollowsDocument
  BY DEF YamlInv, FileInv
<1>. QED  BY <1>1, YamlInvariant, PTL

(* What is loaded is what the document says, also where it repeats itself, *)
(* for every name and end that was last given an address.                  *)
THEOREM LoadsTheDocument == YamlSpec => []LoadsWhatItSays
<1>1. YamlInv => LoadsWhatItSays
  BY DEF YamlInv
<1>. QED  BY <1>1, YamlInvariant, PTL

(* No host_t is lost but the endpoints that are overwritten, wherever a    *)
(* load or an allocation fails.                                            *)
THEOREM HostsAccounted == YamlSpec => []HostsOwned
<1>1. YamlInv => HostsOwned
  BY DEF YamlInv, LoaderInv
<1>. QED  BY <1>1, YamlInvariant, PTL

(* The counter of the table is the number of users in it. *)
THEOREM TableCounts == YamlSpec => []CountsUsers
<1>1. YamlInv => CountsUsers
  BY DEF YamlInv, LoaderInv, TableOK
<1>. QED  BY <1>1, YamlInvariant, PTL
=============================================================================
