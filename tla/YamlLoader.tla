----------------------------- MODULE YamlLoader -----------------------------
(***************************************************************************)
(* plugin/src/yaml_loader.c: policy.yaml is read as libyaml's stream of    *)
(* events by a state machine that knows where it is only from st, and what *)
(* it is looking at only from pending, the key whose value comes next.     *)
(* With it, snapshot_load of policy_engine.c, the only caller, which keeps *)
(* or destroys what was loaded.                                            *)
(*                                                                         *)
(* The file is the other half of the model: it may be any document that    *)
(* has the documented shape (yaml_loader.h:14-19), with unknown keys,      *)
(* values that are no addresses, keys given twice and sections left empty. *)
(* It keeps track of where it is and of what it says on its own.  Parsing  *)
(* may fail after any event, and so may copying a key or creating a host_t *)
(* for want of memory, which the loader takes no notice of.                *)
(***************************************************************************)
EXTENDS FixedPool

CONSTANTS
  Scalar,       (* scalar values in the file; keys, names and addresses *)
  MaxReplaced,  (* bound: pool endpoints that are overwritten *)
  MaxShort      (* bound: allocations that fail *)

(* What the file says where it gives no IPv4 address. *)
Wrong == "no address"

ASSUME LoaderAssumption ==
  /\ {"users", "pool", "ip", "start", "end"} \subseteq Scalar
  /\ Name \subseteq Scalar /\ ValidIp \subseteq Scalar
  /\ NULL \notin Scalar /\ Wrong \notin ValidIp
  /\ MaxReplaced \in Nat /\ MaxShort \in Nat

VARIABLES
  (* the loader *)
  st,           (* its state: S_TOP, S_USERS, S_USER or S_POOL *)
  pending,      (* the key it holds, or NULL *)
  cur_user,     (* the user of S_USER, NULL for the empty string *)
  pool_start, pool_end,
  rc,           (* "loading", then what snapshot_load makes of it *)
  hosts,        (* how many host_t objects the load has created and not destroyed *)
  replaced,     (* history: how many endpoints it has overwritten *)
  short,        (* history: how many allocations have failed *)
  (* the file *)
  where,        (* the mapping it is in *)
  key,          (* the key whose value comes next, or NULL *)
  who,          (* the user whose mapping it is in, or NULL *)
  says          (* what it has said last, of each user and endpoint *)

historyVars == <<replaced, short>>
loaderVars == <<fixedVars, st, pending, cur_user, pool_start, pool_end, rc, hosts, historyVars>>
fileVars == <<where, key, who, says>>
yamlVars == <<loaderVars, fileVars>>

Endpoint == {"start", "end"}

YamlInit ==
  /\ FixedInit
  /\ st = "S_TOP"
  /\ pending = NULL /\ cur_user = NULL
  /\ pool_start = NULL /\ pool_end = NULL
  /\ rc = "loading"
  /\ hosts = 0
  /\ replaced = 0 /\ short = 0
  /\ where = "before"
  /\ key = NULL /\ who = NULL
  /\ says = [ip |-> [n \in Name |-> NULL], pool |-> [e \in Endpoint |-> NULL]]

-----------------------------------------------------------------------------
(* The loader: what each event does to it *)

(* Faulty: the key of a section is kept. *)
KeyInside_Kept == pending

(* The key of a section or of a user is used up. *)
KeyInside == IF st \in {"S_TOP", "S_USERS"} THEN NULL ELSE pending

on_mapping_start ==
  /\ st' = CASE st = "S_TOP" /\ pending = "users"  -> "S_USERS"
             [] st = "S_TOP" /\ pending = "pool"   -> "S_POOL"
             [] st = "S_USERS" /\ pending # NULL   -> "S_USER"
             [] OTHER                              -> st
  /\ cur_user' = IF st = "S_USERS" /\ pending # NULL THEN pending ELSE cur_user
  /\ pending' = KeyInside
  /\ UNCHANGED <<fixedVars, pool_start, pool_end, rc, hosts, historyVars>>

on_mapping_end ==
  /\ st' = IF st = "S_USER" THEN "S_USERS" ELSE "S_TOP"
  /\ cur_user' = IF st = "S_USER" THEN NULL ELSE cur_user
  /\ UNCHANGED <<fixedVars, pending, pool_start, pool_end, rc, hosts, historyVars>>

(* host_create_from_string, with enough memory *)
HostOf(v) == IF v \in ValidIp THEN v ELSE NULL

One(b) == IF b THEN 1 ELSE 0

(* Faulty: whatever the key is. *)
GivesAddress_AnyKey == TRUE

(* A pair in a user's mapping that gives the user's address. *)
GivesAddress == pending = "ip"

(* A pair for which a host_t is asked for. *)
CreatesHost == \/ st = "S_USER" /\ GivesAddress
               \/ st = "S_POOL" /\ pending \in Endpoint

(* An allocation that succeeds, or fails. *)
Allocates(ok) ==
  /\ short' = short + One(~ok)
  /\ short' <= MaxShort

(* A pair in a user's mapping, ip being its host_t: add copies the address *)
(* and destroys the one it replaces, the loader destroys its own.          *)
user_pair(ip) ==
  /\ IF GivesAddress /\ ip # NULL
     THEN /\ add(cur_user, ip)
          /\ hosts' = hosts + One(lookup(cur_user) = NULL)
     ELSE UNCHANGED <<fixedVars, hosts>>
  /\ UNCHANGED <<pool_start, pool_end, replaced>>

Overwrites == \/ pending = "start" /\ pool_start # NULL
              \/ pending = "end" /\ pool_end # NULL

(* A pair in the pool's mapping: a pointer that was set is overwritten. *)
pool_pair(ip) ==
  /\ pool_start' = IF pending = "start" THEN ip ELSE pool_start
  /\ pool_end' = IF pending = "end" THEN ip ELSE pool_end
  /\ hosts' = hosts + One(pending \in Endpoint /\ ip # NULL)
  /\ replaced' = replaced + One(Overwrites)
  /\ replaced' <= MaxReplaced
  /\ UNCHANGED fixedVars

(* A scalar is a key when none is pending.  A key that cannot be copied is *)
(* forgotten, and its value then taken for a key; a host_t that cannot be  *)
(* created is an address that does not parse.                              *)
on_scalar(v) ==
  /\ IF pending = NULL
     THEN /\ \E copy \in {v, NULL} : pending' = copy /\ Allocates(copy = v)
          /\ UNCHANGED <<fixedVars, pool_start, pool_end, hosts, replaced>>
     ELSE /\ pending' = NULL
          /\ \E ip \in {HostOf(v)} \cup (IF CreatesHost THEN {NULL} ELSE {}) :
                /\ Allocates(ip = HostOf(v))
                /\ CASE st = "S_USER" -> user_pair(ip)
                     [] st = "S_POOL" -> pool_pair(ip)
                     [] OTHER -> UNCHANGED <<fixedVars, pool_start, pool_end, hosts, replaced>>
  /\ UNCHANGED <<st, cur_user, rc>>

(* Everything that a snapshot owns: the table's addresses, the endpoints. *)
Owned == Cardinality(Entries) + One(pool_start # NULL) + One(pool_end # NULL)

on_stream_end ==
  /\ rc' = "loaded"
  /\ pending' = NULL
  /\ UNCHANGED <<fixedVars, st, cur_user, pool_start, pool_end, hosts, historyVars>>

(* Faulty: the caller forgets the endpoints, which are not in the snapshot yet. *)
Discarded_NotEnds == Cardinality(Entries)

Discarded == Owned

(* -1 is returned: snapshot_load destroys the table and the endpoints. *)
on_parse_error ==
  /\ rc' = "failed"
  /\ pending' = NULL
  /\ FixedDestroy
  /\ hosts' = hosts - Discarded
  /\ pool_start' = NULL /\ pool_end' = NULL
  /\ UNCHANGED <<st, cur_user, historyVars>>

-----------------------------------------------------------------------------
(* The file and the loader, event by event *)

Opens == IF where = "before" THEN "top"
         ELSE IF where = "users" THEN "user" ELSE key

mapping_start ==
  /\ rc = "loading"
  /\ \/ where = "before"
     \/ where = "top" /\ key \in {"users", "pool"}
     \/ where = "users" /\ key # NULL
  /\ where' = Opens
  /\ who' = IF where = "users" THEN key ELSE who
  /\ key' = NULL
  /\ UNCHANGED says
  /\ on_mapping_start

mapping_end ==
  /\ rc = "loading"
  /\ where \notin {"before", "after"} /\ key = NULL
  /\ where' = CASE where = "top" -> "after" [] where = "user" -> "users" [] OTHER -> "top"
  /\ who' = NULL
  /\ UNCHANGED <<key, says>>
  /\ on_mapping_end

scalar_key(v) ==
  /\ rc = "loading"
  /\ where \notin {"before", "after"} /\ key = NULL
  /\ where = "users" => v \in Name
  /\ key' = v
  /\ UNCHANGED <<where, who, says>>
  /\ on_scalar(v)

(* What a value says where an address belongs. *)
Means(v) == IF v \in ValidIp THEN v ELSE Wrong

scalar_value(v) ==
  /\ rc = "loading"
  /\ key # NULL
  /\ key' = NULL
  /\ says' = IF where = "pool" /\ key \in Endpoint THEN [says EXCEPT !.pool[key] = Means(v)]
             ELSE IF where = "user" /\ key = "ip"   THEN [says EXCEPT !.ip[who] = Means(v)]
             ELSE says
  /\ UNCHANGED <<where, who>>
  /\ on_scalar(v)

stream_end ==
  /\ rc = "loading"
  /\ where \in {"before", "after"}
  /\ UNCHANGED fileVars
  /\ on_stream_end

parse_error ==
  /\ rc = "loading"
  /\ UNCHANGED fileVars
  /\ on_parse_error

YamlNext ==
  \/ mapping_start
  \/ mapping_end
  \/ \E v \in Scalar : scalar_key(v) \/ scalar_value(v)
  \/ stream_end
  \/ parse_error

YamlSpec == YamlInit /\ [][YamlNext]_yamlVars

-----------------------------------------------------------------------------
LoaderTypeOK ==
  /\ FixedTypeOK
  /\ st \in {"S_TOP", "S_USERS", "S_USER", "S_POOL"}
  /\ pending \in Scalar \cup {NULL} /\ cur_user \in Name \cup {NULL}
  /\ pool_start \in ValidIp \cup {NULL} /\ pool_end \in ValidIp \cup {NULL}
  /\ rc \in {"loading", "loaded", "failed"}
  /\ hosts \in Nat
  /\ replaced \in 0 .. MaxReplaced /\ short \in 0 .. MaxShort

FileTypeOK ==
  /\ where \in {"before", "top", "users", "user", "pool", "after"}
  /\ key \in Scalar \cup {NULL} /\ who \in Name \cup {NULL}
  /\ says \in [ip   : [Name -> ValidIp \cup {NULL, Wrong}],
               pool : [Endpoint -> ValidIp \cup {NULL, Wrong}]]

(* While memory lasts the loader is always where the document is: in the   *)
(* same mapping, with the same key pending and the same user.  It learns   *)
(* this only from the order of events; a scalar too many or too few pairs  *)
(* every later key with the wrong value (yaml_loader.c:110-150), as a key  *)
(* does that could not be copied (line 119, unchecked).                    *)
FollowsDocument ==
  rc = "loading" /\ short = 0 =>
    /\ st = CASE where = "users" -> "S_USERS" [] where = "user" -> "S_USER"
              [] where = "pool" -> "S_POOL" [] OTHER -> "S_TOP"
    /\ pending = key
    /\ cur_user = who

(* While memory lasts, what is loaded is what the document says, whatever  *)
(* is repeated or unknown in it and in whatever order its sections come:   *)
(* each user and each end of the pool has the address it was given last,   *)
(* or none if it was given none.  Nothing is said of those whose last one  *)
(* is no address: the loader skips it (yaml_loader.c:124-149) where the    *)
(* design asks for -1 (.trae/documents/cupp-charon-user-policy-plugin.md:  *)
(* 145) and README.md:35 has the file refused.                             *)
LoadsWhatItSays ==
  rc # "failed" /\ short = 0 =>
    /\ \A n \in Name : says.ip[n] # Wrong => users[n] = says.ip[n]
    /\ says.pool["start"] # Wrong => pool_start = says.pool["start"]
    /\ says.pool["end"] # Wrong => pool_end = says.pool["end"]

(* Every host_t is owned by the snapshot, or destroyed when the load fails *)
(* at any point (policy_engine.c:79-86), also where keys were forgotten    *)
(* for want of memory; only a pool endpoint that is overwritten is lost    *)
(* (yaml_loader.c:142-148).  That the endpoints pass to the snapshot is    *)
(* what policy_engine.c:61 does; yaml_loader.h:21 says the caller borrows  *)
(* them and must not free them.                                            *)
HostsOwned == hosts = Owned + replaced
=============================================================================
