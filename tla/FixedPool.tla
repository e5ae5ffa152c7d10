------------------------------ MODULE FixedPool ------------------------------
(***************************************************************************)
(* plugin/src/fixed_pool.c: the table of fixed addresses of one policy     *)
(* snapshot.  It is filled by add while policy.yaml is loaded and only     *)
(* read afterwards.  The table is a hash table of charon's, with a counter *)
(* of its own beside it.                                                   *)
(***************************************************************************)
EXTENDS Naturals, FiniteSets, Pointers

CONSTANTS
  Name,      (* user names *)
  ValidIp    (* the texts that are IPv4 addresses *)

VARIABLES
  users,     (* user name -> address, or NULL *)
  count      (* the counter kept beside the table *)

fixedVars == <<users, count>>

(* fixed_pool_create *)
FixedInit ==
  /\ users = [n \in Name |-> NULL]
  /\ count = 0

lookup(n) == users[n]

(* Faulty: an entry that replaces another is counted as well. *)
add_CountsAgain(n, ip) ==
  /\ users' = [users EXCEPT ![n] = ip]
  /\ count' = count + 1

(* add: a name that is added again gets the new address and stays one      *)
(* entry.  Its allocations are not checked: charon does not survive a name *)
(* that cannot be copied, whose hash reads through NULL.                   *)
add(n, ip) ==
  /\ users' = [users EXCEPT ![n] = ip]
  /\ count' = IF lookup(n) = NULL THEN count + 1 ELSE count

(* fixed_pool_destroy *)
FixedDestroy ==
  /\ users' = [n \in Name |-> NULL]
  /\ count' = 0

FixedTypeOK ==
  /\ users \in [Name -> ValidIp \cup {NULL}]
  /\ count \in Nat

Entries == {n \in Name : users[n] # NULL}

(* The number reported after a load is the number of users that have a     *)
(* fixed address, however often the file names them (fixed_pool.c:56-66).  *)
CountsUsers == count = Cardinality(Entries)
=============================================================================
