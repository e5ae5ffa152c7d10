--------------------------- MODULE SessionManager ---------------------------
(***************************************************************************)
(* plugin/src/session_manager.c: the table of active leases, reachable by  *)
(* IKE_SA unique_id and by username.                                       *)
(*                                                                         *)
(* Leases are malloc'ed structures shared by pointer, and pointers outlive *)
(* the mutex, so the heap is explicit: heap[l] is the lease stored in      *)
(* chunk l, or NULL when the chunk is free.  malloc may return any free    *)
(* chunk, also one freed a moment ago.  Every method holds the manager's   *)
(* mutex from its first to its last access, so each is one step.           *)
(*                                                                         *)
(* The clock is abstracted to what foreach_expiring asks of it: whether    *)
(* now - acquired > timeout.  A lease starts fresh, turns expired as time  *)
(* passes (LeaseAges) and is fresh again when its acquired time is reset.  *)
(***************************************************************************)
EXTENDS Naturals, Heap

CONSTANTS
  Uid,        (* unique_ids of IKE_SAs *)
  User,       (* usernames, placeholder names included *)
  LeaseIp,    (* addresses a lease may carry *)
  UserOf      (* the username the caller uses with each unique_id *)

Lease == [username : User, unique_id : Uid, ip : LeaseIp,
          fixed : BOOLEAN, expired : BOOLEAN]

(* One IKE_SA authenticates one identity: the callers never use the same   *)
(* unique_id with two usernames (IdentityManager, OneNamePerSa).           *)
ASSUME SessionAssumption ==
  /\ UserOf \in [Uid -> User]
  /\ NULL \notin Chunk
  /\ NULL \notin Lease

VARIABLES
  by_uid,     (* unique_id -> chunk *)
  by_user,    (* username -> chunk *)
  heap        (* chunk -> lease or NULL *)

sessionVars == <<by_uid, by_user, heap>>

SessionInit ==
  /\ by_uid = [n \in Uid |-> NULL]
  /\ by_user = [u \in User |-> NULL]
  /\ heap = [l \in Chunk |-> NULL]

(* lease_create, at the chunk malloc returned.  Its strdup of the username *)
(* (session_manager.c:62) is not checked: when that one fails, bind_lease  *)
(* hands the NULL to the hash function of by_user and charon crashes, so   *)
(* the lease without a username is in no state after the step.             *)
lease_create(u, n, a, fx) ==
  [username |-> u, unique_id |-> n, ip |-> a, fixed |-> fx, expired |-> FALSE]

(* What bind_lease first does about a lease the user already has: remove   *)
(* it from both indexes and destroy it.                                    *)
HeapWithout(u) == [l \in Chunk |-> IF l = by_user[u] THEN NULL ELSE heap[l]]

(* Faulty: the old unique_id keeps its entry. *)
UidsWithout_Nothing(u) == by_uid

UidsWithout(u) ==
  [n \in Uid |-> IF by_user[u] # NULL /\ n = heap[by_user[u]].unique_id
                 THEN NULL ELSE by_uid[n]]

(* bind_lease: the new lease in chunk l replaces the user's old one. *)
bind_lease(u, n, a, fx, l) ==
  /\ HeapWithout(u)[l] = NULL
  /\ heap' = [HeapWithout(u) EXCEPT ![l] = lease_create(u, n, a, fx)]
  /\ by_uid' = [UidsWithout(u) EXCEPT ![n] = l]
  /\ by_user' = [by_user EXCEPT ![u] = l]

(* bind_lease when lease_create runs out of memory: the old lease is gone. *)
bind_lease_fails(u) ==
  /\ heap' = HeapWithout(u)
  /\ by_uid' = UidsWithout(u)
  /\ by_user' = [by_user EXCEPT ![u] = NULL]

(* Faulty: the old unique_id keeps its entry. *)
migrate_KeepsOld(u, n) ==
  LET l == by_user[u]
  IN  IF l = NULL
      THEN UNCHANGED sessionVars
      ELSE /\ by_uid' = [by_uid EXCEPT ![n] = l]
           /\ heap' = [heap EXCEPT ![l] = [@ EXCEPT !.unique_id = n,
                                                    !.expired = FALSE]]
           /\ UNCHANGED by_user

(* migrate: the user's lease moves to unique_id n and its time restarts. *)
migrate(u, n) ==
  LET l == by_user[u]
  IN  IF l = NULL
      THEN UNCHANGED sessionVars
      ELSE /\ by_uid' = [[by_uid EXCEPT ![heap[l].unique_id] = NULL]
                            EXCEPT ![n] = l]
           /\ heap' = [heap EXCEPT ![l] = [@ EXCEPT !.unique_id = n,
                                                    !.expired = FALSE]]
           /\ UNCHANGED by_user

(* Faulty: removed from one index only. *)
unbind_KeepsUid(n) ==
  LET l == by_uid[n]
  IN  IF l = NULL
      THEN UNCHANGED sessionVars
      ELSE /\ by_user' = [by_user EXCEPT ![heap[l].username] = NULL]
           /\ UNCHANGED <<by_uid, heap>>

unbind_KeepsUser(n) ==
  LET l == by_uid[n]
  IN  IF l = NULL
      THEN UNCHANGED sessionVars
      ELSE /\ by_uid' = [by_uid EXCEPT ![n] = NULL]
           /\ UNCHANGED <<by_user, heap>>

(* unbind: removed from both indexes and handed to the caller; nothing     *)
(* happens when the unique_id is not bound.                                *)
unbind(n) ==
  LET l == by_uid[n]
  IN  IF l = NULL
      THEN UNCHANGED sessionVars
      ELSE /\ by_uid' = [by_uid EXCEPT ![n] = NULL]
           /\ by_user' = [by_user EXCEPT ![heap[l].username] = NULL]
           /\ UNCHANGED heap

(* lease_destroy: the owner of a lease frees it. *)
lease_destroy(l) ==
  /\ heap' = [heap EXCEPT ![l] = NULL]
  /\ UNCHANGED <<by_uid, by_user>>

(* The pointers foreach_expiring collects under the mutex. *)
Expiring ==
  {by_uid[n] : n \in {m \in Uid : by_uid[m] # NULL /\ heap[by_uid[m]].expired}}

(* Time passes: lease l is now older than the timeout. *)
LeaseAges(l) ==
  /\ heap[l] # NULL
  /\ ~heap[l].expired
  /\ heap' = [heap EXCEPT ![l].expired = TRUE]
  /\ UNCHANGED <<by_uid, by_user>>

-----------------------------------------------------------------------------
(* The table on its own, under a caller that keeps to UserOf and destroys  *)
(* what unbind handed to it, in any order.                                 *)

Bound == {l \in Chunk : \E n \in Uid : by_uid[n] = l}

HandedOut == {l \in Chunk : /\ heap[l] # NULL
                            /\ l \notin Bound
                            /\ \A u \in User : by_user[u] # l}

SessionNext ==
  \/ \E n \in Uid, a \in LeaseIp, fx \in BOOLEAN, l \in Chunk :
        bind_lease(UserOf[n], n, a, fx, l)
  \/ \E n \in Uid : bind_lease_fails(UserOf[n])
  \/ \E n \in Uid : migrate(UserOf[n], n)
  \/ \E n \in Uid : unbind(n)
  \/ \E l \in HandedOut : lease_destroy(l)
  \/ \E l \in Chunk : LeaseAges(l)

SessionSpec == SessionInit /\ [][SessionNext]_sessionVars

SessionTypeOK ==
  /\ by_uid \in [Uid -> Chunk \cup {NULL}]
  /\ by_user \in [User -> Chunk \cup {NULL}]
  /\ heap \in [Chunk -> Lease \cup {NULL}]

(* The two indexes describe the same set of leases, under the keys the     *)
(* leases themselves carry, and never point to freed memory.  bind_lease,  *)
(* migrate and unbind each edit both indexes and the lease (session_       *)
(* manager.c:85-180); a lease left in one of them only is never released,  *)
(* never swept, or found after it was freed.                               *)
IndexesAgree ==
  /\ \A n \in Uid : by_uid[n] # NULL =>
        /\ heap[by_uid[n]] # NULL
        /\ heap[by_uid[n]].unique_id = n
        /\ by_user[heap[by_uid[n]].username] = by_uid[n]
  /\ \A u \in User : by_user[u] # NULL =>
        /\ heap[by_user[u]] # NULL
        /\ heap[by_user[u]].username = u
        /\ by_uid[heap[by_user[u]].unique_id] = by_user[u]

(* A lease is filed under a unique_id of its own user: a release by        *)
(* unique_id never ends another user's lease.                              *)
LeasesOfTheirUser ==
  \A n \in Uid : by_uid[n] # NULL /\ heap[by_uid[n]] # NULL =>
    heap[by_uid[n]].username = UserOf[n]
=============================================================================
