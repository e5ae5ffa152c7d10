--------------------------- MODULE AddressLeases ---------------------------
(***************************************************************************)
(* What the plugin promises its users, without threads, tables or bitmaps: *)
(* a user holds at most one lease; an address is held by one user at a     *)
(* time, whether it is the user's fixed address or one of the pool; it     *)
(* never changes while it is held, whichever IKE_SA of the user carries    *)
(* it; and a lease is neither revoked nor moved while the IKE_SA it        *)
(* belongs to is connected with its address.                               *)
(***************************************************************************)
CONSTANTS
  User,       (* who may hold a lease *)
  Uid,        (* the IKE_SAs a lease may belong to *)
  UserOf,     (* the user of each IKE_SA *)
  PoolIp,     (* addresses handed out dynamically *)
  FixedIp,    (* for each user, the addresses a policy may assign *)
  NULL

VARIABLES
  lease,      (* user -> [ip, unique_id, fixed] or NULL *)
  carried     (* IKE_SA -> the addresses it is connected with *)

leaseVars == <<lease, carried>>

LeasesInit ==
  /\ lease = [u \in User |-> NULL]
  /\ carried = [n \in Uid |-> {}]

HeldByOther(u, a) == \E w \in User \ {u} : lease[w] # NULL /\ lease[w].ip = a

(* The IKE_SA of u's lease has been given no address, or has none any more. *)
Idle(u) == carried[lease[u].unique_id] = {}

(* A user without a lease gets one: the user's fixed address or one of the *)
(* pool, which no other user holds.                                        *)
Grant(u, n, a, fx) ==
  /\ lease[u] = NULL
  /\ UserOf[n] = u
  /\ a \in IF fx THEN FixedIp[u] ELSE PoolIp
  /\ ~HeldByOther(u, a)
  /\ lease' = [lease EXCEPT ![u] = [ip |-> a, unique_id |-> n, fixed |-> fx]]
  /\ UNCHANGED carried

(* The IKE_SA of the lease gets the address. *)
Deliver(u) ==
  /\ lease[u] # NULL
  /\ carried' = [carried EXCEPT ![lease[u].unique_id] = @ \cup {lease[u].ip}]
  /\ UNCHANGED lease

(* The user came back on another IKE_SA: the lease follows, address kept. *)
Reassign(u, n) ==
  /\ lease[u] # NULL
  /\ UserOf[n] = u
  /\ n = lease[u].unique_id \/ Idle(u)
  /\ lease' = [lease EXCEPT ![u].unique_id = n]
  /\ UNCHANGED carried

(* An IKE_SA is no longer connected. *)
Disconnect(n) ==
  /\ carried' = [carried EXCEPT ![n] = {}]
  /\ UNCHANGED lease

Revoke(u) ==
  /\ lease[u] # NULL
  /\ Idle(u)
  /\ lease' = [lease EXCEPT ![u] = NULL]
  /\ UNCHANGED carried

LeasesNext ==
  \/ \E u \in User :
       \/ /\ lease[u] = NULL
          /\ \E n \in Uid, a \in PoolIp \cup FixedIp[u], fx \in BOOLEAN : Grant(u, n, a, fx)
       \/ /\ lease[u] # NULL
          /\ Deliver(u) \/ Revoke(u) \/ \E n \in Uid : Reassign(u, n)
  \/ \E n \in Uid : Disconnect(n)

LeasesSpec == LeasesInit /\ [][LeasesNext]_leaseVars
=============================================================================
