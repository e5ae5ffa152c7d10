---------------------------- MODULE IpAllocator ----------------------------
(***************************************************************************)
(* plugin/src/ip_allocator.c with its callers: charon calls                *)
(* acquire_address and release_address, event_listener.c calls             *)
(* release_by_uid when an IKE_SA goes down, the sweep job of plugin.c      *)
(* calls sweep.  They share the pool, the session table and the leases.    *)
(*                                                                         *)
(* One process per IKE_SA, named by its unique_id: charon lets one thread  *)
(* at a time work on an IKE_SA, so its calls follow each other.  One more  *)
(* process is the sweep job, which its sweep_lock keeps to one at a time.  *)
(* The steps of a process are the critical sections of the code and the    *)
(* accesses between them; pc names the next one.                           *)
(***************************************************************************)
EXTENDS DynamicPool, SessionManager, Sequences

CONSTANTS
  Sweeper,        (* the sweep job *)
  Policies,       (* policies a (re)load may install: the fixed address of each *)
                  (* user, or NULL, and the addresses of the dynamic pool       *)
  AnonPrefixed,   (* usernames that start with "anon-" *)
  AllocFails,     (* TRUE: allocations whose result the code checks may fail *)
  ReloadRaces,    (* TRUE: a reload may free a fixed address that is being copied *)
  SweepEnabled,   (* FALSE: the sweep job could not be created (plugin.c:172) *)
  OneSaPerUser,   (* TRUE: an IKE_SA a user replaces has left charon's table  *)
                  (* before the new one asks for an address                   *)
  MaxAcquire      (* bound: addresses one IKE_SA asks for *)

Hand == [ip : Address, fixed : BOOLEAN]

(* What a user sees of a lease. *)
Held == [ip : Address, unique_id : Uid, fixed : BOOLEAN]

ASSUME AllocatorAssumption ==
  /\ Sweeper \notin Uid
  /\ NULL \notin Uid /\ NULL # Sweeper
  /\ NULL \notin LeaseIp /\ NULL \notin Hand /\ NULL \notin Held
  /\ LeaseIp = Address
  /\ Policies \subseteq [fixed : [User -> Address \cup {NULL}], pool : SUBSET Address]
  /\ AnonPrefixed \subseteq User
  /\ AllocFails \in BOOLEAN /\ ReloadRaces \in BOOLEAN
  /\ SweepEnabled \in BOOLEAN /\ OneSaPerUser \in BOOLEAN
  /\ MaxAcquire \in Nat

VARIABLES
  sa,         (* charon's IKE_SAs: absent, up, down, removed, dead *)
  vip,        (* the addresses charon stored with an IKE_SA, in order *)
  asked,      (* how many addresses an IKE_SA has asked for *)
  pc,         (* the next step of each process *)
  cur,        (* the local "lease" of each process *)
  lock,       (* this->lock: who holds it, or NULL *)
  hand,       (* acquire_address's locals ip and is_fixed, before they are bound *)
  active,     (* the policy in force *)
  expiring,   (* foreach_expiring's snapshot: lease pointers still to visit *)
  suspect,    (* the lease sweep_cb was called with *)
  target      (* the unique_id sweep_cb read from it last *)

charonVars == <<sa, vip, asked>>
sweepVars  == <<expiring, suspect, target>>
vars == <<poolVars, sessionVars, charonVars, sweepVars, pc, cur, lock, hand, active>>

Process == Uid \cup {Sweeper}

InManager(s) == sa[s] \in {"up", "down"}

Goto(p, label) == pc' = [pc EXCEPT ![p] = label]

(* A call returns: its locals are gone. *)
Return(p) ==
  /\ Goto(p, IF p = Sweeper THEN "sweeping" ELSE "idle")
  /\ cur' = [cur EXCEPT ![p] = NULL]

(* The pool is created for the first policy. *)
Init ==
  /\ PoolInit
  /\ SessionInit
  /\ sa = [s \in Uid |-> "absent"]
  /\ vip = [s \in Uid |-> << >>]
  /\ asked = [s \in Uid |-> 0]
  /\ pc = [p \in Process |-> "idle"]
  /\ cur = [p \in Process |-> NULL]
  /\ lock = NULL
  /\ hand = NULL
  /\ active \in {pol \in Policies : pol.pool = StartH .. EndH}
  /\ expiring = {}
  /\ suspect = NULL
  /\ target = NULL

-----------------------------------------------------------------------------
(* acquire_address *)

(* charon calls it for an IKE_SA it has checked out, with a pool list that *)
(* names the plugin's pool; the username is determined.                    *)
acquire_address(s) ==
  /\ sa[s] = "up"
  /\ pc[s] = "idle"
  /\ asked[s] < MaxAcquire
  /\ OneSaPerUser => \A t \in Uid \ {s} : UserOf[t] = UserOf[s] => ~InManager(t)
  /\ asked' = [asked EXCEPT ![s] = @ + 1]
  /\ Goto(s, "lock")
  /\ UNCHANGED <<poolVars, sessionVars, sweepVars, sa, vip, cur, lock, hand, active>>

acquire_lock(s) ==
  /\ pc[s] = "lock"
  /\ lock = NULL
  /\ lock' = s
  /\ Goto(s, "lookup")
  /\ UNCHANGED <<poolVars, sessionVars, charonVars, sweepVars, cur, hand, active>>

(* Faulty: the lease is looked up by unique_id, not by user. *)
acquire_lookup_ByUid(s) ==
  /\ pc[s] = "lookup"
  /\ cur' = [cur EXCEPT ![s] = by_uid[s]]
  /\ Goto(s, IF by_uid[s] # NULL THEN "migrate" ELSE "choose")
  /\ UNCHANGED <<poolVars, sessionVars, charonVars, sweepVars, lock, hand, active>>

(* lookup_by_user *)
acquire_lookup(s) ==
  /\ pc[s] = "lookup"
  /\ cur' = [cur EXCEPT ![s] = by_user[UserOf[s]]]
  /\ Goto(s, IF by_user[UserOf[s]] # NULL THEN "migrate" ELSE "choose")
  /\ UNCHANGED <<poolVars, sessionVars, charonVars, sweepVars, lock, hand, active>>

(* Faulty: the lease found stays with its old IKE_SA. *)
acquire_migrate_Stays(s) ==
  /\ pc[s] = "migrate"
  /\ Goto(s, "clone_reused")
  /\ UNCHANGED <<poolVars, sessionVars, charonVars, sweepVars, cur, lock, hand, active>>

(* The user has a lease: it moves to this IKE_SA. *)
acquire_migrate(s) ==
  /\ pc[s] = "migrate"
  /\ migrate(UserOf[s], s)
  /\ Goto(s, "clone_reused")
  /\ UNCHANGED <<poolVars, charonVars, sweepVars, cur, lock, hand, active>>

(* charon gets a copy of the lease's address and stores it. *)
ReturnAddress(s) ==
  /\ vip' = [vip EXCEPT ![s] = Append(@, heap[cur[s]].ip)]
  /\ lock' = NULL
  /\ Return(s)
  /\ UNCHANGED <<poolVars, sessionVars, sweepVars, sa, asked, hand, active>>

acquire_reused(s) ==
  /\ pc[s] = "clone_reused"
  /\ ReturnAddress(s)

(* The copy failed: NULL is returned, the lease stays with this IKE_SA. *)
acquire_reused_fails(s) ==
  /\ pc[s] = "clone_reused"
  /\ AllocFails
  /\ lock' = NULL
  /\ Return(s)
  /\ UNCHANGED <<poolVars, sessionVars, charonVars, sweepVars, hand, active>>

(* The policy's fixed address, never looked up for a name that starts with *)
(* "anon-" whoever chose that name.                                        *)
FixedFor(u) == IF u \in AnonPrefixed THEN NULL ELSE active.fixed[u]

(* lookup_fixed, and the copy of the host_t it lends. *)
acquire_fixed(s) ==
  /\ pc[s] = "choose"
  /\ FixedFor(UserOf[s]) # NULL
  /\ hand' = [ip |-> FixedFor(UserOf[s]), fixed |-> TRUE]
  /\ Goto(s, "bind")
  /\ UNCHANGED <<poolVars, sessionVars, charonVars, sweepVars, cur, lock, active>>

(* lookup_fixed, a reload that destroys the snapshot, and the copy of a    *)
(* host_t that is freed: any address comes out.  Nothing else between the  *)
(* lookup and the copy matters to them, so the three are one step.         *)
acquire_fixed_freed(s) ==
  /\ pc[s] = "choose"
  /\ ReloadRaces
  /\ FixedFor(UserOf[s]) # NULL
  /\ active' \in Policies
  /\ hand' \in [ip : Address, fixed : {TRUE}]
  /\ Goto(s, "bind")
  /\ UNCHANGED <<poolVars, sessionVars, charonVars, sweepVars, cur, lock>>

(* No fixed address, or copying it failed: the pool is asked. *)
AsksPool(s) == FixedFor(UserOf[s]) = NULL \/ AllocFails

(* Faulty: an address of the pool is marked as fixed. *)
acquire_dynamic_Fixed(s, i) ==
  /\ pc[s] = "choose"
  /\ AsksPool(s)
  /\ PoolAcquire(i)
  /\ hand' = [ip |-> StartH + i, fixed |-> TRUE]
  /\ Goto(s, "bind")
  /\ UNCHANGED <<sessionVars, charonVars, sweepVars, cur, lock, active>>

acquire_dynamic(s, i) ==
  /\ pc[s] = "choose"
  /\ AsksPool(s)
  /\ PoolAcquire(i)
  /\ hand' = [ip |-> StartH + i, fixed |-> FALSE]
  /\ Goto(s, "bind")
  /\ UNCHANGED <<sessionVars, charonVars, sweepVars, cur, lock, active>>

(* Faulty: returns without unlocking. *)
acquire_none_Locked(s) ==
  /\ pc[s] = "choose"
  /\ AsksPool(s)
  /\ PoolExhausted
  /\ Return(s)
  /\ UNCHANGED <<sessionVars, charonVars, sweepVars, lock, hand, active>>

(* No address: the pool is full, or the pool marked one as taken and then  *)
(* could not build the host_t for it (dynamic_pool.c:56-58).               *)
acquire_none(s) ==
  /\ pc[s] = "choose"
  /\ AsksPool(s)
  /\ \/ PoolExhausted
     \/ AllocFails /\ \E i \in Offset : PoolAcquire(i)
  /\ lock' = NULL
  /\ Return(s)
  /\ UNCHANGED <<sessionVars, charonVars, sweepVars, hand, active>>

acquire_bind(s) ==
  /\ pc[s] = "bind"
  /\ \E l \in Chunk :
        /\ bind_lease(UserOf[s], s, hand.ip, hand.fixed, l)
        /\ cur' = [cur EXCEPT ![s] = l]
  /\ hand' = NULL
  /\ Goto(s, "clone")
  /\ UNCHANGED <<poolVars, charonVars, sweepVars, lock, active>>

(* Faulty: returns without unlocking. *)
acquire_bind_fails_Locked(s) ==
  /\ pc[s] = "bind"
  /\ AllocFails
  /\ bind_lease_fails(UserOf[s])
  /\ hand' = NULL
  /\ Return(s)
  /\ UNCHANGED <<poolVars, charonVars, sweepVars, lock, active>>

(* lease_create failed: bind_lease destroyed the host_t, nobody tells the pool. *)
acquire_bind_fails(s) ==
  /\ pc[s] = "bind"
  /\ AllocFails
  /\ bind_lease_fails(UserOf[s])
  /\ hand' = NULL
  /\ lock' = NULL
  /\ Return(s)
  /\ UNCHANGED <<poolVars, charonVars, sweepVars, active>>

acquire_bound(s) ==
  /\ pc[s] = "clone"
  /\ ReturnAddress(s)

(* Faulty: the address is given back to the pool before the lease is found *)
(* in the table, which gives it back again.                                *)
acquire_rollback_Twice(s) ==
  /\ pc[s] = "clone"
  /\ AllocFails
  /\ PoolRelease(heap[cur[s]].ip)
  /\ lock' = NULL
  /\ cur' = [cur EXCEPT ![s] = NULL]
  /\ Goto(s, "unbind")
  /\ UNCHANGED <<sessionVars, charonVars, sweepVars, hand, active>>

(* Faulty: the lease is recycled and destroyed without being unbound. *)
acquire_rollback_Bound(s) ==
  /\ pc[s] = "clone"
  /\ AllocFails
  /\ lock' = NULL
  /\ Goto(s, "recycle")
  /\ UNCHANGED <<poolVars, sessionVars, charonVars, sweepVars, cur, hand, active>>

(* The copy failed: unlock, then roll back as release_by_uid_impl does. *)
acquire_rollback(s) ==
  /\ pc[s] = "clone"
  /\ AllocFails
  /\ lock' = NULL
  /\ cur' = [cur EXCEPT ![s] = NULL]
  /\ Goto(s, "unbind")
  /\ UNCHANGED <<poolVars, sessionVars, charonVars, sweepVars, hand, active>>

-----------------------------------------------------------------------------
(* release_by_uid_impl, for whichever process p calls it *)

(* Faulty: the user's lease is released, whichever IKE_SA it is with. *)
UidOf_User(p) ==
  CASE p = Sweeper                -> target
    [] p # Sweeper /\ by_user[UserOf[p]] # NULL -> heap[by_user[UserOf[p]]].unique_id
    [] OTHER                      -> p

UidOf(p) == IF p = Sweeper THEN target ELSE p

(* Faulty: unbind without the allocator's lock. *)
release_unbind_Unlocked(p) ==
  /\ pc[p] = "unbind"
  /\ unbind(UidOf(p))
  /\ IF by_uid[UidOf(p)] = NULL
     THEN Return(p)
     ELSE /\ cur' = [cur EXCEPT ![p] = by_uid[UidOf(p)]]
          /\ Goto(p, "recycle")
  /\ UNCHANGED <<poolVars, charonVars, sweepVars, lock, hand, active>>

(* lock, unbind, unlock *)
release_unbind(p) ==
  LET n == UidOf(p)
  IN  /\ pc[p] = "unbind"
      /\ lock = NULL
      /\ unbind(n)
      /\ IF by_uid[n] = NULL
         THEN Return(p)
         ELSE /\ cur' = [cur EXCEPT ![p] = by_uid[n]]
              /\ Goto(p, "recycle")
      /\ UNCHANGED <<poolVars, charonVars, sweepVars, lock, hand, active>>

(* Faulty: fixed addresses go back to the pool too. *)
release_recycle_Fixed(p) ==
  /\ pc[p] = "recycle"
  /\ PoolRelease(heap[cur[p]].ip)
  /\ Goto(p, "destroy")
  /\ UNCHANGED <<sessionVars, charonVars, sweepVars, cur, lock, hand, active>>

release_recycle(p) ==
  /\ pc[p] = "recycle"
  /\ IF heap[cur[p]].fixed THEN UNCHANGED poolVars ELSE PoolRelease(heap[cur[p]].ip)
  /\ Goto(p, "destroy")
  /\ UNCHANGED <<sessionVars, charonVars, sweepVars, cur, lock, hand, active>>

release_destroy(p) ==
  /\ pc[p] = "destroy"
  /\ lease_destroy(cur[p])
  /\ Return(p)
  /\ UNCHANGED <<poolVars, charonVars, sweepVars, lock, hand, active>>

-----------------------------------------------------------------------------
(* The life of an IKE_SA *)

create_sa(s) ==
  /\ sa[s] = "absent"
  /\ sa' = [sa EXCEPT ![s] = "up"]
  /\ UNCHANGED <<poolVars, sessionVars, sweepVars, vip, asked, pc, cur, lock, hand, active>>

(* The IKE_SA goes down: event_listener.c releases by its unique_id while  *)
(* the IKE_SA is still in charon's table.                                  *)
ike_updown(s) ==
  /\ sa[s] = "up"
  /\ pc[s] = "idle"
  /\ sa' = [sa EXCEPT ![s] = "down"]
  /\ Goto(s, "unbind")
  /\ UNCHANGED <<poolVars, sessionVars, sweepVars, vip, asked, cur, lock, hand, active>>

(* charon removes it from its table, with or without having seen it go down. *)
remove_sa(s) ==
  /\ InManager(s)
  /\ pc[s] = "idle"
  /\ sa' = [sa EXCEPT ![s] = "removed"]
  /\ UNCHANGED <<poolVars, sessionVars, sweepVars, vip, asked, pc, cur, lock, hand, active>>

(* Destroying it, charon returns each address it stored. *)
release_address(s) ==
  /\ sa[s] = "removed"
  /\ pc[s] = "idle"
  /\ vip[s] # << >>
  /\ vip' = [vip EXCEPT ![s] = Tail(@)]
  /\ Goto(s, "unbind")
  /\ UNCHANGED <<poolVars, sessionVars, sweepVars, sa, asked, cur, lock, hand, active>>

destroy_sa(s) ==
  /\ sa[s] = "removed"
  /\ pc[s] = "idle"
  /\ vip[s] = << >>
  /\ sa' = [sa EXCEPT ![s] = "dead"]
  /\ UNCHANGED <<poolVars, sessionVars, sweepVars, vip, asked, pc, cur, lock, hand, active>>

-----------------------------------------------------------------------------
(* sweep *)

(* foreach_expiring's snapshot, under the session table's mutex. *)
sweep(p) ==
  /\ p = Sweeper /\ SweepEnabled
  /\ pc[p] = "idle"
  /\ expiring' = Expiring
  /\ Goto(p, "sweeping")
  /\ UNCHANGED <<poolVars, sessionVars, charonVars, suspect, target, cur, lock, hand, active>>

(* What a lease pointer reads as: anything, once the lease is freed. *)
ReadUid(l) == IF heap[l] = NULL THEN Uid ELSE {heap[l].unique_id}

(* sweep_cb is called, outside the mutex, and reads lease->unique_id. *)
sweep_cb(p) ==
  /\ pc[p] = "sweeping"
  /\ \E l \in expiring, n \in Uid :
        /\ n \in ReadUid(l)
        /\ suspect' = l
        /\ target' = n
        /\ expiring' = expiring \ {l}
  /\ Goto(p, "checkout")
  /\ UNCHANGED <<poolVars, sessionVars, charonVars, cur, lock, hand, active>>

(* checkout_by_id finds the IKE_SA, once no other thread has it checked out, *)
(* and checkin returns it: not an orphan.                                  *)
sweep_alive(p) ==
  /\ pc[p] = "checkout"
  /\ InManager(target)
  /\ pc[target] = "idle"
  /\ suspect' = NULL
  /\ target' = NULL
  /\ Return(p)
  /\ UNCHANGED <<poolVars, sessionVars, charonVars, expiring, lock, hand, active>>

(* Faulty: the orphan is left alone. *)
sweep_gone_Skips(p) ==
  /\ pc[p] = "checkout"
  /\ ~InManager(target)
  /\ suspect' = NULL
  /\ target' = NULL
  /\ Return(p)
  /\ UNCHANGED <<poolVars, sessionVars, charonVars, expiring, lock, hand, active>>

(* checkout_by_id returns NULL: lease->unique_id is read again and released. *)
sweep_gone(p) ==
  /\ pc[p] = "checkout"
  /\ ~InManager(target)
  /\ Goto(p, "orphan")
  /\ UNCHANGED <<poolVars, sessionVars, charonVars, sweepVars, cur, lock, hand, active>>

sweep_release(p) ==
  /\ pc[p] = "orphan"
  /\ target' \in ReadUid(suspect)
  /\ suspect' = NULL
  /\ Goto(p, "unbind")
  /\ UNCHANGED <<poolVars, sessionVars, charonVars, expiring, cur, lock, hand, active>>

sweep_end(p) ==
  /\ pc[p] = "sweeping"
  /\ expiring = {}
  /\ target' = NULL
  /\ Goto(p, "idle")
  /\ UNCHANGED <<poolVars, sessionVars, charonVars, expiring, suspect, cur, lock, hand, active>>

-----------------------------------------------------------------------------
(* plugin reload: a new policy is in force.  The pool is the one created   *)
(* with the allocator: get_pool is not asked again.                        *)
reload(pol) ==
  /\ active # pol
  /\ active' = pol
  /\ UNCHANGED <<poolVars, sessionVars, charonVars, sweepVars, pc, cur, lock, hand>>

lease_ages(l) ==
  /\ LeaseAges(l)
  /\ UNCHANGED <<poolVars, charonVars, sweepVars, pc, cur, lock, hand, active>>

Acquiring(s) ==
  \/ acquire_lock(s)
  \/ acquire_lookup(s)
  \/ acquire_migrate(s)
  \/ acquire_reused(s)
  \/ acquire_reused_fails(s)
  \/ acquire_fixed(s)
  \/ acquire_fixed_freed(s)
  \/ \E i \in Offset : acquire_dynamic(s, i)
  \/ acquire_none(s)
  \/ acquire_bind(s)
  \/ acquire_bind_fails(s)
  \/ acquire_bound(s)
  \/ acquire_rollback(s)

Releasing(p) ==
  \/ release_unbind(p)
  \/ release_recycle(p)
  \/ release_destroy(p)

CharonCalls(s) ==
  \/ create_sa(s)
  \/ acquire_address(s)
  \/ ike_updown(s)
  \/ remove_sa(s)

Destroying(s) ==
  \/ release_address(s)
  \/ destroy_sa(s)

Sweeping(p) ==
  \/ sweep(p)
  \/ sweep_cb(p)
  \/ sweep_alive(p)
  \/ sweep_gone(p)
  \/ sweep_release(p)
  \/ sweep_end(p)

Next ==
  \/ \E s \in Uid : Acquiring(s) \/ Releasing(s) \/ CharonCalls(s) \/ Destroying(s)
  \/ Releasing(Sweeper)
  \/ Sweeping(Sweeper)
  \/ \E pol \in Policies : reload(pol)
  \/ \E l \in Chunk : lease_ages(l)

Spec == Init /\ [][Next]_vars

-----------------------------------------------------------------------------
(* Safety *)

AcquirePc == {"lookup", "migrate", "clone_reused", "choose", "bind", "clone"}

SaPc == {"idle", "lock", "unbind", "recycle", "destroy"} \cup AcquirePc

SweepPc == {"idle", "sweeping", "checkout", "orphan", "unbind", "recycle", "destroy"}

ControlTypeOK ==
  /\ sa \in [Uid -> {"absent", "up", "down", "removed", "dead"}]
  /\ vip \in [Uid -> Seq(Address)]
  /\ asked \in [Uid -> 0 .. MaxAcquire]
  /\ pc \in [Process -> SaPc \cup SweepPc]
  /\ \A s \in Uid : pc[s] \in SaPc
  /\ pc[Sweeper] \in SweepPc
  /\ cur \in [Process -> Chunk \cup {NULL}]
  /\ lock \in Uid \cup {NULL}
  /\ hand \in Hand \cup {NULL}
  /\ active \in Policies
  /\ expiring \subseteq Chunk
  /\ suspect \in Chunk \cup {NULL}
  /\ target \in Uid \cup {NULL}

IpTypeOK == PoolTypeOK /\ SessionTypeOK /\ ControlTypeOK

(* Leases on their way out: unbound, their address not given back yet. *)
Recycling == {cur[p] : p \in {q \in Process : pc[q] = "recycle"}}

(* The leases that hold an address. *)
Holding == Bound \cup Recycling

Dynamic(l) == ~heap[l].fixed

(* A pool address belongs to one lease at a time, and its bit stays set    *)
(* until that lease is given up: also while acquire_address carries it     *)
(* from the pool to bind_lease, and while a release that has left the      *)
(* allocator's lock (ip_allocator.c:70-79) still has to clear the bit.     *)
(* Fixed addresses inside the pool's range must not clear anybody's bit.   *)
(* Only dynamic leases are compared: that such a fixed address has one     *)
(* user is not said here, and is not so (FixedStaysReserved).              *)
AddressesExclusive ==
  /\ \A l \in Holding : Dynamic(l) => heap[l].ip - StartH \in bits
  /\ \A l, m \in Holding : Dynamic(l) /\ Dynamic(m) /\ l # m => heap[l].ip # heap[m].ip
  /\ hand # NULL /\ ~hand.fixed =>
        /\ hand.ip - StartH \in bits
        /\ \A l \in Holding : Dynamic(l) => heap[l].ip # hand.ip

(* Bit i has someone who will clear it: the lease that holds the address,  *)
(* or acquire_address about to bind it.                                    *)
Owned(i) ==
  \/ \E l \in Holding : Dynamic(l) /\ heap[l].ip = StartH + i
  \/ hand # NULL /\ ~hand.fixed /\ hand.ip = StartH + i

Lost == {i \in bits : ~Owned(i)}

(* No bit is set without an owner.  It would be lost to the pool until     *)
(* charon restarts; when allocations succeed, none is.                     *)
NoLeakedAddress == Lost = {}

(* Where allocations fail, an address is lost by an acquire_address that   *)
(* returns without one (the pool could not build the host_t, dynamic_pool. *)
(* c:56, or bind_lease the lease, ip_allocator.c:199) and by nobody else:  *)
(* not by its rollback, a release, the sweep or a reload.  It takes one    *)
(* address each time, and what is lost stays lost.                         *)
LossesAreFailures ==
  [][\/ Lost' = Lost
     \/ /\ AllocFails
        /\ \E i \in Offset \ Lost : Lost' = Lost \cup {i}
        /\ \E s \in Uid : pc[s] \in {"choose", "bind"} /\ pc'[s] = "idle"]_vars

(* The addresses policies assign to user u. *)
ConfiguredFor(u) == {pol.fixed[u] : pol \in Policies} \ {NULL}

PoolIps == {StartH + i : i \in Offset}

(* A fixed address, and any address outside the pool, is in the hands of   *)
(* none but a user to whom a policy assigns it, whatever its lease is      *)
(* marked as: from the lookup (ip_allocator.c:168) through bind_lease and  *)
(* however often the lease moves afterwards, and though reloads may have   *)
(* withdrawn it meanwhile.  An address inside the pool may be fixed for    *)
(* somebody else: see FixedStaysReserved.                                  *)
FixedOfTheirUser ==
  /\ \A l \in Bound : heap[l].fixed \/ heap[l].ip \notin PoolIps
       => heap[l].ip \in ConfiguredFor(heap[l].username)
  /\ \A s \in Uid : pc[s] = "bind" /\ (hand.fixed \/ hand.ip \notin PoolIps)
       => hand.ip \in ConfiguredFor(UserOf[s])

(* Each lease is destroyed by one caller.  IKE_SA down, address returned   *)
(* and sweep may all release one unique_id ("idempotent", ip_allocator.c:  *)
(* 60); only the one whose unbind found it goes on, and then no index and  *)
(* no other caller has it.                                                 *)
DestroyedByOne ==
  \A p \in Process : pc[p] \in {"recycle", "destroy"} =>
    /\ cur[p] # NULL /\ heap[cur[p]] # NULL
    /\ cur[p] \notin Bound
    /\ \A u \in User : by_user[u] # cur[p]
    /\ \A q \in Process \ {p} : pc[q] \in {"recycle", "destroy"} => cur[q] # cur[p]

(* acquire_address is one critical section: at most one thread is in it,   *)
(* its user has no lease from the lookup until the new one is bound (so    *)
(* the overwrite in bind_lease, session_manager.c:105-110, which would     *)
(* lose the old lease's pool bit, is never reached), and an address is in  *)
(* hand exactly while it waits to be bound.  The sweep's locals are set    *)
(* when it uses them.                                                      *)
AcquireIsExclusive ==
  /\ \A s \in Uid : pc[s] \in AcquirePc <=> lock = s
  /\ \A s \in Uid : pc[s] \in {"choose", "bind"} => by_user[UserOf[s]] = NULL
  /\ hand # NULL <=> \E s \in Uid : pc[s] = "bind"
  /\ pc[Sweeper] \in {"checkout", "unbind"} => target # NULL
  /\ pc[Sweeper] \in {"checkout", "orphan"} => suspect # NULL

(* The lease acquire_address found or made is still the user's own lease   *)
(* when it is moved and when its address is copied: no release and no      *)
(* other acquire comes between (session_manager.h returns a borrowed       *)
(* pointer, valid only because the allocator's lock is held).              *)
AcquiredLeaseStays ==
  \A s \in Uid : pc[s] \in {"migrate", "clone_reused", "clone"} =>
    /\ lock = s
    /\ cur[s] # NULL /\ cur[s] = by_user[UserOf[s]]
    /\ pc[s] # "migrate" => by_uid[s] = cur[s]

(* What charon stored with a connected IKE_SA is what the lease table says *)
(* it has: its lease exists and carries each of its addresses.  True when  *)
(* users do not overlap their IKE_SAs and no sweep takes leases away.      *)
VipsAreLeased ==
  \A s \in Uid : sa[s] = "up" /\ vip[s] # << >> =>
    /\ by_uid[s] # NULL
    /\ \A k \in DOMAIN vip[s] : vip[s][k] = heap[by_uid[s]].ip

(* No two users are connected with the same address (README.md:22). *)
NoSharedVip ==
  \A s, t \in Uid : sa[s] = "up" /\ sa[t] = "up" /\ UserOf[s] # UserOf[t] =>
    \A j \in DOMAIN vip[s], k \in DOMAIN vip[t] : vip[s][j] # vip[t][k]

-----------------------------------------------------------------------------
(* What the sweep promises (violated, see README.md) *)

(* sweep releases a lease only when the IKE_SA it belongs to is gone       *)
(* (ip_allocator.c:262): the lease it is about to recycle or destroy.      *)
SweepReclaimsOrphans ==
  pc[Sweeper] = "recycle" => ~InManager(heap[cur[Sweeper]].unique_id)

(* The lease pointers the sweep still holds point to leases. *)
SweepReadsLeases ==
  /\ pc[Sweeper] = "sweeping" => \A l \in expiring : heap[l] # NULL
  /\ pc[Sweeper] = "orphan" => heap[suspect] # NULL

(* A fixed address cannot be taken by others (README.md:30): nobody else   *)
(* holds an address that the policy in force fixes for user u.             *)
FixedStaysReserved ==
  \A l \in Bound, u \in User :
    heap[l].username # u => heap[l].ip # active.fixed[u]

(* A reload concerns new connections (README.deploy.md:417): a pool address *)
(* handed out belongs to the pool of the policy in force.                  *)
GrantsFollowPolicy ==
  [][\A s \in Uid : pc[s] = "choose" /\ pc'[s] = "bind" /\ ~hand'.fixed
        => hand'.ip \in active.pool]_vars

-----------------------------------------------------------------------------
(* Refinement: the lease table and the addresses of the IKE_SAs that are   *)
(* up are an AddressLeases.                                                *)

leaseOf == [u \in User |->
  IF by_user[u] = NULL THEN NULL
  ELSE [ip        |-> heap[by_user[u]].ip,
        unique_id |-> heap[by_user[u]].unique_id,
        fixed     |-> heap[by_user[u]].fixed]]

carriedOf == [s \in Uid |->
  IF sa[s] = "up" THEN {vip[s][k] : k \in DOMAIN vip[s]} ELSE {}]

FixedIps == [u \in User |-> ConfiguredFor(u)]

Abs == INSTANCE AddressLeases
         WITH lease <- leaseOf, carried <- carriedOf, PoolIp <- PoolIps, FixedIp <- FixedIps

(* Every step of the plugin and of charon is one of AddressLeases, or      *)
(* nothing at all to the users: no address is granted that another user    *)
(* holds (ip_allocator.c:167-199), and no lease is revoked or moved away   *)
(* from an IKE_SA that is connected with its address, as a release that    *)
(* comes late could (ip_allocator.c:60-86).  True under the conditions of  *)
(* VipsAreLeased, with fixed addresses kept apart and no reload while one  *)
(* is copied.                                                              *)
ImplementsAddressLeases == Abs!LeasesSpec

-----------------------------------------------------------------------------
(* Liveness *)

(* A thread that has entered a call or is destroying an IKE_SA goes on;    *)
(* the sweep job is rescheduled for ever (plugin.c:120) and time passes.   *)
Fairness ==
  /\ \A s \in Uid : /\ WF_vars(Acquiring(s))
                    /\ WF_vars(Releasing(s))
                    /\ WF_vars(Destroying(s))
  /\ WF_vars(Releasing(Sweeper))
  /\ WF_vars(Sweeping(Sweeper))
  /\ \A l \in Chunk : WF_vars(lease_ages(l))

FairSpec == Spec /\ Fairness

(* acquire_address, release_address and ike_updown return: nobody waits    *)
(* for ever for the allocator's lock, whatever fails on the way.           *)
CallsReturn == \A s \in Uid : (pc[s] # "idle") ~> (pc[s] = "idle")

(* A lease whose IKE_SA is gone is given up, or moves to another IKE_SA of *)
(* its user: when no call released it, the sweep does (ip_allocator.h:35). *)
OrphanReclaimed ==
  \A s \in Uid :
    (sa[s] \in {"removed", "dead"} /\ by_uid[s] # NULL) ~> (by_uid[s] = NULL)
=============================================================================
