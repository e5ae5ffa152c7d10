-------------------------- MODULE IpAllocatorProofs -------------------------
(***************************************************************************)
(* Proofs about IpAllocator, for any number of IKE_SAs, users and chunks,  *)
(* any pool and policies, with allocations that fail and with the sweep.   *)
(*                                                                         *)
(* The inductive invariant joins the pool's and the session table's own    *)
(* invariants to three facts about the processes: acquire_address runs     *)
(* alone, the lease it works on stays, and a lease on its way out has one  *)
(* owner.  AddressesExclusive is inductive only together with them.        *)
(***************************************************************************)
EXTENDS IpAllocator, DynamicPoolProofs, SessionManagerProofs

IInv ==
  /\ PoolInv
  /\ SessionInv
  /\ ControlTypeOK
  /\ AcquireIsExclusive
  /\ AcquiredLeaseStays
  /\ DestroyedByOne
  /\ AddressesExclusive

(* What the assumptions on the constants say, for the SMT backend. *)
LEMMA ConstantFacts ==
  /\ Sweeper \notin Uid /\ Uid \subseteq Process /\ Sweeper \in Process
  /\ NULL \notin Uid /\ NULL # Sweeper /\ NULL \notin Chunk /\ NULL \notin Lease
  /\ NULL \notin Hand /\ NULL \notin Address
  /\ LeaseIp = Address /\ Address \subseteq Nat /\ StartH \in Nat
  /\ UserOf \in [Uid -> User]
  /\ MaxAcquire \in Nat
BY AllocatorAssumption, SessionAssumption, PoolAssumption DEF Process

(* Nothing is leased and nobody is in a call. *)
LEMMA InitOK == Init => IInv
<1>. SUFFICES ASSUME Init PROVE IInv
  OBVIOUS
<1>1. PoolInv /\ SessionInv
  BY PoolInitOK, SessionInitOK DEF Init
<1>2. ControlTypeOK
  BY ConstantFacts DEF Init, ControlTypeOK, SaPc, SweepPc
<1>3. AcquireIsExclusive /\ AcquiredLeaseStays /\ DestroyedByOne
  BY ConstantFacts DEF Init, AcquireIsExclusive, AcquiredLeaseStays, DestroyedByOne,
                       AcquirePc, Process
<1>4. Holding = {} /\ hand = NULL
  BY ConstantFacts DEF Init, SessionInit, Holding, Bound, Recycling
<1>5. AddressesExclusive
  BY <1>4 DEF AddressesExclusive
<1>. QED  BY <1>1, <1>2, <1>3, <1>5 DEF IInv

-----------------------------------------------------------------------------
(* Who holds addresses *)

(* The leases that hold an address exist and carry one. *)
LEMMA HoldingAreLeases ==
  ASSUME IInv
  PROVE  /\ \A l \in Holding : /\ l \in Chunk /\ heap[l] \in Lease /\ heap[l] # NULL
                               /\ heap[l].ip \in Nat /\ heap[l].fixed \in BOOLEAN
         /\ \A u \in User : by_user[u] # NULL => by_user[u] \in Bound
<1>1. \A l \in Bound : l \in Chunk /\ heap[l] \in Lease
  BY FiledOnce, ConstantFacts DEF IInv, Bound
<1>2. \A l \in Recycling : l \in Chunk /\ heap[l] \in Lease
  BY ConstantFacts
     DEF IInv, Recycling, DestroyedByOne, ControlTypeOK, SessionInv, SessionTypeOK
<1>3. \A l \in Holding : l \in Chunk /\ heap[l] \in Lease
  BY <1>1, <1>2 DEF Holding
<1>4. \A u \in User : by_user[u] # NULL => by_user[u] \in Bound
  BY FiledOnce DEF IInv, Bound
<1>. QED  BY <1>3, <1>4, ConstantFacts DEF Lease

(* A step keeps the addresses exclusive if no lease starts to hold one, no *)
(* lease changes its address, no bit is cleared and nothing new is in hand. *)
LEMMA ExclusiveFrame ==
  ASSUME AddressesExclusive,
         Holding' \subseteq Holding,
         \A l \in Holding' : heap'[l].ip = heap[l].ip /\ heap'[l].fixed = heap[l].fixed,
         bits \subseteq bits',
         hand' = hand \/ hand' = NULL \/ hand'.fixed
  PROVE  AddressesExclusive'
BY DEF AddressesExclusive, Dynamic

(* A step of any process that touches neither the pool nor the table. *)
LEMMA QuietStep ==
  ASSUME IInv, UNCHANGED <<poolVars, sessionVars>>,
         ControlTypeOK', AcquireIsExclusive', AcquiredLeaseStays',
         \A q \in Process : pc'[q] \in {"recycle", "destroy"} =>
                              pc'[q] = pc[q] /\ cur'[q] = cur[q],
         hand' = hand \/ hand' = NULL \/ hand'.fixed
  PROVE  IInv'
<1>1. PoolInv' /\ SessionInv'
  BY PoolUnchangedOK, SessionUnchangedOK DEF IInv
<1>2. DestroyedByOne'
  BY DEF IInv, DestroyedByOne, Bound, sessionVars
<1>3. Holding' \subseteq Holding
  BY DEF Holding, Bound, Recycling, sessionVars
<1>4. AddressesExclusive'
  BY <1>3, ExclusiveFrame DEF IInv, poolVars, sessionVars
<1>. QED  BY <1>1, <1>2, <1>4 DEF IInv

-----------------------------------------------------------------------------
(* The steps that only move a process along: calls and the life of an      *)
(* IKE_SA, acquire_address before and after it touches the tables, and the *)
(* sweep's.                                                                *)
(* charon's calls only start something. *)
LEMMA CharonOK == ASSUME IInv, NEW s \in Uid, CharonCalls(s) PROVE IInv'
<1>. USE ConstantFacts DEF IInv, ControlTypeOK, Process, Goto, Return,
                           poolVars, sessionVars, charonVars, sweepVars
<1>1. CASE create_sa(s)
  <2>1. ControlTypeOK'
    BY <1>1 DEF SaPc, SweepPc, create_sa
  <2>2. AcquireIsExclusive' /\ AcquiredLeaseStays'
    BY <1>1 DEF AcquireIsExclusive, AcquiredLeaseStays, AcquirePc, create_sa
  <2>. QED  BY <1>1, <2>1, <2>2, QuietStep DEF create_sa
<1>2. CASE acquire_address(s)
  <2>1. ControlTypeOK'
    BY <1>2 DEF SaPc, SweepPc, acquire_address
  <2>2. AcquireIsExclusive' /\ AcquiredLeaseStays'
    BY <1>2 DEF AcquireIsExclusive, AcquiredLeaseStays, AcquirePc, acquire_address
  <2>. QED  BY <1>2, <2>1, <2>2, QuietStep DEF acquire_address
<1>3. CASE ike_updown(s)
  <2>1. ControlTypeOK'
    BY <1>3 DEF SaPc, SweepPc, ike_updown
  <2>2. AcquireIsExclusive' /\ AcquiredLeaseStays'
    BY <1>3 DEF AcquireIsExclusive, AcquiredLeaseStays, AcquirePc, ike_updown
  <2>. QED  BY <1>3, <2>1, <2>2, QuietStep DEF ike_updown
<1>4. CASE remove_sa(s)
  <2>1. ControlTypeOK'
    BY <1>4 DEF SaPc, SweepPc, remove_sa
  <2>2. AcquireIsExclusive' /\ AcquiredLeaseStays'
    BY <1>4 DEF AcquireIsExclusive, AcquiredLeaseStays, AcquirePc, remove_sa
  <2>. QED  BY <1>4, <2>1, <2>2, QuietStep DEF remove_sa
<1>. QED  BY <1>1, <1>2, <1>3, <1>4 DEF CharonCalls

(* An IKE_SA being destroyed calls release_address or is gone. *)
LEMMA DestroyingOK == ASSUME IInv, NEW s \in Uid, Destroying(s) PROVE IInv'
<1>. USE ConstantFacts DEF IInv, ControlTypeOK, Process, Goto, Return,
                           poolVars, sessionVars, charonVars, sweepVars
<1>1. CASE release_address(s)
  <2>1. ControlTypeOK'
    BY <1>1 DEF SaPc, SweepPc, release_address
  <2>2. AcquireIsExclusive' /\ AcquiredLeaseStays'
    BY <1>1 DEF AcquireIsExclusive, AcquiredLeaseStays, AcquirePc, release_address
  <2>. QED  BY <1>1, <2>1, <2>2, QuietStep DEF release_address
<1>2. CASE destroy_sa(s)
  <2>1. ControlTypeOK'
    BY <1>2 DEF SaPc, SweepPc, destroy_sa
  <2>2. AcquireIsExclusive' /\ AcquiredLeaseStays'
    BY <1>2 DEF AcquireIsExclusive, AcquiredLeaseStays, AcquirePc, destroy_sa
  <2>. QED  BY <1>2, <2>1, <2>2, QuietStep DEF destroy_sa
<1>. QED  BY <1>1, <1>2 DEF Destroying

(* The sweep, up to the release it asks for. *)
LEMMA SweepingOK == ASSUME IInv, Sweeping(Sweeper) PROVE IInv'
<1>. USE ConstantFacts DEF IInv, ControlTypeOK, Process, Goto, Return,
                           poolVars, sessionVars, charonVars, sweepVars
<1>1. CASE sweep(Sweeper)
  <2>0. Expiring \subseteq Chunk
    BY DEF SessionInv, SessionTypeOK, Expiring
  <2>1. ControlTypeOK'
    BY <1>1, <2>0 DEF SaPc, SweepPc, sweep
  <2>2. AcquireIsExclusive' /\ AcquiredLeaseStays'
    BY <1>1, <2>0 DEF AcquireIsExclusive, AcquiredLeaseStays, AcquirePc, sweep
  <2>. QED  BY <1>1, <2>1, <2>2, QuietStep DEF sweep
<1>2. CASE sweep_cb(Sweeper)
  <2>0. \A l \in Chunk : ReadUid(l) \subseteq Uid
    BY DEF SessionInv, SessionTypeOK, ReadUid, Lease
  <2>1. ControlTypeOK'
    BY <1>2, <2>0 DEF SaPc, SweepPc, sweep_cb
  <2>2. AcquireIsExclusive' /\ AcquiredLeaseStays'
    BY <1>2, <2>0 DEF AcquireIsExclusive, AcquiredLeaseStays, AcquirePc, sweep_cb
  <2>. QED  BY <1>2, <2>1, <2>2, QuietStep DEF sweep_cb
<1>3. CASE sweep_alive(Sweeper)
  <2>1. ControlTypeOK'
    BY <1>3 DEF SaPc, SweepPc, sweep_alive
  <2>2. AcquireIsExclusive' /\ AcquiredLeaseStays'
    BY <1>3 DEF AcquireIsExclusive, AcquiredLeaseStays, AcquirePc, sweep_alive
  <2>. QED  BY <1>3, <2>1, <2>2, QuietStep DEF sweep_alive
<1>4. CASE sweep_gone(Sweeper)
  <2>1. ControlTypeOK'
    BY <1>4 DEF SaPc, SweepPc, sweep_gone
  <2>2. AcquireIsExclusive' /\ AcquiredLeaseStays'
    BY <1>4 DEF AcquireIsExclusive, AcquiredLeaseStays, AcquirePc, sweep_gone
  <2>. QED  BY <1>4, <2>1, <2>2, QuietStep DEF sweep_gone
<1>5. CASE sweep_release(Sweeper)
  <2>0. target' \in Uid
    BY <1>5
       DEF sweep_release, AcquireIsExclusive, SessionInv, SessionTypeOK, ReadUid, Lease
  <2>1. ControlTypeOK'
    BY <1>5, <2>0 DEF SaPc, SweepPc, sweep_release
  <2>2. AcquireIsExclusive' /\ AcquiredLeaseStays'
    BY <1>5, <2>0
       DEF AcquireIsExclusive, AcquiredLeaseStays, AcquirePc, sweep_release
  <2>. QED  BY <1>5, <2>1, <2>2, QuietStep DEF sweep_release
<1>6. CASE sweep_end(Sweeper)
  <2>1. ControlTypeOK'
    BY <1>6 DEF SaPc, SweepPc, sweep_end
  <2>2. AcquireIsExclusive' /\ AcquiredLeaseStays'
    BY <1>6 DEF AcquireIsExclusive, AcquiredLeaseStays, AcquirePc, sweep_end
  <2>. QED  BY <1>6, <2>1, <2>2, QuietStep DEF sweep_end
<1>. QED  BY <1>1, <1>2, <1>3, <1>4, <1>5, <1>6 DEF Sweeping

-----------------------------------------------------------------------------
(* acquire_address.  These steps touch neither the pool nor the table.     *)

(* The lease it found or made carries an address. *)
LEMMA AcquiredIp ==
  ASSUME IInv, NEW s \in Uid, pc[s] \in {"clone_reused", "clone"}
  PROVE  heap[cur[s]].ip \in Address
<1>1. UserOf[s] \in User /\ cur[s] # NULL /\ cur[s] = by_user[UserOf[s]]
  BY ConstantFacts DEF IInv, AcquiredLeaseStays
<1>2. heap[cur[s]] \in Lease
  BY <1>1, FiledOnce DEF IInv
<1>. QED  BY <1>2, ConstantFacts DEF Lease

(* Locking, looking up, choosing a fixed address, copying, returning. *)
LEMMA AcquireQuietOK ==
  ASSUME IInv, NEW s \in Uid,
         \/ acquire_lock(s) \/ acquire_lookup(s)
         \/ acquire_fixed(s) \/ acquire_fixed_freed(s)
         \/ acquire_reused(s) \/ acquire_reused_fails(s)
         \/ acquire_bound(s) \/ acquire_rollback(s)
  PROVE  IInv'
<1>. UserOf[s] \in User /\ s \in Process
  BY ConstantFacts
<1>. USE ConstantFacts DEF IInv, ControlTypeOK, Process, Goto, Return,
                           poolVars, sessionVars, charonVars, sweepVars
<1>1. CASE acquire_lock(s)
  <2>1. ControlTypeOK'
    BY <1>1 DEF SaPc, SweepPc, AcquirePc, acquire_lock
  <2>2. AcquireIsExclusive' /\ AcquiredLeaseStays'
    BY <1>1 DEF AcquireIsExclusive, AcquiredLeaseStays, AcquirePc, acquire_lock
  <2>. QED  BY <1>1, <2>1, <2>2, QuietStep DEF acquire_lock
<1>2. CASE acquire_lookup(s)
  <2>0. by_user[UserOf[s]] \in Chunk \cup {NULL}
    BY DEF SessionInv, SessionTypeOK
  <2>1. ControlTypeOK'
    BY <1>2, <2>0 DEF SaPc, SweepPc, AcquirePc, acquire_lookup
  <2>2. AcquireIsExclusive' /\ AcquiredLeaseStays'
    BY <1>2, <2>0
       DEF AcquireIsExclusive, AcquiredLeaseStays, AcquirePc, acquire_lookup
  <2>. QED  BY <1>2, <2>0, <2>1, <2>2, QuietStep DEF acquire_lookup
<1>3. CASE acquire_reused(s)
  <2>0. heap[cur[s]].ip \in Address
    BY <1>3, AcquiredIp DEF acquire_reused
  <2>1. ControlTypeOK'
    BY <1>3, <2>0 DEF SaPc, SweepPc, AcquirePc, acquire_reused, ReturnAddress
  <2>2. AcquireIsExclusive' /\ AcquiredLeaseStays'
    BY <1>3, <2>0
       DEF AcquireIsExclusive, AcquiredLeaseStays, AcquirePc, acquire_reused, ReturnAddress
  <2>. QED  BY <1>3, <2>0, <2>1, <2>2, QuietStep DEF acquire_reused, ReturnAddress
<1>4. CASE acquire_reused_fails(s)
  <2>1. ControlTypeOK'
    BY <1>4 DEF SaPc, SweepPc, AcquirePc, acquire_reused_fails
  <2>2. AcquireIsExclusive' /\ AcquiredLeaseStays'
    BY <1>4
       DEF AcquireIsExclusive, AcquiredLeaseStays, AcquirePc, acquire_reused_fails
  <2>. QED  BY <1>4, <2>1, <2>2, QuietStep DEF acquire_reused_fails
<1>5. CASE acquire_bound(s)
  <2>0. heap[cur[s]].ip \in Address
    BY <1>5, AcquiredIp DEF acquire_bound
  <2>1. ControlTypeOK'
    BY <1>5, <2>0 DEF SaPc, SweepPc, AcquirePc, acquire_bound, ReturnAddress
  <2>2. AcquireIsExclusive' /\ AcquiredLeaseStays'
    BY <1>5, <2>0
       DEF AcquireIsExclusive, AcquiredLeaseStays, AcquirePc, acquire_bound, ReturnAddress
  <2>. QED  BY <1>5, <2>0, <2>1, <2>2, QuietStep DEF acquire_bound, ReturnAddress
<1>6. CASE acquire_fixed(s) \/ acquire_fixed_freed(s)
  <2>0. hand' \in Hand /\ hand'.fixed
    <3>1. CASE acquire_fixed(s)
      BY <3>1, AllocatorAssumption DEF acquire_fixed, FixedFor, Hand
    <3>2. CASE acquire_fixed_freed(s)
      <4>1. PICK h \in [ip : Address, fixed : {TRUE}] : hand' = h
        BY <3>2 DEF acquire_fixed_freed
      <4>. QED  BY <4>1 DEF Hand
    <3>. QED  BY <1>6, <3>1, <3>2
  <2>1. /\ active' \in Policies /\ pc[s] = "choose" /\ pc' = [pc EXCEPT ![s] = "bind"]
        /\ UNCHANGED <<poolVars, sessionVars, charonVars, sweepVars, cur, lock>>
    BY <1>6 DEF acquire_fixed, acquire_fixed_freed
  <2>2. ControlTypeOK'
    BY <2>0, <2>1 DEF SaPc, SweepPc, AcquirePc
  <2>3. AcquireIsExclusive' /\ AcquiredLeaseStays'
    BY <2>0, <2>1 DEF AcquireIsExclusive, AcquiredLeaseStays, AcquirePc
  <2>. QED  BY <2>0, <2>1, <2>2, <2>3, QuietStep
<1>7. CASE acquire_rollback(s)
  <2>1. ControlTypeOK'
    BY <1>7 DEF SaPc, SweepPc, AcquirePc, acquire_rollback
  <2>2. AcquireIsExclusive' /\ AcquiredLeaseStays'
    BY <1>7 DEF AcquireIsExclusive, AcquiredLeaseStays, AcquirePc, acquire_rollback
  <2>. QED  BY <1>7, <2>1, <2>2, QuietStep DEF acquire_rollback
<1>. QED  BY <1>1, <1>2, <1>3, <1>4, <1>5, <1>6, <1>7

(* Taking an address from the pool, or finding it full. *)
LEMMA AcquireDynamicOK ==
  ASSUME IInv, NEW s \in Uid, NEW i \in Offset, acquire_dynamic(s, i) PROVE IInv'
<1>1. PoolInv' /\ SessionInv'
  BY PoolAcquireOK, SessionUnchangedOK DEF acquire_dynamic, IInv
<1>2. StartH + i \in Address /\ i \in Nat /\ hand' = [ip |-> StartH + i, fixed |-> FALSE]
  BY PoolAssumption DEF acquire_dynamic, Offset, Capacity
<1>3. hand' \in Hand
  BY <1>2 DEF Hand
<1>4. ControlTypeOK'
  BY <1>3, ConstantFacts
     DEF acquire_dynamic, IInv, ControlTypeOK, Process, SaPc, AcquirePc, Goto,
         charonVars, sweepVars
<1>5. AcquireIsExclusive' /\ AcquiredLeaseStays'
  BY <1>3, ConstantFacts
     DEF acquire_dynamic, IInv, ControlTypeOK, AcquireIsExclusive, AcquiredLeaseStays,
         Process, AcquirePc, Goto, sessionVars, sweepVars
<1>6. /\ \A q \in Process : pc'[q] \in {"recycle", "destroy"} <=>
                             pc[q] \in {"recycle", "destroy"}
      /\ \A q \in Process : pc'[q] = "recycle" <=> pc[q] = "recycle"
      /\ UNCHANGED <<by_uid, by_user, heap, cur>>
  BY ConstantFacts DEF acquire_dynamic, Goto, IInv, ControlTypeOK, sessionVars
<1>7. DestroyedByOne'
  BY <1>6 DEF IInv, DestroyedByOne, Bound
<1>8. Holding' = Holding
  BY <1>6 DEF Holding, Bound, Recycling
<1>9. AddressesExclusive'
  <2>1. bits' = bits \cup {i} /\ i \notin bits
    BY DEF acquire_dynamic, PoolAcquire, Free
  <2>2. \A l \in Holding : Dynamic(l) => heap[l].ip - StartH \in bits /\ heap[l].ip \in Nat
    BY HoldingAreLeases DEF IInv, AddressesExclusive
  <2>3. \A l \in Holding : Dynamic(l) => heap[l].ip # StartH + i
    BY <1>2, <2>1, <2>2, ConstantFacts
  <2>4. hand'.ip = StartH + i /\ hand'.ip - StartH = i
    BY <1>2, ConstantFacts
  <2>. QED  BY <1>6, <1>8, <2>1, <2>2, <2>3, <2>4 DEF IInv, AddressesExclusive, Dynamic
<1>. QED  BY <1>1, <1>4, <1>5, <1>7, <1>9 DEF IInv

(* No address: at most a bit was set that nobody holds. *)
LEMMA AcquireNoneOK ==
  ASSUME IInv, NEW s \in Uid, acquire_none(s) PROVE IInv'
<1>1. PoolInv' /\ SessionInv' /\ bits \subseteq bits'
  <2>1. CASE UNCHANGED poolVars
    BY <2>1, PoolUnchangedOK, SessionUnchangedOK DEF acquire_none, IInv, poolVars
  <2>2. ASSUME NEW i \in Offset, PoolAcquire(i)
        PROVE  PoolInv' /\ SessionInv' /\ bits \subseteq bits'
    BY <2>2, PoolAcquireOK, SessionUnchangedOK DEF acquire_none, IInv, PoolAcquire
  <2>. QED  BY <2>1, <2>2 DEF acquire_none, PoolExhausted
<1>2. ControlTypeOK'
  BY ConstantFacts
     DEF acquire_none, IInv, ControlTypeOK, Process, SaPc, Goto, Return,
         charonVars, sweepVars
<1>3. AcquireIsExclusive' /\ AcquiredLeaseStays'
  BY ConstantFacts
     DEF acquire_none, IInv, ControlTypeOK, AcquireIsExclusive, AcquiredLeaseStays,
         Process, AcquirePc, Goto, Return, sessionVars, sweepVars
<1>4. /\ \A q \in Process : pc'[q] \in {"recycle", "destroy"} =>
                             pc'[q] = pc[q] /\ cur'[q] = cur[q]
      /\ UNCHANGED <<by_uid, by_user, heap, hand>>
  BY ConstantFacts DEF acquire_none, Goto, Return, IInv, ControlTypeOK, sessionVars
<1>5. DestroyedByOne'
  BY <1>4 DEF IInv, DestroyedByOne, Bound
<1>6. Holding' \subseteq Holding
  BY <1>4 DEF Holding, Bound, Recycling
<1>7. AddressesExclusive'
  BY <1>1, <1>4, <1>6, ExclusiveFrame DEF IInv
<1>. QED  BY <1>1, <1>2, <1>3, <1>5, <1>7 DEF IInv

(* Moving the user's lease to this IKE_SA. *)
LEMMA AcquireMigrateOK ==
  ASSUME IInv, NEW s \in Uid, acquire_migrate(s) PROVE IInv'
<1>0. UserOf[s] \in User /\ by_user[UserOf[s]] = cur[s] /\ cur[s] # NULL /\ lock = s
  BY ConstantFacts DEF acquire_migrate, IInv, AcquiredLeaseStays
<1>1. /\ SessionInv' /\ by_user' = by_user /\ Bound' \subseteq Bound
      /\ by_uid'[s] = cur[s]
      /\ \A k \in Chunk : /\ heap'[k] = NULL <=> heap[k] = NULL
                          /\ heap'[k].ip = heap[k].ip /\ heap'[k].fixed = heap[k].fixed
  BY <1>0, MigrateOK DEF acquire_migrate, IInv
<1>2. PoolInv'
  BY PoolUnchangedOK DEF acquire_migrate, IInv
<1>3. ControlTypeOK'
  BY ConstantFacts
     DEF acquire_migrate, IInv, ControlTypeOK, Process, SaPc, AcquirePc, Goto,
         charonVars, sweepVars
<1>4. AcquireIsExclusive' /\ AcquiredLeaseStays'
  BY <1>0, <1>1, ConstantFacts
     DEF acquire_migrate, IInv, ControlTypeOK, AcquireIsExclusive, AcquiredLeaseStays,
         Process, AcquirePc, Goto, sweepVars
<1>5. /\ \A q \in Process : pc'[q] \in {"recycle", "destroy"} => pc'[q] = pc[q]
      /\ UNCHANGED <<cur, hand, bits>>
  BY ConstantFacts DEF acquire_migrate, Goto, IInv, ControlTypeOK, poolVars
<1>6. DestroyedByOne'
  BY <1>1, <1>5 DEF IInv, DestroyedByOne, ControlTypeOK
<1>7. Holding' \subseteq Holding
  BY <1>1, <1>5 DEF Holding, Recycling
<1>8. AddressesExclusive'
  BY <1>1, <1>5, <1>7, HoldingAreLeases, ExclusiveFrame DEF IInv
<1>. QED  BY <1>1, <1>2, <1>3, <1>4, <1>6, <1>8 DEF IInv

(* Binding the address in hand to a new lease. *)
LEMMA AcquireBindOK ==
  ASSUME IInv, NEW s \in Uid, acquire_bind(s) PROVE IInv'
<1>0. PICK l \in Chunk : /\ bind_lease(UserOf[s], s, hand.ip, hand.fixed, l)
                         /\ cur' = [cur EXCEPT ![s] = l]
  BY DEF acquire_bind
<1>1. /\ UserOf[s] \in User /\ by_user[UserOf[s]] = NULL /\ lock = s
      /\ hand \in Hand /\ hand.ip \in Address /\ hand.fixed \in BOOLEAN
  BY ConstantFacts
     DEF acquire_bind, IInv, AcquireIsExclusive, AcquirePc, ControlTypeOK, Hand
<1>2. /\ SessionInv' /\ by_uid'[s] = l /\ by_user'[UserOf[s]] = l
      /\ heap'[l] = lease_create(UserOf[s], s, hand.ip, hand.fixed)
      /\ Bound' \subseteq Bound \cup {l}
      /\ heap[l] = NULL /\ \A k \in Chunk \ {l} : heap'[k] = heap[k]
  BY <1>0, <1>1, BindOK, ConstantFacts DEF IInv
<1>3. PoolInv'
  BY PoolUnchangedOK DEF acquire_bind, IInv
<1>4. ControlTypeOK'
  BY <1>0, ConstantFacts
     DEF acquire_bind, IInv, ControlTypeOK, Process, SaPc, AcquirePc, Goto,
         charonVars, sweepVars
<1>5. AcquireIsExclusive' /\ AcquiredLeaseStays'
  BY <1>0, <1>1, <1>2, ConstantFacts
     DEF acquire_bind, IInv, ControlTypeOK, AcquireIsExclusive, AcquiredLeaseStays,
         Process, AcquirePc, Goto, sweepVars
<1>6. /\ \A q \in Process : pc'[q] \in {"recycle", "destroy"} =>
                              q # s /\ pc'[q] = pc[q] /\ cur'[q] = cur[q]
      /\ UNCHANGED bits /\ hand' = NULL
  BY <1>0, ConstantFacts DEF acquire_bind, Goto, IInv, ControlTypeOK, poolVars
<1>7. DestroyedByOne'
  <2>. SUFFICES ASSUME NEW q \in Process, pc'[q] \in {"recycle", "destroy"}
       PROVE  /\ cur'[q] # NULL /\ heap'[cur'[q]] # NULL /\ cur'[q] \notin Bound'
              /\ \A u \in User : by_user'[u] # cur'[q]
              /\ \A r \in Process \ {q} : pc'[r] \in {"recycle", "destroy"} => cur'[r] # cur'[q]
    BY DEF DestroyedByOne
  <2>1. /\ cur[q] \in Chunk /\ heap[cur[q]] # NULL /\ cur[q] \notin Bound
        /\ cur'[q] = cur[q] /\ cur[q] # l
    BY <1>2, <1>6 DEF IInv, DestroyedByOne, ControlTypeOK
  <2>2. cur[q] \notin Bound'
    BY <1>2, <2>1
  <2>3. \A u \in User : by_user'[u] # cur[q]
    <3>1. \A u \in User : by_user'[u] = by_user[u] \/ by_user'[u] = l
      BY <1>0, <1>2 DEF bind_lease, IInv, SessionInv, SessionTypeOK
    <3>. QED  BY <1>6, <2>1, <3>1 DEF IInv, DestroyedByOne
  <2>. QED  BY <1>2, <1>6, <2>1, <2>2, <2>3 DEF IInv, DestroyedByOne
<1>8. Holding' \subseteq Holding \cup {l}
  BY <1>2, <1>6 DEF Holding, Recycling
<1>9. AddressesExclusive'
  <2>1. heap'[l].ip = hand.ip /\ heap'[l].fixed = hand.fixed
    BY <1>2 DEF lease_create
  <2>2. \A k \in Holding : k # l /\ heap'[k] = heap[k]
    BY <1>2, HoldingAreLeases
  <2>3. hand # NULL
    BY <1>1, ConstantFacts
  <2>. QED  BY <1>6, <1>8, <2>1, <2>2, <2>3 DEF IInv, AddressesExclusive, Dynamic
<1>. QED  BY <1>2, <1>3, <1>4, <1>5, <1>7, <1>9 DEF IInv

(* The address in hand is dropped; its bit stays set. *)
LEMMA AcquireBindFailsOK ==
  ASSUME IInv, NEW s \in Uid, acquire_bind_fails(s) PROVE IInv'
<1>1. UserOf[s] \in User /\ by_user[UserOf[s]] = NULL /\ lock = s
  BY ConstantFacts DEF acquire_bind_fails, IInv, AcquireIsExclusive, AcquirePc
<1>2. SessionInv' /\ by_user'[UserOf[s]] = NULL /\ Bound' \subseteq Bound /\ heap' = heap
  BY <1>1, BindFailsOK DEF acquire_bind_fails, IInv
<1>3. by_user' = by_user
  BY <1>1 DEF acquire_bind_fails, bind_lease_fails, IInv, SessionInv, SessionTypeOK
<1>4. PoolInv'
  BY PoolUnchangedOK DEF acquire_bind_fails, IInv
<1>5. ControlTypeOK'
  BY ConstantFacts
     DEF acquire_bind_fails, IInv, ControlTypeOK, Process, SaPc, Goto, Return,
         charonVars, sweepVars
<1>6. AcquireIsExclusive' /\ AcquiredLeaseStays'
  BY <1>1, <1>3, ConstantFacts
     DEF acquire_bind_fails, IInv, ControlTypeOK, AcquireIsExclusive, AcquiredLeaseStays,
         Process, AcquirePc, Goto, Return, sweepVars
<1>7. /\ \A q \in Process : pc'[q] \in {"recycle", "destroy"} =>
                              pc'[q] = pc[q] /\ cur'[q] = cur[q]
      /\ UNCHANGED bits /\ hand' = NULL
  BY ConstantFacts DEF acquire_bind_fails, Goto, Return, IInv, ControlTypeOK, poolVars
<1>8. DestroyedByOne'
  BY <1>2, <1>3, <1>7 DEF IInv, DestroyedByOne
<1>9. Holding' \subseteq Holding
  BY <1>2, <1>7 DEF Holding, Recycling
<1>10. AddressesExclusive'
  BY <1>2, <1>7, <1>9, ExclusiveFrame DEF IInv
<1>. QED  BY <1>2, <1>4, <1>5, <1>6, <1>8, <1>10 DEF IInv

-----------------------------------------------------------------------------
(* release_by_uid_impl, in whichever process *)

(* unbind hands the lease to one caller, or finds nothing. *)
LEMMA ReleaseUnbindOK ==
  ASSUME IInv, NEW p \in Process, release_unbind(p) PROVE IInv'
<1>. DEFINE n == UidOf(p)  l == by_uid[n]
<1>0. n \in Uid /\ lock = NULL
  BY ConstantFacts DEF release_unbind, UidOf, IInv, AcquireIsExclusive, ControlTypeOK, Process
<1>1. /\ SessionInv' /\ heap' = heap
      /\ \A m \in Uid : by_uid'[m] = IF m = n THEN NULL ELSE by_uid[m]
      /\ \A u \in User : by_user'[u] = IF l # NULL /\ u = UserOf[n] THEN NULL ELSE by_user[u]
  BY <1>0, UnbindOK DEF release_unbind, IInv
<1>2. l # NULL => /\ l \in Chunk /\ heap[l] # NULL /\ l \in Bound
                  /\ \A m \in Uid : m # n => by_uid[m] # l
                  /\ \A u \in User : u # UserOf[n] => by_user[u] # l
  BY <1>0, FiledOnce, ConstantFacts DEF IInv, Bound
<1>3. /\ cur' = [cur EXCEPT ![p] = l]
      /\ pc' = [pc EXCEPT ![p] = IF l # NULL THEN "recycle"
                                 ELSE IF p = Sweeper THEN "sweeping" ELSE "idle"]
      /\ UNCHANGED <<lock, hand, bits>>
  BY DEF release_unbind, Goto, Return, poolVars
<1>4. PoolInv'
  BY PoolUnchangedOK DEF release_unbind, IInv
<1>5. l \in Chunk \cup {NULL}
  BY <1>2
<1>6. Bound' \subseteq Bound /\ (l # NULL => l \notin Bound')
  BY <1>0, <1>1, <1>2, ConstantFacts DEF Bound
<1>. HIDE DEF l, n
<1>7. ControlTypeOK'
  BY <1>3, <1>5, ConstantFacts
     DEF release_unbind, IInv, ControlTypeOK, Process, SaPc, SweepPc, charonVars, sweepVars
<1>8. AcquireIsExclusive' /\ AcquiredLeaseStays'
  BY <1>0, <1>3, ConstantFacts
     DEF release_unbind, IInv, ControlTypeOK, AcquireIsExclusive, AcquiredLeaseStays,
         Process, AcquirePc, sweepVars
<1>9. \A q \in Process : /\ q # p => pc'[q] = pc[q] /\ cur'[q] = cur[q]
                         /\ q = p => cur'[q] = l
                         /\ q = p /\ pc'[q] \in {"recycle", "destroy"} =>
                              l # NULL /\ pc'[q] = "recycle"
  BY <1>3 DEF IInv, ControlTypeOK
<1>10. DestroyedByOne'
  <2>1. ASSUME NEW q \in Process, q # p, pc[q] \in {"recycle", "destroy"}
        PROVE  /\ cur[q] # NULL /\ heap[cur[q]] # NULL /\ cur[q] \notin Bound
               /\ \A u \in User : by_user[u] # cur[q]
    BY <2>1 DEF IInv, DestroyedByOne
  <2>2. l # NULL => \A u \in User : by_user'[u] # l
    BY <1>1, <1>2, ConstantFacts
  <2>3. \A u \in User : by_user'[u] = NULL \/ by_user'[u] = by_user[u]
    BY <1>1
  <2>. QED  BY <1>1, <1>2, <1>6, <1>9, <2>1, <2>2, <2>3 DEF IInv, DestroyedByOne
<1>11. Holding' \subseteq Holding
  BY <1>2, <1>6, <1>9 DEF Holding, Recycling
<1>12. AddressesExclusive'
  BY <1>1, <1>3, <1>11, ExclusiveFrame DEF IInv
<1>. QED  BY <1>1, <1>4, <1>7, <1>8, <1>10, <1>12 DEF IInv

(* Clearing the bit of a lease on its way out clears nobody else's. *)
LEMMA ReleaseRecycleOK ==
  ASSUME IInv, NEW p \in Process, release_recycle(p) PROVE IInv'
<1>. DEFINE l == cur[p]
<1>0. l \in Holding /\ \A q \in Process \ {p} : pc[q] \in {"recycle", "destroy"} => cur[q] # l
  BY DEF release_recycle, Holding, Recycling, IInv, DestroyedByOne
<1>1. PoolInv' /\ SessionInv'
  BY PoolReleaseOK, PoolUnchangedOK, SessionUnchangedOK DEF release_recycle, IInv
<1>2. ControlTypeOK'
  BY ConstantFacts
     DEF release_recycle, IInv, ControlTypeOK, Process, SaPc, SweepPc, Goto,
         charonVars, sweepVars
<1>3. AcquireIsExclusive' /\ AcquiredLeaseStays'
  BY ConstantFacts
     DEF release_recycle, IInv, ControlTypeOK, AcquireIsExclusive, AcquiredLeaseStays,
         Process, AcquirePc, Goto, sessionVars, sweepVars
<1>4. /\ \A q \in Process : /\ q # p => pc'[q] = pc[q]
                            /\ pc'[q] \in {"recycle", "destroy"} =>
                                 pc[q] \in {"recycle", "destroy"}
      /\ pc'[p] = "destroy"
      /\ UNCHANGED <<by_uid, by_user, heap, cur, hand>>
  BY DEF release_recycle, Goto, IInv, ControlTypeOK, sessionVars
<1>5. DestroyedByOne'
  BY <1>4 DEF IInv, DestroyedByOne, Bound
<1>6. Holding' \subseteq Holding \ {l}
  <2>1. l \notin Bound
    BY DEF release_recycle, IInv, DestroyedByOne
  <2>. QED  BY <1>0, <1>4, <2>1 DEF Holding, Bound, Recycling
<1>7. bits' = IF Dynamic(l) THEN bits \ {heap[l].ip - StartH} ELSE bits
  BY DEF release_recycle, Dynamic, PoolRelease, poolVars, IInv, PoolInv, PoolTypeOK
<1>8. AddressesExclusive'
  <2>1. \A k \in Holding : heap[k].ip \in Nat
    BY HoldingAreLeases
  <2>2. \A k \in Holding : k # l /\ Dynamic(k) => heap[k].ip - StartH \in bits'
    BY <1>0, <1>7, <2>1, ConstantFacts DEF IInv, AddressesExclusive
  <2>3. hand # NULL /\ ~hand.fixed => hand.ip - StartH \in bits' /\ hand.ip \in Nat
    <3>1. heap[l].ip \in Nat
      BY <1>0, <2>1
    <3>2. ASSUME hand # NULL, ~hand.fixed
          PROVE  /\ hand.ip - StartH \in bits
                 /\ Dynamic(l) => heap[l].ip # hand.ip
      BY <1>0, <3>2 DEF IInv, AddressesExclusive
    <3>3. hand # NULL => hand.ip \in Nat
      BY ConstantFacts DEF IInv, ControlTypeOK, Hand
    <3>. QED  BY <1>7, <3>1, <3>2, <3>3, ConstantFacts
  <2>. QED  BY <1>4, <1>6, <2>2, <2>3 DEF IInv, AddressesExclusive, Dynamic
<1>. QED  BY <1>1, <1>2, <1>3, <1>5, <1>8 DEF IInv

(* The lease that unbind handed out is freed; nothing refers to it. *)
LEMMA ReleaseDestroyOK ==
  ASSUME IInv, NEW p \in Process, release_destroy(p) PROVE IInv'
<1>. DEFINE l == cur[p]
<1>0. /\ l \in Chunk /\ l \notin Bound
      /\ \A q \in Process \ {p} : pc[q] \in {"recycle", "destroy"} => cur[q] # l
  BY DEF release_destroy, IInv, DestroyedByOne, ControlTypeOK
<1>1. /\ SessionInv' /\ Bound' = Bound /\ UNCHANGED <<by_uid, by_user>>
      /\ \A k \in Chunk \ {l} : heap'[k] = heap[k]
  BY <1>0, DestroyOK DEF release_destroy, lease_destroy, IInv
<1>2. PoolInv'
  BY PoolUnchangedOK DEF release_destroy, IInv
<1>3. ControlTypeOK'
  BY ConstantFacts
     DEF release_destroy, IInv, ControlTypeOK, Process, SaPc, SweepPc, Goto, Return,
         charonVars, sweepVars
<1>4. AcquireIsExclusive' /\ AcquiredLeaseStays'
  BY <1>1, ConstantFacts
     DEF release_destroy, IInv, ControlTypeOK, AcquireIsExclusive, AcquiredLeaseStays,
         Process, AcquirePc, Goto, Return, sweepVars
<1>5. /\ \A q \in Process : pc'[q] \in {"recycle", "destroy"} =>
                              q # p /\ pc'[q] = pc[q] /\ cur'[q] = cur[q]
      /\ UNCHANGED <<bits, hand>>
  BY DEF release_destroy, Goto, Return, IInv, ControlTypeOK, poolVars
<1>6. DestroyedByOne'
  <2>1. ASSUME NEW q \in Process, q # p, pc[q] \in {"recycle", "destroy"}
        PROVE  /\ cur[q] # NULL /\ cur[q] \in Chunk /\ cur[q] # l
               /\ heap[cur[q]] # NULL /\ cur[q] \notin Bound
               /\ \A u \in User : by_user[u] # cur[q]
    BY <1>0, <2>1 DEF IInv, DestroyedByOne, ControlTypeOK
  <2>2. \A q \in Process : pc'[q] \in {"recycle", "destroy"} =>
          heap'[cur'[q]] = heap[cur[q]]
    BY <1>1, <1>5, <2>1
  <2>. QED  BY <1>1, <1>5, <2>1, <2>2 DEF IInv, DestroyedByOne
<1>7. Holding' \subseteq Holding \ {l}
  BY <1>0, <1>1, <1>5 DEF Holding, Recycling
<1>8. AddressesExclusive'
  BY <1>1, <1>5, <1>7, HoldingAreLeases, ExclusiveFrame DEF IInv
<1>. QED  BY <1>1, <1>2, <1>3, <1>4, <1>6, <1>8 DEF IInv

-----------------------------------------------------------------------------
(* Time and reloads *)

(* Time only makes a lease expire. *)
LEMMA LeaseAgesStepOK ==
  ASSUME IInv, NEW l \in Chunk, lease_ages(l) PROVE IInv'
<1>1. /\ SessionInv' /\ UNCHANGED <<by_uid, by_user>>
      /\ \A k \in Chunk :
           /\ heap'[k] = NULL <=> heap[k] = NULL
           /\ heap[k] # NULL => heap'[k].ip = heap[k].ip /\ heap'[k].fixed = heap[k].fixed
  BY LeaseAgesOK DEF lease_ages, LeaseAges, IInv
<1>2. PoolInv'
  BY PoolUnchangedOK DEF lease_ages, IInv
<1>3. ControlTypeOK' /\ AcquireIsExclusive' /\ AcquiredLeaseStays'
  BY <1>1 DEF lease_ages, IInv, ControlTypeOK, AcquireIsExclusive, AcquiredLeaseStays,
              charonVars, sweepVars
<1>4. UNCHANGED <<pc, cur, hand, bits>>
  BY DEF lease_ages, poolVars
<1>5. DestroyedByOne'
  BY <1>1, <1>4 DEF IInv, DestroyedByOne, Bound, ControlTypeOK
<1>6. Holding' = Holding
  BY <1>1, <1>4 DEF Holding, Bound, Recycling
<1>7. AddressesExclusive'
  BY <1>1, <1>4, <1>6, HoldingAreLeases, ExclusiveFrame DEF IInv
<1>. QED  BY <1>1, <1>2, <1>3, <1>5, <1>7 DEF IInv

(* A reload leaves the pool and the leases alone. *)
LEMMA ReloadOK ==
  ASSUME IInv, NEW pol \in Policies, reload(pol) PROVE IInv'
<1>1. ControlTypeOK' /\ AcquireIsExclusive' /\ AcquiredLeaseStays'
  BY DEF reload, IInv, ControlTypeOK, AcquireIsExclusive, AcquiredLeaseStays,
         sessionVars, charonVars, sweepVars
<1>. QED  BY <1>1, QuietStep DEF reload

(* A stuttering step. *)
LEMMA UnchangedOK == ASSUME IInv, UNCHANGED vars PROVE IInv'
<1>1. ControlTypeOK' /\ AcquireIsExclusive' /\ AcquiredLeaseStays'
  BY DEF vars, IInv, ControlTypeOK, AcquireIsExclusive, AcquiredLeaseStays,
         sessionVars, charonVars, sweepVars
<1>. QED  BY <1>1, QuietStep DEF vars

-----------------------------------------------------------------------------
(* The invariant is inductive. *)
LEMMA NextOK == IInv /\ [Next]_vars => IInv'
<1>. SUFFICES ASSUME IInv, [Next]_vars PROVE IInv'
  OBVIOUS
<1>1. ASSUME NEW s \in Uid, Acquiring(s) PROVE IInv'
  BY <1>1, AcquireQuietOK, AcquireDynamicOK, AcquireNoneOK, AcquireMigrateOK,
     AcquireBindOK, AcquireBindFailsOK DEF Acquiring
<1>2. ASSUME NEW p \in Process, Releasing(p) PROVE IInv'
  BY <1>2, ReleaseUnbindOK, ReleaseRecycleOK, ReleaseDestroyOK DEF Releasing
<1>3. ASSUME NEW s \in Uid, CharonCalls(s) \/ Destroying(s) PROVE IInv'
  BY <1>3, CharonOK, DestroyingOK
<1>4. ASSUME Sweeping(Sweeper) PROVE IInv'
  BY <1>4, SweepingOK
<1>5. ASSUME NEW pol \in Policies, reload(pol) PROVE IInv'
  BY <1>5, ReloadOK
<1>6. ASSUME NEW l \in Chunk, lease_ages(l) PROVE IInv'
  BY <1>6, LeaseAgesStepOK
<1>. QED  BY <1>1, <1>2, <1>3, <1>4, <1>5, <1>6, UnchangedOK, ConstantFacts DEF Next

(* It holds in every reachable state. *)
LEMMA InductiveInvariant == Spec => []IInv
BY InitOK, NextOK, PTL DEF Spec

(* Every variable of the plugin keeps to its type; with it, no step reads  *)
(* a field of a lease that is not there.                                   *)
THEOREM TypeCorrect == Spec => []IpTypeOK
<1>1. IInv => IpTypeOK
  BY DEF IInv, PoolInv, SessionInv, IpTypeOK
<1>. QED  BY <1>1, InductiveInvariant, PTL

(* A pool address belongs to one lease at a time and its bit stays set     *)
(* until the lease is given up, however acquire_address, release_address,  *)
(* ike_updown, the sweep, reloads and failing allocations interleave.      *)
THEOREM Exclusive == Spec => []AddressesExclusive
<1>1. IInv => AddressesExclusive
  BY DEF IInv
<1>. QED  BY <1>1, InductiveInvariant, PTL

(* One caller destroys a lease, after which no index leads to it: whichever *)
(* of ike_updown, release_address and the sweep come together.             *)
THEOREM NoDoubleDestroy == Spec => []DestroyedByOne
<1>1. IInv => DestroyedByOne
  BY DEF IInv
<1>. QED  BY <1>1, InductiveInvariant, PTL

(* The indexes agree also as the allocator uses the table, error paths and *)
(* rollback included.                                                      *)
THEOREM IndexesInUse == Spec => []IndexesAgree
<1>1. IInv => IndexesAgree
  BY DEF IInv, SessionInv
<1>. QED  BY <1>1, InductiveInvariant, PTL

(* One acquire_address at a time, and bind_lease never overwrites a lease. *)
THEOREM CriticalSection == Spec => []AcquireIsExclusive
<1>1. IInv => AcquireIsExclusive
  BY DEF IInv
<1>. QED  BY <1>1, InductiveInvariant, PTL

(* The lease that acquire_address works on stays where it is until it has  *)
(* copied the address, though release and sweep run at the same time.      *)
THEOREM BorrowedLeaseStays == Spec => []AcquiredLeaseStays
<1>1. IInv => AcquiredLeaseStays
  BY DEF IInv
<1>. QED  BY <1>1, InductiveInvariant, PTL
=============================================================================
