------------------------ MODULE IpAllocatorLeaseProofs ------------------------
(***************************************************************************)
(* What IpAllocator promises about leases and addresses beyond IInv: how   *)
(* addresses are lost, whose addresses users get, that connected users     *)
(* keep what the table says, and that the whole implements AddressLeases.  *)
(* The theorems hold for every value of the constants; what a theorem needs*)
(* of charon, the sweep, reloads or the policies is its ASSUME.            *)
(*                                                                         *)
(* Few steps concern any of this.  KeyStep lists them; every other step of *)
(* every process leaves holders, bits and the address in hand alone.       *)
(***************************************************************************)
EXTENDS IpAllocatorProofs

KeyStep ==
  \/ \E s \in Uid : \/ acquire_fixed(s) \/ acquire_fixed_freed(s)
                    \/ \E i \in Offset : acquire_dynamic(s, i)
                    \/ acquire_none(s)
                    \/ acquire_migrate(s)
                    \/ acquire_bind(s)
                    \/ acquire_bind_fails(s)
  \/ \E p \in Process : release_unbind(p) \/ release_recycle(p) \/ release_destroy(p)

SameLease(l) ==
  /\ heap'[l].ip = heap[l].ip /\ heap'[l].fixed = heap[l].fixed
  /\ heap'[l].unique_id = heap[l].unique_id /\ heap'[l].username = heap[l].username

(* The processes that recycle a lease are the same, and so are the leases. *)
RecyclersStay ==
  /\ \A q \in Process : pc'[q] = "recycle" <=> pc[q] = "recycle"
  /\ \A q \in Process : pc[q] = "recycle" => cur'[q] = cur[q]

StillStep ==
  /\ UNCHANGED <<bits, by_uid, by_user, hand>>
  /\ \A l \in Chunk : heap[l] # NULL => SameLease(l)
  /\ RecyclersStay
  /\ \A s \in Uid : pc'[s] = "bind" <=> pc[s] = "bind"

(* A step that is not a key step is still. *)
LEMMA StepKinds == ASSUME IInv, [Next]_vars PROVE KeyStep \/ StillStep
<1>. USE ConstantFacts DEF IInv, ControlTypeOK, Process, Goto, Return,
                           poolVars, sessionVars, charonVars, sweepVars
<1>1. ASSUME NEW s \in Uid, Acquiring(s) PROVE KeyStep \/ StillStep
  <2>1. CASE acquire_lock(s) \/ acquire_lookup(s) \/ acquire_rollback(s)
    BY <2>1 DEF StillStep, SameLease, RecyclersStay, acquire_lock, acquire_lookup,
                acquire_rollback
  <2>2. CASE acquire_reused_fails(s)
    BY <2>2 DEF StillStep, SameLease, RecyclersStay, acquire_reused_fails
  <2>3. CASE acquire_reused(s) \/ acquire_bound(s)
    BY <2>3 DEF StillStep, SameLease, RecyclersStay, acquire_reused, acquire_bound,
                ReturnAddress
  <2>. QED  BY <1>1, <2>1, <2>2, <2>3 DEF Acquiring, KeyStep
<1>2. ASSUME NEW p \in Process, Releasing(p) PROVE KeyStep
  BY <1>2 DEF Releasing, KeyStep
<1>3. ASSUME NEW s \in Uid, CharonCalls(s) \/ Destroying(s) PROVE StillStep
  BY <1>3 DEF StillStep, SameLease, RecyclersStay, CharonCalls, Destroying, create_sa,
              acquire_address, ike_updown, remove_sa, release_address, destroy_sa
<1>4. ASSUME Sweeping(Sweeper) PROVE StillStep
  BY <1>4 DEF StillStep, SameLease, RecyclersStay, Sweeping, sweep, sweep_cb, sweep_alive,
              sweep_gone, sweep_release, sweep_end
<1>5. ASSUME NEW pol \in Policies, reload(pol) PROVE StillStep
  BY <1>5 DEF StillStep, SameLease, RecyclersStay, reload
<1>6. ASSUME NEW l \in Chunk, lease_ages(l) PROVE StillStep
  BY <1>6, LeaseAgesOK DEF StillStep, SameLease, RecyclersStay, lease_ages, LeaseAges
<1>7. CASE UNCHANGED vars
  BY <1>7 DEF StillStep, SameLease, RecyclersStay, vars
<1>. QED  BY <1>1, <1>2, <1>3, <1>4, <1>5, <1>6, <1>7 DEF Next
-----------------------------------------------------------------------------
(* Which addresses are lost *)

HandDynamic == hand # NULL /\ ~hand.fixed

(* A step loses and finds nothing if it leaves the bits and the holders    *)
(* alone and keeps what was in hand, unless that is no pool address.       *)
LEMMA LostFrame ==
  ASSUME bits' = bits,
         Holding' = Holding,
         \A l \in Holding : heap'[l].ip = heap[l].ip /\ heap'[l].fixed = heap[l].fixed,
         hand' = hand \/ (~HandDynamic /\ ~HandDynamic')
  PROVE  Lost' = Lost
<1>1. \A i : Owned(i)' <=> Owned(i)
  BY DEF Owned, Dynamic, HandDynamic
<1>. QED  BY <1>1 DEF Lost

(* Nothing but the recycling processes decides what is being recycled. *)
LEMMA RecyclingFrame ==
  ASSUME RecyclersStay PROVE Recycling' = Recycling
BY DEF RecyclersStay, Recycling

(* The pool's bit is set and its address in hand. *)
LEMMA AcquireLosesNothing ==
  ASSUME IInv, NEW s \in Uid, NEW i \in Offset, acquire_dynamic(s, i) PROVE Lost' = Lost
<1>1. hand = NULL
  BY ConstantFacts DEF acquire_dynamic, IInv, AcquireIsExclusive, AcquirePc
<1>2. Holding' = Holding /\ UNCHANGED heap
  <2>1. Recycling' = Recycling
    BY ConstantFacts, RecyclingFrame DEF RecyclersStay, acquire_dynamic, Goto, IInv, ControlTypeOK, Process
  <2>. QED  BY <2>1 DEF acquire_dynamic, sessionVars, Holding, Bound
<1>3. /\ bits' = bits \cup {i} /\ i \notin bits
      /\ hand' = [ip |-> StartH + i, fixed |-> FALSE] /\ hand' # NULL
  <2>1. hand' = [ip |-> StartH + i, fixed |-> FALSE] /\ PoolAcquire(i)
    BY DEF acquire_dynamic
  <2>2. pc'[s] = "bind"
    BY ConstantFacts DEF acquire_dynamic, Goto, IInv, ControlTypeOK, Process
  <2>3. hand' # NULL
    BY <2>2, AcquireDynamicOK DEF IInv, AcquireIsExclusive
  <2>. QED  BY <2>1, <2>3 DEF PoolAcquire, Free
<1>4. i \in Int /\ bits \subseteq Int /\ StartH \in Int
  BY PoolFinite, ConstantFacts, PoolAssumption DEF IInv, PoolInv, PoolTypeOK, Offset
<1>5. \A j \in bits : Owned(j)' <=> Owned(j)
  <2>1. \A j \in bits : hand'.ip # StartH + j
    BY <1>3, <1>4
  <2>. QED  BY <1>1, <1>2, <2>1 DEF Owned, Dynamic
<1>6. Owned(i)'
  BY <1>3 DEF Owned
<1>. QED  BY <1>3, <1>5, <1>6 DEF Lost

(* The pool marks an address and cannot build the host_t, or is exhausted. *)
LEMMA NoneLosesOne ==
  ASSUME IInv, NEW s \in Uid, acquire_none(s)
  PROVE  Lost' = Lost \/ (AllocFails /\ \E i \in Offset \ Lost : Lost' = Lost \cup {i})
<1>1. hand = NULL /\ hand' = NULL
  BY ConstantFacts DEF acquire_none, IInv, AcquireIsExclusive, AcquirePc
<1>2. Holding' = Holding /\ UNCHANGED heap
  <2>1. Recycling' = Recycling
    BY ConstantFacts, RecyclingFrame
       DEF RecyclersStay, acquire_none, Return, Goto, IInv, ControlTypeOK, Process
  <2>. QED  BY <2>1 DEF acquire_none, sessionVars, Holding, Bound
<1>3. \A j : Owned(j)' <=> Owned(j)
  BY <1>1, <1>2 DEF Owned, Dynamic
<1>4. CASE PoolExhausted
  BY <1>3, <1>4 DEF PoolExhausted, poolVars, Lost
<1>5. ASSUME AllocFails, NEW i \in Offset, PoolAcquire(i)
      PROVE  i \notin Lost /\ Lost' = Lost \cup {i}
  <2>1. bits' = bits \cup {i} /\ i \notin bits
    BY <1>5 DEF PoolAcquire, Free
  <2>2. \A l \in Holding : Dynamic(l) => heap[l].ip # StartH + i
    <3>1. i \in Int /\ StartH \in Int /\ \A l \in Holding : heap[l].ip \in Nat
      BY PoolFinite, PoolAssumption, HoldingAreLeases DEF Offset
    <3>2. \A l \in Holding : Dynamic(l) => heap[l].ip - StartH # i
      BY <2>1 DEF IInv, AddressesExclusive
    <3>. QED  BY <3>1, <3>2
  <2>3. ~Owned(i)
    BY <1>1, <2>2 DEF Owned
  <2>. QED  BY <1>3, <2>1, <2>3 DEF Lost
<1>. QED  BY <1>4, <1>5 DEF acquire_none

(* The address in hand passes to the new lease. *)
LEMMA BindLosesNothing ==
  ASSUME IInv, NEW s \in Uid, acquire_bind(s) PROVE Lost' = Lost
<1>0. PICK l \in Chunk : bind_lease(UserOf[s], s, hand.ip, hand.fixed, l)
  BY DEF acquire_bind
<1>1. /\ UserOf[s] \in User /\ by_user[UserOf[s]] = NULL
      /\ hand # NULL /\ hand.ip \in LeaseIp /\ hand.fixed \in BOOLEAN /\ hand' = NULL
  BY ConstantFacts DEF acquire_bind, IInv, AcquireIsExclusive, AcquirePc, ControlTypeOK, Hand
<1>2. /\ heap' = [heap EXCEPT ![l] = lease_create(UserOf[s], s, hand.ip, hand.fixed)]
      /\ heap[l] = NULL /\ Bound' = Bound \cup {l}
  BY <1>0, <1>1, BindAdds, BindOK DEF IInv
<1>3. /\ heap'[l].ip = hand.ip /\ heap'[l].fixed = hand.fixed
      /\ \A k \in Chunk \ {l} : heap'[k] = heap[k]
  BY <1>2 DEF lease_create, IInv, SessionInv, SessionTypeOK
<1>4. \A k \in Holding : k \in Chunk /\ k # l
  BY <1>2, HoldingAreLeases
<1>5. Recycling' = Recycling
  <2>1. RecyclersStay
    BY ConstantFacts DEF RecyclersStay, acquire_bind, Goto, IInv, ControlTypeOK, Process
  <2>. QED  BY <2>1, RecyclingFrame
<1>6. Holding' = Holding \cup {l}
  BY <1>2, <1>5 DEF Holding
<1>7. \A i : Owned(i)' <=> Owned(i)
  BY <1>1, <1>3, <1>4, <1>6 DEF Owned, Dynamic
<1>8. bits' = bits
  BY DEF acquire_bind, poolVars
<1>. QED  BY <1>7, <1>8 DEF Lost

(* bind_lease fails: a pool address in hand has no owner any more. *)
LEMMA BindFailsLosesOne ==
  ASSUME IInv, NEW s \in Uid, acquire_bind_fails(s)
  PROVE  Lost' = Lost \/ (AllocFails /\ \E i \in Offset \ Lost : Lost' = Lost \cup {i})
<1>1. /\ UserOf[s] \in User /\ by_user[UserOf[s]] = NULL /\ AllocFails
      /\ hand # NULL /\ hand' = NULL /\ bits' = bits
  BY ConstantFacts DEF acquire_bind_fails, IInv, AcquireIsExclusive, AcquirePc, poolVars
<1>2. heap' = heap /\ by_uid' = by_uid
  BY <1>1, BindFailsOK
     DEF acquire_bind_fails, bind_lease_fails, UidsWithout, IInv, SessionInv, SessionTypeOK
<1>3. Holding' = Holding
  <2>1. Recycling' = Recycling
    BY ConstantFacts, RecyclingFrame
       DEF RecyclersStay, acquire_bind_fails, Return, Goto, IInv, ControlTypeOK, Process
  <2>. QED  BY <1>2, <2>1 DEF Holding, Bound
<1>4. CASE hand.fixed
  BY <1>1, <1>2, <1>3, <1>4, LostFrame DEF HandDynamic
<1>5. CASE ~hand.fixed
  <2>0. PICK i \in bits : i = hand.ip - StartH
    BY <1>1, <1>5 DEF IInv, AddressesExclusive
  <2>1. i \in Offset /\ hand.ip = StartH + i
    <3>1. hand.ip \in LeaseIp
      <4>1. hand \in Hand
        BY <1>1 DEF IInv, ControlTypeOK
      <4>. QED  BY <4>1, ConstantFacts DEF Hand
    <3>2. hand.ip \in Nat /\ StartH \in Nat
      BY <3>1, ConstantFacts, PoolAssumption
    <3>. QED  BY <2>0, <3>2 DEF IInv, PoolInv, PoolTypeOK
  <2>2. Owned(i) /\ ~Owned(i)'
    BY <1>1, <1>2, <1>3, <1>5, <2>1 DEF Owned, Dynamic, IInv, AddressesExclusive
  <2>3. \A j \in bits \ {i} : Owned(j)' <=> Owned(j)
    <3>1. \A j \in bits \ {i} : StartH + j # hand.ip
      BY <2>1, PoolFinite, PoolAssumption DEF IInv, PoolInv, PoolTypeOK, Offset
    <3>. QED  BY <1>1, <1>2, <1>3, <3>1 DEF Owned, Dynamic
  <2>4. i \notin Lost /\ Lost' = Lost \cup {i}
    BY <1>1, <2>1, <2>2, <2>3 DEF Lost
  <2>. QED  BY <1>1, <2>1, <2>4
<1>. QED  BY <1>4, <1>5

(* The bit of the lease being given up is cleared, no other. *)
LEMMA RecycleLosesNothing ==
  ASSUME IInv, NEW p \in Process, release_recycle(p) PROVE Lost' = Lost
<1>. DEFINE l == cur[p]
<1>1. /\ l \in Chunk /\ l \notin Bound
      /\ \A q \in Process \ {p} : pc[q] = "recycle" => cur[q] # l
  BY DEF release_recycle, IInv, DestroyedByOne, ControlTypeOK
<1>2. UNCHANGED <<by_uid, heap, cur, hand>> /\ pc' = [pc EXCEPT ![p] = "destroy"]
  BY DEF release_recycle, sessionVars, Goto
<1>3. Holding' = Holding \ {l}
  BY <1>1, <1>2 DEF Holding, Bound, Recycling, IInv, ControlTypeOK
<1>4. IF Dynamic(l) THEN bits' = bits \ {heap[l].ip - StartH} ELSE bits' = bits
  BY DEF release_recycle, Dynamic, PoolRelease, poolVars, IInv, PoolInv, PoolTypeOK
<1>5. l \in Holding /\ heap[l].ip \in Nat
  BY HoldingAreLeases DEF release_recycle, Holding, Recycling
<1>6. bits \subseteq Int /\ StartH \in Int
  BY PoolFinite, PoolAssumption DEF IInv, PoolInv, PoolTypeOK, Offset
<1>. HIDE DEF l
<1>7. CASE Dynamic(l)
  <2>. DEFINE j == heap[l].ip - StartH
  <2>1. Owned(j)
    BY <1>5, <1>6, <1>7 DEF Owned
  <2>2. \A i \in bits \ {j} : heap[l].ip # StartH + i
    BY <1>5, <1>6
  <2>3. \A i \in bits \ {j} : Owned(i)' <=> Owned(i)
    BY <1>2, <1>3, <2>2 DEF Owned, Dynamic
  <2>. QED  BY <1>4, <1>7, <2>1, <2>3 DEF Lost
<1>8. CASE ~Dynamic(l)
  <2>1. \A i : Owned(i)' <=> Owned(i)
    BY <1>2, <1>3, <1>8 DEF Owned, Dynamic
  <2>. QED  BY <1>4, <1>8, <2>1 DEF Lost
<1>. QED  BY <1>7, <1>8

(* The lease that unbind takes out of the table is on its way to recycle. *)
LEMMA UnbindLosesNothing ==
  ASSUME IInv, NEW p \in Process, release_unbind(p) PROVE Lost' = Lost
<1>. DEFINE n == UidOf(p)  l == by_uid[n]
<1>0. n \in Uid
  BY ConstantFacts DEF release_unbind, UidOf, IInv, AcquireIsExclusive, ControlTypeOK, Process
<1>1. /\ heap' = heap /\ UNCHANGED <<hand, bits>>
      /\ \A m \in Uid : by_uid'[m] = IF m = n THEN NULL ELSE by_uid[m]
  BY <1>0, UnbindOK DEF release_unbind, IInv, poolVars
<1>2. \A q \in Process \ {p} : pc'[q] = pc[q] /\ cur'[q] = cur[q]
  BY DEF release_unbind, Return, Goto, IInv, ControlTypeOK
<1>3. /\ l # NULL => pc'[p] = "recycle" /\ cur'[p] = l
      /\ l = NULL => pc'[p] # "recycle"
      /\ pc[p] # "recycle"
  BY DEF release_unbind, Return, Goto, IInv, ControlTypeOK
<1>4. Recycling' = Recycling \cup ({l} \ {NULL})
  BY <1>2, <1>3 DEF Recycling
<1>5. Bound = Bound' \cup ({l} \ {NULL})
  <2>. HIDE DEF n
  <2>1. Bound' \subseteq Bound
    BY <1>1, ConstantFacts DEF Bound
  <2>2. Bound \subseteq Bound' \cup ({l} \ {NULL})
    BY <1>0, <1>1 DEF Bound
  <2>3. l # NULL => l \in Bound
    BY <1>0, FiledOnce DEF IInv, Bound
  <2>. QED  BY <2>1, <2>2, <2>3
<1>6. Holding' = Holding
  BY <1>4, <1>5 DEF Holding
<1>. QED  BY <1>1, <1>6, LostFrame

(* A step loses at most one address, by a failed allocation. *)
LEMMA NextLoses ==
  ASSUME IInv, [Next]_vars
  PROVE  \/ Lost' = Lost
         \/ /\ AllocFails
            /\ \E i \in Offset \ Lost : Lost' = Lost \cup {i}
            /\ \E s \in Uid : pc[s] \in {"choose", "bind"} /\ pc'[s] = "idle"
<1>. USE DEF IInv, ControlTypeOK, Process, Goto, Return, poolVars, sessionVars
<1>1. ASSUME NEW s \in Uid, acquire_fixed(s) \/ acquire_fixed_freed(s)
      PROVE  Lost' = Lost
  <2>0. hand'.fixed
    <3>1. PICK h \in [ip : Address \cup {FixedFor(UserOf[s])}, fixed : {TRUE}] : hand' = h
      BY <1>1 DEF acquire_fixed, acquire_fixed_freed
    <3>. QED  BY <3>1
  <2>1. hand = NULL /\ hand'.fixed
    BY <1>1, <2>0, ConstantFacts
       DEF acquire_fixed, acquire_fixed_freed, AcquireIsExclusive, AcquirePc
  <2>2. Recycling' = Recycling /\ UNCHANGED <<bits, by_uid, heap>>
    BY <1>1, ConstantFacts, RecyclingFrame
       DEF RecyclersStay, acquire_fixed, acquire_fixed_freed
  <2>. QED  BY <2>1, <2>2, LostFrame DEF HandDynamic, Holding, Bound
<1>2. ASSUME NEW s \in Uid, acquire_migrate(s) PROVE Lost' = Lost
  <2>1. by_user[UserOf[s]] # NULL
    BY <1>2, ConstantFacts DEF acquire_migrate, AcquiredLeaseStays
  <2>2. /\ Bound' = Bound
        /\ \A k \in Chunk : heap'[k].ip = heap[k].ip /\ heap'[k].fixed = heap[k].fixed
    BY <1>2, <2>1, MigrateOK, MigrateMoves DEF acquire_migrate
  <2>3. Recycling' = Recycling /\ UNCHANGED <<bits, hand>>
    BY <1>2, ConstantFacts, RecyclingFrame DEF RecyclersStay, acquire_migrate
  <2>. QED  BY <2>2, <2>3, HoldingAreLeases, LostFrame DEF Holding
<1>3. ASSUME NEW p \in Process, release_destroy(p) PROVE Lost' = Lost
  <2>. DEFINE l == cur[p]
  <2>1. l \in Chunk /\ l \notin Holding
    BY <1>3 DEF release_destroy, DestroyedByOne, Holding, Recycling
  <2>2. Bound' = Bound /\ \A k \in Chunk \ {l} : heap'[k] = heap[k]
    BY <1>3, <2>1, DestroyOK DEF release_destroy, Holding
  <2>3. Recycling' = Recycling /\ UNCHANGED <<bits, hand>>
    BY <1>3, ConstantFacts, RecyclingFrame DEF RecyclersStay, release_destroy
  <2>. QED  BY <2>1, <2>2, <2>3, HoldingAreLeases, LostFrame DEF Holding
<1>4. ASSUME NEW s \in Uid, acquire_none(s) \/ acquire_bind_fails(s)
      PROVE  pc[s] \in {"choose", "bind"} /\ pc'[s] = "idle"
  BY <1>4, ConstantFacts DEF acquire_none, acquire_bind_fails
<1>5. CASE StillStep
  <2>1. Holding' = Holding
    BY <1>5, RecyclingFrame DEF StillStep, Holding, Bound
  <2>. QED  BY <1>5, <2>1, HoldingAreLeases, LostFrame DEF StillStep, SameLease
<1>. QED  BY <1>1, <1>2, <1>3, <1>4, <1>5, StepKinds, AcquireLosesNothing, NoneLosesOne,
             BindLosesNothing, BindFailsLosesOne, RecycleLosesNothing, UnbindLosesNothing
          DEF KeyStep

(* Every loss is an acquire_address that returns without an address after  *)
(* a failed allocation; no other step loses an address or finds a lost one *)
(* (ip_allocator.c:55-86, 151-223).                                        *)
THEOREM LossesExplained == Spec => LossesAreFailures
<1>1. IInv /\ [Next]_vars =>
        [\/ Lost' = Lost
         \/ /\ AllocFails
            /\ \E i \in Offset \ Lost : Lost' = Lost \cup {i}
            /\ \E s \in Uid : pc[s] \in {"choose", "bind"} /\ pc'[s] = "idle"]_vars
  BY NextLoses
<1>. QED  BY <1>1, InductiveInvariant, PTL DEF Spec, LossesAreFailures

(* While allocations succeed every bit that is set has a holder who will   *)
(* clear it, whoever acquires, releases, migrates, sweeps and reloads, in  *)
(* whatever order.                                                         *)
THEOREM NothingLeaks == ASSUME ~AllocFails PROVE Spec => []NoLeakedAddress
<1>1. Init => NoLeakedAddress
  BY DEF Init, PoolInit, NoLeakedAddress, Lost
<1>2. IInv /\ NoLeakedAddress /\ [Next]_vars => NoLeakedAddress'
  BY NextLoses DEF NoLeakedAddress
<1>. QED  BY <1>1, <1>2, InductiveInvariant, PTL DEF Spec
-----------------------------------------------------------------------------
(* Fixed addresses go to their users *)

(* A step changes nothing of this if no lease becomes bound, no bound      *)
(* lease changes, and no process comes to bind.                            *)
LEMMA FixedFrame ==
  ASSUME FixedOfTheirUser,
         Bound' \subseteq Bound,
         \A l \in Bound : /\ heap'[l].ip = heap[l].ip /\ heap'[l].fixed = heap[l].fixed
                          /\ heap'[l].username = heap[l].username,
         \A s \in Uid : pc'[s] = "bind" => pc[s] = "bind" /\ hand' = hand
  PROVE  FixedOfTheirUser'
BY DEF FixedOfTheirUser

(* The new lease carries the user and the address of acquire_address. *)
LEMMA BindFixed ==
  ASSUME IInv, FixedOfTheirUser, NEW s \in Uid, acquire_bind(s) PROVE FixedOfTheirUser'
<1>0. PICK l \in Chunk : bind_lease(UserOf[s], s, hand.ip, hand.fixed, l)
  BY DEF acquire_bind
<1>1. /\ UserOf[s] \in User /\ by_user[UserOf[s]] = NULL /\ lock = s
      /\ hand.ip \in LeaseIp /\ hand.fixed \in BOOLEAN
  BY ConstantFacts DEF acquire_bind, IInv, AcquireIsExclusive, AcquirePc, ControlTypeOK, Hand
<1>2. /\ heap' = [heap EXCEPT ![l] = lease_create(UserOf[s], s, hand.ip, hand.fixed)]
      /\ l \notin Bound /\ Bound' = Bound \cup {l}
  BY <1>0, <1>1, BindAdds DEF IInv
<1>3. /\ heap'[l].ip = hand.ip /\ heap'[l].fixed = hand.fixed
      /\ heap'[l].username = UserOf[s]
      /\ \A k \in Bound : heap'[k] = heap[k]
  BY <1>2 DEF lease_create, IInv, SessionInv, SessionTypeOK, Bound
<1>4. \A t \in Uid : pc'[t] # "bind"
  BY <1>1, ConstantFacts
     DEF acquire_bind, Goto, IInv, AcquireIsExclusive, AcquirePc, ControlTypeOK, Process
<1>. QED  BY <1>2, <1>3, <1>4 DEF FixedOfTheirUser, acquire_bind

(* While no reload comes between the lookup and the copy, a fixed address  *)
(* is copied as the policy states it.                                      *)
LEMMA NextFixed ==
  ASSUME ~ReloadRaces, IInv, FixedOfTheirUser, [Next]_vars PROVE FixedOfTheirUser'
<1>. USE DEF IInv, ControlTypeOK, Process, Goto, Return, poolVars, sessionVars
<1>1. ASSUME NEW s \in Uid, acquire_fixed(s) PROVE FixedOfTheirUser'
  <2>1. /\ hand' = [ip |-> active.fixed[UserOf[s]], fixed |-> TRUE]
        /\ active.fixed[UserOf[s]] # NULL /\ active \in Policies /\ UserOf[s] \in User
    BY <1>1, ConstantFacts DEF acquire_fixed, FixedFor
  <2>2. hand'.ip \in ConfiguredFor(UserOf[s])
    BY <2>1 DEF ConfiguredFor
  <2>3. \A t \in Uid : pc'[t] = "bind" => t = s
    BY <1>1, ConstantFacts DEF acquire_fixed, AcquireIsExclusive, AcquirePc
  <2>. QED  BY <1>1, <2>2, <2>3 DEF FixedOfTheirUser, acquire_fixed, Bound
<1>2. ASSUME NEW s \in Uid, NEW i \in Offset, acquire_dynamic(s, i) PROVE FixedOfTheirUser'
  <2>1. ~hand'.fixed /\ hand'.ip \in PoolIps
    BY <1>2 DEF acquire_dynamic, PoolIps
  <2>2. \A t \in Uid : pc'[t] = "bind" => t = s
    BY <1>2, ConstantFacts DEF acquire_dynamic, AcquireIsExclusive, AcquirePc
  <2>3. Bound' = Bound /\ heap' = heap
    BY <1>2 DEF acquire_dynamic, Bound
  <2>. QED  BY <2>1, <2>2, <2>3 DEF FixedOfTheirUser
<1>3. ASSUME NEW s \in Uid, acquire_none(s) PROVE FixedOfTheirUser'
  BY <1>3, ConstantFacts, FixedFrame DEF acquire_none, Bound
<1>4. ASSUME NEW s \in Uid, acquire_migrate(s) PROVE FixedOfTheirUser'
  <2>1. by_user[UserOf[s]] # NULL /\ UserOf[s] \in User
    BY <1>4, ConstantFacts DEF acquire_migrate, AcquiredLeaseStays
  <2>. DEFINE l == by_user[UserOf[s]]
  <2>2. /\ heap' = [heap EXCEPT ![l] = [@ EXCEPT !.unique_id = s, !.expired = FALSE]]
        /\ Bound' = Bound
    BY <1>4, <2>1, MigrateMoves DEF acquire_migrate
  <2>3. l \in Chunk /\ heap[l] \in Lease
    BY <2>1, FiledOnce
  <2>4. /\ heap'[l].ip = heap[l].ip /\ heap'[l].fixed = heap[l].fixed
        /\ heap'[l].username = heap[l].username
        /\ \A k \in Chunk \ {l} : heap'[k] = heap[k]
    BY <2>2, <2>3 DEF SessionInv, SessionTypeOK, Lease
  <2>5. \A t \in Uid : pc'[t] = "bind" => pc[t] = "bind" /\ hand' = hand
    BY <1>4, ConstantFacts DEF acquire_migrate
  <2>. QED  BY <2>2, <2>4, <2>5, FixedFrame DEF Bound
<1>5. ASSUME NEW s \in Uid, acquire_bind_fails(s) PROVE FixedOfTheirUser'
  <2>1. UserOf[s] \in User /\ by_user[UserOf[s]] = NULL /\ lock = s
    BY <1>5, ConstantFacts DEF acquire_bind_fails, AcquireIsExclusive, AcquirePc
  <2>2. Bound' \subseteq Bound /\ heap' = heap
    BY <1>5, <2>1, BindFailsOK DEF acquire_bind_fails
  <2>3. \A t \in Uid : pc'[t] # "bind"
    BY <1>5, <2>1, ConstantFacts DEF acquire_bind_fails, AcquireIsExclusive, AcquirePc
  <2>. QED  BY <2>2, <2>3, FixedFrame
<1>6. ASSUME NEW p \in Process, release_unbind(p) PROVE FixedOfTheirUser'
  <2>1. UidOf(p) \in Uid
    BY <1>6, ConstantFacts DEF release_unbind, UidOf, AcquireIsExclusive
  <2>2. /\ heap' = heap
        /\ \A m \in Uid : by_uid'[m] = IF m = UidOf(p) THEN NULL ELSE by_uid[m]
    BY <1>6, <2>1, UnbindOK DEF release_unbind
  <2>3. Bound' \subseteq Bound
    BY <2>2, ConstantFacts DEF Bound
  <2>4. \A t \in Uid : pc'[t] = "bind" => pc[t] = "bind" /\ hand' = hand
    BY <1>6 DEF release_unbind
  <2>. QED  BY <2>2, <2>3, <2>4, FixedFrame
<1>7. ASSUME NEW p \in Process, release_recycle(p) PROVE FixedOfTheirUser'
  BY <1>7, FixedFrame DEF release_recycle, Bound
<1>8. ASSUME NEW p \in Process, release_destroy(p) PROVE FixedOfTheirUser'
  <2>1. cur[p] \in Chunk /\ cur[p] \notin Bound
    BY <1>8 DEF release_destroy, DestroyedByOne
  <2>2. Bound' = Bound /\ \A k \in Chunk \ {cur[p]} : heap'[k] = heap[k]
    BY <1>8, <2>1, DestroyOK DEF release_destroy
  <2>3. \A t \in Uid : pc'[t] = "bind" => pc[t] = "bind" /\ hand' = hand
    BY <1>8 DEF release_destroy
  <2>. QED  BY <2>1, <2>2, <2>3, FixedFrame DEF Bound
<1>9. CASE StillStep
  <2>1. Bound' = Bound
    BY <1>9 DEF StillStep, Bound
  <2>2. \A l \in Bound : l \in Chunk /\ heap[l] # NULL
    BY HoldingAreLeases DEF Holding
  <2>. QED  BY <1>9, <2>1, <2>2, FixedFrame DEF StillStep, SameLease
<1>10. \A s \in Uid : ~acquire_fixed_freed(s)
  BY DEF acquire_fixed_freed
<1>. QED  BY <1>1, <1>2, <1>3, <1>4, <1>5, <1>6, <1>7, <1>8, <1>9, <1>10, StepKinds, BindFixed
          DEF KeyStep

(* Whatever address a user holds was assigned to this user by a policy, or *)
(* is a dynamic one of the pool, though leases migrate and reloads withdraw *)
(* assignments (ip_allocator.c:168-197).  An address outside the pool thus *)
(* never goes to a user it is not meant for.  It does not say that a fixed *)
(* address inside the pool is kept for its user, which is not so           *)
(* (FixedStaysReserved), and it needs that no reload frees the address     *)
(* while it is copied.                                                     *)
THEOREM FixedGoToTheirUsers == ASSUME ~ReloadRaces PROVE Spec => []FixedOfTheirUser
<1>1. Init => FixedOfTheirUser
  BY ConstantFacts DEF Init, SessionInit, FixedOfTheirUser, Bound
<1>2. IInv /\ FixedOfTheirUser /\ [Next]_vars => FixedOfTheirUser'
  BY NextFixed
<1>. QED  BY <1>1, <1>2, InductiveInvariant, PTL DEF Spec
-----------------------------------------------------------------------------
(* Connected users, one IKE_SA each and no sweep *)

InAcquire(s) == pc[s] = "lock" \/ pc[s] \in AcquirePc

InRelease(s) == pc[s] \in {"unbind", "recycle", "destroy"}

(* VipsAreLeased with what it needs: only IKE_SAs that are up acquire; one *)
(* that is up and releases, or has just bound a lease, has no address yet; *)
(* and while an IKE_SA acquires, no other of its user has an address.      *)
ConnectionsInv ==
  /\ pc[Sweeper] = "idle"
  /\ \A s \in Uid : sa[s] = "absent" => vip[s] = << >>
  /\ \A s \in Uid : InAcquire(s) => sa[s] = "up"
  /\ \A s \in Uid : pc[s] = "clone" => vip[s] = << >>
  /\ \A s \in Uid : InRelease(s) /\ sa[s] = "up" => vip[s] = << >>
  /\ \A s, t \in Uid : s # t /\ UserOf[s] = UserOf[t] /\ InAcquire(t) /\ sa[s] = "up"
        => vip[s] = << >> /\ ~InAcquire(s)
  /\ VipsAreLeased

(* A step that changes no IKE_SA and no address stored with one, starts    *)
(* nothing in an IKE_SA that has one, and leaves the leases of those alone. *)
LEMMA ConnectionsFrame ==
  ASSUME ConnectionsInv, UNCHANGED <<sa, vip>>, pc'[Sweeper] = "idle",
         \A s \in Uid : InAcquire(s)' => InAcquire(s),
         \A s \in Uid : pc'[s] = "clone" => pc[s] = "clone" \/ vip[s] = << >>,
         \A s \in Uid : InRelease(s)' => InRelease(s) \/ vip[s] = << >>,
         \A s \in Uid : sa[s] = "up" /\ vip[s] # << >> =>
            by_uid'[s] = by_uid[s] /\ heap'[by_uid[s]].ip = heap[by_uid[s]].ip
  PROVE  ConnectionsInv'
<1>1. VipsAreLeased'
  BY DEF ConnectionsInv, VipsAreLeased
<1>. QED  BY <1>1 DEF ConnectionsInv

(* Steps of acquire_address that leave the table and the addresses alone.  *)
LEMMA AcquiringKeeps ==
  ASSUME IInv, ConnectionsInv, NEW s \in Uid,
         \/ acquire_lock(s) \/ acquire_lookup(s)
         \/ acquire_fixed(s) \/ acquire_fixed_freed(s)
         \/ \E i \in Offset : acquire_dynamic(s, i)
         \/ acquire_none(s) \/ acquire_reused_fails(s) \/ acquire_rollback(s)
  PROVE  ConnectionsInv'
<1>1. UNCHANGED <<by_uid, heap, sa, vip>> /\ pc'[Sweeper] = pc[Sweeper] /\ InAcquire(s)
  BY ConstantFacts
     DEF acquire_lock, acquire_lookup, acquire_fixed, acquire_fixed_freed,
         acquire_dynamic, acquire_none, acquire_reused_fails, acquire_rollback, sessionVars, charonVars, Goto, Return,
         IInv, ControlTypeOK, InAcquire, AcquirePc
<1>2. \A t \in Uid : t # s => pc'[t] = pc[t]
  BY ConstantFacts
     DEF acquire_lock, acquire_lookup, acquire_fixed, acquire_fixed_freed,
         acquire_dynamic, acquire_none, acquire_reused_fails, acquire_rollback, Goto, Return, IInv, ControlTypeOK
<1>3. pc'[s] # "clone" /\ (InRelease(s)' => pc[s] = "clone")
  BY ConstantFacts
     DEF acquire_lock, acquire_lookup, acquire_fixed, acquire_fixed_freed,
         acquire_dynamic, acquire_none, acquire_reused_fails, acquire_rollback, Goto, Return, IInv, ControlTypeOK,
         InRelease
<1>4. InRelease(s)' => vip[s] = << >>
  BY <1>3 DEF ConnectionsInv
<1>. QED  BY <1>1, <1>2, <1>3, <1>4, ConnectionsFrame DEF ConnectionsInv, InAcquire, InRelease

(* The lease of this IKE_SA's user moves: nobody else has its address. *)
LEMMA MigrateKeeps ==
  ASSUME IInv, ConnectionsInv, NEW s \in Uid, acquire_migrate(s) PROVE ConnectionsInv'
<1>1. /\ UserOf[s] \in User /\ by_user[UserOf[s]] # NULL
      /\ UNCHANGED <<sa, vip>> /\ InAcquire(s)
  BY ConstantFacts
     DEF acquire_migrate, charonVars, IInv, AcquiredLeaseStays, InAcquire, AcquirePc
<1>2. pc' = [pc EXCEPT ![s] = "clone_reused"] /\ pc'[Sweeper] = pc[Sweeper]
  BY ConstantFacts DEF acquire_migrate, Goto, IInv, ControlTypeOK
<1>3. /\ by_uid'[s] = by_user[UserOf[s]]
      /\ by_uid[s] # NULL => by_uid[s] = by_user[UserOf[s]]
      /\ \A t \in Uid : UserOf[t] # UserOf[s] => by_uid'[t] = by_uid[t]
      /\ \A l \in Chunk : heap'[l].ip = heap[l].ip
  BY <1>1, MigrateOK, MigrateMoves DEF acquire_migrate, IInv
<1>4. ASSUME NEW t \in Uid, sa[t] = "up", vip[t] # << >>
      PROVE  by_uid'[t] = by_uid[t] /\ heap'[by_uid[t]].ip = heap[by_uid[t]].ip
  <2>1. by_uid[t] # NULL /\ (t = s \/ UserOf[t] # UserOf[s])
    BY <1>1, <1>4 DEF ConnectionsInv, VipsAreLeased
  <2>2. by_uid[t] \in Chunk
    BY <2>1, FiledOnce DEF IInv
  <2>. QED  BY <1>3, <2>1, <2>2
<1>. QED  BY <1>1, <1>2, <1>4, ConnectionsFrame
          DEF ConnectionsInv, InAcquire, InRelease, AcquirePc, IInv, ControlTypeOK

(* bind_lease is for an IKE_SA whose user had no lease, so it has no address. *)
LEMMA BindKeeps ==
  ASSUME IInv, ConnectionsInv, NEW s \in Uid, acquire_bind(s) PROVE ConnectionsInv'
<1>0. PICK l \in Chunk : bind_lease(UserOf[s], s, hand.ip, hand.fixed, l)
  BY DEF acquire_bind
<1>1. /\ UserOf[s] \in User /\ by_user[UserOf[s]] = NULL
      /\ hand.ip \in LeaseIp /\ hand.fixed \in BOOLEAN
      /\ UNCHANGED <<sa, vip>> /\ InAcquire(s)
  BY ConstantFacts
     DEF acquire_bind, charonVars, IInv, AcquireIsExclusive, AcquirePc, ControlTypeOK, Hand,
         InAcquire
<1>2. pc' = [pc EXCEPT ![s] = "clone"] /\ pc'[Sweeper] = pc[Sweeper]
  BY ConstantFacts DEF acquire_bind, Goto, IInv, ControlTypeOK
<1>3. /\ by_uid[s] = NULL /\ l \notin Bound
      /\ by_uid' = [by_uid EXCEPT ![s] = l]
      /\ heap' = [heap EXCEPT ![l] = lease_create(UserOf[s], s, hand.ip, hand.fixed)]
  BY <1>0, <1>1, BindAdds DEF IInv
<1>4. vip[s] = << >>
  BY <1>1, <1>3 DEF ConnectionsInv, VipsAreLeased
<1>5. ASSUME NEW t \in Uid, sa[t] = "up", vip[t] # << >>
      PROVE  by_uid'[t] = by_uid[t] /\ heap'[by_uid[t]].ip = heap[by_uid[t]].ip
  <2>1. t # s /\ by_uid[t] # NULL
    BY <1>4, <1>5 DEF ConnectionsInv, VipsAreLeased
  <2>2. by_uid[t] \in Bound /\ by_uid[t] \in Chunk
    BY <2>1, FiledOnce DEF IInv, Bound
  <2>. QED  BY <1>3, <2>1, <2>2 DEF IInv, SessionInv, SessionTypeOK
<1>. QED  BY <1>1, <1>2, <1>4, <1>5, ConnectionsFrame
          DEF ConnectionsInv, InAcquire, InRelease, AcquirePc, IInv, ControlTypeOK

(* The address in hand is dropped; the user had no lease to lose. *)
LEMMA BindFailsKeeps ==
  ASSUME IInv, ConnectionsInv, NEW s \in Uid, acquire_bind_fails(s) PROVE ConnectionsInv'
<1>1. /\ UserOf[s] \in User /\ by_user[UserOf[s]] = NULL
      /\ UNCHANGED <<sa, vip>> /\ InAcquire(s)
  BY ConstantFacts
     DEF acquire_bind_fails, charonVars, IInv, AcquireIsExclusive, AcquirePc, InAcquire
<1>2. pc' = [pc EXCEPT ![s] = "idle"] /\ pc'[Sweeper] = pc[Sweeper]
  BY ConstantFacts DEF acquire_bind_fails, Goto, Return, IInv, ControlTypeOK
<1>3. heap' = heap /\ by_uid' = by_uid
  BY <1>1, BindFailsOK
     DEF acquire_bind_fails, bind_lease_fails, UidsWithout, IInv, SessionInv, SessionTypeOK
<1>. QED  BY <1>1, <1>2, <1>3, ConnectionsFrame
          DEF ConnectionsInv, InAcquire, InRelease, AcquirePc, IInv, ControlTypeOK

(* The address returned is the lease's, and joins those of the IKE_SA. *)
LEMMA ReturnKeeps ==
  ASSUME IInv, ConnectionsInv, NEW s \in Uid, acquire_reused(s) \/ acquire_bound(s)
  PROVE  ConnectionsInv'
<1>1. /\ cur[s] # NULL /\ by_uid[s] = cur[s] /\ InAcquire(s) /\ sa[s] = "up"
      /\ heap[cur[s]].ip \in Address
  BY AcquiredIp
     DEF acquire_reused, acquire_bound, IInv, AcquiredLeaseStays, InAcquire, AcquirePc,
         ConnectionsInv
<1>2. /\ vip' = [vip EXCEPT ![s] = Append(@, heap[cur[s]].ip)]
      /\ pc' = [pc EXCEPT ![s] = "idle"]
      /\ UNCHANGED <<sa, by_uid, heap>>
  BY ConstantFacts
     DEF acquire_reused, acquire_bound, ReturnAddress, Goto, Return, sessionVars
<1>3. /\ \A t \in Uid : t # s => vip'[t] = vip[t] /\ pc'[t] = pc[t]
      /\ vip'[s] = Append(vip[s], heap[cur[s]].ip) /\ vip[s] \in Seq(Address)
      /\ pc'[s] = "idle" /\ pc'[Sweeper] = pc[Sweeper]
  BY <1>2, ConstantFacts DEF IInv, ControlTypeOK, Process
<1>4. \A k \in DOMAIN vip'[s] : vip'[s][k] = heap'[by_uid'[s]].ip
  <2>1. \A k \in DOMAIN vip[s] : vip[s][k] = heap[by_uid[s]].ip
    BY <1>1 DEF ConnectionsInv, VipsAreLeased
  <2>. QED  BY <1>1, <1>2, <1>3, <2>1
<1>5. VipsAreLeased'
  BY <1>1, <1>2, <1>3, <1>4 DEF ConnectionsInv, VipsAreLeased
<1>6. \A t \in Uid : t # s /\ UserOf[t] = UserOf[s] => ~InAcquire(t)
  BY <1>1 DEF ConnectionsInv
<1>. QED  BY <1>1, <1>2, <1>3, <1>5, <1>6
          DEF ConnectionsInv, InAcquire, InRelease, AcquirePc

(* A release takes away the lease of its own unique_id, which has no       *)
(* address stored any more, or is down.                                    *)
LEMMA ReleasingKeeps ==
  ASSUME IInv, ConnectionsInv, NEW p \in Process, Releasing(p) PROVE ConnectionsInv'
<1>0. p \in Uid /\ InRelease(p) /\ p # Sweeper
  BY DEF Releasing, release_unbind, release_recycle, release_destroy, ConnectionsInv,
         Process, InRelease
<1>1. UNCHANGED <<sa, vip>> /\ \A q \in Process : q # p => pc'[q] = pc[q]
  BY DEF Releasing, release_unbind, release_recycle, release_destroy, charonVars,
         Goto, Return, IInv, ControlTypeOK
<1>2. pc'[p] \in {"recycle", "destroy", "idle"}
  BY <1>0 DEF Releasing, release_unbind, release_recycle, release_destroy,
              Goto, Return, IInv, ControlTypeOK
<1>3. \A t \in Uid : /\ by_uid[t] # NULL => by_uid[t] \in Chunk /\ by_uid[t] \in Bound
                     /\ pc'[t] = pc[t] \/ t = p
  BY <1>1, FiledOnce, ConstantFacts DEF IInv, Bound
<1>4. ASSUME NEW t \in Uid, sa[t] = "up", vip[t] # << >>
      PROVE  by_uid'[t] = by_uid[t] /\ heap'[by_uid[t]].ip = heap[by_uid[t]].ip
  <2>0. t # p /\ by_uid[t] # NULL
    BY <1>0, <1>4 DEF ConnectionsInv, VipsAreLeased
  <2>1. CASE release_unbind(p)
    <3>1. UidOf(p) = p
      BY <1>0 DEF UidOf
    <3>. QED  BY <1>0, <2>0, <2>1, <3>1, UnbindOK DEF release_unbind, IInv
  <2>2. CASE release_recycle(p)
    BY <2>2 DEF release_recycle, sessionVars
  <2>3. CASE release_destroy(p)
    <3>1. cur[p] \in Chunk /\ cur[p] \notin Bound
      BY <2>3 DEF release_destroy, IInv, DestroyedByOne, ControlTypeOK
    <3>. QED  BY <1>3, <2>0, <2>3, <3>1, DestroyOK
              DEF release_destroy, lease_destroy, IInv
  <2>. QED  BY <2>1, <2>2, <2>3 DEF Releasing
<1>. QED  BY <1>0, <1>1, <1>2, <1>3, <1>4, ConnectionsFrame, ConstantFacts
          DEF ConnectionsInv, InAcquire, InRelease, AcquirePc
(* charon's steps.  An IKE_SA that starts to acquire is the only one of    *)
(* its user in charon's table.                                             *)
LEMMA CharonKeeps ==
  ASSUME OneSaPerUser, IInv, ConnectionsInv, NEW s \in Uid, CharonCalls(s) \/ Destroying(s)
  PROVE  ConnectionsInv'
<1>. USE ConstantFacts DEF IInv, ControlTypeOK, Process, Goto, sessionVars, InManager
<1>1. CASE create_sa(s)
  <2>1. VipsAreLeased'
    BY <1>1 DEF create_sa, ConnectionsInv, VipsAreLeased
  <2>. QED  BY <1>1, <2>1 DEF create_sa, ConnectionsInv, InAcquire, InRelease
<1>2. CASE acquire_address(s)
  <2>1. VipsAreLeased'
    BY <1>2 DEF acquire_address, ConnectionsInv, VipsAreLeased
  <2>2. \A t \in Uid : t # s /\ UserOf[t] = UserOf[s] => sa[t] # "up" /\ ~InAcquire(t)
    BY <1>2 DEF acquire_address, ConnectionsInv
  <2>3. /\ pc'[s] = "lock" /\ pc'[Sweeper] = pc[Sweeper] /\ sa[s] = "up"
        /\ \A t \in Uid : t # s => pc'[t] = pc[t]
        /\ UNCHANGED <<sa, vip>>
    BY <1>2 DEF acquire_address
  <2>. QED  BY <2>1, <2>2, <2>3 DEF ConnectionsInv, InAcquire, InRelease
<1>3. CASE ike_updown(s)
  <2>1. VipsAreLeased'
    BY <1>3 DEF ike_updown, ConnectionsInv, VipsAreLeased
  <2>. QED  BY <1>3, <2>1 DEF ike_updown, ConnectionsInv, InAcquire, InRelease, AcquirePc
<1>4. CASE remove_sa(s) \/ destroy_sa(s)
  <2>1. VipsAreLeased'
    BY <1>4 DEF remove_sa, destroy_sa, ConnectionsInv, VipsAreLeased
  <2>. QED  BY <1>4, <2>1
            DEF remove_sa, destroy_sa, ConnectionsInv, InAcquire, InRelease, AcquirePc
<1>5. CASE release_address(s)
  <2>1. VipsAreLeased'
    BY <1>5 DEF release_address, ConnectionsInv, VipsAreLeased
  <2>2. sa[s] = "removed" /\ sa' = sa /\ pc' = [pc EXCEPT ![s] = "unbind"]
        /\ \A t \in Uid : t # s => vip'[t] = vip[t]
    BY <1>5 DEF release_address
  <2>. QED  BY <2>1, <2>2 DEF ConnectionsInv, InAcquire, InRelease, AcquirePc
<1>. QED  BY <1>1, <1>2, <1>3, <1>4, <1>5 DEF CharonCalls, Destroying

(* Without overlapping IKE_SAs of one user and without the sweep, every    *)
(* step keeps what is stored with connected IKE_SAs true.                  *)
LEMMA NextKeepsConnections ==
  ASSUME OneSaPerUser, ~SweepEnabled, IInv, ConnectionsInv, [Next]_vars
  PROVE  ConnectionsInv'
<1>1. ASSUME NEW s \in Uid, Acquiring(s) PROVE ConnectionsInv'
  BY <1>1, AcquiringKeeps, MigrateKeeps, BindKeeps, BindFailsKeeps, ReturnKeeps DEF Acquiring
<1>2. ASSUME NEW p \in Process, Releasing(p) PROVE ConnectionsInv'
  BY <1>2, ReleasingKeeps
<1>3. ASSUME NEW s \in Uid, CharonCalls(s) \/ Destroying(s) PROVE ConnectionsInv'
  BY <1>3, CharonKeeps
<1>4. ~Sweeping(Sweeper)
  BY DEF ConnectionsInv, Sweeping, sweep, sweep_cb, sweep_alive, sweep_gone,
         sweep_release, sweep_end
<1>5. ASSUME NEW pol \in Policies, reload(pol) PROVE ConnectionsInv'
  BY <1>5, ConnectionsFrame
     DEF reload, sessionVars, charonVars, ConnectionsInv, InAcquire, InRelease
<1>6. ASSUME NEW l \in Chunk, lease_ages(l) PROVE ConnectionsInv'
  <2>1. \A t \in Uid : sa[t] = "up" /\ vip[t] # << >> =>
          by_uid[t] \in Chunk /\ heap[by_uid[t]] # NULL
    BY FiledOnce, ConstantFacts DEF IInv, ConnectionsInv, VipsAreLeased
  <2>2. by_uid' = by_uid /\ \A k \in Chunk : heap[k] # NULL => heap'[k].ip = heap[k].ip
    BY <1>6, LeaseAgesOK DEF lease_ages, LeaseAges, IInv
  <2>. QED  BY <1>6, <2>1, <2>2, ConnectionsFrame
            DEF lease_ages, charonVars, ConnectionsInv, InAcquire, InRelease
<1>7. CASE UNCHANGED vars
  BY <1>7, ConnectionsFrame
     DEF vars, sessionVars, charonVars, ConnectionsInv, InAcquire, InRelease
<1>. QED  BY <1>1, <1>2, <1>3, <1>4, <1>5, <1>6, <1>7, ConstantFacts DEF Next

LEMMA ConnectionsInvariant ==
  ASSUME OneSaPerUser, ~SweepEnabled PROVE Spec => []ConnectionsInv
<1>1. Init => ConnectionsInv
  BY ConstantFacts
     DEF Init, ConnectionsInv, VipsAreLeased, InAcquire, InRelease, AcquirePc
<1>2. IInv /\ ConnectionsInv /\ [Next]_vars => ConnectionsInv'
  BY NextKeepsConnections
<1>. QED  BY <1>1, <1>2, InductiveInvariant, PTL DEF Spec

(* A connected IKE_SA has its lease, and the lease carries each address    *)
(* charon stored, when the IKE_SAs of a user do not overlap and the sweep  *)
(* job could not be created; memory may fail and policies may be reloaded. *)
(* Each of the two conditions is needed: see the runs two_devices and      *)
(* sweep_takes_live.                                                       *)
THEOREM ConnectionsLeased ==
  ASSUME OneSaPerUser, ~SweepEnabled PROVE Spec => []VipsAreLeased
<1>1. ConnectionsInv => VipsAreLeased
  BY DEF ConnectionsInv
<1>. QED  BY <1>1, ConnectionsInvariant, PTL

(* Policies that keep fixed addresses out of the pool and give none to two *)
(* users, across reloads: README.deploy.md:688 asks for the former, the    *)
(* sample policy does both (etc/ipsec.d/cupp/policy.yaml:14-26).           *)
FixedAddressesApart ==
  \A p1, p2 \in Policies, u, w \in User : p1.fixed[u] # NULL =>
    /\ p1.fixed[u] \notin StartH .. EndH
    /\ u # w => p2.fixed[w] # p1.fixed[u]

(* Under such policies the leases of different users, and the address in   *)
(* hand, differ: dynamic ones by their bits, fixed ones by the policies,   *)
(* and one of each because fixed addresses lie outside the pool.           *)
LEMMA UsersApart ==
  ASSUME FixedAddressesApart, NEW u \in User, NEW w \in User, u # w,
         NEW a \in Nat, NEW b \in Nat, NEW fa \in BOOLEAN, NEW fb \in BOOLEAN,
         fa => a \in ConfiguredFor(u), fb => b \in ConfiguredFor(w),
         ~fa => a \in PoolIps, ~fb => b \in PoolIps,
         ~fa /\ ~fb => a # b
  PROVE  a # b
<1>1. PoolIps \subseteq StartH .. EndH
  BY PoolAssumption DEF PoolIps, Offset, Capacity
<1>2. \A v \in User : ConfiguredFor(v) \cap (StartH .. EndH) = {}
  BY DEF FixedAddressesApart, ConfiguredFor
<1>3. ConfiguredFor(u) \cap ConfiguredFor(w) = {}
  BY DEF FixedAddressesApart, ConfiguredFor
<1>. QED  BY <1>1, <1>2, <1>3

(* A dynamic lease, or a dynamic address in hand, is one of the pool.      *)
LEMMA DynamicInPool ==
  ASSUME IInv
  PROVE  /\ \A l \in Holding : Dynamic(l) => heap[l].ip \in PoolIps
         /\ hand # NULL /\ ~hand.fixed => hand.ip \in PoolIps
<1>1. \A a \in Nat : a - StartH \in bits => a \in PoolIps
  <2>1. \A a \in Nat : a = StartH + (a - StartH)
    BY ConstantFacts
  <2>. QED  BY <2>1 DEF PoolIps, IInv, PoolInv, PoolTypeOK
<1>2. \A l \in Holding : heap[l].ip \in Nat
  BY HoldingAreLeases
<1>3. hand # NULL => hand.ip \in Nat
  BY ConstantFacts DEF IInv, ControlTypeOK, Hand
<1>. QED  BY <1>1, <1>2, <1>3 DEF IInv, AddressesExclusive

(* IKE_SAs of different users have different leases with different         *)
(* addresses.                                                              *)
LEMMA LeasedAddressesDiffer ==
  ASSUME FixedAddressesApart, IInv, FixedOfTheirUser,
         NEW s \in Uid, NEW t \in Uid, UserOf[s] # UserOf[t],
         by_uid[s] # NULL, by_uid[t] # NULL
  PROVE  heap[by_uid[s]].ip # heap[by_uid[t]].ip
<1>. DEFINE l == by_uid[s]  m == by_uid[t]
<1>1. /\ l \in Bound /\ heap[l].username = UserOf[s] /\ l # m
      /\ m \in Bound /\ heap[m].username = UserOf[t]
      /\ UserOf[s] \in User /\ UserOf[t] \in User
  BY FiledOnce, ConstantFacts DEF IInv, Bound
<1>2. \A k \in {l, m} : /\ k \in Holding /\ heap[k].ip \in Nat /\ heap[k].fixed \in BOOLEAN
                        /\ ~heap[k].fixed => heap[k].ip \in PoolIps
                        /\ heap[k].fixed => heap[k].ip \in ConfiguredFor(heap[k].username)
  BY <1>1, HoldingAreLeases, DynamicInPool DEF Holding, Dynamic, FixedOfTheirUser
<1>3. ~heap[l].fixed /\ ~heap[m].fixed => heap[l].ip # heap[m].ip
  BY <1>1, <1>2 DEF IInv, AddressesExclusive, Dynamic
<1>. HIDE DEF l, m
<1>. QED  BY <1>1, <1>2, <1>3, UsersApart DEF l, m

(* No two users are connected with the same address, on the same           *)
(* conditions, with policies that keep fixed addresses apart and no reload *)
(* that frees a fixed address while it is copied.                          *)
THEOREM NobodySharesAnAddress ==
  ASSUME OneSaPerUser, ~SweepEnabled, ~ReloadRaces, FixedAddressesApart
  PROVE  Spec => []NoSharedVip
<1>1. IInv /\ FixedOfTheirUser /\ ConnectionsInv => NoSharedVip
  <2>. SUFFICES ASSUME IInv, FixedOfTheirUser, ConnectionsInv, NEW s \in Uid, NEW t \in Uid,
                       sa[s] = "up", sa[t] = "up", UserOf[s] # UserOf[t],
                       NEW j \in DOMAIN vip[s], NEW k \in DOMAIN vip[t]
       PROVE  vip[s][j] # vip[t][k]
    BY DEF NoSharedVip
  <2>1. vip[s] # << >> /\ vip[t] # << >>
    OBVIOUS
  <2>2. /\ by_uid[s] # NULL /\ vip[s][j] = heap[by_uid[s]].ip
        /\ by_uid[t] # NULL /\ vip[t][k] = heap[by_uid[t]].ip
    BY <2>1 DEF ConnectionsInv, VipsAreLeased
  <2>. QED  BY <2>2, LeasedAddressesDiffer
<1>. QED  BY <1>1, InductiveInvariant, FixedGoToTheirUsers, ConnectionsInvariant, PTL
-----------------------------------------------------------------------------
(* The lease table implements AddressLeases *)

(* What users see of the table. *)
LEMMA LeaseOfType ==
  ASSUME IInv, NEW u \in User
  PROVE  /\ by_user[u] = NULL => leaseOf[u] = NULL
         /\ by_user[u] # NULL =>
              /\ leaseOf[u] = [ip |-> heap[by_user[u]].ip,
                               unique_id |-> heap[by_user[u]].unique_id,
                               fixed |-> heap[by_user[u]].fixed]
              /\ leaseOf[u] \in Held /\ leaseOf[u] # NULL
<1>1. by_user[u] # NULL => heap[by_user[u]] \in Lease
  BY FiledOnce DEF IInv
<1>. QED  BY <1>1, AllocatorAssumption DEF leaseOf, Held, Lease

(* A step that keeps by_user and the leases in it is a stutter. *)
LEMMA LeaseOfFrame ==
  ASSUME by_user' = by_user,
         \A u \in User : by_user[u] # NULL =>
            /\ heap'[by_user[u]].ip = heap[by_user[u]].ip
            /\ heap'[by_user[u]].fixed = heap[by_user[u]].fixed
            /\ heap'[by_user[u]].unique_id = heap[by_user[u]].unique_id
  PROVE  leaseOf' = leaseOf
BY DEF leaseOf

(* A step that changes what one user holds. *)
LEMMA LeaseOfUpdate ==
  ASSUME NEW u \in User, NEW v, leaseOf'[u] = v,
         \A w \in User \ {u} : leaseOf'[w] = leaseOf[w]
  PROVE  leaseOf' = [leaseOf EXCEPT ![u] = v]
<1>1. leaseOf = [w \in User |-> leaseOf[w]]
  BY DEF leaseOf
<1>2. leaseOf' = [w \in User |-> leaseOf'[w]]
  BY DEF leaseOf
<1>. QED  BY <1>1, <1>2

(* The addresses of connected IKE_SAs. *)
LEMMA CarriedFrame ==
  ASSUME UNCHANGED <<sa, vip>> PROVE carriedOf' = carriedOf
BY DEF carriedOf

(* Appending to a sequence adds one element. *)
LEMMA AppendRange ==
  ASSUME NEW q \in Seq(Address), NEW a \in Address
  PROVE  {Append(q, a)[k] : k \in DOMAIN Append(q, a)} = {q[k] : k \in DOMAIN q} \cup {a}
<1>1. /\ Len(q) \in Nat /\ DOMAIN q = 1 .. Len(q)
      /\ DOMAIN Append(q, a) = 1 .. Len(q) + 1
      /\ Append(q, a)[Len(q) + 1] = a
      /\ \A k \in 1 .. Len(q) : Append(q, a)[k] = q[k]
  OBVIOUS
<1>2. 1 .. Len(q) + 1 = (1 .. Len(q)) \cup {Len(q) + 1}
  BY <1>1
<1>. QED  BY <1>1, <1>2

(* A step that changes what one IKE_SA is connected with. *)
LEMMA CarriedUpdate ==
  ASSUME NEW s \in Uid, NEW v, carriedOf'[s] = v,
         \A t \in Uid \ {s} : carriedOf'[t] = carriedOf[t]
  PROVE  carriedOf' = [carriedOf EXCEPT ![s] = v]
<1>1. carriedOf = [t \in Uid |-> carriedOf[t]]
  BY DEF carriedOf
<1>2. carriedOf' = [t \in Uid |-> carriedOf'[t]]
  BY DEF carriedOf
<1>. QED  BY <1>1, <1>2

(* bind_lease grants the address in hand, which no other user holds. *)
LEMMA BindGrants ==
  ASSUME FixedAddressesApart, IInv, FixedOfTheirUser, NEW s \in Uid, acquire_bind(s)
  PROVE  Abs!LeasesNext
<1>. DEFINE u == UserOf[s]
<1>0. PICK l \in Chunk : bind_lease(UserOf[s], s, hand.ip, hand.fixed, l)
  BY DEF acquire_bind
<1>1. /\ u \in User /\ by_user[u] = NULL /\ pc[s] = "bind" /\ UNCHANGED <<sa, vip>>
      /\ hand # NULL /\ hand.ip \in LeaseIp /\ hand.ip \in Nat /\ hand.fixed \in BOOLEAN
  BY ConstantFacts
     DEF acquire_bind, charonVars, IInv, AcquireIsExclusive, AcquirePc, ControlTypeOK, Hand
<1>2. /\ by_user' = [by_user EXCEPT ![u] = l]
      /\ heap' = [heap EXCEPT ![l] = lease_create(u, s, hand.ip, hand.fixed)]
      /\ l \notin Bound
  BY <1>0, <1>1, BindAdds DEF IInv
<1>. HIDE DEF u
<1>3. leaseOf[u] = NULL
  BY <1>1, LeaseOfType
<1>4. hand.fixed => hand.ip \in ConfiguredFor(u)
  BY <1>1 DEF FixedOfTheirUser, u
<1>5. ~hand.fixed => hand.ip \in PoolIps
  BY <1>1, DynamicInPool
<1>6. ~Abs!HeldByOther(u, hand.ip)
  <2>. SUFFICES ASSUME NEW w \in User, w # u, leaseOf[w] # NULL PROVE leaseOf[w].ip # hand.ip
    BY DEF Abs!HeldByOther
  <2>. DEFINE m == by_user[w]
  <2>1. m # NULL
    BY LeaseOfType
  <2>2. leaseOf[w].ip = heap[m].ip
    BY <2>1 DEF leaseOf
  <2>3. /\ m \in Bound /\ m \in Holding /\ heap[m].username = w
        /\ heap[m].ip \in Nat /\ heap[m].fixed \in BOOLEAN
    BY <2>1, HoldingAreLeases, FiledOnce DEF Holding, IInv
  <2>4. /\ ~heap[m].fixed => heap[m].ip \in PoolIps
        /\ heap[m].fixed => heap[m].ip \in ConfiguredFor(w)
    BY <2>3, DynamicInPool DEF Dynamic, FixedOfTheirUser
  <2>5. ~heap[m].fixed /\ ~hand.fixed => heap[m].ip # hand.ip
    BY <1>1, <2>3 DEF IInv, AddressesExclusive, Dynamic
  <2>. HIDE DEF m
  <2>. QED  BY <1>1, <1>4, <1>5, <2>2, <2>3, <2>4, <2>5, UsersApart
<1>7. leaseOf' = [leaseOf EXCEPT
        ![u] = [ip |-> hand.ip, unique_id |-> s, fixed |-> hand.fixed]]
  <2>1. by_user'[u] = l /\ \A w \in User \ {u} : by_user'[w] = by_user[w]
    BY <1>1, <1>2 DEF IInv, SessionInv, SessionTypeOK
  <2>2. heap'[l] = lease_create(u, s, hand.ip, hand.fixed)
    BY <1>2 DEF IInv, SessionInv, SessionTypeOK
  <2>3. \A w \in User : by_user[w] # NULL => heap'[by_user[w]] = heap[by_user[w]]
    BY <1>2, HoldingAreLeases DEF IInv, SessionInv, SessionTypeOK, Bound
  <2>4. l # NULL
    BY ConstantFacts
  <2>5. leaseOf'[u] = [ip |-> hand.ip, unique_id |-> s, fixed |-> hand.fixed]
    BY <1>1, <2>1, <2>2, <2>4 DEF leaseOf, lease_create
  <2>6. \A w \in User \ {u} : leaseOf'[w] = leaseOf[w]
    BY <2>1, <2>3 DEF leaseOf
  <2>. QED  BY <1>1, <2>5, <2>6, LeaseOfUpdate
<1>8. carriedOf' = carriedOf
  BY <1>1, CarriedFrame
<1>9. FixedIps[u] = ConfiguredFor(u)
  BY <1>1 DEF FixedIps
<1>10. hand.ip \in IF hand.fixed THEN FixedIps[u] ELSE PoolIps
  BY <1>4, <1>5, <1>9
<1>11. Abs!Grant(u, s, hand.ip, hand.fixed)
  BY <1>3, <1>6, <1>7, <1>8, <1>10 DEF Abs!Grant, u
<1>12. hand.ip \in PoolIps \cup FixedIps[u]
  BY <1>10
<1>13. leaseOf[u] = NULL
  BY <1>11 DEF Abs!Grant
<1>. QED  BY <1>1, <1>11, <1>12, <1>13 DEF Abs!LeasesNext

(* migrate reassigns the user's lease, whose old IKE_SA is not connected   *)
(* with its address any more.                                              *)
LEMMA MigrateReassigns ==
  ASSUME IInv, ConnectionsInv, NEW s \in Uid, acquire_migrate(s) PROVE Abs!LeasesNext
<1>. DEFINE u == UserOf[s]  l == by_user[u]
<1>1. u \in User /\ l # NULL /\ UNCHANGED <<sa, vip>> /\ InAcquire(s)
  BY ConstantFacts
     DEF acquire_migrate, charonVars, IInv, AcquiredLeaseStays, InAcquire, AcquirePc
<1>2. /\ heap' = [heap EXCEPT ![l] = [@ EXCEPT !.unique_id = s, !.expired = FALSE]]
      /\ by_user' = by_user
  BY <1>1, MigrateMoves, MigrateOK DEF acquire_migrate, IInv
<1>3. /\ l \in Chunk /\ heap[l] \in Lease
      /\ heap[l].unique_id \in Uid /\ UserOf[heap[l].unique_id] = u
  BY <1>1, FiledOnce DEF IInv
<1>4. \A w \in User \ {u} : by_user[w] # NULL => by_user[w] # l
  BY <1>1, FiledOnce DEF IInv
<1>5. /\ heap'[l].ip = heap[l].ip /\ heap'[l].fixed = heap[l].fixed
      /\ heap'[l].unique_id = s
      /\ \A k \in Chunk \ {l} : heap'[k] = heap[k]
  <2>. HIDE DEF l
  <2>. QED  BY <1>2, <1>3 DEF Lease, IInv, SessionInv, SessionTypeOK
<1>6. \A w \in User \ {u} : by_user[w] # NULL => heap'[by_user[w]] = heap[by_user[w]]
  BY <1>4, <1>5, FiledOnce DEF IInv
<1>7. /\ leaseOf[u] # NULL
      /\ leaseOf[u] = [ip |-> heap[l].ip, unique_id |-> heap[l].unique_id,
                       fixed |-> heap[l].fixed]
  BY <1>1, LeaseOfType
<1>8. s = heap[l].unique_id \/ carriedOf[heap[l].unique_id] = {}
  <2>1. \A t \in Uid : t # s /\ UserOf[t] = UserOf[s] /\ sa[t] = "up" => vip[t] = << >>
    BY <1>1 DEF ConnectionsInv
  <2>. HIDE DEF l
  <2>. QED  BY <1>3, <2>1 DEF carriedOf
<1>. HIDE DEF u, l
<1>9. leaseOf' = [leaseOf EXCEPT ![u].unique_id = s]
  <2>1. leaseOf'[u] = [ip |-> heap[l].ip, unique_id |-> s, fixed |-> heap[l].fixed]
    BY <1>1, <1>2, <1>5 DEF leaseOf, l
  <2>2. leaseOf'[u] = [leaseOf[u] EXCEPT !.unique_id = s]
    BY <1>7, <2>1
  <2>3. \A w \in User \ {u} : leaseOf'[w] = leaseOf[w]
    BY <1>2, <1>6 DEF leaseOf
  <2>. QED  BY <1>1, <2>2, <2>3, LeaseOfUpdate
<1>10. carriedOf' = carriedOf
  BY <1>1, CarriedFrame
<1>11. s = leaseOf[u].unique_id \/ Abs!Idle(u)
  BY <1>7, <1>8 DEF Abs!Idle
<1>12. Abs!Reassign(u, s)
  BY <1>7, <1>9, <1>10, <1>11 DEF Abs!Reassign, u
<1>13. leaseOf[u] # NULL
  BY <1>12 DEF Abs!Reassign
<1>. QED  BY <1>1, <1>12, <1>13 DEF Abs!LeasesNext

(* unbind revokes the lease of an IKE_SA that is not connected with its    *)
(* address, or finds nothing.                                              *)
LEMMA UnbindRevokes ==
  ASSUME IInv, ConnectionsInv, NEW p \in Process, release_unbind(p)
  PROVE  Abs!LeasesNext \/ UNCHANGED <<leaseOf, carriedOf>>
<1>. DEFINE l == by_uid[p]  u == UserOf[p]
<1>0. p \in Uid /\ UidOf(p) = p /\ InRelease(p) /\ UNCHANGED <<sa, vip>>
  BY DEF release_unbind, UidOf, ConnectionsInv, Process, InRelease, charonVars
<1>1. /\ heap' = heap
      /\ \A w \in User : by_user'[w] = IF l # NULL /\ w = u THEN NULL ELSE by_user[w]
  BY <1>0, UnbindOK DEF release_unbind, IInv
<1>2. carriedOf' = carriedOf
  BY <1>0, CarriedFrame
<1>3. CASE l = NULL
  BY <1>1, <1>2, <1>3 DEF leaseOf
<1>4. CASE l # NULL
  <2>1. u \in User /\ by_user[u] = l /\ heap[l].unique_id = p
    BY <1>0, <1>4, FiledOnce, ConstantFacts DEF IInv
  <2>2. leaseOf[u] # NULL /\ leaseOf[u].unique_id = p
    <3>1. /\ leaseOf[u] # NULL
          /\ leaseOf[u] = [ip |-> heap[l].ip, unique_id |-> p, fixed |-> heap[l].fixed]
      BY <1>4, <2>1, LeaseOfType
    <3>. QED  BY <3>1
  <2>3. Abs!Idle(u)
    BY <1>0, <2>2 DEF Abs!Idle, carriedOf, ConnectionsInv
  <2>. HIDE DEF u, l
  <2>4. leaseOf' = [leaseOf EXCEPT ![u] = NULL]
    BY <1>1, <1>4, <2>1 DEF leaseOf
  <2>. QED  BY <1>2, <2>1, <2>2, <2>3, <2>4 DEF Abs!LeasesNext, Abs!Revoke
<1>. QED  BY <1>3, <1>4

(* Returning delivers the address of the lease. *)
LEMMA ReturnDelivers ==
  ASSUME IInv, ConnectionsInv, NEW s \in Uid, acquire_reused(s) \/ acquire_bound(s)
  PROVE  Abs!LeasesNext
<1>. DEFINE u == UserOf[s]  l == cur[s]
<1>1. /\ u \in User /\ l # NULL /\ l = by_user[u] /\ by_uid[s] = l /\ sa[s] = "up"
      /\ vip[s] \in Seq(Address) /\ heap[l].ip \in Address
  BY AcquiredIp, ConstantFacts
     DEF acquire_reused, acquire_bound, IInv, AcquiredLeaseStays, ControlTypeOK,
         ConnectionsInv, InAcquire, AcquirePc
<1>2. vip' = [vip EXCEPT ![s] = Append(@, heap[l].ip)] /\ UNCHANGED <<sa, by_user, heap>>
  BY DEF acquire_reused, acquire_bound, ReturnAddress, sessionVars
<1>3. heap[l].unique_id = s
  BY <1>1, FiledOnce DEF IInv
<1>4. /\ leaseOf[u] # NULL /\ leaseOf[u].unique_id = s /\ leaseOf[u].ip = heap[l].ip
      /\ leaseOf' = leaseOf
  <2>1. /\ leaseOf[u] # NULL
        /\ leaseOf[u] = [ip |-> heap[l].ip, unique_id |-> s, fixed |-> heap[l].fixed]
    BY <1>1, <1>3, LeaseOfType
  <2>2. leaseOf' = leaseOf
    BY <1>2, LeaseOfFrame
  <2>. QED  BY <2>1, <2>2
<1>. DEFINE a == heap[l].ip
<1>. HIDE DEF u, l, a
<1>5. carriedOf'[s] = carriedOf[s] \cup {a}
  <2>1. vip'[s] = Append(vip[s], a)
    BY <1>2 DEF a, IInv, ControlTypeOK
  <2>2. {Append(vip[s], a)[k] : k \in DOMAIN Append(vip[s], a)}
           = {vip[s][k] : k \in DOMAIN vip[s]} \cup {a}
    BY <1>1, AppendRange DEF a
  <2>. QED  BY <1>1, <1>2, <2>1, <2>2 DEF carriedOf
<1>6. \A t \in Uid \ {s} : carriedOf'[t] = carriedOf[t]
  BY <1>2 DEF carriedOf, IInv, ControlTypeOK
<1>7. carriedOf' = [carriedOf EXCEPT ![s] = @ \cup {a}]
  BY <1>5, <1>6, CarriedUpdate
<1>8. Abs!Deliver(u)
  BY <1>4, <1>7 DEF Abs!Deliver, a
<1>9. leaseOf[u] # NULL
  BY <1>8 DEF Abs!Deliver
<1>. QED  BY <1>1, <1>8, <1>9 DEF Abs!LeasesNext

(* An IKE_SA that goes down or is removed is no longer connected. *)
LEMMA DownDisconnects ==
  ASSUME IInv, NEW s \in Uid, ike_updown(s) \/ remove_sa(s) PROVE Abs!LeasesNext
<1>1. /\ sa'[s] # "up" /\ \A t \in Uid \ {s} : sa'[t] = sa[t]
      /\ UNCHANGED <<vip, by_user, heap>>
  BY DEF ike_updown, remove_sa, sessionVars, IInv, ControlTypeOK
<1>2. leaseOf' = leaseOf
  BY <1>1, LeaseOfFrame
<1>3. carriedOf' = [carriedOf EXCEPT ![s] = {}]
  <2>1. carriedOf'[s] = {} /\ \A t \in Uid \ {s} : carriedOf'[t] = carriedOf[t]
    BY <1>1 DEF carriedOf
  <2>. QED  BY <2>1, CarriedUpdate
<1>. QED  BY <1>2, <1>3 DEF Abs!LeasesNext, Abs!Disconnect

(* No other step changes the leases users see, *)
LEMMA LeasesStay ==
  ASSUME IInv, [Next]_vars
  PROVE  \/ leaseOf' = leaseOf
         \/ \E s \in Uid : acquire_bind(s) \/ acquire_migrate(s)
         \/ \E p \in Process : release_unbind(p)
<1>1. CASE StillStep
  <2>1. \A u \in User : by_user[u] # NULL => by_user[u] \in Chunk /\ heap[by_user[u]] # NULL
    BY HoldingAreLeases DEF Holding
  <2>. QED  BY <1>1, <2>1, LeaseOfFrame DEF StillStep, SameLease
<1>2. ASSUME NEW s \in Uid,
             \/ acquire_fixed(s) \/ acquire_fixed_freed(s) \/ acquire_none(s)
             \/ \E i \in Offset : acquire_dynamic(s, i)
      PROVE  leaseOf' = leaseOf
  BY <1>2, LeaseOfFrame
     DEF acquire_fixed, acquire_fixed_freed, acquire_none, acquire_dynamic, sessionVars
<1>3. ASSUME NEW s \in Uid, acquire_bind_fails(s) PROVE leaseOf' = leaseOf
  <2>1. UserOf[s] \in User /\ by_user[UserOf[s]] = NULL
    BY <1>3, ConstantFacts DEF acquire_bind_fails, IInv, AcquireIsExclusive
  <2>2. heap' = heap /\ by_user' = by_user
    BY <1>3, <2>1, BindFailsOK
       DEF acquire_bind_fails, bind_lease_fails, IInv, SessionInv, SessionTypeOK
  <2>. QED  BY <2>2, LeaseOfFrame
<1>4. ASSUME NEW p \in Process, release_recycle(p) PROVE leaseOf' = leaseOf
  BY <1>4, LeaseOfFrame DEF release_recycle, sessionVars
<1>5. ASSUME NEW p \in Process, release_destroy(p) PROVE leaseOf' = leaseOf
  <2>1. cur[p] \in Chunk /\ \A u \in User : by_user[u] # cur[p]
    BY <1>5 DEF release_destroy, IInv, DestroyedByOne, ControlTypeOK
  <2>2. \A u \in User : by_user[u] # NULL => heap'[by_user[u]] = heap[by_user[u]]
    BY <1>5, <2>1 DEF release_destroy, lease_destroy, IInv, SessionInv, SessionTypeOK
  <2>. QED  BY <1>5, <2>2, LeaseOfFrame DEF release_destroy, lease_destroy
<1>. QED  BY <1>1, <1>2, <1>3, <1>4, <1>5, StepKinds DEF KeyStep

(* and no other step what IKE_SAs are connected with. *)
LEMMA CarriedStays ==
  ASSUME IInv, ConnectionsInv, [Next]_vars
  PROVE  \/ carriedOf' = carriedOf
         \/ \E s \in Uid : \/ acquire_reused(s) \/ acquire_bound(s)
                           \/ ike_updown(s) \/ remove_sa(s)
<1>1. ASSUME NEW s \in Uid, Acquiring(s), ~acquire_reused(s), ~acquire_bound(s)
      PROVE  carriedOf' = carriedOf
  <2>1. UNCHANGED charonVars
    BY <1>1 DEF Acquiring, acquire_lock, acquire_lookup, acquire_migrate,
                acquire_reused_fails, acquire_fixed, acquire_fixed_freed, acquire_dynamic,
                acquire_none, acquire_bind, acquire_bind_fails, acquire_rollback
  <2>. QED  BY <2>1, CarriedFrame DEF charonVars
<1>2. ASSUME NEW p \in Process, Releasing(p) PROVE carriedOf' = carriedOf
  BY <1>2, CarriedFrame
     DEF Releasing, release_unbind, release_recycle, release_destroy, charonVars
<1>3. ASSUME NEW s \in Uid, acquire_address(s) PROVE carriedOf' = carriedOf
  BY <1>3, CarriedFrame DEF acquire_address
<1>4. ASSUME NEW s \in Uid, create_sa(s) \/ release_address(s) \/ destroy_sa(s)
      PROVE  carriedOf' = carriedOf
  <2>1. /\ \A t \in Uid \ {s} : sa'[t] = sa[t] /\ vip'[t] = vip[t]
        /\ sa'[s] = "up" => vip'[s] = << >>
        /\ sa[s] # "up"
    BY <1>4 DEF create_sa, release_address, destroy_sa, ConnectionsInv, IInv, ControlTypeOK
  <2>2. carriedOf'[s] = {} /\ carriedOf[s] = {}
    <3>1. {<< >>[k] : k \in DOMAIN << >>} = {}
      OBVIOUS
    <3>. QED  BY <2>1, <3>1 DEF carriedOf
  <2>3. \A t \in Uid \ {s} : carriedOf'[t] = carriedOf[t]
    BY <2>1 DEF carriedOf
  <2>. QED  BY <2>2, <2>3 DEF carriedOf
<1>5. ASSUME Sweeping(Sweeper) PROVE carriedOf' = carriedOf
  BY <1>5, CarriedFrame
     DEF Sweeping, sweep, sweep_cb, sweep_alive, sweep_gone, sweep_release, sweep_end,
         charonVars
<1>6. ASSUME NEW pol \in Policies, reload(pol) PROVE carriedOf' = carriedOf
  BY <1>6, CarriedFrame DEF reload, charonVars
<1>7. ASSUME NEW l \in Chunk, lease_ages(l) PROVE carriedOf' = carriedOf
  BY <1>7, CarriedFrame DEF lease_ages, charonVars
<1>8. CASE UNCHANGED vars
  BY <1>8, CarriedFrame DEF vars, charonVars
<1>. QED  BY <1>1, <1>2, <1>3, <1>4, <1>5, <1>6, <1>7, <1>8, ConstantFacts
          DEF Next, CharonCalls, Destroying

(* Every step of every process is a step of AddressLeases or a stutter. *)
LEMMA NextImplements ==
  ASSUME FixedAddressesApart, IInv, FixedOfTheirUser, ConnectionsInv, [Next]_vars
  PROVE  [Abs!LeasesNext]_(<<leaseOf, carriedOf>>)
BY LeasesStay, CarriedStays, BindGrants, MigrateReassigns, UnbindRevokes, ReturnDelivers,
   DownDisconnects

(* The plugin keeps the promises of AddressLeases: an address is granted   *)
(* only while no other user holds it, fixed or not; it does not change     *)
(* while it is held; and a lease is neither revoked nor moved away from an *)
(* IKE_SA that is connected with its address, whichever order charon's     *)
(* calls come in, reloads and failing allocations included.  Each          *)
(* condition is needed: the runs two_devices, sweep_takes_live and         *)
(* fixed_taken show what happens without it, and a freed fixed address may *)
(* be copied as any other.                                                 *)
THEOREM LeasesImplemented ==
  ASSUME OneSaPerUser, ~SweepEnabled, ~ReloadRaces, FixedAddressesApart
  PROVE  Spec => ImplementsAddressLeases
<1>1. Init => Abs!LeasesInit
  BY DEF Init, SessionInit, Abs!LeasesInit, leaseOf, carriedOf
<1>2. IInv /\ FixedOfTheirUser /\ ConnectionsInv /\ [Next]_vars
        => [Abs!LeasesNext]_(Abs!leaseVars)
  BY NextImplements DEF Abs!leaseVars
<1>. QED  BY <1>1, <1>2, InductiveInvariant, FixedGoToTheirUsers, ConnectionsInvariant, PTL
          DEF Spec, ImplementsAddressLeases, Abs!LeasesSpec
=============================================================================
