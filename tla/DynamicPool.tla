----------------------------- MODULE DynamicPool -----------------------------
(***************************************************************************)
(* plugin/src/dynamic_pool.c: the pool of IPv4 addresses StartH .. EndH,   *)
(* tracked by a bitmap and a counter of the bits that are set.             *)
(*                                                                         *)
(* An address is its host-order integer.  The bitmap is the set of offsets *)
(* whose bit is 1.  Every method runs under the pool's own mutex and calls *)
(* nothing, so each is one step.  A plugin without a dynamic pool (dyn =   *)
(* NULL in ip_allocator.c) behaves as a pool of capacity 0: EndH < StartH. *)
(***************************************************************************)
EXTENDS Integers, FiniteSets

CONSTANTS
  StartH,   (* first address of the pool *)
  EndH,     (* last address of the pool  *)
  Address   (* every address a caller may name: pool addresses and others  *)

ASSUME PoolAssumption ==
  /\ StartH \in Nat
  /\ EndH \in Nat
  /\ StartH .. EndH \subseteq Address
  /\ Address \subseteq Nat

VARIABLES
  bits,     (* offsets whose bit is set *)
  used      (* the counter kept beside the bitmap *)

poolVars == <<bits, used>>

(* Faulty variants of the code's operations stand before the operation     *)
(* they vary; no specification uses them.  This one is off by one.         *)
Capacity_PlusOne == IF EndH < StartH THEN 0 ELSE EndH - StartH + 2

Capacity == IF EndH < StartH THEN 0 ELSE EndH - StartH + 1

Offset == 0 .. (Capacity - 1)

Free == Offset \ bits

(* dynamic_pool_create: a zeroed bitmap. *)
PoolInit ==
  /\ bits = {}
  /\ used = 0

(* Faulty: the bit is not set. *)
PoolAcquire_Unmarked(i) ==
  /\ used < Capacity
  /\ i \in Free
  /\ \A j \in Free : i <= j
  /\ bits' = bits
  /\ used' = used + 1

(* acquire found offset i: the counter says there is room and i is the     *)
(* first clear bit of the scan.                                            *)
PoolAcquire(i) ==
  /\ used < Capacity
  /\ i \in Free
  /\ \A j \in Free : i <= j
  /\ bits' = bits \cup {i}
  /\ used' = used + 1

(* acquire returns NULL: the counter says full, or the scan finds nothing. *)
PoolExhausted ==
  /\ used >= Capacity \/ Free = {}
  /\ UNCHANGED poolVars

(* Faulty: the counter goes down also when the bit was clear. *)
PoolRelease_Uncounted(ip) ==
  LET i == ip - StartH
  IN  IF i \in Offset
      THEN bits' = bits \ {i} /\ used' = IF used > 0 THEN used - 1 ELSE used
      ELSE UNCHANGED poolVars

(* Faulty: the counter never goes down. *)
PoolRelease_KeepsUsed(ip) ==
  LET i == ip - StartH
  IN  IF i \in Offset /\ i \in bits
      THEN bits' = bits \ {i} /\ UNCHANGED used
      ELSE UNCHANGED poolVars

(* Faulty: the last address of the range is not released. *)
PoolRelease_NotLast(ip) ==
  LET i == ip - StartH
  IN  IF i \in Offset \ {Capacity - 1} /\ i \in bits
      THEN bits' = bits \ {i} /\ used' = IF used > 0 THEN used - 1 ELSE used
      ELSE UNCHANGED poolVars

(* release: ignored outside the range, and when the bit is already clear;  *)
(* the counter never goes below zero.                                      *)
PoolRelease(ip) ==
  LET i == ip - StartH
  IN  IF i \in Offset /\ i \in bits
      THEN /\ bits' = bits \ {i}
           /\ used' = IF used > 0 THEN used - 1 ELSE used
      ELSE UNCHANGED poolVars

-----------------------------------------------------------------------------
(* The pool on its own, under a caller that releases whatever it likes.    *)

PoolNext ==
  \/ \E i \in Offset : PoolAcquire(i)
  \/ PoolExhausted
  \/ \E ip \in Address : PoolRelease(ip)

PoolSpec == PoolInit /\ [][PoolNext]_poolVars

PoolTypeOK ==
  /\ bits \subseteq Offset
  /\ used \in 0 .. Capacity

(* The counter is the number of set bits, whatever is released, how often  *)
(* and whether it is in the pool or not ("idempotent", dynamic_pool.h:22). *)
(* acquire refuses on the counter but hands out by the bitmap, so a drift  *)
(* in either direction loses addresses or scans a full bitmap.             *)
UsedCountsBits == used = Cardinality(bits)

(* acquire answers NULL only when every address of the pool is taken:      *)
(* release never leaves the counter above what the bitmap shows.           *)
ExhaustedOnlyWhenFull == (used >= Capacity) => (Free = {})
=============================================================================
