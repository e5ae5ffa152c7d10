-------------------------- MODULE DynamicPoolProofs --------------------------
(***************************************************************************)
(* Proofs about DynamicPool, for every pool.  PoolInv is inductive as it   *)
(* stands; the lemmas take one operation each, so that a module that       *)
(* composes the pool with its callers can cite them.  The last part is     *)
(* about PoolRange, the arithmetic that sizes the bitmap.                  *)
(***************************************************************************)
EXTENDS DynamicPool, PoolRange, FiniteSetTheorems, TLAPS

PoolInv == PoolTypeOK /\ UsedCountsBits

(* The capacity is a number and the offsets are finitely many. *)
LEMMA PoolFinite ==
  /\ Capacity \in Nat
  /\ IsFiniteSet(Offset) /\ Cardinality(Offset) = Capacity
<1>1. Capacity \in Nat
  BY PoolAssumption DEF Capacity
<1>2. IsFiniteSet(Offset) /\ Cardinality(Offset) =
        IF 0 > Capacity - 1 THEN 0 ELSE (Capacity - 1) - 0 + 1
  BY <1>1, FS_Interval DEF Offset
<1>. QED  BY <1>1, <1>2

(* The zeroed bitmap counts no bits. *)
LEMMA PoolInitOK == PoolInit => PoolInv
<1>. SUFFICES ASSUME PoolInit PROVE PoolInv
  OBVIOUS
<1>1. Capacity \in Nat
  BY PoolFinite
<1>2. PoolTypeOK
  BY <1>1 DEF PoolInit, PoolTypeOK
<1>3. UsedCountsBits
  BY FS_EmptySet DEF PoolInit, UsedCountsBits
<1>. QED  BY <1>2, <1>3 DEF PoolInv

(* The set of bits is finite in every state the invariant allows. *)
LEMMA BitsFinite == ASSUME PoolInv PROVE IsFiniteSet(bits) /\ Cardinality(bits) = used
BY PoolFinite, FS_Subset DEF PoolInv, PoolTypeOK, UsedCountsBits

(* acquire sets a clear bit and counts it. *)
LEMMA PoolAcquireOK ==
  ASSUME PoolInv, NEW i, PoolAcquire(i) PROVE PoolInv'
<1>1. Capacity \in Nat /\ used \in 0 .. Capacity /\ bits \subseteq Offset
  BY PoolFinite DEF PoolInv, PoolTypeOK
<1>2. used < Capacity /\ i \in Offset /\ i \notin bits
      /\ bits' = bits \cup {i} /\ used' = used + 1
  BY DEF PoolAcquire, Free
<1>3. PoolTypeOK'
  BY <1>1, <1>2 DEF PoolTypeOK
<1>4. Cardinality(bits \cup {i}) = used + 1
  BY <1>2, BitsFinite, FS_AddElement
<1>. QED  BY <1>2, <1>3, <1>4 DEF PoolInv, UsedCountsBits

(* release clears a set bit and counts it, or does nothing. *)
LEMMA PoolReleaseOK ==
  ASSUME PoolInv, NEW ip, PoolRelease(ip) PROVE PoolInv'
<1>. DEFINE i == ip - StartH
<1>1. Capacity \in Nat /\ used \in 0 .. Capacity /\ bits \subseteq Offset
  BY PoolFinite DEF PoolInv, PoolTypeOK
<1>2. CASE i \in Offset /\ i \in bits
  <2>1. IsFiniteSet(bits) /\ Cardinality(bits) = used
    BY BitsFinite
  <2>2. Cardinality(bits \ {i}) = used - 1
    BY <1>2, <2>1, FS_RemoveElement
  <2>3. used > 0
    BY <1>2, <2>1, <1>1, FS_EmptySet
  <2>4. bits' = bits \ {i} /\ used' = used - 1
    BY <1>2, <2>3 DEF PoolRelease
  <2>5. PoolTypeOK'
    BY <1>1, <2>3, <2>4 DEF PoolTypeOK
  <2>. QED  BY <2>2, <2>4, <2>5 DEF PoolInv, UsedCountsBits
<1>3. CASE ~(i \in Offset /\ i \in bits)
  BY <1>3 DEF PoolRelease, poolVars, PoolInv, PoolTypeOK, UsedCountsBits
<1>. QED  BY <1>2, <1>3

(* A step of somebody else. *)
LEMMA PoolUnchangedOK ==
  ASSUME PoolInv, UNCHANGED poolVars PROVE PoolInv'
BY DEF PoolInv, PoolTypeOK, UsedCountsBits, poolVars

(* When the counter says full, every address is taken. *)
LEMMA FullMeansFull == PoolInv => ExhaustedOnlyWhenFull
<1>. SUFFICES ASSUME PoolInv, used >= Capacity PROVE Free = {}
  BY DEF ExhaustedOnlyWhenFull
<1>1. /\ bits \subseteq Offset /\ used \in 0 .. Capacity /\ Capacity \in Nat
      /\ IsFiniteSet(Offset) /\ Cardinality(Offset) = Capacity
      /\ Cardinality(bits) = used
  BY PoolFinite DEF PoolInv, PoolTypeOK, UsedCountsBits
<1>2. Cardinality(bits) = Cardinality(Offset)
  BY <1>1
<1>3. bits = Offset
  BY <1>1, <1>2, FS_Subset
<1>. QED  BY <1>3 DEF Free

-----------------------------------------------------------------------------
(* The invariant holds of dynamic_pool.c on its own. *)
LEMMA PoolInvariant == PoolSpec => []PoolInv
<1>1. PoolInv /\ [PoolNext]_poolVars => PoolInv'
  BY PoolAcquireOK, PoolReleaseOK, PoolUnchangedOK DEF PoolNext, PoolExhausted
<1>. QED  BY <1>1, PoolInitOK, PTL DEF PoolSpec

(* Whatever its callers release, the counter is the number of bits.        *)
THEOREM PoolCounts == PoolSpec => []UsedCountsBits
<1>1. PoolInv => UsedCountsBits
  BY DEF PoolInv
<1>. QED  BY <1>1, PoolInvariant, PTL

(* acquire, which asks the counter, refuses only when no bit is left.      *)
THEOREM RefusesOnlyWhenFull == PoolSpec => []ExhaustedOnlyWhenFull
<1>. QED  BY FullMeansFull, PoolInvariant, PTL

-----------------------------------------------------------------------------

(* A range, and what dynamic_pool_create computes from it.                 *)
RangeInv ==
  /\ start_h \in 0 .. Word - 1 /\ end_h \in 0 .. Word - 1
  /\ capacity > 0 =>
       /\ start_h <= end_h
       /\ capacity = (end_h - start_h + 1) % Word
       /\ bytes = BitmapBytes(capacity)

(* A number smaller than a word does not wrap. *)
LEMMA NoWrap == ASSUME NEW x \in Nat, x < Word PROVE x % Word = x
BY WordAssumption, Z3

(* A number between one word and two wraps once. *)
LEMMA WrapsOnce ==
  ASSUME NEW x \in Nat, x >= Word, x < Word + Word PROVE x % Word = x - Word
BY WordAssumption, Z3

(* Whatever range a pool is created with, the numbers are the code's. *)
LEMMA RangeInvariant == RangeSpec => []RangeInv
<1>1. RangeInit => RangeInv
  BY WordAssumption DEF RangeInit, RangeInv
<1>2. RangeInv /\ [RangeNext]_rangeVars => RangeInv'
  BY WordAssumption DEF RangeInv, RangeNext, dynamic_pool_create, rangeVars, BitmapBytes
<1>. QED  BY <1>1, <1>2, PTL DEF RangeSpec

(* The bitmap of every pool of fewer than Word - 7 addresses has a bit for *)
(* each of them, and no spare byte.                                        *)
THEOREM BitmapFits == RangeSpec => []RangeFits
<1>1. RangeInv => RangeFits
  <2>. SUFFICES ASSUME RangeInv, capacity > 0, end_h - start_h < Word - 8
       PROVE  /\ capacity = end_h - start_h + 1
              /\ (end_h - start_h) \div 8 = bytes - 1
    BY DEF RangeFits
  <2>. DEFINE d == end_h - start_h
  <2>1. d \in Nat /\ d + 1 < Word /\ d + 8 < Word
    BY WordAssumption DEF RangeInv
  <2>2. capacity = d + 1
    BY <2>1, NoWrap DEF RangeInv
  <2>3. bytes = (d + 8) \div 8
    <3>1. bytes = ((d + 8) % Word) \div 8
      BY <2>1, <2>2 DEF RangeInv, BitmapBytes
    <3>. QED  BY <3>1, <2>1, NoWrap
  <2>4. (d + 8) \div 8 = d \div 8 + 1 /\ d \div 8 \in Nat
    BY <2>1, Z3
  <2>. QED  BY <2>2, <2>3, <2>4
<1>. QED  BY <1>1, RangeInvariant, PTL

(* The restriction of RangeFits is exact: from Word - 8 steps on, cap + 7  *)
(* wraps and the bitmap has no byte at all (dynamic_pool.c:142-158).       *)
RangeWraps == capacity > 0 /\ end_h - start_h >= Word - 8 => bytes = 0

(* A pool of nearly the whole address space has an empty bitmap. *)
THEOREM BitmapWraps == RangeSpec => []RangeWraps
<1>1. RangeInv => RangeWraps
  <2>. SUFFICES ASSUME RangeInv, capacity > 0, end_h - start_h >= Word - 8
       PROVE  bytes = 0
    BY DEF RangeWraps
  <2>. DEFINE d == end_h - start_h
  <2>1. d \in Nat /\ d < Word /\ d + 8 >= Word /\ d + 8 < Word + Word
    BY WordAssumption DEF RangeInv
  <2>2. d + 1 # Word
    BY <2>1, WrapsOnce, WordAssumption DEF RangeInv
  <2>3. capacity = d + 1
    BY <2>1, <2>2, NoWrap, WordAssumption DEF RangeInv
  <2>4. bytes = (d + 8 - Word) \div 8
    <3>1. bytes = ((d + 8) % Word) \div 8
      BY <2>1, <2>3 DEF RangeInv, BitmapBytes
    <3>2. \A x \in Nat : x >= Word /\ x < Word + Word => x % Word = x - Word
      BY WrapsOnce
    <3>3. (d + 8) % Word = d + 8 - Word
      BY <2>1, <3>2, WordAssumption
    <3>. QED  BY <3>1, <3>3
  <2>5. d + 8 - Word \in 0 .. 7
    BY <2>1, <2>2, WordAssumption
  <2>6. \A x \in 0 .. 7 : x \div 8 = 0
    BY Z3
  <2>. QED  BY <2>4, <2>5, <2>6
<1>. QED  BY <1>1, RangeInvariant, PTL
=============================================================================
