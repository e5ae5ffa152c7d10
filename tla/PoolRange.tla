------------------------------ MODULE PoolRange ------------------------------
(***************************************************************************)
(* plugin/src/dynamic_pool.c, dynamic_pool_create: the arithmetic that     *)
(* sizes the bitmap, in words of a fixed width (uint32_t in the code).     *)
(* DynamicPool takes its result for granted and computes with integers.    *)
(***************************************************************************)
EXTENDS Integers

CONSTANT Word   (* how many values a word has: 2^32 in the code *)

ASSUME WordAssumption == Word \in Nat /\ Word > 8 /\ Word % 8 = 0

VARIABLES
  start_h, end_h,    (* the addresses the pool was created with *)
  capacity,          (* this->capacity, 0 without a pool *)
  bytes              (* the size of this->bits *)

rangeVars == <<start_h, end_h, capacity, bytes>>

RangeInit == start_h = 0 /\ end_h = 0 /\ capacity = 0 /\ bytes = 0

(* Faulty: the last, partly used byte is missing. *)
BitmapBytes_Floor(cap) == cap \div 8

BitmapBytes(cap) == ((cap + 7) % Word) \div 8

dynamic_pool_create(s, e) ==
  /\ capacity = 0
  /\ s <= e
  /\ start_h' = s /\ end_h' = e
  /\ capacity' = (e - s + 1) % Word
  /\ bytes' = BitmapBytes(capacity')

RangeNext == \E s, e \in 0 .. Word - 1 : dynamic_pool_create(s, e)

RangeSpec == RangeInit /\ [][RangeNext]_rangeVars

(* The bitmap has a bit for every address of the range and no spare byte,  *)
(* as acquire and release rely on when they index it by offset.  It holds  *)
(* for ranges up to Word - 8 addresses: cap + 7 wraps beyond that, and     *)
(* for the whole address space cap itself is 0 (dynamic_pool.c:142-158).   *)
RangeFits ==
  capacity > 0 /\ end_h - start_h < Word - 8 =>
    /\ capacity = end_h - start_h + 1
    /\ (end_h - start_h) \div 8 = bytes - 1
=============================================================================
