--------------------------- MODULE MCIpAllocator ---------------------------
(* Small instances of IpAllocator for TLC. *)
EXTENDS IpAllocator, TLC

CONSTANTS
  s1, s2, s3,     (* IKE_SAs *)
  alice, bob,     (* users *)
  l1, l2, l3, l4  (* chunks *)

(* alice may be connected twice, bob once. *)
MCUserOf == [s \in Uid |-> IF s = s3 THEN bob ELSE alice]

(* One IKE_SA each. *)
MCUserOf2 == [s \in Uid |-> IF s = s1 THEN alice ELSE bob]

(* A policy that fixes address a for alice. *)
Fixing(a) == [fixed |-> [u \in User |-> IF u = alice THEN a ELSE NULL],
              pool  |-> StartH .. EndH]

OnlyDynamic == {Fixing(NULL)}

(* Address 1 is the first of the pool, 9 is outside it. *)
FixedOrNot == {Fixing(NULL), Fixing(1)}
FixedInside == {Fixing(1)}
FixedOutsideOrNot == {Fixing(NULL), Fixing(9)}

(* A reload that moves the pool to address 9. *)
PoolMoves == {Fixing(NULL), [Fixing(NULL) EXCEPT !.pool = {9}]}

ChunkSymmetry == Permutations(Chunk)
=============================================================================
