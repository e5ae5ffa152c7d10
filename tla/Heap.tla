-------------------------------- MODULE Heap --------------------------------
(* The heap, of which the models keep what a structure's chunk holds and   *)
(* whether it is free.  Pointers are chunks or NULL.                       *)
EXTENDS Pointers

CONSTANT Chunk     (* where a structure may be allocated *)
=============================================================================
