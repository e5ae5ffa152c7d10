------------------------------ MODULE Pointers ------------------------------
(* The null pointer, and an absent value of any other kind. *)
CONSTANT NULL
=============================================================================
