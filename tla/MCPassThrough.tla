--------------------------- MODULE MCPassThrough ---------------------------
(***************************************************************************)
(* The instances of PassThrough that TLC checks: two workers, two handles, *)
(* a directory of two entries, and as many descriptors as handles, so that *)
(* mknod takes the last one.                                               *)
(***************************************************************************)
EXTENDS PassThrough, TLC

Symmetry == Permutations(Workers) \cup Permutations(Handles) \cup Permutations(Files)
=============================================================================
