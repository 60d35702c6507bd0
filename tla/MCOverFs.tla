------------------------------ MODULE MCOverFs ------------------------------
(***************************************************************************)
(* The instance of OverFs that TLC checks: a disk of blocks of three bytes *)
(* that fills and shrinks, or is replaced by one with blocks of four, a    *)
(* megabyte of four bytes, and a few requests of the setters.              *)
(***************************************************************************)
EXTENDS OverFs, TLC

MCRealStats ==
  { [blocks |-> 10, bavail |-> 6, bfree |-> 8, frsize |-> 3],
    [blocks |-> 7,  bavail |-> 2, bfree |-> 3, frsize |-> 3],
    [blocks |-> 5,  bavail |-> 5, bfree |-> 5, frsize |-> 4] }

\* A fixed free size and a difference, of which one thread may see half each, both
\* above the disk, and a fixed size that the assert of a Debug build refuses.
MCRequests ==
  { [dim |-> "free", fixed |-> TRUE,  inMB |-> FALSE, n |-> 11],
    [dim |-> "free", fixed |-> FALSE, inMB |-> FALSE, n |-> 9],
    [dim |-> "disk", fixed |-> TRUE,  inMB |-> FALSE, n |-> 0] }
=============================================================================
