----------------------------- MODULE FakeSizes -----------------------------
(***************************************************************************)
(* The arithmetic of the library: how a size in megabytes becomes a size   *)
(* in blocks (fspropfaker.cc) and how statfs overwrites the answer of the  *)
(* underlying file system (overfs.cc).  Pure operators; the modules with   *)
(* state are FakedFs and OverFs.                                           *)
(*                                                                         *)
(* A fake size is a record [fixed, n]: fixed stands for the m_bUseFakeFixed*)
(* flags, n for the m_nFake...InBlocks numbers.  A statvfs answer is the   *)
(* record of the three counts that statfs changes and of f_frsize.         *)
(***************************************************************************)
EXTENDS Integers

CONSTANTS
  MegaByte,   \* s_nMegaByteBytes, 1000000 in the code
  BlockSize,  \* m_nBlockSize, the f_frsize seen when the faker was created
  IntMax      \* the largest int64_t; the bound of every number of the program

ASSUME SizesAssumption ==
  /\ IntMax \in Nat \ {0}
  /\ MegaByte \in 1 .. IntMax
  /\ BlockSize \in 1 .. IntMax

Span   == 2 * (IntMax + 1)
Int64  == -(IntMax + 1) .. IntMax
UInt64 == 0 .. Span - 1

\* int64_t addition and multiplication of the builds the project makes: the
\* overflow, undefined in C++, wraps around in the generated code.
Add(a, b) ==
  LET s == a + b
  IN  IF s > IntMax THEN s - Span ELSE IF s < -(IntMax + 1) THEN s + Span ELSE s

Mul(a, b) ==
  IF a * b \in Int64 THEN a * b ELSE ((a * b + IntMax + 1) % Span) - (IntMax + 1)

\* The division and the remainder of C++ truncate towards zero.
TruncDiv(a, b) == IF a >= 0 THEN a \div b ELSE -((-a) \div b)
TruncMod(a, b) == IF a >= 0 THEN a % b ELSE -((-a) % b)

\* static_cast<fsblkcnt_t>
ToUnsigned(a) == IF a < 0 THEN a + Span ELSE a

-----------------------------------------------------------------------------
Dims == {"disk", "free"}
Stat    == [blocks : UInt64, bavail : UInt64, bfree : UInt64, frsize : 0 .. IntMax]
Size    == [fixed : BOOLEAN, n : Int64]
\* A fixed size must be positive: the assert of the setters.
Legal(size) == size.fixed => size.n > 0
Request == [dim : Dims, fixed : BOOLEAN, inMB : BOOLEAN, n : Int64]

\* What statvfs can say of a file system whose counts fit an int64_t.
Plausible(s) == s.bavail <= s.bfree /\ s.bfree <= s.blocks /\ s.blocks <= IntMax

\* The buffer libfuse hands to statfs, left as it is by a statvfs that fails.
ZeroStat == [blocks |-> 0, bavail |-> 0, bfree |-> 0, frsize |-> 0]
\* The members as they are initialised: nothing is faked.
NoFake == [d \in Dims |-> [fixed |-> FALSE, n |-> 0]]
NoCall == [dim |-> "disk", fixed |-> FALSE, n |-> 0]
\* The reply of statfs on every error path.
Error  == [ret |-> -1, stat |-> ZeroStat]

-----------------------------------------------------------------------------
\* A variant that forgets the partial block.
BlocksTruncated(mb, corr) == TruncDiv(Mul(mb, MegaByte), BlockSize)

\* setFake...InMB: the number of blocks for a fixed size and for a difference.
BlocksRounded(mb, corr) ==
  LET bytes == Mul(mb, MegaByte)
  IN  Add(TruncDiv(bytes, BlockSize), IF TruncMod(bytes, BlockSize) # 0 THEN corr ELSE 0)

FixedBlocks(mb) == BlocksRounded(mb, 1)
DiffBlocks(mb)  == BlocksRounded(mb, IF mb > 0 THEN 1 ELSE -1)

\* The blocks a request asks for: a size in blocks is taken as it is.
RequestBlocks(req) ==
  IF ~req.inMB THEN req.n ELSE IF req.fixed THEN FixedBlocks(req.n) ELSE DiffBlocks(req.n)

\* What a setter is about to store.
Order(req) == [dim |-> req.dim, fixed |-> req.fixed, n |-> RequestBlocks(req)]

-----------------------------------------------------------------------------
\* A variant that lets a difference take more than the disk has.
FakeDiskUnbounded(blocks, d) == IF d.fixed THEN d.n ELSE Add(blocks, d.n)

FakeDisk(blocks, d) ==
  IF d.fixed THEN d.n
  ELSE IF d.n = 0 THEN blocks
  ELSE IF Add(blocks, d.n) < 0 THEN 0 ELSE Add(blocks, d.n)

\* A variant that compares the free size with nothing but zero.
FakeFreeUnbounded(avail, f, disk) ==
  IF f.fixed THEN f.n
  ELSE IF f.n = 0 THEN avail
  ELSE IF Add(avail, f.n) < 0 THEN 0 ELSE Add(avail, f.n)

FakeFree(avail, f, disk) ==
  IF f.fixed THEN IF disk < f.n THEN disk ELSE f.n
  ELSE IF f.n = 0 THEN avail
  ELSE LET free == Add(avail, f.n)
       IN  IF free < 0 THEN 0 ELSE IF free > disk THEN disk ELSE free

\* A variant that takes the free blocks for all there are.
FakedStatNoReserve(stat, fake) ==
  LET disk == FakeDisk(stat.blocks, fake["disk"])
      free == FakeFree(stat.bavail, fake["free"], disk)
  IN  [stat EXCEPT !.blocks = ToUnsigned(disk), !.bavail = ToUnsigned(free),
                   !.bfree = ToUnsigned(free)]

\* The whole computation of statfs between the unlock and the return.
FakedStat(stat, fake) ==
  LET disk    == FakeDisk(stat.blocks, fake["disk"])
      free    == FakeFree(stat.bavail, fake["free"], disk)
      reserve == Add(stat.bfree, -stat.bavail)
  IN  [stat EXCEPT !.blocks = ToUnsigned(disk),
                   !.bavail = ToUnsigned(free),
                   !.bfree  = ToUnsigned(Add(free, reserve))]
=============================================================================
