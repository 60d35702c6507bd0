-------------------------- MODULE FakeSizesProofs --------------------------
(***************************************************************************)
(* Facts about the arithmetic of FakeSizes, for every block size, every    *)
(* megabyte and every integer width, and the properties of MCFakeSizes for *)
(* all of its inputs.                                                      *)
(***************************************************************************)
EXTENDS MCFakeSizes, TLAPS

\* Sums of two int64_t are int64_t.
LEMMA AddType ==
  ASSUME NEW a \in Int64, NEW b \in Int64
  PROVE  Add(a, b) \in Int64
BY SizesAssumption DEF Add, Int64, Span

\* Products are int64_t.
LEMMA MulType ==
  ASSUME NEW a \in Int, NEW b \in Int
  PROVE  Mul(a, b) \in Int64
<1> DEFINE x == a * b + IntMax + 1
<1>1. x \in Int /\ Span \in Nat \ {0}
  BY SizesAssumption DEF Span
<1>2. x % Span \in 0 .. Span - 1
  <2> HIDE DEF x
  <2> QED BY <1>1
<1>3. QED
  BY <1>2, SizesAssumption DEF Mul, Int64, Span

\* Quotient and remainder of naturals.
LEMMA DivMod ==
  ASSUME NEW a \in Nat, NEW b \in Nat \ {0}
  PROVE  /\ a \div b \in Nat /\ a % b \in 0 .. b - 1
         /\ a = b * (a \div b) + (a % b)
         /\ a \div b <= a
OBVIOUS

\* A product that is at least one of its factors.
LEMMA MulGrows ==
  ASSUME NEW q \in Nat, NEW b \in Nat \ {0}
  PROVE  b * q >= q
OBVIOUS

LEMMA TruncDivType ==
  ASSUME NEW a \in Int64, NEW b \in 1 .. IntMax
  PROVE  TruncDiv(a, b) \in Int64
<1>1. b \in Nat \ {0} /\ a \in Int
  BY SizesAssumption DEF Int64
<1>2. CASE a >= 0
  <2>1. a \div b \in Nat /\ a \div b <= a
    <3>1. a \in Nat
      BY <1>1, <1>2
    <3>2. QED
      BY <1>1, <3>1, DivMod, Zenon
  <2>2. QED
    BY <2>1, <1>2, SizesAssumption DEF TruncDiv, Int64
<1>3. CASE a < 0
  <2>1. (-a) \div b \in Nat /\ (-a) \div b <= -a
    <3>1. -a \in Nat
      BY <1>1, <1>3
    <3>2. QED
      BY <1>1, <3>1, DivMod, Zenon
  <2>2. QED
    BY <2>1, <1>1, <1>3, SizesAssumption DEF TruncDiv, Int64
<1>4. QED
  BY <1>1, <1>2, <1>3

LEMMA BlocksRoundedType ==
  ASSUME NEW mb \in Int64, NEW corr \in {-1, 1}
  PROVE  BlocksRounded(mb, corr) \in Int64
<1> DEFINE bytes == Mul(mb, MegaByte)
           rest  == IF TruncMod(bytes, BlockSize) # 0 THEN corr ELSE 0
<1>1. bytes \in Int64
  BY MulType, SizesAssumption DEF Int64
<1>2. TruncDiv(bytes, BlockSize) \in Int64
  BY <1>1, TruncDivType, SizesAssumption
<1>3. rest \in Int64
  BY SizesAssumption DEF Int64
<1>4. Add(TruncDiv(bytes, BlockSize), rest) \in Int64
  BY <1>2, <1>3, AddType
<1>5. QED
  BY <1>4 DEF BlocksRounded

LEMMA RequestBlocksType ==
  ASSUME NEW req \in Request
  PROVE  RequestBlocks(req) \in Int64
<1>1. req.n \in Int64
  BY DEF Request
<1>2. FixedBlocks(req.n) \in Int64
  BY <1>1, BlocksRoundedType DEF FixedBlocks
<1>3. DiffBlocks(req.n) \in Int64
  <2>1. (IF req.n > 0 THEN 1 ELSE -1) \in {-1, 1}
    OBVIOUS
  <2>2. QED
    BY <1>1, <2>1, BlocksRoundedType DEF DiffBlocks
<1>4. QED
  BY <1>1, <1>2, <1>3 DEF RequestBlocks

-----------------------------------------------------------------------------
LEMMA FakeDiskType ==
  ASSUME NEW blocks \in 0 .. IntMax, NEW d \in Size
  PROVE  /\ FakeDisk(blocks, d) \in Int64
         /\ Legal(d) => FakeDisk(blocks, d) >= 0
<1>1. blocks \in Int64 /\ d.n \in Int64 /\ d.fixed \in BOOLEAN
  BY SizesAssumption DEF Int64, Size
<1>2. Add(blocks, d.n) \in Int64
  BY <1>1, AddType
<1>3. QED
  BY <1>1, <1>2, SizesAssumption DEF FakeDisk, Int64, Legal

LEMMA FakeFreeType ==
  ASSUME NEW avail \in 0 .. IntMax, NEW f \in Size, NEW disk \in Int64
  PROVE  FakeFree(avail, f, disk) \in Int64
<1>1. avail \in Int64 /\ f.n \in Int64 /\ f.fixed \in BOOLEAN
  BY SizesAssumption DEF Int64, Size
<1>2. Add(avail, f.n) \in Int64
  BY <1>1, AddType
<1>3. QED
  BY <1>1, <1>2, SizesAssumption DEF FakeFree, Int64

\* Free space that is faked is between nothing and the whole disk.
LEMMA FakeFreeBounds ==
  ASSUME NEW avail \in 0 .. IntMax, NEW f \in Size, NEW disk \in 0 .. IntMax,
         Legal(f), f.fixed \/ f.n # 0
  PROVE  FakeFree(avail, f, disk) \in 0 .. disk
<1>1. avail \in Int64 /\ f.n \in Int64 /\ f.fixed \in BOOLEAN /\ disk \in Int64
  BY SizesAssumption DEF Int64, Size
<1>2. Add(avail, f.n) \in Int64
  BY <1>1, AddType
<1>3. QED
  BY <1>1, <1>2, SizesAssumption DEF FakeFree, Int64, Legal

LEMMA ToUnsignedType ==
  ASSUME NEW a \in Int64
  PROVE  /\ ToUnsigned(a) \in UInt64
         /\ a >= 0 => ToUnsigned(a) = a
BY SizesAssumption DEF ToUnsigned, UInt64, Int64, Span

\* An answer of statfs is one whatever the settings are.
LEMMA FakedStatType ==
  ASSUME NEW s \in Stat, Plausible(s), NEW k \in [Dims -> Size]
  PROVE  FakedStat(s, k) \in Stat
<1> DEFINE disk == FakeDisk(s.blocks, k["disk"])
           free == FakeFree(s.bavail, k["free"], disk)
           left == Add(s.bfree, -s.bavail)
<1>1. /\ s.blocks \in 0 .. IntMax /\ s.bavail \in 0 .. IntMax /\ s.bfree \in 0 .. IntMax
      /\ k["disk"] \in Size /\ k["free"] \in Size
  BY SizesAssumption DEF Stat, Plausible, UInt64, Span, Dims
<1>2. disk \in Int64
  BY <1>1, FakeDiskType
<1>3. free \in Int64
  <2> HIDE DEF disk
  <2> QED BY <1>1, <1>2, FakeFreeType
<1>4. left \in Int64
  <2>1. s.bfree \in Int64 /\ -s.bavail \in Int64
    BY <1>1, SizesAssumption DEF Int64
  <2>2. QED
    BY <2>1, AddType, Zenon
<1>5. Add(free, left) \in Int64
  BY <1>3, <1>4, AddType
<1>6. ToUnsigned(disk) \in UInt64 /\ ToUnsigned(free) \in UInt64 /\ ToUnsigned(Add(free, left)) \in UInt64
  BY <1>2, <1>3, <1>5, ToUnsignedType
<1>7. FakedStat(s, k) = [s EXCEPT !.blocks = ToUnsigned(disk), !.bavail = ToUnsigned(free),
                                  !.bfree = ToUnsigned(Add(free, left))]
  BY DEF FakedStat
<1>8. QED
  <2> HIDE DEF disk, free, left
  <2> QED BY <1>6, <1>7 DEF Stat

\* With legal settings, free space that is faked never exceeds the disk, even
\* where a sum overflows (the clamps of OverFs::statfs).
THEOREM FakedFreeFits ==
  ASSUME NEW s \in Stat, Plausible(s), NEW k \in [Dims -> Size],
         \A d \in Dims : Legal(k[d]), k["free"] # NoFake["free"]
  PROVE  FakedStat(s, k).bavail <= FakedStat(s, k).blocks
<1> DEFINE disk == FakeDisk(s.blocks, k["disk"])
           free == FakeFree(s.bavail, k["free"], disk)
<1>1. /\ s.blocks \in 0 .. IntMax /\ s.bavail \in 0 .. IntMax
      /\ k["disk"] \in Size /\ k["free"] \in Size
      /\ Legal(k["disk"]) /\ Legal(k["free"])
  BY SizesAssumption DEF Stat, Plausible, UInt64, Span, Dims
<1>2. disk \in 0 .. IntMax
  BY <1>1, FakeDiskType DEF Int64
<1>3. k["free"].fixed \/ k["free"].n # 0
  BY <1>1 DEF NoFake, Size, Dims
<1>4. free \in 0 .. disk
  <2> HIDE DEF disk
  <2> QED BY <1>1, <1>2, <1>3, FakeFreeBounds
<1>5. ToUnsigned(disk) = disk /\ ToUnsigned(free) = free
  <2> HIDE DEF disk, free
  <2> QED BY <1>2, <1>4, SizesAssumption DEF ToUnsigned
<1>6. FakedStat(s, k).bavail = ToUnsigned(free) /\ FakedStat(s, k).blocks = ToUnsigned(disk)
  BY DEF FakedStat, Stat
<1>7. QED
  <2> HIDE DEF disk, free
  <2> QED BY <1>2, <1>4, <1>5, <1>6

\* A request in megabytes becomes the fewest blocks that hold it, counted away
\* from zero (BlocksRounded stands for the expressions of the setFake...InMB).
THEOREM BlocksCoverMegaBytes ==
  ASSUME NEW mb \in Nat \ {0}, mb * MegaByte <= IntMax
  PROVE  /\ FixedBlocks(mb) * BlockSize >= mb * MegaByte
         /\ (FixedBlocks(mb) - 1) * BlockSize < mb * MegaByte
         /\ DiffBlocks(mb) = FixedBlocks(mb)
         /\ DiffBlocks(-mb) = -FixedBlocks(mb)
<1> DEFINE bytes == mb * MegaByte
           q == bytes \div BlockSize
           r == bytes % BlockSize
           b == IF r # 0 THEN q + 1 ELSE q
<1>1. MegaByte \in Nat \ {0} /\ BlockSize \in Nat \ {0} /\ IntMax \in Nat \ {0} /\ bytes \in Nat \ {0}
  BY SizesAssumption
<1>2. q \in Nat /\ r \in 0 .. BlockSize - 1 /\ bytes = BlockSize * q + r /\ q <= bytes
  <2> HIDE DEF bytes
  <2> QED BY <1>1, DivMod
<1>3. BlockSize * q >= q
  <2> HIDE DEF q
  <2> QED BY <1>1, <1>2, MulGrows
<1>4. b \in 0 .. IntMax
  <2> HIDE DEF q, r, bytes
  <2>1. bytes <= IntMax
    BY DEF bytes
  <2>2. QED
    BY <1>1, <1>2, <1>3, <2>1
<1>5. Mul(mb, MegaByte) = bytes /\ Mul(-mb, MegaByte) = -bytes
  <2>1. (-mb) * MegaByte = -bytes
    BY <1>1
  <2>2. bytes \in Int64 /\ -bytes \in Int64
    BY <1>1 DEF Int64
  <2>3. QED
    BY <2>1, <2>2 DEF Mul
<1>6. FixedBlocks(mb) = b /\ DiffBlocks(mb) = b
  <2>1. BlocksRounded(mb, 1) = b
    <3> HIDE DEF bytes
    <3>1. BlocksRounded(mb, 1) = Add(q, IF r # 0 THEN 1 ELSE 0)
      BY <1>1, <1>5 DEF BlocksRounded, TruncDiv, TruncMod
    <3>2. QED
      <4> HIDE DEF q, r
      <4> QED BY <1>2, <1>4, <3>1, SizesAssumption DEF Add
  <2>2. QED
    BY <2>1 DEF FixedBlocks, DiffBlocks
<1>7. DiffBlocks(-mb) = -b
  <2>1. BlocksRounded(-mb, -1) = -b
    <3> HIDE DEF bytes
    <3>0. -bytes < 0 /\ -(-bytes) = bytes
      BY <1>1
    <3>1. BlocksRounded(-mb, -1) = Add(-q, IF -r # 0 THEN -1 ELSE 0)
      BY <1>1, <1>5, <3>0 DEF BlocksRounded, TruncDiv, TruncMod
    <3>2. QED
      <4> HIDE DEF q, r
      <4> QED BY <1>2, <1>4, <3>1, SizesAssumption DEF Add
  <2>2. QED
    BY <2>1 DEF DiffBlocks
<1>8. b * BlockSize >= bytes /\ (b - 1) * BlockSize < bytes
  <2> HIDE DEF bytes, q, r
  <2>1. CASE r = 0
    <3>1. b * BlockSize = bytes /\ (b - 1) * BlockSize = bytes - BlockSize
      BY <1>1, <1>2, <2>1
    <3>2. QED
      BY <1>1, <1>2, <3>1
  <2>2. CASE r # 0
    <3>1. b * BlockSize = BlockSize * q + BlockSize /\ (b - 1) * BlockSize = BlockSize * q
      BY <1>1, <1>2, <2>2
    <3>2. QED
      BY <1>1, <1>2, <2>2, <3>1
  <2>3. QED
    BY <2>1, <2>2
<1>9. QED
  BY <1>6, <1>7, <1>8

\* The blocks reserved for root stay as many as on the underlying file system,
\* when the sums do not overflow.
THEOREM FakedReserveKept ==
  ASSUME NEW s \in Stat, Plausible(s), NEW k \in [Dims -> Size],
         \A d \in Dims : Legal(k[d]), k["free"] # NoFake["free"],
         FakedStat(s, k).blocks + s.bfree <= IntMax
  PROVE  FakedStat(s, k).bfree - FakedStat(s, k).bavail = s.bfree - s.bavail
<1> DEFINE disk == FakeDisk(s.blocks, k["disk"])
           free == FakeFree(s.bavail, k["free"], disk)
           left == Add(s.bfree, -s.bavail)
<1>1. /\ s.blocks \in 0 .. IntMax /\ s.bavail \in 0 .. IntMax /\ s.bfree \in 0 .. IntMax
      /\ s.bavail <= s.bfree
      /\ k["disk"] \in Size /\ k["free"] \in Size
      /\ Legal(k["disk"]) /\ Legal(k["free"])
  BY SizesAssumption DEF Stat, Plausible, UInt64, Span, Dims
<1>2. disk \in 0 .. IntMax
  BY <1>1, FakeDiskType DEF Int64
<1>3. k["free"].fixed \/ k["free"].n # 0
  BY <1>1 DEF NoFake, Size, Dims
<1>4. free \in 0 .. disk
  <2> HIDE DEF disk
  <2> QED BY <1>1, <1>2, <1>3, FakeFreeBounds
<1>5. left = s.bfree - s.bavail
  BY <1>1, SizesAssumption DEF Add
<1>6. /\ FakedStat(s, k).bavail = ToUnsigned(free)
      /\ FakedStat(s, k).blocks = ToUnsigned(disk)
      /\ FakedStat(s, k).bfree = ToUnsigned(Add(free, left))
  BY DEF FakedStat, Stat
<1>7. QED
  <2> HIDE DEF disk, free, left
  <2> QED BY <1>1, <1>2, <1>4, <1>5, <1>6, SizesAssumption DEF Add, ToUnsigned

-----------------------------------------------------------------------------
\* Every input is a setter call and an answer with settings, of their C++ types.
Typed ==
  /\ request \in Request
  /\ sampled \in Stat /\ Plausible(sampled)
  /\ settings \in [Dims -> Size]

LEMMA InputsTyped == InputSpec => []Typed
<1>1. InputInit => Typed
  <2> SUFFICES ASSUME InputInit PROVE Typed
    OBVIOUS
  <2>1. NoRequest \in Request
    BY SizesAssumption DEF NoRequest, Request, Dims, Int64
  <2>2. EmptyDisk \in Stat /\ Plausible(EmptyDisk)
    <3>1. EmptyDisk = [blocks |-> 0, bavail |-> 0, bfree |-> 0, frsize |-> BlockSize]
      BY DEF EmptyDisk, ZeroStat
    <3>2. 0 \in UInt64 /\ BlockSize \in 0 .. IntMax /\ 0 <= IntMax
      BY SizesAssumption DEF UInt64, Span
    <3>3. QED
      BY <3>1, <3>2 DEF Stat, Plausible
  <2>3. NoFake \in [Dims -> Size]
    BY SizesAssumption DEF NoFake, Size, Int64
  <2>4. QED
    BY <2>1, <2>2, <2>3 DEF InputInit, Typed
<1>2. Typed /\ [InputNext]_inputs => Typed'
  <2> SUFFICES ASSUME Typed, [InputNext]_inputs PROVE Typed'
    OBVIOUS
  <2>1. FullStat \subseteq {r \in Stat : Plausible(r)}
    <3> SUFFICES ASSUME NEW r \in FullStat PROVE r \in Stat /\ Plausible(r)
      OBVIOUS
    <3>1. /\ r \in [blocks : Counts, bavail : Counts, bfree : Counts, frsize : {BlockSize}]
          /\ Plausible(r)
      BY DEF FullStat
    <3>2. Counts \subseteq UInt64 /\ BlockSize \in 0 .. IntMax
      BY SizesAssumption DEF Counts, UInt64, Span
    <3>3. QED
      BY <3>1, <3>2 DEF Stat
  <2>2. CASE UNCHANGED inputs
    BY <2>2 DEF inputs, Typed
  <2>3. CASE PickRequest
    BY <2>3 DEF PickRequest, Typed
  <2>4. CASE PickStatfs
    BY <2>1, <2>4 DEF PickStatfs, Typed
  <2>5. QED
    BY <2>2, <2>3, <2>4 DEF InputNext
<1>3. QED
  BY <1>1, <1>2, PTL DEF InputSpec

\* What a difference of some megabytes becomes, down to the smallest int64_t.
LEMMA NegativeBlocks ==
  ASSUME NEW mb \in Nat \ {0}, mb * MegaByte <= IntMax + 1
  PROVE  /\ DiffBlocks(-mb) \in Int /\ DiffBlocks(-mb) < 0
         /\ (-DiffBlocks(-mb)) * BlockSize >= mb * MegaByte
         /\ ((-DiffBlocks(-mb)) - 1) * BlockSize < mb * MegaByte
<1> DEFINE bytes == mb * MegaByte
           q == bytes \div BlockSize
           r == bytes % BlockSize
           b == IF r # 0 THEN q + 1 ELSE q
<1>1. /\ MegaByte \in Nat \ {0} /\ BlockSize \in Nat \ {0} /\ IntMax \in Nat \ {0}
      /\ bytes \in Nat \ {0} /\ bytes <= IntMax + 1
  BY SizesAssumption
<1>2. q \in Nat /\ r \in 0 .. BlockSize - 1 /\ bytes = BlockSize * q + r /\ q <= bytes
  <2> HIDE DEF bytes
  <2> QED BY <1>1, DivMod
<1>3. BlockSize * q >= q
  <2> HIDE DEF q
  <2> QED BY <1>1, <1>2, MulGrows
<1>4. b \in 0 .. IntMax + 1 /\ b > 0
  <2> HIDE DEF q, r, bytes
  <2>1. q = 0 => BlockSize * q = 0
    BY <1>1
  <2>2. QED
    BY <1>1, <1>2, <1>3, <2>1
<1>5. Mul(-mb, MegaByte) = -bytes
  <2>1. (-mb) * MegaByte = -bytes
    BY <1>1
  <2>2. -bytes \in Int64
    <3> HIDE DEF bytes
    <3> QED BY <1>1 DEF Int64
  <2>3. QED
    BY <2>1, <2>2 DEF Mul
<1>6. DiffBlocks(-mb) = -b
  <2>1. BlocksRounded(-mb, -1) = -b
    <3> HIDE DEF bytes
    <3>0. -bytes < 0 /\ -(-bytes) = bytes
      BY <1>1
    <3>1. BlocksRounded(-mb, -1) = Add(-q, IF -r # 0 THEN -1 ELSE 0)
      BY <1>1, <1>5, <3>0 DEF BlocksRounded, TruncDiv, TruncMod
    <3>2. QED
      <4> HIDE DEF q, r
      <4> QED BY <1>2, <1>4, <3>1, SizesAssumption DEF Add
  <2>2. QED
    BY <2>1 DEF DiffBlocks
<1>7. b * BlockSize >= bytes /\ (b - 1) * BlockSize < bytes
  <2> HIDE DEF bytes, q, r
  <2>1. CASE r = 0
    <3>1. b * BlockSize = bytes /\ (b - 1) * BlockSize = bytes - BlockSize
      BY <1>1, <1>2, <2>1
    <3>2. QED
      BY <1>1, <1>2, <3>1
  <2>2. CASE r # 0
    <3>1. b * BlockSize = BlockSize * q + BlockSize /\ (b - 1) * BlockSize = BlockSize * q
      BY <1>1, <1>2, <2>2
    <3>2. QED
      BY <1>1, <1>2, <2>2, <3>1
  <2>3. QED
    BY <2>1, <2>2
<1>8. PICK c : c = b
  OBVIOUS
<1>9. c \in Nat \ {0} /\ DiffBlocks(-mb) = -c
  BY <1>4, <1>6, <1>8
<1>10. -DiffBlocks(-mb) = c
  BY <1>9
<1>11. QED
  BY <1>7, <1>8, <1>9, <1>10

\* For every block size a request in megabytes becomes the fewest blocks that hold
\* it, counted away from zero, as far as an int64_t counts its bytes.
THEOREM AlwaysRoundsAway == InputSpec => []RoundsAwayFromZero
<1>1. Typed => RoundsAwayFromZero
  <2> SUFFICES ASSUME Typed, request.inMB, request.n * MegaByte \in Int64, request.fixed => request.n > 0
               PROVE  LET b == RequestBlocks(request)
                      IN  /\ Magnitude(b) * BlockSize >= Magnitude(request.n) * MegaByte
                          /\ (Magnitude(b) - 1) * BlockSize < Magnitude(request.n) * MegaByte
                          /\ (b < 0) = (request.n < 0)
    BY DEF RoundsAwayFromZero
  <2>1. PICK n \in Int : n = request.n
    BY DEF Typed, Request, Int64
  <2>2. PICK b : b = RequestBlocks(request)
    OBVIOUS
  <2>3. b = IF request.fixed THEN FixedBlocks(n) ELSE DiffBlocks(n)
    BY <2>1, <2>2 DEF RequestBlocks
  <2>4. MegaByte \in Nat \ {0} /\ BlockSize \in Nat \ {0} /\ IntMax \in Nat
    BY SizesAssumption
  <2>5. b \in Int
    BY <2>2, RequestBlocksType DEF Typed, Int64
  <2>6. CASE n > 0
    <3>1. n \in Nat \ {0} /\ n * MegaByte <= IntMax
      BY <2>1, <2>6 DEF Int64
    <3>2. /\ b * BlockSize >= n * MegaByte /\ (b - 1) * BlockSize < n * MegaByte
      BY <2>3, <3>1, BlocksCoverMegaBytes
    <3>3. n * MegaByte > 0
      BY <2>4, <3>1
    <3>4. b > 0
      <4>1. PICK x \in Int : x = n * MegaByte /\ x > 0
        BY <2>4, <3>3
      <4>2. b * BlockSize > 0
        BY <2>4, <2>5, <3>2, <4>1
      <4>3. QED
        BY <2>4, <2>5, <4>2
    <3>5. QED
      BY <2>1, <2>2, <2>5, <2>6, <3>2, <3>4 DEF Magnitude
  <2>7. CASE n < 0
    <3>1. PICK m \in Nat \ {0} : n = -m
      BY <2>7
    <3>2. m * MegaByte <= IntMax + 1
      <4>1. n * MegaByte = -(m * MegaByte)
        BY <2>4, <3>1
      <4>2. m * MegaByte \in Nat
        BY <2>4
      <4>3. QED
        BY <2>1, <2>4, <4>1, <4>2 DEF Int64
    <3>3. b = DiffBlocks(-m)
      BY <2>1, <2>3, <2>7, <3>1
    <3>4. b < 0 /\ (-b) * BlockSize >= m * MegaByte /\ ((-b) - 1) * BlockSize < m * MegaByte
      BY <3>2, <3>3, NegativeBlocks
    <3>5. Magnitude(b) = -b /\ Magnitude(n) = m
      BY <2>5, <2>7, <3>1, <3>4 DEF Magnitude
    <3>6. QED
      BY <2>1, <2>2, <2>7, <3>4, <3>5
  <2>8. CASE n = 0
    <3>1. b = DiffBlocks(0)
      BY <2>1, <2>3, <2>8
    <3>2. b = 0
      <4>1. Mul(0, MegaByte) = 0
        BY <2>4 DEF Mul, Int64
      <4>2. 0 \div BlockSize = 0 /\ 0 % BlockSize = 0
        BY <2>4
      <4>3. BlocksRounded(0, -1) = Add(0, 0)
        BY <4>1, <4>2 DEF BlocksRounded, TruncDiv, TruncMod
      <4>4. Add(0, 0) = 0
        BY <2>4 DEF Add
      <4>5. QED
        BY <3>1, <4>3, <4>4 DEF DiffBlocks
    <3>3. QED
      BY <2>1, <2>2, <2>4, <2>8, <3>2 DEF Magnitude
  <2>9. QED
    BY <2>6, <2>7, <2>8
<1>2. QED
  BY <1>1, InputsTyped, PTL

\* For every answer of the underlying file system and all legal settings, faked free
\* space is within the faked disk, also where a sum has overflowed.
THEOREM FreeAlwaysWithinDisk == InputSpec => []FreeWithinDisk
<1>1. Typed => FreeWithinDisk
  BY FakedFreeFits DEF Typed, FreeWithinDisk, Reported
<1>2. QED
  BY <1>1, InputsTyped, PTL

\* The three counts of an answer, each as an int64_t.
LEMMA ReportedCounts ==
  ASSUME NEW s \in Stat, Plausible(s), NEW k \in [Dims -> Size], \A d \in Dims : Legal(k[d])
  PROVE  /\ s.blocks \in 0 .. IntMax /\ s.bavail \in 0 .. IntMax /\ s.bfree \in 0 .. IntMax
         /\ k["disk"].n \in Int64 /\ k["free"].n \in Int64
         /\ k["disk"].fixed \in BOOLEAN /\ k["free"].fixed \in BOOLEAN
         /\ FakedStat(s, k).blocks = FakeDisk(s.blocks, k["disk"])
         /\ FakeDisk(s.blocks, k["disk"]) \in 0 .. IntMax
         /\ FakedStat(s, k).bavail = FakeFree(s.bavail, k["free"], FakeDisk(s.blocks, k["disk"]))
         /\ FakedStat(s, k).bavail \in 0 .. IntMax
         /\ FakedStat(s, k).bfree = ToUnsigned(Add(FakedStat(s, k).bavail, s.bfree - s.bavail))
<1> DEFINE disk == FakeDisk(s.blocks, k["disk"])
           free == FakeFree(s.bavail, k["free"], disk)
           left == Add(s.bfree, -s.bavail)
<1>1. /\ s.blocks \in 0 .. IntMax /\ s.bavail \in 0 .. IntMax /\ s.bfree \in 0 .. IntMax
      /\ s.bavail <= s.bfree
      /\ k["disk"] \in Size /\ k["free"] \in Size
      /\ Legal(k["disk"]) /\ Legal(k["free"])
  BY SizesAssumption DEF Stat, Plausible, UInt64, Span, Dims
<1>2. disk \in 0 .. IntMax
  BY <1>1, FakeDiskType DEF Int64
<1>3. free \in 0 .. IntMax
  <2>1. CASE k["free"].fixed \/ k["free"].n # 0
    <3> HIDE DEF disk
    <3>1. free \in 0 .. disk
      BY <1>1, <1>2, <2>1, FakeFreeBounds
    <3> HIDE DEF free
    <3> QED BY <1>2, <3>1, SizesAssumption
  <2>2. CASE ~k["free"].fixed /\ k["free"].n = 0
    BY <1>1, <2>2 DEF FakeFree
  <2>3. QED
    BY <1>1, <2>1, <2>2 DEF Size
<1>4. left = s.bfree - s.bavail
  BY <1>1, SizesAssumption DEF Add
<1>5. /\ FakedStat(s, k).bavail = ToUnsigned(free)
      /\ FakedStat(s, k).blocks = ToUnsigned(disk)
      /\ FakedStat(s, k).bfree = ToUnsigned(Add(free, left))
  BY DEF FakedStat, Stat
<1>6. ToUnsigned(disk) = disk /\ ToUnsigned(free) = free
  <2> HIDE DEF disk, free
  <2> QED BY <1>2, <1>3, SizesAssumption DEF ToUnsigned
<1>7. QED
  <2> HIDE DEF disk, free, left
  <2>1. k["disk"].n \in Int64 /\ k["free"].n \in Int64 /\ k["disk"].fixed \in BOOLEAN /\ k["free"].fixed \in BOOLEAN
    BY <1>1 DEF Size
  <2>2. QED
    BY <1>1, <1>2, <1>3, <1>4, <1>5, <1>6, <2>1 DEF disk, free

\* With all legal settings, the blocks reserved for root stay as many as they are on
\* the underlying file system, as long as they fit on top of the free ones.
THEOREM ReserveAlwaysKept == InputSpec => []ReserveKept
<1>1. Typed => ReserveKept
  <2> SUFFICES ASSUME Typed, \A d \in Dims : Legal(settings[d]),
                      InRange(Reported.bavail + sampled.bfree - sampled.bavail)
               PROVE  Reported.bfree - Reported.bavail = sampled.bfree - sampled.bavail
    BY DEF ReserveKept
  <2>1. /\ sampled.bavail \in 0 .. IntMax /\ sampled.bfree \in 0 .. IntMax
        /\ Reported.bavail \in 0 .. IntMax
        /\ Reported.bfree = ToUnsigned(Add(Reported.bavail, sampled.bfree - sampled.bavail))
    BY ReportedCounts DEF Typed, Reported
  <2>2. sampled.bavail <= sampled.bfree
    BY DEF Typed, Plausible
  <2>3. PICK a \in 0 .. IntMax : a = Reported.bavail
    BY <2>1
  <2>4. PICK r \in 0 .. IntMax : r = sampled.bfree - sampled.bavail
    BY <2>1, <2>2, SizesAssumption
  <2>5. a + r <= IntMax
    BY <2>1, <2>3, <2>4, SizesAssumption DEF InRange, Int64
  <2>6. ToUnsigned(Add(a, r)) = a + r
    BY <2>5, SizesAssumption DEF Add, ToUnsigned
  <2>7. QED
    BY <2>1, <2>3, <2>4, <2>6
<1>2. QED
  BY <1>1, InputsTyped, PTL

\* What Closest chooses.
LEMMA ClosestIs ==
  ASSUME NEW x \in Int, NEW hi \in Nat
  PROVE  Closest(x, hi) = IF x < 0 THEN 0 ELSE IF x > hi THEN hi ELSE x
<1> DEFINE best == IF x < 0 THEN 0 ELSE IF x > hi THEN hi ELSE x
           IsBest(y) == \A z \in 0 .. hi : Magnitude(y - x) <= Magnitude(z - x)
<1>1. best \in 0 .. hi /\ IsBest(best)
  BY DEF Magnitude
<1>2. ASSUME NEW y \in 0 .. hi, IsBest(y) PROVE y = best
  <2>1. Magnitude(y - x) <= Magnitude(best - x)
    BY <1>1, <1>2
  <2>2. QED
    BY <2>1 DEF Magnitude
<1>3. Closest(x, hi) = CHOOSE y \in 0 .. hi : IsBest(y)
  BY DEF Closest
<1>4. Closest(x, hi) \in 0 .. hi /\ IsBest(Closest(x, hi))
  <2> HIDE DEF IsBest, best
  <2> QED BY <1>1, <1>3
<1>5. QED
  BY <1>2, <1>4

\* For every answer of the underlying file system and all legal settings, statfs
\* reports what the setters' documentation promises, as long as no sum overflows
\* and the documentation does not promise two different free sizes.
THEOREM AlwaysReportsWhatIsDocumented == InputSpec => []ReportsWhatIsDocumented
<1>1. Typed => ReportsWhatIsDocumented
  <2> SUFFICES ASSUME Typed, \A x \in Dims : Legal(settings[x]), SumsFit
               PROVE  LET d == settings["disk"]
                          f == settings["free"]
                          disk == IF d.fixed THEN d.n ELSE Closest(sampled.blocks + d.n, IntMax)
                      IN  /\ Reported.blocks = disk
                          /\ (f.fixed \/ f.n # 0 \/ sampled.bavail <= disk) =>
                               Reported.bavail = Closest(IF f.fixed THEN f.n ELSE sampled.bavail + f.n, disk)
    BY DEF ReportsWhatIsDocumented
  <2>1. PICK d : d = settings["disk"]
    OBVIOUS
  <2>2. PICK f : f = settings["free"]
    OBVIOUS
  <2>3. PICK blocks : blocks = sampled.blocks
    OBVIOUS
  <2>4. PICK bavail : bavail = sampled.bavail
    OBVIOUS
  <2>5. PICK disk : disk = FakeDisk(blocks, d)
    OBVIOUS
  <2>6. /\ blocks \in 0 .. IntMax /\ bavail \in 0 .. IntMax
        /\ d.n \in Int64 /\ f.n \in Int64 /\ d.fixed \in BOOLEAN /\ f.fixed \in BOOLEAN
        /\ Reported.blocks = disk /\ disk \in 0 .. IntMax
        /\ Reported.bavail = FakeFree(bavail, f, disk)
    BY <2>1, <2>2, <2>3, <2>4, <2>5, ReportedCounts DEF Typed, Reported
  <2>7. Legal(d) /\ Legal(f)
    BY <2>1, <2>2 DEF Dims
  <2>8. (~d.fixed => blocks + d.n \in Int64) /\ (~f.fixed => bavail + f.n \in Int64)
    BY <2>1, <2>2, <2>3, <2>4 DEF SumsFit, InRange
  <2>9. disk = IF d.fixed THEN d.n ELSE Closest(blocks + d.n, IntMax)
    <3>1. CASE d.fixed
      BY <2>5, <3>1 DEF FakeDisk
    <3>2. CASE ~d.fixed
      <4>1. Closest(blocks + d.n, IntMax) = IF blocks + d.n < 0 THEN 0 ELSE blocks + d.n
        BY <2>6, <2>8, <3>2, ClosestIs, SizesAssumption DEF Int64
      <4>2. Add(blocks, d.n) = blocks + d.n
        BY <2>6, <2>8, <3>2, SizesAssumption DEF Add, Int64
      <4>3. QED
        BY <2>5, <2>6, <3>2, <4>1, <4>2, SizesAssumption DEF FakeDisk, Int64
    <3>3. QED
      BY <2>6, <3>1, <3>2
  <2>10. ASSUME f.fixed \/ f.n # 0
         PROVE  FakeFree(bavail, f, disk) = Closest(IF f.fixed THEN f.n ELSE bavail + f.n, disk)
    <3>1. disk \in Nat
      BY <2>6, SizesAssumption
    <3>2. CASE f.fixed
      <4>1. Closest(f.n, disk) = IF f.n > disk THEN disk ELSE f.n
        BY <2>6, <2>7, <3>1, <3>2, ClosestIs, SizesAssumption DEF Legal, Int64
      <4>2. QED
        BY <2>6, <3>1, <3>2, <4>1, SizesAssumption DEF FakeFree, Int64
    <3>3. CASE ~f.fixed
      <4>1. PICK sum \in Int64 : sum = bavail + f.n
        BY <2>8, <3>3
      <4>2. Closest(sum, disk) = IF sum < 0 THEN 0 ELSE IF sum > disk THEN disk ELSE sum
        BY <3>1, ClosestIs, SizesAssumption DEF Int64
      <4>3. Add(bavail, f.n) = sum
        BY <2>6, <4>1, SizesAssumption DEF Add, Int64
      <4>4. QED
        BY <2>10, <3>3, <4>1, <4>2, <4>3 DEF FakeFree
    <3>4. QED
      BY <2>6, <3>2, <3>3
  <2>11. ASSUME ~f.fixed, f.n = 0, bavail <= disk
         PROVE  FakeFree(bavail, f, disk) = Closest(bavail + f.n, disk)
    <3>1. Closest(bavail + f.n, disk) = bavail
      BY <2>6, <2>11, ClosestIs, SizesAssumption
    <3>2. QED
      BY <2>11, <3>1 DEF FakeFree
  <2>12. QED
    BY <2>1, <2>2, <2>3, <2>4, <2>6, <2>9, <2>10, <2>11
<1>2. QED
  BY <1>1, InputsTyped, PTL
=============================================================================
