---------------------------- MODULE MCFakeSizes ----------------------------
(***************************************************************************)
(* The arithmetic of FakeSizes over every input of a four-bit machine,     *)
(* against what the documentation of fspropfaker.h promises, computed on   *)
(* unbounded integers.                                                     *)
(***************************************************************************)
EXTENDS FakeSizes

VARIABLES
  request, \* a setter call
  sampled, \* an answer of the underlying file system
  settings \* the settings that statfs copied

inputs == <<request, sampled, settings>>

Counts == 0 .. IntMax
FullStat == {s \in [blocks : Counts, bavail : Counts, bfree : Counts, frsize : {BlockSize}] : Plausible(s)}
EmptyDisk == [ZeroStat EXCEPT !.frsize = BlockSize]
NoRequest == [dim |-> "disk", fixed |-> FALSE, inMB |-> FALSE, n |-> 0]

InputInit == request = NoRequest /\ sampled = EmptyDisk /\ settings = NoFake

PickRequest ==
  /\ request' \in Request
  /\ UNCHANGED <<sampled, settings>>

PickStatfs ==
  /\ sampled' \in FullStat
  /\ settings' \in [Dims -> Size]
  /\ UNCHANGED request

\* One input: a setter call or a statfs.
InputNext == InputInit /\ (PickRequest \/ PickStatfs)

InputSpec == InputInit /\ [][InputNext]_inputs

-----------------------------------------------------------------------------
Magnitude(x) == IF x < 0 THEN -x ELSE x

\* A size in megabytes becomes the fewest whole blocks that hold it, a difference
\* the fewest blocks away from zero, as long as its bytes fit an int64_t (the
\* examples in fspropfaker.h: 22 MB are three blocks of 10 MB, -22 MB minus three).
RoundsAwayFromZero ==
  (request.inMB /\ request.n * MegaByte \in Int64 /\ (request.fixed => request.n > 0)) =>
    LET b == RequestBlocks(request)
    IN  /\ Magnitude(b) * BlockSize >= Magnitude(request.n) * MegaByte
        /\ (Magnitude(b) - 1) * BlockSize < Magnitude(request.n) * MegaByte
        /\ (b < 0) = (request.n < 0)

InRange(x) == x \in Int64
Reported == FakedStat(sampled, settings)

\* Faked free space never exceeds the faked disk, even where the sum of the real
\* size and the difference overflows (the clamps of OverFs::statfs).
FreeWithinDisk ==
  (\A d \in Dims : Legal(settings[d])) /\ settings["free"] # NoFake["free"]
    => Reported.bavail <= Reported.blocks

\* The sums that statfs makes of what it got and the settings fit an int64_t.
SumsFit ==
  /\ ~settings["disk"].fixed => InRange(sampled.blocks + settings["disk"].n)
  /\ ~settings["free"].fixed => InRange(sampled.bavail + settings["free"].n)

\* The closest number to x that is at least zero and at most hi.
Closest(x, hi) == CHOOSE y \in 0 .. hi : \A z \in 0 .. hi : Magnitude(y - x) <= Magnitude(z - x)

\* When no sum overflows statfs reports what the documentation of the setters says:
\* the fixed size, or the real one with the difference, and both within bounds.  For
\* a difference of zero and a disk faked smaller than the real free size the
\* documentation says two things, of which the code does one: nothing is claimed.
ReportsWhatIsDocumented ==
  (\A d \in Dims : Legal(settings[d])) /\ SumsFit =>
    LET d == settings["disk"]
        f == settings["free"]
        disk == IF d.fixed THEN d.n ELSE Closest(sampled.blocks + d.n, IntMax)
    IN  /\ Reported.blocks = disk
        /\ (f.fixed \/ f.n # 0 \/ sampled.bavail <= disk) =>
             Reported.bavail = Closest(IF f.fixed THEN f.n ELSE sampled.bavail + f.n, disk)

\* The blocks reserved for root stay as many as on the underlying file system, be it
\* that the sizes have overflowed, as long as they fit on top of the free ones.
ReserveKept ==
  (\A d \in Dims : Legal(settings[d])) /\ InRange(Reported.bavail + sampled.bfree - sampled.bavail) =>
    Reported.bfree - Reported.bavail = sampled.bfree - sampled.bavail
=============================================================================
