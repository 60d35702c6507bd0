--------------------------- MODULE OverFsProofs ---------------------------
(***************************************************************************)
(* The safety of OverFs for any number of threads, any underlying file     *)
(* system and any setter calls: the inductive invariant, the properties    *)
(* that follow from it, and the refinement of FakedFs.                     *)
(***************************************************************************)
EXTENDS OverFs, FakeSizesProofs

LEMMA OrderType ==
  ASSUME NEW r \in Request
  PROVE  Order(r) \in [dim : Dims, fixed : BOOLEAN, n : Int64]
BY RequestBlocksType DEF Order, Request

LEMMA InitialTypes ==
          NoFake \in [Dims -> Size] /\ Error \in [ret : {-1, 0}, stat : Stat]
         /\ NoCall \in [dim : Dims, fixed : BOOLEAN, n : Int64]
         /\ ZeroStat \in Stat
BY SizesAssumption DEF NoFake, Error, NoCall, ZeroStat, Dims, Size, Stat, Int64, UInt64, Span

\* A process that starts, or whose members are gone with it.
FreshState == real \in RealStats /\ status \in {"running", "aborted", "segfault"} /\ Fresh

LEMMA FreshIInv == FreshState => IInv
<1> SUFFICES ASSUME FreshState PROVE IInv
  OBVIOUS
<1> USE OverFsAssumption DEF FreshState, Fresh
<1>1. TypeOK
  BY InitialTypes, SizesAssumption DEF TypeOK, CallerPcs, WorkerPcs, PcOK, Threads
<1>2. LockInv
  BY DEF LockInv, Critical, Threads
<1>3. StatInv /\ CopyInv /\ AnswerInv
  BY DEF StatInv, CopyInv, AnswerInv, Threads
<1>4. CacheInv
  BY DEF CacheInv, CacheOfOneAnswer, Threads
<1>5. LegalInv
  BY DEF LegalInv, Legal, NoFake, NoCall
<1>6. QED
  BY <1>1, <1>2, <1>3, <1>4, <1>5 DEF IInv

LEMMA FreshAgain == FreshState' => IInv'
BY FreshIInv, PTL

\* The invariant holds of a process that has died.
LEMMA DeathIInv ==
  ASSUME real \in RealStats, NEW c \in Callers, AssertFails(c) \/ CallGetReal(c)
  PROVE  IInv'
<1>1. FreshState'
  BY DEF AssertFails, CallGetReal, Dies, FreshState, Fresh
<1>2. QED
  BY <1>1, FreshAgain

\* A step of a thread leaves it where threads of its kind can be.
LEMMA CallerMoves ==
  ASSUME PcOK, NEW c \in Callers, NEW from, NEW to \in CallerPcs, Moves(c, from, to)
  PROVE  PcOK'
BY OverFsAssumption DEF PcOK, Moves, Threads

LEMMA WorkerMoves ==
  ASSUME PcOK, NEW w \in Workers, NEW from, NEW to \in WorkerPcs, Moves(w, from, to)
  PROVE  PcOK'
BY OverFsAssumption DEF PcOK, Moves, Threads

\* The counts of a real answer, and of the zeroed buffer, fit an int64_t.
LEMMA CountsType ==
  ASSUME NEW s \in RealStats \cup {ZeroStat}
  PROVE  s \in Stat /\ Plausible(s) /\ s.blocks \in 0 .. IntMax /\ s.bavail \in 0 .. IntMax
BY InitialTypes, SizesAssumption, OverFsAssumption DEF Plausible, Stat, ZeroStat, UInt64, Span

LEMMA HalfCopied ==
  ASSUME NEW x \in Size, NEW y \in Size
  PROVE  [x EXCEPT !.n = y.n] \in Size
BY DEF Size

LEMMA TypeStep == TypeOK /\ StatInv /\ Next => TypeOK'
<1> SUFFICES ASSUME TypeOK, StatInv, Next PROVE TypeOK'
  OBVIOUS
<1> USE DEF TypeOK, locals
<1>1. CASE DiskChanges
  BY <1>1 DEF DiskChanges, PcOK
<1>2. ASSUME NEW c \in Callers, CallSetter(c) PROVE TypeOK'
  <2>1. PcOK'
    BY <1>2, CallerMoves DEF CallSetter, CallerPcs
  <2>2. QED
    BY <1>2, <2>1, OrderType, OverFsAssumption DEF CallSetter, Threads
<1>3. ASSUME NEW c \in Callers, AssertFails(c) PROVE TypeOK'
  BY <1>3, DeathIInv DEF IInv
<1>4. ASSUME NEW c \in Callers, CallGetReal(c) PROVE TypeOK'
  BY <1>4, DeathIInv DEF IInv
<1>5. ASSUME NEW c \in Callers, SetterLocks(c) PROVE TypeOK'
  <2>1. PcOK'
    BY <1>5, CallerMoves DEF SetterLocks, CallerPcs
  <2>2. QED
    BY <1>5, <2>1 DEF SetterLocks, Locks, Threads
<1>6. ASSUME NEW c \in Callers, WriteMode(c) PROVE TypeOK'
  <2>1. PcOK'
    BY <1>6, CallerMoves DEF WriteMode, CallerPcs
  <2>2. QED
    BY <1>6, <2>1 DEF WriteMode, Size, Threads
<1>7. ASSUME NEW c \in Callers, WriteSize(c) PROVE TypeOK'
  <2>1. PcOK'
    BY <1>7, CallerMoves DEF WriteSize, CallerPcs
  <2>2. QED
    BY <1>7, <2>1 DEF WriteSize, Unlocks, Size, Threads
<1>8. ASSUME NEW c \in Callers, SetterReturns(c) PROVE TypeOK'
  <2>1. PcOK'
    BY <1>8, CallerMoves DEF SetterReturns, CallerPcs
  <2>2. QED
    BY <1>8, <2>1, InitialTypes DEF SetterReturns, Threads
<1>9. ASSUME NEW w \in Workers, StatfsArrives(w) PROVE TypeOK'
  <2>1. PcOK'
    BY <1>9, WorkerMoves DEF StatfsArrives, WorkerPcs
  <2>2. QED
    BY <1>9, <2>1 DEF StatfsArrives, Threads
<1>10. ASSUME NEW w \in Workers, StatvfsAnswers(w) PROVE TypeOK'
  <2>1. PcOK'
    BY <1>10, WorkerMoves DEF StatvfsAnswers, WorkerPcs
  <2>2. QED
    BY <1>10, <2>1, SizesAssumption DEF StatvfsAnswers, Threads
<1>11. ASSUME NEW w \in Workers, StatvfsFails(w) PROVE TypeOK'
  <2>1. PcOK'
    BY <1>11, WorkerMoves DEF StatvfsFails, WorkerPcs
  <2>2. QED
    BY <1>11, <2>1, SizesAssumption, OverFsAssumption DEF StatvfsFails, Threads
<1>12. ASSUME NEW w \in Workers, StatfsRefuses(w) PROVE TypeOK'
  <2>1. PcOK'
    BY <1>12, WorkerMoves DEF StatfsRefuses, WorkerPcs
  <2>2. QED
    BY <1>12, <2>1, InitialTypes DEF StatfsRefuses, Threads
<1>13. ASSUME NEW w \in Workers, StatfsLocks(w) PROVE TypeOK'
  <2>1. PcOK'
    BY <1>13, WorkerMoves DEF StatfsLocks, WorkerPcs
  <2>2. QED
    BY <1>13, <2>1 DEF StatfsLocks, Locks, Threads
<1>14. ASSUME NEW w \in Workers, StoreDisk(w) PROVE TypeOK'
  <2>1. PcOK'
    BY <1>14, WorkerMoves DEF StoreDisk, WorkerPcs
  <2>2. stat[w].blocks \in 0 .. IntMax
    BY CountsType
  <2>3. stat[w].blocks \in -1 .. IntMax
    BY <2>2, SizesAssumption
  <2>4. cache' \in [Dims -> -1 .. IntMax]
    BY <1>14, <2>3 DEF StoreDisk
  <2>5. QED
    BY <1>14, <2>1, <2>4 DEF StoreDisk
<1>15. ASSUME NEW w \in Workers, StoreFree(w) PROVE TypeOK'
  <2>1. PcOK'
    BY <1>15, WorkerMoves DEF StoreFree, WorkerPcs
  <2>2. stat[w].bavail \in 0 .. IntMax
    BY CountsType
  <2>3. stat[w].bavail \in -1 .. IntMax
    BY <2>2, SizesAssumption
  <2>4. cache' \in [Dims -> -1 .. IntMax]
    BY <1>15, <2>3 DEF StoreFree
  <2>5. QED
    BY <1>15, <2>1, <2>4 DEF StoreFree
<1>16. ASSUME NEW w \in Workers, CopyModes(w) PROVE TypeOK'
  <2>1. PcOK'
    BY <1>16, WorkerMoves DEF CopyModes, WorkerPcs
  <2>2. QED
    BY <1>16, <2>1 DEF CopyModes, Size, Threads
<1>17. ASSUME NEW w \in Workers, CopySizes(w) PROVE TypeOK'
  <2>1. PcOK'
    BY <1>17, WorkerMoves DEF CopySizes, WorkerPcs
  <2>2. copy' \in [Workers -> [Dims -> Size]]
    <3>1. ASSUME NEW d \in Dims PROVE [copy[w][d] EXCEPT !.n = fake[d].n] \in Size
      <4>1. copy[w][d] \in Size /\ fake[d] \in Size
        OBVIOUS
      <4>2. QED
        BY <4>1, HalfCopied
    <3>2. QED
      BY <1>17, <3>1 DEF CopySizes
  <2>3. ret[w] = 0 /\ stat[w] \in RealStats
    BY <1>17 DEF CopySizes, Moves, StatInv
  <2>4. FakedStat(stat[w], copy'[w]) \in Stat
    BY <2>2, <2>3, CountsType, FakedStatType
  <2>5. answer' \in [Workers -> [ret : {-1, 0}, stat : Stat]]
    BY <1>17, <2>3, <2>4 DEF CopySizes
  <2>6. QED
    BY <1>17, <2>1, <2>2, <2>5 DEF CopySizes, Unlocks
<1>18. ASSUME NEW w \in Workers, StatfsReturns(w) PROVE TypeOK'
  <2>1. PcOK'
    BY <1>18, WorkerMoves DEF StatfsReturns, WorkerPcs
  <2>2. QED
    BY <1>18, <2>1, InitialTypes, SizesAssumption DEF StatfsReturns, Threads
<1>19. QED
  BY <1>1, <1>2, <1>3, <1>4, <1>5, <1>6, <1>7, <1>8, <1>9, <1>10, <1>11, <1>12, <1>13, <1>14, <1>15, <1>16, <1>17, <1>18 DEF Next, CallerSteps, WorkerSteps

LEMMA LockStep == TypeOK /\ LockInv /\ Next => LockInv'
<1> SUFFICES ASSUME TypeOK, LockInv, Next PROVE LockInv'
  OBVIOUS
<1> USE OverFsAssumption DEF TypeOK, PcOK, LockInv, Critical, Threads
<1>1. CASE DiskChanges
  BY <1>1 DEF DiskChanges
<1>2. ASSUME NEW c \in Callers, CallSetter(c) PROVE LockInv'
  BY <1>2 DEF CallSetter, Moves
<1>3. ASSUME NEW c \in Callers, AssertFails(c) PROVE LockInv'
  BY <1>3, DeathIInv DEF IInv, TypeOK
<1>4. ASSUME NEW c \in Callers, CallGetReal(c) PROVE LockInv'
  BY <1>4, DeathIInv DEF IInv, TypeOK
<1>5. ASSUME NEW c \in Callers, SetterLocks(c) PROVE LockInv'
  BY <1>5 DEF SetterLocks, Moves, Locks
<1>6. ASSUME NEW c \in Callers, WriteMode(c) PROVE LockInv'
  BY <1>6 DEF WriteMode, Moves
<1>7. ASSUME NEW c \in Callers, WriteSize(c) PROVE LockInv'
  BY <1>7 DEF WriteSize, Moves, Unlocks
<1>8. ASSUME NEW c \in Callers, SetterReturns(c) PROVE LockInv'
  BY <1>8 DEF SetterReturns, Moves
<1>9. ASSUME NEW w \in Workers, StatfsArrives(w) PROVE LockInv'
  BY <1>9 DEF StatfsArrives, Moves
<1>10. ASSUME NEW w \in Workers, StatvfsAnswers(w) PROVE LockInv'
  BY <1>10 DEF StatvfsAnswers, Moves
<1>11. ASSUME NEW w \in Workers, StatvfsFails(w) PROVE LockInv'
  BY <1>11 DEF StatvfsFails, Moves
<1>12. ASSUME NEW w \in Workers, StatfsRefuses(w) PROVE LockInv'
  BY <1>12 DEF StatfsRefuses, Moves, Refused, EPERM
<1>13. ASSUME NEW w \in Workers, StatfsLocks(w) PROVE LockInv'
  BY <1>13 DEF StatfsLocks, Moves, Locks
<1>14. ASSUME NEW w \in Workers, StoreDisk(w) PROVE LockInv'
  BY <1>14 DEF StoreDisk, Moves
<1>15. ASSUME NEW w \in Workers, StoreFree(w) PROVE LockInv'
  BY <1>15 DEF StoreFree, Moves
<1>16. ASSUME NEW w \in Workers, CopyModes(w) PROVE LockInv'
  BY <1>16 DEF CopyModes, Moves
<1>17. ASSUME NEW w \in Workers, CopySizes(w) PROVE LockInv'
  BY <1>17 DEF CopySizes, Moves, Unlocks
<1>18. ASSUME NEW w \in Workers, StatfsReturns(w) PROVE LockInv'
  BY <1>18 DEF StatfsReturns, Moves
<1>19. QED
  BY <1>1, <1>2, <1>3, <1>4, <1>5, <1>6, <1>7, <1>8, <1>9, <1>10, <1>11, <1>12, <1>13, <1>14, <1>15, <1>16, <1>17, <1>18 DEF Next, CallerSteps, WorkerSteps

LEMMA StatStep == TypeOK /\ StatInv /\ Next => StatInv'
<1> SUFFICES ASSUME TypeOK, StatInv, Next PROVE StatInv'
  OBVIOUS
<1> USE OverFsAssumption DEF TypeOK, PcOK, StatInv, Threads, locals
<1>1. CASE DiskChanges
  BY <1>1 DEF DiskChanges
<1>2. ASSUME NEW c \in Callers, CallSetter(c) PROVE StatInv'
  BY <1>2 DEF CallSetter, Moves
<1>3. ASSUME NEW c \in Callers, AssertFails(c) PROVE StatInv'
  BY <1>3, DeathIInv DEF IInv, TypeOK
<1>4. ASSUME NEW c \in Callers, CallGetReal(c) PROVE StatInv'
  BY <1>4, DeathIInv DEF IInv, TypeOK
<1>5. ASSUME NEW c \in Callers, SetterLocks(c) PROVE StatInv'
  BY <1>5 DEF SetterLocks, Moves, Locks
<1>6. ASSUME NEW c \in Callers, WriteMode(c) PROVE StatInv'
  BY <1>6 DEF WriteMode, Moves
<1>7. ASSUME NEW c \in Callers, WriteSize(c) PROVE StatInv'
  BY <1>7 DEF WriteSize, Moves, Unlocks
<1>8. ASSUME NEW c \in Callers, SetterReturns(c) PROVE StatInv'
  BY <1>8 DEF SetterReturns, Moves
<1>9. ASSUME NEW w \in Workers, StatfsArrives(w) PROVE StatInv'
  BY <1>9 DEF StatfsArrives, Moves
<1>10. ASSUME NEW w \in Workers, StatvfsAnswers(w) PROVE StatInv'
  BY <1>10 DEF StatvfsAnswers, Moves
<1>11. ASSUME NEW w \in Workers, StatvfsFails(w) PROVE StatInv'
  BY <1>11 DEF StatvfsFails, Moves
<1>12. ASSUME NEW w \in Workers, StatfsRefuses(w) PROVE StatInv'
  BY <1>12 DEF StatfsRefuses, Moves, Refused, EPERM
<1>13. ASSUME NEW w \in Workers, StatfsLocks(w) PROVE StatInv'
  BY <1>13, SizesAssumption DEF StatfsLocks, Moves, Refused, ZeroStat
<1>14. ASSUME NEW w \in Workers, StoreDisk(w) PROVE StatInv'
  BY <1>14 DEF StoreDisk, Moves
<1>15. ASSUME NEW w \in Workers, StoreFree(w) PROVE StatInv'
  BY <1>15 DEF StoreFree, Moves
<1>16. ASSUME NEW w \in Workers, CopyModes(w) PROVE StatInv'
  BY <1>16 DEF CopyModes, Moves
<1>17. ASSUME NEW w \in Workers, CopySizes(w) PROVE StatInv'
  BY <1>17 DEF CopySizes, Moves, Unlocks
<1>18. ASSUME NEW w \in Workers, StatfsReturns(w) PROVE StatInv'
  BY <1>18 DEF StatfsReturns, Moves
<1>19. QED
  BY <1>1, <1>2, <1>3, <1>4, <1>5, <1>6, <1>7, <1>8, <1>9, <1>10, <1>11, <1>12, <1>13, <1>14, <1>15, <1>16, <1>17, <1>18 DEF Next, CallerSteps, WorkerSteps

LEMMA CacheStep == TypeOK /\ LockInv /\ StatInv /\ CacheInv /\ Next => CacheInv'
<1> SUFFICES ASSUME TypeOK, LockInv, StatInv, CacheInv, Next PROVE CacheInv'
  OBVIOUS
<1> USE OverFsAssumption DEF TypeOK, PcOK, CacheInv, CacheOfOneAnswer, Threads, locals
<1>1. CASE DiskChanges
  BY <1>1 DEF DiskChanges
<1>2. ASSUME NEW c \in Callers, CallSetter(c) PROVE CacheInv'
  BY <1>2 DEF CallSetter, Moves
<1>3. ASSUME NEW c \in Callers, AssertFails(c) PROVE CacheInv'
  BY <1>3, DeathIInv DEF IInv, TypeOK
<1>4. ASSUME NEW c \in Callers, CallGetReal(c) PROVE CacheInv'
  BY <1>4, DeathIInv DEF IInv, TypeOK
<1>5. ASSUME NEW c \in Callers, SetterLocks(c) PROVE CacheInv'
  BY <1>5 DEF SetterLocks, Moves, Locks
<1>6. ASSUME NEW c \in Callers, WriteMode(c) PROVE CacheInv'
  BY <1>6 DEF WriteMode, Moves
<1>7. ASSUME NEW c \in Callers, WriteSize(c) PROVE CacheInv'
  BY <1>7 DEF WriteSize, Moves, Unlocks
<1>8. ASSUME NEW c \in Callers, SetterReturns(c) PROVE CacheInv'
  BY <1>8 DEF SetterReturns, Moves
<1>9. ASSUME NEW w \in Workers, StatfsArrives(w) PROVE CacheInv'
  BY <1>9 DEF StatfsArrives, Moves
<1>10. ASSUME NEW w \in Workers, StatvfsAnswers(w) PROVE CacheInv'
  BY <1>10 DEF StatvfsAnswers, Moves, StatInv
<1>11. ASSUME NEW w \in Workers, StatvfsFails(w) PROVE CacheInv'
  BY <1>11 DEF StatvfsFails, Moves
<1>12. ASSUME NEW w \in Workers, StatfsRefuses(w) PROVE CacheInv'
  BY <1>12 DEF StatfsRefuses, Moves, Refused, EPERM
<1>13. ASSUME NEW w \in Workers, StatfsLocks(w) PROVE CacheInv'
  BY <1>13 DEF StatfsLocks, Moves, Locks, LockInv, Critical
<1>14. ASSUME NEW w \in Workers, StoreDisk(w) PROVE CacheInv'
  BY <1>14 DEF StoreDisk, Moves, LockInv, Critical, Dims
<1>15. ASSUME NEW w \in Workers, StoreFree(w) PROVE CacheInv'
  <2>1. stat[w] \in RealStats /\ stat[w].frsize = BlockSize /\ cache["disk"] = stat[w].blocks
    BY <1>15 DEF StoreFree, Moves, StatInv
  <2>2. cache'["disk"] = stat[w].blocks /\ cache'["free"] = stat[w].bavail
    BY <1>15, <2>1 DEF StoreFree, Dims
  <2>3. \A v \in Workers : pc'[v] # "storeFree"
    BY <1>15 DEF StoreFree, Moves, LockInv, Critical
  <2>4. QED
    BY <2>1, <2>2, <2>3
<1>16. ASSUME NEW w \in Workers, CopyModes(w) PROVE CacheInv'
  BY <1>16 DEF CopyModes, Moves
<1>17. ASSUME NEW w \in Workers, CopySizes(w) PROVE CacheInv'
  BY <1>17 DEF CopySizes, Moves, Unlocks
<1>18. ASSUME NEW w \in Workers, StatfsReturns(w) PROVE CacheInv'
  BY <1>18 DEF StatfsReturns, Moves, StatInv
<1>19. QED
  BY <1>1, <1>2, <1>3, <1>4, <1>5, <1>6, <1>7, <1>8, <1>9, <1>10, <1>11, <1>12, <1>13, <1>14, <1>15, <1>16, <1>17, <1>18 DEF Next, CallerSteps, WorkerSteps

LEMMA CopyStep == TypeOK /\ LockInv /\ CopyInv /\ Next => CopyInv'
<1> SUFFICES ASSUME TypeOK, LockInv, CopyInv, Next PROVE CopyInv'
  OBVIOUS
<1> USE OverFsAssumption DEF TypeOK, PcOK, CopyInv, Threads, locals
<1>1. CASE DiskChanges
  BY <1>1 DEF DiskChanges
<1>2. ASSUME NEW c \in Callers, CallSetter(c) PROVE CopyInv'
  BY <1>2 DEF CallSetter, Moves
<1>3. ASSUME NEW c \in Callers, AssertFails(c) PROVE CopyInv'
  BY <1>3, DeathIInv DEF IInv, TypeOK
<1>4. ASSUME NEW c \in Callers, CallGetReal(c) PROVE CopyInv'
  BY <1>4, DeathIInv DEF IInv, TypeOK
<1>5. ASSUME NEW c \in Callers, SetterLocks(c) PROVE CopyInv'
  BY <1>5 DEF SetterLocks, Moves, Locks
<1>6. ASSUME NEW c \in Callers, WriteMode(c) PROVE CopyInv'
  BY <1>6 DEF WriteMode, Moves, LockInv, Critical
<1>7. ASSUME NEW c \in Callers, WriteSize(c) PROVE CopyInv'
  BY <1>7 DEF WriteSize, Moves, Unlocks, LockInv, Critical
<1>8. ASSUME NEW c \in Callers, SetterReturns(c) PROVE CopyInv'
  BY <1>8 DEF SetterReturns, Moves
<1>9. ASSUME NEW w \in Workers, StatfsArrives(w) PROVE CopyInv'
  BY <1>9 DEF StatfsArrives, Moves
<1>10. ASSUME NEW w \in Workers, StatvfsAnswers(w) PROVE CopyInv'
  BY <1>10 DEF StatvfsAnswers, Moves
<1>11. ASSUME NEW w \in Workers, StatvfsFails(w) PROVE CopyInv'
  BY <1>11 DEF StatvfsFails, Moves
<1>12. ASSUME NEW w \in Workers, StatfsRefuses(w) PROVE CopyInv'
  BY <1>12 DEF StatfsRefuses, Moves, Refused, EPERM
<1>13. ASSUME NEW w \in Workers, StatfsLocks(w) PROVE CopyInv'
  BY <1>13 DEF StatfsLocks, Moves, Locks
<1>14. ASSUME NEW w \in Workers, StoreDisk(w) PROVE CopyInv'
  BY <1>14 DEF StoreDisk, Moves
<1>15. ASSUME NEW w \in Workers, StoreFree(w) PROVE CopyInv'
  BY <1>15 DEF StoreFree, Moves
<1>16. ASSUME NEW w \in Workers, CopyModes(w) PROVE CopyInv'
  BY <1>16 DEF CopyModes, Moves, LockInv, Critical
<1>17. ASSUME NEW w \in Workers, CopySizes(w) PROVE CopyInv'
  BY <1>17 DEF CopySizes, Moves, Unlocks, LockInv, Critical
<1>18. ASSUME NEW w \in Workers, StatfsReturns(w) PROVE CopyInv'
  BY <1>18 DEF StatfsReturns, Moves
<1>19. QED
  BY <1>1, <1>2, <1>3, <1>4, <1>5, <1>6, <1>7, <1>8, <1>9, <1>10, <1>11, <1>12, <1>13, <1>14, <1>15, <1>16, <1>17, <1>18 DEF Next, CallerSteps, WorkerSteps

LEMMA AnswerStep == TypeOK /\ StatInv /\ AnswerInv /\ Next => AnswerInv'
<1> SUFFICES ASSUME TypeOK, StatInv, AnswerInv, Next PROVE AnswerInv'
  OBVIOUS
<1> USE OverFsAssumption DEF TypeOK, PcOK, AnswerInv, Threads, locals
<1>1. CASE DiskChanges
  BY <1>1 DEF DiskChanges
<1>2. ASSUME NEW c \in Callers, CallSetter(c) PROVE AnswerInv'
  BY <1>2 DEF CallSetter, Moves
<1>3. ASSUME NEW c \in Callers, AssertFails(c) PROVE AnswerInv'
  BY <1>3, DeathIInv DEF IInv, TypeOK
<1>4. ASSUME NEW c \in Callers, CallGetReal(c) PROVE AnswerInv'
  BY <1>4, DeathIInv DEF IInv, TypeOK
<1>5. ASSUME NEW c \in Callers, SetterLocks(c) PROVE AnswerInv'
  BY <1>5 DEF SetterLocks, Moves, Locks
<1>6. ASSUME NEW c \in Callers, WriteMode(c) PROVE AnswerInv'
  BY <1>6 DEF WriteMode, Moves
<1>7. ASSUME NEW c \in Callers, WriteSize(c) PROVE AnswerInv'
  BY <1>7 DEF WriteSize, Moves, Unlocks
<1>8. ASSUME NEW c \in Callers, SetterReturns(c) PROVE AnswerInv'
  BY <1>8 DEF SetterReturns, Moves
<1>9. ASSUME NEW w \in Workers, StatfsArrives(w) PROVE AnswerInv'
  BY <1>9 DEF StatfsArrives, Moves
<1>10. ASSUME NEW w \in Workers, StatvfsAnswers(w) PROVE AnswerInv'
  BY <1>10 DEF StatvfsAnswers, Moves
<1>11. ASSUME NEW w \in Workers, StatvfsFails(w) PROVE AnswerInv'
  BY <1>11 DEF StatvfsFails, Moves
<1>12. ASSUME NEW w \in Workers, StatfsRefuses(w) PROVE AnswerInv'
  BY <1>12 DEF StatfsRefuses, Moves, Refused, EPERM
<1>13. ASSUME NEW w \in Workers, StatfsLocks(w) PROVE AnswerInv'
  BY <1>13 DEF StatfsLocks, Moves, Locks
<1>14. ASSUME NEW w \in Workers, StoreDisk(w) PROVE AnswerInv'
  BY <1>14 DEF StoreDisk, Moves
<1>15. ASSUME NEW w \in Workers, StoreFree(w) PROVE AnswerInv'
  BY <1>15 DEF StoreFree, Moves
<1>16. ASSUME NEW w \in Workers, CopyModes(w) PROVE AnswerInv'
  BY <1>16 DEF CopyModes, Moves
<1>17. ASSUME NEW w \in Workers, CopySizes(w) PROVE AnswerInv'
  BY <1>17 DEF CopySizes, Moves, StatInv
<1>18. ASSUME NEW w \in Workers, StatfsReturns(w) PROVE AnswerInv'
  BY <1>18 DEF StatfsReturns, Moves
<1>19. QED
  BY <1>1, <1>2, <1>3, <1>4, <1>5, <1>6, <1>7, <1>8, <1>9, <1>10, <1>11, <1>12, <1>13, <1>14, <1>15, <1>16, <1>17, <1>18 DEF Next, CallerSteps, WorkerSteps

LEMMA LegalStep == TypeOK /\ LockInv /\ CopyInv /\ AnswerInv /\ LegalInv /\ Next => LegalInv'
<1> SUFFICES ASSUME TypeOK, LockInv, CopyInv, AnswerInv, LegalInv, Next PROVE LegalInv'
  OBVIOUS
<1> USE OverFsAssumption DEF TypeOK, PcOK, LegalInv, Threads, locals
<1>1. CASE DiskChanges
  BY <1>1 DEF DiskChanges
<1>2. ASSUME NEW c \in Callers, CallSetter(c) PROVE LegalInv'
  <2>1. ContractKept => \A b \in Callers : Legal(order'[b])
    BY <1>2 DEF CallSetter, Moves, ContractKept
  <2>2. /\ \A b \in Callers : (pc[b] = "size" <=> pc'[b] = "size")
        /\ \A b \in Callers : pc[b] = "size" => order'[b] = order[b]
        /\ UNCHANGED <<fake, answer, copy>>
    BY <1>2 DEF CallSetter, Moves
  <2>3. QED
    BY <2>1, <2>2 DEF ContractKept
<1>3. ASSUME NEW c \in Callers, AssertFails(c) PROVE LegalInv'
  BY <1>3, DeathIInv DEF IInv, TypeOK
<1>4. ASSUME NEW c \in Callers, CallGetReal(c) PROVE LegalInv'
  BY <1>4, DeathIInv DEF IInv, TypeOK
<1>5. ASSUME NEW c \in Callers, SetterLocks(c) PROVE LegalInv'
  BY <1>5 DEF SetterLocks, Moves, Locks
<1>6. ASSUME NEW c \in Callers, WriteMode(c) PROVE LegalInv'
  BY <1>6 DEF WriteMode, Moves, Legal
<1>7. ASSUME NEW c \in Callers, WriteSize(c) PROVE LegalInv'
  <2>1. SUFFICES ASSUME ContractKept PROVE LegalInv'
    BY DEF ContractKept
  <2>2. ASSUME NEW d \in Dims, d # order[c].dim
        PROVE  Legal(fake'[d]) \/ \E e \in Callers : pc'[e] = "size" /\ order'[e].dim = d
    <3>1. fake'[d] = fake[d]
      BY <1>7, <2>2 DEF WriteSize
    <3>2. \A e \in Callers : pc[e] = "size" => e = c
      BY <1>7 DEF WriteSize, Unlocks, LockInv, Critical
    <3>3. QED
      BY <2>1, <2>2, <3>1, <3>2
  <2>3. Legal(fake'[order[c].dim])
    <3>1. fake'[order[c].dim].fixed = order[c].fixed /\ fake'[order[c].dim].n = order[c].n
      BY <1>7 DEF WriteSize, Moves, CopyInv, Size
    <3>2. QED
      BY <2>1, <3>1 DEF Legal
  <2>4. QED
    BY <1>7, <2>1, <2>2, <2>3 DEF WriteSize, Moves, ContractKept
<1>8. ASSUME NEW c \in Callers, SetterReturns(c) PROVE LegalInv'
  BY <1>8 DEF SetterReturns, Moves, Legal, NoCall
<1>9. ASSUME NEW w \in Workers, StatfsArrives(w) PROVE LegalInv'
  BY <1>9 DEF StatfsArrives, Moves
<1>10. ASSUME NEW w \in Workers, StatvfsAnswers(w) PROVE LegalInv'
  BY <1>10 DEF StatvfsAnswers, Moves
<1>11. ASSUME NEW w \in Workers, StatvfsFails(w) PROVE LegalInv'
  BY <1>11 DEF StatvfsFails, Moves
<1>12. ASSUME NEW w \in Workers, StatfsRefuses(w) PROVE LegalInv'
  BY <1>12 DEF StatfsRefuses, Moves, Refused, EPERM
<1>13. ASSUME NEW w \in Workers, StatfsLocks(w) PROVE LegalInv'
  BY <1>13 DEF StatfsLocks, Moves, Locks
<1>14. ASSUME NEW w \in Workers, StoreDisk(w) PROVE LegalInv'
  BY <1>14 DEF StoreDisk, Moves
<1>15. ASSUME NEW w \in Workers, StoreFree(w) PROVE LegalInv'
  BY <1>15 DEF StoreFree, Moves
<1>16. ASSUME NEW w \in Workers, CopyModes(w) PROVE LegalInv'
  BY <1>16 DEF CopyModes, Moves, AnswerInv
<1>17. ASSUME NEW w \in Workers, CopySizes(w) PROVE LegalInv'
  <2>1. SUFFICES ASSUME ContractKept PROVE LegalInv'
    BY DEF ContractKept
  <2>2. \A d \in Dims : Legal(fake[d])
    BY <1>17, <2>1 DEF CopySizes, Unlocks, LockInv, Critical
  <2>3. ASSUME NEW d \in Dims PROVE Legal(copy'[w][d])
    <3>1. copy'[w][d].fixed = fake[d].fixed /\ copy'[w][d].n = fake[d].n
      BY <1>17 DEF CopySizes, Moves, CopyInv, Size
    <3>2. QED
      BY <2>2, <3>1 DEF Legal
  <2>4. QED
    BY <1>17, <2>1, <2>2, <2>3 DEF CopySizes, Moves, ContractKept
<1>18. ASSUME NEW w \in Workers, StatfsReturns(w) PROVE LegalInv'
  BY <1>18 DEF StatfsReturns, Moves, NoFake, Legal
<1>19. QED
  BY <1>1, <1>2, <1>3, <1>4, <1>5, <1>6, <1>7, <1>8, <1>9, <1>10, <1>11, <1>12, <1>13, <1>14, <1>15, <1>16, <1>17, <1>18 DEF Next, CallerSteps, WorkerSteps

LEMMA IInvInit == Init => IInv
BY FreshIInv DEF Init, FreshState

LEMMA IInvStep == IInv /\ [Next]_vars => IInv'
<1> SUFFICES ASSUME IInv, [Next]_vars PROVE IInv'
  OBVIOUS
<1>1. CASE Next
  BY <1>1, TypeStep, LockStep, StatStep, CacheStep, CopyStep, AnswerStep, LegalStep DEF IInv
<1>2. CASE UNCHANGED vars
  BY <1>2 DEF vars, IInv, TypeOK, PcOK, LockInv, StatInv, CacheInv, CacheOfOneAnswer, CopyInv, AnswerInv,
              LegalInv, ContractKept
<1>3. QED
  BY <1>1, <1>2

-----------------------------------------------------------------------------
\* The inductive invariant holds in every behaviour of the size faking.
THEOREM Invariance == Spec => []IInv
<1>1. Init => IInv
  BY IInvInit
<1>2. IInv /\ [Next]_vars => IInv'
  BY IInvStep
<1>3. QED
  BY <1>1, <1>2, PTL DEF Spec

\* The two m_nReal... members always come from one and the same answer of the
\* underlying file system once the mutex is free.
THEOREM RealSizesCoherent == Spec => []CacheCoherent
<1>1. IInv => CacheCoherent
  <2> SUFFICES ASSUME IInv, mutex = NoOne
               PROVE  CacheOfOneAnswer
    BY DEF CacheCoherent
  <2>1. \A w \in Workers : pc[w] # "storeFree"
    BY OverFsAssumption DEF IInv, LockInv, Critical, Threads
  <2>2. QED
    BY <2>1 DEF IInv, CacheInv
<1>2. QED
  BY <1>1, Invariance, PTL

\* A worker never goes on with the buffer of a failed or foreign statvfs.
THEOREM OnlyRealAnswers == Spec => []NoStaleBuffer
<1>1. IInv => NoStaleBuffer
  <2> SUFFICES ASSUME IInv, NEW w \in Workers, ret[w] # 0 \/ stat[w].frsize # BlockSize
               PROVE  pc[w] \in {"idle", "statvfs", "check", "reply"} /\ answer[w] = Error
    BY DEF NoStaleBuffer
  <2>1. answer[w] = Error
    BY Zenon DEF IInv, AnswerInv
  <2>2. pc[w] \in {"idle", "statvfs", "check", "reply"}
    BY DEF IInv, StatInv, TypeOK, PcOK, WorkerPcs
  <2>3. QED
    BY <2>1, <2>2
<1>2. QED
  BY <1>1, Invariance, PTL

\* If every fixed size is positive, or the assert sees to it, statfs never
\* reports more free than total blocks while the free size is faked.
THEOREM FreeAlwaysFits ==
  ASSUME ContractKept
  PROVE  Spec => []FreeFits
<1>1. IInv => FreeFits
  <2> SUFFICES ASSUME IInv, NEW w \in Workers, answer[w].ret = 0,
                      copy[w]["free"] # NoFake["free"]
               PROVE  answer[w].stat.bavail <= answer[w].stat.blocks
    BY DEF FreeFits
  <2>1. answer[w] # Error
    BY DEF Error
  <2>2. stat[w] \in RealStats /\ answer[w].stat = FakedStat(stat[w], copy[w])
    <3>1. /\ stat[w] \in RealStats
          /\ answer[w] = [ret |-> 0, stat |-> FakedStat(stat[w], copy[w])]
      BY <2>1, Zenon DEF IInv, AnswerInv
    <3>2. QED
      BY <3>1
  <2>3. \A d \in Dims : Legal(copy[w][d])
    BY <2>1, ContractKept DEF IInv, LegalInv
  <2>4. copy[w] \in [Dims -> Size]
    BY DEF IInv, TypeOK
  <2>5. stat[w] \in Stat /\ Plausible(stat[w])
    BY <2>2, CountsType
  <2>6. FakedStat(stat[w], copy[w]).bavail <= FakedStat(stat[w], copy[w]).blocks
    BY <2>3, <2>4, <2>5, FakedFreeFits
  <2>7. QED
    BY <2>2, <2>6
<1>2. QED
  BY <1>1, Invariance, PTL

-----------------------------------------------------------------------------
\* The refinement of FakedFs.  Its pure operators are those of OverFs.
LEMMA SameOperators ==
  /\ \A r : Abs!Order(r) = Order(r)
  /\ \A s, k : Abs!FakedStat(s, k) = FakedStat(s, k)
  /\ Abs!Error = Error /\ Abs!NoFake = NoFake /\ Abs!NoCall = NoCall /\ Abs!ZeroStat = ZeroStat
<1>1. \A r : Abs!Order(r) = Order(r)
  BY DEF Abs!Order, Order, Abs!RequestBlocks, RequestBlocks, Abs!FixedBlocks, FixedBlocks,
         Abs!DiffBlocks, DiffBlocks, Abs!BlocksRounded, BlocksRounded, Abs!Mul, Mul, Abs!Add, Add,
         Abs!TruncDiv, TruncDiv, Abs!TruncMod, TruncMod, Abs!Int64, Int64, Abs!Span, Span
<1>2. \A s, k : Abs!FakedStat(s, k) = FakedStat(s, k)
  BY DEF Abs!FakedStat, FakedStat, Abs!FakeDisk, FakeDisk, Abs!FakeFree, FakeFree, Abs!Add, Add,
         Abs!ToUnsigned, ToUnsigned, Abs!Span, Span
<1>3. Abs!Error = Error /\ Abs!NoFake = NoFake /\ Abs!NoCall = NoCall /\ Abs!ZeroStat = ZeroStat
  BY DEF Abs!Error, Error, Abs!NoFake, NoFake, Abs!NoCall, NoCall, Abs!ZeroStat, ZeroStat,
         Abs!Dims, Dims
<1>4. QED
  BY <1>1, <1>2, <1>3

LEMMA PhaseOfCaller ==
  ASSUME PcOK, NEW c \in Callers, NEW from, NEW to, Moves(c, from, to)
  PROVE  /\ AbsPhase[c] = CallerPhase[from]
         /\ AbsPhase' = [AbsPhase EXCEPT ![c] = CallerPhase[to]]
         /\ CallerPhase[from] = CallerPhase[to] => AbsPhase' = AbsPhase
BY DEF PcOK, Moves, AbsPhase, Threads

LEMMA PhaseOfWorker ==
  ASSUME PcOK, NEW w \in Workers, NEW from, NEW to, Moves(w, from, to)
  PROVE  /\ AbsPhase[w] = WorkerPhase[from]
         /\ AbsPhase' = [AbsPhase EXCEPT ![w] = WorkerPhase[to]]
         /\ WorkerPhase[from] = WorkerPhase[to] => AbsPhase' = AbsPhase
BY OverFsAssumption DEF PcOK, Moves, AbsPhase, Threads

\* The settings in force change only at the two writes of a setter.
LEMMA AbsFakeStays ==
  ASSUME LockInv, LockInv', fake' = fake, NEW t \in Threads,
         pc[t] # "size", pc'[t] # "size",
         \A u \in Threads \ {t} : pc'[u] = pc[u] /\ (u \in Callers => order'[u] = order[u])
  PROVE  AbsFake' = AbsFake
<1>1. ASSUME mutex \in Callers, pc[mutex] = "size"
      PROVE  mutex' = mutex /\ pc'[mutex] = "size" /\ order'[mutex] = order[mutex]
  BY <1>1 DEF LockInv, Critical, Threads
<1>2. ASSUME mutex' \in Callers, pc'[mutex'] = "size"
      PROVE  mutex' = mutex /\ pc[mutex] = "size"
  BY <1>2 DEF LockInv, Critical, Threads
<1>3. QED
  BY <1>1, <1>2 DEF AbsFake

LEMMA CallSetterImplements ==
  ASSUME IInv, IInv', NEW c \in Callers, CallSetter(c)
  PROVE  Abs!Call(c)
<1> USE OverFsAssumption DEF IInv
<1>1. /\ AbsPhase[c] = CallerPhase["idle"]
      /\ AbsPhase' = [AbsPhase EXCEPT ![c] = CallerPhase["lock"]]
  BY PhaseOfCaller DEF CallSetter, TypeOK
<1>2. AbsFake' = AbsFake
  <2>1. c \in Threads /\ pc[c] # "size" /\ pc'[c] # "size"
    BY DEF CallSetter, Moves, TypeOK, PcOK, Threads
  <2>2. \A u \in Threads \ {c} : pc'[u] = pc[u] /\ (u \in Callers => order'[u] = order[u])
    BY DEF CallSetter, Moves, TypeOK, PcOK, Threads
  <2>3. QED
    BY <2>1, <2>2, AbsFakeStays DEF CallSetter
<1>3. answer' = answer
  BY DEF CallSetter, locals
<1>4. QED
  BY <1>1, <1>2, <1>3, SameOperators
     DEF CallSetter, Moves, locals, Abs!Call, Abs!Moves, CallerPhase

LEMMA SetterLocksImplements ==
  ASSUME IInv, IInv', NEW c \in Callers, SetterLocks(c)
  PROVE  UNCHANGED Abs!vars
<1> USE OverFsAssumption DEF IInv
<1>1. AbsPhase' = AbsPhase
  <2>1. CallerPhase["lock"] = CallerPhase["mode"]
    BY DEF CallerPhase
  <2>2. QED
    BY <2>1, PhaseOfCaller DEF SetterLocks, TypeOK
<1>2. AbsFake' = AbsFake
  <2>1. c \in Threads /\ pc[c] # "size" /\ pc'[c] # "size"
    BY DEF SetterLocks, Moves, TypeOK, PcOK, Threads
  <2>2. \A u \in Threads \ {c} : pc'[u] = pc[u] /\ (u \in Callers => order'[u] = order[u])
    BY DEF SetterLocks, Moves, TypeOK, PcOK, Threads
  <2>3. QED
    BY <2>1, <2>2, AbsFakeStays DEF SetterLocks
<1>3. answer' = answer
  BY DEF SetterLocks, locals
<1>4. QED
  BY <1>1, <1>2, <1>3 DEF SetterLocks, Locks, Abs!vars, locals

LEMMA WriteModeImplements ==
  ASSUME IInv, IInv', NEW c \in Callers, WriteMode(c)
  PROVE  Abs!TakesEffect(c)
<1> USE OverFsAssumption DEF IInv
<1>1. /\ AbsPhase[c] = CallerPhase["mode"]
      /\ AbsPhase' = [AbsPhase EXCEPT ![c] = CallerPhase["size"]]
  BY PhaseOfCaller DEF WriteMode, TypeOK
<1>2. mutex = c /\ mutex' = c /\ pc[c] = "mode" /\ pc'[c] = "size"
  BY DEF WriteMode, Moves, LockInv, Critical, TypeOK, PcOK, Threads
<1>3. AbsFake = [d \in Dims |-> fake[d]]
  BY <1>2 DEF AbsFake
<1>4. AbsFake' = [AbsFake EXCEPT ![order[c].dim] = [fixed |-> order[c].fixed, n |-> order[c].n]]
  <2>1. \A d \in Dims : d # order[c].dim => fake'[d] = fake[d]
    BY DEF WriteMode, TypeOK
  <2>2. order' = order
    BY DEF WriteMode
  <2>3. QED
    BY <1>2, <1>3, <2>1, <2>2 DEF AbsFake
<1>5. answer' = answer
  BY DEF WriteMode, locals
<1>6. QED
  BY <1>1, <1>4, <1>5, SameOperators
     DEF WriteMode, Moves, locals, Abs!TakesEffect, Abs!Moves, CallerPhase

LEMMA WriteSizeImplements ==
  ASSUME IInv, IInv', NEW c \in Callers, WriteSize(c)
  PROVE  UNCHANGED Abs!vars
<1> USE OverFsAssumption DEF IInv
<1>1. AbsPhase' = AbsPhase
  <2>1. CallerPhase["size"] = CallerPhase["return"]
    BY DEF CallerPhase
  <2>2. QED
    BY <2>1, PhaseOfCaller DEF WriteSize, TypeOK
<1>2. mutex = c /\ mutex' = NoOne /\ pc[c] = "size"
  BY DEF WriteSize, Moves, Unlocks
<1>3. NoOne \notin Callers
  BY DEF Threads
<1>4. AbsFake' = AbsFake
  <2>1. AbsFake' = [d \in Dims |-> fake'[d]]
    BY <1>2, <1>3 DEF AbsFake
  <2>2. \A d \in Dims : d # order[c].dim => fake'[d] = fake[d]
    BY DEF WriteSize, TypeOK
  <2>3. order[c].dim \in Dims => fake'[order[c].dim] = [fixed |-> order[c].fixed, n |-> order[c].n]
    BY <1>2 DEF WriteSize, TypeOK, CopyInv, Size
  <2>4. QED
    BY <1>2, <2>1, <2>2, <2>3 DEF AbsFake
<1>5. answer' = answer
  BY DEF WriteSize, locals
<1>6. QED
  BY <1>1, <1>4, <1>5 DEF WriteSize, Unlocks, Abs!vars, locals

LEMMA SetterReturnsImplements ==
  ASSUME IInv, IInv', NEW c \in Callers, SetterReturns(c)
  PROVE  Abs!Return(c)
<1> USE OverFsAssumption DEF IInv
<1>1. /\ AbsPhase[c] = CallerPhase["return"]
      /\ AbsPhase' = [AbsPhase EXCEPT ![c] = CallerPhase["idle"]]
  BY PhaseOfCaller DEF SetterReturns, TypeOK
<1>2. AbsFake' = AbsFake
  <2>1. c \in Threads /\ pc[c] # "size" /\ pc'[c] # "size"
    BY DEF SetterReturns, Moves, TypeOK, PcOK, Threads
  <2>2. \A u \in Threads \ {c} : pc'[u] = pc[u] /\ (u \in Callers => order'[u] = order[u])
    BY DEF SetterReturns, Moves, TypeOK, PcOK, Threads
  <2>3. QED
    BY <2>1, <2>2, AbsFakeStays DEF SetterReturns
<1>3. answer' = answer
  BY DEF SetterReturns, locals
<1>4. QED
  BY <1>1, <1>2, <1>3, SameOperators
     DEF SetterReturns, Moves, locals, Abs!Return, Abs!Moves, CallerPhase

LEMMA StatfsArrivesImplements ==
  ASSUME IInv, IInv', NEW w \in Workers, StatfsArrives(w)
  PROVE  Abs!Ask(w)
<1> USE OverFsAssumption DEF IInv
<1>1. /\ AbsPhase[w] = WorkerPhase["idle"]
      /\ AbsPhase' = [AbsPhase EXCEPT ![w] = WorkerPhase["statvfs"]]
  BY PhaseOfWorker DEF StatfsArrives, TypeOK
<1>2. AbsFake' = AbsFake
  <2>1. w \in Threads /\ pc[w] # "size" /\ pc'[w] # "size"
    BY DEF StatfsArrives, Moves, TypeOK, PcOK, Threads
  <2>2. \A u \in Threads \ {w} : pc'[u] = pc[u] /\ (u \in Callers => order'[u] = order[u])
    BY DEF StatfsArrives, Moves, TypeOK, PcOK, Threads
  <2>3. QED
    BY <2>1, <2>2, AbsFakeStays DEF StatfsArrives
<1>3. answer' = answer
  BY DEF StatfsArrives, locals
<1>4. QED
  BY <1>1, <1>2, <1>3, SameOperators
     DEF StatfsArrives, Moves, locals, Abs!Ask, Abs!Moves, WorkerPhase

LEMMA StatvfsAnswersImplements ==
  ASSUME IInv, IInv', NEW w \in Workers, StatvfsAnswers(w)
  PROVE  Abs!Sample(w)
<1> USE OverFsAssumption DEF IInv
<1>1. /\ AbsPhase[w] = WorkerPhase["statvfs"]
      /\ AbsPhase' = [AbsPhase EXCEPT ![w] = WorkerPhase["check"]]
  BY PhaseOfWorker DEF StatvfsAnswers, TypeOK
<1>2. AbsFake' = AbsFake
  <2>1. w \in Threads /\ pc[w] # "size" /\ pc'[w] # "size"
    BY DEF StatvfsAnswers, Moves, TypeOK, PcOK, Threads
  <2>2. \A u \in Threads \ {w} : pc'[u] = pc[u] /\ (u \in Callers => order'[u] = order[u])
    BY DEF StatvfsAnswers, Moves, TypeOK, PcOK, Threads
  <2>3. QED
    BY <2>1, <2>2, AbsFakeStays DEF StatvfsAnswers
<1>3. answer' = answer
  BY DEF StatvfsAnswers, locals
<1>4. QED
  BY <1>1, <1>2, <1>3, SameOperators
     DEF StatvfsAnswers, Moves, locals, Abs!Sample, Abs!Moves, WorkerPhase

LEMMA StatvfsFailsImplements ==
  ASSUME IInv, IInv', NEW w \in Workers, StatvfsFails(w)
  PROVE  Abs!Sample(w)
<1> USE OverFsAssumption DEF IInv
<1>1. /\ AbsPhase[w] = WorkerPhase["statvfs"]
      /\ AbsPhase' = [AbsPhase EXCEPT ![w] = WorkerPhase["check"]]
  BY PhaseOfWorker DEF StatvfsFails, TypeOK
<1>2. AbsFake' = AbsFake
  <2>1. w \in Threads /\ pc[w] # "size" /\ pc'[w] # "size"
    BY DEF StatvfsFails, Moves, TypeOK, PcOK, Threads
  <2>2. \A u \in Threads \ {w} : pc'[u] = pc[u] /\ (u \in Callers => order'[u] = order[u])
    BY DEF StatvfsFails, Moves, TypeOK, PcOK, Threads
  <2>3. QED
    BY <2>1, <2>2, AbsFakeStays DEF StatvfsFails
<1>3. answer' = answer
  BY DEF StatvfsFails, locals
<1>4. stat' = [stat EXCEPT ![w] = ZeroStat]
  BY DEF StatvfsFails, Moves, StatInv, TypeOK
<1>5. QED
  BY <1>1, <1>2, <1>3, <1>4, SameOperators
     DEF StatvfsFails, Moves, Abs!Sample, Abs!Moves, WorkerPhase

LEMMA StatfsRefusesImplements ==
  ASSUME IInv, IInv', NEW w \in Workers, StatfsRefuses(w)
  PROVE  Abs!Decide(w)
<1> USE OverFsAssumption DEF IInv
<1>1. /\ AbsPhase[w] = WorkerPhase["check"]
      /\ AbsPhase' = [AbsPhase EXCEPT ![w] = WorkerPhase["reply"]]
  BY PhaseOfWorker DEF StatfsRefuses, TypeOK
<1>2. AbsFake' = AbsFake
  <2>1. w \in Threads /\ pc[w] # "size" /\ pc'[w] # "size"
    BY DEF StatfsRefuses, Moves, TypeOK, PcOK, Threads
  <2>2. \A u \in Threads \ {w} : pc'[u] = pc[u] /\ (u \in Callers => order'[u] = order[u])
    BY DEF StatfsRefuses, Moves, TypeOK, PcOK, Threads
  <2>3. QED
    BY <2>1, <2>2, AbsFakeStays DEF StatfsRefuses
<1>3. answer' = [answer EXCEPT ![w] = Error]
  BY DEF StatfsRefuses
<1>4. stat[w].frsize # BlockSize
  BY SizesAssumption DEF StatfsRefuses, Moves, Refused, StatInv, ZeroStat, EPERM
<1>5. QED
  BY <1>1, <1>2, <1>3, <1>4, SameOperators
     DEF StatfsRefuses, Moves, Abs!Decide, Abs!Moves, WorkerPhase

LEMMA StatfsLocksImplements ==
  ASSUME IInv, IInv', NEW w \in Workers, StatfsLocks(w)
  PROVE  UNCHANGED Abs!vars
<1> USE OverFsAssumption DEF IInv
<1>1. AbsPhase' = AbsPhase
  <2>1. WorkerPhase["check"] = WorkerPhase["storeDisk"]
    BY DEF WorkerPhase
  <2>2. QED
    BY <2>1, PhaseOfWorker DEF StatfsLocks, TypeOK
<1>2. AbsFake' = AbsFake
  <2>1. w \in Threads /\ pc[w] # "size" /\ pc'[w] # "size"
    BY DEF StatfsLocks, Moves, TypeOK, PcOK, Threads
  <2>2. \A u \in Threads \ {w} : pc'[u] = pc[u] /\ (u \in Callers => order'[u] = order[u])
    BY DEF StatfsLocks, Moves, TypeOK, PcOK, Threads
  <2>3. QED
    BY <2>1, <2>2, AbsFakeStays DEF StatfsLocks
<1>3. answer' = answer
  BY DEF StatfsLocks, locals
<1>4. QED
  BY <1>1, <1>2, <1>3 DEF StatfsLocks, Abs!vars, locals

LEMMA StoreDiskImplements ==
  ASSUME IInv, IInv', NEW w \in Workers, StoreDisk(w)
  PROVE  UNCHANGED Abs!vars
<1> USE OverFsAssumption DEF IInv
<1>1. AbsPhase' = AbsPhase
  <2>1. WorkerPhase["storeDisk"] = WorkerPhase["storeFree"]
    BY DEF WorkerPhase
  <2>2. QED
    BY <2>1, PhaseOfWorker DEF StoreDisk, TypeOK
<1>2. AbsFake' = AbsFake
  <2>1. w \in Threads /\ pc[w] # "size" /\ pc'[w] # "size"
    BY DEF StoreDisk, Moves, TypeOK, PcOK, Threads
  <2>2. \A u \in Threads \ {w} : pc'[u] = pc[u] /\ (u \in Callers => order'[u] = order[u])
    BY DEF StoreDisk, Moves, TypeOK, PcOK, Threads
  <2>3. QED
    BY <2>1, <2>2, AbsFakeStays DEF StoreDisk
<1>3. answer' = answer
  BY DEF StoreDisk, locals
<1>4. QED
  BY <1>1, <1>2, <1>3 DEF StoreDisk, Abs!vars, locals

LEMMA StoreFreeImplements ==
  ASSUME IInv, IInv', NEW w \in Workers, StoreFree(w)
  PROVE  UNCHANGED Abs!vars
<1> USE OverFsAssumption DEF IInv
<1>1. AbsPhase' = AbsPhase
  <2>1. WorkerPhase["storeFree"] = WorkerPhase["modes"]
    BY DEF WorkerPhase
  <2>2. QED
    BY <2>1, PhaseOfWorker DEF StoreFree, TypeOK
<1>2. AbsFake' = AbsFake
  <2>1. w \in Threads /\ pc[w] # "size" /\ pc'[w] # "size"
    BY DEF StoreFree, Moves, TypeOK, PcOK, Threads
  <2>2. \A u \in Threads \ {w} : pc'[u] = pc[u] /\ (u \in Callers => order'[u] = order[u])
    BY DEF StoreFree, Moves, TypeOK, PcOK, Threads
  <2>3. QED
    BY <2>1, <2>2, AbsFakeStays DEF StoreFree
<1>3. answer' = answer
  BY DEF StoreFree, locals
<1>4. QED
  BY <1>1, <1>2, <1>3 DEF StoreFree, Abs!vars, locals

LEMMA CopyModesImplements ==
  ASSUME IInv, IInv', NEW w \in Workers, CopyModes(w)
  PROVE  UNCHANGED Abs!vars
<1> USE OverFsAssumption DEF IInv
<1>1. AbsPhase' = AbsPhase
  <2>1. WorkerPhase["modes"] = WorkerPhase["sizes"]
    BY DEF WorkerPhase
  <2>2. QED
    BY <2>1, PhaseOfWorker DEF CopyModes, TypeOK
<1>2. AbsFake' = AbsFake
  <2>1. w \in Threads /\ pc[w] # "size" /\ pc'[w] # "size"
    BY DEF CopyModes, Moves, TypeOK, PcOK, Threads
  <2>2. \A u \in Threads \ {w} : pc'[u] = pc[u] /\ (u \in Callers => order'[u] = order[u])
    BY DEF CopyModes, Moves, TypeOK, PcOK, Threads
  <2>3. QED
    BY <2>1, <2>2, AbsFakeStays DEF CopyModes
<1>3. answer' = answer
  BY DEF CopyModes, locals
<1>4. QED
  BY <1>1, <1>2, <1>3 DEF CopyModes, Abs!vars, locals

LEMMA CopySizesImplements ==
  ASSUME IInv, IInv', NEW w \in Workers, CopySizes(w)
  PROVE  Abs!Decide(w)
<1> USE OverFsAssumption DEF IInv
<1>1. /\ AbsPhase[w] = WorkerPhase["sizes"]
      /\ AbsPhase' = [AbsPhase EXCEPT ![w] = WorkerPhase["reply"]]
  BY PhaseOfWorker DEF CopySizes, TypeOK
<1>2. AbsFake' = AbsFake
  <2>1. w \in Threads /\ pc[w] # "size" /\ pc'[w] # "size"
    BY DEF CopySizes, Moves, TypeOK, PcOK, Threads
  <2>2. \A u \in Threads \ {w} : pc'[u] = pc[u] /\ (u \in Callers => order'[u] = order[u])
    BY DEF CopySizes, Moves, TypeOK, PcOK, Threads
  <2>3. QED
    BY <2>1, <2>2, AbsFakeStays DEF CopySizes
<1>3. answer' = [answer EXCEPT ![w] = [ret |-> 0, stat |-> FakedStat(stat[w], copy'[w])]]
  BY DEF CopySizes, Moves, StatInv
<1>4. stat[w].frsize = BlockSize
  BY DEF CopySizes, Moves, StatInv
<1>5. copy'[w] = AbsFake
  <2>1. AbsFake = [d \in Dims |-> fake[d]]
    BY DEF CopySizes, Moves, Unlocks, AbsFake
  <2>2. copy'[w] = [d \in Dims |-> [copy[w][d] EXCEPT !.n = fake[d].n]]
    BY DEF CopySizes, TypeOK
  <2>3. \A d \in Dims : [copy[w][d] EXCEPT !.n = fake[d].n] = fake[d]
    <3>1. \A d \in Dims : copy[w][d] \in Size /\ fake[d] \in Size /\ copy[w][d].fixed = fake[d].fixed
      BY DEF CopySizes, Moves, TypeOK, CopyInv
    <3>2. QED
      BY <3>1 DEF Size
  <2>4. QED
    BY <2>1, <2>2, <2>3
<1>6. QED
  BY <1>1, <1>2, <1>3, <1>4, <1>5, SameOperators
     DEF CopySizes, Moves, Abs!Decide, Abs!Moves, WorkerPhase

LEMMA StatfsReturnsImplements ==
  ASSUME IInv, IInv', NEW w \in Workers, StatfsReturns(w)
  PROVE  Abs!Reply(w)
<1> USE OverFsAssumption DEF IInv
<1>1. /\ AbsPhase[w] = WorkerPhase["reply"]
      /\ AbsPhase' = [AbsPhase EXCEPT ![w] = WorkerPhase["idle"]]
  BY PhaseOfWorker DEF StatfsReturns, TypeOK
<1>2. AbsFake' = AbsFake
  <2>1. w \in Threads /\ pc[w] # "size" /\ pc'[w] # "size"
    BY DEF StatfsReturns, Moves, TypeOK, PcOK, Threads
  <2>2. \A u \in Threads \ {w} : pc'[u] = pc[u] /\ (u \in Callers => order'[u] = order[u])
    BY DEF StatfsReturns, Moves, TypeOK, PcOK, Threads
  <2>3. QED
    BY <2>1, <2>2, AbsFakeStays DEF StatfsReturns
<1>3. answer' = [answer EXCEPT ![w] = Error]
  BY DEF StatfsReturns
<1>4. QED
  BY <1>1, <1>2, <1>3, SameOperators
     DEF StatfsReturns, Moves, locals, Abs!Reply, Abs!Moves, WorkerPhase

LEMMA FreshImplements == Fresh => Abs!Fresh
<1> SUFFICES ASSUME Fresh PROVE Abs!Fresh
  OBVIOUS
<1>1. AbsPhase = [t \in Callers \cup Workers |-> "idle"]
  BY OverFsAssumption DEF Fresh, AbsPhase, CallerPhase, WorkerPhase, Threads
<1>2. AbsFake = NoFake
  BY OverFsAssumption DEF Fresh, AbsFake, NoFake, Threads
<1>3. answer = [w \in Workers |-> Error]
  BY DEF Fresh
<1>4. QED
  BY <1>1, <1>2, <1>3, SameOperators DEF Fresh, Abs!Fresh

LEMMA InitImplements == Init => Abs!Init
BY FreshImplements DEF Init, Abs!Init

LEMMA FreshAgainImplements == Fresh' => Abs!Fresh'
BY FreshImplements, PTL

LEMMA DeathImplements ==
  ASSUME NEW c \in Callers, AssertFails(c) \/ CallGetReal(c)
  PROVE  Abs!Crash
<1>1. Fresh'
  BY DEF AssertFails, CallGetReal, Dies, Fresh
<1>2. Abs!Fresh'
  BY <1>1, FreshAgainImplements
<1>3. status = "running" /\ status' # "running" /\ real' = real
  BY DEF AssertFails, CallGetReal, Dies
<1>4. QED
  BY <1>2, <1>3 DEF Abs!Crash, Abs!Fresh

LEMMA StepImplements == IInv /\ IInv' /\ Next => [Abs!Next]_(Abs!vars)
<1> SUFFICES ASSUME IInv, IInv', Next PROVE Abs!Next \/ UNCHANGED Abs!vars
  OBVIOUS
<1>1. CASE DiskChanges
  <2>1. AbsPhase' = AbsPhase /\ AbsFake' = AbsFake /\ answer' = answer
    BY <1>1 DEF DiskChanges, locals, AbsPhase, AbsFake
  <2>2. QED
    BY <1>1, <2>1 DEF DiskChanges, locals, Abs!Next, Abs!DiskChanges
<1>2. ASSUME NEW c \in Callers, CallSetter(c) PROVE Abs!Next \/ UNCHANGED Abs!vars
  BY <1>2, CallSetterImplements DEF Abs!Next
<1>3. ASSUME NEW c \in Callers, AssertFails(c) PROVE Abs!Next \/ UNCHANGED Abs!vars
  BY <1>3, DeathImplements DEF Abs!Next
<1>4. ASSUME NEW c \in Callers, CallGetReal(c) PROVE Abs!Next \/ UNCHANGED Abs!vars
  BY <1>4, DeathImplements DEF Abs!Next
<1>5. ASSUME NEW c \in Callers, SetterLocks(c) PROVE Abs!Next \/ UNCHANGED Abs!vars
  BY <1>5, SetterLocksImplements
<1>6. ASSUME NEW c \in Callers, WriteMode(c) PROVE Abs!Next \/ UNCHANGED Abs!vars
  BY <1>6, WriteModeImplements DEF Abs!Next
<1>7. ASSUME NEW c \in Callers, WriteSize(c) PROVE Abs!Next \/ UNCHANGED Abs!vars
  BY <1>7, WriteSizeImplements
<1>8. ASSUME NEW c \in Callers, SetterReturns(c) PROVE Abs!Next \/ UNCHANGED Abs!vars
  BY <1>8, SetterReturnsImplements DEF Abs!Next
<1>9. ASSUME NEW w \in Workers, StatfsArrives(w) PROVE Abs!Next \/ UNCHANGED Abs!vars
  BY <1>9, StatfsArrivesImplements DEF Abs!Next
<1>10. ASSUME NEW w \in Workers, StatvfsAnswers(w) PROVE Abs!Next \/ UNCHANGED Abs!vars
  BY <1>10, StatvfsAnswersImplements DEF Abs!Next
<1>11. ASSUME NEW w \in Workers, StatvfsFails(w) PROVE Abs!Next \/ UNCHANGED Abs!vars
  BY <1>11, StatvfsFailsImplements DEF Abs!Next
<1>12. ASSUME NEW w \in Workers, StatfsRefuses(w) PROVE Abs!Next \/ UNCHANGED Abs!vars
  BY <1>12, StatfsRefusesImplements DEF Abs!Next
<1>13. ASSUME NEW w \in Workers, StatfsLocks(w) PROVE Abs!Next \/ UNCHANGED Abs!vars
  BY <1>13, StatfsLocksImplements
<1>14. ASSUME NEW w \in Workers, StoreDisk(w) PROVE Abs!Next \/ UNCHANGED Abs!vars
  BY <1>14, StoreDiskImplements
<1>15. ASSUME NEW w \in Workers, StoreFree(w) PROVE Abs!Next \/ UNCHANGED Abs!vars
  BY <1>15, StoreFreeImplements
<1>16. ASSUME NEW w \in Workers, CopyModes(w) PROVE Abs!Next \/ UNCHANGED Abs!vars
  BY <1>16, CopyModesImplements
<1>17. ASSUME NEW w \in Workers, CopySizes(w) PROVE Abs!Next \/ UNCHANGED Abs!vars
  BY <1>17, CopySizesImplements DEF Abs!Next
<1>18. ASSUME NEW w \in Workers, StatfsReturns(w) PROVE Abs!Next \/ UNCHANGED Abs!vars
  BY <1>18, StatfsReturnsImplements DEF Abs!Next
<1>19. QED
  BY <1>1, <1>2, <1>3, <1>4, <1>5, <1>6, <1>7, <1>8, <1>9, <1>10, <1>11, <1>12, <1>13, <1>14, <1>15, <1>16, <1>17, <1>18 DEF Next, CallerSteps, WorkerSteps

\* The locked setters and the locked part of statfs behave as the atomic ones of
\* FakedFs, for any threads, requests and underlying file system.
THEOREM Refinement == Spec => Implements
<1>1. Init => Abs!Init
  BY InitImplements
<1>2. IInv /\ IInv' /\ [Next]_vars => [Abs!Next]_(Abs!vars)
  <2>1. CASE Next
    BY <2>1, StepImplements
  <2>2. CASE UNCHANGED vars
    BY <2>2 DEF vars, Abs!vars, AbsPhase, AbsFake
  <2>3. QED
    BY <2>1, <2>2
<1>3. QED
  BY <1>1, <1>2, Invariance, PTL DEF Spec, Implements, Abs!Spec

============================================================================
