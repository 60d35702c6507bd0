------------------------------- MODULE OverFs -------------------------------
(***************************************************************************)
(* The size faking of OverFs, at the grain at which its threads interleave:*)
(* the setters that the application's threads call and the statfs handler  *)
(* that the worker threads of libfuse run, over the members that           *)
(* m_oFsMutex protects.  Every access to a shared member is a step.        *)
(***************************************************************************)
EXTENDS FakeSizes

CONSTANTS
  Callers,    \* the application's threads
  Workers,    \* the threads of the fuse loop
  NoOne,      \* the owner of a free mutex
  RealStats,  \* what statvfs may say of the underlying file system
  Errnos,     \* the errors statvfs may fail with
  Requests,   \* the setter calls the application makes
  AssertsOn,  \* TRUE in a Debug build: assert() aborts
  GetsReal    \* TRUE when the application calls getReal...Size...

Threads == Callers \cup Workers

ASSUME OverFsAssumption ==
  /\ Callers \cap Workers = {}
  /\ NoOne \notin Threads
  /\ RealStats \subseteq {s \in Stat : Plausible(s)}
  /\ Errnos \subseteq 1 .. IntMax
  /\ Requests \subseteq Request
  /\ AssertsOn \in BOOLEAN
  /\ GetsReal \in BOOLEAN

EPERM == 1

VARIABLES
  real,    \* what statvfs says of the underlying file system
  fake,    \* m_bUseFakeFixed{Disk,Free}Size and m_nFake{Disk,Free}SizeInBlocks
  cache,   \* m_nRealDiskSizeInBlocks and m_nRealFreeSizeInBlocks
  mutex,   \* the owner of m_oFsMutex, or NoOne
  status,  \* of the process: "running", "aborted" (assert) or "segfault"
  pc,      \* of every thread: the next step of the setter or the handler
  order,   \* of every caller: the arguments of its setter
  ret,     \* of every worker: nRetStat
  stat,    \* of every worker: the buffer p0StatFs
  copy,    \* of every worker: the settings copied under the lock
  answer   \* of every worker: the return value and the buffer at the return

vars == <<real, fake, cache, mutex, status, pc, order, ret, stat, copy, answer>>
locals == <<ret, stat, copy, answer>>

CallerPcs == {"idle", "lock", "mode", "size", "return"}
WorkerPcs == {"idle", "statvfs", "check", "storeDisk", "storeFree", "modes",
              "sizes", "reply"}

PcOK ==
  /\ pc \in [Threads -> CallerPcs \cup WorkerPcs]
  /\ \A c \in Callers : pc[c] \in CallerPcs
  /\ \A w \in Workers : pc[w] \in WorkerPcs

\* Every member a worker holds, every setting and every answer is of its C++ type.
TypeOK ==
  /\ real \in RealStats
  /\ fake \in [Dims -> Size]
  /\ cache \in [Dims -> -1 .. IntMax]
  /\ mutex \in Threads \cup {NoOne}
  /\ status \in {"running", "aborted", "segfault"}
  /\ PcOK
  /\ order \in [Callers -> [dim : Dims, fixed : BOOLEAN, n : Int64]]
  /\ ret \in [Workers -> -IntMax .. 0]
  /\ stat \in [Workers -> RealStats \cup {ZeroStat}]
  /\ copy \in [Workers -> [Dims -> Size]]
  /\ answer \in [Workers -> [ret : {-1, 0}, stat : Stat]]

\* The members are as constructed and no thread is in a call.
Fresh ==
  /\ fake = NoFake
  /\ cache = [d \in Dims |-> -1]
  /\ mutex = NoOne
  /\ pc = [t \in Threads |-> "idle"]
  /\ order = [c \in Callers |-> NoCall]
  /\ ret = [w \in Workers |-> 0]
  /\ stat = [w \in Workers |-> ZeroStat]
  /\ copy = [w \in Workers |-> NoFake]
  /\ answer = [w \in Workers |-> Error]

Init == real \in RealStats /\ status = "running" /\ Fresh

-----------------------------------------------------------------------------
Moves(t, from, to) ==
  /\ status = "running"
  /\ pc[t] = from
  /\ pc' = [pc EXCEPT ![t] = to]

\* The process dies: its members and its calls are gone with it.
Dies(how) ==
  /\ status = "running"
  /\ status' = how
  /\ fake' = NoFake
  /\ cache' = [d \in Dims |-> -1]
  /\ mutex' = NoOne
  /\ pc' = [t \in Threads |-> "idle"]
  /\ order' = [c \in Callers |-> NoCall]
  /\ ret' = [w \in Workers |-> 0]
  /\ stat' = [w \in Workers |-> ZeroStat]
  /\ copy' = [w \in Workers |-> NoFake]
  /\ answer' = [w \in Workers |-> Error]
  /\ UNCHANGED real

\* Variants: a lock that does not wait, a lock_guard that never goes out of scope.
LocksOverOwner(t) == mutex' = t
UnlocksNever(t)   == mutex = t /\ UNCHANGED mutex

\* std::lock_guard: taken when free, released at the end of the block.
Locks(t)   == mutex = NoOne /\ mutex' = t
Unlocks(t) == mutex = t /\ mutex' = NoOne

\* Another program fills, empties or replaces the underlying file system.
DiskChanges ==
  /\ status = "running"
  /\ real' \in RealStats
  /\ UNCHANGED <<fake, cache, mutex, status, pc, order, locals>>

-----------------------------------------------------------------------------
\* A setter of FsPropFaker is called: the blocks are computed, and a fixed size
\* that is not positive is caught by the assert of a Debug build only.
CallSetter(c) ==
  /\ Moves(c, "idle", "lock")
  /\ \E r \in Requests :
       /\ AssertsOn => Legal(Order(r))
       /\ order' = [order EXCEPT ![c] = Order(r)]
  /\ UNCHANGED <<real, fake, cache, mutex, status, locals>>

AssertFails(c) ==
  /\ pc[c] = "idle" /\ AssertsOn
  /\ \E r \in Requests : ~Legal(Order(r))
  /\ Dies("aborted")

\* getReal...Size...: getFullPath asks libfuse for the context of the calling
\* thread, which only the workers have; the application's thread dereferences null.
CallGetReal(c) ==
  /\ pc[c] = "idle" /\ GetsReal
  /\ Dies("segfault")

SetterLocks(c) ==
  /\ Moves(c, "lock", "mode")
  /\ Locks(c)
  /\ UNCHANGED <<real, fake, cache, status, order, locals>>

WriteMode(c) ==
  /\ Moves(c, "mode", "size")
  /\ fake' = [fake EXCEPT ![order[c].dim].fixed = order[c].fixed]
  /\ UNCHANGED <<real, cache, mutex, status, order, locals>>

WriteSize(c) ==
  /\ Moves(c, "size", "return")
  /\ fake' = [fake EXCEPT ![order[c].dim].n = order[c].n]
  /\ Unlocks(c)
  /\ UNCHANGED <<real, cache, status, order, locals>>

SetterReturns(c) ==
  /\ Moves(c, "return", "idle")
  /\ order' = [order EXCEPT ![c] = NoCall]
  /\ UNCHANGED <<real, fake, cache, mutex, status, locals>>

-----------------------------------------------------------------------------
\* A statfs of the mount arrives; libfuse hands over a buffer of zeroes.
StatfsArrives(w) ==
  /\ Moves(w, "idle", "statvfs")
  /\ UNCHANGED <<real, fake, cache, mutex, status, order, locals>>

StatvfsAnswers(w) ==
  /\ Moves(w, "statvfs", "check")
  /\ ret' = [ret EXCEPT ![w] = 0]
  /\ stat' = [stat EXCEPT ![w] = real]
  /\ UNCHANGED <<real, fake, cache, mutex, status, order, copy, answer>>

\* log_syscall turns the -1 of a failed call into -errno.
StatvfsFails(w) ==
  /\ Moves(w, "statvfs", "check")
  /\ \E e \in Errnos : ret' = [ret EXCEPT ![w] = -e]
  /\ UNCHANGED <<real, fake, cache, mutex, status, order, stat, copy, answer>>

\* A variant that looks at the block size of a call that has succeeded only.
RefusedIfAnswered(w) == ret[w] = -EPERM \/ (ret[w] = 0 /\ stat[w].frsize # BlockSize)

\* nRetStat == -1 holds for EPERM alone; any other failure is stopped only by
\* the fragment size of the zeroed buffer.
Refused(w) == ret[w] = -EPERM \/ stat[w].frsize # BlockSize

StatfsRefuses(w) ==
  /\ Moves(w, "check", "reply")
  /\ Refused(w)
  /\ answer' = [answer EXCEPT ![w] = Error]
  /\ UNCHANGED <<real, fake, cache, mutex, status, order, ret, stat, copy>>

StatfsLocks(w) ==
  /\ Moves(w, "check", "storeDisk")
  /\ ~Refused(w)
  /\ Locks(w)
  /\ UNCHANGED <<real, fake, cache, status, order, locals>>

StoreDisk(w) ==
  /\ Moves(w, "storeDisk", "storeFree")
  /\ cache' = [cache EXCEPT !["disk"] = stat[w].blocks]
  /\ UNCHANGED <<real, fake, mutex, status, order, locals>>

\* A variant that asks for the free size by itself, as getRealFreeSizeInBlocks does.
StoreFreeOfNow(w) ==
  /\ Moves(w, "storeFree", "modes")
  /\ cache' = [cache EXCEPT !["free"] = real.bavail]
  /\ UNCHANGED <<real, fake, mutex, status, order, locals>>

StoreFree(w) ==
  /\ Moves(w, "storeFree", "modes")
  /\ cache' = [cache EXCEPT !["free"] = stat[w].bavail]
  /\ UNCHANGED <<real, fake, mutex, status, order, locals>>

CopyModes(w) ==
  /\ Moves(w, "modes", "sizes")
  /\ copy' = [copy EXCEPT ![w] = [d \in Dims |-> [@[d] EXCEPT !.fixed = fake[d].fixed]]]
  /\ UNCHANGED <<real, fake, cache, mutex, status, order, ret, stat, answer>>

\* With the mutex released statfs computes the answer from its copies alone.
CopySizes(w) ==
  /\ Moves(w, "sizes", "reply")
  /\ copy' = [copy EXCEPT ![w] = [d \in Dims |-> [@[d] EXCEPT !.n = fake[d].n]]]
  /\ answer' = [answer EXCEPT ![w] = [ret |-> ret[w], stat |-> FakedStat(stat[w], copy'[w])]]
  /\ Unlocks(w)
  /\ UNCHANGED <<real, fake, cache, status, order, ret, stat>>

StatfsReturns(w) ==
  /\ Moves(w, "reply", "idle")
  /\ ret' = [ret EXCEPT ![w] = 0]
  /\ stat' = [stat EXCEPT ![w] = ZeroStat]
  /\ copy' = [copy EXCEPT ![w] = NoFake]
  /\ answer' = [answer EXCEPT ![w] = Error]
  /\ UNCHANGED <<real, fake, cache, mutex, status, order>>

-----------------------------------------------------------------------------
\* What a thread does once it has entered a setter or the handler.
CallerSteps(c) == SetterLocks(c) \/ WriteMode(c) \/ WriteSize(c) \/ SetterReturns(c)
WorkerSteps(w) ==
  \/ StatvfsAnswers(w) \/ StatvfsFails(w) \/ StatfsRefuses(w)
  \/ StatfsLocks(w) \/ StoreDisk(w) \/ StoreFree(w) \/ CopyModes(w) \/ CopySizes(w)
  \/ StatfsReturns(w)

Next ==
  \/ DiskChanges
  \/ \E c \in Callers : CallSetter(c) \/ AssertFails(c) \/ CallGetReal(c) \/ CallerSteps(c)
  \/ \E w \in Workers : StatfsArrives(w) \/ WorkerSteps(w)

Spec == Init /\ [][Next]_vars

\* The scheduler runs every thread that can run; std::mutex promises no more
\* than that, so a thread may be overtaken at the lock any number of times.
Fairness ==
  /\ \A c \in Callers : WF_vars(CallerSteps(c))
  /\ \A w \in Workers : WF_vars(WorkerSteps(w))

FairSpec == Spec /\ Fairness

-----------------------------------------------------------------------------
\* What the m_nReal... members hold is unset, or from one single answer of a file
\* system with the block size that the sizes are counted in.
CacheOfOneAnswer ==
  \/ cache = [d \in Dims |-> -1]
  \/ \E s \in RealStats :
       s.frsize = BlockSize /\ cache["disk"] = s.blocks /\ cache["free"] = s.bavail

\* The cached real sizes, whenever no thread is at them, were never those of two
\* answers, between which another program has filled or emptied the disk.
CacheCoherent == mutex = NoOne => CacheOfOneAnswer

\* A statfs that fakes the free size never reports more free than total blocks,
\* whatever settings it met (the clamps of OverFs::statfs).
FreeFits ==
  \A w \in Workers :
    (pc[w] = "reply" /\ answer[w].ret = 0 /\ copy[w]["free"] # NoFake["free"])
      => answer[w].stat.bavail <= answer[w].stat.blocks

\* A worker whose statvfs failed, or met blocks of another size, never goes on
\* with the buffer: it stores nothing, computes nothing and answers with an error.
NoStaleBuffer ==
  \A w \in Workers :
    (ret[w] # 0 \/ stat[w].frsize # BlockSize) =>
      /\ pc[w] \in {"idle", "statvfs", "check", "reply"}
      /\ answer[w] = Error

\* A thread whose rivals leave the lock alone in the end gets every call through
\* (it is out of its calls again and again, since a call is left only at its end).
Answered ==
  \A t \in Threads :
    (<>[](\A u \in Threads \ {t} : pc[u] = "idle"))
      => []<>(pc[t] = "idle")

-----------------------------------------------------------------------------
\* The inductive invariant: why the properties hold.
Critical == {"mode", "size", "storeDisk", "storeFree", "modes", "sizes"}

\* Only the owner of the mutex is between lock and unlock.
LockInv == \A t \in Threads : pc[t] \in Critical <=> mutex = t

\* A worker past the check holds an answer of the block size it was made for.
StatInv ==
  \A w \in Workers :
    /\ pc[w] \in {"idle", "statvfs"} => stat[w] = ZeroStat
    /\ pc[w] = "check" => (ret[w] = 0 \/ stat[w] = ZeroStat)
    /\ pc[w] \in {"storeDisk", "storeFree", "modes", "sizes"} =>
         (ret[w] = 0 /\ stat[w] \in RealStats /\ stat[w].frsize = BlockSize)

\* The pair is torn only while its writer is between the two stores.
CacheInv ==
  /\ \A w \in Workers : pc[w] = "storeFree" => cache["disk"] = stat[w].blocks
  /\ (\A w \in Workers : pc[w] # "storeFree") => CacheOfOneAnswer

\* The modes that a worker has copied, and the one that a setter has written,
\* are in force while it holds the lock.
CopyInv ==
  /\ \A w \in Workers : pc[w] = "sizes" =>
       \A d \in Dims : copy[w][d].fixed = fake[d].fixed
  /\ \A c \in Callers : pc[c] = "size" => fake[order[c].dim].fixed = order[c].fixed

\* A worker has no answer before it computes one, and then it is FakedStat's.
AnswerInv ==
  \A w \in Workers :
    /\ pc[w] # "reply" => answer[w] = Error
    /\ answer[w] # Error =>
         /\ ret[w] = 0 /\ stat[w] \in RealStats /\ stat[w].frsize = BlockSize
         /\ answer[w] = [ret |-> 0, stat |-> FakedStat(stat[w], copy[w])]

\* The contract of the setters is kept, by its callers or by the assert.
ContractKept == AssertsOn \/ \A r \in Requests : Legal(Order(r))

\* Under the contract an illegal pair is seen only by the setter that writes it.
LegalInv ==
  ContractKept =>
    /\ \A c \in Callers : Legal(order[c])
    /\ \A d \in Dims : Legal(fake[d]) \/ \E c \in Callers : pc[c] = "size" /\ order[c].dim = d
    /\ \A w \in Workers : answer[w] # Error => \A d \in Dims : Legal(copy[w][d])

IInv ==
  TypeOK /\ LockInv /\ StatInv /\ CacheInv /\ CopyInv /\ AnswerInv /\ LegalInv

-----------------------------------------------------------------------------
\* The refinement: a setter takes effect when it writes the mode, the settings
\* of a statfs are those in force when it reads the sizes.
CallerPhase == [idle |-> "idle", lock |-> "called", mode |-> "called", size |-> "done",
                return |-> "done"]
WorkerPhase == [idle |-> "idle", statvfs |-> "asked", check |-> "sampled",
                storeDisk |-> "sampled", storeFree |-> "sampled", modes |-> "sampled",
                sizes |-> "sampled", reply |-> "decided"]
AbsPhase == [t \in Threads |-> IF t \in Callers THEN CallerPhase[pc[t]] ELSE WorkerPhase[pc[t]]]

AbsFake ==
  [d \in Dims |->
     IF mutex \in Callers /\ pc[mutex] = "size" /\ order[mutex].dim = d
     THEN [fixed |-> order[mutex].fixed, n |-> order[mutex].n]
     ELSE fake[d]]

Abs == INSTANCE FakedFs WITH
         fake <- AbsFake, up <- status = "running",
         phase <- AbsPhase,
         sample <- stat

\* The locked code behaves as if every setter were one step and every statfs
\* looked at the settings once (the two blocks under m_oFsMutex).
Implements == Abs!Spec
=============================================================================
