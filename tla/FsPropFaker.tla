---------------------------- MODULE FsPropFaker ----------------------------
(***************************************************************************)
(* The life of fakers: FsPropFaker::create starts a thread that runs       *)
(* fuse_main, waits on a condition variable until the init handler of the  *)
(* file system has been called, and hands out the object; unmount sends    *)
(* SIGHUP to that thread; the destructor unmounts and joins.               *)
(*                                                                         *)
(* libfuse 2 is external and modelled by what fuse_main does to this code: *)
(* it mounts, installs its SIGHUP handler for the process and notes its    *)
(* session in ONE global variable, loops, and on the way out removes the   *)
(* handler before it unmounts.  Every faker is driven by a thread of the   *)
(* application.                                                            *)
(***************************************************************************)
EXTENDS Naturals

CONSTANTS
  Fakers,         \* the objects the application creates
  None,           \* no session
  MountMayFail,   \* TRUE: fuse_main may fail (no permission, a busy mount path)
  MkdtempMayFail, \* TRUE: the mount path is empty and /tmp may not be writable
  AppUnmounts,    \* TRUE: the application calls unmount() itself
  OthersUnmount   \* TRUE: somebody may run fusermount -u

ASSUME FakersAssumption ==
  /\ None \notin Fakers
  /\ {MountMayFail, MkdtempMayFail, AppUnmounts, OthersUnmount} \subseteq BOOLEAN

VARIABLES
  process,  \* "alive", "killed" by SIGHUP or "crashed": a null pointer, std::terminate
  app,      \* of every faker: where its application thread is
  fuse,     \* of every faker: where its m_refFsThread is
  cb,       \* of every faker: where the worker is that calls fuseInitialized
  started,  \* of every faker: m_bFileSystemStarted
  mutex,    \* of every faker: the owner of m_oFsStartedMutex
  sighup,   \* of every faker: a SIGHUP is pending for its thread
  exited,   \* of every faker: its fuse session is told to exit
  woken,    \* of every faker: the loop has seen that
  handler,  \* TRUE when SIGHUP has libfuse's handler instead of the default
  session   \* libfuse's global: the faker whose session the handler exits

vars == <<process, app, fuse, cb, started, mutex, sighup, exited, woken, handler, session>>
loopVars == <<exited, woken, handler, session>>

AppPcs == {"idle", "thread", "lock", "check", "enqueue", "waiting", "sleep", "ready",
           "join", "failed", "freed"}
FusePcs == {"none", "setup", "loop", "stopping", "unmounting", "ended"}
CbPcs == {"none", "lock", "set", "notify", "done"}

\* Every thread is where its code can be and the mutex has an owner or none.
TypeOK ==
  /\ process \in {"alive", "killed", "crashed"}
  /\ app \in [Fakers -> AppPcs]
  /\ fuse \in [Fakers -> FusePcs]
  /\ cb \in [Fakers -> CbPcs]
  /\ mutex \in [Fakers -> {"none", "app", "worker"}]
  /\ started \in [Fakers -> BOOLEAN] /\ sighup \in [Fakers -> BOOLEAN]
  /\ exited \in [Fakers -> BOOLEAN] /\ woken \in [Fakers -> BOOLEAN]
  /\ handler \in BOOLEAN
  /\ session \in Fakers \cup {None}

Init ==
  /\ process = "alive"
  /\ app = [f \in Fakers |-> "idle"]
  /\ fuse = [f \in Fakers |-> "none"]
  /\ cb = [f \in Fakers |-> "none"]
  /\ started = [f \in Fakers |-> FALSE]
  /\ mutex = [f \in Fakers |-> "none"]
  /\ sighup = [f \in Fakers |-> FALSE]
  /\ exited = [f \in Fakers |-> FALSE]
  /\ woken = [f \in Fakers |-> FALSE]
  /\ handler = FALSE
  /\ session = None

AppMoves(f, from, to) ==
  process = "alive" /\ app[f] = from /\ app' = [app EXCEPT ![f] = to]
FuseMoves(f, from, to) ==
  process = "alive" /\ fuse[f] = from /\ fuse' = [fuse EXCEPT ![f] = to]
CbMoves(f, from, to) ==
  process = "alive" /\ cb[f] = from /\ cb' = [cb EXCEPT ![f] = to]

Locks(f, owner) == mutex[f] = "none" /\ mutex' = [mutex EXCEPT ![f] = owner]
Unlocks(f)      == mutex' = [mutex EXCEPT ![f] = "none"]

-----------------------------------------------------------------------------
\* The application's thread: create.
\* Running as root, a folder that is missing, a name that is too long...
InitFails(f) ==
  /\ AppMoves(f, "idle", "failed")
  /\ UNCHANGED <<process, fuse, cb, started, mutex, sighup, loopVars>>

\* The error message is built from the null pointer that mkdtemp returned.
MkdtempFails(f) ==
  /\ process = "alive" /\ app[f] = "idle" /\ MkdtempMayFail
  /\ process' = "crashed"
  /\ UNCHANGED <<app, fuse, cb, started, mutex, sighup, loopVars>>

InitSucceeds(f) ==
  /\ AppMoves(f, "idle", "thread")
  /\ UNCHANGED <<process, fuse, cb, started, mutex, sighup, loopVars>>

\* The log file cannot be opened.
CreateInstanceFails(f) ==
  /\ AppMoves(f, "thread", "failed")
  /\ UNCHANGED <<process, fuse, cb, started, mutex, sighup, loopVars>>

StartsThread(f) ==
  /\ AppMoves(f, "thread", "lock")
  /\ fuse' = [fuse EXCEPT ![f] = "setup"]
  /\ UNCHANGED <<process, cb, started, mutex, sighup, loopVars>>

\* The system has no thread left: the exception of std::thread leaves a noexcept function.
ThreadFails(f) ==
  /\ process = "alive" /\ app[f] = "thread"
  /\ process' = "crashed"
  /\ UNCHANGED <<app, fuse, cb, started, mutex, sighup, loopVars>>

WaitLocks(f) ==
  /\ AppMoves(f, "lock", "check")
  /\ Locks(f, "app")
  /\ UNCHANGED <<process, fuse, cb, started, sighup, loopVars>>

\* A variant that takes the first wake-up for the event.
WaitEndsUnchecked(f) ==
  /\ AppMoves(f, "check", "sleep")
  /\ Unlocks(f)
  /\ UNCHANGED <<process, fuse, cb, started, sighup, loopVars>>

WaitEnds(f) ==
  /\ AppMoves(f, "check", "sleep")
  /\ started[f]
  /\ Unlocks(f)
  /\ UNCHANGED <<process, fuse, cb, started, sighup, loopVars>>

WaitGoesOn(f) ==
  /\ AppMoves(f, "check", "enqueue")
  /\ ~started[f]
  /\ UNCHANGED <<process, fuse, cb, started, mutex, sighup, loopVars>>

\* condition_variable::wait enters the wait set and unlocks in one step.
WaitEnqueues(f) ==
  /\ AppMoves(f, "enqueue", "waiting")
  /\ Unlocks(f)
  /\ UNCHANGED <<process, fuse, cb, started, sighup, loopVars>>

WakesSpuriously(f) ==
  /\ AppMoves(f, "waiting", "lock")
  /\ UNCHANGED <<process, fuse, cb, started, mutex, sighup, loopVars>>

CreateReturnsObject(f) ==
  /\ AppMoves(f, "sleep", "ready")
  /\ UNCHANGED <<process, fuse, cb, started, mutex, sighup, loopVars>>

-----------------------------------------------------------------------------
\* pthread_kill reaches a thread until it has ended; after that it has no effect.
Unmounts(f) == sighup' = [sighup EXCEPT ![f] = fuse[f] # "ended"]

AppCallsUnmount(f) ==
  /\ process = "alive" /\ app[f] = "ready" /\ AppUnmounts
  /\ Unmounts(f)
  /\ UNCHANGED <<process, app, fuse, cb, started, mutex, loopVars>>

\* A variant of the destructor that only joins.
DestructorJoinsOnly(f) ==
  /\ AppMoves(f, "ready", "join")
  /\ UNCHANGED <<process, fuse, cb, started, mutex, sighup, loopVars>>

DestructorUnmounts(f) ==
  /\ AppMoves(f, "ready", "join")
  /\ Unmounts(f)
  /\ UNCHANGED <<process, fuse, cb, started, mutex, loopVars>>

\* A variant that detaches the thread instead of joining it.
DestructorDetaches(f) ==
  /\ AppMoves(f, "join", "freed")
  /\ UNCHANGED <<process, fuse, cb, started, mutex, sighup, loopVars>>

DestructorJoins(f) ==
  /\ AppMoves(f, "join", "freed")
  /\ fuse[f] = "ended"
  /\ UNCHANGED <<process, fuse, cb, started, mutex, sighup, loopVars>>

-----------------------------------------------------------------------------
\* The fuse thread: fuse_main.  Its result is ignored.
MountFails(f) ==
  /\ FuseMoves(f, "setup", "ended")
  /\ MountMayFail
  /\ UNCHANGED <<process, app, cb, started, mutex, sighup, loopVars>>

MountSucceeds(f) ==
  /\ FuseMoves(f, "setup", "loop")
  /\ handler' = TRUE
  /\ session' = f
  /\ UNCHANGED <<process, app, cb, started, mutex, sighup, exited, woken>>

\* SIGHUP arrives at the thread of f, by default or in libfuse's handler, which
\* exits the session of the last mount, whoever was sent the signal.
SighupKills(f) ==
  /\ process = "alive" /\ sighup[f] /\ fuse[f] \notin {"none", "ended"} /\ ~handler
  /\ process' = "killed"
  /\ UNCHANGED <<app, fuse, cb, started, mutex, sighup, loopVars>>

SighupHandled(f) ==
  /\ process = "alive" /\ sighup[f] /\ fuse[f] \notin {"none", "ended"} /\ handler
  /\ sighup' = [sighup EXCEPT ![f] = FALSE]
  /\ exited' = [g \in Fakers |-> exited[g] \/ g = session]
  /\ woken' = [woken EXCEPT ![f] = exited'[f]]
  /\ UNCHANGED <<process, app, fuse, cb, started, mutex, handler, session>>

\* A request ends: its worker sees that the session is to exit and tells the loop.
WorkerSeesExit(f) ==
  /\ process = "alive" /\ fuse[f] = "loop" /\ exited[f]
  /\ woken' = [woken EXCEPT ![f] = TRUE]
  /\ UNCHANGED <<process, app, fuse, cb, started, mutex, sighup, exited, handler, session>>

OtherUnmounts(f) ==
  /\ process = "alive" /\ fuse[f] = "loop" /\ OthersUnmount
  /\ exited' = [exited EXCEPT ![f] = TRUE]
  /\ woken' = [woken EXCEPT ![f] = TRUE]
  /\ UNCHANGED <<process, app, fuse, cb, started, mutex, sighup, handler, session>>

\* The loop joins its workers first.
LoopEnds(f) ==
  /\ FuseMoves(f, "loop", "stopping")
  /\ woken[f] /\ cb[f] \in {"none", "done"}
  /\ UNCHANGED <<process, app, cb, started, mutex, sighup, loopVars>>

RemovesHandler(f) ==
  /\ FuseMoves(f, "stopping", "unmounting")
  /\ handler' = FALSE
  /\ session' = IF session = f THEN None ELSE session
  /\ UNCHANGED <<process, app, cb, started, mutex, sighup, exited, woken>>

ThreadEnds(f) ==
  /\ FuseMoves(f, "unmounting", "ended")
  /\ sighup' = [sighup EXCEPT ![f] = FALSE]
  /\ UNCHANGED <<process, app, cb, started, mutex, loopVars>>

-----------------------------------------------------------------------------
\* A worker: the init handler calls fuseInitialized.
InitHandlerCalls(f) ==
  /\ CbMoves(f, "none", "lock")
  /\ fuse[f] = "loop" /\ ~exited[f]
  /\ UNCHANGED <<process, app, fuse, started, mutex, sighup, loopVars>>

\* A variant that sets the flag without the mutex.
CallbackDoesNotLock(f) ==
  /\ CbMoves(f, "lock", "set")
  /\ UNCHANGED <<process, app, fuse, started, mutex, sighup, loopVars>>

CallbackLocks(f) ==
  /\ CbMoves(f, "lock", "set")
  /\ Locks(f, "worker")
  /\ UNCHANGED <<process, app, fuse, started, sighup, loopVars>>

CallbackSets(f) ==
  /\ CbMoves(f, "set", "notify")
  /\ started' = [started EXCEPT ![f] = TRUE]
  /\ Unlocks(f)
  /\ UNCHANGED <<process, app, fuse, sighup, loopVars>>

CallbackNotifies(f) ==
  /\ CbMoves(f, "notify", "done")
  /\ app' = [app EXCEPT ![f] = IF @ = "waiting" THEN "lock" ELSE @]
  /\ UNCHANGED <<process, fuse, started, mutex, sighup, loopVars>>

-----------------------------------------------------------------------------
\* What the threads do on their own once they run.
CreateSteps(f) ==
  \/ CreateInstanceFails(f) \/ StartsThread(f) \/ WaitLocks(f) \/ WaitEnds(f)
  \/ WaitGoesOn(f) \/ WaitEnqueues(f) \/ CreateReturnsObject(f)
FuseSteps(f) ==
  \/ MountFails(f) \/ MountSucceeds(f) \/ SighupKills(f) \/ SighupHandled(f)
  \/ LoopEnds(f) \/ RemovesHandler(f) \/ ThreadEnds(f)
CallbackSteps(f) ==
  \/ InitHandlerCalls(f) \/ CallbackLocks(f) \/ CallbackSets(f) \/ CallbackNotifies(f)

Next ==
  \E f \in Fakers :
    \/ InitFails(f) \/ MkdtempFails(f) \/ InitSucceeds(f) \/ ThreadFails(f) \/ CreateSteps(f)
    \/ WakesSpuriously(f) \/ AppCallsUnmount(f)
    \/ DestructorUnmounts(f) \/ DestructorJoins(f)
    \/ FuseSteps(f) \/ WorkerSeesExit(f) \/ OtherUnmounts(f)
    \/ CallbackSteps(f)

Spec == Init /\ [][Next]_vars

\* Every started thread runs on, and the kernel sends the init request of a mount.
\* The application, other programs and spurious wake-ups promise nothing.
Fairness ==
  \A f \in Fakers :
    /\ WF_vars(CreateSteps(f)) /\ WF_vars(DestructorJoins(f))
    /\ WF_vars(FuseSteps(f)) /\ WF_vars(CallbackSteps(f))

FairSpec == Spec /\ Fairness

-----------------------------------------------------------------------------
\* Once the destructor has freed a faker no thread runs in it: neither the fuse
\* thread nor a worker that is about to lock its mutex or notify its condition.
NoUseAfterFree ==
  \A f \in Fakers :
    app[f] \in {"failed", "freed"} => fuse[f] \in {"none", "ended"} /\ cb[f] \in {"none", "done"}

\* create hands out a faker only after the init handler of its file system ran.
ReadyIsMounted ==
  \A f \in Fakers :
    app[f] \in {"sleep", "ready", "join", "freed"} =>
      started[f] /\ cb[f] \in {"notify", "done"} /\ fuse[f] \notin {"none", "setup"}

\* Nobody goes to sleep, or sleeps on, after the last notification: the wait and
\* the callback agree on m_oFsStartedMutex.
NoLostWakeup ==
  \A f \in Fakers : /\ app[f] = "enqueue" => ~started[f]
                    /\ app[f] = "waiting" => cb[f] # "done"

\* The inductive invariant behind the three: who holds the mutex, how far the
\* thread and the callback of a faker are when its application thread is there.
MutexInv ==
  \A f \in Fakers : /\ mutex[f] = "app" <=> app[f] \in {"check", "enqueue"}
                    /\ mutex[f] = "worker" <=> cb[f] = "set"
StageInv ==
  \A f \in Fakers : /\ app[f] \in {"idle", "thread", "failed"} <=> fuse[f] = "none"
                    /\ fuse[f] \in {"none", "setup"} => cb[f] = "none"
                    /\ cb[f] \notin {"none", "done"} => fuse[f] = "loop"
                    /\ started[f] <=> cb[f] \in {"notify", "done"}
                    /\ app[f] \in {"sleep", "ready", "join", "freed"} => started[f]
                    /\ app[f] = "freed" => fuse[f] = "ended"
IInv == TypeOK /\ MutexInv /\ StageInv /\ NoLostWakeup

\* The documentation of unmount: it stops the fuse thread, not the process.
ProcessSurvives == process # "killed"

\* Spurious wake-ups, which may keep the mutex from the callback, come to an end.
WakeupsEnd == <>[][\A f \in Fakers : ~WakesSpuriously(f)]_vars

\* The documentation of create: it returns an object or an error.
CreateReturns ==
  WakeupsEnd =>
    \A f \in Fakers : app[f] = "thread" ~> (app[f] \in {"ready", "failed"} \/ process # "alive")

-----------------------------------------------------------------------------
\* No two file systems are mounted at a time: libfuse handles one SIGHUP only.
Alone ==
  \A f, g \in Fakers : f # g => fuse[f] \in {"none", "ended"} \/ fuse[g] \in {"none", "ended"}

\* A fuse thread that still serves its file system never meets SIGHUP without
\* libfuse's handler: nobody can call unmount or the destructor that early, and
\* no faker before it has left its signal or its handler behind.
SignalFindsHandler ==
  \A f \in Fakers : (sighup[f] /\ fuse[f] \in {"setup", "loop", "stopping"}) => handler
SignalsAreHandled == []Alone => []SignalFindsHandler

\* create returns, unless the file system is gone before it was initialised, which
\* is what CreateReturns shows.
GoneTooEarly(f) == fuse[f] = "ended" /\ ~started[f]
CreateEnds ==
  ([]Alone /\ WakeupsEnd) =>
    \A f \in Fakers :
      app[f] = "thread" ~> (app[f] \in {"ready", "failed"} \/ process # "alive" \/ GoneTooEarly(f))

\* The destructor returns, whatever became of the mount meanwhile.
DestructorReturns ==
  []Alone =>
    \A f \in Fakers : app[f] = "join" ~> (app[f] = "freed" \/ process # "alive")
=============================================================================
