# A formal model of fspropfaker

fspropfaker is a C++ library that mounts a folder again through libfuse 2 and
lies about the size of the file system underneath: an application creates an
`FsPropFaker`, sets fake disk and free sizes, and every program that calls
`statfs` on the mount sees them, while all other requests are passed through.
This directory holds TLA+ models of that library and of the scripts that check,
build, install, package and release it, the TLC configurations that check them, and proofs for TLAPS.

    tlc -config OverFs_all.cfg MCOverFs.tla        # one run, see "Runs"
    tlapm OverFsProofs.tla                         # the proofs of one module

## Inventory

| Component | State it keeps | Operations | Talks to |
|---|---|---|---|
| `FsPropFaker` (`src/libfspropfaker/src/fspropfaker.cc`) | the fuse thread `m_refFsThread`, `m_bFileSystemStarted` with its mutex and condition variable, the block size | `create`, `fuseInitialized`, `unmount`, the destructor, the size setters and getters | starts a thread that runs `OverFs::run` (fuse_main); is called back by the init handler; calls the setters of `OverFs` |
| `OverFs` sizes (`overfs.cc`, `overfs.h`) | four members of settings and two cached real sizes, under `m_oFsMutex` | four setters, four getters, the `statfs` handler | `::statvfs` of the underlying folder |
| `OverFs` handlers (`overfs.cc`) | descriptors and `DIR` pointers in `fuse_file_info::fh`; `errno` of each worker | some thirty handlers | one system call each, `FsLogger` |
| `FsLogger` (`fslogger.cc`) | the log file | `log_msg`, `log_retstat`, `log_error`, `log_syscall`, dumps | reads and disturbs `errno` |
| `fsutil` (`fsutil.cc`) | none | path and folder checks of `init` | the operating system |
| `Fusepp`, libfuse 2 | session, handlers, workers, directory buffers | external | signals, threads, the kernel |
| install / uninstall scripts | CMake's cache, the build folder, installed files, the loader's cache | configure, make, install, ldconfig, rm | cmake, make, sudo |
| `testall.py`, `frag_checktidy.py` | the above, `bTidyDone` | a matrix of uninstall, install, test, clang-tidy | the install scripts |
| package builds (`debian.orig/rules`, `PKGBUILD.in`, `pk_install`, `dd_install`) | the above, the files below `DESTDIR` | clean, configure, build, install into a package | the install scripts; called by dh and makepkg |
| release scripts (`frag_debian_create.py`, `frag_arch_create.py`, `frag_sourcepackage.py`) | archives in the parent folder, the build folder with source, packages and dist archive, the arch folder, temporary files | read CHANGES, pack, unpack, transform templates, build, write the install scripts of the dist archive | tar, cmake, dpkg-buildpackage; `debian_create.py` calls `sourcepackage.py` |
| `checkcode.py` | the current folder | a walk over the sources | pylint3; called by `testall.py` |
| CMake files, tests | none that outlives a run | | |

What is hard in this code, with the properties that speak of it (each is listed
at its line under "hazards" in PROJECT.json):

* *Three threads per faker.* The thread in `create` waits for a callback that a
  worker of libfuse makes, in a thread the faker owns. The flag, the mutex and the
  notification have to agree (`NoLostWakeup`, `CreateEnds`, `CreateReturns`); the notification is
  given after the unlock, when the creator may be done and destroying the
  condition variable (`NoUseAfterFree`); a faker must not be handed out
  before libfuse's signal handler is in place (`ReadyIsMounted`).
* *A signal as a message.* `unmount` sends SIGHUP to a thread; what that does
  depends on the process-wide handler and on libfuse's one global session
  (`SignalsAreHandled`, `ProcessSurvives`, `DestructorReturns`).
* *Settings in two members*, written and read under one mutex by application
  threads and workers (`Implements`, `CacheCoherent`, `Answered`).
* *Arithmetic at the edges*: rounding of differences, negative and overflowing
  sums, free above total (`RoundsAwayFromZero`, `FreeWithinDisk`, `ReportsWhatIsDocumented`, `ReserveKept`, `FreeFits`).
* *A failed call half seen*: `nRetStat == -1` in `statfs` recognises one error only, and the
  zeroed buffer has to give the others away (`NoStaleBuffer`).
* *errno as an implicit argument* between a system call and the log
  (`ErrorExplained`, `NoFalseError`).
* *Raw descriptors in handles* while workers open and close others
  (`HandleKeepsObject`, `OneOwner`), and a directory stream whose null pointer has two
  meanings (`WholeDirectory`).
* *Scripts over state that outlives them*: options that stick in a cache, scripts
  that stop half way, two scripts that must agree on a list of files
  (`UninstallRemovesAll`, `InstalledAsAsked`, `LoaderKnows`, `TestsWhatIsDemanded`, `TidiedOnce`),
  packages made in a tree that was built for something else, on a machine that must not
  change (`PackageIsComplete`, `PackagingStaysBelow`).
* *Releases made in several calls*: a call stops at any step and is repeated, in part, with
  other options, on an edited tree (`OneRelease`, `CreatesWhatIsAsked`, `NeverOverwritten`, `LeavesNothing`,
  `DistInstalls`), with a version read by a loop that counts entries (`ReturnsAnEntry`, `RefusesWhatIsFaulty`).
* *A walk by relative steps* over a tree (`FindsEveryFault`, `StaysOnPath`).

## Modules

    FakeSizes            arithmetic, pure operators
      MCFakeSizes        its inputs, the reference definitions
      FakeSizesProofs    for every width, block size and input (extends MCFakeSizes)
      FakedFs            what the size faking promises (abstract)
      OverFs             setters and statfs at the grain of memory accesses
        MCOverFs         the instance  (OverFs instantiates FakedFs: Implements)
        OverFsProofs     invariance, refinement
    FsPropFaker          life cycle, handshake, signal
      FsPropFakerProofs  safety and SIGHUP, for any number of fakers
    PassThrough          the other handlers, the log, errno, descriptors
      MCPassThrough      symmetry
      PassThroughProofs  descriptors, handles and results, for any number of workers
    InstallScripts       configure/build/install/uninstall/testall/packages
      MCInstallScripts   the sets of calls
      InstallScriptsProofs  installs, uninstalls, packages and testall.py, for any calls
    Changes              the reader of the CHANGES file
      ChangesProofs      what it returns, for every file
      Release            the release scripts, which read CHANGES (extends Changes)
        MCRelease        files, packages and calls
        ReleaseProofs    one folder, one release; what a call has made at its end
    CheckCode            the walk over the sources
      MCCheckCode        a source tree
      CheckCodeProofs    the walk, for any tree

### FakeSizes and OverFs: what statfs says

`FakeSizes` translates the conversions of the setters (`BlocksRounded`: multiply,
divide truncating, add the correction) and the computation of `OverFs::statfs`
after the unlock (`FakedStat`). Integers have the width given by `IntMax`;
overflow wraps as in the code the project's builds generate, and the cast to
`fsblkcnt_t` is `ToUnsigned`.

`OverFs` has one step per access to a shared member. A setter goes
`lock → mode → size → return` (`SetterLocks`, `WriteMode`, `WriteSize`,
`SetterReturns`), a statfs `statvfs → check → storeDisk → storeFree → modes →
sizes → reply`; what touches locals only belongs to the step beside it: the check to the lock, the computation to the last
read. `real` is what the underlying file system would answer now
(`DiskChanges` is any other program), `fake` the members `m_bUseFakeFixed*` and
`m_nFake*`, `cache` the members `m_nReal*`, `mutex` the owner of `m_oFsMutex`; `ret`, `stat`
and `copy` are the locals of the handler and `answer` its result. The asserts of the
setters abort in a Debug build (`AssertsOn`) and are absent from a Release build.
An abort or a segmentation fault takes the members and all calls with it (`Dies`).
A failed `statvfs` leaves the buffer, which libfuse has zeroed, and `log_syscall`
turns -1 into -errno: both are why `Refused` tests what it tests.

`FakedFs` is the promise: a setter takes effect at one moment between call and
return, a statfs is computed from one sample and from the settings at one later
moment. The refinement mapping lets a setter take effect when it writes the mode
(the size it is about to write already counts, `AbsFake`) and a statfs decide when it reads the sizes.

### FsPropFaker: the life of fakers

For every faker: `app` is the application's thread in `create`, holding the object,
or in the destructor; `fuse` is its thread in `fuse_main`; `cb` is the worker that
runs the init handler and `fuseInitialized`; plus the flag, the mutex, and the
pending signal. `handler` and `session` are per process, as in libfuse. `wait`
is three steps (`WaitGoesOn`, `WaitEnqueues`, and a wake-up that goes back for the lock), since the
interesting interleavings are between them. Two more steps are the error
returns of `create` (`InitFails`, `CreateInstanceFails`); `MkdtempFails` is the one that builds its
message from a null pointer, and `ThreadFails` a `std::thread` that cannot be started, whose exception ends the process.

### PassThrough: the other handlers

Workers have a program counter, a request, `errno`, `nRetStat`, the error of what the
handler tried (`failed`, for the properties only) and the entries given to the
filler. Handles have `fh`; descriptors have the object they are open on; a `DIR` is
its descriptor with a position. Each handler is one action from its arrival to
its reply, except where other workers can get between two system calls: `mknod`
(open, close) and `readdir` (one step per entry). Handlers of the same shape (one
path, one call, `log_syscall`) share the kind "path". `LogSyscall` and `LogError`
keep the order of log writes and reads of `errno`, which is all that
distinguishes them. `releasedir` does not look at what `closedir` answers (`Unseen`).

### InstallScripts

One step per command of a script, each of which may fail and end the script;
`testall.py` is a list of calls of the other two. `cache` and `makefile` are the build
folder, `built` the configuration of what make made, `installed` the files by folder, `loader`
what ldconfig found last. Only Debug and Release are build types: the other two behave as Release.

A package is a list of calls, too: `Rules` (clean, configure, make, install, four calls by four
targets of `debian/rules`) and `PkgBuild`. `pk_install` and `dd_install` pass the options on and set an
environment variable each; of the two only `DESTDIR` changes what the scripts do, so a
file is known by `<<DESTDIR, folder, part>>` (`None` without a `DESTDIR`). dh and makepkg begin with an
empty `DESTDIR` (`RunPackage`). `Dests` is also what an `uninstall` may be called with.

### Changes and Release: from CHANGES to a dist archive

`Changes` is `getLastVersionAndDateFromChanged`, one action for each way through the body of its
loop. A line is known by the regular expression it matches, the text by the numbers of its
lines; `Ends`, `Raises` and `CannotOpen` are its four ways out. Its second copy, in `frag_arch_create.py`, is the same
code, so that both scripts use the module.

`Release` has one action per step of the three scripts that changes a file or can fail. `run` is the call,
`at` its next step, `name` is `sDebSrcVersion`; the rest is on disk: `tars` in the parent folder, `orig`, `raw`, `debian`
and `debs` in the build folder, `helpers` and `dists` of the dist archive, `arch`, `temps`. `Stops` ends a script before any step; steps
that fail half way have an outcome of their own (`MakeTar`, `Move`, `Build`, `WriteScripts`, `TarDist`). A template with a version in its
name is a step before cmake (`MakeTemps`) and one after it (`TransformFile`).
Between calls the tree is edited (`EditTree`: a number) and folders are removed. The debian folder has one entry of
each kind that the loop over `debian.orig` tells apart. A `mkdir` or `rename` that finds its
target in the way is a guard, since the script then stops, as it may at every step.

### CheckCode: the walk

The recursion of `checkCurDir` is a stack, `todo`, of the names left in every folder from the root to
the current one, and `cwd` is the current folder, kept apart because the code changes it
by steps of its own. `HasToBeSkipped`, `CheckCout` and `CheckLint` are the checks; a file is a path, its extension is what
`os.path.splitext` says (of `config.cc.in` it is `.in`). Which files have faults is chosen at the start.

## Runs

`expect: pass`:

| Run | Instance | Shows |
|---|---|---|
| `sizes_all` | all inputs of a 4-bit machine, blocks of 3 bytes, a megabyte of 2 | `RoundsAwayFromZero`: the fewest blocks that hold the size; `ReportsWhatIsDocumented`: statfs says what the header of the library promises, where it promises one thing, against a definition on unbounded integers, as far as no sum that it makes overflows; `ReserveKept`: root's reserve is kept where it fits on top of the free blocks; `FreeWithinDisk`: also where sums overflow |
| `overfs_all` | 2 workers, 2 setter threads, Debug, fair; three real disks, three requests, one of them illegal | `IInv`; `CacheCoherent`: no pair of real sizes from two answers; `FreeFits`: no free size above the disk; `NoStaleBuffer`: a worker whose statvfs failed, or met other blocks, stores and computes nothing and answers with an error; `Implements`: refinement of `FakedFs`; `Answered`: calls return |
| `faker_any` | 2 fakers that may overlap, everything may fail, fair | `IInv`, `NoUseAfterFree`, `ReadyIsMounted`, `NoLostWakeup`; and while no two file systems are mounted at a time, `SignalsAreHandled`, `CreateEnds`, `DestructorReturns` |
| `handlers_any` | 2 workers, 2 handles, 2 descriptors, 2 files, 1 directory of 2 entries | `IInv`, `HandleKeepsObject`, `OneOwner`, `ErrorExplained` with failing calls, a full log, directories read again |
| `handlers_results` | the same, directories read once and without errors, the log may fail | `NoFalseError`, `WholeDirectory` |
| `scripts_installs` | 2 folders, all choices of library, folder, configuration and sudo; any order of calls | `UninstallRemovesAll`, `InstalledAsAsked`, `LoaderKnows` |
| `scripts_testall` | calls of `testall.py`, both packages, other builds and uninstalls in between | `TestsWhatIsDemanded`, `TidiedOnce`, `PackageIsComplete`, `PackagingStaysBelow` |
| `release` | any CHANGES of up to 3 lines and files of two entries, one edit; 10 calls of the three scripts in any order, each may stop at every step | `ReturnsAnEntry`, `RefusesWhatIsFaulty`, `CreatesWhatIsAsked`, `OneRelease`, `DistInstalls`, `LeavesNothing`, `NeverOverwritten` |
| `checkcode` | a tree of 5 folders, 7 files and a link, with every choice of faults | `FindsEveryFault`, `StaysOnPath` |

`expect: violation` — each shows a disagreement of the code with its documentation,
quoted under "findings" in PROJECT.json:

| Run | Property | What happens |
|---|---|---|
| `faker_hang` | `CreateReturns` | `fuse_main` fails, its result is ignored, `create` waits for ever |
| `faker_sighup` | `ProcessSurvives` | `unmount` then the destructor: the second SIGHUP arrives when libfuse has removed its handler, and kills the process |
| `handlers_rewind` | `NoFalseError` | a directory read again from the start returns the errno of an earlier request |

Other disagreements that the models have but no run of their own shows:

* `getReal...` dereferences a null pointer on the application's thread: its path comes from the fuse
  context, which only libfuse's own threads have (`overfs.cc:103`, `fspropfaker.h:95-98`; `CallGetReal`).
* `unmount` with two fakers mounted exits the session of the one mounted last
  (`fspropfaker.cc:212`); `Alone` in `FsPropFaker` is the condition that excludes it.
* The message for a failed `mkdtemp` is built from a null pointer (`fspropfaker.cc:141`, `MkdtempFails`).
* A failing log write replaces the errno of a failed call (`fslogger.cc:334`); `ErrorExplained` allows for it.
* An error of `::readdir` after the first entry is taken for the end (`overfs.cc:717`), and `releasedir` answers a
  failed `closedir` with success (`:735`): the two cases of `Unseen`, which `ErrorExplained` excepts. `DirErrnos` is empty in
  `handlers_results`, so that a listing is whole.
* After a failed open `fh` is -errno, where the comment says exactly -1 (`overfs.cc:427-435`).
* `install_libfspropfaker.py --no-configure` ignores `--installdir`, and with `-s` decides on ldconfig by the
  option although the library is the one of the cache; `--sanitize` stays in the cache of later builds.
  `InstalledAsAsked` and `LoaderKnows` state the condition; `testall.py` is not affected, since it cleans first.
* `debian_create.py` called with `--no-source` after a call that stopped within the debian folder builds packages
  without the lists of files that are missing (`whole` in `Deb`), and with another `--revision` it names
  the dist archive after a revision its packages do not have; a tar that fails leaves a
  cut-off archive under the final name (`frag_debian_create.py:325`, `:508`, `:528`).
* `checkcode.py` names the extension `.cc.in` (`:106`), which `splitext` never answers; it finds nothing in a
  checkout below a folder called `build` or `stuff` (`Above`), and without pylint3 it takes every script for faultless.

### Bounds, and why they are enough

* `FakeSizes_all` is exhaustive for four bits: megabytes and blocks do not divide one
  another, sums overflow both ways, and both signs and zero occur.
* `MCOverFs`: another program fills and shrinks the underlying disk, so that two answers may be cached that differ in both
  sizes, or replaces it by one of another block size. A fixed free size and a difference, both above the
  disk, are settings whose halves differ in mode and size; one request is illegal. Two threads on either side of the mutex
  give every pair of rivals; all state of a worker is its own.
* `FsPropFaker`: fakers interact only through `handler` and `session`, so two, which may overlap
  or follow one another, suffice.
* `PassThrough`: as many descriptors as handles, so that `mknod` competes for the last one
  and a descriptor is given out again at once; two entries are a first and a next.
* `InstallScripts`: two folders, or one folder and one `DESTDIR`; the number and order of calls is not bounded, only
  the options: `Installs`, `Uninstalls`, `Builds`, `Removals`, `AnyTests` and `AnyPackages` in `MCInstallScripts`.
* `Release`: the number and order of calls is not bounded. `MaxTree` = 1 bounds the edits of the sources: an old
  tree and a new one are all that a leftover can be confused with. CHANGES has every
  arrangement of up to three lines (each way to be faulty needs at most two) and every pair of
  entries; after an edit it is one of `MCEdits`. The packages are those of
  `scripts/debian_create.py` and one more for development, so that a list of two can be in the wrong order.
* `CheckCode`: every kind of entry occurs, a folder in a folder, and a skipped one.
* Nothing else is bounded: no run has a state constraint.

`CHECK_DEADLOCK FALSE` is set where the program may really stop: an assert, a segfault,
a killed process, or all fakers destroyed; the end of the walk; and for `MCFakeSizes`, which has one step.

### Fairness

`OverFs`: weak fairness of each thread's steps once it has entered a setter or the
handler — the scheduler runs what can run. `std::mutex` does not promise more, so
`Answered` (a thread is out of its calls again and again) is conditional on the rivals leaving the lock alone in the end. The application's
calls, arriving requests and changes of the disk are not fair.
`FsPropFaker`: weak fairness of the steps of started threads, of the callback (the kernel
sends the init request of a mount) and of the join. Calls of the application,
`OtherUnmounts`, `WorkerSeesExit` and spurious wake-ups promise nothing; `CreateReturns` and `CreateEnds` are
conditional on spurious wake-ups ending (`WakeupsEnd`), because each of them may take the mutex from the
callback. `SignalsAreHandled`, `CreateEnds` and `DestructorReturns` are conditional on `Alone`. `PassThrough`, `InstallScripts`, `Release`
and `CheckCode` state safety only and have no fairness.

### What is assumed of code outside the repository

libfuse 2: `fuse_get_context()->private_data` exists on worker threads only; the buffer of
statfs is zeroed; there is one global session for the signal handlers, which
are installed after the mount and before the loop and removed before the
unmount; the handler exits the session noted last; the loop's check and its
`sem_wait` do not lose a wake-up; workers are joined at the end of the loop; readdir
is locked per handle, its entries are kept and asked for again from offset 0; release
comes once, after the last request on the handle; a handle whose open failed is
forgotten. The operating system: a system call that succeeds leaves `errno`
alone; `close` frees the descriptor even if it fails; a signal to a thread that
has ended and is not joined has no effect. CMake and make: options that are not given
keep their value or have the default of CMakeLists.txt, `make` reconfigures and builds what
the cache says, Doxygen is installed; `ldconfig` looks into the install folders. dh and makepkg begin with an empty `DESTDIR`
and run the targets in their order; `dpkg-buildpackage` makes a package of every name and debug symbols of the runtime ones,
needs the changelog and the rules, and may fail with some packages made; tar leaves what it has written when it fails.

## Proofs

All are for every value of the constants under the named assumptions of the modules
(`SizesAssumption`, `OverFsAssumption`, `FakersAssumption`, `PassThroughAssumption`, `ScriptsAssumption`,
`ChangesAssumption`, `ReleaseAssumption`, `CheckCodeAssumption`), which TLC evaluates in the runs. Every safety
property of the passing runs is stated by one of them.

* `FakeSizesProofs`: `BlocksCoverMegaBytes` (the setters choose the fewest blocks that hold the size, a
  negative difference is the mirror image, for sizes whose bytes fit),
  `FakedFreeFits` (legal settings: free at most disk, even on overflow), `FakedReserveKept`. From these come the four
  properties of `sizes_all` for every width, block size, megabyte and input: `AlwaysRoundsAway` (`NegativeBlocks` takes it down
  to the smallest int64_t, whose magnitude is none), `FreeAlwaysWithinDisk`, `ReserveAlwaysKept` and
  `AlwaysReportsWhatIsDocumented` (which claims nothing of an unfaked free size above a faked disk), where `ClosestIs` says that the clamps of the code are what the reference
  definition chooses.
* `OverFsProofs`: `Invariance` proves `IInv`, for any number of threads, requests and disks. It
  is inductive because it says *who* is in the critical section (`LockInv`), what a
  worker past the check holds (`StatInv`), that the cached pair is torn only while its writer
  is between the two stores (`CacheInv`), that modes copied or written under the
  lock are still in force there (`CopyInv`), that an answer is `FakedStat` of the copies (`AnswerInv`), and that
  an illegal pair is visible to its writer only (`LegalInv`). From it follow `RealSizesCoherent`, `OnlyRealAnswers`,
  `FreeAlwaysFits` (which assumes `ContractKept`: asserts are on or no request is illegal)
  and `Refinement`: initial states map to initial states and every step to a step of `FakedFs`
  or a stutter.
* `FsPropFakerProofs`: `Invariance` proves `IInv` for any number of overlapping fakers.
  `NoUseAfterFree` is not inductive on its own: it needs that a join only ends after the
  thread did (`StageInv`), that a thread in the loop outlives its callback, and that the flag and the
  mutex say how far the callback is (`MutexInv`). From it: `DestructionIsSafe`, `CreationWaits`, `WakeupIsSeen`.
  While no two file systems are mounted at a time (`Alone`, which every step may assume of the state it starts in),
  `SignalInvariance` adds that the handler and the global session are those of the one that is (`HandlerFits`). From it:
  `SignalsAreHandledAlways` and, the safe part of `DestructorReturns`, `ExitIsComingAlways`: nobody joins a
  thread that will not be told to leave its loop.
* `PassThroughProofs`: `Invariance` proves `IInv`, for any number of workers, handles, descriptors and entries, whatever
  fails. `HandleKeepsObject` and `OneOwner` are not inductive: that a descriptor is given out again only when
  nobody owns it needs that no two owners have the same one (`OwnersApart`), and that release closes
  a descriptor that its handle owns needs what libfuse and the kernel promise: which state the handle of a request is in
  (`RequestsFit`), who may share it (`SharedByUsers`), and that a handle whose open failed never looks as if it had
  a descriptor, although `-errno` is left in it (`OpenedFits`). `EntriesCounted` is what keeps a listing within the
  directory. From it: `HandleKeepsObjectAlways`, `OneOwnerAlways`. The results of readdir are promised on conditions, which
  the theorems have as hypotheses on the constants and `handlers_results` as their values: `NoFalseErrorAlways` and
  `WholeDirectoryAlways` that no directory is read again from its start (`Rewinds`, the finding of `handlers_rewind`) and
  that libfuse never lacks the memory for an entry (`MemoryFails`: it would ask again for entries that the stream
  has passed), and `WholeDirectoryAlways`, besides, that `::readdir` itself does not fail
  (`DirErrnos`), since the code takes that for the end. `ErrorExplainedAlways` has no such hypothesis. `StreamsInv` is the invariant for them: a stream that
  is yet to be read stands at its start (`UnreadAtStart`), a directory is read by one request only (`ReadOnce`), and
  the stream is one entry ahead of the filler (`OneAhead`).
* `InstallScriptsProofs`: `ScriptsInvariance` proves `IInv`, for any folders and calls, in any order, whatever commands
  fail. The promises speak of a script that has ended, so the invariant says what each step of a running one may
  rely on: after the configuration the cache says what was asked for (`ConfigureFits`), when the loader's turn comes the
  library is installed (`LibraryFits`) or everything is gone (`RemoveFits`), and a call that a package still has to
  make installs below its `DESTDIR` only and has no sudo (`PackageFits`). From it: `NothingIsLeft`,
  `InstallsWhatIsAsked`, `LoaderFollows` and, for every step, `PackagesStayBelow`. `PackagesAreComplete` needs
  `CompleteFits` besides: the last call of a package installs without configuring, so that what it installs is what an earlier call
  has left in the cache (`Ready`), and nothing is below the `DESTDIR` before it. `TestsAllThatIsDemanded` and
  `TidiesEachTypeOnce` follow from `TestAllInvariance`: at every command of `testall.py` what has been tested and what
  the calls still to be made will test (`Wanted`) is what was asked for, each of them in a
  build folder that was cleaned before it (`Orderly`), and for each build type exactly one call is left that will run
  clang-tidy, or it has been run (`Tidies`). That the list made by `TestAllSteps` is such a plan is the lemma `TestAllPlan`.
* `ChangesProofs`: `ReturnsAnEntryAlways` and `RefusesWhatIsFaultyAlways`, for every file and every `nSkip`. The invariant is
  `ReaderInv`: the lines before the current one are whole entries but for one that is open, whose first
  line and text are known (`ReadsEntries`, `Opened`), and `nSkip` has gone down by their number. For a negative `nSkip`
  the code refuses every entry, which the second property has to allow.
* `ReleaseProofs`: `Invariance` proves `IInv`, for any packages, calls and edits. `OneRelease` is not inductive: that a
  call never unpacks what an earlier one left needs that a call which makes the source found no
  archive at its start and still has none, and that the version of what it unpacked is its own (`StepsFit`). From
  it: `OneReleaseAlways`, `NeverOverwrittenAlways`; `ReadsRightlyAlways` carries the two theorems on the reader over to its
  callers, who may be killed while it reads. `ReleaseInvariance` is about the ends of calls: `TempsFit`, `ArchivesFit`, `SourceFits`,
  `DebsFit` and `DistsFit` follow each file from the step that makes it to the end of the call. From it: `LeavesNothingAlways`,
  `DistInstallsAlways` and, for `Skip` = 0 (what both scripts pass), `CreatesWhatIsAskedAlways`.
* `CheckCodeProofs`: `Invariance` proves `IInv` for any tree in which whatever is below a folder is in a folder
  (`CheckCodeAssumption`), and any faults. That the walk ends well only without a fault is not inductive: as long as it goes on, every
  fault there is to find is reached through a name that is left in one of the folders on the stack (`FaultsAhead`),
  whose names the current folder agrees with (`StackFits`). From it: `FindsEveryFaultAlways`, `StaysOnPathAlways`.

Only model-checked: the liveness properties (`Answered`, `CreateEnds`, `DestructorReturns`), since the prover has no
`ENABLED` for their fairness. The three findings are counterexamples of runs and there is nothing to prove about them.

## Not modelled

* The conversion of the getters `getReal...InMB`: the call ends in a crash before.
* What a difference of zero means for the free size when the disk is faked: the
  documentation calls it both the real size and bounded by the disk, so that
  no property is stated for that case, where the real free size is above the faked disk (the model does what the code does).
* The order in which two statfs store their real sizes: nothing that works reads them.
* Contents and names of files, permissions, the text of the log.
* In the release scripts: names and addresses of packagers, `--date`, `--website`, the patterns that tar excludes, the text of
  what is generated, and a folder in `arch.orig`, which `copytree` would put beside the arch folder (there is none).
* `checkSourceFileCassert`, which is not called; CMake beyond the options and install rules above.
* Tests: read as documentation.

## Plan

Done: sizes, life cycle, handlers, scripts, packages, releases and the walk, in that order of importance, with the
abstract specification of the sizes and the proofs named above.

Left:
1. An abstract file service (a request gets the result of one call on the object its
   handle was opened on) that `PassThrough` implements when the log cannot fail.
2. A composition of `FsPropFaker` with the setters: settings made between `create` and the first statfs,
   and statfs requests while the mount goes away.
