---------------------------- MODULE PassThrough ----------------------------
(***************************************************************************)
(* The handlers of OverFs that pass a request on to the underlying file    *)
(* system, and the results of their system calls on the way through        *)
(* FsLogger: log_syscall, log_error, and log writes that may fail.         *)
(*                                                                         *)
(* Every worker has its own errno, which outlives the request; the workers *)
(* share the descriptors of the process and the handles (fuse_file_info)   *)
(* that libfuse and the kernel keep.  A successful system call leaves errno*)
(* alone, and what the lines written after the last one do to it is left   *)
(* to the first line of the next request.  A DIR stream is identified with *)
(* its descriptor, names and data are left out: a descriptor is known by   *)
(* the object it was opened on.                                            *)
(***************************************************************************)
EXTENDS Integers

CONSTANTS
  Workers,     \* the threads of the fuse loop
  Files, Dirs, \* objects of the underlying file system
  None,        \* no object, no handle
  Fds,         \* the descriptors the process may have open
  Handles,     \* the open files and directories of the mount
  Entries,     \* the number of entries of every directory
  Errnos,      \* the errors of the system calls
  DirErrnos,   \* the errors of ::readdir
  LogErrnos,   \* the errors of writing the log; none without a log file
  Rewinds,     \* TRUE: programs read a directory again from the start
  MemoryFails  \* TRUE: libfuse may lack the memory for an entry

EMFILE == 24
ENOMEM == 12
Objects == Files \cup Dirs

ASSUME PassThroughAssumption ==
  /\ None \notin Objects \cup Handles
  /\ Workers \cap Handles = {}
  /\ Files \cap Dirs = {}
  /\ Fds \subseteq Nat \ {0}
  /\ Entries \in Nat \ {0}
  /\ Errnos \cup DirErrnos \cup LogErrnos \subseteq Nat \ {0}
  /\ {Rewinds, MemoryFails} \subseteq BOOLEAN

VARIABLES
  table,    \* of every descriptor: the object it is open on
  position, \* of every descriptor: the entries its DIR stream has returned
  handle,   \* of every handle: its state, its object, fh, and whether libfuse has its entries
  pc,       \* of every worker: the next step of its handler
  op,       \* of every worker: the request
  errno,    \* of every worker
  ret,      \* of every worker: nRetStat
  failed,   \* of every worker: the error of what its handler tried, 0 for none
  listed    \* of every worker: the entries it gave to the filler

vars == <<table, position, handle, pc, op, errno, ret, failed, listed>>

PathKinds == {"path", "xattr", "access", "mknod"}
FileKinds == {"io", "flush", "fsync"}
DirKinds  == {"readdir", "fsyncdir"}
Kinds     == PathKinds \cup FileKinds \cup DirKinds \cup {"open", "opendir", "release", "releasedir"}
Errors    == Errnos \cup DirErrnos \cup LogErrnos \cup {EMFILE, ENOMEM}
Unused    == [state |-> "unused", object |-> None, fh |-> 0, filled |-> FALSE]
NoRequest == [kind |-> "path", handle |-> None]

\* Descriptors, handles and results are of their kinds.
TypeOK ==
  /\ table \in [Fds -> Objects \cup {None}]
  /\ position \in [Fds -> 0 .. Entries]
  /\ handle \in [Handles -> [state : {"unused", "opening", "open", "releasing", "closed"},
                             object : Objects \cup {None}, fh : Fds \cup {0} \cup {-e : e \in Errors},
                             filled : BOOLEAN]]
  /\ pc \in [Workers -> {"idle", "call", "close", "entry", "reply"}]
  /\ op \in [Workers -> [kind : Kinds, handle : Handles \cup {None}]]
  /\ errno \in [Workers -> Errors \cup {0}]
  /\ ret \in [Workers -> Fds \cup {0} \cup {-e : e \in Errors}]
  /\ failed \in [Workers -> Errors \cup {0}]
  /\ listed \in [Workers -> 0 .. Entries]

Init ==
  /\ table = [d \in Fds |-> None]
  /\ position = [d \in Fds |-> 0]
  /\ handle = [h \in Handles |-> Unused]
  /\ pc = [w \in Workers |-> "idle"]
  /\ op = [w \in Workers |-> NoRequest]
  /\ errno = [w \in Workers |-> 0]
  /\ ret = [w \in Workers |-> 0]
  /\ failed = [w \in Workers |-> 0]
  /\ listed = [w \in Workers |-> 0]

Moves(w, from, to) == pc[w] = from /\ pc' = [pc EXCEPT ![w] = to]
Sets(f, w, value)  == [f EXCEPT ![w] = value]
Fh(w) == handle[op[w].handle].fh

-----------------------------------------------------------------------------
\* log_msg: errno after any number of writes; vfprintf sets it when it fails.
AfterLog(e) == {e} \cup LogErrnos

\* A variant that takes the lowest good result for a failure.
LogSyscallFromZero(w, e) ==
  /\ failed' = Sets(failed, w, e)
  /\ \E left \in AfterLog(IF e = 0 THEN errno[w] ELSE e) :
       errno' = Sets(errno, w, left) /\ ret' = Sets(ret, w, -left)

\* A variant that returns what the system call did.
LogSyscallUnchanged(w, e) ==
  /\ failed' = Sets(failed, w, e)
  /\ errno' = Sets(errno, w, IF e = 0 THEN errno[w] ELSE e)
  /\ ret' = Sets(ret, w, IF e = 0 THEN 0 ELSE -1)

\* log_syscall: log_retstat restores errno, but log_error may change it, and a
\* failure is turned into the errno that is found after that.
LogSyscall(w, e) ==
  /\ failed' = Sets(failed, w, e)
  /\ IF e = 0 THEN ret' = Sets(ret, w, 0) /\ UNCHANGED errno
     ELSE \E left \in AfterLog(e) : errno' = Sets(errno, w, left) /\ ret' = Sets(ret, w, -left)

\* A variant that forgets the sign.
LogErrorPositive(w, found) ==
  /\ ret' = Sets(ret, w, found)
  /\ \E left \in AfterLog(found) : errno' = Sets(errno, w, left)

\* log_error keeps the errno that it finds, before it writes.
LogError(w, found) ==
  /\ ret' = Sets(ret, w, -found)
  /\ \E left \in AfterLog(found) : errno' = Sets(errno, w, left)

\* What open and opendir may say: a free descriptor, or an error.
FreeFds    == {d \in Fds : table[d] = None}
OpenErrors == Errnos \cup IF FreeFds = {} THEN {EMFILE} ELSE {}
Takes(d, object) ==
  table' = Sets(table, d, object) /\ position' = Sets(position, d, 0)

-----------------------------------------------------------------------------
\* A request reaches its handler, which begins with a line in the log.
Arrives(w, kind, h) ==
  /\ Moves(w, "idle", "call")
  /\ op' = Sets(op, w, [kind |-> kind, handle |-> h])
  /\ \E e \in AfterLog(errno[w]) : errno' = Sets(errno, w, e)
  /\ UNCHANGED <<table, position, ret, failed, listed>>

PathRequest(w) ==
  /\ \E k \in PathKinds : Arrives(w, k, None)
  /\ UNCHANGED handle

OpenRequest(w, h) ==
  /\ handle[h].state = "unused"
  /\ \E object \in Objects :
       /\ handle' = [handle EXCEPT ![h] = [Unused EXCEPT !.state = "opening", !.object = object]]
       /\ Arrives(w, IF object \in Files THEN "open" ELSE "opendir", h)

\* libfuse locks a directory handle for readdir, and asks for its entries when
\* it has none or when it is read from the start.
HandleRequest(w, h) ==
  /\ handle[h].state = "open"
  /\ \E k \in IF handle[h].object \in Files THEN FileKinds ELSE DirKinds :
       /\ k = "readdir" => /\ ~handle[h].filled \/ Rewinds
                           /\ \A v \in Workers : pc[v] = "idle" \/ op[v] # [kind |-> k, handle |-> h]
       /\ Arrives(w, k, h)
  /\ UNCHANGED handle

\* The kernel releases a handle once, after the last request on it.
ReleaseRequest(w, h) ==
  /\ handle[h].state = "open"
  /\ \A v \in Workers : pc[v] = "idle" \/ op[v].handle # h
  /\ handle' = [handle EXCEPT ![h].state = "releasing"]
  /\ Arrives(w, IF handle[h].object \in Files THEN "release" ELSE "releasedir", h)

-----------------------------------------------------------------------------
\* One system call whose result is passed on by log_syscall.
Calls(w, kind) ==
  /\ Moves(w, "call", "reply")
  /\ op[w].kind = kind
  /\ \E e \in Errnos \cup {0} : LogSyscall(w, e)
  /\ UNCHANGED <<table, position, handle, op, listed>>

Path(w)  == Calls(w, "path")
Xattr(w) == Calls(w, "xattr")
Fsync(w) == Calls(w, "fsync")
ReadOrWrite(w) == Calls(w, "io")

\* access tests the result itself.
Access(w) ==
  /\ Moves(w, "call", "reply")
  /\ op[w].kind = "access"
  /\ \/ ret' = Sets(ret, w, 0) /\ failed' = Sets(failed, w, 0) /\ UNCHANGED errno
     \/ \E e \in Errnos : failed' = Sets(failed, w, e) /\ LogError(w, e)
  /\ UNCHANGED <<table, position, handle, op, listed>>

\* mknod of a regular file opens it, with O_EXCL; of another kind it is a path call.
MknodOpen(w) ==
  /\ op[w].kind = "mknod"
  /\ \/ \E d \in FreeFds, object \in Files :
          /\ Moves(w, "call", "close")
          /\ Takes(d, object)
          /\ ret' = Sets(ret, w, d) /\ failed' = Sets(failed, w, 0)
          /\ UNCHANGED errno
     \/ /\ Moves(w, "call", "reply")
        /\ \E e \in OpenErrors : LogSyscall(w, e)
        /\ UNCHANGED <<table, position>>
  /\ UNCHANGED <<handle, op, listed>>

\* A variant without the close after the open.
MknodKeeps(w) ==
  /\ Moves(w, "close", "reply")
  /\ LogSyscall(w, 0)
  /\ UNCHANGED <<table, position, handle, op, listed>>

\* close frees the descriptor even when it fails.
MknodClose(w) ==
  /\ Moves(w, "close", "reply")
  /\ table' = Sets(table, ret[w], None)
  /\ \E e \in Errnos \cup {0} : LogSyscall(w, e)
  /\ UNCHANGED <<position, handle, op, listed>>

\* open: the error is taken from errno once more; -errno is left in fh.
Open(w) ==
  /\ Moves(w, "call", "reply")
  /\ op[w].kind = "open"
  /\ \/ \E d \in FreeFds :
          /\ Takes(d, handle[op[w].handle].object)
          /\ handle' = [handle EXCEPT ![op[w].handle].fh = d]
          /\ ret' = Sets(ret, w, 0) /\ failed' = Sets(failed, w, 0)
          /\ UNCHANGED errno
     \/ \E e \in OpenErrors : \E found \in AfterLog(e) :
          /\ handle' = [handle EXCEPT ![op[w].handle].fh = -found]
          /\ failed' = Sets(failed, w, e)
          /\ LogError(w, found)
          /\ UNCHANGED <<table, position>>
  /\ UNCHANGED <<op, listed>>

\* A variant that closes the file, which release closes again.
FlushCloses(w) ==
  /\ Moves(w, "call", "reply")
  /\ op[w].kind \in {"flush", "fsyncdir"}
  /\ table' = Sets(table, Fh(w), None)
  /\ ret' = Sets(ret, w, 0) /\ failed' = Sets(failed, w, 0)
  /\ UNCHANGED <<position, handle, op, errno, listed>>

\* flush and fsyncdir make no system call.
Flush(w) ==
  /\ Moves(w, "call", "reply")
  /\ op[w].kind \in {"flush", "fsyncdir"}
  /\ ret' = Sets(ret, w, 0) /\ failed' = Sets(failed, w, 0)
  /\ UNCHANGED <<table, position, handle, op, errno, listed>>

Release(w) ==
  /\ Moves(w, "call", "reply")
  /\ op[w].kind = "release"
  /\ table' = Sets(table, Fh(w), None)
  /\ handle' = [handle EXCEPT ![op[w].handle].state = "closed"]
  /\ \E e \in Errnos \cup {0} : LogSyscall(w, e)
  /\ UNCHANGED <<position, op, listed>>

-----------------------------------------------------------------------------
\* opendir: a line is written to the log before errno is read.
Opendir(w) ==
  /\ Moves(w, "call", "reply")
  /\ op[w].kind = "opendir"
  /\ \/ \E d \in FreeFds :
          /\ Takes(d, handle[op[w].handle].object)
          /\ handle' = [handle EXCEPT ![op[w].handle].fh = d]
          /\ ret' = Sets(ret, w, 0) /\ failed' = Sets(failed, w, 0)
          /\ \E left \in AfterLog(errno[w]) : errno' = Sets(errno, w, left)
     \/ \E e \in OpenErrors : \E found \in AfterLog(e) :
          /\ failed' = Sets(failed, w, e)
          /\ LogError(w, found)
          /\ UNCHANGED <<table, position, handle>>
  /\ UNCHANGED <<op, listed>>

\* The first ::readdir: null at the end of the stream leaves errno as it was.
ReaddirStarts(w) ==
  /\ op[w].kind = "readdir"
  /\ listed' = Sets(listed, w, 0)
  /\ \/ /\ Moves(w, "call", "entry")
        /\ position[Fh(w)] < Entries
        /\ position' = Sets(position, Fh(w), position[Fh(w)] + 1)
        /\ UNCHANGED <<errno, ret, failed>>
     \/ /\ Moves(w, "call", "reply")
        /\ \/ position[Fh(w)] = Entries /\ failed' = Sets(failed, w, 0)
              /\ \E found \in AfterLog(errno[w]) : LogError(w, found)
           \/ \E e \in DirErrnos : /\ failed' = Sets(failed, w, e)
                                   /\ \E found \in AfterLog(e) : LogError(w, found)
        /\ UNCHANGED position
  /\ UNCHANGED <<table, handle, op>>

\* A variant that asks for the next entry before it uses the first.
ReaddirSkips(w) ==
  /\ pc[w] = "entry"
  /\ listed' = Sets(listed, w, position[Fh(w)] - 1)
  /\ IF position[Fh(w)] < Entries
     THEN /\ position' = Sets(position, Fh(w), position[Fh(w)] + 1)
          /\ UNCHANGED <<pc, ret, failed, errno>>
     ELSE /\ Moves(w, "entry", "reply") /\ ret' = Sets(ret, w, 0)
          /\ failed' = Sets(failed, w, 0) /\ UNCHANGED <<position, errno>>
  /\ UNCHANGED <<table, handle, op>>

\* An entry goes to the filler and the next ::readdir is made, whose null ends
\* the loop, for an error too.
ReaddirFills(w) ==
  /\ pc[w] = "entry"
  /\ listed' = Sets(listed, w, listed[w] + 1)
  /\ \/ /\ position[Fh(w)] < Entries
        /\ position' = Sets(position, Fh(w), position[Fh(w)] + 1)
        /\ UNCHANGED <<pc, ret, failed, errno>>
     \/ /\ Moves(w, "entry", "reply")
        /\ ret' = Sets(ret, w, 0)
        /\ \/ position[Fh(w)] = Entries /\ failed' = Sets(failed, w, 0) /\ UNCHANGED errno
           \/ \E e \in DirErrnos : failed' = Sets(failed, w, e) /\ errno' = Sets(errno, w, e)
        /\ UNCHANGED position
  /\ UNCHANGED <<table, handle, op>>

FillerFails(w) ==
  /\ Moves(w, "entry", "reply")
  /\ MemoryFails
  /\ ret' = Sets(ret, w, -ENOMEM) /\ failed' = Sets(failed, w, ENOMEM)
  /\ UNCHANGED <<table, position, handle, op, errno, listed>>

\* releasedir does not look at the result of closedir, which frees the descriptor
\* even when it fails.
Releasedir(w) ==
  /\ Moves(w, "call", "reply")
  /\ op[w].kind = "releasedir"
  /\ table' = Sets(table, Fh(w), None)
  /\ handle' = [handle EXCEPT ![op[w].handle].state = "closed"]
  /\ ret' = Sets(ret, w, 0)
  /\ \E e \in Errnos \cup {0} :
       /\ failed' = Sets(failed, w, e)
       /\ errno' = Sets(errno, w, IF e = 0 THEN errno[w] ELSE e)
  /\ UNCHANGED <<position, op, listed>>

\* libfuse takes the result: a handle that could not be opened is forgotten,
\* entries that were read are kept until the directory is read from the start.
Settled(w, h) ==
  IF handle[h].state = "opening" THEN IF ret[w] = 0 THEN [handle[h] EXCEPT !.state = "open"] ELSE Unused
  ELSE IF handle[h].state = "closed" THEN Unused
  ELSE IF op[w].kind = "readdir" THEN [handle[h] EXCEPT !.filled = ret[w] = 0]
  ELSE handle[h]

Replies(w) ==
  /\ Moves(w, "reply", "idle")
  /\ handle' = [h \in Handles |-> IF h = op[w].handle THEN Settled(w, h) ELSE handle[h]]
  /\ op' = Sets(op, w, NoRequest)
  /\ ret' = Sets(ret, w, 0) /\ failed' = Sets(failed, w, 0) /\ listed' = Sets(listed, w, 0)
  /\ UNCHANGED <<table, position, errno>>

-----------------------------------------------------------------------------
HandlerSteps(w) ==
  \/ Path(w) \/ Xattr(w) \/ Access(w) \/ MknodOpen(w) \/ MknodClose(w) \/ Open(w)
  \/ ReadOrWrite(w) \/ Flush(w) \/ Fsync(w) \/ Release(w) \/ Opendir(w)
  \/ ReaddirStarts(w) \/ ReaddirFills(w) \/ FillerFails(w) \/ Releasedir(w) \/ Replies(w)

Next ==
  \E w \in Workers :
    \/ PathRequest(w) \/ HandlerSteps(w)
    \/ \E h \in Handles : OpenRequest(w, h) \/ HandleRequest(w, h) \/ ReleaseRequest(w, h)

Spec == Init /\ [][Next]_vars

-----------------------------------------------------------------------------
\* The handles that have a descriptor: from open until release closes it.
Holding == {h \in Handles : \/ handle[h].state \in {"open", "releasing"}
                            \/ handle[h].state = "opening" /\ handle[h].fh \in Fds}

\* A handle's descriptor is open on the object the handle was opened for, though
\* descriptors are given out again and workers close them at any time (p0FI->fh).
HandleKeepsObject ==
  \A h \in Holding : handle[h].fh \in Fds /\ table[handle[h].fh] = handle[h].object

\* Those that will close a descriptor: handles, and workers in mknod.
Owners(d) == {h \in Holding : handle[h].fh = d} \cup {w \in Workers : pc[w] = "close" /\ ret[w] = d}

\* Every open descriptor has one owner that will close it and a closed one has
\* none: no handler leaks a descriptor and none is closed twice.
OneOwner ==
  \A d \in Fds : IF table[d] = None THEN Owners(d) = {}
                 ELSE \E o \in Handles \cup Workers : Owners(d) = {o}

\* What is known of a worker between the steps: the state of the handle that its
\* request is about, and who else may have a request on that handle.
Busy(w)    == pc[w] # "idle"
Opens(w)   == op[w].kind \in {"open", "opendir"}
Closes(w)  == op[w].kind \in {"release", "releasedir"}
Uses(w)    == op[w].kind \in FileKinds \cup DirKinds

RequestsFit ==
  \A w \in Workers :
    Busy(w) =>
      /\ op[w].handle \in IF Opens(w) \/ Closes(w) \/ Uses(w) THEN Handles ELSE {None}
      /\ pc[w] = "close" => op[w].kind = "mknod"
      /\ pc[w] = "entry" => op[w].kind = "readdir"
      /\ Opens(w) => handle[op[w].handle].state = "opening"
      /\ Uses(w) => handle[op[w].handle].state = "open"
      /\ Closes(w) => handle[op[w].handle].state = IF pc[w] = "call" THEN "releasing" ELSE "closed"

SharedByUsers ==
  \A v, w \in Workers :
    (v # w /\ Busy(v) /\ Busy(w) /\ op[v].handle = op[w].handle /\ op[v].handle # None) =>
      /\ Uses(v) /\ Uses(w)
      /\ ~(op[v].kind = "readdir" /\ op[w].kind = "readdir")

\* A handle that is being opened has a descriptor when open has succeeded.
OpenedFits ==
  \A w \in Workers :
    (Busy(w) /\ Opens(w)) =>
      (handle[op[w].handle].fh \in Fds <=> pc[w] = "reply" /\ ret[w] = 0)

\* The stream is ahead of what has gone to the filler.
EntriesCounted ==
  \A w \in Workers : pc[w] = "entry" => listed[w] < position[Fh(w)]

ObjectsKnown == \A h \in Handles : handle[h].state # "unused" => handle[h].object # None

\* Of the owners of descriptors, no two have the same one.
OwnersApart ==
  /\ \A g, h \in Holding : handle[g].fh = handle[h].fh => g = h
  /\ \A w \in Workers : pc[w] = "close" => ret[w] \in Fds /\ table[ret[w]] # None
  /\ \A v, w \in Workers : (pc[v] = "close" /\ pc[w] = "close" /\ ret[v] = ret[w]) => v = w
  /\ \A w \in Workers, h \in Holding : pc[w] = "close" => ret[w] # handle[h].fh
  /\ \A d \in Fds : table[d] # None => \/ \E h \in Holding : handle[h].fh = d
                                       \/ \E w \in Workers : pc[w] = "close" /\ ret[w] = d

IInv ==
  /\ TypeOK /\ RequestsFit /\ SharedByUsers /\ OpenedFits /\ EntriesCounted
  /\ HandleKeepsObject /\ ObjectsKnown /\ OwnersApart

\* The comment of OverFs::readdir on a first null: an error is returned only when
\* something has failed.
NoFalseError == \A w \in Workers : (pc[w] = "reply" /\ failed[w] = 0) => ret[w] = 0

\* The failures that the handlers take for success: of closedir, and of ::readdir
\* after an entry, which ends the loop as the end of the stream does.
Unseen(w) ==
  /\ ret[w] = 0
  /\ \/ op[w].kind = "releasedir"
     \/ op[w].kind = "readdir" /\ failed[w] \in DirErrnos /\ listed[w] > 0

\* What has failed is reported, but for these two, and by its own error unless the
\* log, too, has failed: log_syscall reads errno again after it has written (the
\* comment of OverFs::open on its result: a failure is -errno).
ErrorExplained ==
  \A w \in Workers : (pc[w] = "reply" /\ failed[w] # 0) =>
    -ret[w] \in {failed[w]} \cup LogErrnos \/ Unseen(w)

\* The comment of OverFs::readdir on the end of its loop: a success has listed
\* the whole directory.
WholeDirectory ==
  \A w \in Workers : (pc[w] = "reply" /\ op[w].kind = "readdir" /\ ret[w] = 0) => listed[w] = Entries
=============================================================================
