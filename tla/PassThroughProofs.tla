------------------------- MODULE PassThroughProofs -------------------------
(***************************************************************************)
(* Proofs about PassThrough, for any numbers of workers, descriptors,      *)
(* handles and entries, and whatever system calls and the log fail: a      *)
(* handle's descriptor stays open on the object that the handle was opened *)
(* for, and every open descriptor has exactly one owner that will close it.*)
(*                                                                         *)
(* Neither is inductive.  IInv adds what libfuse and the kernel promise    *)
(* about requests (which state the handle of a request is in, who may share*)
(* it), that a handle has a descriptor if and only if its open succeeded,  *)
(* and that no two owners have the same descriptor.                        *)
(*                                                                         *)
(* The last part is about the results: errors are explained by what failed *)
(* and directories are answered whole, under conditions on the constants   *)
(* without which the code promises neither.  StreamsInv relates the stream *)
(* of opendir to the directory and to what has been handed to the filler.  *)
(***************************************************************************)
EXTENDS PassThrough, TLAPS

Results == Fds \cup {0} \cup {-e : e \in Errors}
States  == {"unused", "opening", "open", "releasing", "closed"}
HandleRecords == [state : States, object : Objects \cup {None}, fh : Results, filled : BOOLEAN]

\* The steps of one system call, and those that only end a handler.
Calling(w) ==
  Path(w) \/ Xattr(w) \/ Fsync(w) \/ ReadOrWrite(w) \/ Access(w) \/ Flush(w) \/ FillerFails(w)

LEMMA ErrorsKept ==
  /\ Errnos \subseteq Errors
  /\ DirErrnos \subseteq Errors
  /\ ENOMEM \in Errors
  /\ Errors \subseteq Nat \ {0}
  /\ Fds \subseteq Nat \ {0}
  /\ \A e \in Errors : AfterLog(e) \subseteq Errors
  /\ \A e \in Errors \cup {0} : AfterLog(e) \subseteq Errors \cup {0}
  /\ \A e \in Errors \cup {0} : -e \in Results /\ -e \notin Fds
BY PassThroughAssumption DEF Errors, AfterLog, Results, EMFILE, ENOMEM

LEMMA OpenErrorsFit == OpenErrors \subseteq Errors
BY DEF OpenErrors, Errors

LEMMA Typed ==
  IInv => /\ table \in [Fds -> Objects \cup {None}]
          /\ position \in [Fds -> 0 .. Entries]
          /\ handle \in [Handles -> HandleRecords]
          /\ pc \in [Workers -> {"idle", "call", "close", "entry", "reply"}]
          /\ op \in [Workers -> [kind : Kinds, handle : Handles \cup {None}]]
          /\ errno \in [Workers -> Errors \cup {0}]
          /\ ret \in [Workers -> Results]
          /\ failed \in [Workers -> Errors \cup {0}]
          /\ listed \in [Workers -> 0 .. Entries]
BY DEF IInv, TypeOK, HandleRecords, States, Results

\* A change of one field of one handle.
LEMMA RecordsKept ==
  ASSUME NEW r \in HandleRecords
  PROVE  /\ \A s \in States : [r EXCEPT !.state = s] \in HandleRecords
         /\ \A v \in Results : [r EXCEPT !.fh = v] \in HandleRecords
<1>1. ASSUME NEW s \in States PROVE [r EXCEPT !.state = s] \in HandleRecords
  <2>1. [r EXCEPT !.state = s] =
          [state |-> s, object |-> r.object, fh |-> r.fh, filled |-> r.filled]
    BY DEF HandleRecords
  <2>2. QED
    BY <2>1 DEF HandleRecords
<1>2. ASSUME NEW v \in Results PROVE [r EXCEPT !.fh = v] \in HandleRecords
  BY DEF HandleRecords
<1>3. QED
  BY <1>1, <1>2

LEMMA StateSet ==
  ASSUME handle \in [Handles -> HandleRecords], NEW k, NEW s,
         handle' = [handle EXCEPT ![k].state = s]
  PROVE  \A h \in Handles : /\ handle'[h].fh = handle[h].fh
                            /\ handle'[h].object = handle[h].object
                            /\ handle'[h].state = IF h = k THEN s ELSE handle[h].state
<1> SUFFICES ASSUME NEW h \in Handles
             PROVE  /\ handle'[h].fh = handle[h].fh
                    /\ handle'[h].object = handle[h].object
                    /\ handle'[h].state = IF h = k THEN s ELSE handle[h].state
  OBVIOUS
<1>1. handle[h] \in HandleRecords
  OBVIOUS
<1>2. handle'[h] = IF h = k THEN [handle[h] EXCEPT !.state = s] ELSE handle[h]
  OBVIOUS
<1>3. QED
  BY <1>1, <1>2 DEF HandleRecords

LEMMA NewHandle ==
  \A object \in Objects :
    LET r == [Unused EXCEPT !.state = "opening", !.object = object]
    IN  r \in HandleRecords /\ r.state = "opening" /\ r.object = object /\ r.fh = 0
BY DEF Unused, HandleRecords, States, Results

\* A request that uses a handle, or is about to close it, finds its descriptor.
LEMMA UsersHold ==
  IInv => \A w \in Workers :
            (Busy(w) /\ (Uses(w) \/ (Closes(w) /\ pc[w] = "call")))
              => op[w].handle \in Holding /\ Fh(w) \in Fds /\ table[Fh(w)] # None
BY PassThroughAssumption DEF IInv, TypeOK, RequestsFit, HandleKeepsObject, ObjectsKnown, Holding,
   Fh, Busy, Uses, Opens, Closes, FileKinds, DirKinds

\* What open and opendir do to their handle and to the descriptors.
LEMMA OpenDoes ==
  ASSUME IInv, NEW w \in Workers, Open(w) \/ Opendir(w)
  PROVE  /\ pc[w] = "call" /\ pc' = [pc EXCEPT ![w] = "reply"]
         /\ op' = op /\ listed' = listed /\ Opens(w)
         /\ op[w].handle \in Handles /\ handle[op[w].handle].state = "opening"
         /\ \A g \in Handles : /\ handle'[g].state = handle[g].state
                               /\ handle'[g].object = handle[g].object
                               /\ g # op[w].handle => handle'[g].fh = handle[g].fh
         /\ \A v \in Workers \ {w} : ret'[v] = ret[v]
         /\ \/ \E d \in Fds :
                 /\ table[d] = None
                 /\ table' = [table EXCEPT ![d] = handle[op[w].handle].object]
                 /\ position' = [position EXCEPT ![d] = 0]
                 /\ handle'[op[w].handle].fh = d /\ ret'[w] = 0
            \/ /\ table' = table /\ position' = position
               /\ handle'[op[w].handle].fh \notin Fds /\ ret'[w] # 0
<1>1. /\ pc[w] = "call" /\ pc' = [pc EXCEPT ![w] = "reply"]
      /\ op' = op /\ listed' = listed /\ Opens(w)
  BY DEF Open, Opendir, Moves, Opens
<1>2. /\ op[w].handle \in Handles /\ handle[op[w].handle].state = "opening"
      /\ handle[op[w].handle].fh \notin Fds
  BY <1>1 DEF IInv, RequestsFit, OpenedFits, Busy
<1>3. PICK h \in Handles : h = op[w].handle
  BY <1>2
<1>4. handle \in [Handles -> HandleRecords] /\ ret \in [Workers -> Results]
  BY Typed
<1> USE DEF Sets, HandleRecords
<1>5. CASE \E d \in FreeFds : /\ Takes(d, handle[op[w].handle].object)
                              /\ handle' = [handle EXCEPT ![op[w].handle].fh = d]
                              /\ ret' = Sets(ret, w, 0)
  <2>1. PICK d \in FreeFds : /\ Takes(d, handle[op[w].handle].object)
                             /\ handle' = [handle EXCEPT ![h].fh = d]
                             /\ ret' = Sets(ret, w, 0)
    BY <1>3, <1>5
  <2>2. d \in Fds /\ table[d] = None
    BY DEF FreeFds
  <2>3. \A g \in Handles : /\ handle'[g].state = handle[g].state
                           /\ handle'[g].object = handle[g].object
                           /\ g # h => handle'[g].fh = handle[g].fh
    BY <1>4, <2>1
  <2>4. handle'[h].fh = d
    BY <1>4, <2>1
  <2>5. /\ ret'[w] = 0 /\ \A v \in Workers \ {w} : ret'[v] = ret[v]
        /\ table' = [table EXCEPT ![d] = handle[op[w].handle].object]
        /\ position' = [position EXCEPT ![d] = 0]
    BY <1>4, <2>1 DEF Takes
  <2>6. QED
    BY <1>1, <1>2, <1>3, <2>2, <2>3, <2>4, <2>5
<1>6. CASE \E found \in Errors :
             /\ handle' = [handle EXCEPT ![op[w].handle].fh = -found] \/ handle' = handle
             /\ ret' = Sets(ret, w, -found) /\ UNCHANGED <<table, position>>
  BY <1>1, <1>2, <1>3, <1>4, <1>6, ErrorsKept
<1>7. QED
  BY <1>5, <1>6, OpenErrorsFit, ErrorsKept DEF Open, Opendir, LogError

\* What a reply does to the handle of its request: it stays as it is, or becomes
\* open with the descriptor that it has, or is forgotten without one.
LEMMA RepliesDoes ==
  ASSUME IInv, NEW w \in Workers, Replies(w)
  PROVE  /\ pc[w] = "reply" /\ pc' = [pc EXCEPT ![w] = "idle"]
         /\ table' = table /\ position' = position
         /\ \A v \in Workers \ {w} : op'[v] = op[v] /\ ret'[v] = ret[v] /\ listed'[v] = listed[v]
         /\ \A h \in Handles :
              /\ (h # op[w].handle \/ ~(Opens(w) \/ Closes(w))) =>
                    /\ handle'[h].state = handle[h].state
                    /\ handle'[h].object = handle[h].object /\ handle'[h].fh = handle[h].fh
              /\ (h = op[w].handle /\ Opens(w) /\ handle[h].fh \in Fds) =>
                    /\ handle[h].state = "opening" /\ handle'[h].state = "open"
                    /\ handle'[h].object = handle[h].object /\ handle'[h].fh = handle[h].fh
              /\ (h = op[w].handle /\ ((Opens(w) /\ handle[h].fh \notin Fds) \/ Closes(w))) =>
                    /\ handle[h].state = IF Opens(w) THEN "opening" ELSE "closed"
                    /\ handle'[h].state = "unused" /\ handle'[h].fh = 0
<1>1. pc[w] = "reply" /\ Busy(w)
  BY DEF Replies, Moves, Busy
<1>2. /\ pc' = [pc EXCEPT ![w] = "idle"] /\ table' = table /\ position' = position
      /\ \A v \in Workers \ {w} : op'[v] = op[v] /\ ret'[v] = ret[v] /\ listed'[v] = listed[v]
  BY Typed DEF Replies, Moves, Sets
<1>3. handle \in [Handles -> HandleRecords]
  BY Typed
<1>4. SUFFICES ASSUME NEW h \in Handles
      PROVE  /\ (h # op[w].handle \/ ~(Opens(w) \/ Closes(w))) =>
                   /\ handle'[h].state = handle[h].state
                   /\ handle'[h].object = handle[h].object /\ handle'[h].fh = handle[h].fh
             /\ (h = op[w].handle /\ Opens(w) /\ handle[h].fh \in Fds) =>
                   /\ handle[h].state = "opening" /\ handle'[h].state = "open"
                   /\ handle'[h].object = handle[h].object /\ handle'[h].fh = handle[h].fh
             /\ (h = op[w].handle /\ ((Opens(w) /\ handle[h].fh \notin Fds) \/ Closes(w))) =>
                   /\ handle[h].state = IF Opens(w) THEN "opening" ELSE "closed"
                   /\ handle'[h].state = "unused" /\ handle'[h].fh = 0
  BY <1>1, <1>2
<1>5. handle'[h] = IF h = op[w].handle THEN Settled(w, h) ELSE handle[h]
  BY DEF Replies
<1>6. CASE h # op[w].handle
  BY <1>5, <1>6
<1>7. CASE h = op[w].handle
  <2> USE <1>7 DEF Opens, Closes, Uses
  <2>1. \/ Opens(w) /\ handle[h].state = "opening"
        \/ Closes(w) /\ handle[h].state = "closed"
        \/ Uses(w) /\ handle[h].state = "open"
    BY <1>1, PassThroughAssumption DEF IInv, RequestsFit
  <2>2. ASSUME Opens(w), handle[h].fh \in Fds
        PROVE  /\ handle[h].state = "opening" /\ handle'[h].state = "open"
               /\ handle'[h].object = handle[h].object /\ handle'[h].fh = handle[h].fh
    <3>1. ret[w] = 0 /\ handle[h].state = "opening"
      BY <1>1, <2>1, <2>2 DEF IInv, OpenedFits, FileKinds, DirKinds
    <3>2. handle'[h] = [handle[h] EXCEPT !.state = "open"]
      BY <1>5, <3>1 DEF Settled
    <3>3. QED
      BY <1>3, <3>1, <3>2 DEF HandleRecords
  <2>3. ASSUME (Opens(w) /\ handle[h].fh \notin Fds) \/ Closes(w)
        PROVE  /\ handle[h].state = IF Opens(w) THEN "opening" ELSE "closed"
               /\ handle'[h].state = "unused" /\ handle'[h].fh = 0
    <3>1. /\ handle[h].state = IF Opens(w) THEN "opening" ELSE "closed"
          /\ Opens(w) => ret[w] # 0
      BY <1>1, <2>1, <2>3 DEF IInv, OpenedFits, FileKinds, DirKinds
    <3>2. handle'[h] = Unused
      BY <1>5, <2>3, <3>1 DEF Settled
    <3>3. QED
      BY <3>1, <3>2 DEF Unused
  <2>4. ASSUME ~(Opens(w) \/ Closes(w))
        PROVE  /\ handle'[h].state = handle[h].state
               /\ handle'[h].object = handle[h].object /\ handle'[h].fh = handle[h].fh
    <3>1. handle'[h] = handle[h] \/ handle'[h] = [handle[h] EXCEPT !.filled = ret[w] = 0]
      BY <1>5, <2>1, <2>4 DEF Settled
    <3>2. QED
      BY <1>3, <3>1 DEF HandleRecords
  <2>5. QED
    BY <2>2, <2>3, <2>4
<1>8. QED
  BY <1>6, <1>7

\* The workers in readdir read different streams, which are open.
Reads(w) == pc[w] \in {"call", "entry"} /\ op[w].kind = "readdir"

LEMMA StreamsApart ==
  IInv => /\ \A w \in Workers : pc[w] = "entry" => Reads(w)
          /\ \A w \in Workers :
               Reads(w) => /\ op[w].handle \in Handles /\ handle[op[w].handle].state = "open"
                           /\ Fh(w) \in Fds /\ table[Fh(w)] # None
          /\ \A v, w \in Workers : (v # w /\ Reads(v) /\ Reads(w)) => Fh(v) # Fh(w)
<1> SUFFICES ASSUME IInv
             PROVE  /\ \A w \in Workers : pc[w] = "entry" => Reads(w)
                    /\ \A w \in Workers :
                         Reads(w) => /\ op[w].handle \in Handles
                                     /\ handle[op[w].handle].state = "open"
                                     /\ Fh(w) \in Fds /\ table[Fh(w)] # None
                    /\ \A v, w \in Workers : (v # w /\ Reads(v) /\ Reads(w)) => Fh(v) # Fh(w)
  OBVIOUS
<1>1. \A w \in Workers : Reads(w) => Busy(w) /\ Uses(w)
  BY DEF Reads, Busy, Uses, DirKinds
<1>2. \A w \in Workers : pc[w] = "entry" => Reads(w)
  BY DEF IInv, RequestsFit, Busy, Reads
<1>3. ASSUME NEW w \in Workers, Reads(w)
      PROVE  /\ op[w].handle \in Handles /\ handle[op[w].handle].state = "open"
             /\ Fh(w) \in Fds /\ table[Fh(w)] # None
  BY <1>1, <1>3, UsersHold DEF IInv, RequestsFit
<1>4. \A v, w \in Workers : (v # w /\ Reads(v) /\ Reads(w)) => op[v].handle # op[w].handle
  BY <1>1, <1>3, PassThroughAssumption DEF IInv, SharedByUsers, Reads
<1>5. \A g, h \in Handles :
        (g # h /\ handle[g].state = "open" /\ handle[h].state = "open")
          => handle[g].fh # handle[h].fh
  BY DEF IInv, OwnersApart, Holding
<1>6. QED
  BY <1>1, <1>2, <1>3, <1>4, <1>5 DEF Fh

-----------------------------------------------------------------------------
\* Types: each variable is set to values of its kind.
LEMMA LogSyscallFits ==
  ASSUME errno \in [Workers -> Errors \cup {0}], ret \in [Workers -> Results],
         NEW w \in Workers, NEW e \in Errors \cup {0}, LogSyscall(w, e)
  PROVE  errno' \in [Workers -> Errors \cup {0}] /\ ret' \in [Workers -> Results]
BY ErrorsKept DEF LogSyscall, Sets, Results

LEMMA LogErrorFits ==
  ASSUME errno \in [Workers -> Errors \cup {0}], ret \in [Workers -> Results],
         NEW w \in Workers, NEW found \in Errors \cup {0}, LogError(w, found)
  PROVE  errno' \in [Workers -> Errors \cup {0}] /\ ret' \in [Workers -> Results]
BY ErrorsKept DEF LogError, Sets

LEMMA ResultsTyped ==
  IInv /\ [Next]_vars => (errno \in [Workers -> Errors \cup {0}] /\ ret \in [Workers -> Results])'
<1> SUFFICES ASSUME IInv, [Next]_vars
             PROVE  (errno \in [Workers -> Errors \cup {0}] /\ ret \in [Workers -> Results])'
  OBVIOUS
<1>1. errno \in [Workers -> Errors \cup {0}] /\ ret \in [Workers -> Results]
  BY Typed
<1>2. CASE \E w \in Workers, e \in Errors \cup {0} : LogSyscall(w, e)
  BY <1>1, <1>2, LogSyscallFits
<1>3. CASE \E w \in Workers, found \in Errors \cup {0} : LogError(w, found)
  BY <1>1, <1>3, LogErrorFits
<1>4. CASE /\ \/ UNCHANGED ret
              \/ \E w \in Workers, r \in Results : ret' = [ret EXCEPT ![w] = r]
           /\ \/ UNCHANGED errno
              \/ \E w \in Workers, e \in Errors \cup {0} : errno' = [errno EXCEPT ![w] = e]
  BY <1>1, <1>4
<1> USE <1>1, ErrorsKept, OpenErrorsFit DEF Sets
<1>5. CASE UNCHANGED vars
  BY <1>4, <1>5 DEF vars
<1>6. ASSUME NEW w \in Workers, NEW k \in Kinds, NEW h \in Handles \cup {None}, Arrives(w, k, h)
      PROVE  (errno \in [Workers -> Errors \cup {0}] /\ ret \in [Workers -> Results])'
  BY <1>4, <1>6 DEF Arrives
<1>7. ASSUME NEW w \in Workers,
             \/ PathRequest(w)
             \/ \E h \in Handles : OpenRequest(w, h) \/ HandleRequest(w, h) \/ ReleaseRequest(w, h)
      PROVE  (errno \in [Workers -> Errors \cup {0}] /\ ret \in [Workers -> Results])'
  BY <1>6, <1>7 DEF PathRequest, OpenRequest, HandleRequest, ReleaseRequest, Kinds, PathKinds,
     FileKinds, DirKinds
<1>8. ASSUME NEW w \in Workers,
             \/ Path(w) \/ Xattr(w) \/ Fsync(w) \/ ReadOrWrite(w)
             \/ MknodClose(w) \/ Release(w)
      PROVE  (errno \in [Workers -> Errors \cup {0}] /\ ret \in [Workers -> Results])'
  BY <1>2, <1>8 DEF Path, Xattr, Fsync, ReadOrWrite, Calls, MknodClose, Release
<1>9. ASSUME NEW w \in Workers,
             Access(w) \/ Flush(w) \/ FillerFails(w) \/ Replies(w)
      PROVE  (errno \in [Workers -> Errors \cup {0}] /\ ret \in [Workers -> Results])'
  <2>1. CASE \E e \in Errnos : LogError(w, e)
    BY <1>3, <2>1
  <2>2. CASE UNCHANGED errno /\ (ret' = Sets(ret, w, 0) \/ ret' = Sets(ret, w, -ENOMEM))
    BY <1>4, <2>2 DEF Results
  <2>3. QED
    BY <1>9, <2>1, <2>2 DEF Access, Flush, FillerFails, Replies
<1>10. ASSUME NEW w \in Workers, MknodOpen(w)
       PROVE  (errno \in [Workers -> Errors \cup {0}] /\ ret \in [Workers -> Results])'
  <2>1. CASE \E d \in FreeFds : ret' = Sets(ret, w, d) /\ UNCHANGED errno
    BY <1>4, <2>1 DEF FreeFds, Results
  <2>2. CASE \E e \in OpenErrors : LogSyscall(w, e)
    BY <1>2, <2>2
  <2>3. QED
    BY <1>10, <2>1, <2>2 DEF MknodOpen
<1>11. ASSUME NEW w \in Workers, Open(w) \/ Opendir(w)
       PROVE  (errno \in [Workers -> Errors \cup {0}] /\ ret \in [Workers -> Results])'
  <2>1. CASE /\ ret' = Sets(ret, w, 0)
             /\ UNCHANGED errno \/ \E left \in AfterLog(errno[w]) : errno' = Sets(errno, w, left)
    BY <1>4, <2>1 DEF Results
  <2>2. CASE \E e \in OpenErrors : \E found \in AfterLog(e) : LogError(w, found)
    BY <1>3, <2>2
  <2>3. QED
    BY <1>11, <2>1, <2>2 DEF Open, Opendir
<1>12. ASSUME NEW w \in Workers, ReaddirStarts(w) \/ ReaddirFills(w)
       PROVE  (errno \in [Workers -> Errors \cup {0}] /\ ret \in [Workers -> Results])'
  <2>1. CASE \E e \in Errors \cup {0} : \E found \in AfterLog(e) : LogError(w, found)
    BY <1>3, <2>1
  <2>2. CASE /\ UNCHANGED ret \/ ret' = Sets(ret, w, 0)
             /\ UNCHANGED errno \/ \E e \in DirErrnos : errno' = Sets(errno, w, e)
    BY <1>4, <2>2 DEF Results
  <2>3. QED
    BY <1>12, <2>1, <2>2 DEF ReaddirStarts, ReaddirFills
<1>13. ASSUME NEW w \in Workers, Releasedir(w)
       PROVE  (errno \in [Workers -> Errors \cup {0}] /\ ret \in [Workers -> Results])'
  <2>1. PICK e \in Errnos \cup {0} : errno' = Sets(errno, w, IF e = 0 THEN errno[w] ELSE e)
    BY <1>13 DEF Releasedir
  <2>2. (IF e = 0 THEN errno[w] ELSE e) \in Errors \cup {0}
    OBVIOUS
  <2>3. ret' = Sets(ret, w, 0) /\ 0 \in Results
    BY <1>13 DEF Releasedir, Results
  <2>4. QED
    BY <1>4, <2>1, <2>2, <2>3
<1>14. QED
  BY <1>5, <1>7, <1>8, <1>9, <1>10, <1>11, <1>12, <1>13 DEF Next, HandlerSteps

LEMMA FailedTyped == IInv /\ [Next]_vars => (failed \in [Workers -> Errors \cup {0}])'
<1> SUFFICES ASSUME IInv, [Next]_vars PROVE (failed \in [Workers -> Errors \cup {0}])'
  OBVIOUS
<1>1. failed \in [Workers -> Errors \cup {0}]
  BY Typed
<1>2. CASE \/ UNCHANGED failed
           \/ \E w \in Workers, e \in Errors \cup {0} : failed' = [failed EXCEPT ![w] = e]
  BY <1>1, <1>2
<1> USE <1>2, ErrorsKept, OpenErrorsFit DEF Sets
<1>3. CASE UNCHANGED vars
  BY <1>3 DEF vars
<1>4. ASSUME NEW w \in Workers,
             \/ PathRequest(w)
             \/ \E h \in Handles : OpenRequest(w, h) \/ HandleRequest(w, h) \/ ReleaseRequest(w, h)
      PROVE  (failed \in [Workers -> Errors \cup {0}])'
  BY <1>4 DEF PathRequest, OpenRequest, HandleRequest, ReleaseRequest, Arrives
<1>5. ASSUME NEW w \in Workers, Calling(w)
      PROVE  (failed \in [Workers -> Errors \cup {0}])'
  BY <1>5 DEF Calling, Path, Xattr, Fsync, ReadOrWrite, Calls, LogSyscall, Access, Flush,
     FillerFails
<1>6. ASSUME NEW w \in Workers, MknodOpen(w) \/ MknodClose(w) \/ Open(w) \/ Opendir(w)
      PROVE  (failed \in [Workers -> Errors \cup {0}])'
  BY <1>6 DEF MknodOpen, MknodClose, LogSyscall, Open, Opendir
<1>7. ASSUME NEW w \in Workers,
             Release(w) \/ Releasedir(w) \/ ReaddirStarts(w) \/ ReaddirFills(w) \/ Replies(w)
      PROVE  (failed \in [Workers -> Errors \cup {0}])'
  BY <1>7 DEF Release, LogSyscall, Releasedir, ReaddirStarts, ReaddirFills, Replies
<1>8. QED
  BY <1>3, <1>4, <1>5, <1>6, <1>7 DEF Next, HandlerSteps, Calling

LEMMA RequestsTyped ==
  IInv /\ [Next]_vars => (/\ pc \in [Workers -> {"idle", "call", "close", "entry", "reply"}]
                          /\ op \in [Workers -> [kind : Kinds, handle : Handles \cup {None}]])'
<1> SUFFICES ASSUME IInv, [Next]_vars
             PROVE  (/\ pc \in [Workers -> {"idle", "call", "close", "entry", "reply"}]
                     /\ op \in [Workers -> [kind : Kinds, handle : Handles \cup {None}]])'
  OBVIOUS
<1>1. /\ pc \in [Workers -> {"idle", "call", "close", "entry", "reply"}]
      /\ op \in [Workers -> [kind : Kinds, handle : Handles \cup {None}]]
  BY Typed
<1>2. CASE /\ \/ UNCHANGED pc
              \/ \E w \in Workers, s \in {"idle", "call", "close", "entry", "reply"} :
                   pc' = [pc EXCEPT ![w] = s]
           /\ \/ UNCHANGED op
              \/ \E w \in Workers, r \in [kind : Kinds, handle : Handles \cup {None}] :
                   op' = [op EXCEPT ![w] = r]
  BY <1>1, <1>2
<1> USE <1>2 DEF Sets, Moves, Kinds, PathKinds, FileKinds, DirKinds
<1>3. CASE UNCHANGED vars
  BY <1>3 DEF vars
<1>4. ASSUME NEW w \in Workers,
             \/ PathRequest(w)
             \/ \E h \in Handles : OpenRequest(w, h) \/ HandleRequest(w, h) \/ ReleaseRequest(w, h)
      PROVE  (/\ pc \in [Workers -> {"idle", "call", "close", "entry", "reply"}]
              /\ op \in [Workers -> [kind : Kinds, handle : Handles \cup {None}]])'
  <2>1. \E k \in Kinds, h \in Handles \cup {None} : Arrives(w, k, h)
    BY <1>4 DEF PathRequest, OpenRequest, HandleRequest, ReleaseRequest
  <2>2. QED
    BY <2>1 DEF Arrives
<1>5. ASSUME NEW w \in Workers, HandlerSteps(w)
      PROVE  (/\ pc \in [Workers -> {"idle", "call", "close", "entry", "reply"}]
              /\ op \in [Workers -> [kind : Kinds, handle : Handles \cup {None}]])'
  BY <1>5 DEF HandlerSteps, Path, Xattr, Fsync, ReadOrWrite, Calls, Access, Flush, FillerFails,
     MknodOpen, MknodClose, Open, Opendir, Release, Releasedir, ReaddirStarts, ReaddirFills,
     Replies, NoRequest
<1>6. QED
  BY <1>3, <1>4, <1>5 DEF Next

LEMMA HandlesTyped == IInv /\ [Next]_vars => (handle \in [Handles -> HandleRecords])'
<1> SUFFICES ASSUME IInv, [Next]_vars PROVE (handle \in [Handles -> HandleRecords])'
  OBVIOUS
<1>1. handle \in [Handles -> HandleRecords]
  BY Typed
<1>2. CASE \E h \in Handles, r \in HandleRecords : handle' = [handle EXCEPT ![h] = r]
  BY <1>1, <1>2
<1>3. CASE UNCHANGED handle
  BY <1>1, <1>3
<1>4. ASSUME NEW h, \/ \E s \in States : handle' = [handle EXCEPT ![h].state = s]
                    \/ \E v \in Results : handle' = [handle EXCEPT ![h].fh = v]
      PROVE  (handle \in [Handles -> HandleRecords])'
  <2>1. CASE h \in Handles
    <3>1. CASE \E s \in States : handle' = [handle EXCEPT ![h].state = s]
      <4>1. PICK s \in States : handle' = [handle EXCEPT ![h].state = s]
        BY <3>1
      <4>2. [handle[h] EXCEPT !.state = s] \in HandleRecords
        BY <1>1, <2>1, RecordsKept
      <4>3. QED
        BY <1>1, <4>1, <4>2
    <3>2. CASE \E v \in Results : handle' = [handle EXCEPT ![h].fh = v]
      <4>1. PICK v \in Results : handle' = [handle EXCEPT ![h].fh = v]
        BY <3>2
      <4>2. [handle[h] EXCEPT !.fh = v] \in HandleRecords
        BY <1>1, <2>1, RecordsKept
      <4>3. QED
        BY <1>1, <4>1, <4>2
    <3>3. QED
      BY <1>4, <3>1, <3>2
  <2>2. CASE h \notin Handles
    BY <1>1, <1>4, <2>2
  <2>3. QED
    BY <2>1, <2>2
<1>5. ASSUME NEW w \in Workers, NEW h \in Handles, OpenRequest(w, h)
      PROVE  (handle \in [Handles -> HandleRecords])'
  BY <1>2, <1>5, NewHandle DEF OpenRequest
<1>6. ASSUME NEW w \in Workers, NEW h \in Handles, ReleaseRequest(w, h)
      PROVE  (handle \in [Handles -> HandleRecords])'
  <2>1. \E s \in States : handle' = [handle EXCEPT ![h].state = s]
    BY <1>6 DEF ReleaseRequest, States
  <2>2. QED
    BY <1>4, <2>1
<1>7. ASSUME NEW w \in Workers, Open(w) \/ Opendir(w)
      PROVE  (handle \in [Handles -> HandleRecords])'
  <2>1. \/ UNCHANGED handle
        \/ \E v \in Results : handle' = [handle EXCEPT ![op[w].handle].fh = v]
    <3>1. CASE \E d \in FreeFds : handle' = [handle EXCEPT ![op[w].handle].fh = d]
      BY <3>1 DEF FreeFds, Results
    <3>2. CASE \E e \in OpenErrors : \E found \in AfterLog(e) :
                 handle' = [handle EXCEPT ![op[w].handle].fh = -found]
      BY <3>2, OpenErrorsFit, ErrorsKept
    <3>3. QED
      BY <1>7, <3>1, <3>2 DEF Open, Opendir
  <2>2. QED
    BY <1>3, <1>4, <2>1
<1>8. ASSUME NEW w \in Workers, Release(w) \/ Releasedir(w)
      PROVE  (handle \in [Handles -> HandleRecords])'
  <2>1. \E s \in States : handle' = [handle EXCEPT ![op[w].handle].state = s]
    BY <1>8 DEF Release, Releasedir, States
  <2>2. QED
    BY <1>4, <2>1
<1>9. ASSUME NEW w \in Workers, Replies(w)
      PROVE  (handle \in [Handles -> HandleRecords])'
  <2>1. ASSUME NEW h \in Handles PROVE Settled(w, h) \in HandleRecords
    <3>1. Unused \in HandleRecords
      BY DEF Unused, HandleRecords, States, Results
    <3>2. [handle[h] EXCEPT !.state = "open"] \in HandleRecords
      BY <1>1, RecordsKept DEF States
    <3>3. [handle[h] EXCEPT !.filled = ret[w] = 0] \in HandleRecords
      BY <1>1 DEF HandleRecords
    <3>4. QED
      BY <1>1, <3>1, <3>2, <3>3 DEF Settled
  <2>2. QED
    BY <1>1, <1>9, <2>1 DEF Replies
<1>10. QED
  BY <1>3, <1>5, <1>6, <1>7, <1>8, <1>9 DEF Next, HandlerSteps, vars, PathRequest, HandleRequest,
     Path, Xattr, Fsync, ReadOrWrite, Calls, Access, Flush, FillerFails, MknodOpen, MknodClose,
     ReaddirStarts, ReaddirFills

LEMMA StreamsTyped ==
  IInv /\ [Next]_vars
    => (table \in [Fds -> Objects \cup {None}] /\ position \in [Fds -> 0 .. Entries])'
<1> SUFFICES ASSUME IInv, [Next]_vars
             PROVE  (table \in [Fds -> Objects \cup {None}] /\ position \in [Fds -> 0 .. Entries])'
  OBVIOUS
<1>1. /\ table \in [Fds -> Objects \cup {None}] /\ position \in [Fds -> 0 .. Entries]
      /\ handle \in [Handles -> HandleRecords] /\ Entries \in Nat
  BY Typed, PassThroughAssumption
<1>2. CASE /\ \/ UNCHANGED table
              \/ \E object \in Objects \cup {None} : \E d : table' = [table EXCEPT ![d] = object]
           /\ \/ UNCHANGED position
              \/ \E d \in Fds : position' = [position EXCEPT ![d] = 0]
              \/ \E d \in Fds : /\ position[d] < Entries
                                /\ position' = [position EXCEPT ![d] = position[d] + 1]
  BY <1>1, <1>2
<1>3. ASSUME NEW w \in Workers, Open(w) \/ Opendir(w)
      PROVE  (table \in [Fds -> Objects \cup {None}] /\ position \in [Fds -> 0 .. Entries])'
  <2>1. handle[op[w].handle].object \in Objects \cup {None}
    BY <1>1, <1>3, OpenDoes DEF HandleRecords
  <2>2. QED
    BY <1>2, <1>3, <2>1, OpenDoes
<1>4. ASSUME NEW w \in Workers, MknodOpen(w)
      PROVE  (table \in [Fds -> Objects \cup {None}] /\ position \in [Fds -> 0 .. Entries])'
  BY <1>2, <1>4 DEF MknodOpen, Takes, FreeFds, Sets, Objects
<1>5. ASSUME NEW w \in Workers, ReaddirStarts(w) \/ ReaddirFills(w)
      PROVE  (table \in [Fds -> Objects \cup {None}] /\ position \in [Fds -> 0 .. Entries])'
  <2>1. Fh(w) \in Fds
    BY <1>5, StreamsApart DEF ReaddirStarts, ReaddirFills, Moves, Reads
  <2>2. QED
    BY <1>2, <1>5, <2>1 DEF ReaddirStarts, ReaddirFills, Sets
<1>6. ASSUME NEW w \in Workers, MknodClose(w) \/ Release(w) \/ Releasedir(w)
      PROVE  (table \in [Fds -> Objects \cup {None}] /\ position \in [Fds -> 0 .. Entries])'
  BY <1>2, <1>6 DEF MknodClose, Release, Releasedir, Sets
<1>7. QED
  BY <1>2, <1>3, <1>4, <1>5, <1>6 DEF Next, HandlerSteps, vars, PathRequest, OpenRequest,
     HandleRequest, ReleaseRequest, Arrives, Path, Xattr, Fsync, ReadOrWrite, Calls, Access, Flush,
     FillerFails, Replies

LEMMA ListedTyped == IInv /\ [Next]_vars => (listed \in [Workers -> 0 .. Entries])'
<1> SUFFICES ASSUME IInv, [Next]_vars PROVE (listed \in [Workers -> 0 .. Entries])'
  OBVIOUS
<1>1. listed \in [Workers -> 0 .. Entries] /\ Entries \in Nat
  BY Typed, PassThroughAssumption
<1>2. ASSUME NEW w \in Workers, ReaddirFills(w) PROVE (listed \in [Workers -> 0 .. Entries])'
  <2>1. pc[w] = "entry" /\ listed' = [listed EXCEPT ![w] = listed[w] + 1]
    BY <1>2 DEF ReaddirFills, Moves, Sets
  <2>2. listed[w] < position[Fh(w)] /\ position[Fh(w)] \in 0 .. Entries
    BY <2>1, StreamsApart, Typed DEF IInv, EntriesCounted
  <2>3. QED
    BY <1>1, <2>1, <2>2
<1>3. CASE UNCHANGED listed \/ \E w \in Workers : listed' = [listed EXCEPT ![w] = 0]
  BY <1>1, <1>3
<1>4. QED
  BY <1>2, <1>3 DEF Next, HandlerSteps, vars, PathRequest, OpenRequest, HandleRequest,
     ReleaseRequest, Arrives, Path, Xattr, Fsync, ReadOrWrite, Calls, Access, MknodOpen, MknodClose,
     Open, Flush, Release, Opendir, ReaddirStarts, FillerFails, Releasedir, Replies, Sets

LEMMA TypeStep == IInv /\ [Next]_vars => TypeOK'
BY ResultsTyped, FailedTyped, RequestsTyped, HandlesTyped, StreamsTyped, ListedTyped
   DEF TypeOK, HandleRecords, States, Results

LEMMA RequestsStep == IInv /\ [Next]_vars => RequestsFit'
<1> SUFFICES ASSUME IInv, [Next]_vars PROVE RequestsFit'
  OBVIOUS
<1> USE PassThroughAssumption DEF IInv, TypeOK, RequestsFit, SharedByUsers,
     Busy, Opens, Closes, Uses, Moves, Sets, PathKinds, FileKinds, DirKinds
<1>1. CASE UNCHANGED vars
  BY <1>1 DEF vars
<1>2. ASSUME NEW w \in Workers, PathRequest(w)
      PROVE  RequestsFit'
  BY <1>2 DEF PathRequest, Arrives
<1>3. ASSUME NEW w \in Workers, NEW h \in Handles, OpenRequest(w, h)
      PROVE  RequestsFit'
  BY <1>3 DEF OpenRequest, Arrives, Unused
<1>4. ASSUME NEW w \in Workers, NEW h \in Handles, HandleRequest(w, h)
      PROVE  RequestsFit'
  BY <1>4 DEF HandleRequest, Arrives
<1>5. ASSUME NEW w \in Workers, NEW h \in Handles, ReleaseRequest(w, h)
      PROVE  RequestsFit'
  BY <1>5 DEF ReleaseRequest, Arrives
<1>6. ASSUME NEW w \in Workers, Calling(w)
      PROVE  RequestsFit'
  BY <1>6 DEF Calling, Path, Xattr, Fsync, ReadOrWrite, Calls, Access, Flush,
     FillerFails, LogSyscall, LogError
<1>7. ASSUME NEW w \in Workers, MknodOpen(w) \/ MknodClose(w)
      PROVE  RequestsFit'
  BY <1>7 DEF MknodOpen, MknodClose, Takes, FreeFds, LogSyscall
<1>8. ASSUME NEW w \in Workers, Open(w) \/ Opendir(w)
      PROVE  RequestsFit'
  BY <1>8, OpenDoes
<1>9. ASSUME NEW w \in Workers, Release(w) \/ Releasedir(w)
      PROVE  RequestsFit'
  BY <1>9 DEF Release, Releasedir, LogSyscall
<1>10. ASSUME NEW w \in Workers, ReaddirStarts(w) \/ ReaddirFills(w)
      PROVE  RequestsFit'
  BY <1>10 DEF ReaddirStarts, ReaddirFills, LogError
<1>11. ASSUME NEW w \in Workers, Replies(w)
      PROVE  RequestsFit'
  BY <1>11, RepliesDoes
<1>12. QED
  BY <1>1, <1>2, <1>3, <1>4, <1>5, <1>6, <1>7, <1>8, <1>9, <1>10, <1>11 DEF Next, HandlerSteps,
     Calling

LEMMA SharedStep == IInv /\ [Next]_vars => SharedByUsers'
<1> SUFFICES ASSUME IInv, [Next]_vars PROVE SharedByUsers'
  OBVIOUS
<1> USE PassThroughAssumption DEF IInv, TypeOK, RequestsFit, SharedByUsers,
     Busy, Opens, Closes, Uses, Moves, Sets, PathKinds, FileKinds, DirKinds
<1>1. CASE UNCHANGED vars
  BY <1>1 DEF vars
<1>2. ASSUME NEW w \in Workers, PathRequest(w)
      PROVE  SharedByUsers'
  BY <1>2 DEF PathRequest, Arrives
<1>3. ASSUME NEW w \in Workers, NEW h \in Handles, OpenRequest(w, h)
      PROVE  SharedByUsers'
  <2>1. \A v \in Workers : Busy(v) => op[v].handle # h
    BY <1>3 DEF OpenRequest
  <2>2. \A v \in Workers \ {w} : pc'[v] = pc[v] /\ op'[v] = op[v]
    BY <1>3 DEF OpenRequest, Arrives
  <2>3. op'[w].handle = h
    BY <1>3 DEF OpenRequest, Arrives
  <2>4. QED
    BY <2>1, <2>2, <2>3
<1>4. ASSUME NEW w \in Workers, NEW h \in Handles, HandleRequest(w, h)
      PROVE  SharedByUsers'
  BY <1>4 DEF HandleRequest, Arrives
<1>5. ASSUME NEW w \in Workers, NEW h \in Handles, ReleaseRequest(w, h)
      PROVE  SharedByUsers'
  BY <1>5 DEF ReleaseRequest, Arrives
<1>6. ASSUME NEW w \in Workers, Calling(w)
      PROVE  SharedByUsers'
  BY <1>6 DEF Calling, Path, Xattr, Fsync, ReadOrWrite, Calls, Access, Flush,
     FillerFails, LogSyscall, LogError
<1>7. ASSUME NEW w \in Workers, MknodOpen(w) \/ MknodClose(w)
      PROVE  SharedByUsers'
  BY <1>7 DEF MknodOpen, MknodClose, Takes, FreeFds, LogSyscall
<1>8. ASSUME NEW w \in Workers, Open(w) \/ Opendir(w)
      PROVE  SharedByUsers'
  BY <1>8, OpenDoes
<1>9. ASSUME NEW w \in Workers, Release(w) \/ Releasedir(w)
      PROVE  SharedByUsers'
  BY <1>9 DEF Release, Releasedir, LogSyscall
<1>10. ASSUME NEW w \in Workers, ReaddirStarts(w) \/ ReaddirFills(w)
      PROVE  SharedByUsers'
  BY <1>10 DEF ReaddirStarts, ReaddirFills, LogError
<1>11. ASSUME NEW w \in Workers, Replies(w)
      PROVE  SharedByUsers'
  BY <1>11 DEF Replies, NoRequest
<1>12. QED
  BY <1>1, <1>2, <1>3, <1>4, <1>5, <1>6, <1>7, <1>8, <1>9, <1>10, <1>11 DEF Next, HandlerSteps,
     Calling

LEMMA ClosingKeepsFh ==
  ASSUME IInv, NEW w \in Workers, Release(w) \/ Releasedir(w)
  PROVE  \A g \in Handles : handle'[g].fh = handle[g].fh
<1>1. handle' = [handle EXCEPT ![op[w].handle].state = "closed"]
  BY DEF Release, Releasedir
<1>2. QED
  BY <1>1, Typed, StateSet

LEMMA OpenedStep == IInv /\ [Next]_vars => OpenedFits'
<1> SUFFICES ASSUME IInv, [Next]_vars PROVE OpenedFits'
  OBVIOUS
<1> USE PassThroughAssumption, ErrorsKept, OpenErrorsFit
    DEF IInv, TypeOK, RequestsFit, SharedByUsers,
     Busy, Opens, Closes, Uses, Moves, Sets, PathKinds, FileKinds, DirKinds, OpenedFits
<1>1. CASE UNCHANGED vars
  BY <1>1 DEF vars
<1>2. ASSUME NEW w \in Workers, PathRequest(w)
      PROVE  OpenedFits'
  BY <1>2 DEF PathRequest, Arrives
<1>3. ASSUME NEW w \in Workers, NEW h \in Handles, OpenRequest(w, h)
      PROVE  OpenedFits'
  BY <1>3 DEF OpenRequest, Arrives, Unused
<1>4. ASSUME NEW w \in Workers, NEW h \in Handles, HandleRequest(w, h)
      PROVE  OpenedFits'
  BY <1>4 DEF HandleRequest, Arrives
<1>5. ASSUME NEW w \in Workers, NEW h \in Handles, ReleaseRequest(w, h)
      PROVE  OpenedFits'
  BY <1>5 DEF ReleaseRequest, Arrives
<1>6. ASSUME NEW w \in Workers, Calling(w)
      PROVE  OpenedFits'
  BY <1>6 DEF Calling, Path, Xattr, Fsync, ReadOrWrite, Calls, Access, Flush,
     FillerFails, LogSyscall, LogError
<1>7. ASSUME NEW w \in Workers, MknodOpen(w) \/ MknodClose(w)
      PROVE  OpenedFits'
  BY <1>7 DEF MknodOpen, MknodClose, Takes, FreeFds, LogSyscall
<1>8. ASSUME NEW w \in Workers, Open(w) \/ Opendir(w)
      PROVE  OpenedFits'
  <2>1. /\ pc' = [pc EXCEPT ![w] = "reply"] /\ op' = op /\ Busy(w) /\ Opens(w)
        /\ op[w].handle \in Handles /\ \A v \in Workers \ {w} : ret'[v] = ret[v]
        /\ handle'[op[w].handle].fh \in Fds <=> ret'[w] = 0
    BY <1>8, OpenDoes
  <2>2. \A v \in Workers \ {w} :
          Busy(v) /\ Opens(v) => op[v].handle \in Handles /\ op[v].handle # op[w].handle
    BY <2>1
  <2>3. \A g \in Handles : g # op[w].handle => handle'[g].fh = handle[g].fh
    BY <1>8, OpenDoes
  <2>4. QED
    BY <2>1, <2>2, <2>3
<1>9. ASSUME NEW w \in Workers, Release(w) \/ Releasedir(w)
      PROVE  OpenedFits'
  <2>1. \A g \in Handles : handle'[g].fh = handle[g].fh
    BY <1>9, ClosingKeepsFh
  <2>2. /\ op' = op /\ ~Opens(w)
        /\ \A v \in Workers \ {w} : pc'[v] = pc[v] /\ ret'[v] = ret[v]
    BY <1>9, Typed DEF Release, Releasedir, LogSyscall
  <2>3. QED
    BY <2>1, <2>2
<1>10. ASSUME NEW w \in Workers, ReaddirStarts(w) \/ ReaddirFills(w)
      PROVE  OpenedFits'
  BY <1>10 DEF ReaddirStarts, ReaddirFills, LogError
<1>11. ASSUME NEW w \in Workers, Replies(w)
      PROVE  OpenedFits'
  BY <1>11, RepliesDoes
<1>12. QED
  BY <1>1, <1>2, <1>3, <1>4, <1>5, <1>6, <1>7, <1>8, <1>9, <1>10, <1>11 DEF Next, HandlerSteps,
     Calling

LEMMA KeepsStep == IInv /\ [Next]_vars => HandleKeepsObject'
<1> SUFFICES ASSUME IInv, [Next]_vars, NEW g \in Handles, (g \in Holding)'
             PROVE  (handle[g].fh \in Fds /\ table[handle[g].fh] = handle[g].object)'
  BY DEF HandleKeepsObject, Holding
<1>1. table \in [Fds -> Objects \cup {None}] /\ handle \in [Handles -> HandleRecords]
  BY Typed
<1>2. g \in Holding => /\ handle[g].fh \in Fds /\ table[handle[g].fh] = handle[g].object
                       /\ table[handle[g].fh] # None
  BY DEF IInv, HandleKeepsObject, ObjectsKnown, Holding
<1>3. CASE /\ g \in Holding /\ handle'[g].fh = handle[g].fh /\ handle'[g].object = handle[g].object
           /\ table'[handle[g].fh] = table[handle[g].fh]
  BY <1>2, <1>3
<1>4. CASE UNCHANGED <<table, handle>>
  BY <1>3, <1>4 DEF Holding
<1>5. ASSUME NEW w \in Workers, NEW h \in Handles, OpenRequest(w, h)
      PROVE  (handle[g].fh \in Fds /\ table[handle[g].fh] = handle[g].object)'
  <2>1. PICK object \in Objects :
          handle' = [handle EXCEPT ![h] = [Unused EXCEPT !.state = "opening", !.object = object]]
    BY <1>5 DEF OpenRequest
  <2>2. handle'[h].state = "opening" /\ handle'[h].fh = 0
    BY <1>1, <2>1 DEF Unused
  <2>3. g # h
    BY <2>2, PassThroughAssumption DEF Holding
  <2>4. handle'[g] = handle[g] /\ table' = table
    BY <1>1, <1>5, <2>1, <2>3 DEF OpenRequest, Arrives
  <2>5. QED
    BY <1>3, <2>4 DEF Holding
<1>6. ASSUME NEW w \in Workers, NEW h \in Handles, ReleaseRequest(w, h)
      PROVE  (handle[g].fh \in Fds /\ table[handle[g].fh] = handle[g].object)'
  <2>1. /\ handle'[g].fh = handle[g].fh /\ handle'[g].object = handle[g].object /\ table' = table
        /\ handle'[g].state = handle[g].state \/ handle[g].state = "open"
    BY <1>1, <1>6 DEF ReleaseRequest, Arrives, HandleRecords
  <2>2. QED
    BY <1>3, <2>1 DEF Holding
<1>7. ASSUME NEW w \in Workers, MknodOpen(w)
      PROVE  (handle[g].fh \in Fds /\ table[handle[g].fh] = handle[g].object)'
  <2>1. handle' = handle /\ g \in Holding
    BY <1>7 DEF MknodOpen, Holding
  <2>2. \/ table' = table
        \/ \E d \in Fds : \E object : table[d] = None /\ table' = [table EXCEPT ![d] = object]
    BY <1>7 DEF MknodOpen, Takes, FreeFds, Sets
  <2>3. QED
    BY <1>1, <1>2, <1>3, <2>1, <2>2
<1>8. ASSUME NEW w \in Workers, MknodClose(w)
      PROVE  (handle[g].fh \in Fds /\ table[handle[g].fh] = handle[g].object)'
  <2>1. /\ handle' = handle /\ g \in Holding /\ pc[w] = "close"
        /\ table' = [table EXCEPT ![ret[w]] = None]
    BY <1>8 DEF MknodClose, Holding, Moves, Sets
  <2>2. ret[w] # handle[g].fh
    BY <2>1 DEF IInv, OwnersApart
  <2>3. QED
    BY <1>1, <1>2, <1>3, <2>1, <2>2
<1>9. ASSUME NEW w \in Workers, Open(w) \/ Opendir(w)
      PROVE  (handle[g].fh \in Fds /\ table[handle[g].fh] = handle[g].object)'
  <2>1. CASE g # op[w].handle
    <3>1. g \in Holding /\ handle'[g].fh = handle[g].fh /\ handle'[g].object = handle[g].object
      BY <1>9, <2>1, OpenDoes DEF Holding
    <3>2. table'[handle[g].fh] = table[handle[g].fh]
      BY <1>1, <1>2, <1>9, <3>1, OpenDoes
    <3>3. QED
      BY <1>3, <3>1, <3>2
  <2>2. CASE g = op[w].handle
    BY <1>1, <1>9, <2>2, OpenDoes DEF Holding
  <2>3. QED
    BY <2>1, <2>2
<1>10. ASSUME NEW w \in Workers, Release(w) \/ Releasedir(w)
       PROVE  (handle[g].fh \in Fds /\ table[handle[g].fh] = handle[g].object)'
  <2>1. /\ table' = [table EXCEPT ![Fh(w)] = None]
        /\ handle' = [handle EXCEPT ![op[w].handle].state = "closed"]
    BY <1>10 DEF Release, Releasedir, Sets
  <2>2. g # op[w].handle
    BY <1>1, <2>1 DEF Holding, HandleRecords
  <2>3. g \in Holding /\ handle'[g] = handle[g]
    BY <1>1, <2>1, <2>2 DEF Holding
  <2>4. op[w].handle \in Holding
    BY <1>10, UsersHold DEF Release, Releasedir, Moves, Busy, Closes
  <2>5. handle[g].fh # Fh(w)
    BY <2>2, <2>3, <2>4 DEF IInv, OwnersApart, Fh
  <2>6. QED
    BY <1>1, <1>2, <1>3, <2>1, <2>3, <2>5
<1>11. ASSUME NEW w \in Workers, Replies(w)
       PROVE  (handle[g].fh \in Fds /\ table[handle[g].fh] = handle[g].object)'
  <2>1. table' = table
    BY <1>11, RepliesDoes
  <2>2. g \in Holding /\ handle'[g].fh = handle[g].fh /\ handle'[g].object = handle[g].object
    BY <1>11, RepliesDoes DEF Holding
  <2>3. QED
    BY <1>3, <2>1, <2>2
<1>12. QED
  BY <1>4, <1>5, <1>6, <1>7, <1>8, <1>9, <1>10, <1>11 DEF Next, HandlerSteps, vars, PathRequest,
     HandleRequest, Arrives, Path, Xattr, Fsync, ReadOrWrite, Calls, Access, Flush, FillerFails,
     ReaddirStarts, ReaddirFills

LEMMA EntriesStep == IInv /\ [Next]_vars => EntriesCounted'
<1> SUFFICES ASSUME IInv, [Next]_vars, NEW v \in Workers, (pc[v] = "entry")'
             PROVE  (listed[v] < position[Fh(v)])'
  BY DEF EntriesCounted
<1>1. /\ position \in [Fds -> 0 .. Entries] /\ listed \in [Workers -> 0 .. Entries]
      /\ Entries \in Nat /\ handle \in [Handles -> HandleRecords]
      /\ pc \in [Workers -> {"idle", "call", "close", "entry", "reply"}]
      /\ op \in [Workers -> [kind : Kinds, handle : Handles \cup {None}]]
  BY Typed, PassThroughAssumption
<1>2. /\ \A w \in Workers : pc[w] = "entry" => Reads(w)
      /\ \A w \in Workers :
           Reads(w) => /\ op[w].handle \in Handles /\ handle[op[w].handle].state = "open"
                       /\ Fh(w) \in Fds /\ table[Fh(w)] # None
      /\ \A u, w \in Workers : (u # w /\ Reads(u) /\ Reads(w)) => Fh(u) # Fh(w)
  BY StreamsApart
<1>3. CASE /\ pc[v] = "entry" /\ listed'[v] = listed[v] /\ Fh(v)' = Fh(v)
           /\ position'[Fh(v)] = position[Fh(v)]
  BY <1>3 DEF IInv, EntriesCounted
<1> USE DEF Moves, Sets
<1>4. CASE UNCHANGED vars
  BY <1>4, <1>3 DEF vars, Fh
<1>5. ASSUME NEW w \in Workers, PathRequest(w) PROVE (listed[v] < position[Fh(v)])'
  BY <1>1, <1>5, <1>3 DEF PathRequest, Arrives, Fh
<1>6. ASSUME NEW w \in Workers, NEW h \in Handles,
             OpenRequest(w, h) \/ HandleRequest(w, h) \/ ReleaseRequest(w, h)
      PROVE  (listed[v] < position[Fh(v)])'
  <2>1. pc[v] = "entry" /\ listed'[v] = listed[v] /\ position' = position /\ op'[v] = op[v]
    BY <1>1, <1>6 DEF OpenRequest, HandleRequest, ReleaseRequest, Arrives
  <2>2. handle'[op[v].handle].fh = handle[op[v].handle].fh
    BY <1>1, <1>6, <1>2, <2>1 DEF OpenRequest, HandleRequest, ReleaseRequest, Arrives
  <2>3. QED
    BY <2>1, <2>2, <1>3 DEF Fh
<1>7. ASSUME NEW w \in Workers,
             \/ Path(w) \/ Xattr(w) \/ Fsync(w) \/ ReadOrWrite(w)
             \/ Access(w) \/ MknodClose(w) \/ Flush(w)
      PROVE (listed[v] < position[Fh(v)])'
  BY <1>1, <1>7, <1>3 DEF Path, Xattr, Fsync, ReadOrWrite, Calls, Access, MknodClose, Flush, Fh
<1>8. ASSUME NEW w \in Workers, MknodOpen(w) PROVE (listed[v] < position[Fh(v)])'
  <2>1. pc[v] = "entry" /\ listed' = listed /\ Fh(v)' = Fh(v)
    BY <1>1, <1>8 DEF MknodOpen, Fh
  <2>2. \/ position' = position
        \/ \E d \in Fds : table[d] = None /\ position' = [position EXCEPT ![d] = 0]
    BY <1>8 DEF MknodOpen, Takes, FreeFds
  <2>3. QED
    BY <1>1, <1>2, <2>1, <2>2, <1>3
<1>9. ASSUME NEW w \in Workers, Open(w) \/ Opendir(w) PROVE (listed[v] < position[Fh(v)])'
  <2>1. /\ pc[v] = "entry" /\ listed' = listed /\ op' = op
        /\ handle[op[v].handle].state = "open" /\ op[v].handle \in Handles
    BY <1>1, <1>2, <1>9, OpenDoes
  <2>2. Fh(v)' = Fh(v)
    BY <1>9, <2>1, OpenDoes DEF Fh
  <2>3. \/ position' = position
        \/ \E d \in Fds : table[d] = None /\ position' = [position EXCEPT ![d] = 0]
    BY <1>9, OpenDoes
  <2>4. QED
    BY <1>1, <1>2, <2>1, <2>2, <2>3, <1>3
<1>10. ASSUME NEW w \in Workers, Release(w) \/ Releasedir(w) PROVE (listed[v] < position[Fh(v)])'
  <2>1. pc[v] = "entry" /\ listed'[v] = listed[v] /\ position' = position /\ op'[v] = op[v]
    BY <1>1, <1>10 DEF Release, Releasedir
  <2>2. handle'[op[v].handle].fh = handle[op[v].handle].fh
    BY <1>1, <1>10, <1>2, <2>1 DEF Release, Releasedir, HandleRecords
  <2>3. QED
    BY <2>1, <2>2, <1>3 DEF Fh
<1>11. ASSUME NEW w \in Workers, ReaddirStarts(w) PROVE (listed[v] < position[Fh(v)])'
  <2>1. Fh(v)' = Fh(v) /\ Reads(w) /\ listed' = [listed EXCEPT ![w] = 0]
    BY <1>11 DEF ReaddirStarts, Fh, Reads
  <2>2. CASE v = w
    <3>1. position' = [position EXCEPT ![Fh(w)] = position[Fh(w)] + 1]
      BY <1>1, <1>11, <2>2 DEF ReaddirStarts
    <3>2. QED
      BY <1>1, <1>2, <2>1, <2>2, <3>1
  <2>3. CASE v # w
    <3>1. pc[v] = "entry"
      BY <1>1, <1>11, <2>3 DEF ReaddirStarts
    <3>2. position' = position \/ position' = [position EXCEPT ![Fh(w)] = position[Fh(w)] + 1]
      BY <1>11 DEF ReaddirStarts
    <3>3. QED
      BY <1>1, <1>2, <1>3, <2>1, <2>3, <3>1, <3>2
  <2>4. QED
    BY <2>2, <2>3
<1>12. ASSUME NEW w \in Workers, ReaddirFills(w) PROVE (listed[v] < position[Fh(v)])'
  <2>1. /\ Fh(v)' = Fh(v) /\ pc[w] = "entry" /\ pc[v] = "entry"
        /\ listed' = [listed EXCEPT ![w] = listed[w] + 1]
    BY <1>1, <1>12 DEF ReaddirFills, Fh
  <2>2. CASE v = w
    <3>1. position' = [position EXCEPT ![Fh(w)] = position[Fh(w)] + 1]
      BY <1>1, <1>12, <2>2 DEF ReaddirFills
    <3>2. listed[v] < position[Fh(v)]
      BY <2>1 DEF IInv, EntriesCounted
    <3>3. QED
      BY <1>1, <1>2, <2>1, <2>2, <3>1, <3>2
  <2>3. CASE v # w
    <3>1. position' = position \/ position' = [position EXCEPT ![Fh(w)] = position[Fh(w)] + 1]
      BY <1>12 DEF ReaddirFills
    <3>2. QED
      BY <1>1, <1>2, <1>3, <2>1, <2>3, <3>1
  <2>4. QED
    BY <2>2, <2>3
<1>13. ASSUME NEW w \in Workers, FillerFails(w) PROVE (listed[v] < position[Fh(v)])'
  BY <1>1, <1>13, <1>3 DEF FillerFails, Fh
<1>14. ASSUME NEW w \in Workers, Replies(w) PROVE (listed[v] < position[Fh(v)])'
  <2>1. pc[v] = "entry" /\ v # w
    BY <1>1, <1>14 DEF Replies
  <2>2. listed'[v] = listed[v] /\ op'[v] = op[v] /\ position' = position
    BY <1>14, <2>1, RepliesDoes
  <2>3. handle'[op[v].handle].fh = handle[op[v].handle].fh
    BY <1>14, <1>2, <2>1, RepliesDoes
  <2>4. QED
    BY <1>3, <2>1, <2>2, <2>3 DEF Fh
<1>15. QED
  BY <1>4, <1>5, <1>6, <1>7, <1>8, <1>9, <1>10, <1>11, <1>12, <1>13, <1>14 DEF Next, HandlerSteps

-----------------------------------------------------------------------------
\* Owners: a step leaves them, adds the one of a descriptor that was free, or
\* takes away the one of the descriptor that it closes.
OwnersKept ==
  /\ table' = table
  /\ \A h \in Handles : /\ h \in Holding' <=> h \in Holding
                        /\ h \in Holding => handle'[h].fh = handle[h].fh
  /\ \A w \in Workers : /\ pc'[w] = "close" <=> pc[w] = "close"
                        /\ pc[w] = "close" => ret'[w] = ret[w]

LEMMA KeptApart == OwnersApart /\ OwnersKept => OwnersApart'
<1> SUFFICES ASSUME OwnersApart, OwnersKept PROVE OwnersApart'
  OBVIOUS
<1>1. Holding \subseteq Handles /\ Holding' = Holding
  BY DEF OwnersKept, Holding
<1>2. QED
  BY <1>1 DEF OwnersKept, OwnersApart

LEMMA QuietKeep ==
  ASSUME TypeOK, NEW w \in Workers, UNCHANGED <<table, handle>>, pc[w] # "close", pc'[w] # "close",
         \A v \in Workers \ {w} : pc'[v] = pc[v] /\ ret'[v] = ret[v]
  PROVE  OwnersKept
BY DEF OwnersKept, Holding

\* w has opened d for a handle, or in mknod.
LEMMA OpenedApart ==
  ASSUME OwnersApart, TypeOK, \A h \in Holding : handle[h].fh \in Fds /\ table[handle[h].fh] # None,
         NEW w \in Workers, NEW d \in Fds, table[d] = None, NEW object \in Objects,
         table' = [table EXCEPT ![d] = object], pc[w] # "close", object # None,
         \A v \in Workers \ {w} : pc'[v] = pc[v] /\ ret'[v] = ret[v],
         \/ /\ pc'[w] = "close" /\ ret'[w] = d /\ handle' = handle
         \/ /\ pc'[w] # "close"
            /\ \E k \in Handles : /\ k \notin Holding /\ Holding' = Holding \cup {k}
                                  /\ handle'[k].fh = d
                                  /\ \A h \in Holding : handle'[h].fh = handle[h].fh
  PROVE  OwnersApart'
<1>1. /\ \A h \in Holding : handle[h].fh # d
      /\ \A v \in Workers : pc[v] = "close" => ret[v] # d /\ v # w
      /\ table'[d] # None /\ \A e \in Fds \ {d} : table'[e] = table[e]
      /\ \A h \in Holding : h \in Handles
  <2>1. \A h \in Holding : h \in Handles /\ handle[h].fh \in Fds /\ handle[h].fh # d
    BY DEF Holding
  <2>2. \A v \in Workers : pc[v] = "close" => ret[v] # d /\ v # w
    BY DEF OwnersApart
  <2>3. table'[d] # None /\ \A e \in Fds \ {d} : table'[e] = table[e]
    BY DEF TypeOK
  <2>4. QED
    BY <2>1, <2>2, <2>3
<1>2. CASE pc'[w] = "close" /\ ret'[w] = d /\ handle' = handle
  <2>1. Holding' = Holding
    BY <1>2 DEF Holding
  <2>2. QED
    BY <1>1, <1>2, <2>1 DEF OwnersApart
<1>3. CASE /\ pc'[w] # "close"
           /\ \E k \in Handles : /\ k \notin Holding /\ Holding' = Holding \cup {k}
                                 /\ handle'[k].fh = d
                                 /\ \A h \in Holding : handle'[h].fh = handle[h].fh
  <2>1. PICK k \in Handles : /\ k \notin Holding /\ Holding' = Holding \cup {k} /\ handle'[k].fh = d
                             /\ \A h \in Holding : handle'[h].fh = handle[h].fh
    BY <1>3
  <2>2. \A v \in Workers : pc'[v] = "close" <=> pc[v] = "close"
    BY <1>1, <1>3
  <2>3. \A g, h \in Holding' : handle'[g].fh = handle'[h].fh => g = h
    BY <1>1, <2>1 DEF OwnersApart
  <2>4. \A v \in Workers : pc'[v] = "close" => /\ ret'[v] = ret[v] /\ ret'[v] \in Fds
                                               /\ ret'[v] # d /\ table'[ret'[v]] # None
    BY <1>1, <2>2 DEF OwnersApart
  <2>5. \A u, v \in Workers : (pc'[u] = "close" /\ pc'[v] = "close" /\ ret'[u] = ret'[v]) => u = v
    BY <2>2, <2>4 DEF OwnersApart
  <2>6. \A v \in Workers, h \in Holding' : pc'[v] = "close" => ret'[v] # handle'[h].fh
    BY <2>1, <2>2, <2>4 DEF OwnersApart
  <2>7. \A e \in Fds : table'[e] # None => \/ \E h \in Holding' : handle'[h].fh = e
                                           \/ \E v \in Workers : pc'[v] = "close" /\ ret'[v] = e
    BY <1>1, <2>1, <2>2, <2>4 DEF OwnersApart
  <2>8. QED
    BY <2>3, <2>4, <2>5, <2>6, <2>7 DEF OwnersApart
<1>4. QED
  BY <1>2, <1>3

\* w has closed d, which it or its handle owned.
LEMMA ClosedApart ==
  ASSUME OwnersApart, TypeOK, NEW w \in Workers, NEW d \in Fds,
         table' = [table EXCEPT ![d] = None], pc'[w] # "close",
         \A v \in Workers \ {w} : pc'[v] = pc[v] /\ ret'[v] = ret[v],
         \/ /\ pc[w] = "close" /\ ret[w] = d /\ handle' = handle
         \/ /\ pc[w] # "close"
            /\ \E k \in Holding : /\ Holding' = Holding \ {k} /\ handle[k].fh = d
                                  /\ \A h \in Holding : handle'[h].fh = handle[h].fh
  PROVE  OwnersApart'
<1>1. /\ table'[d] = None /\ \A e \in Fds \ {d} : table'[e] = table[e]
      /\ \A h \in Holding : h \in Handles
  BY DEF TypeOK, Holding
<1>2. CASE pc[w] = "close" /\ ret[w] = d /\ handle' = handle
  <2>1. Holding' = Holding
    BY <1>2 DEF Holding
  <2>2. \A v \in Workers : pc'[v] = "close" => /\ v # w /\ pc[v] = "close"
                                               /\ ret'[v] = ret[v] /\ ret[v] # d
    BY <1>2 DEF OwnersApart
  <2>3. \A h \in Holding : handle[h].fh # d
    BY <1>2 DEF OwnersApart
  <2>4. \A e \in Fds : table'[e] # None => \/ \E h \in Holding' : handle'[h].fh = e
                                           \/ \E v \in Workers : pc'[v] = "close" /\ ret'[v] = e
    BY <1>1, <1>2, <2>1 DEF OwnersApart
  <2>5. QED
    BY <1>1, <1>2, <2>1, <2>2, <2>3, <2>4 DEF OwnersApart
<1>3. CASE /\ pc[w] # "close"
           /\ \E k \in Holding : /\ Holding' = Holding \ {k} /\ handle[k].fh = d
                                 /\ \A h \in Holding : handle'[h].fh = handle[h].fh
  <2>1. PICK k \in Holding : /\ Holding' = Holding \ {k} /\ handle[k].fh = d
                             /\ \A h \in Holding : handle'[h].fh = handle[h].fh
    BY <1>3
  <2>2. \A v \in Workers : /\ pc'[v] = "close" <=> pc[v] = "close"
                           /\ pc[v] = "close" => ret'[v] = ret[v] /\ ret[v] # d
    BY <1>3, <2>1 DEF OwnersApart
  <2>3. \A e \in Fds : table'[e] # None => \/ \E h \in Holding' : handle'[h].fh = e
                                           \/ \E v \in Workers : pc'[v] = "close" /\ ret'[v] = e
    BY <1>1, <2>1, <2>2 DEF OwnersApart
  <2>4. QED
    BY <1>1, <2>1, <2>2, <2>3 DEF OwnersApart
<1>4. QED
  BY <1>2, <1>3

LEMMA OwnersStep == IInv /\ [Next]_vars => OwnersApart'
<1> SUFFICES ASSUME IInv, [Next]_vars PROVE OwnersApart'
  OBVIOUS
<1>1. TypeOK /\ OwnersApart /\ \A h \in Holding : handle[h].fh \in Fds /\ table[handle[h].fh] # None
  BY DEF IInv, ObjectsKnown, HandleKeepsObject, Holding
<1>2. /\ table \in [Fds -> Objects \cup {None}] /\ handle \in [Handles -> HandleRecords]
      /\ pc \in [Workers -> {"idle", "call", "close", "entry", "reply"}]
      /\ ret \in [Workers -> Results]
  BY Typed
<1>3. CASE UNCHANGED vars
  <2>1. OwnersKept
    BY <1>3 DEF vars, OwnersKept, Holding
  <2>2. QED
    BY <1>1, <2>1, KeptApart
<1> USE DEF Moves, Sets
<1>4. ASSUME NEW w \in Workers,
             \/ PathRequest(w) \/ Path(w) \/ Xattr(w) \/ Fsync(w) \/ ReadOrWrite(w) \/ Access(w)
             \/ Flush(w) \/ ReaddirStarts(w) \/ ReaddirFills(w) \/ FillerFails(w)
      PROVE  OwnersApart'
  <2>1. /\ UNCHANGED <<table, handle>> /\ pc[w] # "close" /\ pc'[w] # "close"
        /\ \A v \in Workers \ {w} : pc'[v] = pc[v]
    BY <1>4, <1>2 DEF PathRequest, Arrives, Path, Xattr, Fsync, ReadOrWrite, Calls, Access, Flush,
       ReaddirStarts, ReaddirFills, FillerFails
  <2>2. \A v \in Workers \ {w} : ret'[v] = ret[v]
    BY <1>4, <1>2 DEF PathRequest, Arrives, Path, Xattr, Fsync, ReadOrWrite, Calls, Access, Flush,
       ReaddirStarts, ReaddirFills, FillerFails, LogSyscall, LogError
  <2>3. QED
    BY <1>1, <2>1, <2>2, QuietKeep, KeptApart
<1>5. ASSUME NEW w \in Workers, NEW h \in Handles, OpenRequest(w, h) PROVE OwnersApart'
  <2>1. /\ handle[h].state = "unused"
        /\ \E object \in Objects :
             handle' = [handle EXCEPT ![h] = [Unused EXCEPT !.state = "opening", !.object = object]]
    BY <1>5 DEF OpenRequest
  <2>2. /\ handle'[h].state = "opening" /\ handle'[h].fh = 0
        /\ \A g \in Handles \ {h} : handle'[g] = handle[g]
    BY <1>2, <2>1 DEF Unused
  <2>3. UNCHANGED <<table, ret>> /\ \A v \in Workers : pc'[v] = "close" <=> pc[v] = "close"
    BY <1>2, <1>5 DEF OpenRequest, Arrives
  <2>4. QED
    BY <1>1, <2>1, <2>2, <2>3, KeptApart, PassThroughAssumption DEF OwnersKept, Holding
<1>6. ASSUME NEW w \in Workers, NEW h \in Handles, HandleRequest(w, h) \/ ReleaseRequest(w, h)
      PROVE  OwnersApart'
  <2>1. \A g \in Handles : /\ handle'[g].fh = handle[g].fh
                           /\ \/ handle'[g].state = handle[g].state
                              \/ handle[g].state = "open" /\ handle'[g].state = "releasing"
    <3>1. CASE HandleRequest(w, h)
      BY <3>1 DEF HandleRequest
    <3>2. CASE ReleaseRequest(w, h)
      <4>1. handle[h].state = "open" /\ handle' = [handle EXCEPT ![h].state = "releasing"]
        BY <3>2 DEF ReleaseRequest
      <4>2. QED
        BY <1>2, <4>1, StateSet
    <3>3. QED
      BY <1>6, <3>1, <3>2
  <2>2. UNCHANGED <<table, ret>> /\ \A v \in Workers : pc'[v] = "close" <=> pc[v] = "close"
    BY <1>2, <1>6 DEF HandleRequest, ReleaseRequest, Arrives
  <2>3. QED
    BY <1>1, <2>1, <2>2, KeptApart DEF OwnersKept, Holding
<1>7. ASSUME NEW w \in Workers, MknodOpen(w) PROVE OwnersApart'
  <2>1. CASE \E d \in FreeFds, object \in Files :
               /\ Takes(d, object) /\ ret' = [ret EXCEPT ![w] = d]
               /\ pc[w] = "call" /\ pc' = [pc EXCEPT ![w] = "close"]
    <3>1. PICK d \in FreeFds, object \in Files :
               /\ Takes(d, object) /\ ret' = [ret EXCEPT ![w] = d]
               /\ pc[w] = "call" /\ pc' = [pc EXCEPT ![w] = "close"]
      BY <2>1
    <3>2. /\ d \in Fds /\ table[d] = None /\ object \in Objects /\ object # None
          /\ table' = [table EXCEPT ![d] = object]
          /\ pc[w] # "close" /\ pc'[w] = "close" /\ ret'[w] = d
          /\ \A v \in Workers \ {w} : pc'[v] = pc[v] /\ ret'[v] = ret[v]
      BY <1>2, <3>1, PassThroughAssumption DEF FreeFds, Takes, Objects
    <3>3. handle' = handle
      BY <1>7 DEF MknodOpen
    <3>4. QED
      BY <1>1, <3>2, <3>3, OpenedApart
  <2>2. CASE /\ pc[w] = "call" /\ pc' = [pc EXCEPT ![w] = "reply"]
             /\ \E e \in OpenErrors : LogSyscall(w, e)
             /\ UNCHANGED <<table, position>>
    <3>1. UNCHANGED <<table, handle>>
      BY <1>7, <2>2 DEF MknodOpen
    <3>2. /\ pc[w] # "close" /\ pc'[w] # "close"
          /\ \A v \in Workers \ {w} : pc'[v] = pc[v] /\ ret'[v] = ret[v]
      BY <1>2, <2>2 DEF LogSyscall
    <3>3. QED
      BY <1>1, <3>1, <3>2, QuietKeep, KeptApart
  <2>3. QED
    BY <1>7, <2>1, <2>2 DEF MknodOpen
<1>8. ASSUME NEW w \in Workers, MknodClose(w) PROVE OwnersApart'
  <2>1. /\ pc[w] = "close" /\ pc'[w] # "close"
        /\ table' = [table EXCEPT ![ret[w]] = None] /\ handle' = handle
        /\ \A v \in Workers \ {w} : pc'[v] = pc[v] /\ ret'[v] = ret[v]
    BY <1>2, <1>8 DEF MknodClose, LogSyscall
  <2>2. ret[w] \in Fds
    BY <1>1, <2>1 DEF OwnersApart
  <2>3. QED
    BY <1>1, <2>1, <2>2, ClosedApart
<1>9. ASSUME NEW w \in Workers, Open(w) \/ Opendir(w) PROVE OwnersApart'
  <2> DEFINE k == op[w].handle
  <2>1. /\ pc[w] # "close" /\ pc'[w] # "close"
        /\ \A v \in Workers \ {w} : pc'[v] = pc[v] /\ ret'[v] = ret[v]
        /\ k \in Handles /\ handle[k].state = "opening"
        /\ handle[k].object \in Objects /\ handle[k].object # None
    <3>1. /\ pc[w] = "call" /\ pc' = [pc EXCEPT ![w] = "reply"]
          /\ \A v \in Workers \ {w} : ret'[v] = ret[v]
          /\ k \in Handles /\ handle[k].state = "opening"
      BY <1>9, OpenDoes
    <3>2. handle[k].object # None /\ handle[k].object \in Objects \cup {None}
      BY <1>2, <3>1 DEF IInv, ObjectsKnown, HandleRecords
    <3>3. QED
      BY <1>2, <3>1, <3>2
  <2>2. k \notin Holding
    BY <1>9, OpenDoes DEF IInv, OpenedFits, Holding, Busy
  <2>3. \A g \in Handles : /\ handle'[g].state = handle[g].state
                           /\ g # k => handle'[g].fh = handle[g].fh
    BY <1>9, OpenDoes
  <2>4. CASE \E d \in Fds : /\ table[d] = None /\ table' = [table EXCEPT ![d] = handle[k].object]
                            /\ handle'[k].fh = d
    <3>1. Holding' = Holding \cup {k}
      BY <2>1, <2>2, <2>3, <2>4 DEF Holding
    <3>2. \A h \in Holding : handle'[h].fh = handle[h].fh
      BY <2>2, <2>3 DEF Holding
    <3>3. QED
      BY <1>1, <2>1, <2>2, <2>4, <3>1, <3>2, OpenedApart
  <2>5. CASE table' = table /\ handle'[k].fh \notin Fds
    <3>1. OwnersKept
      BY <1>2, <2>1, <2>2, <2>3, <2>5 DEF OwnersKept, Holding
    <3>2. QED
      BY <1>1, <3>1, KeptApart
  <2>6. QED
    BY <1>9, OpenDoes, <2>4, <2>5
<1>10. ASSUME NEW w \in Workers, Release(w) \/ Releasedir(w) PROVE OwnersApart'
  <2> DEFINE k == op[w].handle
  <2>1. pc[w] = "call" /\ Closes(w) /\ Busy(w)
    BY <1>10 DEF Release, Releasedir, Closes, Busy
  <2>2. k \in Holding /\ k \in Handles /\ handle[k].fh \in Fds
    BY <2>1, UsersHold DEF Fh, Holding
  <2>3. /\ table' = [table EXCEPT ![handle[k].fh] = None]
        /\ handle' = [handle EXCEPT ![k].state = "closed"]
        /\ pc'[w] # "close" /\ \A v \in Workers \ {w} : pc'[v] = pc[v] /\ ret'[v] = ret[v]
    BY <1>2, <1>10 DEF Release, Releasedir, LogSyscall, Fh
  <2>4. /\ handle'[k].state = "closed"
        /\ \A h \in Handles : handle'[h].fh = handle[h].fh /\ (h # k => handle'[h] = handle[h])
    BY <1>2, <2>2, <2>3 DEF HandleRecords
  <2>5. Holding' = Holding \ {k} /\ \A h \in Holding : handle'[h].fh = handle[h].fh
    BY <2>4 DEF Holding
  <2>6. QED
    BY <1>1, <2>1, <2>2, <2>3, <2>5, ClosedApart
<1>11. ASSUME NEW w \in Workers, Replies(w) PROVE OwnersApart'
  <2>1. /\ table' = table
        /\ \A v \in Workers : /\ pc'[v] = "close" <=> pc[v] = "close"
                              /\ pc[v] = "close" => ret'[v] = ret[v]
    BY <1>2, <1>11, RepliesDoes
  <2>2. \A h \in Handles : /\ h \in Holding' <=> h \in Holding
                           /\ h \in Holding => handle'[h].fh = handle[h].fh
    BY <1>11, RepliesDoes, PassThroughAssumption DEF Holding
  <2>3. QED
    BY <1>1, <2>1, <2>2, KeptApart DEF OwnersKept
<1>12. QED
  BY <1>3, <1>4, <1>5, <1>6, <1>7, <1>8, <1>9, <1>10, <1>11 DEF Next, HandlerSteps

LEMMA ObjectsStep ==
  IInv /\ [Next]_vars => \A h \in Handles : handle'[h].state # "unused" => handle'[h].object # None
<1> SUFFICES ASSUME IInv, [Next]_vars, NEW h \in Handles, handle'[h].state # "unused"
             PROVE  handle'[h].object # None
  OBVIOUS
<1>1. handle \in [Handles -> HandleRecords]
  BY Typed
<1>2. CASE handle'[h].object = handle[h].object /\ handle[h].state # "unused"
  BY <1>2 DEF IInv, ObjectsKnown
<1>3. CASE UNCHANGED handle
  BY <1>2, <1>3
<1>4. ASSUME NEW w \in Workers, NEW g \in Handles, OpenRequest(w, g)
      PROVE  handle'[h].object # None
  <2>1. PICK object \in Objects :
          handle' = [handle EXCEPT ![g] = [Unused EXCEPT !.state = "opening", !.object = object]]
    BY <1>4 DEF OpenRequest
  <2>2. CASE h = g
    BY <1>1, <2>1, <2>2, NewHandle, PassThroughAssumption
  <2>3. CASE h # g
    BY <1>1, <1>2, <2>1, <2>3
  <2>4. QED
    BY <2>2, <2>3
<1>5. ASSUME NEW w \in Workers, NEW g \in Handles, ReleaseRequest(w, g)
      PROVE  handle'[h].object # None
  BY <1>1, <1>2, <1>5 DEF ReleaseRequest, HandleRecords
<1>6. ASSUME NEW w \in Workers, Open(w) \/ Opendir(w) PROVE handle'[h].object # None
  BY <1>2, <1>6, OpenDoes
<1>7. ASSUME NEW w \in Workers, Release(w) \/ Releasedir(w) PROVE handle'[h].object # None
  <2>1. op[w].handle \in Holding
    BY <1>7, UsersHold DEF Release, Releasedir, Moves, Busy, Closes
  <2>2. handle' = [handle EXCEPT ![op[w].handle].state = "closed"]
    BY <1>7 DEF Release, Releasedir
  <2>3. QED
    BY <1>1, <1>2, <2>1, <2>2 DEF Holding, HandleRecords
<1>8. ASSUME NEW w \in Workers, Replies(w) PROVE handle'[h].object # None
  BY <1>2, <1>8, RepliesDoes
<1>9. QED
  BY <1>3, <1>4, <1>5, <1>6, <1>7, <1>8 DEF Next, HandlerSteps, vars, PathRequest, HandleRequest,
     Path, Xattr, Fsync, ReadOrWrite, Calls, Access, Flush, FillerFails, MknodOpen, MknodClose,
     ReaddirStarts, ReaddirFills

-----------------------------------------------------------------------------
LEMMA Base == Init => IInv
<1> SUFFICES ASSUME Init PROVE IInv
  OBVIOUS
<1> USE PassThroughAssumption DEF Init
<1>1. TypeOK
  BY DEF TypeOK, Unused, NoRequest, Kinds, PathKinds
<1>2. RequestsFit /\ SharedByUsers /\ OpenedFits /\ EntriesCounted
  BY DEF RequestsFit, SharedByUsers, OpenedFits, EntriesCounted, Busy
<1>3. HandleKeepsObject /\ ObjectsKnown /\ OwnersApart
  BY DEF HandleKeepsObject, ObjectsKnown, OwnersApart, Holding, Unused
<1>4. QED
  BY <1>1, <1>2, <1>3 DEF IInv

LEMMA Step == IInv /\ [Next]_vars => IInv'
<1> SUFFICES ASSUME IInv, [Next]_vars PROVE IInv'
  OBVIOUS
<1>1. /\ TypeOK' /\ RequestsFit' /\ SharedByUsers' /\ OpenedFits'
      /\ EntriesCounted' /\ HandleKeepsObject'
  BY TypeStep, RequestsStep, SharedStep, OpenedStep, EntriesStep, KeepsStep
<1>2. ObjectsKnown' /\ OwnersApart'
  BY OwnersStep, ObjectsStep DEF ObjectsKnown
<1>3. QED
  BY <1>1, <1>2 DEF IInv

LEMMA OwnersAreOne == IInv => OneOwner
<1> SUFFICES ASSUME IInv, NEW d \in Fds
             PROVE  IF table[d] = None THEN Owners(d) = {}
                    ELSE \E o \in Handles \cup Workers : Owners(d) = {o}
  BY DEF OneOwner
<1>1. Workers \cap Handles = {} /\ Holding \subseteq Handles
  BY PassThroughAssumption DEF Holding
<1>2. OwnersApart /\ \A h \in Holding : handle[h].fh \in Fds /\ table[handle[h].fh] # None
  BY DEF IInv, HandleKeepsObject, ObjectsKnown, OwnersApart, Holding
<1>3. CASE table[d] = None
  BY <1>2, <1>3 DEF OwnersApart, Owners
<1>4. CASE table[d] # None
  <2>1. CASE \E h \in Holding : handle[h].fh = d
    <3>1. PICK h \in Holding : handle[h].fh = d
      BY <2>1
    <3>2. Owners(d) = {h}
      BY <1>2, <3>1 DEF OwnersApart, Owners
    <3>3. QED
      BY <1>1, <1>4, <3>2
  <2>2. CASE \E w \in Workers : pc[w] = "close" /\ ret[w] = d
    <3>1. PICK w \in Workers : pc[w] = "close" /\ ret[w] = d
      BY <2>2
    <3>2. Owners(d) = {w}
      BY <1>2, <3>1 DEF OwnersApart, Owners
    <3>3. QED
      BY <1>4, <3>2
  <2>3. QED
    BY <1>2, <1>4, <2>1, <2>2 DEF OwnersApart
<1>5. QED
  BY <1>3, <1>4

\* The inductive invariant, over every order of requests, handlers and replies.
THEOREM Invariance == Spec => []IInv
<1>1. QED
  BY Base, Step, PTL DEF Spec

\* No handler reads, writes or closes another file than the one its handle was
\* opened for (the p0FI->fh that OverFs's handlers take their descriptor from).
THEOREM HandleKeepsObjectAlways == Spec => []HandleKeepsObject
<1>1. IInv => HandleKeepsObject
  BY DEF IInv
<1>2. QED
  BY <1>1, Invariance, PTL

\* No handler leaks a descriptor and none is closed twice: mknod closes the one it
\* has opened, release and releasedir close the one of their handle.
THEOREM OneOwnerAlways == Spec => []OneOwner
<1>1. QED
  BY OwnersAreOne, Invariance, PTL

-----------------------------------------------------------------------------
\* A step of a worker, and what it leaves to the others.
Acts(w) ==
  \/ PathRequest(w) \/ HandlerSteps(w)
  \/ \E h \in Handles : OpenRequest(w, h) \/ HandleRequest(w, h) \/ ReleaseRequest(w, h)

LEMMA OthersStay ==
  ASSUME IInv, NEW w \in Workers, Acts(w)
  PROVE  \A v \in Workers \ {w} : /\ pc'[v] = pc[v] /\ op'[v] = op[v] /\ ret'[v] = ret[v]
                                  /\ failed'[v] = failed[v] /\ listed'[v] = listed[v]
<1>1. /\ pc \in [Workers -> {"idle", "call", "close", "entry", "reply"}]
      /\ op \in [Workers -> [kind : Kinds, handle : Handles \cup {None}]]
      /\ ret \in [Workers -> Results] /\ failed \in [Workers -> Errors \cup {0}]
      /\ listed \in [Workers -> 0 .. Entries]
  BY Typed
<1> USE <1>1 DEF Moves, Sets
<1>2. CASE \/ PathRequest(w)
           \/ \E h \in Handles : OpenRequest(w, h) \/ HandleRequest(w, h) \/ ReleaseRequest(w, h)
  BY <1>2 DEF PathRequest, OpenRequest, HandleRequest, ReleaseRequest, Arrives
<1>3. CASE Path(w) \/ Xattr(w) \/ Access(w) \/ ReadOrWrite(w) \/ Flush(w) \/ Fsync(w)
  BY <1>3 DEF Path, Xattr, Access, ReadOrWrite, Flush, Fsync, Calls, LogSyscall, LogError
<1>4. CASE MknodOpen(w) \/ MknodClose(w) \/ Release(w) \/ Releasedir(w)
  BY <1>4 DEF MknodOpen, MknodClose, Release, Releasedir, LogSyscall
<1>5. CASE Open(w) \/ Opendir(w)
  BY <1>5 DEF Open, Opendir, LogError
<1>6. CASE ReaddirStarts(w) \/ ReaddirFills(w) \/ FillerFails(w) \/ Replies(w)
  BY <1>6 DEF ReaddirStarts, ReaddirFills, FillerFails, Replies, LogError
<1>7. QED
  BY <1>2, <1>3, <1>4, <1>5, <1>6 DEF Acts, HandlerSteps

\* What a handler has found out when it is about to reply: nothing failed and
\* the result is good, or it is the error of what failed, or of the log.
Explained(w) ==
  \/ failed[w] = 0 /\ ret[w] = 0
  \/ failed[w] # 0 /\ ret[w] # 0 /\ -ret[w] \in {failed[w]} \cup LogErrnos

LEMMA CallExplained ==
  ASSUME IInv, NEW w \in Workers, NEW e \in Errnos \cup OpenErrors \cup {0}, LogSyscall(w, e)
  PROVE  Explained(w)'
<1>1. ret \in [Workers -> Results] /\ failed \in [Workers -> Errors \cup {0}]
  BY Typed
<1>2. failed'[w] = e
  BY <1>1 DEF LogSyscall, Sets
<1>3. CASE e = 0
  BY <1>1, <1>2, <1>3 DEF LogSyscall, Sets, Explained
<1>4. CASE e # 0
  <2>1. e \in Errors
    BY <1>4, ErrorsKept, OpenErrorsFit
  <2>2. PICK left \in AfterLog(e) : ret'[w] = -left
    BY <1>1, <1>4 DEF LogSyscall, Sets
  <2>3. left \in {e} \cup LogErrnos /\ left \in Nat \ {0}
    BY <2>1, ErrorsKept DEF AfterLog
  <2>4. QED
    BY <1>2, <1>4, <2>2, <2>3 DEF Explained
<1>5. QED
  BY <1>3, <1>4

LEMMA ErrorReported ==
  ASSUME IInv, NEW w \in Workers, NEW e \in Errors, NEW found \in AfterLog(e),
         failed' = Sets(failed, w, e), LogError(w, found)
  PROVE  Explained(w)'
<1>1. ret \in [Workers -> Results] /\ failed \in [Workers -> Errors \cup {0}]
  BY Typed
<1>2. failed'[w] = e /\ ret'[w] = -found
  BY <1>1 DEF LogError, Sets
<1>3. found \in {e} \cup LogErrnos /\ found \in Nat \ {0} /\ e # 0
  BY ErrorsKept DEF AfterLog
<1>4. QED
  BY <1>2, <1>3 DEF Explained

\* Every handler but readdir, whose last null has two meanings, and releasedir.
LEMMA HandlersExplained ==
  ASSUME IInv, NEW w \in Workers, HandlerSteps(w), pc'[w] = "reply",
         op[w].kind \notin {"readdir", "releasedir"}
  PROVE  Explained(w)'
<1>1. /\ pc \in [Workers -> {"idle", "call", "close", "entry", "reply"}]
      /\ ret \in [Workers -> Results] /\ failed \in [Workers -> Errors \cup {0}]
  BY Typed
<1>2. CASE Path(w) \/ Xattr(w) \/ Fsync(w) \/ ReadOrWrite(w) \/ Release(w) \/ MknodClose(w)
  <2>1. PICK e \in Errnos \cup {0} : LogSyscall(w, e)
    BY <1>2 DEF Path, Xattr, Fsync, ReadOrWrite, Calls, Release, MknodClose
  <2>2. QED
    BY <2>1, CallExplained
<1>3. CASE MknodOpen(w)
  <2>1. \E e \in OpenErrors : LogSyscall(w, e)
    BY <1>1, <1>3 DEF MknodOpen, Moves
  <2>2. QED
    BY <2>1, CallExplained
<1>4. ASSUME ret' = Sets(ret, w, 0), failed' = Sets(failed, w, 0) PROVE Explained(w)'
  BY <1>1, <1>4 DEF Sets, Explained
<1>5. CASE Access(w)
  <2>1. CASE \E e \in Errnos : failed' = Sets(failed, w, e) /\ LogError(w, e)
    BY <2>1, ErrorReported, ErrorsKept DEF AfterLog
  <2>2. QED
    BY <1>4, <1>5, <2>1 DEF Access
<1>6. CASE Flush(w)
  BY <1>4, <1>6 DEF Flush
<1>7. CASE Open(w) \/ Opendir(w)
  <2>1. CASE \E e \in OpenErrors : \E found \in AfterLog(e) : failed' = Sets(failed, w, e) /\ LogError(w, found)
    BY <2>1, ErrorReported, OpenErrorsFit
  <2>2. QED
    BY <1>4, <1>7, <2>1 DEF Open, Opendir
<1>8. CASE ReaddirStarts(w) \/ ReaddirFills(w) \/ FillerFails(w) \/ Replies(w)
  <2>1. ReaddirFills(w) \/ FillerFails(w) => op[w].kind = "readdir"
    BY DEF ReaddirFills, FillerFails, Moves, IInv, RequestsFit, Busy
  <2>2. ReaddirStarts(w) => op[w].kind = "readdir"
    BY DEF ReaddirStarts
  <2>3. ~Replies(w)
    BY <1>1 DEF Replies, Moves
  <2>4. QED
    BY <1>8, <2>1, <2>2, <2>3
<1>9. QED
  BY <1>2, <1>3, <1>5, <1>6, <1>7, <1>8 DEF HandlerSteps, Releasedir

\* releasedir succeeds whatever closedir does.
LEMMA ReleasedirSucceeds ==
  ASSUME IInv, NEW w \in Workers, HandlerSteps(w), pc[w] # "reply", op[w].kind = "releasedir"
  PROVE  ret'[w] = 0
<1>1. Releasedir(w)
  BY DEF HandlerSteps, Moves, Path, Xattr, Fsync, ReadOrWrite, Calls, Access, Flush, Replies, FillerFails,
     MknodOpen, MknodClose, Open, Opendir, Release, ReaddirStarts, ReaddirFills, IInv, RequestsFit, Busy
<1>2. QED
  BY <1>1, Typed DEF Releasedir, Sets

\* What readdir takes for the end of the stream is its end, or an error that is
\* met after an entry.
LEMMA ReaddirExplained ==
  ASSUME IInv, NEW w \in Workers, HandlerSteps(w), pc[w] # "reply", pc'[w] = "reply",
         op[w].kind = "readdir", failed'[w] # 0
  PROVE  \/ Explained(w)'
         \/ ret'[w] = 0 /\ failed'[w] \in DirErrnos /\ listed'[w] > 0
<1>1. /\ pc \in [Workers -> {"idle", "call", "close", "entry", "reply"}]
      /\ ret \in [Workers -> Results] /\ failed \in [Workers -> Errors \cup {0}]
      /\ listed \in [Workers -> 0 .. Entries] /\ Entries \in Nat
  BY Typed, PassThroughAssumption
<1>2. ReaddirStarts(w) \/ ReaddirFills(w) \/ FillerFails(w)
  BY DEF HandlerSteps, Moves, Path, Xattr, Fsync, ReadOrWrite, Calls, Access, Flush, Replies,
     MknodOpen, MknodClose, Open, Opendir, Release, Releasedir, IInv, RequestsFit, Busy
<1>3. CASE ReaddirStarts(w)
  <2>1. PICK e \in DirErrnos : /\ failed' = Sets(failed, w, e)
                              /\ \E found \in AfterLog(e) : LogError(w, found)
    BY <1>1, <1>3 DEF ReaddirStarts, Moves, Sets
  <2>2. QED
    BY <2>1, ErrorReported, ErrorsKept
<1>4. CASE ReaddirFills(w)
  <2>1. pc[w] = "entry" /\ listed'[w] = listed[w] + 1 /\ ret'[w] = 0 /\ failed'[w] \in DirErrnos
    BY <1>1, <1>4 DEF ReaddirFills, Moves, Sets
  <2>2. QED
    BY <1>1, <2>1
<1>5. CASE FillerFails(w)
  <2>1. ret'[w] = -ENOMEM /\ failed'[w] = ENOMEM
    BY <1>1, <1>5 DEF FillerFails, Sets
  <2>2. ENOMEM \in Nat \ {0} /\ -ENOMEM # 0
    BY DEF ENOMEM
  <2>3. \A n \in Int : -(-n) = n
    OBVIOUS
  <2>4. -ret'[w] = ENOMEM
    BY <2>1, <2>2, <2>3
  <2>5. QED
    BY <2>1, <2>2, <2>4 DEF Explained
<1>6. QED
  BY <1>2, <1>3, <1>4, <1>5

\* Only a reply that has been waiting, or the step of its worker, need be looked at.
LEMMA NewReply ==
  ASSUME IInv, NEW w \in Workers, Acts(w), NEW v \in Workers, pc'[v] = "reply"
  PROVE  \/ /\ pc[v] = "reply" /\ op'[v] = op[v] /\ ret'[v] = ret[v]
            /\ failed'[v] = failed[v] /\ listed'[v] = listed[v]
         \/ v = w /\ HandlerSteps(w) /\ pc[w] # "reply" /\ op'[w] = op[w]
<1>1. CASE v # w
  BY <1>1, OthersStay
<1>2. CASE v = w
  <2>1. pc \in [Workers -> {"idle", "call", "close", "entry", "reply"}]
    BY Typed
  <2>2. ~(\/ PathRequest(w)
          \/ \E h \in Handles : OpenRequest(w, h) \/ HandleRequest(w, h) \/ ReleaseRequest(w, h))
    BY <1>2, <2>1 DEF PathRequest, OpenRequest, HandleRequest, ReleaseRequest, Arrives, Moves
  <2>3. HandlerSteps(w) /\ ~Replies(w)
    BY <1>2, <2>1, <2>2 DEF Acts, Replies, Moves
  <2>4. pc[w] # "reply" /\ op' = op
    BY <2>3 DEF HandlerSteps, Moves, Path, Xattr, Fsync, ReadOrWrite, Calls, Access, Flush, FillerFails,
       MknodOpen, MknodClose, Open, Opendir, Release, Releasedir, ReaddirStarts, ReaddirFills
  <2>5. QED
    BY <1>2, <2>3, <2>4
<1>3. QED
  BY <1>1, <1>2

\* Whatever fails is reported, or is one of the two failures that nobody sees.
LEMMA ErrorExplainedStep ==
  ASSUME IInv, ErrorExplained, [Next]_vars
  PROVE  ErrorExplained'
<1> SUFFICES ASSUME NEW v \in Workers, pc'[v] = "reply", failed'[v] # 0
             PROVE  -ret'[v] \in {failed'[v]} \cup LogErrnos \/ Unseen(v)'
  BY DEF ErrorExplained
<1>1. CASE UNCHANGED vars
  BY <1>1 DEF vars, ErrorExplained, Unseen
<1>2. ASSUME NEW w \in Workers, Acts(w)
      PROVE  -ret'[v] \in {failed'[v]} \cup LogErrnos \/ Unseen(v)'
  <2>1. CASE /\ pc[v] = "reply" /\ op'[v] = op[v] /\ ret'[v] = ret[v]
             /\ failed'[v] = failed[v] /\ listed'[v] = listed[v]
    BY <2>1 DEF ErrorExplained, Unseen
  <2>2. CASE v = w /\ HandlerSteps(w) /\ op[w].kind \notin {"readdir", "releasedir"}
    BY <2>2, HandlersExplained DEF Explained
  <2>3. CASE v = w /\ HandlerSteps(w) /\ op[w].kind = "readdir" /\ pc[w] # "reply" /\ op'[w] = op[w]
    BY <2>3, ReaddirExplained DEF Explained, Unseen
  <2>4. CASE v = w /\ HandlerSteps(w) /\ op[w].kind = "releasedir" /\ pc[w] # "reply" /\ op'[w] = op[w]
    BY <2>4, ReleasedirSucceeds DEF Unseen
  <2>5. QED
    BY <1>2, <2>1, <2>2, <2>3, <2>4, NewReply
<1>3. QED
  BY <1>1, <1>2 DEF Next, Acts

-----------------------------------------------------------------------------
\* Without rewinds, and with memory for the entries, a stream that is yet to be
\* read stands at its start, and one that is being read is one entry ahead.
Unread(h) ==
  /\ handle[h].state \in {"opening", "open"} /\ handle[h].fh \in Fds /\ ~handle[h].filled
  /\ \A w \in Workers : (Busy(w) /\ op[w].kind = "readdir" /\ op[w].handle = h)
                          => pc[w] = "call" \/ (pc[w] = "reply" /\ ret[w] # 0)

UnreadAtStart == \A h \in Handles : Unread(h) => position[handle[h].fh] = 0

ReadOnce ==
  \A w \in Workers : (Busy(w) /\ op[w].kind = "readdir") => ~handle[op[w].handle].filled

OneAhead == \A w \in Workers : pc[w] = "entry" => listed[w] + 1 = position[Fh(w)]

StreamsInv == UnreadAtStart /\ ReadOnce /\ OneAhead

\* What the steps do to the flag that libfuse keeps with a handle.
LEMMA FilledKept ==
  ASSUME IInv, NEW w \in Workers, Acts(w), ~Replies(w), NEW h \in Handles,
         \A g \in Handles : ~OpenRequest(w, g)
  PROVE  handle'[h].filled = handle[h].filled
<1>1. handle \in [Handles -> HandleRecords]
  BY Typed
<1>2. CASE UNCHANGED handle
  BY <1>2
<1>3. CASE \E g \in Handles, s \in States : handle' = [handle EXCEPT ![g].state = s]
  BY <1>1, <1>3 DEF HandleRecords
<1>4. CASE \E g \in Handles, v \in Results : handle' = [handle EXCEPT ![g].fh = v]
  BY <1>1, <1>4 DEF HandleRecords
<1>5. CASE \E g \in Handles : ReleaseRequest(w, g)
  BY <1>3, <1>5 DEF ReleaseRequest, States
<1>6. CASE PathRequest(w) \/ \E g \in Handles : HandleRequest(w, g)
  BY <1>2, <1>6 DEF PathRequest, HandleRequest
<1>7. CASE Release(w) \/ Releasedir(w)
  <2>1. op[w].handle \in Handles
    BY <1>7 DEF Release, Releasedir, Moves, IInv, RequestsFit, Busy, Closes
  <2>2. QED
    BY <1>3, <1>7, <2>1 DEF Release, Releasedir, States
<1>8. CASE Open(w) \/ Opendir(w)
  <2>1. op[w].handle \in Handles
    BY <1>8, OpenDoes
  <2>2. \/ UNCHANGED handle
        \/ \E v \in Results : handle' = [handle EXCEPT ![op[w].handle].fh = v]
    BY <1>8, ErrorsKept, OpenErrorsFit DEF Open, Opendir, FreeFds, Results
  <2>3. QED
    BY <1>2, <1>4, <2>1, <2>2
<1>9. QED
  BY <1>2, <1>5, <1>6, <1>7, <1>8 DEF Acts, HandlerSteps, Path, Xattr, Fsync, ReadOrWrite, Calls, Access,
     Flush, FillerFails, MknodOpen, MknodClose, ReaddirStarts, ReaddirFills

LEMMA FilledByReply ==
  ASSUME IInv, NEW w \in Workers, Replies(w), NEW h \in Handles, handle[h].state # "unused"
  PROVE  \/ handle'[h].state = "unused"
         \/ h = op[w].handle /\ op[w].kind = "readdir" /\ handle'[h].filled = (ret[w] = 0)
         \/ ~(h = op[w].handle /\ op[w].kind = "readdir") /\ handle'[h].filled = handle[h].filled
<1>1. handle \in [Handles -> HandleRecords]
  BY Typed
<1>2. handle'[h] = IF h = op[w].handle THEN Settled(w, h) ELSE handle[h]
  BY DEF Replies
<1>3. CASE h # op[w].handle
  BY <1>2, <1>3
<1>4. CASE h = op[w].handle
  <2>1. op[w].kind = "readdir" => handle[h].state = "open"
    BY <1>4 DEF IInv, RequestsFit, Busy, Uses, DirKinds, Replies, Moves
  <2>2. Unused.state = "unused"
    BY DEF Unused
  <2>3. \/ Settled(w, h) = Unused
        \/ op[w].kind # "readdir" /\ Settled(w, h) = [handle[h] EXCEPT !.state = "open"]
        \/ op[w].kind = "readdir" /\ Settled(w, h) = [handle[h] EXCEPT !.filled = ret[w] = 0]
        \/ op[w].kind # "readdir" /\ Settled(w, h) = handle[h]
    BY <2>1 DEF Settled
  <2>4. QED
    BY <1>1, <1>2, <1>4, <2>2, <2>3 DEF HandleRecords
<1>5. QED
  BY <1>3, <1>4

LEMMA ReadOnceStep ==
  ASSUME ~Rewinds, IInv, ReadOnce, [Next]_vars
  PROVE  ReadOnce'
<1> SUFFICES ASSUME NEW v \in Workers, pc'[v] # "idle", op'[v].kind = "readdir"
             PROVE  ~handle'[op'[v].handle].filled
  BY DEF ReadOnce, Busy
<1>1. /\ pc \in [Workers -> {"idle", "call", "close", "entry", "reply"}]
      /\ op \in [Workers -> [kind : Kinds, handle : Handles \cup {None}]]
  BY Typed
<1>2. CASE UNCHANGED vars
  BY <1>2 DEF vars, ReadOnce, Busy
<1>3. ASSUME NEW w \in Workers, Acts(w), pc[v] # "idle", op'[v] = op[v]
      PROVE  ~handle'[op'[v].handle].filled
  <2>1. /\ op[v].handle \in Handles /\ handle[op[v].handle].state = "open" /\ ~handle[op[v].handle].filled
    BY <1>3 DEF ReadOnce, IInv, RequestsFit, Busy, Uses, DirKinds
  <2>2. PICK h \in Handles : h = op[v].handle
    BY <2>1
  <2>3. CASE Replies(w)
    <3>1. v # w
      BY <1>1, <2>3 DEF Replies, Moves
    <3>2. ~(h = op[w].handle /\ op[w].kind = "readdir")
      BY <1>3, <2>1, <2>2, <2>3, <3>1, PassThroughAssumption DEF IInv, SharedByUsers, Busy, Replies, Moves
    <3>3. op[w].handle = h => Uses(w)
      BY <1>3, <2>1, <2>2, <2>3, <3>1, PassThroughAssumption DEF IInv, SharedByUsers, Busy, Replies, Moves
    <3>4. handle'[h].state = handle[h].state
      BY <2>3, <3>3, RepliesDoes, PassThroughAssumption DEF Uses, Opens, Closes, FileKinds, DirKinds
    <3>5. QED
      BY <1>3, <2>1, <2>2, <2>3, <3>2, <3>4, FilledByReply
  <2>4. CASE \E g \in Handles : OpenRequest(w, g)
    <3>1. PICK g \in Handles : OpenRequest(w, g)
      BY <2>4
    <3>2. g # h
      BY <2>1, <2>2, <3>1 DEF OpenRequest
    <3>3. handle'[h] = handle[h]
      BY <3>1, <3>2, Typed DEF OpenRequest
    <3>4. QED
      BY <1>3, <2>1, <2>2, <3>3
  <2>5. QED
    BY <1>3, <2>1, <2>2, <2>3, <2>4, FilledKept
<1>4. ASSUME NEW w \in Workers, Acts(w), pc[v] = "idle"
      PROVE  ~handle'[op'[v].handle].filled
  <2>1. v = w
    BY <1>4, OthersStay
  <2>2. PICK h \in Handles : HandleRequest(w, h) /\ op'[w].handle = h
    <3>1. ~HandlerSteps(w)
      BY <1>4, <2>1 DEF HandlerSteps, Moves, Path, Xattr, Fsync, ReadOrWrite, Calls, Access, Flush, FillerFails,
         MknodOpen, MknodClose, Open, Opendir, Release, Releasedir, ReaddirStarts, ReaddirFills, Replies
    <3>2. ~PathRequest(w)
      BY <1>1, <2>1 DEF PathRequest, Arrives, Sets, PathKinds
    <3>3. \A h \in Handles : ~OpenRequest(w, h) /\ ~ReleaseRequest(w, h)
      <4>1. ASSUME NEW h \in Handles, NEW k, Arrives(w, k, h) PROVE op'[v].kind = k
        BY <1>1, <2>1, <4>1 DEF Arrives, Sets
      <4>2. QED
        BY <4>1 DEF OpenRequest, ReleaseRequest
    <3>4. \A h \in Handles : HandleRequest(w, h) => op'[w].handle = h
      BY <1>1 DEF HandleRequest, Arrives, Sets
    <3>5. QED
      BY <1>4, <3>1, <3>2, <3>3, <3>4 DEF Acts
  <2>3. ~handle[h].filled
    BY <1>1, <2>1, <2>2 DEF HandleRequest, Arrives, Sets
  <2>4. handle' = handle
    BY <2>2 DEF HandleRequest
  <2>5. QED
    BY <2>1, <2>2, <2>3, <2>4
<1>5. ASSUME NEW w \in Workers, Acts(w), pc[v] # "idle"
      PROVE  op'[v] = op[v]
  <2>1. CASE v # w
    BY <1>5, <2>1, OthersStay
  <2>2. CASE v = w
    <3>1. HandlerSteps(w) /\ ~Replies(w)
      BY <1>1, <1>5, <2>2 DEF Acts, PathRequest, OpenRequest, HandleRequest, ReleaseRequest, Arrives, Moves, Replies
    <3>2. QED
      BY <2>2, <3>1 DEF HandlerSteps, Path, Xattr, Fsync, ReadOrWrite, Calls, Access, Flush, FillerFails,
         MknodOpen, MknodClose, Open, Opendir, Release, Releasedir, ReaddirStarts, ReaddirFills
  <2>3. QED
    BY <2>1, <2>2
<1>6. QED
  BY <1>2, <1>3, <1>4, <1>5 DEF Next, Acts

\* The readers of a handle: a stream that is being read has one.
LEMMA ReaderOfHandle ==
  ASSUME IInv, ReadOnce, UnreadAtStart, NEW w \in Workers, pc[w] = "call", op[w].kind = "readdir"
  PROVE  op[w].handle \in Handles /\ Fh(w) \in Fds /\ position[Fh(w)] = 0
<1>1. Busy(w) /\ Uses(w)
  BY DEF Busy, Uses, DirKinds
<1>2. op[w].handle \in Handles /\ handle[op[w].handle].state = "open" /\ Fh(w) \in Fds
  BY <1>1, UsersHold DEF IInv, RequestsFit
<1>3. ASSUME NEW v \in Workers, Busy(v), op[v].kind = "readdir", op[v].handle = op[w].handle
      PROVE  v = w
  BY <1>1, <1>2, <1>3, PassThroughAssumption DEF IInv, SharedByUsers
<1>4. Unread(op[w].handle)
  BY <1>1, <1>2, <1>3 DEF Unread, ReadOnce, Fh
<1>5. QED
  BY <1>2, <1>4 DEF UnreadAtStart, Fh

LEMMA PositionMoves ==
  ASSUME IInv, NEW w \in Workers, Acts(w)
  PROVE  \/ position' = position
         \/ \E d \in Fds : table[d] = None /\ position' = [position EXCEPT ![d] = 0]
         \/ /\ Reads(w) /\ pc'[w] = "entry"
            /\ position' = [position EXCEPT ![Fh(w)] = position[Fh(w)] + 1]
<1>1. CASE ReaddirStarts(w) \/ ReaddirFills(w)
  <2>1. Reads(w)
    BY <1>1, StreamsApart DEF ReaddirStarts, ReaddirFills, Moves, Reads
  <2>2. pc \in [Workers -> {"idle", "call", "close", "entry", "reply"}]
    BY Typed
  <2>3. QED
    BY <1>1, <2>1, <2>2 DEF ReaddirStarts, ReaddirFills, Sets, Moves
<1>2. CASE MknodOpen(w)
  BY <1>2 DEF MknodOpen, Takes, FreeFds, Sets
<1>3. CASE Open(w) \/ Opendir(w)
  BY <1>3, OpenDoes
<1>4. QED
  BY <1>1, <1>2, <1>3 DEF Acts, HandlerSteps, Path, Xattr, Fsync, ReadOrWrite, Calls, Access, Flush, FillerFails,
     MknodClose, Release, Releasedir, Replies, PathRequest, OpenRequest, HandleRequest, ReleaseRequest, Arrives

\* A handle that is open or being opened has the descriptor it had, unless it has just got one.
LEMMA FhMoves ==
  ASSUME IInv, NEW w \in Workers, Acts(w), NEW h \in Handles
  PROVE  /\ ~((Opens(w) \/ Closes(w)) /\ Busy(w) /\ op[w].handle = h) /\ handle[h].state = "open"
              => handle'[h].fh = handle[h].fh
         /\ (handle'[h].state \in {"opening", "open"} /\ handle'[h].fh \in Fds) =>
              \/ position'[handle'[h].fh] = 0
              \/ handle[h].state \in {"opening", "open"} /\ handle'[h].fh = handle[h].fh
<1>1. handle \in [Handles -> HandleRecords] /\ position \in [Fds -> 0 .. Entries]
  BY Typed
<1>2. CASE UNCHANGED handle
  BY <1>2
<1>3. ASSUME NEW g \in Handles, OpenRequest(w, g)
      PROVE  /\ handle[h].state = "open" => handle'[h].fh = handle[h].fh
             /\ handle'[h].fh \in Fds => handle'[h] = handle[h]
  <2>1. handle[g].state = "unused"
    BY <1>3 DEF OpenRequest
  <2>2. h = g => handle'[h].fh = 0
    <3>1. PICK object \in Objects :
            handle' = [handle EXCEPT ![g] = [Unused EXCEPT !.state = "opening", !.object = object]]
      BY <1>3 DEF OpenRequest
    <3>2. QED
      BY <1>1, <3>1, NewHandle
  <2>3. h # g => handle'[h] = handle[h]
    BY <1>1, <1>3 DEF OpenRequest
  <2>4. QED
    BY <2>1, <2>2, <2>3, PassThroughAssumption
<1>4. ASSUME NEW g, NEW s, s \notin {"opening", "open"}, handle' = [handle EXCEPT ![g].state = s]
      PROVE  /\ handle'[h].fh = handle[h].fh
             /\ handle'[h].state \in {"opening", "open"} => handle'[h] = handle[h]
  BY <1>1, <1>4 DEF HandleRecords
<1>5. CASE Release(w) \/ Releasedir(w) \/ \E g \in Handles : ReleaseRequest(w, g)
  <2>1. \E g, s : s \notin {"opening", "open"} /\ handle' = [handle EXCEPT ![g].state = s]
    BY <1>5 DEF Release, Releasedir, ReleaseRequest
  <2>2. QED
    BY <1>4, <2>1
<1>6. CASE Open(w) \/ Opendir(w)
  <2>1. /\ Opens(w) /\ Busy(w) /\ op[w].handle \in Handles
        /\ handle'[h].state = handle[h].state
        /\ h # op[w].handle => handle'[h].fh = handle[h].fh
    BY <1>6, OpenDoes DEF Busy
  <2>2. h = op[w].handle /\ handle'[h].fh \in Fds => position'[handle'[h].fh] = 0
    BY <1>1, <1>6, OpenDoes
  <2>3. QED
    BY <2>1, <2>2
<1>7. CASE Replies(w)
  <2>1. Busy(w)
    BY <1>7, RepliesDoes DEF Busy
  <2>2. \/ handle'[h].state \in {handle[h].state, "open"} /\ handle'[h].fh = handle[h].fh
           /\ handle[h].state \in {handle'[h].state, "opening"}
        \/ h = op[w].handle /\ (Opens(w) \/ Closes(w)) /\ handle'[h].state = "unused"
    BY <1>7, RepliesDoes
  <2>3. QED
    BY <2>1, <2>2
<1>8. QED
  BY <1>2, <1>3, <1>5, <1>6, <1>7 DEF Acts, HandlerSteps, Path, Xattr, Fsync, ReadOrWrite, Calls, Access, Flush, FillerFails,
     MknodOpen, MknodClose, ReaddirStarts, ReaddirFills, PathRequest, HandleRequest

LEMMA OneAheadStep ==
  ASSUME IInv, StreamsInv, [Next]_vars
  PROVE  OneAhead'
<1> SUFFICES ASSUME NEW v \in Workers, pc'[v] = "entry" PROVE listed'[v] + 1 = position'[Fh(v)']
  BY DEF OneAhead
<1>1. /\ position \in [Fds -> 0 .. Entries] /\ listed \in [Workers -> 0 .. Entries]
      /\ Entries \in Nat /\ handle \in [Handles -> HandleRecords]
      /\ pc \in [Workers -> {"idle", "call", "close", "entry", "reply"}]
  BY Typed, PassThroughAssumption
<1>2. CASE UNCHANGED vars
  BY <1>2 DEF vars, StreamsInv, OneAhead, Fh
<1>3. ASSUME NEW w \in Workers, ReaddirStarts(w), v = w PROVE listed'[v] + 1 = position'[Fh(v)']
  <2>1. /\ pc[w] = "call" /\ op[w].kind = "readdir" /\ Fh(w)' = Fh(w)
        /\ listed' = [listed EXCEPT ![w] = 0]
        /\ position' = [position EXCEPT ![Fh(w)] = position[Fh(w)] + 1]
    BY <1>1, <1>3 DEF ReaddirStarts, Moves, Sets, Fh
  <2>2. Fh(w) \in Fds /\ position[Fh(w)] = 0
    BY <2>1, ReaderOfHandle DEF StreamsInv
  <2>3. QED
    BY <1>1, <1>3, <2>1, <2>2
<1>4. ASSUME NEW w \in Workers, ReaddirFills(w), v = w PROVE listed'[v] + 1 = position'[Fh(v)']
  <2>1. /\ pc[w] = "entry" /\ Fh(w)' = Fh(w)
        /\ listed' = [listed EXCEPT ![w] = listed[w] + 1]
        /\ position' = [position EXCEPT ![Fh(w)] = position[Fh(w)] + 1]
    BY <1>1, <1>4 DEF ReaddirFills, Moves, Sets, Fh
  <2>2. Fh(w) \in Fds /\ listed[w] + 1 = position[Fh(w)]
    BY <2>1, StreamsApart DEF StreamsInv, OneAhead
  <2>3. QED
    BY <1>1, <1>4, <2>1, <2>2
<1>5. ASSUME NEW w \in Workers, Acts(w), ~(v = w /\ (ReaddirStarts(w) \/ ReaddirFills(w)))
      PROVE  listed'[v] + 1 = position'[Fh(v)']
  <2>1. pc[v] = "entry" /\ v # w
    <3>1. CASE v # w
      BY <3>1, <1>5, OthersStay
    <3>2. CASE v = w
      BY <1>1, <1>5, <3>2 DEF Acts, HandlerSteps, Moves, Path, Xattr, Fsync, ReadOrWrite, Calls, Access, Flush, FillerFails,
         MknodOpen, MknodClose, Open, Opendir, Release, Releasedir, Replies,
         PathRequest, OpenRequest, HandleRequest, ReleaseRequest, Arrives
    <3>3. QED
      BY <3>1, <3>2
  <2>2. op'[v] = op[v] /\ listed'[v] = listed[v]
    BY <1>5, <2>1, OthersStay
  <2>3. /\ op[v].handle \in Handles /\ handle[op[v].handle].state = "open" /\ Fh(v) \in Fds
        /\ table[Fh(v)] # None /\ listed[v] + 1 = position[Fh(v)]
    BY <2>1, StreamsApart DEF StreamsInv, OneAhead
  <2>4. position'[Fh(v)] = position[Fh(v)]
    <3>1. CASE UNCHANGED position
      BY <3>1
    <3>2. CASE \E d \in Fds : table[d] = None /\ position' = [position EXCEPT ![d] = 0]
      BY <1>1, <2>3, <3>2
    <3>3. CASE Reads(w) /\ position' = [position EXCEPT ![Fh(w)] = position[Fh(w)] + 1]
      <4>1. Fh(v) # Fh(w)
        BY <2>1, <3>3, StreamsApart
      <4>2. QED
        BY <1>1, <2>3, <3>3, <4>1
    <3>4. QED
      BY <1>5, <3>1, <3>2, <3>3, PositionMoves
  <2>5. handle'[op[v].handle].fh = handle[op[v].handle].fh
    <3>1. ~((Opens(w) \/ Closes(w)) /\ Busy(w) /\ op[w].handle = op[v].handle)
      <4>1. Busy(v) /\ Busy(w) /\ (Opens(w) \/ Closes(w)) /\ op[w].handle = op[v].handle => FALSE
        BY <2>3 DEF IInv, RequestsFit
      <4>2. QED
        BY <2>1, <4>1 DEF Busy
    <3>2. QED
      BY <1>5, <2>3, <3>1, FhMoves
  <2>6. QED
    BY <2>2, <2>3, <2>4, <2>5 DEF Fh
<1>6. QED
  BY <1>2, <1>3, <1>4, <1>5 DEF Next, Acts

LEMMA UnreadStep ==
  ASSUME ~MemoryFails, IInv, StreamsInv, [Next]_vars
  PROVE  UnreadAtStart'
<1> SUFFICES ASSUME NEW h \in Handles, Unread(h)' PROVE position'[handle'[h].fh] = 0
  BY DEF UnreadAtStart
<1>1. /\ position \in [Fds -> 0 .. Entries] /\ handle \in [Handles -> HandleRecords]
      /\ pc \in [Workers -> {"idle", "call", "close", "entry", "reply"}]
      /\ ret \in [Workers -> Results]
      /\ op \in [Workers -> [kind : Kinds, handle : Handles \cup {None}]]
  BY Typed
<1>2. CASE UNCHANGED vars
  <2>1. Unread(h)
    BY <1>2 DEF vars, Unread, Busy
  <2>2. QED
    BY <1>2, <2>1 DEF vars, StreamsInv, UnreadAtStart
<1>3. ASSUME NEW w \in Workers, Acts(w), handle[h].state \in {"opening", "open"}, handle'[h].fh = handle[h].fh
      PROVE  position'[handle'[h].fh] = 0
  <2>1. /\ handle[h].fh \in Fds /\ handle'[h].state # "unused" /\ ~handle'[h].filled
        /\ table[handle[h].fh] # None /\ h \in Holding
    <3>1. handle[h].fh \in Fds /\ handle'[h].state # "unused" /\ ~handle'[h].filled
      BY <1>3 DEF Unread
    <3>2. h \in Holding
      BY <1>3, <3>1 DEF Holding
    <3>3. QED
      BY <1>3, <3>1, <3>2 DEF IInv, HandleKeepsObject, ObjectsKnown
  <2>2. ASSUME NEW u \in Workers, Busy(u), op[u].kind = "readdir", op[u].handle = h
        PROVE  pc[u] = "call" \/ (pc[u] = "reply" /\ ret[u] # 0)
    <3>1. CASE u # w
      BY <1>3, <2>2, <3>1, OthersStay DEF Unread, Busy
    <3>2. CASE u = w /\ pc[w] = "entry"
      <4>1. ReaddirFills(w) \/ FillerFails(w)
        BY <1>1, <1>3, <3>2 DEF Acts, HandlerSteps, Moves, Path, Xattr, Fsync, ReadOrWrite, Calls, Access, Flush,
           MknodOpen, MknodClose, Open, Opendir, Release, Releasedir, Replies, ReaddirStarts,
           PathRequest, OpenRequest, HandleRequest, ReleaseRequest, Arrives
      <4>2. ReaddirFills(w)
        BY <4>1 DEF FillerFails
      <4>3. op' = op /\ (pc'[w] = "entry" \/ (pc'[w] = "reply" /\ ret'[w] = 0))
        BY <1>1, <4>2 DEF ReaddirFills, Moves, Sets
      <4>4. QED
        BY <2>2, <3>2, <4>3 DEF Unread, Busy
    <3>3. CASE u = w /\ pc[w] = "reply"
      <4>1. Replies(w)
        BY <1>1, <1>3, <3>3 DEF Acts, HandlerSteps, Moves, Path, Xattr, Fsync, ReadOrWrite, Calls, Access, Flush,
           MknodOpen, MknodClose, Open, Opendir, Release, Releasedir, ReaddirStarts, ReaddirFills, FillerFails,
           PathRequest, OpenRequest, HandleRequest, ReleaseRequest, Arrives
      <4>2. handle'[h].filled = (ret[w] = 0)
        BY <1>3, <2>1, <2>2, <3>3, <4>1, FilledByReply
      <4>3. QED
        BY <2>1, <3>3, <4>2
    <3>4. CASE u = w /\ pc[w] \notin {"entry", "reply"}
      BY <1>1, <2>2, <3>4 DEF Busy, IInv, RequestsFit
    <3>5. QED
      BY <3>1, <3>2, <3>3, <3>4
  <2>3. ~handle[h].filled
    <3>1. CASE Replies(w)
      <4>1. CASE op[w].kind = "readdir" /\ op[w].handle = h
        BY <3>1, <4>1 DEF StreamsInv, ReadOnce, Busy, Replies, Moves
      <4>2. CASE ~(op[w].kind = "readdir" /\ op[w].handle = h)
        BY <1>3, <2>1, <3>1, <4>2, FilledByReply
      <4>3. QED
        BY <4>1, <4>2
    <3>2. CASE \E g \in Handles : OpenRequest(w, g)
      <4>1. handle'[h] = handle[h]
        BY <1>1, <1>3, <3>2 DEF OpenRequest
      <4>2. QED
        BY <2>1, <4>1
    <3>3. CASE ~Replies(w) /\ \A g \in Handles : ~OpenRequest(w, g)
      BY <1>3, <2>1, <3>3, FilledKept
    <3>4. QED
      BY <3>1, <3>2, <3>3
  <2>4. position[handle[h].fh] = 0
    BY <1>3, <2>1, <2>2, <2>3 DEF StreamsInv, UnreadAtStart, Unread
  <2>5. position'[handle[h].fh] = position[handle[h].fh]
    <3>1. CASE \E d \in Fds : table[d] = None /\ position' = [position EXCEPT ![d] = 0]
      BY <1>1, <2>1, <3>1
    <3>2. CASE /\ Reads(w) /\ pc'[w] = "entry"
               /\ position' = [position EXCEPT ![Fh(w)] = position[Fh(w)] + 1]
      <4>1. op[w].handle # h
        <5>1. op'[w] = op[w]
          BY <1>1, <1>3, <3>2 DEF Acts, HandlerSteps, Moves, Path, Xattr, Fsync, ReadOrWrite, Calls, Access, Flush,
             MknodOpen, MknodClose, Open, Opendir, Release, Releasedir, ReaddirStarts, ReaddirFills, FillerFails,
             PathRequest, OpenRequest, HandleRequest, ReleaseRequest, Arrives, Replies
        <5>2. QED
          BY <3>2, <5>1 DEF Unread, Busy, Reads
      <4>2. op[w].handle \in Holding
        BY <3>2, StreamsApart DEF Holding
      <4>3. Fh(w) # handle[h].fh
        BY <2>1, <4>1, <4>2 DEF IInv, OwnersApart, Fh
      <4>4. QED
        BY <1>1, <2>1, <3>2, <4>3
    <3>3. QED
      BY <1>3, <3>1, <3>2, PositionMoves
  <2>6. QED
    BY <1>3, <2>4, <2>5
<1>4. QED
  BY <1>2, <1>3, FhMoves DEF Next, Acts, Unread

LEMMA StreamsStep ==
  ASSUME ~Rewinds, ~MemoryFails, IInv, StreamsInv, [Next]_vars
  PROVE  StreamsInv'
BY UnreadStep, ReadOnceStep, OneAheadStep DEF StreamsInv

\* What readdir replies.
LEMMA ReaddirReplies ==
  ASSUME ~MemoryFails, IInv, StreamsInv, NEW w \in Workers, HandlerSteps(w),
         pc[w] # "reply", pc'[w] = "reply", op[w].kind = "readdir"
  PROVE  \/ failed'[w] # 0 /\ DirErrnos # {}
         \/ failed'[w] = 0 /\ ret'[w] = 0 /\ listed'[w] = Entries
<1>1. /\ pc \in [Workers -> {"idle", "call", "close", "entry", "reply"}]
      /\ ret \in [Workers -> Results] /\ failed \in [Workers -> Errors \cup {0}]
      /\ listed \in [Workers -> 0 .. Entries] /\ position \in [Fds -> 0 .. Entries]
      /\ Entries \in Nat \ {0}
  BY Typed, PassThroughAssumption
<1>2. \A e \in DirErrnos : e # 0
  BY ErrorsKept
<1>3. CASE ReaddirStarts(w)
  <2>1. pc[w] = "call"
    BY <1>1, <1>3 DEF ReaddirStarts, Moves
  <2>2. position[Fh(w)] = 0
    BY <2>1, ReaderOfHandle DEF StreamsInv
  <2>3. \E e \in DirErrnos : failed' = Sets(failed, w, e)
    BY <1>1, <1>3, <2>2 DEF ReaddirStarts, Moves
  <2>4. QED
    BY <1>1, <1>2, <2>3 DEF Sets
<1>4. CASE ReaddirFills(w)
  <2>1. pc[w] = "entry" /\ listed'[w] = listed[w] + 1 /\ ret'[w] = 0
    BY <1>1, <1>4 DEF ReaddirFills, Moves, Sets
  <2>2. listed[w] + 1 = position[Fh(w)]
    BY <2>1 DEF StreamsInv, OneAhead
  <2>3. \/ position[Fh(w)] = Entries /\ failed'[w] = 0
        \/ \E e \in DirErrnos : failed'[w] = e
    BY <1>1, <1>4, <2>1 DEF ReaddirFills, Sets, Moves
  <2>4. QED
    BY <1>1, <1>2, <2>1, <2>2, <2>3
<1>5. ReaddirStarts(w) \/ ReaddirFills(w)
  BY <1>1 DEF HandlerSteps, Moves, Path, Xattr, Fsync, ReadOrWrite, Calls, Access, Flush, Replies, FillerFails,
     MknodOpen, MknodClose, Open, Opendir, Release, Releasedir, IInv, RequestsFit, Busy
<1>6. QED
  BY <1>3, <1>4, <1>5

LEMMA NoFalseErrorStep ==
  ASSUME IInv, NoFalseError, [Next]_vars,
         ~MemoryFails, StreamsInv
  PROVE  NoFalseError'
<1> SUFFICES ASSUME NEW v \in Workers, pc'[v] = "reply", failed'[v] = 0, ret'[v] # 0 PROVE FALSE
  BY DEF NoFalseError
<1>1. CASE UNCHANGED vars
  BY <1>1 DEF vars, NoFalseError
<1>2. ASSUME NEW w \in Workers, Acts(w) PROVE FALSE
  <2>1. CASE pc[v] = "reply" /\ ret'[v] = ret[v] /\ failed'[v] = failed[v]
    BY <2>1 DEF NoFalseError
  <2>2. CASE v = w /\ HandlerSteps(w) /\ op[w].kind \notin {"readdir", "releasedir"}
    BY <2>2, HandlersExplained DEF Explained
  <2>3. CASE v = w /\ HandlerSteps(w) /\ op[w].kind = "readdir" /\ pc[w] # "reply"
    BY <2>3, ReaddirReplies
  <2>4. CASE v = w /\ HandlerSteps(w) /\ op[w].kind = "releasedir" /\ pc[w] # "reply"
    BY <2>4, ReleasedirSucceeds
  <2>5. QED
    BY <1>2, <2>1, <2>2, <2>3, <2>4, NewReply
<1>3. QED
  BY <1>1, <1>2 DEF Next, Acts

LEMMA WholeDirectoryStep ==
  ASSUME IInv, WholeDirectory, [Next]_vars,
         ~MemoryFails, DirErrnos = {}, StreamsInv
  PROVE  WholeDirectory'
<1> SUFFICES ASSUME NEW v \in Workers, pc'[v] = "reply", op'[v].kind = "readdir", ret'[v] = 0
             PROVE  listed'[v] = Entries
  BY DEF WholeDirectory
<1>1. CASE UNCHANGED vars
  BY <1>1 DEF vars, WholeDirectory
<1>2. ASSUME NEW w \in Workers, Acts(w) PROVE listed'[v] = Entries
  <2>1. CASE pc[v] = "reply" /\ op'[v] = op[v] /\ ret'[v] = ret[v] /\ listed'[v] = listed[v]
    BY <2>1 DEF WholeDirectory
  <2>2. CASE v = w /\ HandlerSteps(w) /\ pc[w] # "reply" /\ op'[w] = op[w]
    BY <2>2, ReaddirReplies
  <2>3. QED
    BY <1>2, <2>1, <2>2, NewReply
<1>3. QED
  BY <1>1, <1>2 DEF Next, Acts

\* Whatever fails is reported, by its own error or one of the log, for any
\* programs that read directories in any way; only ::readdir after an entry, and
\* closedir, fail unseen.
THEOREM ErrorExplainedAlways == Spec => []ErrorExplained
<1>1. Init => ErrorExplained
  BY DEF Init, ErrorExplained
<1>2. IInv /\ ErrorExplained /\ [Next]_vars => ErrorExplained'
  BY ErrorExplainedStep
<1>3. QED
  BY <1>1, <1>2, Invariance, PTL DEF Spec

LEMMA StreamsInvariance ==
  ASSUME ~Rewinds, ~MemoryFails
  PROVE  Spec => []StreamsInv
<1>1. Init => StreamsInv
  BY DEF Init, StreamsInv, UnreadAtStart, Unread, ReadOnce, OneAhead, Busy, Unused
<1>2. IInv /\ StreamsInv /\ [Next]_vars => StreamsInv'
  BY StreamsStep
<1>3. QED
  BY <1>1, <1>2, Invariance, PTL DEF Spec

\* No handler returns an error when nothing has failed, where directories are
\* read once and libfuse does not lack memory, even if ::readdir fails: only then
\* is the first null of OverFs::readdir never the end of the stream.
THEOREM NoFalseErrorAlways ==
  ASSUME ~Rewinds, ~MemoryFails
  PROVE  Spec => []NoFalseError
<1>1. Init => NoFalseError
  BY DEF Init, NoFalseError
<1>2. IInv /\ StreamsInv /\ NoFalseError /\ [Next]_vars => NoFalseError'
  BY NoFalseErrorStep
<1>3. QED
  BY <1>1, <1>2, Invariance, StreamsInvariance, PTL DEF Spec

\* A listing without an error is complete, where directories are read once, and
\* neither ::readdir nor the memory of libfuse fails.
THEOREM WholeDirectoryAlways ==
  ASSUME ~Rewinds, ~MemoryFails, DirErrnos = {}
  PROVE  Spec => []WholeDirectory
<1>1. Init => WholeDirectory
  BY DEF Init, WholeDirectory
<1>2. IInv /\ StreamsInv /\ WholeDirectory /\ [Next]_vars => WholeDirectory'
  BY WholeDirectoryStep
<1>3. QED
  BY <1>1, <1>2, Invariance, StreamsInvariance, PTL DEF Spec

=============================================================================
