---------------------------- MODULE ReleaseProofs ----------------------------
(***************************************************************************)
(* Proofs about Release, for any versions, packages, calls and contents of *)
(* CHANGES: the build folder holds one release, and neither a source       *)
(* package nor an arch folder is ever written over.                        *)
(*                                                                         *)
(* Both follow from the inductive invariant IInv: a script that makes the  *)
(* source package knows, from its check of the folder to its own archive,  *)
(* that there is none, and an unpacked source is always that of the archive*)
(* beside it, so that there is nothing else to mix with.                   *)
(*                                                                         *)
(* The last part is about the ends of calls: ReleaseInv follows the        *)
(* temporary files, the archives, the packages and the dist archives from  *)
(* the step that makes them to the end of the call that is to have made or *)
(* removed them.                                                           *)
(***************************************************************************)
EXTENDS Release, ChangesProofs

\* Every step of the scripts and of the user is one of the reader, or none.
LEMMA StepsOfReader == [Next]_vars => [ChangesNext]_reader
<1> SUFFICES ASSUME [Next]_vars PROVE [ChangesNext]_reader
  OBVIOUS
<1>1. CASE UNCHANGED vars
  BY <1>1 DEF vars
<1>2. CASE User
  BY <1>2 DEF User, Starts, EditTree, EmptyFolder, RemoveArch, ChangesNext
<1>3. CASE Stops
  BY <1>3 DEF Stops, ChangesNext
<1>4. CASE Script
  <2>1. CASE AskVersion
    BY <2>1 DEF AskVersion, ChangesNext
  <2>2. CASE ReadVersion
    BY <2>2 DEF ReadVersion, ChangesNext
  <2>3. CASE DebianVersion \/ ArchVersion
    BY <2>3 DEF DebianVersion, ArchVersion, TakeVersion, ChangesNext
  <2>4. CASE \/ CheckFolder \/ Touch \/ MakeTar \/ Untouch \/ Move \/ Unpack \/ Enter
    BY <2>4 DEF CheckFolder, Touch, MakeTar, Untouch, Move, Unpack, Enter
  <2>5. CASE \/ MakeDebian \/ PkgChangelogs \/ CopyEntry \/ TransformFile \/ MakeTemps
    BY <2>5 DEF MakeDebian, PkgChangelogs, CopyEntry, TransformFile, Makes, MakeTemps
  <2>6. CASE Build \/ WriteScripts \/ TarDist \/ Tidy \/ MakeArch \/ ArchFiles
    BY <2>6 DEF Build, WriteScripts, TarDist, Tidy, MakeArch, ArchFiles
  <2>7. QED
    BY <1>4, <2>1, <2>2, <2>3, <2>4, <2>5, <2>6 DEF Script
<1>5. QED
  BY <1>1, <1>2, <1>3, <1>4 DEF Next

-----------------------------------------------------------------------------
LEMMA NoneIsNothing ==
  /\ \A c \in Calls : c # None
  /\ \A o \in Orig : o # None
  /\ \A o \in Raw : o # None
  /\ \A o \in DebianFolder : o # None
  /\ \A o \in ArchFolder : o # None
BY ReleaseAssumption

LEMMA CallTypes ==
  \A c \in Calls : /\ c.tool \in {"debian", "arch", "sourcepackage"}
                   /\ c.tool \in {"debian", "arch"} => c.asked \in Asked /\ c.revision \in
                       Nat \ {0}
BY ReleaseAssumption DEF Debian, Arch, SourceTar

LEMMA CallsTyped ==
  TypeOK /\ [Next]_vars
    => (run \in Calls \cup {None} /\ last \in Calls \cup {None})'
<1> SUFFICES ASSUME TypeOK, [Next]_vars
             PROVE  (run \in Calls \cup {None} /\ last \in Calls \cup {None})'
  OBVIOUS
<1> USE DEF TypeOK
<1>1. CASE EditTree \/ EmptyFolder \/ RemoveArch \/ Stops \/ Starts
  BY <1>1 DEF EditTree, EmptyFolder, RemoveArch, Stops, Breaks, Starts
<1>2. CASE CheckFolder \/ AskVersion \/ ReadVersion \/ DebianVersion \/ ArchVersion
  BY <1>2 DEF CheckFolder, Goes, AskVersion, ReadVersion, DebianVersion, TakeVersion, ArchVersion
<1>3. CASE Touch \/ MakeTar \/ Untouch \/ Move \/ Unpack \/ Enter
  BY <1>3 DEF Touch, Goes, MakeTar, Breaks, Untouch, EndsWell, Move, Unpack, Enter
<1>4. CASE MakeDebian \/ PkgChangelogs \/ CopyEntry \/ TransformFile \/ MakeTemps
  BY <1>4 DEF MakeDebian, Goes, PkgChangelogs, Makes, CopyEntry, TransformFile,
      MakeTemps, Breaks
<1>5. CASE Build \/ WriteScripts \/ TarDist \/ Tidy \/ MakeArch \/ ArchFiles
  BY <1>5 DEF Build, Goes, Breaks, WriteScripts, EndsWell, TarDist, Tidy, MakeArch, ArchFiles
<1>6. CASE UNCHANGED vars
  BY <1>6 DEF vars
<1>7. QED
  BY <1>1, <1>2, <1>3, <1>4, <1>5, <1>6 DEF Next, User, Script

LEMMA NameTyped ==
  TypeOK /\ [Next]_vars
    => (name \in Asked)'
<1> SUFFICES ASSUME TypeOK, [Next]_vars
             PROVE  (name \in Asked)'
  OBVIOUS
<1> USE DEF TypeOK
<1>1. CASE DebianVersion
  <2>1. Returned /\ run # None /\ run.tool \in {"debian", "arch"}
    BY <1>1 DEF DebianVersion, TakeVersion
  <2>2. version \in Asked
    BY DEF TypeOK, ReaderOK, Asked
  <2>3. run \in Calls
    BY <2>1 DEF TypeOK
  <2>4. run.asked \in Asked
    BY <2>1, <2>3, CallTypes
  <2>5. QED
    BY <1>1, <2>2, <2>4 DEF DebianVersion, TakeVersion
<1>2. CASE ArchVersion
  <2>1. Returned /\ run # None /\ run.tool \in {"debian", "arch"}
    BY <1>2 DEF ArchVersion, TakeVersion
  <2>2. version \in Asked
    BY DEF TypeOK, ReaderOK, Asked
  <2>3. run \in Calls
    BY <2>1 DEF TypeOK
  <2>4. run.asked \in Asked
    BY <2>1, <2>3, CallTypes
  <2>5. QED
    BY <1>2, <2>2, <2>4 DEF ArchVersion, TakeVersion
<1>3. CASE Starts
  BY <1>3 DEF Starts, Asked
<1>4. CASE EditTree \/ EmptyFolder \/ RemoveArch \/ Stops
  BY <1>4 DEF EditTree, EmptyFolder, RemoveArch, Stops, Breaks
<1>5. CASE CheckFolder \/ AskVersion \/ ReadVersion
  BY <1>5 DEF CheckFolder, Goes, AskVersion, ReadVersion
<1>6. CASE Touch \/ MakeTar \/ Untouch \/ Move \/ Unpack \/ Enter
  BY <1>6 DEF Touch, Goes, MakeTar, Breaks, Untouch, EndsWell, Move, Unpack, Enter
<1>7. CASE MakeDebian \/ PkgChangelogs \/ CopyEntry \/ TransformFile \/ MakeTemps
  BY <1>7 DEF MakeDebian, Goes, PkgChangelogs, Makes, CopyEntry, TransformFile,
      MakeTemps, Breaks
<1>8. CASE Build \/ WriteScripts \/ TarDist \/ Tidy \/ MakeArch \/ ArchFiles
  BY <1>8 DEF Build, Goes, Breaks, WriteScripts, EndsWell, TarDist, Tidy, MakeArch, ArchFiles
<1>9. CASE UNCHANGED vars
  BY <1>9 DEF vars
<1>10. QED
  BY <1>1, <1>2, <1>3, <1>4, <1>5, <1>6, <1>7, <1>8, <1>9 DEF Next, User, Script

LEMMA FilesTyped ==
  TypeOK /\ [Next]_vars
    => (tree \in Nat /\ temps \subseteq {"touch", "name"} /\ helpers \subseteq Helpers)'
<1> SUFFICES ASSUME TypeOK, [Next]_vars
             PROVE  (tree \in Nat /\ temps \subseteq {"touch", "name"} /\ helpers \subseteq
                 Helpers)'
  OBVIOUS
<1> USE DEF TypeOK, built, disk, package
<1>1. CASE EditTree
  <2>1. tree' = tree + 1 /\ UNCHANGED <<temps, helpers>>
    BY <1>1 DEF EditTree
  <2>2. QED
    BY <2>1 DEF TypeOK
<1>2. CASE WriteScripts
  <2>1. helpers \subseteq Helpers
    BY DEF TypeOK
  <2>2. helpers' \in {helpers, Helpers, helpers \cup {"install-bin.sh"}}
    BY <1>2 DEF WriteScripts
  <2>3. helpers' \subseteq Helpers
    BY <2>1, <2>2 DEF Helpers
  <2>4. UNCHANGED <<tree, temps>>
    BY <1>2 DEF WriteScripts
  <2>5. QED
    BY <2>3, <2>4 DEF TypeOK
<1>3. CASE EmptyFolder \/ RemoveArch \/ Stops \/ Starts
  BY <1>3 DEF EmptyFolder, RemoveArch, Stops, Breaks, Starts
<1>4. CASE CheckFolder \/ AskVersion \/ ReadVersion \/ DebianVersion \/ ArchVersion
  BY <1>4 DEF CheckFolder, Goes, AskVersion, ReadVersion, DebianVersion, TakeVersion, ArchVersion
<1>5. CASE Touch \/ MakeTar \/ Untouch \/ Move \/ Unpack \/ Enter
  BY <1>5 DEF Touch, Goes, MakeTar, Breaks, Untouch, EndsWell, Move, Unpack, Enter
<1>6. CASE MakeDebian \/ PkgChangelogs \/ CopyEntry \/ TransformFile \/ MakeTemps
  BY <1>6 DEF MakeDebian, Goes, PkgChangelogs, Makes, CopyEntry, TransformFile,
      MakeTemps, Breaks
<1>7. CASE Build \/ TarDist \/ Tidy \/ MakeArch \/ ArchFiles
  BY <1>7 DEF Build, Goes, Breaks, TarDist, Tidy, EndsWell, MakeArch, ArchFiles
<1>8. CASE UNCHANGED vars
  BY <1>8 DEF vars
<1>9. QED
  BY <1>1, <1>2, <1>3, <1>4, <1>5, <1>6, <1>7, <1>8 DEF Next, User, Script

LEMMA TarsTyped ==
  TypeOK /\ [Next]_vars
    => (tars \subseteq Tars)'
<1> SUFFICES ASSUME TypeOK, [Next]_vars
             PROVE  (tars \subseteq Tars)'
  OBVIOUS
<1> USE DEF TypeOK, disk
<1>1. CASE MakeTar
  <2>1. name \in Asked /\ tree \in Nat /\ tars \subseteq Tars
    BY DEF TypeOK
  <2>2. TarName \in Asked \cup {"dated"}
    BY <2>1 DEF TarName
  <2>3. QED
    BY <1>1, <2>1, <2>2 DEF MakeTar, Put, Tars
<1>2. CASE Move
  BY <1>2 DEF Move, TypeOK
<1>3. CASE EditTree \/ EmptyFolder \/ RemoveArch \/ Stops \/ Starts
  BY <1>3 DEF EditTree, EmptyFolder, RemoveArch, Stops, Breaks, Starts
<1>4. CASE CheckFolder \/ AskVersion \/ ReadVersion \/ DebianVersion \/ ArchVersion
  BY <1>4 DEF CheckFolder, Goes, AskVersion, ReadVersion, DebianVersion, TakeVersion, ArchVersion
<1>5. CASE Touch \/ Untouch \/ Unpack \/ Enter
  BY <1>5 DEF Touch, Goes, Untouch, EndsWell, Unpack, Enter
<1>6. CASE MakeDebian \/ PkgChangelogs \/ CopyEntry \/ TransformFile \/ MakeTemps
  BY <1>6 DEF MakeDebian, Goes, PkgChangelogs, Makes, CopyEntry, TransformFile,
      MakeTemps, Breaks
<1>7. CASE Build \/ WriteScripts \/ TarDist \/ Tidy \/ MakeArch \/ ArchFiles
  BY <1>7 DEF Build, Goes, Breaks, WriteScripts, EndsWell, TarDist, Tidy, MakeArch, ArchFiles
<1>8. CASE UNCHANGED vars
  BY <1>8 DEF vars
<1>9. QED
  BY <1>1, <1>2, <1>3, <1>4, <1>5, <1>6, <1>7, <1>8 DEF Next, User, Script

LEMMA PackageTyped ==
  TypeOK /\ StepsFit /\ [Next]_vars
    => (orig \in Orig \cup {None} /\ raw \in Raw \cup {None})'
<1> SUFFICES ASSUME TypeOK, StepsFit, [Next]_vars
             PROVE  (orig \in Orig \cup {None} /\ raw \in Raw \cup {None})'
  OBVIOUS
<1> USE DEF TypeOK, package, disk
<1>1. CASE Move
  <2>1. name \in Asked /\ tars \subseteq Tars
    BY DEF TypeOK
  <2>2. PICK t \in tars, whole \in BOOLEAN :
          orig' = [version |-> name, tree |-> t.tree, whole |-> whole]
    BY <1>1 DEF Move
  <2>3. t.tree \in Nat
    BY <2>1, <2>2 DEF Tars
  <2>4. orig' \in Orig
    BY <2>1, <2>2, <2>3 DEF Orig
  <2>5. raw' = raw
    BY <1>1 DEF Move
  <2>6. QED
    BY <2>4, <2>5 DEF TypeOK
<1>2. CASE Unpack
  <2>1. orig \in Orig \cup {None} /\ name \in Asked
    BY DEF TypeOK
  <2>2. orig # None
    BY <1>2 DEF Unpack, Goes, StepsFit
  <2>3. orig.tree \in Nat
    BY <2>1, <2>2 DEF Orig
  <2>4. raw' \in Raw
    BY <1>2, <2>1, <2>3 DEF Unpack, Raw
  <2>5. QED
    BY <1>2, <2>1, <2>4 DEF Unpack
<1>3. CASE EditTree \/ EmptyFolder \/ RemoveArch \/ Stops \/ Starts
  BY <1>3 DEF EditTree, EmptyFolder, RemoveArch, Stops, Breaks, Starts
<1>4. CASE CheckFolder \/ AskVersion \/ ReadVersion \/ DebianVersion \/ ArchVersion
  BY <1>4 DEF CheckFolder, Goes, AskVersion, ReadVersion, DebianVersion, TakeVersion, ArchVersion
<1>5. CASE Touch \/ MakeTar \/ Untouch \/ Enter
  BY <1>5 DEF Touch, Goes, MakeTar, Breaks, Untouch, EndsWell, Enter
<1>6. CASE MakeDebian \/ PkgChangelogs \/ CopyEntry \/ TransformFile \/ MakeTemps
  BY <1>6 DEF MakeDebian, Goes, PkgChangelogs, Makes, CopyEntry, TransformFile,
      MakeTemps, Breaks
<1>7. CASE Build \/ WriteScripts \/ TarDist \/ Tidy \/ MakeArch \/ ArchFiles
  BY <1>7 DEF Build, Goes, Breaks, WriteScripts, EndsWell, TarDist, Tidy, MakeArch, ArchFiles
<1>8. CASE UNCHANGED vars
  BY <1>8 DEF vars
<1>9. QED
  BY <1>1, <1>2, <1>3, <1>4, <1>5, <1>6, <1>7, <1>8 DEF Next, User, Script

LEMMA DebianTyped ==
  TypeOK /\ StepsFit /\ [Next]_vars
    => (debian \in DebianFolder \cup {None} /\ arch \in ArchFolder \cup {None})'
<1> SUFFICES ASSUME TypeOK, StepsFit, [Next]_vars
             PROVE  (debian \in DebianFolder \cup {None} /\ arch \in ArchFolder \cup {None})'
  OBVIOUS
<1> USE DEF TypeOK, package, disk
<1>1. CASE MakeDebian
  <2>1. run \in Calls /\ run.tool = "debian" /\ name \in Asked
    BY <1>1 DEF TypeOK, StepsFit, MakeDebian, Goes
  <2>2. run.revision \in Nat \ {0}
    BY <2>1, CallTypes
  <2>3. debian' \in DebianFolder
    BY <1>1, <2>1, <2>2 DEF MakeDebian, DebianFolder
  <2>4. QED
    BY <1>1, <2>3 DEF MakeDebian, TypeOK
<1>2. CASE PkgChangelogs \/ CopyEntry \/ TransformFile
  <2>1. PICK e \in Entries, step \in {"entries", "transform"} : Makes(e, step)
    BY <1>2 DEF PkgChangelogs, CopyEntry, TransformFile, Entries
  <2>2. debian \in DebianFolder
    BY <2>1 DEF Makes, Goes, StepsFit, TypeOK
  <2>3. debian' = [debian EXCEPT !.files = @ \cup {e}]
    BY <2>1 DEF Makes
  <2>4. debian' \in DebianFolder
    BY <2>2, <2>3 DEF DebianFolder
  <2>5. QED
    BY <2>1, <2>4 DEF Makes, TypeOK
<1>3. CASE MakeArch
  <2>1. run \in Calls /\ run.tool \in {"arch", "debian"} /\ name \in Asked
    BY <1>3 DEF TypeOK, StepsFit, MakeArch, Goes
  <2>2. run.revision \in Nat \ {0}
    BY <2>1, CallTypes
  <2>3. arch' \in ArchFolder
    BY <1>3, <2>1, <2>2 DEF MakeArch, ArchFolder
  <2>4. QED
    BY <1>3, <2>3 DEF MakeArch, TypeOK
<1>4. CASE ArchFiles
  <2>1. arch \in ArchFolder
    BY <1>4 DEF TypeOK, StepsFit, ArchFiles, EndsWell
  <2>2. arch' \in ArchFolder
    BY <1>4, <2>1 DEF ArchFiles, ArchFolder
  <2>3. QED
    BY <1>4, <2>2 DEF ArchFiles, TypeOK
<1>5. CASE EditTree \/ EmptyFolder \/ RemoveArch \/ Stops \/ Starts
  BY <1>5 DEF EditTree, EmptyFolder, RemoveArch, Stops, Breaks, Starts
<1>6. CASE CheckFolder \/ AskVersion \/ ReadVersion \/ DebianVersion \/ ArchVersion
  BY <1>6 DEF CheckFolder, Goes, AskVersion, ReadVersion, DebianVersion, TakeVersion, ArchVersion
<1>7. CASE Touch \/ MakeTar \/ Untouch \/ Move \/ Unpack \/ Enter
  BY <1>7 DEF Touch, Goes, MakeTar, Breaks, Untouch, EndsWell, Move, Unpack, Enter
<1>8. CASE MakeTemps
  BY <1>8 DEF MakeTemps, Breaks
<1>9. CASE Build \/ WriteScripts \/ TarDist \/ Tidy
  BY <1>9 DEF Build, Goes, Breaks, WriteScripts, EndsWell, TarDist, Tidy
<1>10. CASE UNCHANGED vars
  BY <1>10 DEF vars
<1>11. QED
  BY <1>1, <1>2, <1>3, <1>4, <1>5, <1>6, <1>7, <1>8, <1>9, <1>10 DEF Next, User, Script

LEMMA TypeStep == TypeOK /\ StepsFit /\ [Next]_vars => TypeOK'
<1> SUFFICES ASSUME TypeOK, StepsFit, [Next]_vars PROVE TypeOK'
  OBVIOUS
<1>1. ReaderOK'
  BY StepsOfReader, ReaderTypeStep DEF TypeOK
<1>2. QED
  BY <1>1, CallsTyped, NameTyped, FilesTyped, TarsTyped, PackageTyped, DebianTyped DEF TypeOK

-----------------------------------------------------------------------------

\* From one step of a script to the next.
LEMMA StepsStep ==
  TypeOK /\ StepsFit /\ [Next]_vars
    => StepsFit'
<1> SUFFICES ASSUME TypeOK, StepsFit, [Next]_vars
             PROVE  StepsFit'
  OBVIOUS
<1> USE DEF StepsFit, package, built, disk
<1>1. CASE Starts
  <2>1. PICK c \in Calls : run' = c /\ at' = FirstStep[c.tool]
    BY <1>1 DEF Starts
  <2>2. c # None /\ c.tool \in {"debian", "arch", "sourcepackage"}
    BY NoneIsNothing, CallTypes
  <2>3. \/ c.tool = "debian" /\ at' = "folder"
        \/ c.tool = "arch" /\ at' = "version"
        \/ c.tool = "sourcepackage" /\ at' = "touch"
    BY <2>1, <2>2 DEF FirstStep
  <2>4. QED
    BY <2>1, <2>2, <2>3 DEF StepsFit
<1>2. CASE Move
  <2>1. at = "move" /\ run # None /\ run.tool = "debian" /\ run.source
    BY <1>2 DEF Move, StepsFit
  <2>2. orig' # None /\ orig'.version = name /\ name' = name
    <3>1. PICK t \in tars, whole \in BOOLEAN :
            orig' = [version |-> name, tree |-> t.tree, whole |-> whole]
      BY <1>2 DEF Move
    <3>2. t.tree \in Nat /\ name \in Asked
      BY <3>1 DEF TypeOK, Tars
    <3>3. orig' \in Orig
      BY <3>1, <3>2 DEF Orig
    <3>4. QED
      BY <1>2, <3>1, <3>3, NoneIsNothing DEF Move
  <2>3. at' \in {"unpack", "none"} /\ (at' = "unpack" => run' = run)
    BY <1>2 DEF Move, Goes, Breaks
  <2>4. QED
    BY <2>1, <2>2, <2>3 DEF StepsFit
<1>3. CASE Unpack
  <2>1. run' = run /\ at' = "enter" /\ run # None /\ run.tool = "debian"
    BY <1>3 DEF Unpack, Goes, StepsFit
  <2>2. QED
    BY <2>1 DEF StepsFit
<1>4. CASE MakeDebian
  <2>1. /\ run' = run /\ at' = "entries" /\ run # None /\ run.tool = "debian" /\ run.source
        /\ raw # None /\ raw.version = name /\ raw' = raw /\ name' = name
    BY <1>4 DEF MakeDebian, Goes, StepsFit, package
  <2>2. debian' # None
    <3>1. run.revision \in Nat \ {0} /\ name \in Asked
      BY <2>1, CallTypes DEF TypeOK
    <3>2. debian' \in DebianFolder
      BY <1>4, <3>1 DEF MakeDebian, DebianFolder
    <3>3. QED
      BY <3>2, NoneIsNothing
  <2>3. QED
    BY <2>1, <2>2 DEF StepsFit
<1>5. CASE PkgChangelogs \/ CopyEntry \/ TransformFile
  <2>1. PICK e \in Entries, step \in {"entries", "transform"} : Makes(e, step)
    BY <1>5 DEF PkgChangelogs, CopyEntry, TransformFile, Entries
  <2>2. /\ run' = run /\ at' \in {"entries", "build"} /\ run # None
        /\ run.tool = "debian" /\ run.source
        /\ raw # None /\ raw.version = name /\ raw' = raw /\ name' = name
    BY <2>1 DEF Makes, Goes, StepsFit
  <2>3. debian' # None
    <3>1. debian \in DebianFolder
      BY <2>1 DEF Makes, Goes, StepsFit, TypeOK
    <3>2. debian' = [debian EXCEPT !.files = @ \cup {e}]
      BY <2>1 DEF Makes
    <3>3. debian' \in DebianFolder
      BY <3>1, <3>2 DEF DebianFolder
    <3>4. QED
      BY <3>3, NoneIsNothing
  <2>4. QED
    BY <2>2, <2>3 DEF StepsFit
<1>6. CASE MakeArch
  <2>1. run' = run /\ at' = "archfiles" /\ run # None /\ run.tool = "arch"
    BY <1>6 DEF MakeArch, Goes, StepsFit
  <2>2. arch' # None /\ ~arch'.whole
    <3>1. run.revision \in Nat \ {0} /\ name \in Asked
      BY <2>1, CallTypes DEF TypeOK
    <3>2. arch' = [version |-> name, revision |-> run.revision, whole |-> FALSE]
      BY <1>6 DEF MakeArch
    <3>3. arch' \in ArchFolder
      BY <3>1, <3>2 DEF ArchFolder
    <3>4. QED
      BY <3>2, <3>3, NoneIsNothing
  <2>3. QED
    BY <2>1, <2>2 DEF StepsFit
<1>7. CASE EditTree \/ EmptyFolder \/ RemoveArch \/ Stops
  BY <1>7 DEF EditTree, EmptyFolder, RemoveArch, Stops, Breaks
<1>8. CASE CheckFolder \/ AskVersion \/ ReadVersion \/ DebianVersion \/ ArchVersion
  BY <1>8 DEF CheckFolder, Goes, AskVersion, ReadVersion, DebianVersion, TakeVersion, ArchVersion
<1>9. CASE Touch \/ MakeTar \/ Untouch \/ Enter
  BY <1>9 DEF Touch, Goes, MakeTar, Breaks, Untouch, EndsWell, Enter
<1>10. CASE MakeTemps
  BY <1>10 DEF PkgChangelogs, Makes, Goes, CopyEntry, TransformFile, MakeTemps, Breaks
<1>11. CASE Build \/ WriteScripts \/ TarDist \/ Tidy \/ ArchFiles
  BY <1>11 DEF Build, Goes, Breaks, WriteScripts, EndsWell, TarDist, Tidy, ArchFiles
<1>12. CASE UNCHANGED vars
  BY <1>12 DEF vars
<1>13. QED
  BY <1>1, <1>2, <1>3, <1>4, <1>5, <1>6, <1>7, <1>8, <1>9, <1>10, <1>11, <1>12 DEF Next,
      User, Script

\* What is built is of the unpacked source, which is that of the archive.
LEMMA OneReleaseStep ==
  IInv /\ [Next]_vars
    => OneRelease'
<1> SUFFICES ASSUME IInv, [Next]_vars
             PROVE  OneRelease'
  OBVIOUS
<1> USE DEF IInv, OneRelease, package, built, disk
<1>1. CASE EmptyFolder
  BY <1>1 DEF EmptyFolder, OneRelease
<1>2. CASE Move
  <2>1. orig = None
    BY <1>2 DEF IInv, StepsFit, Move
  <2>2. raw = None /\ debian = None /\ debs = {}
    <3>1. raw = None
      BY <2>1, NoneIsNothing DEF IInv, TypeOK, OneRelease, Orig, Raw
    <3>2. QED
      BY <3>1 DEF IInv, OneRelease
  <2>3. UNCHANGED <<raw, debian, debs>>
    BY <1>2 DEF Move, built
  <2>4. QED
    BY <2>2, <2>3 DEF OneRelease
<1>3. CASE Unpack
  <2>1. raw = None /\ orig.whole /\ orig \in Orig /\ orig.version = name
    BY <1>3 DEF Unpack, Goes, IInv, StepsFit, TypeOK
  <2>2. debian = None /\ debs = {}
    BY <2>1 DEF IInv, OneRelease
  <2>3. raw' = [version |-> name, tree |-> orig.tree] /\ UNCHANGED <<orig, debian, debs>>
    BY <1>3 DEF Unpack, built
  <2>4. orig = [version |-> name, tree |-> orig.tree, whole |-> TRUE]
    BY <2>1 DEF Orig
  <2>5. QED
    BY <2>2, <2>3, <2>4 DEF OneRelease
<1>4. CASE MakeDebian
  <2>1. debian = None /\ raw # None /\ raw.version = name
    BY <1>4 DEF MakeDebian, Goes, IInv, StepsFit
  <2>2. debs = {}
    BY <2>1 DEF IInv, OneRelease
  <2>3. /\ debian' = [version |-> name, revision |-> run.revision, files |-> {}]
        /\ UNCHANGED <<orig, raw, debs>>
    BY <1>4 DEF MakeDebian, built
  <2>4. QED
    BY <2>1, <2>2, <2>3 DEF IInv, OneRelease
<1>5. CASE PkgChangelogs \/ CopyEntry \/ TransformFile
  <2>1. PICK e \in Entries, step \in {"entries", "transform"} : Makes(e, step)
    BY <1>5 DEF PkgChangelogs, CopyEntry, TransformFile, Entries
  <2>2. debian \in DebianFolder /\ debian # None
    BY <2>1 DEF Makes, Goes, IInv, StepsFit, TypeOK
  <2>3. debian' = [debian EXCEPT !.files = @ \cup {e}] /\ UNCHANGED <<orig, raw, debs>>
    BY <2>1 DEF Makes, built
  <2>4. debian'.version = debian.version /\ debian'.revision = debian.revision
    BY <2>2, <2>3 DEF DebianFolder
  <2>5. debian' # None
    <3>1. debian' \in DebianFolder
      BY <2>2, <2>3 DEF DebianFolder
    <3>2. QED
      BY <3>1, NoneIsNothing
  <2>6. QED
    BY <2>2, <2>3, <2>4, <2>5 DEF IInv, OneRelease
<1>6. CASE Build
  <2>1. UNCHANGED <<orig, raw, debian>>
    BY <1>6 DEF Build, package
  <2>2. CASE debs' = debs
    BY <2>1, <2>2 DEF IInv, OneRelease
  <2>3. CASE debian # None /\ \E new \in SUBSET NewDebs : debs' = Over(new)
    <3>1. PICK new \in SUBSET NewDebs : debs' = Over(new)
      BY <2>3
    <3>2. debs' \subseteq debs \cup NewDebs
      BY <3>1 DEF Over
    <3>3. \A d \in NewDebs : /\ d.tree = raw.tree /\ d.version = debian.version
                            /\ d.revision = debian.revision
      BY DEF NewDebs, Deb
    <3>4. \A d \in debs : /\ d.tree = raw.tree /\ d.version = debian.version
                         /\ d.revision = debian.revision
      BY DEF IInv, OneRelease
    <3>5. \A d \in debs' : /\ debian' # None
                          /\ d.tree = raw'.tree /\ d.version = debian'.version
                          /\ d.revision = debian'.revision
      BY <2>1, <2>3, <3>2, <3>3, <3>4
    <3>6. QED
      BY <2>1, <3>5 DEF IInv, OneRelease
  <2>4. debs' = debs \/ (debian # None /\ \E new \in SUBSET NewDebs : debs' = Over(new))
    BY <1>6 DEF Build
  <2>5. QED
    BY <2>2, <2>3, <2>4
<1>7. CASE EditTree \/ RemoveArch \/ Stops \/ Starts
  BY <1>7 DEF EditTree, RemoveArch, Stops, Breaks, Starts
<1>8. CASE CheckFolder \/ AskVersion \/ ReadVersion \/ DebianVersion \/ ArchVersion
  BY <1>8 DEF CheckFolder, Goes, AskVersion, ReadVersion, DebianVersion, TakeVersion, ArchVersion
<1>9. CASE Touch \/ MakeTar \/ Untouch \/ Enter
  BY <1>9 DEF Touch, Goes, MakeTar, Breaks, Untouch, EndsWell, Enter
<1>10. CASE MakeTemps
  BY <1>10 DEF MakeTemps, Breaks
<1>11. CASE WriteScripts \/ TarDist \/ Tidy \/ MakeArch \/ ArchFiles
  BY <1>11 DEF WriteScripts, Goes, EndsWell, Breaks, TarDist, Tidy, MakeArch, ArchFiles
<1>12. CASE UNCHANGED vars
  BY <1>12 DEF vars
<1>13. QED
  BY <1>1, <1>2, <1>3, <1>4, <1>5, <1>6, <1>7, <1>8, <1>9, <1>10, <1>11, <1>12 DEF Next,
      User, Script

-----------------------------------------------------------------------------
LEMMA Starting == Init => IInv /\ ReaderInv
<1> SUFFICES ASSUME Init PROVE IInv /\ ReaderInv
  OBVIOUS
<1>1. ReaderInv
  BY ReaderStarts DEF Init
<1>2. ReaderOK
  BY <1>1 DEF ReaderInv
<1>3. TypeOK
  BY <1>2 DEF Init, TypeOK, Asked, Tars
<1>4. StepsFit
  BY DEF Init, StepsFit
<1>5. OneRelease
  BY DEF Init, OneRelease
<1>6. QED
  BY <1>1, <1>3, <1>4, <1>5 DEF IInv

LEMMA Step == IInv /\ [Next]_vars => IInv'
BY TypeStep, StepsStep, OneReleaseStep DEF IInv

\* The inductive invariant: the calls, the files and what each step may rely on.
THEOREM Invariance == Spec => []IInv
BY Starting, Step, PTL DEF Spec

\* The build folder holds one release: whatever calls have failed and are repeated
\* in part, what is in it comes from one source tree and has one version.
THEOREM OneReleaseAlways == Spec => []OneRelease
<1>1. IInv => OneRelease
  BY DEF IInv
<1>2. QED
  BY <1>1, Invariance, PTL

\* What getLastVersionAndDateFromChanged returns to the scripts is an entry of the
\* CHANGES file, and what it refuses has none.
THEOREM ReadsRightlyAlways == Spec => [](ReturnsAnEntry /\ RefusesWhatIsFaulty)
<1>1. ReaderInv => ReturnsAnEntry /\ RefusesWhatIsFaulty
  BY DEF ReaderInv
<1>2. ReaderInv /\ [Next]_vars => ReaderInv'
  BY StepsOfReader, ReaderStep
<1>3. QED
  BY <1>1, <1>2, Starting, PTL DEF Spec

LEMMA NothingIsOverwritten ==
  IInv /\ [Next]_vars
    => Kept
<1> SUFFICES ASSUME IInv, [Next]_vars
             PROVE  Kept
  OBVIOUS
<1> USE DEF Kept, package, built, disk
<1>1. CASE EmptyFolder
  BY <1>1 DEF EmptyFolder
<1>2. CASE RemoveArch
  BY <1>2 DEF RemoveArch
<1>3. CASE Move
  BY <1>3 DEF Move, IInv, StepsFit
<1>4. CASE MakeArch
  BY <1>4 DEF MakeArch
<1>5. CASE ArchFiles
  BY <1>5 DEF ArchFiles, EndsWell, IInv, StepsFit
<1>6. CASE EditTree \/ Stops \/ Starts
  BY <1>6 DEF EditTree, Stops, Breaks, Starts
<1>7. CASE CheckFolder \/ AskVersion \/ ReadVersion \/ DebianVersion \/ ArchVersion
  BY <1>7 DEF CheckFolder, Goes, AskVersion, ReadVersion, DebianVersion, TakeVersion, ArchVersion
<1>8. CASE Touch \/ MakeTar \/ Untouch \/ Unpack \/ Enter
  BY <1>8 DEF Touch, Goes, MakeTar, Breaks, Untouch, EndsWell, Unpack, Enter
<1>9. CASE MakeDebian \/ PkgChangelogs \/ CopyEntry \/ TransformFile \/ MakeTemps
  BY <1>9 DEF MakeDebian, Goes, PkgChangelogs, Makes, CopyEntry, TransformFile,
      MakeTemps, Breaks
<1>10. CASE Build \/ WriteScripts \/ TarDist \/ Tidy
  BY <1>10 DEF Build, Goes, Breaks, WriteScripts, EndsWell, TarDist, Tidy
<1>11. CASE UNCHANGED vars
  BY <1>11 DEF vars
<1>12. QED
  BY <1>1, <1>2, <1>3, <1>4, <1>5, <1>6, <1>7, <1>8, <1>9, <1>10, <1>11 DEF Next, User, Script

\* A source package and a whole arch folder are never written over.
THEOREM NeverOverwrittenAlways == Spec => NeverOverwritten
<1>1. IInv /\ [Next]_vars => Kept
  BY NothingIsOverwritten
<1>2. QED
  BY <1>1, Invariance, PTL DEF Spec, NeverOverwritten

-----------------------------------------------------------------------------
\* The steps of debian_create.py after its source has been moved to the build folder.
Making   == {"unpack", "enter", "debian", "entries", "transform", "build", "scripts", "zip",
              "tidy"}
Packaging == {"scripts", "zip", "tidy"}

\* Whose steps they are, and that they work on a source of the version in question.
KnownSteps ==
  /\ at \in Making => run.tool = "debian"
  /\ at \in {"zip", "tidy"} => run.dist
  /\ at = "archfiles" => run.tool = "arch"
  /\ at \in Packaging => raw # None /\ raw.version = name

TempsFit ==
  /\ at \in {"tar", "untouch"} => temps \subseteq {"touch"}
  /\ at = "transform" => temps \subseteq {"name"}
  /\ at \notin {"none", "tar", "untouch", "transform"} => temps = {}
  /\ (at = "none" /\ last # None) => temps = {}

\* The archive of a name is the one that tar has made last, and is gone once moved.
ArchivesFit ==
  /\ \A s, t \in tars : s.name = t.name => s = t
  /\ (at \in {"untouch", "move"} /\ run.tool = "debian")
       => \A t \in tars : t.name = name => t.tree = tree
  /\ (at \in Making /\ run.source) => \A t \in tars : t.name # name

\* A call that makes the source makes it of the tree, and the whole debian folder.
SourceFits ==
  /\ (at \in Making /\ run.source) => orig = [version |-> name, tree |-> tree, whole |-> TRUE]
  /\ at \in {"entries", "transform"} => debian.version = name /\ debian.revision = run.revision
  /\ (at \in Packaging \cup {"build"} /\ run.source)
       => debian = [version |-> name, revision |-> run.revision, files |-> Entries]

\* A package is there once.
DebsFit ==
  /\ \A d, e \in debs : FileOf(d) = FileOf(e) => d = e
  /\ \A d \in debs : d.dbgsym \in BOOLEAN
  /\ (at \in {"entries", "transform", "build"} /\ run.source) => debs = {}
  /\ (at \in {"zip", "tidy"} \/ (at = "scripts" /\ run.binaries))
       => \A p \in Names : Found(p) # {}
  /\ (at \in Packaging /\ run.source /\ run.binaries) => \A d \in debs : d.whole

DistsFit ==
  /\ DistInstalls
  /\ at = "tidy" => \E a \in dists : /\ a.name = <<name, run.revision>> /\ a.whole
                                     /\ a.debs = Listed

WantedBy(c) == IF c.asked = None THEN Latest ELSE c.asked
NameFits ==
  (at \in Making \cup {"touch", "tar", "untouch", "move"} /\ run.tool = "debian")
    => name = WantedBy(run)

\* What a call finds at its first step.
LEMMA FirstSteps ==
  ASSUME Starts
  PROVE  /\ run' \in Calls /\ run' # None /\ last' = None /\ temps' = {}
         /\ \/ run'.tool = "debian" /\ at' = "folder"
            \/ run'.tool = "arch" /\ at' = "version"
            \/ run'.tool = "sourcepackage" /\ at' = "touch"
<1>1. PICK c \in Calls : run' = c /\ at' = FirstStep[c.tool]
  BY DEF Starts
<1>2. c # None /\ c.tool \in {"debian", "arch", "sourcepackage"}
  BY NoneIsNothing, CallTypes
<1>3. QED
  BY <1>1, <1>2 DEF FirstStep, Starts

LEMMA DebianCalls ==
  \A c \in Calls : c.tool = "debian" =>
    /\ c.source \in BOOLEAN /\ c.binaries \in BOOLEAN /\ c.dist \in BOOLEAN
    /\ c.asked \in Asked /\ c.revision \in Nat \ {0}
BY ReleaseAssumption DEF Debian, Arch, SourceTar

LEMMA KnownStep ==
  IInv /\ KnownSteps /\ [Next]_vars => KnownSteps'
<1> SUFFICES ASSUME IInv, KnownSteps, [Next]_vars PROVE KnownSteps'
  OBVIOUS
<1> USE DEF IInv, StepsFit, KnownSteps, Making, Packaging, package, built, disk
<1>1. CASE Starts
  BY <1>1, FirstSteps
<1>2. CASE EditTree \/ EmptyFolder \/ RemoveArch \/ Stops
  BY <1>2 DEF EditTree, EmptyFolder, RemoveArch, Stops, Breaks
<1>3. CASE CheckFolder \/ AskVersion \/ ReadVersion \/ DebianVersion \/ ArchVersion
  BY <1>3 DEF CheckFolder, Goes, AskVersion, ReadVersion, DebianVersion, TakeVersion,
      ArchVersion
<1>4. CASE Touch \/ MakeTar \/ Untouch \/ Move \/ Unpack \/ Enter
  BY <1>4 DEF Touch, Goes, MakeTar, Breaks, Untouch, EndsWell, Move, Unpack, Enter
<1>5. CASE MakeDebian \/ PkgChangelogs \/ CopyEntry \/ TransformFile \/ MakeTemps
  BY <1>5 DEF MakeDebian, Goes, PkgChangelogs, Makes, CopyEntry, TransformFile,
      MakeTemps, Breaks
<1>6. CASE Build \/ WriteScripts \/ TarDist \/ Tidy \/ MakeArch \/ ArchFiles
  BY <1>6 DEF Build, Goes, Breaks, WriteScripts, EndsWell, TarDist, Tidy, MakeArch,
      ArchFiles
<1>7. CASE UNCHANGED vars
  BY <1>7 DEF vars
<1>8. QED
  BY <1>1, <1>2, <1>3, <1>4, <1>5, <1>6, <1>7 DEF Next, User, Script

LEMMA TempsStep ==
  IInv /\ TempsFit /\ [Next]_vars => TempsFit'
<1> SUFFICES ASSUME IInv, TempsFit, [Next]_vars PROVE TempsFit'
  OBVIOUS
<1> USE DEF TempsFit, package, built, disk
<1>1. CASE EditTree \/ EmptyFolder \/ RemoveArch \/ Stops \/ Starts
  BY <1>1 DEF EditTree, EmptyFolder, RemoveArch, Stops, Breaks, Starts
<1>2. CASE CheckFolder \/ AskVersion \/ ReadVersion \/ DebianVersion \/ ArchVersion
  BY <1>2 DEF CheckFolder, Goes, AskVersion, ReadVersion, DebianVersion, TakeVersion,
      ArchVersion
<1>3. CASE Touch \/ MakeTar \/ Untouch \/ Move \/ Unpack \/ Enter
  BY <1>3 DEF Touch, Goes, MakeTar, Breaks, Untouch, EndsWell, Move, Unpack, Enter
<1>4. CASE MakeDebian \/ PkgChangelogs \/ CopyEntry \/ TransformFile \/ MakeTemps
  BY <1>4 DEF MakeDebian, Goes, PkgChangelogs, Makes, CopyEntry, TransformFile,
      MakeTemps, Breaks
<1>5. CASE Build \/ WriteScripts \/ TarDist \/ Tidy \/ MakeArch \/ ArchFiles
  BY <1>5 DEF Build, Goes, Breaks, WriteScripts, EndsWell, TarDist, Tidy, MakeArch,
      ArchFiles
<1>6. CASE UNCHANGED vars
  BY <1>6 DEF vars
<1>7. QED
  BY <1>1, <1>2, <1>3, <1>4, <1>5, <1>6 DEF Next, User, Script

LEMMA ArchivesStep ==
  IInv /\ KnownSteps /\ ArchivesFit /\ [Next]_vars => ArchivesFit'
<1> SUFFICES ASSUME IInv, KnownSteps, ArchivesFit, [Next]_vars PROVE ArchivesFit'
  OBVIOUS
<1> USE DEF IInv, StepsFit, KnownSteps, ArchivesFit, Making, Packaging, package, built, disk
<1>1. CASE Starts
  BY <1>1, FirstSteps DEF Starts
<1>2. CASE MakeTar
  <2>1. PICK whole \in BOOLEAN :
          /\ IF whole THEN Goes("tar", "untouch") ELSE Breaks("tar")
          /\ tars' = Put([name |-> TarName, tree |-> tree, whole |-> whole], tars)
    BY <1>2 DEF MakeTar
  <2>2. \A s, t \in tars' : s.name = t.name => s = t
    BY <2>1 DEF Put
  <2>3. \A t \in tars' : t.name = TarName => t.tree = tree
    BY <2>1 DEF Put
  <2>4. at' \in {"untouch", "none"} /\ UNCHANGED <<name, tree>> /\ (at' = "untouch" => run' = run)
    BY <1>2 DEF MakeTar, Goes, Breaks
  <2>5. QED
    BY <2>2, <2>3, <2>4 DEF TarName
<1>3. CASE Move
  <2>1. \A t \in tars' : t \in tars
    BY <1>3 DEF Move
  <2>2. at' \in {"unpack", "none"} /\ name' = name
    BY <1>3 DEF Move, Goes, Breaks
  <2>3. at' = "unpack" => \A t \in tars' : t.name # name
    BY <1>3 DEF Move, Goes, Breaks
  <2>4. QED
    BY <2>1, <2>2, <2>3
<1>4. CASE EditTree \/ EmptyFolder \/ RemoveArch \/ Stops
  BY <1>4 DEF EditTree, EmptyFolder, RemoveArch, Stops, Breaks
<1>5. CASE CheckFolder \/ AskVersion \/ ReadVersion \/ DebianVersion \/ ArchVersion
  BY <1>5 DEF CheckFolder, Goes, AskVersion, ReadVersion, DebianVersion, TakeVersion,
      ArchVersion
<1>6. CASE Touch \/ Untouch \/ Unpack \/ Enter
  BY <1>6 DEF Touch, Goes, Untouch, EndsWell, Unpack, Enter
<1>7. CASE MakeDebian \/ PkgChangelogs \/ CopyEntry \/ TransformFile \/ MakeTemps
  BY <1>7 DEF MakeDebian, Goes, PkgChangelogs, Makes, CopyEntry, TransformFile,
      MakeTemps, Breaks
<1>8. CASE Build \/ WriteScripts \/ TarDist \/ Tidy \/ MakeArch \/ ArchFiles
  BY <1>8 DEF Build, Goes, Breaks, WriteScripts, EndsWell, TarDist, Tidy, MakeArch,
      ArchFiles
<1>9. CASE UNCHANGED vars
  BY <1>9 DEF vars
<1>10. QED
  BY <1>1, <1>2, <1>3, <1>4, <1>5, <1>6, <1>7, <1>8, <1>9 DEF Next, User, Script

LEMMA SourceStep ==
  IInv /\ KnownSteps /\ ArchivesFit /\ SourceFits /\ [Next]_vars => SourceFits'
<1> SUFFICES ASSUME IInv, KnownSteps, ArchivesFit, SourceFits, [Next]_vars PROVE SourceFits'
  OBVIOUS
<1> USE DEF IInv, StepsFit, KnownSteps, SourceFits, Making, Packaging, package, built, disk
<1>1. CASE Starts
  BY <1>1, FirstSteps
<1>2. CASE Move
  <2>1. at' \in {"unpack", "none"} /\ UNCHANGED <<name, tree>> /\ at = "move" /\ run.tool = "debian"
    BY <1>2 DEF Move, Goes, Breaks
  <2>2. at' = "unpack" => orig' = [version |-> name, tree |-> tree, whole |-> TRUE]
    BY <1>2, <2>1 DEF Move, Goes, Breaks, ArchivesFit
  <2>3. QED
    BY <2>1, <2>2
<1>3. CASE PkgChangelogs \/ CopyEntry \/ TransformFile
  <2>1. PICK e \in Entries, step \in {"entries", "transform"} : Makes(e, step)
    BY <1>3 DEF PkgChangelogs, CopyEntry, TransformFile, Entries
  <2>2. /\ at \in {"entries", "transform"} /\ debian \in DebianFolder
        /\ debian.version = name /\ debian.revision = run.revision
        /\ UNCHANGED <<run, orig, name, tree>>
    BY <2>1 DEF Makes, Goes, TypeOK
  <2>3. debian' = [version |-> name, revision |-> run.revision, files |-> debian.files \cup {e}]
    BY <2>1, <2>2 DEF Makes, DebianFolder
  <2>4. at' \in {"entries", "build"} /\ (at' = "build" => debian.files \cup {e} = Entries)
    BY <2>1, <2>2 DEF Makes, Goes, Missing, DebianFolder
  <2>5. QED
    BY <2>2, <2>3, <2>4
<1>4. CASE EditTree \/ EmptyFolder \/ RemoveArch \/ Stops
  BY <1>4 DEF EditTree, EmptyFolder, RemoveArch, Stops, Breaks
<1>5. CASE CheckFolder \/ AskVersion \/ ReadVersion \/ DebianVersion \/ ArchVersion
  BY <1>5 DEF CheckFolder, Goes, AskVersion, ReadVersion, DebianVersion, TakeVersion,
      ArchVersion
<1>6. CASE Touch \/ MakeTar \/ Untouch \/ Unpack \/ Enter
  BY <1>6 DEF Touch, Goes, MakeTar, Breaks, Untouch, EndsWell, Unpack, Enter
<1>7. CASE MakeDebian \/ MakeTemps
  BY <1>7 DEF MakeDebian, Goes, MakeTemps, Breaks
<1>8. CASE Build \/ WriteScripts \/ TarDist \/ Tidy \/ MakeArch \/ ArchFiles
  BY <1>8 DEF Build, Goes, Breaks, WriteScripts, EndsWell, TarDist, Tidy, MakeArch,
      ArchFiles
<1>9. CASE UNCHANGED vars
  BY <1>9 DEF vars
<1>10. QED
  BY <1>1, <1>2, <1>3, <1>4, <1>5, <1>6, <1>7, <1>8, <1>9 DEF Next, User, Script

\* dpkg-buildpackage writes over the packages of the same files.
LEMMA OverApart ==
  ASSUME \A d, e \in debs : FileOf(d) = FileOf(e) => d = e, NEW new \in SUBSET NewDebs
  PROVE  \A d, e \in Over(new) : FileOf(d) = FileOf(e) => d = e
<1>1. \A d, e \in new : FileOf(d) = FileOf(e) => d = e
  BY DEF NewDebs, Deb, FileOf
<1>2. QED
  BY <1>1 DEF Over

LEMMA DebsStep ==
  IInv /\ KnownSteps /\ SourceFits /\ DebsFit /\ [Next]_vars => DebsFit'
<1> SUFFICES ASSUME IInv, KnownSteps, SourceFits, DebsFit, [Next]_vars PROVE DebsFit'
  OBVIOUS
<1> USE DEF IInv, StepsFit, KnownSteps, DebsFit, Making, Packaging, Found, FileOf, package,
      built, disk
<1>1. CASE Starts
  BY <1>1, FirstSteps DEF Starts
<1>2. CASE MakeDebian
  <2>1. debs = {} /\ debs' = debs /\ at' = "entries"
    BY <1>2 DEF MakeDebian, Goes, OneRelease
  <2>2. QED
    BY <2>1
<1>3. CASE Build
  <2>1. at = "build" /\ at' \in {"scripts", "none"} /\ (at' = "scripts" => run' = run)
    BY <1>3 DEF Build, Goes, Breaks
  <2>2. CASE ~run.binaries /\ UNCHANGED debs
    BY <2>1, <2>2
  <2>3. CASE run.binaries /\ \E new \in SUBSET NewDebs : debs' = Over(new)
    <3>1. PICK new \in SUBSET NewDebs : debs' = Over(new)
      BY <2>3
    <3>2. \A d, e \in debs' : FileOf(d) = FileOf(e) => d = e
      BY <3>1, OverApart DEF DebsFit
    <3>3. at' = "scripts" => debs' = Over(NewDebs)
      BY <1>3, <2>1, <2>3 DEF Build, Goes, Breaks
    <3>4. NewDebs \subseteq Over(NewDebs)
      BY DEF Over
    <3>5. \A p \in Names : /\ Deb(p, FALSE) \in NewDebs
                           /\ Deb(p, FALSE).pkg = p /\ ~Deb(p, FALSE).dbgsym
      BY DEF NewDebs, Deb
    <3>6. at' = "scripts" => \A p \in Names : \E d \in debs' : d.pkg = p /\ ~d.dbgsym
      BY <3>3, <3>4, <3>5
    <3>7. (at' = "scripts" /\ run.source) => \A d \in debs' : d.whole
      <4>1. ASSUME at' = "scripts", run.source PROVE debs = {} /\ debian.files = Entries
        BY <2>1, <4>1 DEF SourceFits, DebsFit, Packaging
      <4>2. ASSUME debian.files = Entries, NEW d \in NewDebs PROVE d.whole
        <5>1. "lib@.install.in" \in debian.files
          BY <4>2 DEF Entries
        <5>2. PICK p, dbgsym : d = Deb(p, dbgsym)
          BY DEF NewDebs
        <5>3. d.whole = ("lib@.install.in" \in debian.files)
          BY <5>2 DEF Deb
        <5>4. QED
          BY <5>1, <5>3
      <4>3. debs = {} => Over(NewDebs) = NewDebs
        BY DEF Over
      <4>4. QED
        BY <3>3, <4>1, <4>2, <4>3
    <3>8. \A d \in debs' : d.dbgsym \in BOOLEAN
      <4>1. ASSUME NEW d \in NewDebs PROVE d.dbgsym \in BOOLEAN
        <5>1. PICK p, dbgsym : d = Deb(p, dbgsym) /\ dbgsym \in BOOLEAN
          BY DEF NewDebs
        <5>2. d.dbgsym = dbgsym
          BY <5>1 DEF Deb
        <5>3. QED
          BY <5>1, <5>2
      <4>2. QED
        BY <3>1, <4>1 DEF DebsFit, Over
    <3>9. QED
      BY <2>1, <3>2, <3>6, <3>7, <3>8 DEF DebsFit
  <2>4. QED
    BY <1>3, <2>2, <2>3 DEF Build
<1>4. CASE EditTree \/ EmptyFolder \/ RemoveArch \/ Stops
  BY <1>4 DEF EditTree, EmptyFolder, RemoveArch, Stops, Breaks
<1>5. CASE CheckFolder \/ AskVersion \/ ReadVersion \/ DebianVersion \/ ArchVersion
  BY <1>5 DEF CheckFolder, Goes, AskVersion, ReadVersion, DebianVersion, TakeVersion,
      ArchVersion
<1>6. CASE Touch \/ MakeTar \/ Untouch \/ Move \/ Unpack \/ Enter
  BY <1>6 DEF Touch, Goes, MakeTar, Breaks, Untouch, EndsWell, Move, Unpack, Enter
<1>7. CASE PkgChangelogs \/ CopyEntry \/ TransformFile \/ MakeTemps
  BY <1>7 DEF PkgChangelogs, Makes, Goes, CopyEntry, TransformFile, MakeTemps, Breaks
<1>8. CASE WriteScripts \/ TarDist \/ Tidy \/ MakeArch \/ ArchFiles
  BY <1>8 DEF WriteScripts, Goes, EndsWell, Breaks, TarDist, Tidy, MakeArch, ArchFiles
<1>9. CASE UNCHANGED vars
  BY <1>9 DEF vars
<1>10. QED
  BY <1>1, <1>2, <1>3, <1>4, <1>5, <1>6, <1>7, <1>8, <1>9 DEF Next, User, Script

\* The packages that the scripts look up: one of every name, of one version.
LEMMA ListedOnce ==
  ASSUME IInv, KnownSteps, DebsFit, at = "zip"
  PROVE  /\ \A p \in Names : Cardinality({d \in Listed : d.pkg = p}) = 1
         /\ \A d \in Listed : ~d.dbgsym /\ d.version = name
<1>1. \A d \in debs : d.version = raw.version /\ d.revision = debian.revision
  BY DEF IInv, OneRelease
<1>2. raw.version = name
  BY DEF KnownSteps, Packaging
<1>3. ASSUME NEW p \in Names PROVE Cardinality({d \in Listed : d.pkg = p}) = 1
  <2>1. PICK d \in debs : d.pkg = p /\ ~d.dbgsym
    BY DEF DebsFit, Found
  <2>2. ASSUME NEW e \in debs, e.pkg = p, ~e.dbgsym PROVE e = d
    <3>1. e.dbgsym = d.dbgsym
      BY <2>1, <2>2 DEF DebsFit
    <3>2. QED
      BY <1>1, <2>1, <2>2, <3>1 DEF DebsFit, FileOf
  <2>3. {e \in Listed : e.pkg = p} = {d}
    BY <2>1, <2>2 DEF Listed, Found
  <2>4. QED
    BY <2>3, FS_Singleton
<1>4. \A d \in Listed : ~d.dbgsym /\ d.version = name
  BY <1>1, <1>2 DEF Listed, Found
<1>5. QED
  BY <1>3, <1>4

\* The order of the uninstall script is that of the install script, reversed.
LEMMA UninstallIsReverse ==
  Reverse(Runtime \o Devel) = Reverse(Devel) \o Reverse(Runtime)
<1>1. Runtime \in Seq(STRING) /\ Devel \in Seq(STRING)
  BY ReleaseAssumption
<1>2. ASSUME NEW T, NEW s \in Seq(T), NEW t \in Seq(T)
      PROVE  Reverse(s \o t) = Reverse(t) \o Reverse(s)
  <2>1. Len(s) \in Nat /\ Len(t) \in Nat
    OBVIOUS
  <2>2. /\ s \o t \in Seq(T) /\ Len(s \o t) = Len(s) + Len(t)
        /\ \A i \in 1 .. Len(s) + Len(t) : (s \o t)[i] = IF i <= Len(s) THEN s[i] ELSE t[i - Len(s)]
    OBVIOUS
  <2>3. QED
    BY <2>1, <2>2 DEF Reverse
<1>3. QED
  BY <1>1, <1>2

LEMMA DistsStep ==
  IInv /\ KnownSteps /\ DebsFit /\ DistsFit /\ [Next]_vars => DistsFit'
<1> SUFFICES ASSUME IInv, KnownSteps, DebsFit, DistsFit, [Next]_vars PROVE DistsFit'
  OBVIOUS
<1> USE DEF DistsFit, DistInstalls, package, built, disk
<1>1. CASE Starts
  BY <1>1, FirstSteps DEF Starts, IInv
<1>2. CASE UNCHANGED vars
  <2>1. UNCHANGED <<debs, dists, name, run, at>>
    BY <1>2 DEF vars
  <2>2. Listed' = Listed
    BY <2>1 DEF Listed, Found
  <2>3. QED
    BY <2>1, <2>2
<1>3. CASE TarDist
  <2>1. PICK whole \in BOOLEAN :
          /\ IF whole THEN Goes("zip", "tidy") ELSE Breaks("zip")
          /\ dists' = Put(Dist(whole), dists)
    BY <1>3 DEF TarDist
  <2> DEFINE d == Dist(whole)
  <2>2. /\ d.name = <<name, run.revision>> /\ d.whole = whole /\ d.debs = Listed
        /\ d.install = InstallBin /\ d.uninstall = UninstallBin
    BY DEF Dist
  <2>3. /\ \A p \in Names : Cardinality({e \in d.debs : e.pkg = p}) = 1
        /\ \A e \in d.debs : ~e.dbgsym /\ e.version = d.name[1]
    BY <2>1, <2>2, ListedOnce DEF Goes, Breaks
  <2>4. Reverse(d.install.plain \o d.install.devel) = d.uninstall.devel \o d.uninstall.plain
    BY <2>2, UninstallIsReverse DEF InstallBin, UninstallBin
  <2> HIDE DEF d
  <2>5. d \in dists' /\ \A a \in dists' : a \in dists \/ a = d
    BY <2>1 DEF Put, d
  <2>6. DistInstalls'
    BY <2>3, <2>4, <2>5 DEF DistInstalls
  <2>7. at' \in {"tidy", "none"} /\ (at' = "tidy" => whole /\ run' = run) /\ name' = name
    BY <1>3, <2>1 DEF TarDist, Goes, Breaks
  <2>8. Listed' = Listed
    BY <1>3 DEF TarDist, Listed, Found
  <2>9. QED
    BY <2>2, <2>5, <2>6, <2>7, <2>8 DEF DistsFit
<1>4. CASE Tidy \/ ArchFiles
  BY <1>4 DEF Tidy, ArchFiles, EndsWell
<1>5. CASE EditTree \/ EmptyFolder \/ RemoveArch \/ Stops
  BY <1>5 DEF EditTree, EmptyFolder, RemoveArch, Stops, Breaks
<1>6. CASE CheckFolder \/ AskVersion \/ ReadVersion \/ DebianVersion \/ ArchVersion
  BY <1>6 DEF CheckFolder, Goes, AskVersion, ReadVersion, DebianVersion, TakeVersion,
      ArchVersion
<1>7. CASE Touch \/ MakeTar \/ Untouch \/ Move \/ Unpack \/ Enter
  BY <1>7 DEF Touch, Goes, MakeTar, Breaks, Untouch, EndsWell, Move, Unpack, Enter
<1>8. CASE MakeDebian \/ PkgChangelogs \/ CopyEntry \/ TransformFile \/ MakeTemps
  BY <1>8 DEF MakeDebian, Goes, PkgChangelogs, Makes, CopyEntry, TransformFile,
      MakeTemps, Breaks
<1>9. CASE Build \/ WriteScripts \/ MakeArch
  BY <1>9 DEF Build, Goes, Breaks, WriteScripts, EndsWell, MakeArch
<1>10. QED
  BY <1>1, <1>2, <1>3, <1>4, <1>5, <1>6, <1>7, <1>8, <1>9 DEF Next, User, Script

LEMMA LeavesStep ==
  IInv /\ KnownSteps /\ TempsFit /\ ArchivesFit /\ LeavesNothing /\ [Next]_vars => LeavesNothing'
<1> SUFFICES ASSUME IInv, KnownSteps, TempsFit, ArchivesFit, LeavesNothing, [Next]_vars
             PROVE  LeavesNothing'
  OBVIOUS
<1> USE DEF IInv, StepsFit, KnownSteps, TempsFit, ArchivesFit, LeavesNothing, Done, Making,
      package, built, disk
<1>1. CASE EditTree \/ EmptyFolder \/ RemoveArch \/ Stops \/ Starts
  BY <1>1 DEF EditTree, EmptyFolder, RemoveArch, Stops, Breaks, Starts
<1>2. CASE CheckFolder \/ AskVersion \/ ReadVersion \/ DebianVersion \/ ArchVersion
  BY <1>2 DEF CheckFolder, Goes, AskVersion, ReadVersion, DebianVersion, TakeVersion,
      ArchVersion
<1>3. CASE Touch \/ MakeTar \/ Untouch \/ Move \/ Unpack \/ Enter
  BY <1>3 DEF Touch, Goes, MakeTar, Breaks, Untouch, EndsWell, Move, Unpack, Enter
<1>4. CASE MakeDebian \/ PkgChangelogs \/ CopyEntry \/ TransformFile \/ MakeTemps
  BY <1>4 DEF MakeDebian, Goes, PkgChangelogs, Makes, CopyEntry, TransformFile,
      MakeTemps, Breaks
<1>5. CASE Build \/ WriteScripts \/ TarDist \/ Tidy \/ MakeArch \/ ArchFiles
  BY <1>5 DEF Build, Goes, Breaks, WriteScripts, EndsWell, TarDist, Tidy, MakeArch,
      ArchFiles
<1>6. CASE UNCHANGED vars
  BY <1>6 DEF vars
<1>7. QED
  BY <1>1, <1>2, <1>3, <1>4, <1>5, <1>6 DEF Next, User, Script

-----------------------------------------------------------------------------
\* Without entries to skip, the version that is returned is that of the first one.
LEMMA LatestIsReturned ==
  ASSUME Skip = 0, ReaderInv, Returned
  PROVE  version = Latest
<1> DEFINE starts == {k \in 1 .. Len(changes) : changes[k].mark = "start"}
<1>1. changes \in Seq(Line) /\ Len(changes) \in Nat
  BY DEF ReaderInv, ReaderOK
<1>2. PICK i \in 1 .. Len(changes), j \in 1 .. Len(changes) :
        Entry(i, j) /\ Regular(j) /\ Cardinality(Ended(j)) = 1 /\ version = changes[i].of
  BY DEF ReaderInv, ReturnsAnEntry
<1>3. PICK m : Ended(j) = {m}
  <2>1. IsFiniteSet(1 .. j)
    BY FS_Interval
  <2>2. IsFiniteSet(Ended(j))
    BY <2>1, FS_Subset DEF Ended
  <2>3. QED
    BY <1>2, <2>2, FS_Singleton
<1>4. m = j
  BY <1>2, <1>3 DEF Ended, Entry
<1>5. ASSUME NEW k \in starts PROVE i <= k
  <2>1. SUFFICES ASSUME k < i PROVE FALSE
    BY <1>1, <1>2
  <2>2. k \in 1 .. j /\ Marked(k)
    BY <1>1, <1>2, <1>5, <2>1 DEF Entry, Marked
  <2>3. PICK l \in 1 .. j : Entry(k, l) \/ Entry(l, k)
    BY <1>2, <2>2 DEF Regular
  <2>4. Entry(k, l)
    BY <1>5, <2>3 DEF Entry
  <2>5. l = j
    BY <1>3, <1>4, <2>3, <2>4 DEF Entry, Ended
  <2>6. i \in k + 1 .. j - 1 /\ Marked(i)
    BY <1>1, <1>2, <1>5, <2>1 DEF Entry, Marked
  <2>7. QED
    BY <2>4, <2>5, <2>6 DEF Entry
<1>6. i \in starts /\ \A k \in starts : i <= k
  BY <1>2, <1>5 DEF Entry
<1>7. ASSUME NEW k \in starts, \A l \in starts : k <= l PROVE k = i
  BY <1>1, <1>6, <1>7
<1>8. Latest = changes[CHOOSE k \in starts : \A l \in starts : k <= l].of
  BY DEF Latest
<1> HIDE DEF starts
<1>9. (CHOOSE k \in starts : \A l \in starts : k <= l) = i
  BY <1>6, <1>7
<1>10. QED
  BY <1>2, <1>8, <1>9

LEMMA LatestStays == UNCHANGED changes => Latest' = Latest
BY DEF Latest

LEMMA NameStep ==
  IInv /\ KnownSteps /\ (Skip = 0) /\ ReaderInv /\ NameFits /\ [Next]_vars => NameFits'
<1> SUFFICES ASSUME IInv, KnownSteps, (Skip = 0), ReaderInv, NameFits, [Next]_vars PROVE NameFits'
  OBVIOUS
<1> USE DEF IInv, StepsFit, KnownSteps, NameFits, WantedBy, Making, reader, package, built,
      disk
<1>1. CASE Starts
  BY <1>1, FirstSteps
<1>2. CASE DebianVersion \/ ArchVersion
  <2>1. PICK tool, to : TakeVersion(tool, to)
    BY <1>2 DEF DebianVersion, ArchVersion
  <2>2. name' = WantedBy(run) /\ UNCHANGED <<run, changes>>
    BY <2>1, LatestIsReturned DEF TakeVersion, Goes, Leave
  <2>3. QED
    BY <2>2, LatestStays
<1>3. CASE EditTree \/ EmptyFolder \/ RemoveArch \/ Stops
  BY <1>3, LatestStays DEF EditTree, EmptyFolder, RemoveArch, Stops, Breaks
<1>4. CASE CheckFolder \/ AskVersion \/ ReadVersion
  BY <1>4, LatestStays DEF CheckFolder, Goes, AskVersion, ReadVersion
<1>5. CASE Touch \/ MakeTar \/ Untouch \/ Move \/ Unpack \/ Enter
  BY <1>5, LatestStays DEF Touch, Goes, MakeTar, Breaks, Untouch, EndsWell, Move, Unpack,
      Enter
<1>6. CASE MakeDebian \/ PkgChangelogs \/ CopyEntry \/ TransformFile \/ MakeTemps
  BY <1>6, LatestStays DEF MakeDebian, Goes, PkgChangelogs, Makes, CopyEntry,
      TransformFile, MakeTemps, Breaks
<1>7. CASE Build \/ WriteScripts \/ TarDist \/ Tidy \/ MakeArch \/ ArchFiles
  BY <1>7, LatestStays DEF Build, Goes, Breaks, WriteScripts, EndsWell, TarDist, Tidy,
      MakeArch, ArchFiles
<1>8. CASE UNCHANGED vars
  BY <1>8, LatestStays DEF vars
<1>9. QED
  BY <1>1, <1>2, <1>3, <1>4, <1>5, <1>6, <1>7, <1>8 DEF Next, User, Script

\* What a call has made when it comes to its end.
Made(c) ==
  /\ name = WantedBy(c)
  /\ c.source =>
       /\ orig = [version |-> WantedBy(c), tree |-> tree, whole |-> TRUE]
       /\ debian = [version |-> WantedBy(c), revision |-> c.revision, files |-> Entries]
  /\ c.binaries => \A p \in Names : Found(p) # {}
  /\ (c.source /\ c.binaries) => \A d \in debs : d.whole /\ d.tree = tree
  /\ c.dist => \E a \in dists : /\ a.name = <<WantedBy(c), c.revision>> /\ a.whole
                                /\ a.debs = Listed

LEMMA MadeAtTheEnd ==
  ASSUME IInv, KnownSteps, SourceFits, DebsFit, DistsFit, NameFits,
         at = "tidy" \/ (at = "scripts" /\ ~run.dist)
  PROVE  Made(run)
<1>1. at \in Packaging /\ at \in Making /\ run.tool = "debian" /\ raw # None
  BY DEF KnownSteps, Packaging, Making
<1>2. name = WantedBy(run)
  BY <1>1 DEF NameFits
<1>3. run.source =>
       /\ orig = [version |-> name, tree |-> tree, whole |-> TRUE]
       /\ debian = [version |-> name, revision |-> run.revision, files |-> Entries]
  BY <1>1 DEF SourceFits
<1>4. run.source => raw.tree = tree
  BY <1>1, <1>3 DEF IInv, OneRelease
<1>5. run.binaries => \A p \in Names : Found(p) # {}
  BY DEF DebsFit
<1>6. (run.source /\ run.binaries) => \A d \in debs : d.whole /\ d.tree = tree
  BY <1>1, <1>4 DEF DebsFit, IInv, OneRelease
<1>7. run.dist => \E a \in dists : a.name = <<name, run.revision>> /\ a.whole /\ a.debs = Listed
  BY DEF DistsFit
<1>8. QED
  BY <1>2, <1>3, <1>5, <1>6, <1>7 DEF Made

LEMMA MadeStays ==
  ASSUME UNCHANGED <<changes, name, tree, orig, debian, debs, dists>>, NEW c, Made(c)
  PROVE  Made(c)'
<1>1. WantedBy(c)' = WantedBy(c)
  BY LatestStays DEF WantedBy
<1>2. Listed' = Listed /\ \A p \in Names : Found(p)' = Found(p)
  BY DEF Listed, Found
<1>3. QED
  BY <1>1, <1>2 DEF Made

LEMMA CreatesStep ==
  ASSUME IInv, KnownSteps, SourceFits, DebsFit, DistsFit, NameFits,
         Done("debian") => Made(last), [Next]_vars
  PROVE  (Done("debian") => Made(last))'
<1> USE DEF IInv, StepsFit, KnownSteps, Done, reader, package, built, disk
<1>1. CASE WriteScripts
  <2>1. SUFFICES ASSUME at' = "none", last' # None PROVE Made(last)'
    OBVIOUS
  <2> PICK c : c = run
    OBVIOUS
  <2>2. /\ at = "scripts" /\ ~run.dist /\ last' = c
        /\ UNCHANGED <<changes, name, tree, orig, debian, debs, dists>>
    BY <1>1, <2>1 DEF WriteScripts, Goes, EndsWell, Breaks
  <2>3. Made(c)
    BY <2>2, MadeAtTheEnd
  <2>4. Made(c)'
    BY <2>2, <2>3, MadeStays
  <2>5. QED
    BY <2>2, <2>4 DEF Made
<1>2. CASE Tidy
  <2> PICK c : c = run
    OBVIOUS
  <2>1. at = "tidy" /\ last' = c /\ UNCHANGED <<changes, name, tree, orig, debian, debs, dists>>
    BY <1>2 DEF Tidy, EndsWell
  <2>2. Made(c)
    BY <2>1, MadeAtTheEnd
  <2>3. Made(c)'
    BY <2>1, <2>2, MadeStays
  <2>4. QED
    BY <2>1, <2>3 DEF Made
<1>3. CASE UNCHANGED vars
  <2>1. UNCHANGED <<at, last, changes, name, tree, orig, debian, debs, dists>>
    BY <1>3 DEF vars
  <2> PICK c : c = last
    OBVIOUS
  <2>2. Made(c) => Made(c)'
    BY <2>1, MadeStays
  <2>3. QED
    BY <2>1, <2>2 DEF Made
<1>4. CASE EditTree \/ EmptyFolder \/ RemoveArch \/ Stops \/ Starts
  BY <1>4 DEF EditTree, EmptyFolder, RemoveArch, Stops, Breaks, Starts
<1>5. CASE CheckFolder \/ AskVersion \/ ReadVersion \/ DebianVersion \/ ArchVersion
  BY <1>5 DEF CheckFolder, Goes, AskVersion, ReadVersion, DebianVersion, TakeVersion,
      ArchVersion
<1>6. CASE Touch \/ MakeTar \/ Untouch \/ Move \/ Unpack \/ Enter
  BY <1>6 DEF Touch, Goes, MakeTar, Breaks, Untouch, EndsWell, Move, Unpack, Enter
<1>7. CASE MakeDebian \/ PkgChangelogs \/ CopyEntry \/ TransformFile \/ MakeTemps
  BY <1>7 DEF MakeDebian, Goes, PkgChangelogs, Makes, CopyEntry, TransformFile,
      MakeTemps, Breaks
<1>8. CASE Build \/ TarDist \/ MakeArch \/ ArchFiles
  BY <1>8 DEF Build, Goes, Breaks, TarDist, MakeArch, ArchFiles, EndsWell
<1>9. QED
  BY <1>1, <1>2, <1>3, <1>4, <1>5, <1>6, <1>7, <1>8 DEF Next, User, Script

ReleaseInv ==
  /\ IInv /\ KnownSteps /\ TempsFit /\ ArchivesFit /\ SourceFits /\ DebsFit /\ DistsFit
  /\ LeavesNothing

LEMMA StartingOut == Init => ReleaseInv /\ NameFits /\ CreatesWhatIsAsked
<1> SUFFICES ASSUME Init PROVE ReleaseInv /\ NameFits /\ CreatesWhatIsAsked
  OBVIOUS
<1>1. IInv
  BY Starting
<1>2. /\ at = "none" /\ last = None /\ temps = {} /\ tars = {} /\ debs = {} /\ dists = {}
  BY DEF Init
<1>3. KnownSteps /\ TempsFit /\ ArchivesFit /\ SourceFits /\ DebsFit /\ NameFits
  BY <1>2 DEF KnownSteps, TempsFit, ArchivesFit, SourceFits, DebsFit, NameFits, Making, Packaging
<1>4. DistsFit /\ LeavesNothing /\ CreatesWhatIsAsked
  BY <1>2 DEF DistsFit, DistInstalls, LeavesNothing, CreatesWhatIsAsked, Done
<1>5. QED
  BY <1>1, <1>3, <1>4 DEF ReleaseInv

LEMMA ReleaseStep == ReleaseInv /\ [Next]_vars => ReleaseInv'
BY Step, KnownStep, TempsStep, ArchivesStep, SourceStep, DebsStep, DistsStep, LeavesStep
   DEF ReleaseInv

\* What each step may rely on about the files that earlier steps of the call, and
\* earlier calls, have left.
THEOREM ReleaseInvariance == Spec => []ReleaseInv
BY StartingOut, ReleaseStep, PTL DEF Spec

\* The dist archive that debian_create.py packs installs one package of every name,
\* all of one version, and its second script removes them in the opposite order.
THEOREM DistInstallsAlways == Spec => []DistInstalls
<1>1. ReleaseInv => DistInstalls
  BY DEF ReleaseInv, DistsFit
<1>2. QED
  BY <1>1, ReleaseInvariance, PTL

\* A script that ends well has removed its temporary files, the archive that it has
\* moved and the helpers that it has packed, whatever calls before it have left.
THEOREM LeavesNothingAlways == Spec => []LeavesNothing
<1>1. ReleaseInv => LeavesNothing
  BY DEF ReleaseInv
<1>2. QED
  BY <1>1, ReleaseInvariance, PTL

LEMMA CreatedIsMade == CreatesWhatIsAsked <=> (Done("debian") => Made(last))
BY DEF CreatesWhatIsAsked, Made, Wanted, WantedBy

\* debian_create.py, of which nSkip is 0: a call that ends well has made what its
\* options ask for, of the sources as they are and of the version that they name.
THEOREM CreatesWhatIsAskedAlways ==
  ASSUME Skip = 0
  PROVE  Spec => []CreatesWhatIsAsked
<1> DEFINE Created == ReleaseInv /\ ReaderInv /\ NameFits /\ (Done("debian") => Made(last))
<1>1. Init => Created
  BY StartingOut, Starting, CreatedIsMade
<1>2. Created /\ [Next]_vars => Created'
  <2> SUFFICES ASSUME Created, [Next]_vars PROVE Created'
    OBVIOUS
  <2>1. ReaderInv'
    BY StepsOfReader, ReaderStep
  <2>2. ReleaseInv'
    BY ReleaseStep
  <2>3. NameFits'
    BY NameStep DEF ReleaseInv
  <2>4. (Done("debian") => Made(last))'
    BY CreatesStep DEF ReleaseInv
  <2>5. QED
    BY <2>1, <2>2, <2>3, <2>4
<1>3. Created => CreatesWhatIsAsked
  BY CreatedIsMade
<1> HIDE DEF Created
<1>4. QED
  BY <1>1, <1>2, <1>3, PTL DEF Spec
=============================================================================
