------------------------------ MODULE Release ------------------------------
(***************************************************************************)
(* The scripts that make a release: debian_create.py, which calls          *)
(* sourcepackage.py, and arch_create.py, over the files they leave for each*)
(* other and for their next call in the parent folder, in the build folder *)
(* and among the temporary files.  One script runs at a time; it may end   *)
(* with an exception or be killed at any step, and is called again, with   *)
(* other options, on what it has left.                                     *)
(*                                                                         *)
(* tar, cmake and dpkg-buildpackage are external.  The contents of a       *)
(* source tree are its number, and a file that may be cut off has a field  *)
(* "whole".                                                                *)
(***************************************************************************)
EXTENDS Changes, SequencesExt

CONSTANTS
  Runtime, \* g_oBinLibs and g_oBinExes, in their order
  Devel,   \* g_oDevLibs, in their order
  Calls,   \* the calls of the scripts
  MaxTree  \* the edits of the source tree that are considered

Asked     == Versions \cup {None}
Debian    == [tool : {"debian"}, source : BOOLEAN, binaries : BOOLEAN, dist : BOOLEAN,
              asked : Asked, revision : Nat \ {0}]
Arch      == [tool : {"arch"}, asked : Asked, revision : Nat \ {0}]
SourceTar == [tool : {"sourcepackage"}, touch : BOOLEAN]

\* The debian folder: a changelog for every package, and what debian.orig has: a
\* template, a template with a version in its name, and what is just copied.
Entries  == {"pkg.changelog", "changelog.in", "lib@.install.in", "rules"}

\* The archive of the source, the folder that is unpacked from it with its debian
\* folder, and the arch folder.
Orig         == [version : Asked, tree : Nat, whole : BOOLEAN]
Raw          == [version : Asked, tree : Nat]
DebianFolder == [version : Asked, revision : Nat \ {0}, files : SUBSET Entries]
ArchFolder   == [version : Asked, revision : Nat \ {0}, whole : BOOLEAN]
Tars         == [name : Asked \cup {"dated"}, tree : Nat, whole : BOOLEAN]

ASSUME ReleaseAssumption ==
  /\ Runtime \in Seq(STRING) /\ Devel \in Seq(STRING)
  /\ Calls \subseteq Debian \cup Arch \cup SourceTar
  /\ MaxTree \in Nat
  /\ None \notin Calls \cup Orig \cup Raw \cup DebianFolder \cup ArchFolder

VARIABLES
  tree,   \* the number of the source tree, whose CHANGES file is changes
  run,    \* the call of the script that is running, or None
  at,     \* the next step of it
  last,   \* the call that has just ended well, or None
  name,   \* sDebSrcVersion
  temps,  \* the temporary files that it has made and not removed
  tars,   \* the archives in the parent folder
  arch,   \* the arch folder there, or None
  orig,   \* the orig archive in the build folder, or None
  raw,    \* the source package unpacked there, or None
  debian, \* the debian folder in it, or None
  debs,   \* the binary packages in the build folder
  helpers, \* the scripts and the README that are packed into the dist archive
  dists   \* the dist archives

package == <<orig, raw, debian>>
built   == <<debs, helpers, dists>>
disk    == <<temps, tars, arch, package, built>>
vars    == <<reader, tree, run, at, last, name, disk>>

Packages == Runtime \o Devel
Names    == {Packages[i] : i \in DOMAIN Packages}
Helpers  == {"install-bin.sh", "uninstall-bin.sh", "README"}

Init ==
  /\ ChangesInit
  /\ tree = 0 /\ run = None /\ at = "none" /\ last = None /\ name = None
  /\ temps = {} /\ tars = {} /\ arch = None
  /\ orig = None /\ raw = None /\ debian = None
  /\ debs = {} /\ helpers = {} /\ dists = {}

\* The calls and the steps, and what is in the build folder.
TypeOK ==
  /\ run \in Calls \cup {None} /\ last \in Calls \cup {None}
  /\ ReaderOK /\ name \in Asked
  /\ tree \in Nat
  /\ tars \subseteq Tars
  /\ orig \in Orig \cup {None}
  /\ raw \in Raw \cup {None}
  /\ debian \in DebianFolder \cup {None}
  /\ arch \in ArchFolder \cup {None}
  /\ temps \subseteq {"touch", "name"} /\ helpers \subseteq Helpers

-----------------------------------------------------------------------------
Goes(from, to) == at = from /\ at' = to /\ UNCHANGED <<run, last>>
EndsWell(from) == at = from /\ at' = "none" /\ run' = None /\ last' = run
Breaks(from)   == at = from /\ at' = "none" /\ run' = None /\ last' = None
Put(file, files) == {f \in files : f.name # file.name} \cup {file}

\* An exception, a command that fails, or a kill, before the next step.
Stops ==
  /\ at # "none" /\ Breaks(at) /\ Leave
  /\ UNCHANGED <<tree, name, disk>>

\* The first step of every script.
FirstStep == [debian |-> "folder", arch |-> "version", sourcepackage |-> "touch"]

Starts ==
  /\ at = "none"
  /\ \E c \in Calls : run' = c /\ at' = FirstStep[c.tool]
  /\ last' = None /\ name' = None /\ temps' = {}
  /\ UNCHANGED <<reader, tree, tars, arch, package, built>>

\* Between two calls the sources are edited, and folders are emptied.
EditTree ==
  /\ at = "none" /\ tree < MaxTree
  /\ Edit /\ tree' = tree + 1 /\ last' = None
  /\ UNCHANGED <<run, at, name, disk>>

EmptyFolder ==
  /\ at = "none" /\ last' = None
  /\ orig' = None /\ raw' = None /\ debian' = None
  /\ debs' = {} /\ helpers' = {} /\ dists' = {}
  /\ UNCHANGED <<reader, tree, run, at, name, temps, tars, arch>>

RemoveArch ==
  /\ at = "none" /\ last' = None /\ arch' = None
  /\ UNCHANGED <<reader, tree, run, at, name, temps, tars, package, built>>

-----------------------------------------------------------------------------
\* A variant that takes any folder.
CheckAnyFolder ==
  /\ Goes("folder", "version")
  /\ UNCHANGED <<reader, tree, name, disk>>

\* BUILDPATH is to be empty when the source is wanted.
CheckFolder ==
  /\ Goes("folder", "version")
  /\ run.source => orig = None
  /\ UNCHANGED <<reader, tree, name, disk>>

\* CHANGES is read, though --version may overrule what it says.
AskVersion ==
  /\ at = "version" /\ outcome = "idle" /\ Call
  /\ UNCHANGED <<tree, run, at, last, name, disk>>

ReadVersion ==
  /\ at = "version" /\ Reads
  /\ UNCHANGED <<tree, run, at, last, name, disk>>

TakeVersion(tool, to) ==
  /\ run # None /\ run.tool = tool /\ Goes("version", to)
  /\ Returned /\ Leave
  /\ name' = IF run.asked = None THEN version ELSE run.asked
  /\ UNCHANGED <<tree, disk>>

DebianVersion == TakeVersion("debian", IF run.source THEN "touch" ELSE "enter")
ArchVersion   == TakeVersion("arch", "arch")

-----------------------------------------------------------------------------
\* sourcepackage.py: debian_create.py calls it with -t and a name of its own.
Touches == run.tool = "debian" \/ run.touch
TarName == IF run.tool = "debian" THEN name ELSE "dated"

Touch ==
  /\ Goes("touch", "tar")
  /\ temps' = IF Touches THEN temps \cup {"touch"} ELSE temps
  /\ UNCHANGED <<reader, tree, name, tars, arch, package, built>>

\* A tar that fails leaves an archive that is cut off.
MakeTar ==
  /\ at = "tar"
  /\ \E whole \in BOOLEAN :
       /\ IF whole THEN Goes("tar", "untouch") ELSE Breaks("tar")
       /\ tars' = Put([name |-> TarName, tree |-> tree, whole |-> whole], tars)
  /\ UNCHANGED <<reader, tree, name, temps, arch, package, built>>

Untouch ==
  /\ at = "untouch"
  /\ IF run.tool = "debian" THEN Goes("untouch", "move") ELSE EndsWell("untouch")
  /\ temps' = temps \ {"touch"}
  /\ UNCHANGED <<reader, tree, name, tars, arch, package, built>>

\* The archive goes to the build folder, maybe to another file system.
Move ==
  /\ at = "move"
  /\ \E t \in tars, whole \in BOOLEAN :
       /\ t.name = name
       /\ orig' = [version |-> name, tree |-> t.tree, whole |-> whole]
       /\ \/ whole /\ t.whole /\ Goes("move", "unpack") /\ tars' = tars \ {t}
          \/ Breaks("move") /\ UNCHANGED tars
  /\ UNCHANGED <<reader, tree, name, temps, arch, raw, debian, built>>

\* What is unpacked gets its name last: a folder of another name is never used.
Unpack ==
  /\ Goes("unpack", "enter")
  /\ orig.whole /\ raw = None
  /\ raw' = [version |-> name, tree |-> orig.tree]
  /\ UNCHANGED <<reader, tree, name, temps, tars, arch, orig, debian, built>>

Enter ==
  /\ Goes("enter", IF run.source THEN "debian" ELSE "build")
  /\ raw # None /\ raw.version = name
  /\ UNCHANGED <<reader, tree, name, disk>>

-----------------------------------------------------------------------------
\* The debian folder, one entry after the other in any order.
MakeDebian ==
  /\ Goes("debian", "entries")
  /\ debian = None
  /\ debian' = [version |-> name, revision |-> run.revision, files |-> {}]
  /\ UNCHANGED <<reader, tree, name, temps, tars, arch, orig, raw, built>>

Missing == Entries \ debian.files

Makes(e, step) ==
  /\ at = step /\ e \in Missing
  /\ "pkg.changelog" \in Missing => e = "pkg.changelog"
  /\ Goes(step, IF Missing = {e} THEN "build" ELSE "entries")
  /\ debian' = [debian EXCEPT !.files = @ \cup {e}]
  /\ UNCHANGED <<reader, tree, name, tars, arch, orig, raw, built>>

PkgChangelogs == Makes("pkg.changelog", "entries") /\ UNCHANGED temps
CopyEntry     == Makes("rules", "entries") /\ UNCHANGED temps

\* A template with a version in its name goes through two temporary files, which
\* are left when cmake fails.
MakeTemps ==
  /\ at = "entries" /\ "lib@.install.in" \in Missing /\ "pkg.changelog" \notin Missing
  /\ Goes("entries", "transform")
  /\ temps' = temps \cup {"name"}
  /\ UNCHANGED <<reader, tree, name, tars, arch, package, built>>

\* A variant that does not remove them.
TransformKeeps ==
  \/ Makes("changelog.in", "entries") /\ UNCHANGED temps
  \/ Makes("lib@.install.in", "transform") /\ UNCHANGED temps

TransformFile ==
  \/ Makes("changelog.in", "entries") /\ UNCHANGED temps
  \/ Makes("lib@.install.in", "transform") /\ temps' = temps \ {"name"}

-----------------------------------------------------------------------------
\* dpkg-buildpackage: every package and the debug symbols of the runtime ones.  It
\* asks for the changelog and the rules; a package without a list of files is
\* built without them.
Deb(pkg, dbgsym) ==
  [pkg |-> pkg, dbgsym |-> dbgsym, version |-> debian.version, revision |-> debian.revision,
   tree |-> raw.tree, whole |-> "lib@.install.in" \in debian.files]
NewDebs == {Deb(p, FALSE) : p \in Names} \cup {Deb(Runtime[i], TRUE) : i \in DOMAIN Runtime}
FileOf(d) == <<d.pkg, d.dbgsym, d.version, d.revision>>
Over(new) == {d \in debs : FileOf(d) \notin {FileOf(n) : n \in new}} \cup new

\* A variant that does not look at the result of dpkg-buildpackage.
BuildAnyhow ==
  /\ at = "build"
  /\ \/ ~run.binaries /\ Goes("build", "scripts") /\ UNCHANGED debs
     \/ /\ run.binaries /\ debian # None /\ {"changelog.in", "rules"} \subseteq debian.files
        /\ Goes("build", "scripts") /\ \E new \in SUBSET NewDebs : debs' = Over(new)
  /\ UNCHANGED <<reader, tree, name, temps, tars, arch, package, helpers, dists>>

Build ==
  /\ at = "build"
  /\ \/ ~run.binaries /\ Goes("build", "scripts") /\ UNCHANGED debs
     \/ /\ run.binaries /\ debian # None /\ {"changelog.in", "rules"} \subseteq debian.files
        /\ \/ Goes("build", "scripts") /\ debs' = Over(NewDebs)
           \/ Breaks("build") /\ \E new \in SUBSET NewDebs : debs' = Over(new)
  /\ UNCHANGED <<reader, tree, name, temps, tars, arch, package, helpers, dists>>

\* Packages by their file names: one that is not a library with digits behind it,
\* such as its debug symbols, is passed over.
Found(pkg) == {d \in debs : d.pkg = pkg /\ ~d.dbgsym}
Listed     == UNION {Found(p) : p \in Names}

\* A variant that does not miss a package.
WriteScriptsAnyhow ==
  /\ at = "scripts"
  /\ IF run.dist THEN Goes("scripts", "zip") /\ helpers' = Helpers
     ELSE EndsWell("scripts") /\ UNCHANGED helpers
  /\ UNCHANGED <<reader, tree, name, temps, tars, arch, package, debs, dists>>

\* The install script is half written when a package turns out to be missing.
WriteScripts ==
  /\ at = "scripts"
  /\ IF ~run.dist THEN EndsWell("scripts") /\ UNCHANGED helpers
     ELSE IF \A p \in Names : Found(p) # {} THEN Goes("scripts", "zip") /\ helpers' = Helpers
     ELSE Breaks("scripts") /\ helpers' = helpers \cup {"install-bin.sh"}
  /\ UNCHANGED <<reader, tree, name, temps, tars, arch, package, debs, dists>>

\* The packages that the scripts name, and those that -d adds: behind the others
\* to install, before them to uninstall.
InstallBin   == [plain |-> Runtime, devel |-> Devel]
UninstallBin == [plain |-> Reverse(Runtime), devel |-> Reverse(Devel)]

\* The archive is made under its final name: when tar fails it is cut off.
Dist(whole) ==
  [name |-> <<name, run.revision>>, whole |-> whole, debs |-> Listed,
   install |-> InstallBin, uninstall |-> UninstallBin]

TarDist ==
  /\ at = "zip"
  /\ \E whole \in BOOLEAN :
       /\ IF whole THEN Goes("zip", "tidy") ELSE Breaks("zip")
       /\ dists' = Put(Dist(whole), dists)
  /\ UNCHANGED <<reader, tree, name, temps, tars, arch, package, debs, helpers>>

Tidy ==
  /\ EndsWell("tidy")
  /\ helpers' = {}
  /\ UNCHANGED <<reader, tree, name, temps, tars, arch, package, debs, dists>>

-----------------------------------------------------------------------------
\* A variant that takes the folder that is there.
MakeArchAnyhow ==
  /\ Goes("arch", "archfiles")
  /\ arch' = [version |-> name, revision |-> run.revision, whole |-> FALSE]
  /\ UNCHANGED <<reader, tree, name, temps, tars, package, built>>

\* arch_create.py: the folder is to be new.
MakeArch ==
  /\ Goes("arch", "archfiles")
  /\ arch = None
  /\ arch' = [version |-> name, revision |-> run.revision, whole |-> FALSE]
  /\ UNCHANGED <<reader, tree, name, temps, tars, package, built>>

ArchFiles ==
  /\ EndsWell("archfiles")
  /\ arch' = [arch EXCEPT !.whole = TRUE]
  /\ UNCHANGED <<reader, tree, name, temps, tars, package, built>>

-----------------------------------------------------------------------------
User == Starts \/ EditTree \/ EmptyFolder \/ RemoveArch

Script ==
  \/ CheckFolder \/ AskVersion \/ ReadVersion \/ DebianVersion \/ ArchVersion
  \/ Touch \/ MakeTar \/ Untouch \/ Move \/ Unpack \/ Enter
  \/ MakeDebian \/ PkgChangelogs \/ CopyEntry \/ MakeTemps \/ TransformFile
  \/ Build \/ WriteScripts \/ TarDist \/ Tidy \/ MakeArch \/ ArchFiles

Next == User \/ Script \/ Stops

Spec == Init /\ [][Next]_vars

-----------------------------------------------------------------------------
\* A script has just ended well.
Done(tool) == at = "none" /\ last # None /\ last.tool = tool

\* The comment of getLastVersionAndDateFromChanged and the help of --version: the
\* version of the first entry of the packed CHANGES, unless one is asked for.
Latest == LET starts == {k \in 1 .. Len(changes) : changes[k].mark = "start"}
          IN  changes[CHOOSE k \in starts : \A j \in starts : k <= j].of
Wanted == IF last.asked = None THEN Latest ELSE last.asked

\* The header of debian_create.py: what a call that ends well says it creates is
\* there, whatever earlier calls have left: the source of the tree as it is, with
\* its debian folder, every binary package, and an archive of them all.
CreatesWhatIsAsked ==
  Done("debian") =>
    /\ name = Wanted
    /\ last.source =>
         /\ orig = [version |-> Wanted, tree |-> tree, whole |-> TRUE]
         /\ debian = [version |-> Wanted, revision |-> last.revision, files |-> Entries]
    /\ last.binaries => \A p \in Names : Found(p) # {}
    /\ (last.source /\ last.binaries) => \A d \in debs : d.whole /\ d.tree = tree
    /\ last.dist => \E a \in dists : /\ a.name = <<Wanted, last.revision>> /\ a.whole
                                    /\ a.debs = Listed

\* The build folder holds one release: what is in it comes from one source tree
\* and has one version, though calls that failed are repeated in part.
OneRelease ==
  /\ raw # None => orig = [version |-> raw.version, tree |-> raw.tree, whole |-> TRUE]
  /\ debian # None => raw # None /\ debian.version = raw.version
  /\ \A d \in debs : debian # None /\ d.tree = raw.tree /\ d.version = debian.version
                                   /\ d.revision = debian.revision

\* What is known between the steps: a call that makes the source finds no archive
\* before it has made one, and from then on works on what is of its version.
StepsFit ==
  /\ at # "none" => run # None
  /\ at \in {"folder", "move", "unpack", "enter", "debian", "entries", "transform", "build"}
       => run.tool = "debian"
  /\ at = "arch" => run.tool = "arch"
  /\ at \in {"move", "unpack", "debian", "entries", "transform"} => run.source
  /\ (/\ at \in {"version", "touch", "tar", "untouch", "move"}
      /\ run.tool = "debian" /\ run.source) => orig = None
  /\ (at \in {"touch", "tar", "untouch"} /\ run.tool = "debian") => run.source
  /\ at = "unpack" => orig # None /\ orig.version = name
  /\ at \in {"debian", "entries", "transform", "build"} => raw # None /\ raw.version = name
  /\ at \in {"entries", "transform"} => debian # None
  /\ at = "archfiles" => arch # None /\ ~arch.whole

IInv == TypeOK /\ StepsFit /\ OneRelease

\* The README in the dist archive: its scripts install one package of every name,
\* each of which is in the archive, and remove them in the opposite order.
DistInstalls ==
  \A a \in dists :
    a.whole => /\ \A p \in Names : Cardinality({d \in a.debs : d.pkg = p}) = 1
               /\ \A d \in a.debs : ~d.dbgsym /\ d.version = a.name[1]
               /\ Reverse(a.install.plain \o a.install.devel)
                    = a.uninstall.devel \o a.uninstall.plain

\* A call that ends well leaves nothing of its own behind.
LeavesNothing ==
  /\ (at = "none" /\ last # None) => temps = {}
  /\ Done("debian") => /\ last.source => \A t \in tars : t.name # name
                       /\ last.dist => helpers = {}

\* A source package and an arch folder are never written over: only the user
\* removes them.
Kept ==
  /\ (orig # None /\ orig' # orig) => orig' = None /\ at = "none"
  /\ (arch # None /\ arch.whole /\ arch' # arch) => arch' = None /\ at = "none"

NeverOverwritten == [][Kept]_vars
=============================================================================
