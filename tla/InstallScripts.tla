--------------------------- MODULE InstallScripts ---------------------------
(***************************************************************************)
(* The scripts that configure, build, install, uninstall and test the      *)
(* library, over what they leave behind for each other: CMake's cache in   *)
(* the build folder, the library built there, the installed files and the  *)
(* cache of the dynamic loader.  Every command of a script may fail, which *)
(* ends the script, and testall.py ends with the script it calls, as do the*)
(* builds of the Debian and the Arch package.                              *)
(*                                                                         *)
(* CMake, make, ldconfig, dh and makepkg are external: a configuration     *)
(* keeps the options that are not given, make builds what the cache says,  *)
(* and a package starts with an empty DESTDIR.                             *)
(***************************************************************************)
EXTENDS Naturals, Sequences

CONSTANTS
  Prefixes,       \* install folders
  Stagings,       \* values of DESTDIR
  None,           \* no value
  InstallCalls,   \* the calls of install_fspropfaker-all.py
  UninstallCalls, \* the calls of uninstall_fspropfaker-all.py
  TestAllCalls,   \* the calls of testall.py
  PackageCalls    \* the builds of packages

Types    == {"Debug", "Release"}
OnOff    == {"On", "Off", "Cache"}
Config   == [shared : BOOLEAN, docs : BOOLEAN, type : Types, prefix : Prefixes, sanitize : BOOLEAN]
Libs     == {"so", "a"}
Parts    == Libs \cup {"headers", "pc", "docs"}
Dests    == Stagings \cup {None}
Install  == [cmd : {"install"}, static : OnOff, docs : OnOff, type : Types,
             dest : Dests, prefix : Prefixes,
             configure : BOOLEAN, make : BOOLEAN, install : BOOLEAN,
             sudo : BOOLEAN, sanitize : BOOLEAN]
Uninstall == [cmd : {"uninstall"}, prompt : BOOLEAN, dest : Dests, prefix : Prefixes,
              clean : BOOLEAN, uninstall : BOOLEAN, sudo : BOOLEAN]
TestAll  == [link : {"Static", "Shared", "Both"}, type : Types \cup {"Both"}, prefix : Prefixes,
             sudo : BOOLEAN, sanitize : BOOLEAN, tidy : BOOLEAN]
Package  == [kind : {"debian", "arch"}, dest : Stagings, prefix : Prefixes]

ASSUME ScriptsAssumption ==
  /\ InstallCalls \subseteq Install
  /\ UninstallCalls \subseteq Uninstall
  /\ TestAllCalls \subseteq TestAll
  /\ PackageCalls \subseteq Package
  /\ None \notin Stagings \cup Config \cup TestAll \cup Package

VARIABLES
  cache,     \* CMakeCache.txt, or None without a build folder
  makefile,  \* TRUE when a configuration has succeeded in it
  built,     \* the configuration of the library in the build folder, or None
  installed, \* the installed files: the value of DESTDIR, the folder below it and the part
  loader,    \* the prefixes whose library the cache of the dynamic loader knows
  todo,      \* the calls that the running script still has to make
  step,      \* the next command of the first of them
  last,      \* the call that has just ended well, or None
  goal,      \* the call of testall.py or the package that is or was being made, or None
  tested,    \* what it has tested
  tidied     \* how often it has run clang-tidy on each build type

vars == <<cache, makefile, built, installed, loader, todo, step, last, goal, tested, tidied>>
disk == <<cache, makefile, built, installed, loader>>
tests == <<goal, tested, tidied>>

\* What is on disk and what is being run.
TypeOK ==
  /\ cache \in Config \cup {None}
  /\ makefile \in BOOLEAN
  /\ built \in Config \cup {None}
  /\ installed \subseteq Dests \X Prefixes \X Parts
  /\ loader \subseteq Prefixes
  /\ goal \in TestAllCalls \cup PackageCalls \cup {None}
  /\ tested \subseteq [shared : BOOLEAN, type : Types, sanitized : BOOLEAN]
  /\ tidied \in [Types -> 0 .. 1]

Init ==
  /\ cache = None /\ makefile = FALSE /\ built = None
  /\ installed = {} /\ loader = {}
  /\ todo = <<>> /\ step = "none"
  /\ last = None /\ goal = None
  /\ tested = {} /\ tidied = [t \in Types |-> 0]

-----------------------------------------------------------------------------
FirstStep == [install |-> "configure", uninstall |-> "remove", test |-> "test", tidy |-> "tidy"]
At(calls) == IF calls = <<>> THEN "none" ELSE FirstStep[Head(calls).cmd]
Call      == Head(todo)
Goes(to)  == step' = to /\ UNCHANGED <<todo, last>>
Ends      == todo' = Tail(todo) /\ step' = At(Tail(todo)) /\ last' = Call
\* check_call raises: nothing more is run.
Fails     == todo' = <<>> /\ step' = "none" /\ last' = None

Starts(calls) ==
  /\ step = "none"
  /\ todo' = calls /\ step' = At(calls) /\ last' = None
  /\ tested' = {} /\ tidied' = [t \in Types |-> 0]

RunInstall   == \E c \in InstallCalls : Starts(<<c>>) /\ goal' = None /\ UNCHANGED disk
RunUninstall == \E c \in UninstallCalls : Starts(<<c>>) /\ goal' = None /\ UNCHANGED disk

-----------------------------------------------------------------------------
\* install_libfspropfaker.py: the options of cmake; On is static, and what is
\* not given stays as it is in the cache or has CMakeLists' default.
Chosen(option, old) == IF option = "Cache" THEN old ELSE option = "On"

Options(c, prefix) ==
  [shared   |-> IF c.static = "Cache" THEN cache = None \/ cache.shared ELSE c.static = "Off",
   docs     |-> Chosen(c.docs, cache # None /\ cache.docs),
   type     |-> c.type,
   prefix   |-> prefix,
   sanitize |-> c.sanitize \/ (cache # None /\ cache.sanitize)]

\* A variant that leaves the prefix in the cache.
ConfiguredKeepsPrefix(c) == Options(c, IF cache = None THEN c.prefix ELSE cache.prefix)

Configured(c) == Options(c, c.prefix)

\* A configuration that fails may have saved its options.
Configure ==
  /\ step = "configure"
  /\ \/ ~Call.configure /\ Goes("make") /\ UNCHANGED <<cache, makefile>>
     \/ Call.configure /\ Goes("make") /\ cache' = Configured(Call) /\ makefile' = TRUE
     \/ Call.configure /\ Fails /\ cache' \in {cache, Configured(Call)} /\ UNCHANGED makefile
  /\ UNCHANGED <<built, installed, loader, tests>>

\* make builds what the cache says, if need be after another configuration.
CanBuild == makefile /\ cache # None

Make ==
  /\ step = "make"
  /\ \/ ~Call.make /\ Goes("install") /\ UNCHANGED built
     \/ Call.make /\ CanBuild /\ Goes("install") /\ built' = cache
     \/ Call.make /\ Fails /\ UNCHANGED built
  /\ UNCHANGED <<cache, makefile, installed, loader, tests>>

\* The install rules of CMakeLists.txt, in their order.
InstallRules(config) ==
  <<IF config.shared THEN "so" ELSE "a", "headers", "pc">> \o IF config.docs THEN <<"docs">> ELSE <<>>

\* The first n of the parts in a folder.
First(n, parts, dest, prefix) == {<<dest, prefix, parts[i]>> : i \in 1 .. n}

\* make install builds first; it may fail with a part of the files installed.
MakeInstall ==
  /\ step = "install"
  /\ \/ ~Call.install /\ Ends /\ UNCHANGED <<built, installed>>
     \/ /\ Call.install /\ CanBuild
        /\ built' = cache
        /\ \E n \in 0 .. Len(InstallRules(cache)) :
             /\ installed' = installed \cup First(n, InstallRules(cache), Call.dest, cache.prefix)
             /\ IF n = Len(InstallRules(cache)) THEN Goes("loader") ELSE Fails
     \/ Call.install /\ Fails /\ UNCHANGED <<built, installed>>
  /\ UNCHANGED <<cache, makefile, loader, tests>>

\* ldconfig finds the libraries in the install folders, but none below a DESTDIR.
Ldconfig == loader' = {p \in Prefixes : <<None, p, "so">> \in installed}

\* A variant that never looks at the cache.
LooksSharedByOption(c) == c.static = "Off"

\* bSharedLib: the option, or the cache when the option is not given.
LooksShared(c) == IF c.static = "Cache" THEN cache.shared ELSE c.static = "Off"

InstallLoader ==
  /\ step = "loader" /\ Call.cmd = "install"
  /\ \/ LooksShared(Call) /\ Call.sudo /\ Ends /\ Ldconfig
     \/ LooksShared(Call) /\ Call.sudo /\ Fails /\ UNCHANGED loader
     \/ ~(LooksShared(Call) /\ Call.sudo) /\ Ends /\ UNCHANGED loader
  /\ UNCHANGED <<cache, makefile, built, installed, tests>>

-----------------------------------------------------------------------------
\* A variant that forgets the documentation.
RemovedPartsNoDocs == <<"headers", "so", "a", "pc">>

\* uninstall_libfspropfaker.py: what its rm commands name, in their order.
RemovedParts == <<"headers", "so", "a", "pc", "docs">>

\* The user, when asked, says no: the script ends without an error and without effect.
Declines == step = "remove" /\ Call.prompt /\ Fails /\ UNCHANGED <<disk, tests>>

Remove ==
  /\ step = "remove"
  /\ \/ ~Call.uninstall /\ Goes("clean") /\ UNCHANGED installed
     \/ /\ Call.uninstall
        /\ \E n \in 0 .. Len(RemovedParts) :
             /\ installed' = installed \ First(n, RemovedParts, Call.dest, Call.prefix)
             /\ IF n = Len(RemovedParts) THEN Goes("clean") ELSE Fails
  /\ UNCHANGED <<cache, makefile, built, loader, tests>>

\* A variant that keeps the build folder.
CleanNever ==
  /\ step = "clean" /\ Goes("loader")
  /\ UNCHANGED <<disk, tests>>

\* A folder that cannot be removed may have lost its contents.
Clean ==
  /\ step = "clean"
  /\ \/ ~Call.clean /\ Goes("loader") /\ UNCHANGED <<cache, makefile, built>>
     \/ /\ Call.clean /\ Goes("loader")
        /\ cache' = None /\ makefile' = FALSE /\ built' = None
     \/ /\ Call.clean /\ Fails
        /\ cache' \in {cache, None} /\ makefile' \in {makefile, FALSE} /\ built' \in {built, None}
  /\ UNCHANGED <<installed, loader, tests>>

UninstallLoader ==
  /\ step = "loader" /\ Call.cmd = "uninstall"
  /\ \/ Call.sudo /\ Ends /\ Ldconfig
     \/ Call.sudo /\ Fails /\ UNCHANGED loader
     \/ ~Call.sudo /\ Ends /\ UNCHANGED loader
  /\ UNCHANGED <<cache, makefile, built, installed, tests>>

-----------------------------------------------------------------------------
\* testAll: one configuration, from a clean build folder.
TestOne(a, static, type, sanitize) ==
  << [cmd |-> "uninstall", prompt |-> FALSE, dest |-> None, prefix |-> a.prefix, clean |-> TRUE,
      uninstall |-> TRUE, sudo |-> a.sudo],
     [cmd |-> "install", static |-> IF static THEN "On" ELSE "Off", docs |-> "On", type |-> type,
      dest |-> None, prefix |-> a.prefix, configure |-> TRUE, make |-> TRUE, install |-> TRUE,
      sudo |-> a.sudo, sanitize |-> sanitize],
     [cmd |-> "test"] >>

TidyIf(wanted) == IF wanted THEN << [cmd |-> "tidy"] >> ELSE <<>>

StaticTests(a, type) ==
  (IF a.sanitize /\ type = "Debug" THEN TestOne(a, TRUE, "Debug", TRUE) ELSE <<>>)
    \o TestOne(a, TRUE, type, FALSE) \o TidyIf(a.tidy)

\* A variant without bTidyDone.
SharedTestsTidyAgain(a, type) == TestOne(a, FALSE, type, FALSE) \o TidyIf(a.tidy)

\* bTidyDone: the static builds have been tidied.
SharedTests(a, type) == TestOne(a, FALSE, type, FALSE) \o TidyIf(a.tidy /\ a.link = "Shared")

Both(a, Tests(_, _)) ==
  IF a.type = "Both" THEN Tests(a, "Debug") \o Tests(a, "Release") ELSE Tests(a, a.type)

TestAllSteps(a) ==
  (IF a.link # "Shared" THEN Both(a, StaticTests) ELSE <<>>)
    \o (IF a.link # "Static" THEN Both(a, SharedTests) ELSE <<>>)

RunTestAll == \E a \in TestAllCalls : Starts(TestAllSteps(a)) /\ goal' = a /\ UNCHANGED disk

\* What make builds is sanitized in a Debug build only.
Sanitized(config) == config.sanitize /\ config.type = "Debug"

Test ==
  /\ step = "test"
  /\ \/ /\ Ends
        /\ tested' = tested \cup {[shared |-> built.shared, type |-> built.type,
                                   sanitized |-> Sanitized(built)]}
     \/ Fails /\ UNCHANGED tested
  /\ UNCHANGED <<disk, goal, tidied>>

\* checktidy.py: clang-tidy is to have nothing to say.
Tidy ==
  /\ step = "tidy"
  /\ \/ Ends /\ tidied' = [tidied EXCEPT ![built.type] = @ + 1]
     \/ Fails /\ UNCHANGED tidied
  /\ UNCHANGED <<disk, goal, tested>>

-----------------------------------------------------------------------------
\* pk_install and dd_install run install_fspropfaker-all.py for a package, the
\* second one with a DESTDIR.
PkInstall(k, stages) ==
  << [cmd |-> "install", static |-> "Off", docs |-> "Off", type |-> "Release",
      dest |-> None, prefix |-> k.prefix, configure |-> "configure" \in stages,
      make |-> "make" \in stages, install |-> "install" \in stages,
      sudo |-> FALSE, sanitize |-> FALSE] >>

\* A variant that forgets DESTDIR.
DdInstallAtOnce(k) == PkInstall(k, {"install"})

DdInstall(k) == << [PkInstall(k, {"install"})[1] EXCEPT !.dest = k.dest] >>

RulesClean(k) ==
  << [cmd |-> "uninstall", prompt |-> FALSE, dest |-> None, prefix |-> k.prefix, clean |-> TRUE,
      uninstall |-> FALSE, sudo |-> FALSE] >>

\* debian/rules.
Rules(k) == RulesClean(k) \o PkInstall(k, {"configure"}) \o PkInstall(k, {"make"}) \o DdInstall(k)

\* A variant whose build() only makes.
PkgBuildMakesOnly(k) == PkInstall(k, {"make"}) \o DdInstall(k)

\* PKGBUILD.
PkgBuild(k) == PkInstall(k, {"configure", "make"}) \o DdInstall(k)

RunPackage ==
  \E k \in PackageCalls :
    /\ Starts(IF k.kind = "debian" THEN Rules(k) ELSE PkgBuild(k)) /\ goal' = k
    /\ installed' = {f \in installed : f[1] # k.dest}
    /\ UNCHANGED <<cache, makefile, built, loader>>

Next ==
  \/ RunInstall \/ RunUninstall \/ RunTestAll \/ RunPackage
  \/ Configure \/ Make \/ MakeInstall \/ InstallLoader
  \/ Declines \/ Remove \/ Clean \/ UninstallLoader
  \/ Test \/ Tidy

Spec == Init /\ [][Next]_vars

-----------------------------------------------------------------------------
\* A script has just ended well.
Done(cmd) == step = "none" /\ last # None /\ last.cmd = cmd

\* The header of the uninstall scripts: all files that the install scripts put
\* into a folder are gone, whatever calls, some of them failed, put them there.
UninstallRemovesAll ==
  (Done("uninstall") /\ last.uninstall) =>
    ~\E f \in installed : f[1] = last.dest /\ f[2] = last.prefix

\* An install that configures has put the kind of library that is asked for into
\* the folder that is asked for (the help of -s and --installdir).
InstalledAsAsked ==
  (Done("install") /\ last.install /\ last.configure) =>
    \E lib \in Libs : /\ <<last.dest, last.prefix, lib>> \in installed
                      /\ last.static = "On" => lib = "a"
                      /\ last.static = "Off" => lib = "so"

\* INSTALL ends with ldconfig: with sudo the loader knows a library that was
\* installed, be it an earlier configuration that says it is shared, and has
\* forgotten one that was removed.
LoaderKnows ==
  /\ (/\ Done("install") /\ last.install /\ last.sudo /\ last.dest = None /\ cache.shared
      /\ last.configure \/ last.static = "Cache") => cache.prefix \in loader
  /\ (Done("uninstall") /\ last.uninstall /\ last.sudo /\ last.dest = None) => last.prefix \notin loader

\* The header of testall.py: what was asked for has been tested, and not some
\* other configuration left over from an earlier build.
Demanded(a) ==
  {[shared |-> s, type |-> t, sanitized |-> z] : s \in BOOLEAN, t \in Types, z \in BOOLEAN}
    \cap {r \in [shared : BOOLEAN, type : Types, sanitized : BOOLEAN] :
            /\ a.link = "Both" \/ r.shared = (a.link = "Shared")
            /\ a.type \in {"Both", r.type}
            /\ r.sanitized => a.sanitize /\ r.type = "Debug" /\ ~r.shared}
TestsWhatIsDemanded ==
  (goal \in TestAllCalls /\ step = "none" /\ last # None) => tested = Demanded(goal)

\* The comment on bTidyDone: tidy is applied once for the same build type.
TidiedOnce ==
  (goal \in TestAllCalls /\ step = "none" /\ last # None /\ goal.tidy) =>
    \A t \in Types : tidied[t] = IF goal.type \in {"Both", t} THEN 1 ELSE 0

\* The lists of files in debian.orig, and the options in rules and PKGBUILD: a
\* package holds the shared library with its headers, and no documentation,
\* whatever the source tree has been built for before.
PackageIsComplete ==
  (goal \in PackageCalls /\ step = "none" /\ last # None) =>
    /\ {f \in installed : f[1] = goal.dest}
         = {<<goal.dest, goal.prefix, part>> : part \in {"so", "headers", "pc"}}
    /\ built.type = "Release"

\* "sets DESTDIR used by make install" (dd_install): making a package leaves what
\* is installed on the machine that makes it alone.
PackagingStaysBelow ==
  [][goal' \in PackageCalls =>
       /\ {f \in installed' : f[1] # goal'.dest} = {f \in installed : f[1] # goal'.dest}
       /\ loader' = loader]_vars
=============================================================================
