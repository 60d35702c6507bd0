------------------------ MODULE InstallScriptsProofs ------------------------
(***************************************************************************)
(* Proofs about InstallScripts, for any folders, calls and packages, and   *)
(* whatever commands fail: an uninstall leaves nothing behind, an install  *)
(* has installed the library that was asked for, the loader knows it,      *)
(* making a package leaves the machine that makes it alone, a package is   *)
(* complete, and testall.py tests what it was asked for and tidies each    *)
(* build type once.                                                        *)
(*                                                                         *)
(* The inductive invariant IInv says what each step of a script may rely   *)
(* on: which call it belongs to, what cmake's cache says once the call has *)
(* configured, what is installed or removed when the loader's turn comes,  *)
(* and of what kind the calls are that a package still has to make.        *)
(* CompleteFits and TestAllFits, which need it, add for the packages and   *)
(* for testall.py what the calls still to be made will come to, given what *)
(* is in the build folder: the one that the last call of a package, which  *)
(* does not configure, relies on what an earlier one has left in the cache,*)
(* the other that what has been tested and what the calls to be made will  *)
(* test is, at every step, what was asked for.                             *)
(***************************************************************************)
EXTENDS InstallScripts, SequenceTheorems, TLAPS

Calls == Install \cup Uninstall \cup {[cmd |-> "test"], [cmd |-> "tidy"]}

StepsOf(cmd) ==
  IF cmd = "install" THEN {"configure", "make", "install", "loader"}
  ELSE IF cmd = "uninstall" THEN {"remove", "clean", "loader"} ELSE {cmd}

Runs(cmd) == todo # <<>> /\ Call.cmd = cmd

TypeInv ==
  /\ cache \in Config \cup {None}
  /\ installed \subseteq Dests \X Prefixes \X Parts
  /\ todo \in Seq(Calls)

StepFits ==
  /\ todo = <<>> <=> step = "none"
  /\ todo # <<>> => step \in StepsOf(Call.cmd)

\* After a configuration the cache says what the call asks for.
AsAsked(c) ==
  /\ cache # None /\ cache.prefix = c.prefix
  /\ c.static = "On" => ~cache.shared
  /\ c.static = "Off" => cache.shared

HasLibrary(c) ==
  cache # None /\ <<c.dest, cache.prefix, IF cache.shared THEN "so" ELSE "a">> \in installed

IsGone(c) == ~\E f \in installed : f[1] = c.dest /\ f[2] = c.prefix

ConfigureFits ==
  (Runs("install") /\ Call.configure /\ step # "configure") => AsAsked(Call)

LibraryFits == (Runs("install") /\ Call.install /\ step = "loader") => HasLibrary(Call)

RemoveFits == (Runs("uninstall") /\ Call.uninstall /\ step # "remove") => IsGone(Call)

\* What holds when a call has ended well.
InstallEnds(c) ==
  (c.cmd = "install" /\ c.install) =>
    /\ HasLibrary(c)
    /\ c.configure => AsAsked(c)
    /\ (c.sudo /\ c.dest = None /\ cache.shared /\ (c.configure \/ c.static = "Cache"))
         => cache.prefix \in loader

UninstallEnds(c) ==
  (c.cmd = "uninstall" /\ c.uninstall) =>
    IsGone(c) /\ ((c.sudo /\ c.dest = None) => c.prefix \notin loader)

EndFits == (step = "none" /\ last # None) => InstallEnds(last) /\ UninstallEnds(last)

\* A call that a package makes: it installs into DESTDIR only and removes nothing.
Harmless(c, k) ==
  \/ c.cmd = "install" /\ ~c.sudo /\ (c.install => c.dest = k.dest)
  \/ c.cmd = "uninstall" /\ ~c.sudo /\ ~c.uninstall

PackageFits == goal \in PackageCalls => \A i \in 1 .. Len(todo) : Harmless(todo[i], goal)

IInv ==
  /\ TypeInv /\ StepFits /\ ConfigureFits /\ LibraryFits /\ RemoveFits /\ EndFits /\ PackageFits

-----------------------------------------------------------------------------
LEMMA CallKinds ==
  \A c \in Calls : c.cmd \in {"install", "uninstall", "test", "tidy"}
BY DEF Calls, Install, Uninstall

LEMMA HeadAndTail ==
  ASSUME todo \in Seq(Calls), todo # <<>>
  PROVE  /\ Call \in Calls /\ Call = todo[1]
         /\ Tail(todo) \in Seq(Calls) /\ Len(Tail(todo)) = Len(todo) - 1
         /\ \A i \in 1 .. Len(Tail(todo)) : Tail(todo)[i] = todo[i + 1]
BY DEF Call

LEMMA TestOneTyped ==
  \A a \in TestAll, static \in BOOLEAN, type \in Types, sanitize \in BOOLEAN :
    TestOne(a, static, type, sanitize) \in Seq(Calls)
<1> SUFFICES ASSUME NEW a \in TestAll, NEW static \in BOOLEAN, NEW type \in Types, NEW sanitize \in BOOLEAN
             PROVE TestOne(a, static, type, sanitize) \in Seq(Calls)
  OBVIOUS
<1>1. a.prefix \in Prefixes /\ a.sudo \in BOOLEAN
  BY DEF TestAll
<1>2. [cmd |-> "uninstall", prompt |-> FALSE, dest |-> None, prefix |-> a.prefix, clean |-> TRUE,
       uninstall |-> TRUE, sudo |-> a.sudo] \in Calls
  BY <1>1 DEF Calls, Uninstall, Dests
<1>3. [cmd |-> "install", static |-> IF static THEN "On" ELSE "Off", docs |-> "On", type |-> type,
       dest |-> None, prefix |-> a.prefix, configure |-> TRUE, make |-> TRUE, install |-> TRUE,
       sudo |-> a.sudo, sanitize |-> sanitize] \in Calls
  BY <1>1 DEF Calls, Install, Dests, OnOff
<1>4. [cmd |-> "test"] \in Calls
  BY DEF Calls
<1>5. QED
  BY <1>2, <1>3, <1>4 DEF TestOne

LEMMA JoinTyped ==
  ASSUME NEW S, NEW s \in Seq(S), NEW t \in Seq(S)
  PROVE  /\ s \o t \in Seq(S)
         /\ Len(s \o t) = Len(s) + Len(t)
         /\ \A i \in 1 .. Len(s) : (s \o t)[i] = s[i]
OBVIOUS

LEMMA TestAllTyped ==
  \A a \in TestAll : TestAllSteps(a) \in Seq(Calls)
<1> SUFFICES ASSUME NEW a \in TestAll PROVE TestAllSteps(a) \in Seq(Calls)
  OBVIOUS
<1>1. /\ a.sanitize \in BOOLEAN /\ a.tidy \in BOOLEAN /\ a.type \in Types \cup {"Both"}
  BY DEF TestAll
<1>2. [cmd |-> "tidy"] \in Calls
  BY DEF Calls
<1>3. \A b : TidyIf(b) \in Seq(Calls)
  <2> TAKE b
  <2>1. CASE b
    BY <2>1, <1>2 DEF TidyIf
  <2>2. CASE ~b
    BY <2>2 DEF TidyIf
  <2>3. QED
    BY <2>1, <2>2
<1>4. << >> \in Seq(Calls)
  OBVIOUS
<1>5. ASSUME NEW type \in Types PROVE StaticTests(a, type) \in Seq(Calls)
  <2> DEFINE first == IF a.sanitize /\ type = "Debug" THEN TestOne(a, TRUE, "Debug", TRUE) ELSE <<>>
  <2>1. first \in Seq(Calls)
    <3>1. TestOne(a, TRUE, "Debug", TRUE) \in Seq(Calls)
      BY TestOneTyped DEF Types
    <3>2. QED
      BY <3>1, <1>4
  <2>2. TestOne(a, TRUE, type, FALSE) \in Seq(Calls)
    BY TestOneTyped
  <2>3. TidyIf(a.tidy) \in Seq(Calls)
    BY <1>3
  <2> HIDE DEF first
  <2>4. (first \o TestOne(a, TRUE, type, FALSE)) \o TidyIf(a.tidy) \in Seq(Calls)
    BY <2>1, <2>2, <2>3, JoinTyped
  <2>5. QED
    BY <2>4 DEF StaticTests, first
<1>6. ASSUME NEW type \in Types PROVE SharedTests(a, type) \in Seq(Calls)
  <2>1. TestOne(a, FALSE, type, FALSE) \in Seq(Calls)
    BY TestOneTyped
  <2>2. TidyIf(a.tidy /\ a.link = "Shared") \in Seq(Calls)
    BY <1>3
  <2>3. QED
    BY <2>1, <2>2, JoinTyped DEF SharedTests
<1>7. Both(a, StaticTests) \in Seq(Calls) /\ Both(a, SharedTests) \in Seq(Calls)
  BY <1>1, <1>5, <1>6, JoinTyped DEF Both, Types
<1>8. QED
  BY <1>4, <1>7, JoinTyped DEF TestAllSteps

PackageSteps(k) == IF k.kind = "debian" THEN Rules(k) ELSE PkgBuild(k)

LEMMA PackageTyped ==
  \A k \in Package :
    /\ PackageSteps(k) \in Seq(Calls)
    /\ \A i \in 1 .. Len(PackageSteps(k)) : Harmless(PackageSteps(k)[i], k)
<1> SUFFICES ASSUME NEW k \in Package
             PROVE  /\ PackageSteps(k) \in Seq(Calls)
                    /\ \A i \in 1 .. Len(PackageSteps(k)) : Harmless(PackageSteps(k)[i], k)
  OBVIOUS
<1> DEFINE Good == {c \in Calls : Harmless(c, k)}
<1>1. k.prefix \in Prefixes /\ k.dest \in Stagings
  BY DEF Package
<1>2. RulesClean(k) \in Seq(Good)
  BY <1>1 DEF RulesClean, Calls, Uninstall, Dests, Harmless
<1>3. ASSUME NEW stages PROVE PkInstall(k, stages)[1] \in Install
  BY <1>1 DEF PkInstall, Install, OnOff, Types, Dests
<1>4. ASSUME NEW stages
      PROVE  /\ PkInstall(k, stages) = << PkInstall(k, stages)[1] >>
             /\ PkInstall(k, stages)[1].cmd = "install" /\ ~PkInstall(k, stages)[1].sudo
             /\ PkInstall(k, stages)[1].install = ("install" \in stages)
  BY DEF PkInstall
<1>5. ASSUME NEW stages, "install" \notin stages PROVE PkInstall(k, stages) \in Seq(Good)
  <2>1. PkInstall(k, stages)[1] \in Good
    BY <1>3, <1>4, <1>5 DEF Calls, Harmless
  <2> HIDE DEF Good
  <2>2. << PkInstall(k, stages)[1] >> \in Seq(Good)
    BY <2>1
  <2>3. QED
    BY <1>4, <2>2
<1>6. DdInstall(k) \in Seq(Good)
  <2> DEFINE c == PkInstall(k, {"install"})[1]
             d == [c EXCEPT !.dest = k.dest]
  <2>1. c \in Install
    BY <1>3
  <2>2. c.cmd = "install" /\ ~c.sudo
    BY <1>4
  <2> HIDE DEF c
  <2>3. d \in Install /\ d.cmd = "install" /\ ~d.sudo /\ d.dest = k.dest
    BY <1>1, <2>1, <2>2 DEF Install, Dests
  <2>4. d \in Good
    BY <2>3 DEF Calls, Harmless
  <2> HIDE DEF Good, d
  <2>5. << d >> \in Seq(Good)
    BY <2>4
  <2>6. QED
    BY <2>5 DEF DdInstall, d, c
<1>7. PkInstall(k, {"configure"}) \in Seq(Good) /\ PkInstall(k, {"make"}) \in Seq(Good)
        /\ PkInstall(k, {"configure", "make"}) \in Seq(Good)
  <2>1. "install" \notin {"configure"} /\ "install" \notin {"make"} /\ "install" \notin {"configure", "make"}
    OBVIOUS
  <2>2. QED
    BY <1>5, <2>1
<1> HIDE DEF Good
<1>8. Rules(k) \in Seq(Good)
  <2>1. RulesClean(k) \o PkInstall(k, {"configure"}) \in Seq(Good)
    BY <1>2, <1>7, JoinTyped
  <2>2. (RulesClean(k) \o PkInstall(k, {"configure"})) \o PkInstall(k, {"make"}) \in Seq(Good)
    BY <2>1, <1>7, JoinTyped
  <2>3. QED
    BY <2>2, <1>6, JoinTyped DEF Rules
<1>9. PkgBuild(k) \in Seq(Good)
  BY <1>6, <1>7, JoinTyped DEF PkgBuild
<1>10. PackageSteps(k) \in Seq(Good)
  BY <1>8, <1>9 DEF PackageSteps
<1>11. ASSUME NEW s \in Seq(Good)
       PROVE  s \in Seq(Calls) /\ \A i \in 1 .. Len(s) : Harmless(s[i], k)
  BY DEF Good
<1>12. QED
  BY <1>10, <1>11

-----------------------------------------------------------------------------
LEMMA NewCall ==
  ASSUME todo' \in Seq(Calls), step' = At(todo)'
  PROVE  StepFits' /\ ConfigureFits' /\ LibraryFits' /\ RemoveFits'
<1>1. CASE todo' = <<>>
  BY <1>1 DEF At, StepFits, ConfigureFits, LibraryFits, RemoveFits, Runs
<1>2. CASE todo' # <<>>
  <2>1. Call' \in Calls /\ Call' = Head(todo')
    BY <1>2 DEF Call
  <2>2. Call'.cmd \in {"install", "uninstall", "test", "tidy"}
    BY <2>1, CallKinds
  <2>3. step' = FirstStep[Call'.cmd]
    BY <1>2, <2>1 DEF At, Call
  <2>4. /\ Call'.cmd = "install" => step' = "configure"
        /\ Call'.cmd = "uninstall" => step' = "remove"
        /\ Call'.cmd = "test" => step' = "test"
        /\ Call'.cmd = "tidy" => step' = "tidy"
    BY <2>3 DEF FirstStep
  <2>5. QED
    BY <1>2, <2>2, <2>4 DEF StepFits, StepsOf, ConfigureFits, LibraryFits, RemoveFits, Runs
<1>3. QED
  BY <1>1, <1>2

\* A call that has ended well is the last one; the next one starts at its first step.
LEMMA AfterEnds ==
  ASSUME TypeInv, PackageFits, todo # <<>>, Ends, goal' = goal
  PROVE  /\ todo' \in Seq(Calls) /\ last' = Call
         /\ StepFits' /\ ConfigureFits' /\ LibraryFits' /\ RemoveFits' /\ PackageFits'
<1>1. todo \in Seq(Calls)
  BY DEF TypeInv
<1>2. /\ todo' = Tail(todo) /\ step' = At(Tail(todo)) /\ last' = Call
  BY DEF Ends
<1>3. todo' \in Seq(Calls) /\ step' = At(todo)'
  BY <1>1, <1>2, HeadAndTail DEF At
<1>4. PackageFits'
  <2> SUFFICES ASSUME goal \in PackageCalls, NEW i \in 1 .. Len(todo') PROVE Harmless(todo'[i], goal)
    BY DEF PackageFits
  <2>1. i + 1 \in 1 .. Len(todo) /\ todo'[i] = todo[i + 1]
    BY <1>1, <1>2, HeadAndTail
  <2>2. QED
    BY <2>1 DEF PackageFits
<1>5. QED
  BY <1>2, <1>3, <1>4, NewCall

LEMMA AfterFails ==
  ASSUME Fails
  PROVE  /\ todo' \in Seq(Calls)
         /\ StepFits' /\ ConfigureFits' /\ LibraryFits' /\ RemoveFits' /\ EndFits' /\ PackageFits'
<1>1. todo' = <<>> /\ step' = "none" /\ last' = None
  BY DEF Fails
<1>2. todo' \in Seq(Calls) /\ step' = At(todo)'
  BY <1>1 DEF At
<1>3. EndFits' /\ PackageFits'
  BY <1>1 DEF EndFits, PackageFits
<1>4. QED
  BY <1>2, <1>3, NewCall

LEMMA AfterStarts ==
  ASSUME NEW calls \in Seq(Calls), Starts(calls),
         goal' \in PackageCalls => \A i \in 1 .. Len(calls) : Harmless(calls[i], goal')
  PROVE  /\ todo' \in Seq(Calls)
         /\ StepFits' /\ ConfigureFits' /\ LibraryFits' /\ RemoveFits' /\ EndFits' /\ PackageFits'
<1>1. todo' = calls /\ step' = At(calls) /\ last' = None
  BY DEF Starts
<1>2. todo' \in Seq(Calls) /\ step' = At(todo)'
  BY <1>1 DEF At
<1>3. EndFits' /\ PackageFits'
  BY <1>1 DEF EndFits, PackageFits
<1>4. QED
  BY <1>2, <1>3, NewCall

\* A step that goes on leaves nothing to show about ends.
LEMMA AfterGoes ==
  ASSUME TypeInv, PackageFits, todo # <<>>, NEW to, to # "none", Goes(to), goal' = goal
  PROVE  /\ todo' \in Seq(Calls) /\ todo' = todo /\ Call' = Call /\ step' = to
         /\ EndFits' /\ PackageFits'
<1>1. step' = to /\ todo' = todo
  BY DEF Goes
<1>2. Call' = Call
  BY <1>1 DEF Call
<1>3. QED
  BY <1>1, <1>2 DEF EndFits, PackageFits, TypeInv

LEMMA CallOfStep ==
  ASSUME IInv
  PROVE  /\ step # "none" => todo # <<>> /\ Call \in Calls
         /\ step \in {"configure", "make", "install"} => Call.cmd = "install"
         /\ step \in {"remove", "clean"} => Call.cmd = "uninstall"
         /\ step = "test" => Call.cmd = "test"
         /\ step = "tidy" => Call.cmd = "tidy"
         /\ (step # "none" /\ Call.cmd = "install") => Call \in Install
         /\ (step # "none" /\ Call.cmd = "uninstall") => Call \in Uninstall
         /\ (step # "none" /\ goal \in PackageCalls) => Harmless(Call, goal)
<1> SUFFICES ASSUME step # "none"
             PROVE  /\ todo # <<>> /\ Call \in Calls
                    /\ step \in {"configure", "make", "install"} => Call.cmd = "install"
                    /\ step \in {"remove", "clean"} => Call.cmd = "uninstall"
                    /\ step = "test" => Call.cmd = "test"
                    /\ step = "tidy" => Call.cmd = "tidy"
                    /\ Call.cmd = "install" => Call \in Install
                    /\ Call.cmd = "uninstall" => Call \in Uninstall
                    /\ goal \in PackageCalls => Harmless(Call, goal)
  OBVIOUS
<1>1. todo \in Seq(Calls) /\ todo # <<>> /\ step \in StepsOf(Call.cmd)
  BY DEF IInv, TypeInv, StepFits
<1>2. Call \in Calls /\ Call = todo[1]
  BY <1>1, HeadAndTail
<1>3. Call.cmd \in {"install", "uninstall", "test", "tidy"}
  BY <1>2, CallKinds
<1>4. /\ step \in {"configure", "make", "install"} => Call.cmd = "install"
      /\ step \in {"remove", "clean"} => Call.cmd = "uninstall"
      /\ step = "test" => Call.cmd = "test"
      /\ step = "tidy" => Call.cmd = "tidy"
  BY <1>1, <1>3 DEF StepsOf
<1>5. Call.cmd = "install" => Call \in Install
  BY <1>2 DEF Calls, Uninstall
<1>6. Call.cmd = "uninstall" => Call \in Uninstall
  BY <1>2 DEF Calls, Install
<1>7. goal \in PackageCalls => Harmless(Call, goal)
  BY <1>1, <1>2 DEF IInv, PackageFits
<1>8. QED
  BY <1>1, <1>2, <1>4, <1>5, <1>6, <1>7

-----------------------------------------------------------------------------
LEMMA ConfiguredTyped ==
  ASSUME cache \in Config \cup {None}, NEW c \in Install
  PROVE  Configured(c) \in Config /\ Configured(c) # None /\ Configured(c).prefix = c.prefix
         /\ (c.static = "On" => ~Configured(c).shared) /\ (c.static = "Off" => Configured(c).shared)
<1>1. /\ c.type \in Types /\ c.prefix \in Prefixes /\ c.sanitize \in BOOLEAN
  BY DEF Install
<1>2. CASE cache = None
  <2>1. Configured(c) \in Config
    BY <1>1, <1>2 DEF Configured, Options, Chosen, Config
  <2>2. QED
    BY <2>1, ScriptsAssumption DEF Configured, Options
<1>3. CASE cache \in Config
  <2>1. cache.docs \in BOOLEAN /\ cache.sanitize \in BOOLEAN /\ cache.shared \in BOOLEAN
    BY <1>3 DEF Config
  <2>2. Configured(c) \in Config
    BY <1>1, <2>1 DEF Configured, Options, Chosen, Config
  <2>3. QED
    BY <2>2, ScriptsAssumption DEF Configured, Options
<1>4. QED
  BY <1>2, <1>3

LEMMA ConfigureKeeps ==
  IInv /\ Configure => IInv'
<1> SUFFICES ASSUME IInv, Configure PROVE IInv'
  OBVIOUS
<1> USE DEF IInv
<1>1. /\ step = "configure" /\ todo # <<>> /\ Call.cmd = "install" /\ Call \in Install
  BY CallOfStep DEF Configure
<1>2. installed' = installed /\ goal' = goal
  BY DEF Configure, tests
<1>3. CASE ~Call.configure /\ Goes("make") /\ UNCHANGED <<cache, makefile>>
  <2>1. /\ todo' \in Seq(Calls) /\ todo' = todo /\ Call' = Call /\ step' = "make"
        /\ EndFits' /\ PackageFits'
    BY <1>1, <1>2, <1>3, AfterGoes
  <2>2. QED
    BY <1>1, <1>2, <1>3, <2>1 DEF TypeInv, StepFits, StepsOf, ConfigureFits, LibraryFits, RemoveFits, Runs
<1>4. CASE Call.configure /\ Goes("make") /\ cache' = Configured(Call)
  <2>1. /\ todo' \in Seq(Calls) /\ todo' = todo /\ Call' = Call /\ step' = "make"
        /\ EndFits' /\ PackageFits'
    BY <1>1, <1>2, <1>4, AfterGoes
  <2>2. cache' \in Config /\ AsAsked(Call)'
    BY <1>1, <1>4, <2>1, ConfiguredTyped DEF AsAsked, TypeInv
  <2>3. QED
    BY <1>1, <1>2, <2>1, <2>2 DEF TypeInv, StepFits, StepsOf, ConfigureFits, LibraryFits, RemoveFits, Runs
<1>5. CASE Call.configure /\ Fails /\ cache' \in {cache, Configured(Call)}
  <2>1. cache' \in Config \cup {None}
    BY <1>1, <1>5, ConfiguredTyped DEF TypeInv
  <2>2. QED
    BY <1>2, <1>5, <2>1, AfterFails DEF TypeInv
<1>6. QED
  BY <1>3, <1>4, <1>5 DEF Configure

LEMMA MakeKeeps ==
  IInv /\ Make => IInv'
<1> SUFFICES ASSUME IInv, Make PROVE IInv'
  OBVIOUS
<1> USE DEF IInv
<1>1. /\ step = "make" /\ todo # <<>> /\ Call.cmd = "install"
  BY CallOfStep DEF Make
<1>2. installed' = installed /\ goal' = goal /\ cache' = cache
  BY DEF Make, tests
<1>3. CASE Goes("install")
  <2>1. /\ todo' \in Seq(Calls) /\ todo' = todo /\ Call' = Call /\ step' = "install"
        /\ EndFits' /\ PackageFits'
    BY <1>1, <1>2, <1>3, AfterGoes
  <2>2. Call.configure => AsAsked(Call)'
    BY <1>1, <1>2, <2>1 DEF ConfigureFits, Runs, AsAsked
  <2>3. QED
    BY <1>1, <1>2, <2>1, <2>2 DEF TypeInv, StepFits, StepsOf, ConfigureFits, LibraryFits, RemoveFits, Runs
<1>4. CASE Fails
  BY <1>2, <1>4, AfterFails DEF TypeInv
<1>5. QED
  BY <1>3, <1>4 DEF Make

LEMMA RulesTyped ==
  ASSUME NEW config \in Config
  PROVE  /\ Len(InstallRules(config)) \in Nat /\ Len(InstallRules(config)) >= 1
         /\ InstallRules(config)[1] = IF config.shared THEN "so" ELSE "a"
         /\ \A i \in 1 .. Len(InstallRules(config)) : InstallRules(config)[i] \in Parts
<1> DEFINE kind == IF config.shared THEN "so" ELSE "a"
<1>1. kind \in Parts /\ {"headers", "pc", "docs"} \subseteq Parts
  BY DEF Parts, Libs
<1> DEFINE most == <<kind, "headers", "pc">>
           more == IF config.docs THEN <<"docs">> ELSE <<>>
<1>2. most \in Seq(Parts) /\ Len(most) = 3 /\ most[1] = kind
  <2> HIDE DEF kind
  <2>1. QED
    BY <1>1
<1>3. more \in Seq(Parts) /\ Len(more) \in Nat
  <2>1. << "docs" >> \in Seq(Parts)
    BY <1>1
  <2>2. CASE config.docs
    BY <2>1, <2>2
  <2>3. CASE ~config.docs
    BY <2>3
  <2>4. QED
    BY <2>2, <2>3
<1>4. InstallRules(config) = most \o more
  BY DEF InstallRules
<1> HIDE DEF kind, most, more
<1>5. most \o more \in Seq(Parts)
  BY <1>2, <1>3, JoinTyped
<1>6. Len(most \o more) = 3 + Len(more) /\ (most \o more)[1] = kind
  <2>1. Len(most \o more) = Len(most) + Len(more)
    BY <1>2, <1>3, JoinTyped
  <2>2. \A i \in 1 .. Len(most) : (most \o more)[i] = most[i]
    BY <1>2, <1>3, JoinTyped
  <2>3. QED
    BY <1>2, <2>1, <2>2
<1>7. QED
  BY <1>3, <1>4, <1>5, <1>6 DEF kind

LEMMA MakeInstallKeeps ==
  IInv /\ MakeInstall => IInv'
<1> SUFFICES ASSUME IInv, MakeInstall PROVE IInv'
  OBVIOUS
<1> USE DEF IInv
<1>1. /\ step = "install" /\ todo # <<>> /\ Call.cmd = "install" /\ Call \in Install
  BY CallOfStep DEF MakeInstall
<1>2. goal' = goal /\ cache' = cache /\ loader' = loader
  BY DEF MakeInstall, tests
<1>3. CASE ~Call.install /\ Ends /\ UNCHANGED <<built, installed>>
  <2>1. /\ todo' \in Seq(Calls) /\ last' = Call
        /\ StepFits' /\ ConfigureFits' /\ LibraryFits' /\ RemoveFits' /\ PackageFits'
    BY <1>1, <1>2, <1>3, AfterEnds
  <2>2. EndFits'
    BY <1>1, <1>3, <2>1 DEF EndFits, InstallEnds, UninstallEnds
  <2>3. QED
    BY <1>2, <1>3, <2>1, <2>2 DEF TypeInv
<1>4. ASSUME CanBuild, NEW n \in 0 .. Len(InstallRules(cache)),
             installed' = installed \cup First(n, InstallRules(cache), Call.dest, cache.prefix),
             IF n = Len(InstallRules(cache)) THEN Goes("loader") ELSE Fails
      PROVE  IInv'
  <2>1. cache \in Config /\ cache # None /\ cache.prefix \in Prefixes /\ Call.dest \in Dests
    BY <1>1, <1>4 DEF CanBuild, TypeInv, Config, Install
  <2>2. installed' \subseteq Dests \X Prefixes \X Parts
    <3>1. \A i \in 1 .. n : InstallRules(cache)[i] \in Parts
      BY <2>1, RulesTyped
    <3>2. First(n, InstallRules(cache), Call.dest, cache.prefix) \subseteq Dests \X Prefixes \X Parts
      BY <2>1, <3>1 DEF First
    <3>3. QED
      BY <1>4, <3>2 DEF TypeInv
  <2>3. CASE n = Len(InstallRules(cache))
    <3>1. /\ todo' \in Seq(Calls) /\ todo' = todo /\ Call' = Call /\ step' = "loader"
          /\ EndFits' /\ PackageFits'
      BY <1>1, <1>2, <1>4, <2>3, AfterGoes
    <3>2. <<Call.dest, cache.prefix, InstallRules(cache)[1]>> \in installed'
      BY <1>4, <2>1, <2>3, RulesTyped DEF First
    <3>3. HasLibrary(Call)'
      BY <1>2, <2>1, <3>1, <3>2, RulesTyped DEF HasLibrary
    <3>4. Call.configure => AsAsked(Call)'
      BY <1>1, <1>2, <3>1 DEF ConfigureFits, Runs, AsAsked
    <3>5. QED
      BY <1>1, <1>2, <2>2, <3>1, <3>3, <3>4
         DEF TypeInv, StepFits, StepsOf, ConfigureFits, LibraryFits, RemoveFits, Runs
  <2>4. CASE n # Len(InstallRules(cache))
    BY <1>2, <1>4, <2>2, <2>4, AfterFails DEF TypeInv
  <2>5. QED
    BY <2>3, <2>4
<1>5. CASE Fails /\ UNCHANGED <<built, installed>>
  BY <1>2, <1>5, AfterFails DEF TypeInv
<1>6. QED
  BY <1>3, <1>4, <1>5 DEF MakeInstall

LEMMA InstallLoaderKeeps ==
  IInv /\ InstallLoader => IInv'
<1> SUFFICES ASSUME IInv, InstallLoader PROVE IInv'
  OBVIOUS
<1> USE DEF IInv
<1>1. /\ step = "loader" /\ todo # <<>> /\ Call.cmd = "install" /\ Call \in Install
  BY CallOfStep DEF InstallLoader
<1>2. goal' = goal /\ cache' = cache /\ installed' = installed
  BY DEF InstallLoader, tests
<1>3. ASSUME Ends,
             (LooksShared(Call) /\ Call.sudo) => Ldconfig
      PROVE  IInv'
  <2>1. /\ todo' \in Seq(Calls) /\ last' = Call
        /\ StepFits' /\ ConfigureFits' /\ LibraryFits' /\ RemoveFits' /\ PackageFits'
    BY <1>1, <1>2, <1>3, AfterEnds
  <2>2. /\ Call.install => HasLibrary(Call)
        /\ Call.configure => AsAsked(Call)
    BY <1>1 DEF LibraryFits, ConfigureFits, Runs
  <2>3. ASSUME Call.install, Call.sudo, Call.dest = None, cache.shared,
               Call.configure \/ Call.static = "Cache"
        PROVE  cache.prefix \in loader'
    <3>1. LooksShared(Call)
      BY <1>1, <2>2, <2>3 DEF LooksShared, AsAsked, Install, OnOff
    <3>2. <<None, cache.prefix, "so">> \in installed /\ cache \in Config
      BY <2>2, <2>3 DEF HasLibrary, TypeInv
    <3>3. QED
      BY <1>3, <2>3, <3>1, <3>2 DEF Ldconfig, Config
  <2>4. InstallEnds(last)'
    BY <1>1, <1>2, <2>1, <2>2, <2>3 DEF InstallEnds, HasLibrary, AsAsked
  <2>5. EndFits'
    BY <1>1, <2>1, <2>4 DEF EndFits, UninstallEnds
  <2>6. QED
    BY <1>2, <2>1, <2>5 DEF TypeInv
<1>4. CASE Fails
  BY <1>2, <1>4, AfterFails DEF TypeInv
<1>5. QED
  BY <1>3, <1>4 DEF InstallLoader

LEMMA DeclinesKeeps ==
  IInv /\ Declines => IInv'
<1> SUFFICES ASSUME IInv, Declines PROVE IInv'
  OBVIOUS
<1>1. Fails /\ installed' = installed /\ cache' = cache
  BY DEF Declines, disk
<1>2. QED
  BY <1>1, AfterFails DEF IInv, TypeInv

\* What rm has named is gone, and nothing else has been changed.
LEMMA AllPartsNamed ==
  \A part \in Parts : \E i \in 1 .. Len(RemovedParts) : RemovedParts[i] = part
<1>1. Len(RemovedParts) = 5
  BY DEF RemovedParts
<1>2. /\ RemovedParts[1] = "headers" /\ RemovedParts[2] = "so" /\ RemovedParts[3] = "a"
      /\ RemovedParts[4] = "pc" /\ RemovedParts[5] = "docs"
  BY DEF RemovedParts
<1>3. 1 \in 1 .. 5 /\ 2 \in 1 .. 5 /\ 3 \in 1 .. 5 /\ 4 \in 1 .. 5 /\ 5 \in 1 .. 5
  OBVIOUS
<1>4. QED
  BY <1>1, <1>2, <1>3 DEF Parts, Libs

LEMMA RemoveKeeps ==
  IInv /\ Remove => IInv'
<1> SUFFICES ASSUME IInv, Remove PROVE IInv'
  OBVIOUS
<1> USE DEF IInv
<1>1. /\ step = "remove" /\ todo # <<>> /\ Call.cmd = "uninstall"
  BY CallOfStep DEF Remove
<1>2. goal' = goal /\ cache' = cache
  BY DEF Remove, tests
<1>3. CASE ~Call.uninstall /\ Goes("clean") /\ UNCHANGED installed
  <2>1. /\ todo' \in Seq(Calls) /\ todo' = todo /\ Call' = Call /\ step' = "clean"
        /\ EndFits' /\ PackageFits'
    BY <1>1, <1>2, <1>3, AfterGoes
  <2>2. QED
    BY <1>1, <1>2, <1>3, <2>1 DEF TypeInv, StepFits, StepsOf, ConfigureFits, LibraryFits, RemoveFits, Runs
<1>4. ASSUME NEW n \in 0 .. Len(RemovedParts),
             installed' = installed \ First(n, RemovedParts, Call.dest, Call.prefix),
             IF n = Len(RemovedParts) THEN Goes("clean") ELSE Fails
      PROVE  IInv'
  <2>1. installed' \subseteq Dests \X Prefixes \X Parts
    BY <1>4 DEF TypeInv
  <2>2. CASE n = Len(RemovedParts)
    <3>1. /\ todo' \in Seq(Calls) /\ todo' = todo /\ Call' = Call /\ step' = "clean"
          /\ EndFits' /\ PackageFits'
      BY <1>1, <1>2, <1>4, <2>2, AfterGoes
    <3>2. ASSUME NEW f \in installed', f[1] = Call.dest, f[2] = Call.prefix PROVE FALSE
      <4>1. f[3] \in Parts /\ f = <<Call.dest, Call.prefix, f[3]>>
        BY <2>1, <3>2
      <4>2. f \in First(n, RemovedParts, Call.dest, Call.prefix)
        BY <2>2, <4>1, AllPartsNamed DEF First
      <4>3. QED
        BY <1>4, <3>2, <4>2
    <3>3. IsGone(Call)'
      BY <3>1, <3>2 DEF IsGone
    <3>4. QED
      BY <1>1, <1>2, <2>1, <3>1, <3>3
         DEF TypeInv, StepFits, StepsOf, ConfigureFits, LibraryFits, RemoveFits, Runs
  <2>3. CASE n # Len(RemovedParts)
    BY <1>2, <1>4, <2>1, <2>3, AfterFails DEF TypeInv
  <2>4. QED
    BY <2>2, <2>3
<1>5. QED
  BY <1>3, <1>4 DEF Remove

LEMMA CleanKeeps ==
  IInv /\ Clean => IInv'
<1> SUFFICES ASSUME IInv, Clean PROVE IInv'
  OBVIOUS
<1> USE DEF IInv
<1>1. /\ step = "clean" /\ todo # <<>> /\ Call.cmd = "uninstall"
  BY CallOfStep DEF Clean
<1>2. /\ goal' = goal /\ installed' = installed /\ cache' \in Config \cup {None}
  BY DEF Clean, tests, TypeInv
<1>3. CASE Goes("loader")
  <2>1. /\ todo' \in Seq(Calls) /\ todo' = todo /\ Call' = Call /\ step' = "loader"
        /\ EndFits' /\ PackageFits'
    BY <1>1, <1>2, <1>3, AfterGoes
  <2>2. Call.uninstall => IsGone(Call)'
    BY <1>1, <1>2, <2>1 DEF RemoveFits, Runs, IsGone
  <2>3. QED
    BY <1>1, <1>2, <2>1, <2>2 DEF TypeInv, StepFits, StepsOf, ConfigureFits, LibraryFits, RemoveFits, Runs
<1>4. CASE Fails
  BY <1>2, <1>4, AfterFails DEF TypeInv
<1>5. QED
  BY <1>3, <1>4 DEF Clean

LEMMA UninstallLoaderKeeps ==
  IInv /\ UninstallLoader => IInv'
<1> SUFFICES ASSUME IInv, UninstallLoader PROVE IInv'
  OBVIOUS
<1> USE DEF IInv
<1>1. /\ step = "loader" /\ todo # <<>> /\ Call.cmd = "uninstall"
  BY CallOfStep DEF UninstallLoader
<1>2. goal' = goal /\ cache' = cache /\ installed' = installed
  BY DEF UninstallLoader, tests
<1>3. ASSUME Ends, Call.sudo => Ldconfig
      PROVE  IInv'
  <2>1. /\ todo' \in Seq(Calls) /\ last' = Call
        /\ StepFits' /\ ConfigureFits' /\ LibraryFits' /\ RemoveFits' /\ PackageFits'
    BY <1>1, <1>2, <1>3, AfterEnds
  <2>2. Call.uninstall => IsGone(Call)
    BY <1>1 DEF RemoveFits, Runs
  <2>3. ASSUME Call.uninstall, Call.sudo, Call.dest = None PROVE Call.prefix \notin loader'
    <3>1. <<None, Call.prefix, "so">> \notin installed
      BY <2>2, <2>3 DEF IsGone
    <3>2. QED
      BY <1>3, <2>3, <3>1 DEF Ldconfig
  <2>4. UninstallEnds(last)'
    BY <1>1, <1>2, <2>1, <2>2, <2>3 DEF UninstallEnds, IsGone
  <2>5. EndFits'
    BY <1>1, <2>1, <2>4 DEF EndFits, InstallEnds
  <2>6. QED
    BY <1>2, <2>1, <2>5 DEF TypeInv
<1>4. CASE Fails
  BY <1>2, <1>4, AfterFails DEF TypeInv
<1>5. QED
  BY <1>3, <1>4 DEF UninstallLoader

LEMMA TestKeeps ==
  IInv /\ (Test \/ Tidy) => IInv'
<1> SUFFICES ASSUME IInv, Test \/ Tidy PROVE IInv'
  OBVIOUS
<1> USE DEF IInv
<1>1. todo # <<>> /\ Call.cmd \in {"test", "tidy"}
  BY CallOfStep DEF Test, Tidy
<1>2. goal' = goal /\ cache' = cache /\ installed' = installed
  BY DEF Test, Tidy, disk
<1>3. CASE Ends
  <2>1. /\ todo' \in Seq(Calls) /\ last' = Call
        /\ StepFits' /\ ConfigureFits' /\ LibraryFits' /\ RemoveFits' /\ PackageFits'
    BY <1>1, <1>2, <1>3, AfterEnds
  <2>2. EndFits'
    BY <1>1, <2>1 DEF EndFits, InstallEnds, UninstallEnds
  <2>3. QED
    BY <1>2, <2>1, <2>2 DEF TypeInv
<1>4. CASE Fails
  BY <1>2, <1>4, AfterFails DEF TypeInv
<1>5. QED
  BY <1>3, <1>4 DEF Test, Tidy

LEMMA KindsApart ==
  /\ \A a \in TestAll : a \notin Package
  /\ None \notin Package
<1>1. ASSUME NEW a \in TestAll, a \in Package PROVE FALSE
  <2>1. "kind" \in DOMAIN a
    BY <1>1 DEF Package
  <2>2. "kind" \notin DOMAIN a
    BY <1>1 DEF TestAll
  <2>3. QED
    BY <2>1, <2>2
<1>2. QED
  BY <1>1, ScriptsAssumption

LEMMA RunsKeep ==
  IInv /\ (RunInstall \/ RunUninstall \/ RunTestAll \/ RunPackage) => IInv'
<1> SUFFICES ASSUME IInv, RunInstall \/ RunUninstall \/ RunTestAll \/ RunPackage PROVE IInv'
  OBVIOUS
<1> USE DEF IInv
<1>1. ASSUME NEW c \in InstallCalls \cup UninstallCalls, Starts(<<c>>), goal' = None, UNCHANGED disk PROVE IInv'
  <2>1. << c >> \in Seq(Calls)
    BY ScriptsAssumption DEF Calls
  <2>2. goal' \notin PackageCalls
    BY <1>1, KindsApart, ScriptsAssumption
  <2>3. QED
    BY <1>1, <2>1, <2>2, AfterStarts DEF TypeInv, disk
<1>2. ASSUME NEW a \in TestAllCalls, Starts(TestAllSteps(a)), goal' = a, UNCHANGED disk PROVE IInv'
  <2>1. TestAllSteps(a) \in Seq(Calls)
    BY TestAllTyped, ScriptsAssumption
  <2>2. goal' \notin PackageCalls
    BY <1>2, KindsApart, ScriptsAssumption
  <2>3. QED
    BY <1>2, <2>1, <2>2, AfterStarts DEF TypeInv, disk
<1>3. ASSUME NEW k \in PackageCalls, Starts(PackageSteps(k)), goal' = k,
             installed' = {f \in installed : f[1] # k.dest}, cache' = cache
      PROVE  IInv'
  <2>1. /\ PackageSteps(k) \in Seq(Calls)
        /\ \A i \in 1 .. Len(PackageSteps(k)) : Harmless(PackageSteps(k)[i], k)
    BY PackageTyped, ScriptsAssumption
  <2>2. QED
    BY <1>3, <2>1, AfterStarts DEF TypeInv
<1>4. QED
  BY <1>1, <1>2, <1>3 DEF RunInstall, RunUninstall, RunTestAll, RunPackage, PackageSteps

-----------------------------------------------------------------------------
\* The invariant holds from the start, and every command keeps it, be it that
\* it fails.
THEOREM ScriptsInvariance == Spec => []IInv
<1>1. Init => IInv
  BY DEF Init, IInv, TypeInv, StepFits, ConfigureFits, LibraryFits, RemoveFits, EndFits, PackageFits, Runs
<1>2. IInv /\ [Next]_vars => IInv'
  <2> SUFFICES ASSUME IInv, [Next]_vars PROVE IInv'
    OBVIOUS
  <2>1. CASE UNCHANGED vars
    <3>1. Call' = Call
      BY <2>1 DEF vars, Call
    <3>2. QED
      BY <2>1, <3>1 DEF vars, IInv, TypeInv, StepFits, ConfigureFits, LibraryFits, RemoveFits, EndFits,
                        PackageFits, Runs, AsAsked, HasLibrary, IsGone, InstallEnds, UninstallEnds
  <2>2. QED
    BY <2>1, ConfigureKeeps, MakeKeeps, MakeInstallKeeps, InstallLoaderKeeps, DeclinesKeeps, RemoveKeeps,
       CleanKeeps, UninstallLoaderKeeps, TestKeeps, RunsKeep DEF Next
<1>3. QED
  BY <1>1, <1>2, PTL DEF Spec

\* After an uninstall that has ended well nothing is left in its folder, whatever
\* installs and failures came before.
THEOREM NothingIsLeft == Spec => []UninstallRemovesAll
<1>1. IInv => UninstallRemovesAll
  BY DEF IInv, EndFits, UninstallEnds, IsGone, UninstallRemovesAll, Done
<1>2. QED
  BY <1>1, ScriptsInvariance, PTL

\* After an install that has configured and ended well, the folder asked for has
\* the kind of library asked for.
THEOREM InstallsWhatIsAsked == Spec => []InstalledAsAsked
<1>1. IInv => InstalledAsAsked
  BY DEF IInv, EndFits, InstallEnds, HasLibrary, AsAsked, InstalledAsAsked, Done, Libs
<1>2. QED
  BY <1>1, ScriptsInvariance, PTL

\* The dynamic loader knows what was installed with sudo, and has forgotten what
\* was uninstalled with it.
THEOREM LoaderFollows == Spec => []LoaderKnows
<1>1. IInv => LoaderKnows
  BY DEF IInv, EndFits, InstallEnds, UninstallEnds, LoaderKnows, Done
<1>2. QED
  BY <1>1, ScriptsInvariance, PTL

\* Making a package changes nothing outside of its DESTDIR.
THEOREM PackagesStayBelow == Spec => PackagingStaysBelow
<1> DEFINE A == goal' \in PackageCalls =>
       /\ {f \in installed' : f[1] # goal'.dest} = {f \in installed : f[1] # goal'.dest}
       /\ loader' = loader
<1>1. IInv /\ [Next]_vars => [A]_vars
  <2> SUFFICES ASSUME IInv, Next, goal' \in PackageCalls
               PROVE  /\ {f \in installed' : f[1] # goal'.dest} = {f \in installed : f[1] # goal'.dest}
                      /\ loader' = loader
    OBVIOUS
  <2>1. CASE RunInstall \/ RunUninstall \/ RunTestAll \/ Declines \/ Test \/ Tidy
    BY <2>1 DEF RunInstall, RunUninstall, RunTestAll, Declines, Test, Tidy, disk
  <2>2. CASE RunPackage
    BY <2>2 DEF RunPackage
  <2>3. CASE Configure \/ Make \/ Clean
    BY <2>3 DEF Configure, Make, Clean
  <2>4. CASE MakeInstall
    <3>1. Harmless(Call, goal) /\ Call.cmd = "install" /\ goal' = goal /\ loader' = loader
      BY <2>4, CallOfStep DEF MakeInstall, tests
    <3>2. CASE UNCHANGED installed
      BY <3>1, <3>2
    <3>3. ASSUME Call.install, NEW n \in 0 .. Len(InstallRules(cache)),
                 installed' = installed \cup First(n, InstallRules(cache), Call.dest, cache.prefix)
          PROVE  {f \in installed' : f[1] # goal.dest} = {f \in installed : f[1] # goal.dest}
      <4>1. \A f \in First(n, InstallRules(cache), Call.dest, cache.prefix) : f[1] = goal.dest
        BY <3>1, <3>3 DEF First, Harmless
      <4>2. QED
        BY <3>3, <4>1
    <3>4. QED
      BY <2>4, <3>1, <3>2, <3>3 DEF MakeInstall
  <2>5. CASE Remove
    <3>1. Harmless(Call, goal) /\ Call.cmd = "uninstall" /\ goal' = goal /\ loader' = loader
      BY <2>5, CallOfStep DEF Remove, tests
    <3>2. QED
      BY <2>5, <3>1 DEF Remove, Harmless
  <2>6. CASE InstallLoader \/ UninstallLoader
    <3>1. goal' = goal /\ installed' = installed /\ step # "none"
      BY <2>6 DEF InstallLoader, UninstallLoader, tests
    <3>2. ~Call.sudo
      BY <3>1, CallOfStep DEF Harmless
    <3>3. QED
      BY <2>6, <3>1, <3>2 DEF InstallLoader, UninstallLoader
  <2>7. QED
    BY <2>1, <2>2, <2>3, <2>4, <2>5, <2>6 DEF Next
<1>2. QED
  BY <1>1, ScriptsInvariance, PTL DEF Spec, PackagingStaysBelow

-----------------------------------------------------------------------------
\* The builds of packages.

\* What cmake's cache says once a package has configured.
Ready(k) ==
  /\ cache # None /\ cache.shared /\ ~cache.docs
  /\ cache.type = "Release" /\ cache.prefix = k.prefix

\* The calls of a package that is not yet configured.
Configures(s, from) == \E i \in from .. Len(s) : s[i].cmd = "install" /\ s[i].configure

\* The calls that a package makes: only the last one installs, and a configuration
\* follows whatever cleans.
Ordered(s, k) ==
  \A i \in 1 .. Len(s) :
    /\ s[i].cmd \in {"install", "uninstall"}
    /\ s[i].cmd = "install" => /\ s[i].static = "Off" /\ s[i].docs = "Off"
                               /\ s[i].type = "Release" /\ s[i].prefix = k.prefix
                               /\ s[i].install = (i = Len(s))
    /\ s[i].cmd = "uninstall" => ~s[i].uninstall /\ Configures(s, i + 1)

\* What is below a package's DESTDIR, and what is to be there in the end.
Below(k) == {f \in installed : f[1] = k.dest}

Complete(k) ==
  /\ Below(k) = {<<k.dest, k.prefix, part>> : part \in {"so", "headers", "pc"}}
  /\ built.type = "Release"

\* A package that installs has configured before, and nothing is below its DESTDIR
\* until its last call has put everything there.
CompleteFits ==
  goal \in PackageCalls =>
    /\ Ordered(todo, goal)
    /\ todo # <<>> => Ready(goal) \/ Configures(todo, IF step = "configure" \/ Runs("uninstall") THEN 1 ELSE 2)
    /\ (todo # <<>> /\ ~(Runs("install") /\ step = "loader")) => Below(goal) = {}
    /\ (Runs("install") /\ step = "loader") => Len(todo) = 1 /\ Complete(goal)
    /\ (todo = <<>> /\ last # None) => Complete(goal)

-----------------------------------------------------------------------------
LEMMA TailOf ==
  ASSUME NEW T, NEW s \in Seq(T), s # <<>>
  PROVE  /\ Tail(s) \in Seq(T) /\ Len(s) \in Nat \ {0} /\ Len(Tail(s)) = Len(s) - 1
         /\ \A i \in 1 .. Len(Tail(s)) : i + 1 \in 1 .. Len(s) /\ Tail(s)[i] = s[i + 1]
OBVIOUS

LEMMA ConfiguresTail ==
  ASSUME NEW T, NEW s \in Seq(T), s # <<>>, NEW from \in Nat \ {0}, Configures(s, from + 1)
  PROVE  Tail(s) # <<>> /\ Configures(Tail(s), from)
<1>1. PICK i \in from + 1 .. Len(s) : s[i].cmd = "install" /\ s[i].configure
  BY DEF Configures
<1>2. /\ Len(s) \in Nat \ {0} /\ Len(Tail(s)) = Len(s) - 1 /\ Tail(s) \in Seq(T)
      /\ \A j \in 1 .. Len(Tail(s)) : Tail(s)[j] = s[j + 1]
  BY TailOf
<1>3. i - 1 \in from .. Len(Tail(s)) /\ i - 1 \in 1 .. Len(Tail(s)) /\ (i - 1) + 1 = i
  BY <1>1, <1>2
<1>4. Tail(s)[i - 1] = s[i]
  BY <1>2, <1>3
<1>5. PICK j \in from .. Len(Tail(s)) : Tail(s)[j] = s[i]
  BY <1>3, <1>4
<1>6. Configures(Tail(s), from)
  BY <1>1, <1>5 DEF Configures
<1>7. Tail(s) # <<>>
  <2>1. Len(Tail(s)) # 0
    BY <1>2, <1>3
  <2>2. \A q : q = <<>> => Len(q) = 0
    OBVIOUS
  <2>3. QED
    BY Zenon, <2>1, <2>2
<1>8. QED
  BY <1>6, <1>7

LEMMA OrderedTail ==
  ASSUME NEW s \in Seq(Calls), NEW k, s # <<>>, Ordered(s, k)
  PROVE  Ordered(Tail(s), k)
<1>1. /\ Len(s) \in Nat \ {0} /\ Len(Tail(s)) = Len(s) - 1
      /\ \A i \in 1 .. Len(Tail(s)) : i + 1 \in 1 .. Len(s) /\ Tail(s)[i] = s[i + 1]
  BY TailOf
<1>2. ASSUME NEW i \in 1 .. Len(Tail(s)), Tail(s)[i].cmd = "uninstall"
      PROVE  Configures(Tail(s), i + 1)
  <2>1. Configures(s, (i + 1) + 1)
    BY <1>1, <1>2 DEF Ordered
  <2>2. i + 1 \in Nat \ {0}
    OBVIOUS
  <2>3. QED
    BY <2>1, <2>2, ConfiguresTail
<1>3. \A i \in 1 .. Len(Tail(s)) : i = Len(Tail(s)) <=> i + 1 = Len(s)
  BY <1>1
<1>4. ASSUME NEW i \in 1 .. Len(Tail(s))
      PROVE  /\ Tail(s)[i].cmd \in {"install", "uninstall"}
             /\ Tail(s)[i].cmd = "install" => /\ Tail(s)[i].static = "Off" /\ Tail(s)[i].docs = "Off"
                                             /\ Tail(s)[i].type = "Release" /\ Tail(s)[i].prefix = k.prefix
                                             /\ Tail(s)[i].install = (i = Len(Tail(s)))
             /\ Tail(s)[i].cmd = "uninstall" => ~Tail(s)[i].uninstall
  <2>1. PICK c : c = s[i + 1]
    OBVIOUS
  <2>2. /\ c.cmd \in {"install", "uninstall"}
        /\ c.cmd = "install" => /\ c.static = "Off" /\ c.docs = "Off" /\ c.type = "Release"
                                /\ c.prefix = k.prefix /\ c.install = (i + 1 = Len(s))
        /\ c.cmd = "uninstall" => ~c.uninstall
    BY <1>1, <2>1 DEF Ordered
  <2>3. Tail(s)[i] = c
    BY <1>1, <2>1
  <2>4. (i + 1 = Len(s)) = (i = Len(Tail(s)))
    BY <1>1
  <2>5. QED
    BY <2>2, <2>3, <2>4
<1>5. QED
  BY <1>2, <1>4 DEF Ordered

LEMMA FailsComplete ==
  Fails => CompleteFits'
BY DEF Fails, CompleteFits, Ordered, Runs

LEMMA ConfigureCompletes ==
  IInv /\ CompleteFits /\ Configure => CompleteFits'
<1> SUFFICES ASSUME IInv, CompleteFits, Configure, goal \in PackageCalls, goal' = goal PROVE CompleteFits'
  BY DEF Configure, tests, CompleteFits
<1>1. /\ step = "configure" /\ todo # <<>> /\ Call.cmd = "install" /\ Call \in Install
  BY CallOfStep DEF Configure
<1>2. /\ todo \in Seq(Calls) /\ Len(todo) \in Nat \ {0} /\ Call = todo[1] /\ cache \in Config \cup {None}
  BY <1>1, HeadAndTail DEF IInv, TypeInv
<1>3. CASE Goes("make")
  <2>1. todo' = todo /\ step' = "make" /\ Below(goal)' = Below(goal) /\ Call' = Call
    BY <1>3 DEF Goes, Configure, Below, Call
  <2>2. Ready(goal)' \/ Configures(todo, 2)
    <3>1. CASE ~Call.configure /\ cache' = cache
      <4>1. CASE Ready(goal)
        BY <3>1, <4>1 DEF Ready
      <4>2. CASE Configures(todo, 1)
        <5>1. PICK i \in 1 .. Len(todo) : todo[i].cmd = "install" /\ todo[i].configure
          BY <4>2 DEF Configures
        <5>2. i \in 2 .. Len(todo)
          BY <1>2, <3>1, <5>1
        <5>3. QED
          BY <5>1, <5>2 DEF Configures
      <4>3. QED
        BY <1>1, <4>1, <4>2 DEF CompleteFits
    <3>2. CASE cache' = Configured(Call)
      <4>1. /\ Call.static = "Off" /\ Call.docs = "Off" /\ Call.type = "Release" /\ Call.prefix = goal.prefix
        BY <1>1, <1>2 DEF CompleteFits, Ordered
      <4>2. Configured(Call) # None
        BY <1>1, <1>2, ConfiguredTyped
      <4>3. /\ Configured(Call).shared = (Call.static = "Off") /\ Configured(Call).docs = (Call.docs = "On")
            /\ Configured(Call).type = Call.type /\ Configured(Call).prefix = Call.prefix
        BY <4>1 DEF Configured, Options, Chosen
      <4>4. QED
        BY <3>2, <4>1, <4>2, <4>3 DEF Ready
    <3>3. QED
      BY <1>1, <1>3, <3>1, <3>2 DEF Configure, Goes, Fails
  <2>3. QED
    BY <1>1, <2>1, <2>2 DEF CompleteFits, Runs
<1>4. CASE Fails
  BY <1>4, FailsComplete
<1>5. QED
  BY <1>3, <1>4 DEF Configure

LEMMA EmptyTail ==
  ASSUME NEW T, NEW s \in Seq(T), Len(s) = 1
  PROVE  Tail(s) = <<>>
<1>1. \A q : q = <<>> => Len(q) = 0
  OBVIOUS
<1>2. s # <<>>
  <2>1. Len(s) # 0
    OBVIOUS
  <2>2. QED
    BY Zenon, <1>1, <2>1
<1>3. Tail(s) \in Seq(T) /\ Len(Tail(s)) = 0
  BY <1>2, TailOf
<1>4. QED
  BY <1>3, EmptySeq

\* The call that a package is in.
LEMMA HeadOrdered ==
  ASSUME IInv, CompleteFits, goal \in PackageCalls, todo # <<>>
  PROVE  /\ todo \in Seq(Calls) /\ Len(todo) \in Nat \ {0} /\ Call = todo[1]
         /\ Call.cmd \in {"install", "uninstall"}
         /\ Call.cmd = "install" => /\ Call.static = "Off" /\ Call.docs = "Off" /\ Call.type = "Release"
                                    /\ Call.prefix = goal.prefix /\ Call.install = (Len(todo) = 1)
         /\ Call.cmd = "uninstall" => ~Call.uninstall /\ Configures(todo, 2)
<1>1. todo \in Seq(Calls) /\ Len(todo) \in Nat \ {0} /\ Call = todo[1]
  BY HeadAndTail DEF IInv, TypeInv
<1>2. Ordered(todo, goal)
  BY DEF CompleteFits
<1>3. 1 \in 1 .. Len(todo) /\ 1 + 1 = 2 /\ (1 = Len(todo)) = (Len(todo) = 1)
  BY <1>1
<1>4. QED
  BY <1>1, <1>2, <1>3 DEF Ordered

\* A command that goes on with the same call and changes neither an installed
\* file nor the configuration.
LEMMA GoesComplete ==
  ASSUME IInv, CompleteFits, todo # <<>>, NEW to, to \notin {"configure", "loader"}, Goes(to),
         step \notin {"configure", "loader"}, goal' = goal, installed' = installed, cache' = cache
  PROVE  CompleteFits'
<1> SUFFICES ASSUME goal \in PackageCalls, goal' = goal PROVE CompleteFits'
  BY DEF CompleteFits
<1>1. todo' = todo /\ step' = to /\ last' = last /\ Call' = Call
  BY DEF Goes, Call
<1>2. Below(goal)' = Below(goal) /\ (Ready(goal) => Ready(goal)')
  BY DEF Below, Ready
<1>3. /\ Ordered(todo, goal) /\ Below(goal) = {}
      /\ Ready(goal) \/ Configures(todo, IF Runs("uninstall") THEN 1 ELSE 2)
  BY DEF CompleteFits
<1>4. Ready(goal)' \/ Configures(todo, IF Runs("uninstall")' THEN 1 ELSE 2)
  <2>1. Runs("uninstall")' = Runs("uninstall")
    BY <1>1 DEF Runs
  <2>2. CASE Runs("uninstall")
    BY <1>2, <1>3, <2>1, <2>2
  <2>3. CASE ~Runs("uninstall")
    BY <1>2, <1>3, <2>1, <2>3
  <2>4. QED
    BY <2>2, <2>3
<1>5. QED
  BY <1>1, <1>2, <1>3, <1>4 DEF CompleteFits, Runs

\* A call that ends with others left to make.
LEMMA NextComplete ==
  ASSUME IInv, CompleteFits, goal \in PackageCalls, todo # <<>>, Tail(todo) # <<>>, Ends,
         goal' = goal, installed' = installed, Below(goal) = {},
         Ready(goal)' \/ Configures(Tail(todo), 1)
  PROVE  CompleteFits'
<1>1. todo' = Tail(todo) /\ step' = At(todo') /\ todo \in Seq(Calls) /\ todo' # <<>> /\ todo' \in Seq(Calls)
  BY HeadAndTail DEF Ends, IInv, TypeInv
<1>2. Ordered(todo', goal)
  BY <1>1, OrderedTail DEF CompleteFits
<1>3. Call' = todo'[1] /\ Len(todo') \in Nat \ {0} /\ 1 \in 1 .. Len(todo')
  BY <1>1 DEF Call
<1>4. Call'.cmd \in {"install", "uninstall"} /\ step' = FirstStep[Call'.cmd]
  BY <1>1, <1>2, <1>3 DEF Ordered, At, Call
<1>5. step' # "loader" /\ (step' = "configure" \/ Runs("uninstall")')
  BY <1>1, <1>4 DEF FirstStep, Runs
<1>6. Below(goal)' = {}
  BY DEF Below
<1>7. QED
  BY <1>1, <1>2, <1>5, <1>6 DEF CompleteFits

LEMMA MakeCompletes ==
  IInv /\ CompleteFits /\ Make => CompleteFits'
<1> SUFFICES ASSUME IInv, CompleteFits, Make PROVE CompleteFits'
  OBVIOUS
<1>1. step = "make" /\ todo # <<>> /\ goal' = goal /\ installed' = installed /\ cache' = cache
  BY CallOfStep DEF Make, tests
<1>2. Goes("install") \/ Fails
  BY DEF Make
<1>3. QED
  BY <1>1, <1>2, GoesComplete, FailsComplete

LEMMA UninstallCompletes ==
  IInv /\ CompleteFits /\ (Declines \/ Remove) => CompleteFits'
<1> SUFFICES ASSUME IInv, CompleteFits, Declines \/ Remove, goal \in PackageCalls, goal' = goal
             PROVE CompleteFits'
  BY DEF CompleteFits, Declines, Remove, tests
<1>1. CASE Declines
  BY <1>1, FailsComplete DEF Declines
<1>2. CASE Remove
  <2>1. step = "remove" /\ todo # <<>> /\ Call.cmd = "uninstall"
    BY <1>2, CallOfStep DEF Remove
  <2>2. ~Call.uninstall
    BY <2>1, HeadOrdered
  <2>3. Goes("clean") /\ installed' = installed /\ cache' = cache
    BY <1>2, <2>2 DEF Remove
  <2>4. QED
    BY <2>1, <2>3, GoesComplete
<1>3. QED
  BY <1>1, <1>2

LEMMA CleanCompletes ==
  IInv /\ CompleteFits /\ Clean => CompleteFits'
<1> SUFFICES ASSUME IInv, CompleteFits, Clean, goal \in PackageCalls, goal' = goal PROVE CompleteFits'
  BY DEF CompleteFits, Clean, tests
<1>1. step = "clean" /\ todo # <<>> /\ Call.cmd = "uninstall" /\ installed' = installed
  BY CallOfStep DEF Clean
<1>2. CASE Goes("loader")
  <2>1. todo' = todo /\ step' = "loader" /\ Call' = Call /\ Below(goal)' = Below(goal)
    BY <1>1, <1>2 DEF Goes, Call, Below
  <2>2. Configures(todo, 2)
    BY <1>1, HeadOrdered
  <2>3. Configures(todo, 1)
    BY <2>2 DEF Configures
  <2>4. Runs("uninstall")' /\ ~Runs("install")'
    BY <1>1, <2>1 DEF Runs
  <2>5. Below(goal) = {} /\ Ordered(todo, goal)
    BY <1>1 DEF CompleteFits, Runs
  <2>6. QED
    BY <1>1, <2>1, <2>3, <2>4, <2>5 DEF CompleteFits
<1>3. QED
  BY <1>2, FailsComplete DEF Clean

LEMMA UninstallLoaderCompletes ==
  IInv /\ CompleteFits /\ UninstallLoader => CompleteFits'
<1> SUFFICES ASSUME IInv, CompleteFits, UninstallLoader, goal \in PackageCalls, goal' = goal
             PROVE CompleteFits'
  BY DEF CompleteFits, UninstallLoader, tests
<1>1. step = "loader" /\ todo # <<>> /\ Call.cmd = "uninstall" /\ installed' = installed
  BY CallOfStep DEF UninstallLoader
<1>2. CASE Ends
  <2>1. Configures(todo, 1 + 1) /\ todo \in Seq(Calls)
    BY <1>1, HeadOrdered
  <2>2. Tail(todo) # <<>> /\ Configures(Tail(todo), 1)
    BY <1>1, <2>1, ConfiguresTail
  <2>3. Below(goal) = {}
    BY <1>1 DEF CompleteFits, Runs
  <2>4. QED
    BY <1>1, <1>2, <2>2, <2>3, NextComplete
<1>3. QED
  BY <1>2, FailsComplete DEF UninstallLoader

\* What make install puts into place for a configuration that is ready.
LEMMA RulesOfPackage ==
  ASSUME NEW k, Ready(k)
  PROVE  /\ Len(InstallRules(cache)) = 3
         /\ \A dest, prefix : First(3, InstallRules(cache), dest, prefix)
                                = {<<dest, prefix, part>> : part \in {"so", "headers", "pc"}}
<1>1. InstallRules(cache) = <<"so", "headers", "pc">>
  BY DEF Ready, InstallRules
<1>2. PICK r : r = <<"so", "headers", "pc">>
  OBVIOUS
<1>3. Len(r) = 3 /\ r[1] = "so" /\ r[2] = "headers" /\ r[3] = "pc"
  BY <1>2
<1>4. 1 .. 3 = {1, 2, 3}
  OBVIOUS
<1>5. ASSUME NEW dest, NEW prefix
      PROVE  First(3, r, dest, prefix) = {<<dest, prefix, part>> : part \in {"so", "headers", "pc"}}
  BY <1>3, <1>4 DEF First
<1>6. QED
  BY <1>1, <1>2, <1>3, <1>5

LEMMA MakeInstallCompletes ==
  IInv /\ CompleteFits /\ MakeInstall => CompleteFits'
<1> SUFFICES ASSUME IInv, CompleteFits, MakeInstall, goal \in PackageCalls, goal' = goal
             PROVE CompleteFits'
  BY DEF CompleteFits, MakeInstall, tests
<1>1. step = "install" /\ todo # <<>> /\ Call.cmd = "install" /\ cache' = cache
  BY CallOfStep DEF MakeInstall
<1>2. /\ todo \in Seq(Calls) /\ Len(todo) \in Nat \ {0} /\ Call.prefix = goal.prefix
      /\ Call.install = (Len(todo) = 1)
  BY <1>1, HeadOrdered
<1>3. Below(goal) = {} /\ (Ready(goal) \/ Configures(todo, 1 + 1))
  BY <1>1 DEF CompleteFits, Runs
<1>4. CASE ~Call.install /\ Ends /\ installed' = installed
  <2>1. Tail(todo) # <<>>
    <3>1. Len(todo) # 1 /\ Len(Tail(todo)) = Len(todo) - 1
      BY <1>1, <1>2, <1>4, TailOf
    <3>2. \A q : q = <<>> => Len(q) = 0
      OBVIOUS
    <3>3. Len(Tail(todo)) # 0
      BY <1>2, <3>1
    <3>4. QED
      BY Zenon, <3>2, <3>3
  <2>2. Ready(goal) => Ready(goal)'
    BY <1>1 DEF Ready
  <2>3. Configures(todo, 1 + 1) => Configures(Tail(todo), 1)
    BY <1>1, <1>2, ConfiguresTail
  <2>4. QED
    BY <1>1, <1>3, <1>4, <2>1, <2>2, <2>3, NextComplete
<1>5. CASE Fails
  BY <1>5, FailsComplete
<1>6. ASSUME Call.install, built' = cache, Goes("loader"),
             installed' = installed \cup First(Len(InstallRules(cache)), InstallRules(cache), Call.dest, cache.prefix)
      PROVE  CompleteFits'
  <2>1. Len(todo) = 1
    BY <1>2, <1>6
  <2>2. ~Configures(todo, 1 + 1)
    BY <2>1 DEF Configures
  <2>3. Ready(goal) /\ cache.prefix = goal.prefix /\ cache.type = "Release"
    BY <1>3, <2>2 DEF Ready
  <2>4. Call.dest = goal.dest
    BY <1>1, <1>6, CallOfStep DEF Harmless
  <2>5. installed' = installed \cup {<<goal.dest, goal.prefix, part>> : part \in {"so", "headers", "pc"}}
    <3>1. /\ Len(InstallRules(cache)) = 3
          /\ First(3, InstallRules(cache), goal.dest, goal.prefix)
               = {<<goal.dest, goal.prefix, part>> : part \in {"so", "headers", "pc"}}
      BY <2>3, RulesOfPackage
    <3>2. installed' = installed \cup First(3, InstallRules(cache), goal.dest, goal.prefix)
      BY Zenon, <1>6, <2>3, <2>4, <3>1
    <3>3. QED
      BY Zenon, <3>1, <3>2
  <2>6. Below(goal)' = {<<goal.dest, goal.prefix, part>> : part \in {"so", "headers", "pc"}}
    BY <1>3, <2>5 DEF Below
  <2>7. Complete(goal)'
    BY <1>6, <2>3, <2>6 DEF Complete
  <2>8. todo' = todo /\ step' = "loader" /\ Runs("install")' /\ Ready(goal)'
    BY <1>1, <1>6, <2>3 DEF Goes, Runs, Call, Ready
  <2>9. QED
    BY <1>1, <2>1, <2>7, <2>8 DEF CompleteFits
<1>7. QED
  BY <1>4, <1>5, <1>6 DEF MakeInstall

LEMMA InstallLoaderCompletes ==
  IInv /\ CompleteFits /\ InstallLoader => CompleteFits'
<1> SUFFICES ASSUME IInv, CompleteFits, InstallLoader, goal \in PackageCalls, goal' = goal
             PROVE CompleteFits'
  BY DEF CompleteFits, InstallLoader, tests
<1>1. /\ step = "loader" /\ todo # <<>> /\ Call.cmd = "install"
      /\ installed' = installed /\ built' = built
  BY CallOfStep DEF InstallLoader
<1>2. Len(todo) = 1 /\ Complete(goal) /\ Ordered(todo, goal) /\ todo \in Seq(Calls)
  BY <1>1 DEF CompleteFits, Runs, IInv, TypeInv
<1>3. CASE Ends
  <2>1. todo' = <<>> /\ step' = "none"
    BY <1>1, <1>2, <1>3, EmptyTail DEF Ends, At
  <2>2. Complete(goal)'
    BY <1>1, <1>2 DEF Complete, Below
  <2>3. QED
    BY <2>1, <2>2 DEF CompleteFits, Ordered, Runs
<1>4. QED
  BY <1>3, FailsComplete DEF InstallLoader

LEMMA NoTestOfPackage ==
  ASSUME IInv, CompleteFits, Test \/ Tidy
  PROVE  goal \notin PackageCalls
<1> SUFFICES ASSUME goal \in PackageCalls PROVE FALSE
  OBVIOUS
<1>1. todo # <<>> /\ Call.cmd \in {"test", "tidy"}
  BY CallOfStep DEF Test, Tidy
<1>2. QED
  BY <1>1, HeadOrdered

LEMMA TwoOf ==
  ASSUME NEW T, NEW s \in Seq(T), NEW d \in T
  PROVE  /\ s \o <<d>> \in Seq(T) /\ Len(s \o <<d>>) = Len(s) + 1
         /\ (s \o <<d>>)[Len(s) + 1] = d
         /\ \A i \in 1 .. Len(s) : (s \o <<d>>)[i] = s[i]
<1>1. <<d>> \in Seq(T) /\ Len(<<d>>) = 1 /\ <<d>>[1] = d
  OBVIOUS
<1>2. PICK e \in Seq(T) : e = <<d>>
  BY <1>1
<1>3. Len(s) \in Nat
  OBVIOUS
<1>4. /\ s \o e \in Seq(T) /\ Len(s \o e) = Len(s) + Len(e)
      /\ \A i \in 1 .. Len(s) + Len(e) : (s \o e)[i] = IF i <= Len(s) THEN s[i] ELSE e[i - Len(s)]
  BY ConcatProperties
<1>5. Len(e) = 1 /\ e[1] = d
  BY <1>1, <1>2
<1>6. QED
  BY <1>2, <1>3, <1>4, <1>5

LEMMA JoinedTwo ==
  ASSUME NEW c, NEW d
  PROVE  Len(<<c>> \o <<d>>) = 2 /\ (<<c>> \o <<d>>)[1] = c /\ (<<c>> \o <<d>>)[2] = d
<1> DEFINE T == {c, d}
<1>1. c \in T /\ d \in T
  OBVIOUS
<1> HIDE DEF T
<1>2. <<c>> \in Seq(T) /\ Len(<<c>>) = 1 /\ <<c>>[1] = c
  BY <1>1
<1>3. PICK c1 \in Seq(T) : c1 = <<c>>
  BY <1>2
<1>4. Len(c1) = 1 /\ c1[1] = c
  BY <1>2, <1>3
<1>5. /\ Len(c1 \o <<d>>) = Len(c1) + 1 /\ (c1 \o <<d>>)[Len(c1) + 1] = d
      /\ \A i \in 1 .. Len(c1) : (c1 \o <<d>>)[i] = c1[i]
  BY <1>1, TwoOf
<1>6. Len(c1 \o <<d>>) = 2 /\ (c1 \o <<d>>)[1] = c /\ (c1 \o <<d>>)[2] = d
  BY <1>4, <1>5
<1>7. QED
  BY Zenon, <1>3, <1>6

LEMMA JoinedFour ==
  ASSUME NEW u, NEW c, NEW m, NEW d, NEW s, s = <<u>> \o <<c>> \o <<m>> \o <<d>>
  PROVE  Len(s) = 4 /\ s[1] = u /\ s[2] = c /\ s[3] = m /\ s[4] = d
<1> DEFINE T == {u, c, m, d}
<1>1. u \in T /\ c \in T /\ m \in T /\ d \in T
  OBVIOUS
<1> HIDE DEF T
<1>2. <<u>> \in Seq(T) /\ <<c>> \in Seq(T)
  BY <1>1
<1>3. PICK s2 : s2 = <<u>> \o <<c>>
  OBVIOUS
<1>4. s2 \in Seq(T)
  BY <1>2, <1>3, JoinTyped
<1>5. Len(s2) = 2 /\ s2[1] = u /\ s2[2] = c
  BY Zenon, <1>3, JoinedTwo
<1>6. PICK s3 : s3 = s2 \o <<m>>
  OBVIOUS
<1>7. /\ s3 \in Seq(T) /\ Len(s3) = Len(s2) + 1 /\ s3[Len(s2) + 1] = m
      /\ \A i \in 1 .. Len(s2) : s3[i] = s2[i]
  BY <1>1, <1>4, <1>6, TwoOf
<1>8. Len(s3) = 3 /\ s3[1] = u /\ s3[2] = c /\ s3[3] = m
  BY <1>5, <1>7
<1>9. PICK s4 : s4 = s3 \o <<d>>
  OBVIOUS
<1>10. /\ Len(s4) = Len(s3) + 1 /\ s4[Len(s3) + 1] = d
       /\ \A i \in 1 .. Len(s3) : s4[i] = s3[i]
  BY <1>1, <1>7, <1>9, TwoOf
<1>11. Len(s4) = 4 /\ s4[1] = u /\ s4[2] = c /\ s4[3] = m /\ s4[4] = d
  BY <1>8, <1>10
<1>12. s = s4
  BY Zenon, <1>3, <1>6, <1>9
<1>13. QED
  BY Zenon, <1>11, <1>12

\* A call of install_fspropfaker-all.py for a package.
Packs(c, k, configures, installs) ==
  /\ c.cmd = "install" /\ c.static = "Off" /\ c.docs = "Off" /\ c.type = "Release" /\ c.prefix = k.prefix
  /\ c.configure = configures /\ c.install = installs

LEMMA PackageCallsAre ==
  ASSUME NEW k
  PROVE  /\ \A stages : Packs(PkInstall(k, stages)[1], k, "configure" \in stages, "install" \in stages)
         /\ \A stages : PkInstall(k, stages) = << PkInstall(k, stages)[1] >>
         /\ Packs(DdInstall(k)[1], k, FALSE, TRUE)
         /\ DdInstall(k) = << DdInstall(k)[1] >>
         /\ RulesClean(k) = << RulesClean(k)[1] >>
         /\ RulesClean(k)[1].cmd = "uninstall" /\ ~RulesClean(k)[1].uninstall
<1>1. ASSUME NEW stages
      PROVE  Packs(PkInstall(k, stages)[1], k, "configure" \in stages, "install" \in stages)
  BY DEF PkInstall, Packs
<1>2. \A stages : PkInstall(k, stages) = << PkInstall(k, stages)[1] >>
  BY DEF PkInstall
<1>3. Packs([PkInstall(k, {"install"})[1] EXCEPT !.dest = k.dest], k, FALSE, TRUE)
  <2>1. PICK stages : stages = {"install"}
    OBVIOUS
  <2>2. PICK f : f = ("configure" \in stages)
    OBVIOUS
  <2>3. PICK g : g = ("make" \in stages)
    OBVIOUS
  <2>4. PICK h : h = ("install" \in stages)
    OBVIOUS
  <2>5. f = FALSE /\ h = TRUE
    <3>1. ("configure" \in {"install"}) = FALSE /\ ("install" \in {"install"}) = TRUE
      OBVIOUS
    <3>2. QED
      BY Zenon, <2>1, <2>2, <2>4, <3>1
  <2>6. PICK e : e = [cmd |-> "install", static |-> "Off", docs |-> "Off", type |-> "Release", dest |-> None,
                      prefix |-> k.prefix, configure |-> f, make |-> g, install |-> h,
                      sudo |-> FALSE, sanitize |-> FALSE]
    OBVIOUS
  <2>7. PkInstall(k, stages)[1] = e
    BY <2>2, <2>3, <2>4, <2>6 DEF PkInstall
  <2>8. Packs([e EXCEPT !.dest = k.dest], k, f, h)
    BY <2>6 DEF Packs
  <2>9. QED
    BY <2>1, <2>5, <2>7, <2>8
<1>4. DdInstall(k)[1] = [PkInstall(k, {"install"})[1] EXCEPT !.dest = k.dest]
  BY DEF DdInstall
<1>5. DdInstall(k) = << DdInstall(k)[1] >>
  BY DEF DdInstall
<1>6. RulesClean(k) = << RulesClean(k)[1] >>
  BY DEF RulesClean
<1>7. RulesClean(k)[1].cmd = "uninstall" /\ ~RulesClean(k)[1].uninstall
  BY DEF RulesClean
<1>8. QED
  BY <1>1, <1>2, <1>3, <1>4, <1>5, <1>6, <1>7

LEMMA RulesConfigure ==
  ASSUME NEW k
  PROVE  Ordered(Rules(k), k) /\ Configures(Rules(k), 1) /\ Rules(k) # <<>>
<1>1. PICK u : u = RulesClean(k)[1]
  OBVIOUS
<1>2. PICK c : c = PkInstall(k, {"configure"})[1]
  OBVIOUS
<1>3. PICK m : m = PkInstall(k, {"make"})[1]
  OBVIOUS
<1>4. PICK d : d = DdInstall(k)[1]
  OBVIOUS
<1>5. /\ u.cmd = "uninstall" /\ ~u.uninstall /\ Packs(c, k, TRUE, FALSE)
      /\ Packs(m, k, FALSE, FALSE) /\ Packs(d, k, FALSE, TRUE)
  <2>1. /\ ("configure" \in {"configure"}) = TRUE /\ ("install" \in {"configure"}) = FALSE
        /\ ("configure" \in {"make"}) = FALSE /\ ("install" \in {"make"}) = FALSE
    OBVIOUS
  <2>2. Packs(c, k, "configure" \in {"configure"}, "install" \in {"configure"})
    BY <1>2, PackageCallsAre
  <2>3. Packs(m, k, "configure" \in {"make"}, "install" \in {"make"})
    BY <1>3, PackageCallsAre
  <2>4. QED
    BY <1>1, <1>4, <2>1, <2>2, <2>3, PackageCallsAre
<1>6. Rules(k) = <<u>> \o <<c>> \o <<m>> \o <<d>>
  BY <1>1, <1>2, <1>3, <1>4, PackageCallsAre DEF Rules
<1>7. PICK s : s = Rules(k)
  OBVIOUS
<1>8. Len(s) = 4 /\ s[1] = u /\ s[2] = c /\ s[3] = m /\ s[4] = d
  <2>1. s = <<u>> \o <<c>> \o <<m>> \o <<d>>
    BY Zenon, <1>6, <1>7
  <2>2. QED
    BY <2>1, JoinedFour
<1>9. Len(s) = 4 /\ s[1] = u /\ s[2] = c /\ s[3] = m /\ s[4] = d /\ s # <<>>
  <2>1. \A q : q = <<>> => Len(q) = 0
    OBVIOUS
  <2>2. 4 # 0
    OBVIOUS
  <2>3. QED
    BY Zenon, <1>8, <2>1, <2>2
<1>10. \A from \in {1, 2} : Configures(s, from)
  <2> TAKE from \in {1, 2}
  <2>1. 2 \in from .. Len(s) /\ s[2].cmd = "install" /\ s[2].configure
    BY <1>5, <1>9 DEF Packs
  <2>2. QED
    BY <2>1 DEF Configures
<1>11. Ordered(s, k)
  <2> SUFFICES ASSUME NEW i \in 1 .. Len(s)
               PROVE  /\ s[i].cmd \in {"install", "uninstall"}
                      /\ s[i].cmd = "install" => /\ s[i].static = "Off" /\ s[i].docs = "Off"
                                                 /\ s[i].type = "Release" /\ s[i].prefix = k.prefix
                                                 /\ s[i].install = (i = Len(s))
                      /\ s[i].cmd = "uninstall" => ~s[i].uninstall /\ Configures(s, i + 1)
    BY DEF Ordered
  <2>1. i \in {1, 2, 3, 4}
    BY <1>9
  <2>2. CASE i = 1
    BY <1>5, <1>9, <1>10, <2>2
  <2>3. CASE i \in {2, 3}
    <3>1. s[i].install = FALSE /\ (i = Len(s)) = FALSE
      BY <1>5, <1>9, <2>3 DEF Packs
    <3>2. QED
      BY <1>5, <1>9, <2>3, <3>1 DEF Packs
  <2>4. CASE i = 4
    <3>1. s[i].install = TRUE /\ (i = Len(s)) = TRUE
      BY <1>5, <1>9, <2>4 DEF Packs
    <3>2. QED
      BY <1>5, <1>9, <2>4, <3>1 DEF Packs
  <2>5. QED
    BY <2>1, <2>2, <2>3, <2>4
<1>12. QED
  BY <1>7, <1>9, <1>10, <1>11

LEMMA PkgBuildConfigures ==
  ASSUME NEW k
  PROVE  Ordered(PkgBuild(k), k) /\ Configures(PkgBuild(k), 1) /\ PkgBuild(k) # <<>>
<1>1. PICK c : c = PkInstall(k, {"configure", "make"})[1]
  OBVIOUS
<1>2. PICK d : d = DdInstall(k)[1]
  OBVIOUS
<1>3. Packs(c, k, TRUE, FALSE) /\ Packs(d, k, FALSE, TRUE)
  <2>1. ("configure" \in {"configure", "make"}) = TRUE /\ ("install" \in {"configure", "make"}) = FALSE
    OBVIOUS
  <2>2. Packs(c, k, "configure" \in {"configure", "make"}, "install" \in {"configure", "make"})
    BY <1>1, PackageCallsAre
  <2>3. QED
    BY <1>2, <2>1, <2>2, PackageCallsAre
<1>4. PkgBuild(k) = <<c>> \o <<d>>
  BY <1>1, <1>2, PackageCallsAre DEF PkgBuild
<1>5. PICK s : s = PkgBuild(k)
  OBVIOUS
<1>6. Len(s) = 2 /\ s[1] = c /\ s[2] = d
  <2>1. s = <<c>> \o <<d>>
    BY Zenon, <1>4, <1>5
  <2>2. QED
    BY <2>1, JoinedTwo
<1>7. Len(s) = 2 /\ s[1] = c /\ s[2] = d /\ s # <<>>
  <2>1. \A q : q = <<>> => Len(q) = 0
    OBVIOUS
  <2>2. 2 # 0
    OBVIOUS
  <2>3. QED
    BY Zenon, <1>6, <2>1, <2>2
<1>8. Configures(s, 1)
  <2>1. 1 \in 1 .. Len(s) /\ s[1].cmd = "install" /\ s[1].configure
    BY <1>3, <1>7 DEF Packs
  <2>2. QED
    BY <2>1 DEF Configures
<1>9. \A i \in 1 .. Len(s) : Packs(s[i], k, i = 1, i = Len(s))
  <2> TAKE i \in 1 .. Len(s)
  <2>1. CASE i = 1
    <3>1. (i = 1) = TRUE /\ (i = Len(s)) = FALSE
      BY <1>7, <2>1
    <3>2. QED
      BY <1>3, <1>7, <2>1, <3>1
  <2>2. CASE i = 2
    <3>1. (i = 1) = FALSE /\ (i = Len(s)) = TRUE
      BY <1>7, <2>2
    <3>2. QED
      BY <1>3, <1>7, <2>2, <3>1
  <2>3. QED
    BY <1>7, <2>1, <2>2
<1>10. Ordered(s, k)
  BY <1>9 DEF Ordered, Packs
<1>11. QED
  BY <1>5, <1>7, <1>8, <1>10

LEMMA RunsComplete ==
  IInv /\ CompleteFits /\ (RunInstall \/ RunUninstall \/ RunTestAll \/ RunPackage) => CompleteFits'
<1> SUFFICES ASSUME RunInstall \/ RunUninstall \/ RunTestAll \/ RunPackage, goal' \in PackageCalls
             PROVE CompleteFits'
  BY DEF CompleteFits
<1>1. RunPackage
  BY KindsApart, ScriptsAssumption DEF RunInstall, RunUninstall, RunTestAll
<1>2. PICK k \in PackageCalls :
        /\ Starts(PackageSteps(k)) /\ goal' = k
        /\ installed' = {f \in installed : f[1] # k.dest}
  BY <1>1 DEF RunPackage, PackageSteps
<1>3. Ordered(PackageSteps(k), k) /\ Configures(PackageSteps(k), 1) /\ PackageSteps(k) # <<>>
  BY RulesConfigure, PkgBuildConfigures DEF PackageSteps
<1>4. todo' = PackageSteps(k) /\ step' = At(PackageSteps(k))
  BY <1>2 DEF Starts
<1>5. PackageSteps(k) \in Seq(Calls)
  BY PackageTyped, ScriptsAssumption
<1>6. step' = FirstStep[Call'.cmd] /\ Call' = PackageSteps(k)[1] /\ 1 \in 1 .. Len(PackageSteps(k))
  BY <1>3, <1>4, <1>5 DEF At, Call
<1>7. Call'.cmd \in {"install", "uninstall"}
  BY <1>3, <1>6 DEF Ordered
<1>8. step' # "loader" /\ (step' = "configure" \/ Runs("uninstall")')
  BY <1>3, <1>4, <1>6, <1>7 DEF FirstStep, Runs
<1>9. Below(k)' = {}
  BY <1>2 DEF Below
<1>10. QED
  BY <1>2, <1>3, <1>4, <1>8, <1>9 DEF CompleteFits

\* A package that has ended well holds exactly the shared library of a release
\* build, its headers and its pkg-config file, whatever the build folder held and
\* whatever was installed before.
THEOREM PackagesAreComplete == Spec => []PackageIsComplete
<1>1. Init => CompleteFits
  BY KindsApart, ScriptsAssumption DEF Init, CompleteFits
<1>2. IInv /\ CompleteFits /\ [Next]_vars => CompleteFits'
  <2> SUFFICES ASSUME IInv, CompleteFits, [Next]_vars PROVE CompleteFits'
    OBVIOUS
  <2>1. CASE UNCHANGED vars
    BY <2>1 DEF vars, CompleteFits, Runs, Call, Ready, Below, Complete
  <2>2. CASE Test \/ Tidy
    <3>1. goal' = goal
      BY <2>2 DEF Test, Tidy
    <3>2. QED
      BY <2>2, <3>1, NoTestOfPackage DEF CompleteFits
  <2>3. QED
    BY <2>1, <2>2, ConfigureCompletes, MakeCompletes, MakeInstallCompletes, InstallLoaderCompletes,
       UninstallCompletes, CleanCompletes, UninstallLoaderCompletes, RunsComplete DEF Next
<1>3. IInv /\ CompleteFits => PackageIsComplete
  <2> SUFFICES ASSUME IInv, CompleteFits, goal \in PackageCalls, step = "none", last # None
               PROVE Complete(goal)
    BY DEF PackageIsComplete, Complete, Below
  <2>1. todo = <<>>
    BY DEF IInv, StepFits
  <2>2. QED
    BY <2>1 DEF CompleteFits
<1>4. QED
  BY <1>1, <1>2, <1>3, ScriptsInvariance, PTL DEF Spec

-----------------------------------------------------------------------------
\* testall.py.

\* An install that leaves nothing to an earlier build, but for what it keeps in the
\* cache, and what a test that follows it is of.
Full(c)  == c.configure /\ c.make /\ c.install /\ c.static \in {"On", "Off"}
Wants(c) == [shared |-> c.static = "Off", type |-> c.type, sanitized |-> c.sanitize /\ c.type = "Debug"]

\* A sequence of calls in which everything that is tested, and maybe tidied, has
\* been installed from a clean build folder just before.
Orderly(s) ==
  \A i \in 1 .. Len(s) :
    /\ s[i].cmd = "uninstall" => s[i].clean /\ ~s[i].prompt /\ i < Len(s) /\ s[i + 1].cmd = "install"
    /\ s[i].cmd = "install" => Full(s[i]) /\ i < Len(s) /\ s[i + 1].cmd = "test"
    /\ i > 1 => /\ s[i].cmd = "install" => s[i - 1].cmd = "uninstall"
                /\ s[i].cmd = "test" => s[i - 1].cmd = "install"
                /\ s[i].cmd = "tidy" => s[i - 1].cmd = "test"

Wanted(s) == {Wants(s[i]) : i \in {j \in 1 .. Len(s) : s[j].cmd = "install"}}

\* The build type of the configuration that is tidied by the i-th call: that of the
\* install before the test, or that of the library now in the build folder.
TypeOf(s, i, now) == IF i > 2 THEN s[i - 2].type ELSE now.type
Tidies(s, t, now) == {i \in 1 .. Len(s) : s[i].cmd = "tidy" /\ TypeOf(s, i, now) = t}

\* A configuration that is the one of a call.
IsOf(config, c) ==
  /\ config \in Config
  /\ config.shared = (c.static = "Off") /\ config.type = c.type
  /\ Sanitized(config) = (c.sanitize /\ c.type = "Debug")

\* What testall.py may rely on at each command: the cache is new when it configures,
\* what is built is what the call before the test has asked for, and nothing that was
\* asked for gets lost.
TestsFit ==
  goal \in TestAllCalls =>
    /\ Orderly(todo)
    /\ (Runs("uninstall") /\ step = "loader") => cache = None
    /\ (Runs("install") /\ step = "configure") => cache = None
    /\ (Runs("install") /\ step \in {"make", "install"}) => IsOf(cache, Call)
    /\ (Runs("install") /\ step = "loader") => IsOf(built, Call)
    /\ step = "test" => IsOf(built, last)
    /\ step = "tidy" => built \in Config
    /\ (todo # <<>> \/ last # None) =>
         tested \cup Wanted(todo) \cup (IF step = "test" THEN {Wants(last)} ELSE {}) = Demanded(goal)

\* A build type has been tidied, or will be by exactly one of the calls to come.
TidyFits ==
  (goal \in TestAllCalls /\ goal.tidy /\ (todo # <<>> \/ last # None)) =>
    \A t \in Types :
      IF goal.type \in {"Both", t}
      THEN \/ tidied[t] = 1 /\ Tidies(todo, t, built) = {}
           \/ tidied[t] = 0 /\ \E i \in 1 .. Len(todo) : Tidies(todo, t, built) = {i}
      ELSE tidied[t] = 0 /\ Tidies(todo, t, built) = {}

\* What testall.py is to test of the static or of the shared libraries.
Part(a, shared, types) ==
  {r \in [shared : BOOLEAN, type : Types, sanitized : BOOLEAN] :
     r.shared = shared /\ r.type \in types
     /\ (r.sanitized => a.sanitize /\ r.type = "Debug" /\ ~r.shared)}

\* A sequence of calls that starts anew, tests the configurations in W and runs
\* clang-tidy on each of the build types in T, once.
Plan(s, W, T) ==
  /\ s \in Seq(Calls) /\ Orderly(s)
  /\ s = <<>> \/ s[1].cmd = "uninstall"
  /\ Wanted(s) = W
  /\ \A now, t : IF t \in T THEN \E i \in 1 .. Len(s) : Tidies(s, t, now) = {i} ELSE Tidies(s, t, now) = {}

-----------------------------------------------------------------------------
LEMMA EmptyPlan == Plan(<<>>, {}, {})
BY DEF Plan, Orderly, Wanted, Tidies

LEMMA JoinedOrderly ==
  ASSUME NEW s \in Seq(Calls), NEW u \in Seq(Calls), Orderly(s), Orderly(u),
         u = <<>> \/ u[1].cmd = "uninstall"
  PROVE  Orderly(s \o u)
<1>1. /\ s \o u \in Seq(Calls) /\ Len(s) \in Nat /\ Len(u) \in Nat /\ Len(s \o u) = Len(s) + Len(u)
      /\ \A i \in 1 .. Len(s) + Len(u) : (s \o u)[i] = IF i <= Len(s) THEN s[i] ELSE u[i - Len(s)]
  BY ConcatProperties
<1>2. PICK j \in Seq(Calls) : j = s \o u
  BY <1>1
<1>3. /\ \A i \in 1 .. Len(s) : j[i] = s[i] /\ i \in 1 .. Len(j)
      /\ \A i \in 1 .. Len(u) : j[Len(s) + i] = u[i] /\ Len(s) + i \in 1 .. Len(j)
  BY <1>1, <1>2
<1>4. SUFFICES ASSUME NEW i \in 1 .. Len(j)
      PROVE  /\ j[i].cmd = "uninstall" => j[i].clean /\ ~j[i].prompt /\ i < Len(j) /\ j[i + 1].cmd = "install"
             /\ j[i].cmd = "install" => Full(j[i]) /\ i < Len(j) /\ j[i + 1].cmd = "test"
             /\ i > 1 => /\ j[i].cmd = "install" => j[i - 1].cmd = "uninstall"
                         /\ j[i].cmd = "test" => j[i - 1].cmd = "install"
                         /\ j[i].cmd = "tidy" => j[i - 1].cmd = "test"
  BY <1>2 DEF Orderly
<1>5. CASE i <= Len(s)
  <2>1. i \in 1 .. Len(s) /\ j[i] = s[i] /\ (i < Len(s) => i < Len(j) /\ j[i + 1] = s[i + 1])
    BY <1>1, <1>2, <1>3, <1>5
  <2>2. i > 1 => j[i - 1] = s[i - 1]
    BY <1>1, <1>2, <1>3, <1>5
  <2>3. QED
    BY <2>1, <2>2 DEF Orderly
<1>6. CASE i > Len(s)
  <2>1. PICK k \in 1 .. Len(u) : k = i - Len(s)
    BY <1>1, <1>2, <1>6
  <2>2. i = Len(s) + k /\ j[i] = u[k] /\ (k < Len(u) => i < Len(j) /\ j[i + 1] = u[k + 1])
    BY <1>1, <1>2, <1>3, <2>1
  <2>3. k > 1 => j[i - 1] = u[k - 1]
    BY <1>1, <1>2, <1>3, <2>1
  <2>4. k = 1 => u[k].cmd = "uninstall"
    <3>1. \A q : q = <<>> => Len(q) = 0
      OBVIOUS
    <3>2. Len(u) # 0
      BY <2>1
    <3>3. u # <<>>
      BY Zenon, <3>1, <3>2
    <3>4. QED
      BY <3>3
  <2>5. QED
    BY <2>1, <2>2, <2>3, <2>4 DEF Orderly
<1>7. QED
  BY <1>1, <1>2, <1>5, <1>6

LEMMA JoinedWanted ==
  ASSUME NEW s \in Seq(Calls), NEW u \in Seq(Calls)
  PROVE  Wanted(s \o u) = Wanted(s) \cup Wanted(u)
<1>1. /\ s \o u \in Seq(Calls) /\ Len(s) \in Nat /\ Len(u) \in Nat /\ Len(s \o u) = Len(s) + Len(u)
      /\ \A i \in 1 .. Len(s) + Len(u) : (s \o u)[i] = IF i <= Len(s) THEN s[i] ELSE u[i - Len(s)]
  BY ConcatProperties
<1>2. PICK j \in Seq(Calls) : j = s \o u
  BY <1>1
<1>3. /\ \A i \in 1 .. Len(s) : j[i] = s[i] /\ i \in 1 .. Len(j)
      /\ \A i \in 1 .. Len(u) : j[Len(s) + i] = u[i] /\ Len(s) + i \in 1 .. Len(j)
  BY <1>1, <1>2
<1>4. ASSUME NEW w \in Wanted(j) PROVE w \in Wanted(s) \cup Wanted(u)
  <2>1. PICK i \in 1 .. Len(j) : j[i].cmd = "install" /\ w = Wants(j[i])
    BY <1>4 DEF Wanted
  <2>2. CASE i <= Len(s)
    <3>1. i \in 1 .. Len(s) /\ j[i] = s[i]
      BY <1>1, <1>3, <2>2
    <3>2. QED
      BY <2>1, <3>1 DEF Wanted
  <2>3. CASE i > Len(s)
    <3>1. PICK k \in 1 .. Len(u) : k = i - Len(s)
      BY <1>1, <1>2, <2>3
    <3>2. j[i] = u[k]
      BY <1>1, <1>3, <3>1
    <3>3. QED
      BY <2>1, <3>2 DEF Wanted
  <2>4. QED
    BY <1>1, <2>2, <2>3
<1>5. ASSUME NEW w \in Wanted(s) PROVE w \in Wanted(j)
  <2>1. PICK i \in 1 .. Len(s) : s[i].cmd = "install" /\ w = Wants(s[i])
    BY <1>5 DEF Wanted
  <2>2. QED
    BY <1>3, <2>1 DEF Wanted
<1>6. ASSUME NEW w \in Wanted(u) PROVE w \in Wanted(j)
  <2>1. PICK i \in 1 .. Len(u) : u[i].cmd = "install" /\ w = Wants(u[i])
    BY <1>6 DEF Wanted
  <2>2. PICK k \in 1 .. Len(j) : k = Len(s) + i /\ j[k] = u[i]
    BY <1>3
  <2>3. QED
    BY <2>1, <2>2 DEF Wanted
<1>7. QED
  BY <1>2, <1>4, <1>5, <1>6

LEMMA JoinedTidies ==
  ASSUME NEW s \in Seq(Calls), NEW u \in Seq(Calls), Orderly(u), u = <<>> \/ u[1].cmd = "uninstall",
         NEW t, NEW now
  PROVE  Tidies(s \o u, t, now) = Tidies(s, t, now) \cup {Len(s) + i : i \in Tidies(u, t, now)}
<1>1. /\ s \o u \in Seq(Calls) /\ Len(s) \in Nat /\ Len(u) \in Nat /\ Len(s \o u) = Len(s) + Len(u)
      /\ \A i \in 1 .. Len(s) + Len(u) : (s \o u)[i] = IF i <= Len(s) THEN s[i] ELSE u[i - Len(s)]
  BY ConcatProperties
<1>2. PICK j \in Seq(Calls) : j = s \o u
  BY <1>1
<1>3. /\ \A i \in 1 .. Len(s) : j[i] = s[i] /\ i \in 1 .. Len(j)
      /\ \A i \in 1 .. Len(u) : j[Len(s) + i] = u[i] /\ Len(s) + i \in 1 .. Len(j)
  BY <1>1, <1>2
<1>4. ASSUME NEW k \in 1 .. Len(u), u[k].cmd = "tidy" PROVE k > 2
  <2>1. u # <<>>
    <3>1. \A q : q = <<>> => Len(q) = 0
      OBVIOUS
    <3>2. Len(u) # 0
      BY <1>4
    <3>3. QED
      BY Zenon, <3>1, <3>2
  <2>2. u[1].cmd = "uninstall" /\ 1 \in 1 .. Len(u)
    BY <1>4, <2>1
  <2>3. u[2].cmd = "install"
    BY <2>2 DEF Orderly
  <2>4. QED
    BY <1>4, <2>2, <2>3
<1>5. ASSUME NEW i \in 1 .. Len(s) PROVE i \in Tidies(j, t, now) <=> i \in Tidies(s, t, now)
  <2>1. j[i] = s[i] /\ i \in 1 .. Len(j) /\ (i > 2 => j[i - 2] = s[i - 2])
    BY <1>3
  <2>2. QED
    BY <2>1 DEF Tidies, TypeOf
<1>6. ASSUME NEW k \in 1 .. Len(u) PROVE Len(s) + k \in Tidies(j, t, now) <=> k \in Tidies(u, t, now)
  <2>1. PICK i \in 1 .. Len(j) : i = Len(s) + k /\ j[i] = u[k]
    BY <1>3
  <2>2. CASE u[k].cmd = "tidy"
    <3>1. k > 2 /\ k - 2 \in 1 .. Len(u) /\ i > 2 /\ i - 2 = Len(s) + (k - 2)
      <4>1. k > 2
        BY <1>4, <2>2
      <4>2. k \in Nat /\ Len(s) \in Nat /\ Len(u) \in Nat /\ k <= Len(u)
        BY <1>1
      <4>3. QED
        BY <2>1, <4>1, <4>2
    <3>2. j[i - 2] = u[k - 2]
      BY <1>3, <3>1
    <3>3. QED
      BY <2>1, <3>1, <3>2 DEF Tidies, TypeOf
  <2>3. CASE u[k].cmd # "tidy"
    BY <2>1, <2>3 DEF Tidies
  <2>4. QED
    BY <2>2, <2>3
<1>7. Tidies(j, t, now) \subseteq 1 .. Len(j) /\ Tidies(s, t, now) \subseteq 1 .. Len(s)
        /\ Tidies(u, t, now) \subseteq 1 .. Len(u)
  BY DEF Tidies
<1>8. ASSUME NEW i \in 1 .. Len(j), i \notin 1 .. Len(s) PROVE \E k \in 1 .. Len(u) : i = Len(s) + k
  <2>1. i - Len(s) \in 1 .. Len(u) /\ i = Len(s) + (i - Len(s))
    BY <1>1, <1>2, <1>8
  <2>2. QED
    BY <2>1
<1>9. ASSUME NEW i \in Tidies(j, t, now) PROVE i \in Tidies(s, t, now) \cup {Len(s) + k : k \in Tidies(u, t, now)}
  BY <1>5, <1>6, <1>7, <1>8, <1>9
<1>10. ASSUME NEW i \in Tidies(s, t, now) \cup {Len(s) + k : k \in Tidies(u, t, now)} PROVE i \in Tidies(j, t, now)
  BY <1>5, <1>6, <1>7, <1>10
<1>11. QED
  BY <1>2, <1>9, <1>10

LEMMA JoinedPlans ==
  ASSUME NEW s, NEW u, NEW W1, NEW W2, NEW T1, NEW T2, Plan(s, W1, T1), Plan(u, W2, T2), T1 \cap T2 = {}
  PROVE  Plan(s \o u, W1 \cup W2, T1 \cup T2)
<1>1. /\ s \in Seq(Calls) /\ u \in Seq(Calls) /\ Orderly(s) /\ Orderly(u)
      /\ s = <<>> \/ s[1].cmd = "uninstall"
      /\ u = <<>> \/ u[1].cmd = "uninstall"
      /\ Wanted(s) = W1 /\ Wanted(u) = W2
  BY DEF Plan
<1>2. PICK j : j = s \o u
  OBVIOUS
<1>3. j \in Seq(Calls) /\ Orderly(j) /\ Wanted(j) = W1 \cup W2
  BY <1>1, <1>2, JoinTyped, JoinedOrderly, JoinedWanted
<1>4. j = <<>> \/ j[1].cmd = "uninstall"
  <2>1. CASE s = <<>>
    BY <1>1, <1>2, <2>1, ConcatEmptySeq
  <2>2. CASE s # <<>>
    <3>1. 1 \in 1 .. Len(s)
      BY <1>1, <2>2
    <3>2. j[1] = s[1]
      BY <1>1, <1>2, <3>1, JoinTyped
    <3>3. QED
      BY <1>1, <2>2, <3>2
  <2>3. QED
    BY <2>1, <2>2
<1>5. ASSUME NEW now, NEW t
      PROVE  IF t \in T1 \cup T2 THEN \E i \in 1 .. Len(j) : Tidies(j, t, now) = {i} ELSE Tidies(j, t, now) = {}
  <2>1. Tidies(j, t, now) = Tidies(s, t, now) \cup {Len(s) + i : i \in Tidies(u, t, now)}
    BY <1>1, <1>2, JoinedTidies
  <2>2. /\ IF t \in T1 THEN \E i \in 1 .. Len(s) : Tidies(s, t, now) = {i} ELSE Tidies(s, t, now) = {}
        /\ IF t \in T2 THEN \E i \in 1 .. Len(u) : Tidies(u, t, now) = {i} ELSE Tidies(u, t, now) = {}
    BY DEF Plan
  <2>3. Tidies(j, t, now) \subseteq 1 .. Len(j)
    BY DEF Tidies
  <2>4. CASE t \in T1
    <3>1. PICK i : Tidies(s, t, now) = {i}
      BY <2>2, <2>4
    <3>2. Tidies(j, t, now) = {i}
      BY <2>1, <2>2, <2>4, <3>1
    <3>3. QED
      BY <2>3, <2>4, <3>2
  <2>5. CASE t \in T2
    <3>1. PICK i : Tidies(u, t, now) = {i}
      BY <2>2, <2>5
    <3>2. Tidies(j, t, now) = {Len(s) + i}
      BY <2>1, <2>2, <2>5, <3>1
    <3>3. QED
      BY <2>3, <2>5, <3>2
  <2>6. CASE t \notin T1 \cup T2
    BY <2>1, <2>2, <2>6
  <2>7. QED
    BY <2>4, <2>5, <2>6
<1>6. QED
  BY <1>2, <1>3, <1>4, <1>5 DEF Plan

\* testAll, maybe with checktidy.py after it, has one configuration in its plan.
LEMMA OnePlan ==
  ASSUME NEW a \in TestAll, NEW static \in BOOLEAN, NEW type \in Types, NEW sanitize \in BOOLEAN,
         NEW tidy \in BOOLEAN
  PROVE  Plan(TestOne(a, static, type, sanitize) \o TidyIf(tidy),
              {[shared |-> ~static, type |-> type, sanitized |-> sanitize /\ type = "Debug"]},
              IF tidy THEN {type} ELSE {})
<1> DEFINE one == TestOne(a, static, type, sanitize)
           W == {[shared |-> ~static, type |-> type, sanitized |-> sanitize /\ type = "Debug"]}
<1>1. one \in Seq(Calls) /\ TidyIf(tidy) \in Seq(Calls)
  <2>1. [cmd |-> "tidy"] \in Calls
    BY DEF Calls
  <2>2. QED
    BY <2>1, TestOneTyped DEF TidyIf
<1>2. PICK u : u = one[1]
  OBVIOUS
<1>3. PICK c : c = one[2]
  OBVIOUS
<1>4. u.cmd = "uninstall" /\ u.clean = TRUE /\ u.prompt = FALSE
  BY <1>2 DEF TestOne
<1>5. /\ c.cmd = "install" /\ c.static = (IF static THEN "On" ELSE "Off") /\ c.type = type
      /\ c.configure = TRUE /\ c.make = TRUE /\ c.install = TRUE /\ c.sanitize = sanitize
  <2>1. PICK f : f = (IF static THEN "On" ELSE "Off")
    OBVIOUS
  <2>2. c = [cmd |-> "install", static |-> f, docs |-> "On", type |-> type,
             dest |-> None, prefix |-> a.prefix, configure |-> TRUE, make |-> TRUE, install |-> TRUE,
             sudo |-> a.sudo, sanitize |-> sanitize]
    BY <1>3, <2>1 DEF TestOne
  <2>3. QED
    BY <2>1, <2>2
<1>6. Len(one) = 3 /\ one[3].cmd = "test"
  BY DEF TestOne
<1>7. Full(c) /\ Wants(c) = [shared |-> ~static, type |-> type, sanitized |-> sanitize /\ type = "Debug"]
  <2>1. Full(c)
    BY <1>5 DEF Full
  <2>2. (c.static = "Off") = (~static)
    BY <1>5
  <2>3. QED
    BY Zenon, <1>5, <2>1, <2>2 DEF Wants
<1> HIDE DEF one
<1>8. PICK s \in Seq(Calls) : s = one \o TidyIf(tidy)
  BY <1>1, JoinTyped
<1>9. s[1] = u /\ s[2] = c /\ s[3].cmd = "test"
  <2>1. \A i \in 1 .. 3 : s[i] = one[i]
    <3>1. \A i \in 1 .. Len(one) : (one \o TidyIf(tidy))[i] = one[i]
      BY <1>1, JoinTyped
    <3>2. QED
      BY <1>6, <1>8, <3>1
  <2>2. QED
    BY <1>2, <1>3, <1>6, <2>1
<1>10. IF tidy THEN Len(s) = 4 /\ s[4].cmd = "tidy" ELSE Len(s) = 3
  <2>1. CASE tidy
    <3>1. [cmd |-> "tidy"] \in Calls /\ TidyIf(tidy) = << [cmd |-> "tidy"] >>
      BY <2>1 DEF Calls, TidyIf
    <3>2. PICK d \in Calls : d = [cmd |-> "tidy"] /\ s = one \o <<d>>
      BY <1>8, <3>1
    <3>3. Len(one \o <<d>>) = Len(one) + 1 /\ (one \o <<d>>)[Len(one) + 1] = d
      BY <1>1, TwoOf
    <3>4. d.cmd = "tidy"
      BY <3>2
    <3>5. QED
      BY <1>6, <2>1, <3>2, <3>3, <3>4
  <2>2. CASE ~tidy
    <3>1. TidyIf(tidy) = <<>>
      BY <2>2 DEF TidyIf
    <3>2. s = one
      BY <1>1, <1>8, <3>1, ConcatEmptySeq
    <3>3. QED
      BY <1>6, <2>2, <3>2
  <2>3. QED
    BY <2>1, <2>2
<1>11. Orderly(s)
  <2> SUFFICES ASSUME NEW i \in 1 .. Len(s)
      PROVE  /\ s[i].cmd = "uninstall" => s[i].clean /\ ~s[i].prompt /\ i < Len(s) /\ s[i + 1].cmd = "install"
             /\ s[i].cmd = "install" => Full(s[i]) /\ i < Len(s) /\ s[i + 1].cmd = "test"
             /\ i > 1 => /\ s[i].cmd = "install" => s[i - 1].cmd = "uninstall"
                         /\ s[i].cmd = "test" => s[i - 1].cmd = "install"
                         /\ s[i].cmd = "tidy" => s[i - 1].cmd = "test"
    BY DEF Orderly
  <2>1. CASE i = 1
    BY <1>4, <1>5, <1>9, <1>10, <2>1
  <2>2. CASE i = 2
    BY <1>4, <1>5, <1>7, <1>9, <1>10, <2>2
  <2>3. CASE i = 3
    BY <1>5, <1>9, <1>10, <2>3
  <2>4. CASE i = 4
    BY <1>9, <1>10, <2>4
  <2>5. QED
    BY <1>10, <2>1, <2>2, <2>3, <2>4
<1>12. \A i \in 1 .. Len(s) : s[i].cmd = "install" <=> i = 2
  BY <1>4, <1>5, <1>9, <1>10
<1>13. Wanted(s) = W
  <2>1. 2 \in 1 .. Len(s)
    BY <1>10
  <2>2. Wanted(s) = {Wants(s[2])}
    BY <1>12, <2>1 DEF Wanted
  <2>3. QED
    BY Zenon, <1>7, <1>9, <2>2
<1>14. ASSUME NEW now, NEW t
       PROVE  IF t \in (IF tidy THEN {type} ELSE {}) THEN \E i \in 1 .. Len(s) : Tidies(s, t, now) = {i}
              ELSE Tidies(s, t, now) = {}
  <2>1. \A i \in 1 .. Len(s) : s[i].cmd = "tidy" <=> tidy /\ i = 4
    BY <1>4, <1>5, <1>9, <1>10
  <2>2. CASE tidy
    <3>1. TypeOf(s, 4, now) = type
      BY <1>5, <1>9 DEF TypeOf
    <3>2. 4 \in 1 .. Len(s)
      <4>1. Len(s) = 4
        BY <1>10, <2>2
      <4>2. QED
        BY <4>1
    <3>3. Tidies(s, t, now) = IF t = type THEN {4} ELSE {}
      BY <2>1, <2>2, <3>1, <3>2 DEF Tidies
    <3>4. QED
      BY <2>2, <3>2, <3>3
  <2>3. CASE ~tidy
    BY <2>1, <2>3 DEF Tidies
  <2>4. QED
    BY <2>2, <2>3
<1>15. Plan(s, W, IF tidy THEN {type} ELSE {})
  <2>1. s = <<>> \/ s[1].cmd = "uninstall"
    BY <1>4, <1>9
  <2>2. QED
    BY <1>11, <1>13, <1>14, <2>1 DEF Plan
<1>16. QED
  BY Zenon, <1>8, <1>15 DEF one

LEMMA StaticPlan ==
  ASSUME NEW a \in TestAll, NEW type \in Types
  PROVE  Plan(StaticTests(a, type), Part(a, FALSE, {type}), IF a.tidy THEN {type} ELSE {})
<1> DEFINE sanitized == a.sanitize /\ type = "Debug"
           first == IF sanitized THEN TestOne(a, TRUE, "Debug", TRUE) ELSE <<>>
           plain == TestOne(a, TRUE, type, FALSE)
           W1 == IF sanitized THEN {[shared |-> FALSE, type |-> type, sanitized |-> TRUE]} ELSE {}
           W2 == {[shared |-> FALSE, type |-> type, sanitized |-> FALSE]}
<1>1. a.sanitize \in BOOLEAN /\ a.tidy \in BOOLEAN
  BY DEF TestAll
<1>2. Plan(plain \o TidyIf(a.tidy), W2, IF a.tidy THEN {type} ELSE {})
  <2>1. Plan(plain \o TidyIf(a.tidy), {[shared |-> ~TRUE, type |-> type, sanitized |-> FALSE /\ type = "Debug"]},
             IF a.tidy THEN {type} ELSE {})
    BY <1>1, OnePlan
  <2>2. (~TRUE) = FALSE /\ (FALSE /\ type = "Debug") = FALSE
    OBVIOUS
  <2>3. QED
    BY Zenon, <2>1, <2>2
<1>3. Plan(first, W1, {})
  <2>1. CASE sanitized
    <3>1. type = "Debug"
      BY <2>1
    <3>2. Plan(TestOne(a, TRUE, type, TRUE) \o TidyIf(FALSE),
               {[shared |-> ~TRUE, type |-> type, sanitized |-> TRUE /\ type = "Debug"]},
               IF FALSE THEN {type} ELSE {})
      BY OnePlan
    <3>3. (~TRUE) = FALSE /\ (TRUE /\ type = "Debug") = TRUE
      BY <3>1
    <3>4. TestOne(a, TRUE, type, TRUE) \o TidyIf(FALSE) = TestOne(a, TRUE, type, TRUE)
      <4>1. TestOne(a, TRUE, type, TRUE) \in Seq(Calls)
        BY TestOneTyped
      <4>2. TidyIf(FALSE) = <<>>
        BY DEF TidyIf
      <4>3. QED
        BY <4>1, <4>2, ConcatEmptySeq
    <3>5. (IF FALSE THEN {type} ELSE {}) = {}
      OBVIOUS
    <3>6. Plan(TestOne(a, TRUE, type, TRUE), {[shared |-> FALSE, type |-> type, sanitized |-> TRUE]}, {})
      BY Zenon, <3>2, <3>3, <3>4, <3>5
    <3>7. QED
      BY <2>1, <3>1, <3>6
  <2>2. CASE ~sanitized
    BY <2>2, EmptyPlan
  <2>3. QED
    BY <2>1, <2>2
<1>4. first \in Seq(Calls) /\ plain \in Seq(Calls) /\ TidyIf(a.tidy) \in Seq(Calls)
  <2>1. [cmd |-> "tidy"] \in Calls
    BY DEF Calls
  <2>2. TidyIf(a.tidy) \in Seq(Calls)
    BY <1>1, <2>1 DEF TidyIf
  <2>5. plain \in Seq(Calls)
    BY TestOneTyped
  <2>3. first \in Seq(Calls)
    BY <1>3 DEF Plan
  <2>4. QED
    BY <2>2, <2>3, <2>5
<1>5. StaticTests(a, type) = (first \o plain) \o TidyIf(a.tidy)
  BY DEF StaticTests
<1>6. W1 \cup W2 = Part(a, FALSE, {type})
  <2>1. ASSUME NEW r \in Part(a, FALSE, {type}) PROVE r \in W1 \cup W2
    <3>1. /\ r = [shared |-> FALSE, type |-> type, sanitized |-> r.sanitized] /\ r.sanitized \in BOOLEAN
          /\ r.sanitized => sanitized
      BY <2>1 DEF Part
    <3>2. QED
      BY <3>1
  <2>2. ASSUME NEW r \in W1 \cup W2 PROVE r \in Part(a, FALSE, {type})
    <3>1. CASE r \in W2
      <4>1. r = [shared |-> FALSE, type |-> type, sanitized |-> FALSE]
        BY <3>1
      <4>2. /\ r \in [shared : BOOLEAN, type : Types, sanitized : BOOLEAN]
            /\ r.shared = FALSE /\ r.type = type /\ r.sanitized = FALSE
        BY <4>1
      <4>3. QED
        BY <4>2 DEF Part
    <3>2. CASE r \in W1
      <4>1. sanitized /\ r = [shared |-> FALSE, type |-> type, sanitized |-> TRUE]
        BY <3>2
      <4>2. QED
        BY <4>1 DEF Part
    <3>3. QED
      BY <2>2, <3>1, <3>2
  <2>3. QED
    BY <2>1, <2>2
<1> HIDE DEF first, plain, W1, W2, sanitized
<1>7. StaticTests(a, type) = first \o (plain \o TidyIf(a.tidy))
  BY <1>4, <1>5, ConcatAssociative
<1>8. Plan(first \o (plain \o TidyIf(a.tidy)), W1 \cup W2, {} \cup (IF a.tidy THEN {type} ELSE {}))
  <2>1. {} \cap (IF a.tidy THEN {type} ELSE {}) = {}
    OBVIOUS
  <2>2. QED
    BY <1>2, <1>3, <2>1, JoinedPlans
<1>9. {} \cup (IF a.tidy THEN {type} ELSE {}) = IF a.tidy THEN {type} ELSE {}
  OBVIOUS
<1>10. QED
  BY Zenon, <1>6, <1>7, <1>8, <1>9

LEMMA SharedPlan ==
  ASSUME NEW a \in TestAll, NEW type \in Types
  PROVE  Plan(SharedTests(a, type), Part(a, TRUE, {type}), IF a.tidy /\ a.link = "Shared" THEN {type} ELSE {})
<1>1. a.tidy \in BOOLEAN /\ (a.tidy /\ a.link = "Shared") \in BOOLEAN
  BY DEF TestAll
<1>2. Plan(SharedTests(a, type), {[shared |-> ~FALSE, type |-> type, sanitized |-> FALSE /\ type = "Debug"]},
           IF a.tidy /\ a.link = "Shared" THEN {type} ELSE {})
  BY <1>1, OnePlan DEF SharedTests
<1>3. (~FALSE) = TRUE /\ (FALSE /\ type = "Debug") = FALSE
  OBVIOUS
<1>4. {[shared |-> TRUE, type |-> type, sanitized |-> FALSE]} = Part(a, TRUE, {type})
  <2>1. ASSUME NEW r \in Part(a, TRUE, {type}) PROVE r = [shared |-> TRUE, type |-> type, sanitized |-> FALSE]
    BY <2>1 DEF Part
  <2>2. [shared |-> TRUE, type |-> type, sanitized |-> FALSE] \in Part(a, TRUE, {type})
    BY DEF Part
  <2>3. QED
    BY <2>1, <2>2
<1>5. QED
  BY Zenon, <1>2, <1>3, <1>4

\* The build types that testall.py is asked for.
Asked(a) == {t \in Types : a.type \in {"Both", t}}

LEMMA BothPlans ==
  ASSUME NEW a \in TestAll
  PROVE  /\ Plan(Both(a, StaticTests), Part(a, FALSE, Asked(a)), IF a.tidy THEN Asked(a) ELSE {})
         /\ Plan(Both(a, SharedTests), Part(a, TRUE, Asked(a)),
                 IF a.tidy /\ a.link = "Shared" THEN Asked(a) ELSE {})
<1>1. a.type \in Types \cup {"Both"} /\ a.tidy \in BOOLEAN
  BY DEF TestAll
<1>2. CASE a.type = "Both"
  <2>1. Asked(a) = {"Debug", "Release"}
    BY <1>2 DEF Asked, Types
  <2>2. \A shared : Part(a, shared, {"Debug"}) \cup Part(a, shared, {"Release"}) = Part(a, shared, Asked(a))
    BY <2>1 DEF Part
  <2>3. \A b \in BOOLEAN :
          /\ (IF b THEN {"Debug"} ELSE {}) \cap (IF b THEN {"Release"} ELSE {}) = {}
          /\ (IF b THEN {"Debug"} ELSE {}) \cup (IF b THEN {"Release"} ELSE {}) = IF b THEN Asked(a) ELSE {}
    BY <2>1
  <2>4. "Debug" \in Types /\ "Release" \in Types
    BY DEF Types
  <2>5. Plan(StaticTests(a, "Debug") \o StaticTests(a, "Release"),
             Part(a, FALSE, {"Debug"}) \cup Part(a, FALSE, {"Release"}),
             (IF a.tidy THEN {"Debug"} ELSE {}) \cup (IF a.tidy THEN {"Release"} ELSE {}))
    BY <1>1, <2>3, <2>4, StaticPlan, JoinedPlans
  <2>6. PICK b \in BOOLEAN : b = (a.tidy /\ a.link = "Shared")
    BY <1>1
  <2>7. Plan(SharedTests(a, "Debug"), Part(a, TRUE, {"Debug"}), IF b THEN {"Debug"} ELSE {})
          /\ Plan(SharedTests(a, "Release"), Part(a, TRUE, {"Release"}), IF b THEN {"Release"} ELSE {})
    BY <2>4, <2>6, SharedPlan
  <2>8. Plan(SharedTests(a, "Debug") \o SharedTests(a, "Release"),
             Part(a, TRUE, {"Debug"}) \cup Part(a, TRUE, {"Release"}),
             (IF b THEN {"Debug"} ELSE {}) \cup (IF b THEN {"Release"} ELSE {}))
    BY <2>3, <2>7, JoinedPlans
  <2>9. Both(a, StaticTests) = StaticTests(a, "Debug") \o StaticTests(a, "Release")
          /\ Both(a, SharedTests) = SharedTests(a, "Debug") \o SharedTests(a, "Release")
    BY <1>2 DEF Both
  <2>10. Plan(Both(a, StaticTests), Part(a, FALSE, Asked(a)), IF a.tidy THEN Asked(a) ELSE {})
    BY Zenon, <1>1, <2>2, <2>3, <2>5, <2>9
  <2>11. Plan(Both(a, SharedTests), Part(a, TRUE, Asked(a)), IF b THEN Asked(a) ELSE {})
    BY Zenon, <2>2, <2>3, <2>8, <2>9
  <2>12. QED
    BY <2>6, <2>10, <2>11
<1>3. CASE a.type \in Types
  <2>1. Asked(a) = {a.type} /\ a.type # "Both"
    BY <1>3 DEF Asked, Types
  <2>2. Both(a, StaticTests) = StaticTests(a, a.type) /\ Both(a, SharedTests) = SharedTests(a, a.type)
    BY <2>1 DEF Both
  <2>3. QED
    BY <1>3, <2>1, <2>2, StaticPlan, SharedPlan
<1>4. QED
  BY <1>1, <1>2, <1>3

LEMMA TestAllPlan ==
  ASSUME NEW a \in TestAll
  PROVE  Plan(TestAllSteps(a), Demanded(a), IF a.tidy THEN Asked(a) ELSE {})
<1> DEFINE first  == IF a.link # "Shared" THEN Both(a, StaticTests) ELSE <<>>
           second == IF a.link # "Static" THEN Both(a, SharedTests) ELSE <<>>
           W1 == IF a.link # "Shared" THEN Part(a, FALSE, Asked(a)) ELSE {}
           W2 == IF a.link # "Static" THEN Part(a, TRUE, Asked(a)) ELSE {}
           T1 == IF a.link # "Shared" /\ a.tidy THEN Asked(a) ELSE {}
           T2 == IF a.tidy /\ a.link = "Shared" THEN Asked(a) ELSE {}
<1>1. a.link \in {"Static", "Shared", "Both"} /\ a.tidy \in BOOLEAN
  BY DEF TestAll
<1>2. Plan(first, W1, T1)
  BY <1>1, BothPlans, EmptyPlan
<1>3. Plan(second, W2, T2)
  BY <1>1, BothPlans, EmptyPlan
<1>4. T1 \cap T2 = {} /\ T1 \cup T2 = IF a.tidy THEN Asked(a) ELSE {}
  BY <1>1
<1>5. W1 \cup W2 = Demanded(a)
  <2>1. ASSUME NEW r \in W1 \cup W2 PROVE r \in Demanded(a)
    <3>1. r \in [shared : BOOLEAN, type : Types, sanitized : BOOLEAN]
      BY <2>1 DEF Part
    <3>2. /\ a.link = "Both" \/ r.shared = (a.link = "Shared")
          /\ a.type \in {"Both", r.type}
          /\ r.sanitized => a.sanitize /\ r.type = "Debug" /\ ~r.shared
      BY <1>1, <2>1 DEF Part, Asked
    <3>3. r = [shared |-> r.shared, type |-> r.type, sanitized |-> r.sanitized]
      BY <3>1
    <3>4. QED
      BY <3>1, <3>2, <3>3 DEF Demanded
  <2>2. ASSUME NEW r \in Demanded(a) PROVE r \in W1 \cup W2
    <3>1. /\ r \in [shared : BOOLEAN, type : Types, sanitized : BOOLEAN]
          /\ a.link = "Both" \/ r.shared = (a.link = "Shared")
          /\ a.type \in {"Both", r.type}
          /\ r.sanitized => a.sanitize /\ r.type = "Debug" /\ ~r.shared
      BY <2>2 DEF Demanded
    <3>2. r.type \in Asked(a) /\ r.shared \in BOOLEAN
      BY <3>1 DEF Asked
    <3>3. CASE r.shared = TRUE
      <4>1. a.link # "Static"
        BY <3>1, <3>3
      <4>2. QED
        BY <3>1, <3>2, <3>3, <4>1 DEF Part
    <3>4. CASE r.shared = FALSE
      <4>1. a.link # "Shared"
        BY <3>1, <3>4
      <4>2. QED
        BY <3>1, <3>2, <3>4, <4>1 DEF Part
    <3>5. QED
      BY <3>2, <3>3, <3>4
  <2>3. QED
    BY <2>1, <2>2
<1>6. TestAllSteps(a) = first \o second
  BY DEF TestAllSteps
<1> HIDE DEF first, second, W1, W2, T1, T2
<1>7. Plan(first \o second, W1 \cup W2, T1 \cup T2)
  BY <1>2, <1>3, <1>4, JoinedPlans
<1>8. QED
  BY Zenon, <1>4, <1>5, <1>6, <1>7

-----------------------------------------------------------------------------
\* The call that testall.py is in, and the one after it.
LEMMA HeadOrderly ==
  ASSUME todo \in Seq(Calls), todo # <<>>, Orderly(todo)
  PROVE  /\ Call = todo[1] /\ Len(todo) \in Nat \ {0}
         /\ Call.cmd = "uninstall" => Call.clean /\ ~Call.prompt /\ Len(todo) > 1 /\ todo[2].cmd = "install"
         /\ Call.cmd = "install" => Full(Call) /\ Len(todo) > 1 /\ todo[2].cmd = "test"
         /\ Len(todo) > 1 => /\ todo[2].cmd = "install" => Call.cmd = "uninstall"
                             /\ todo[2].cmd = "test" => Call.cmd = "install"
                             /\ todo[2].cmd = "tidy" => Call.cmd = "test"
<1>1. Call = todo[1] /\ Len(todo) \in Nat \ {0}
  BY HeadAndTail
<1>2. 1 \in 1 .. Len(todo) /\ (Len(todo) > 1 => 2 \in 1 .. Len(todo))
  BY <1>1
<1>3. QED
  BY <1>1, <1>2 DEF Orderly

LEMMA TailOrderly ==
  ASSUME NEW s \in Seq(Calls), s # <<>>, Orderly(s)
  PROVE  Orderly(Tail(s))
<1>1. /\ Len(s) \in Nat \ {0} /\ Len(Tail(s)) = Len(s) - 1
      /\ \A i \in 1 .. Len(Tail(s)) : i + 1 \in 1 .. Len(s) /\ Tail(s)[i] = s[i + 1]
  BY TailOf
<1>2. PICK t : t = Tail(s)
  OBVIOUS
<1>3. ASSUME NEW i \in 1 .. Len(t)
      PROVE  /\ t[i].cmd = "uninstall" => t[i].clean /\ ~t[i].prompt /\ i < Len(t) /\ t[i + 1].cmd = "install"
             /\ t[i].cmd = "install" => Full(t[i]) /\ i < Len(t) /\ t[i + 1].cmd = "test"
             /\ i > 1 => /\ t[i].cmd = "install" => t[i - 1].cmd = "uninstall"
                         /\ t[i].cmd = "test" => t[i - 1].cmd = "install"
                         /\ t[i].cmd = "tidy" => t[i - 1].cmd = "test"
  <2>1. PICK k \in 1 .. Len(s) : k = i + 1 /\ t[i] = s[k]
    BY <1>1, <1>2
  <2>2. k < Len(s) => i < Len(t) /\ t[i + 1] = s[k + 1]
    BY <1>1, <1>2, <2>1
  <2>3. k > 1 /\ (i > 1 => t[i - 1] = s[k - 1])
    BY <1>1, <1>2, <2>1
  <2>4. QED
    BY <2>1, <2>2, <2>3 DEF Orderly
<1>4. QED
  BY <1>2, <1>3 DEF Orderly

LEMMA TailWanted ==
  ASSUME NEW s \in Seq(Calls), s # <<>>
  PROVE  Wanted(s) = Wanted(Tail(s)) \cup (IF s[1].cmd = "install" THEN {Wants(s[1])} ELSE {})
<1>1. /\ Len(s) \in Nat \ {0} /\ Len(Tail(s)) = Len(s) - 1
      /\ \A i \in 1 .. Len(Tail(s)) : i + 1 \in 1 .. Len(s) /\ Tail(s)[i] = s[i + 1]
  BY TailOf
<1>2. PICK t : t = Tail(s)
  OBVIOUS
<1>3. ASSUME NEW w \in Wanted(s), w \notin (IF s[1].cmd = "install" THEN {Wants(s[1])} ELSE {})
      PROVE  w \in Wanted(t)
  <2>1. PICK i \in 1 .. Len(s) : s[i].cmd = "install" /\ w = Wants(s[i])
    BY <1>3 DEF Wanted
  <2>2. i # 1
    BY <1>3, <2>1
  <2>3. PICK k \in 1 .. Len(t) : k = i - 1 /\ t[k] = s[i]
    BY <1>1, <1>2, <2>1, <2>2
  <2>4. QED
    BY <2>1, <2>3 DEF Wanted
<1>4. ASSUME NEW w \in Wanted(t) PROVE w \in Wanted(s)
  <2>1. PICK i \in 1 .. Len(t) : t[i].cmd = "install" /\ w = Wants(t[i])
    BY <1>4 DEF Wanted
  <2>2. PICK k \in 1 .. Len(s) : k = i + 1 /\ s[k] = t[i]
    BY <1>1, <1>2, <2>1
  <2>3. QED
    BY <2>1, <2>2 DEF Wanted
<1>5. s[1].cmd = "install" => Wants(s[1]) \in Wanted(s)
  <2>1. 1 \in 1 .. Len(s)
    BY <1>1
  <2>2. QED
    BY <2>1 DEF Wanted
<1>6. QED
  BY <1>2, <1>3, <1>4, <1>5

\* What is left to tidy once a call has ended well: what was left before, one
\* place earlier, and what an install has put into the build folder is of its type.
LEMMA TailTidies ==
  ASSUME NEW s \in Seq(Calls), s # <<>>, Orderly(s), NEW t, NEW now,
         s[1].cmd = "install" => now.type = s[1].type
  PROVE  Tidies(Tail(s), t, now) = {i - 1 : i \in Tidies(s, t, now) \ {1}}
<1>1. /\ Len(s) \in Nat \ {0} /\ Len(Tail(s)) = Len(s) - 1
      /\ \A i \in 1 .. Len(Tail(s)) : i + 1 \in 1 .. Len(s) /\ Tail(s)[i] = s[i + 1]
  BY TailOf
<1>2. PICK u : u = Tail(s)
  OBVIOUS
<1>3. ASSUME NEW i \in 1 .. Len(u) PROVE i \in Tidies(u, t, now) <=> i + 1 \in Tidies(s, t, now)
  <2>1. PICK k \in 1 .. Len(s) : k = i + 1 /\ u[i] = s[k]
    BY <1>1, <1>2
  <2>2. CASE s[k].cmd # "tidy"
    BY <2>1, <2>2 DEF Tidies
  <2>3. CASE s[k].cmd = "tidy" /\ i > 2
    <3>1. i - 2 \in 1 .. Len(u) /\ k > 2 /\ k - 2 = (i - 2) + 1
      BY <2>1, <2>3
    <3>2. u[i - 2] = s[k - 2]
      BY <1>1, <1>2, <3>1
    <3>3. TypeOf(u, i, now) = TypeOf(s, k, now)
      BY <2>3, <3>1, <3>2 DEF TypeOf
    <3>4. QED
      BY <2>1, <2>3, <3>3 DEF Tidies
  <2>4. CASE s[k].cmd = "tidy" /\ i = 2
    <3>1. k = 3 /\ s[2].cmd = "test" /\ 2 \in 1 .. Len(s)
      BY <1>1, <2>1, <2>4 DEF Orderly
    <3>2. s[1].cmd = "install"
      BY <3>1 DEF Orderly
    <3>3. TypeOf(u, i, now) = TypeOf(s, k, now)
      BY <2>4, <3>1, <3>2 DEF TypeOf
    <3>4. QED
      BY <2>1, <2>4, <3>3 DEF Tidies
  <2>5. CASE s[k].cmd = "tidy" /\ i = 1
    <3>1. k = 2 /\ s[1].cmd = "test"
      BY <1>1, <2>1, <2>5 DEF Orderly
    <3>2. TypeOf(u, i, now) = TypeOf(s, k, now)
      BY <2>5, <3>1 DEF TypeOf
    <3>3. QED
      BY <2>1, <2>5, <3>2 DEF Tidies
  <2>6. QED
    BY <2>2, <2>3, <2>4, <2>5
<1>4. Tidies(u, t, now) \subseteq 1 .. Len(u) /\ Tidies(s, t, now) \subseteq 1 .. Len(s)
  BY DEF Tidies
<1>5. ASSUME NEW i \in Tidies(u, t, now) PROVE i \in {k - 1 : k \in Tidies(s, t, now) \ {1}}
  <2>1. PICK k : k = i + 1
    OBVIOUS
  <2>2. i \in 1 .. Len(u) /\ i = k - 1 /\ k # 1 /\ k \in Tidies(s, t, now)
    BY <1>3, <1>4, <1>5, <2>1
  <2>3. QED
    BY <2>2
<1>6. ASSUME NEW k \in Tidies(s, t, now) \ {1} PROVE k - 1 \in Tidies(u, t, now)
  <2>1. PICK i \in 1 .. Len(u) : i = k - 1 /\ i + 1 = k
    BY <1>1, <1>2, <1>4
  <2>2. QED
    BY <1>3, <2>1
<1>7. QED
  BY <1>2, <1>5, <1>6

\* As long as an install is under way, what it builds says nothing about what is
\* to be tidied after its test.
LEMMA TidiesOfInstall ==
  ASSUME NEW s \in Seq(Calls), s # <<>>, Orderly(s), s[1].cmd \in {"install", "uninstall"},
         NEW t, NEW now, NEW new
  PROVE  Tidies(s, t, new) = Tidies(s, t, now)
<1>1. ASSUME NEW i \in 1 .. Len(s), s[i].cmd = "tidy" PROVE i > 2
  <2>1. i # 1
    BY <1>1
  <2>2. 1 \in 1 .. Len(s) /\ (s[1].cmd = "install" => s[2].cmd = "test")
          /\ (s[1].cmd = "uninstall" => s[2].cmd = "install")
    BY DEF Orderly
  <2>3. i # 2
    BY <1>1, <2>2
  <2>4. QED
    BY <2>1, <2>3
<1>2. ASSUME NEW i \in 1 .. Len(s), s[i].cmd = "tidy" PROVE TypeOf(s, i, new) = TypeOf(s, i, now)
  BY <1>1, <1>2 DEF TypeOf
<1>3. QED
  BY <1>2 DEF Tidies

TestAllFits == TestsFit /\ TidyFits

\* The call that follows one that has ended well, as testall.py orders them.
LEMMA NextTest ==
  ASSUME IInv, todo # <<>>, Orderly(todo), Ends
  PROVE  /\ todo \in Seq(Calls) /\ todo' = Tail(todo) /\ last' = Call /\ Orderly(todo')
         /\ Call.cmd = "install" => step' = "test"
         /\ Call.cmd = "uninstall" => step' = "configure"
         /\ Call.cmd = "test" => step' \in {"none", "remove", "tidy"}
         /\ Call.cmd = "tidy" => step' \in {"none", "remove"}
<1>1. todo \in Seq(Calls) /\ todo' = Tail(todo) /\ last' = Call /\ step' = At(todo')
  BY DEF Ends, IInv, TypeInv
<1>2. Orderly(todo')
  BY <1>1, TailOrderly
<1>3. /\ todo' \in Seq(Calls) /\ Len(todo) \in Nat \ {0} /\ Len(todo') = Len(todo) - 1
      /\ \A i \in 1 .. Len(todo') : todo'[i] = todo[i + 1]
  BY <1>1, TailOf
<1>4. CASE todo' = <<>>
  <2>1. \A q : q = <<>> => Len(q) = 0
    OBVIOUS
  <2>2. Len(todo') = 0
    BY Zenon, <1>4, <2>1
  <2>3. ~(Len(todo) > 1)
    BY <1>3, <2>2
  <2>4. Call.cmd # "install" /\ Call.cmd # "uninstall"
    BY <1>1, <2>3, HeadOrderly
  <2>5. step' = "none"
    BY <1>1, <1>4 DEF At
  <2>6. QED
    BY <1>1, <1>2, <2>4, <2>5
<1>5. CASE todo' # <<>>
  <2>1. Len(todo') \in Nat \ {0} /\ Head(todo') = todo'[1]
    BY <1>3, <1>5
  <2>2. 1 \in 1 .. Len(todo') /\ Len(todo) > 1 /\ Head(todo') = todo[2] /\ todo'[1] \in Calls
    BY <1>3, <2>1
  <2>3. step' = FirstStep[todo[2].cmd]
    BY <1>1, <1>5, <2>2 DEF At
  <2>4. todo[2].cmd \in {"install", "uninstall", "test", "tidy"}
    BY <2>1, <2>2, CallKinds
  <2>5. /\ todo[2].cmd = "install" => step' = "configure"
        /\ todo[2].cmd = "uninstall" => step' = "remove"
        /\ todo[2].cmd = "test" => step' = "test"
        /\ todo[2].cmd = "tidy" => step' = "tidy"
    BY <2>3 DEF FirstStep
  <2>6. QED
    BY <1>1, <1>2, <2>2, <2>4, <2>5, HeadOrderly
<1>6. QED
  BY <1>4, <1>5

LEMMA FailsTests ==
  Fails => TestAllFits'
BY DEF Fails, TestAllFits, TestsFit, TidyFits, Orderly, Runs

\* A command of an install or an uninstall that goes on leaves the tidying as it was.
LEMMA GoesTidies ==
  ASSUME IInv, TestAllFits, todo # <<>>, Call.cmd \in {"install", "uninstall"},
         todo' = todo, last' = last, goal' = goal, tidied' = tidied
  PROVE  TidyFits'
<1> SUFFICES ASSUME goal \in TestAllCalls, goal.tidy, NEW t \in Types
             PROVE  IF goal.type \in {"Both", t}
                    THEN \/ tidied[t] = 1 /\ Tidies(todo, t, built') = {}
                         \/ tidied[t] = 0 /\ \E i \in 1 .. Len(todo) : Tidies(todo, t, built') = {i}
                    ELSE tidied[t] = 0 /\ Tidies(todo, t, built') = {}
  BY DEF TidyFits
<1>1. todo \in Seq(Calls) /\ Orderly(todo) /\ todo[1].cmd \in {"install", "uninstall"}
  BY HeadAndTail DEF IInv, TypeInv, TestAllFits, TestsFit
<1>2. PICK new : new = built'
  OBVIOUS
<1>3. Tidies(todo, t, new) = Tidies(todo, t, built)
  BY <1>1, TidiesOfInstall
<1>4. IF goal.type \in {"Both", t}
      THEN \/ tidied[t] = 1 /\ Tidies(todo, t, built) = {}
           \/ tidied[t] = 0 /\ \E i \in 1 .. Len(todo) : Tidies(todo, t, built) = {i}
      ELSE tidied[t] = 0 /\ Tidies(todo, t, built) = {}
  BY DEF TestAllFits, TidyFits
<1>5. QED
  BY <1>2, <1>3, <1>4

\* A build type that the call that ends has not tidied is where it was.
LEMMA TidyShifts ==
  ASSUME IInv, TestAllFits, todo # <<>>, Call.cmd = "install" => built.type = Call.type,
         goal \in TestAllCalls, goal.tidy, NEW t \in Types, 1 \notin Tidies(todo, t, built)
  PROVE  IF goal.type \in {"Both", t}
         THEN \/ tidied[t] = 1 /\ Tidies(Tail(todo), t, built) = {}
              \/ tidied[t] = 0 /\ \E i \in 1 .. Len(Tail(todo)) : Tidies(Tail(todo), t, built) = {i}
         ELSE tidied[t] = 0 /\ Tidies(Tail(todo), t, built) = {}
<1>1. todo \in Seq(Calls) /\ Orderly(todo) /\ Call = todo[1]
  BY HeadAndTail DEF IInv, TypeInv, TestAllFits, TestsFit
<1>2. Tidies(Tail(todo), t, built) = {i - 1 : i \in Tidies(todo, t, built) \ {1}}
  <2>1. todo[1].cmd = "install" => built.type = todo[1].type
    BY <1>1
  <2>2. QED
    BY <1>1, <2>1, TailTidies
<1>3. IF goal.type \in {"Both", t}
      THEN \/ tidied[t] = 1 /\ Tidies(todo, t, built) = {}
           \/ tidied[t] = 0 /\ \E i \in 1 .. Len(todo) : Tidies(todo, t, built) = {i}
      ELSE tidied[t] = 0 /\ Tidies(todo, t, built) = {}
  BY DEF TestAllFits, TidyFits
<1>4. ASSUME NEW i \in 1 .. Len(todo), Tidies(todo, t, built) = {i}
      PROVE  \E k \in 1 .. Len(Tail(todo)) : Tidies(Tail(todo), t, built) = {k}
  <2>1. i # 1
    BY <1>4
  <2>2. PICK k : k = i - 1
    OBVIOUS
  <2>3. Len(todo) \in Nat /\ Len(Tail(todo)) = Len(todo) - 1
    BY <1>1, TailOf
  <2>4. k \in 1 .. Len(Tail(todo))
    BY <2>1, <2>2, <2>3
  <2>5. Tidies(Tail(todo), t, built) = {k}
    BY <1>2, <1>4, <2>1, <2>2
  <2>6. QED
    BY <2>4, <2>5
<1>5. Tidies(todo, t, built) = {} => Tidies(Tail(todo), t, built) = {}
  BY <1>2
<1>6. QED
  BY <1>3, <1>4, <1>5

\* A call other than checktidy.py that ends leaves the tidying as it was.
LEMMA EndsTidies ==
  ASSUME IInv, TestAllFits, todo # <<>>, Call.cmd # "tidy", Ends, built' = built,
         Call.cmd = "install" => built.type = Call.type, goal' = goal, tidied' = tidied
  PROVE  TidyFits'
<1> SUFFICES ASSUME goal \in TestAllCalls, goal.tidy, NEW t \in Types
             PROVE  IF goal.type \in {"Both", t}
                    THEN \/ tidied[t] = 1 /\ Tidies(Tail(todo), t, built) = {}
                         \/ tidied[t] = 0 /\ \E i \in 1 .. Len(Tail(todo)) : Tidies(Tail(todo), t, built) = {i}
                    ELSE tidied[t] = 0 /\ Tidies(Tail(todo), t, built) = {}
  BY DEF TidyFits, Ends
<1>1. Call = todo[1]
  BY HeadAndTail DEF IInv, TypeInv
<1>2. 1 \notin Tidies(todo, t, built)
  BY <1>1 DEF Tidies
<1>3. QED
  BY <1>2, TidyShifts

LEMMA ConfigureTests ==
  IInv /\ TestAllFits /\ Configure => TestAllFits'
<1> SUFFICES ASSUME IInv, TestAllFits, Configure, goal \in TestAllCalls, goal' = goal PROVE TestAllFits'
  BY DEF TestAllFits, TestsFit, TidyFits, Configure, tests
<1>1. /\ step = "configure" /\ todo # <<>> /\ Call.cmd = "install" /\ Call \in Install
      /\ tidied' = tidied /\ tested' = tested /\ built' = built
  BY CallOfStep DEF Configure, tests
<1>2. todo \in Seq(Calls) /\ cache = None /\ Orderly(todo)
  BY <1>1 DEF IInv, TypeInv, TestAllFits, TestsFit, Runs
<1>3. Full(Call)
  BY <1>1, <1>2, HeadOrderly
<1>4. CASE Fails
  BY <1>4, FailsTests
<1>5. CASE Goes("make") /\ cache' = Configured(Call)
  <2>1. todo' = todo /\ step' = "make" /\ last' = last /\ Call' = Call
    BY <1>5 DEF Goes, Call
  <2>2. IsOf(cache, Call)'
    <3>1. Configured(Call) \in Config
      BY <1>1, <1>2, ConfiguredTyped
    <3>2. /\ Configured(Call).shared = (Call.static = "Off") /\ Configured(Call).type = Call.type
          /\ Configured(Call).sanitize = (Call.sanitize \/ (cache # None /\ cache.sanitize))
      BY <1>3 DEF Configured, Options, Full
    <3>3. (Call.sanitize \/ (cache # None /\ cache.sanitize)) <=> Call.sanitize
      BY <1>2
    <3>4. Sanitized(Configured(Call)) = (Call.sanitize /\ Call.type = "Debug")
      BY <3>2, <3>3 DEF Sanitized
    <3>5. IsOf(Configured(Call), Call)
      BY <3>1, <3>2, <3>4 DEF IsOf
    <3>6. QED
      BY <1>5, <2>1, <3>5 DEF IsOf, Sanitized
  <2>3. TidyFits'
    BY <1>1, <2>1, GoesTidies
  <2>4. tested \cup Wanted(todo) \cup {} = Demanded(goal)
    BY <1>1 DEF TestAllFits, TestsFit
  <2>5. TestsFit'
    BY <1>1, <1>2, <2>1, <2>2, <2>4 DEF TestsFit, Runs
  <2>6. QED
    BY <2>3, <2>5 DEF TestAllFits
<1>6. QED
  BY <1>3, <1>4, <1>5 DEF Configure, Full

LEMMA MakeTests ==
  IInv /\ TestAllFits /\ (Make \/ MakeInstall) => TestAllFits'
<1> SUFFICES ASSUME IInv, TestAllFits, Make \/ MakeInstall, goal \in TestAllCalls, goal' = goal
             PROVE TestAllFits'
  BY DEF TestAllFits, TestsFit, TidyFits, Make, MakeInstall, tests
<1>1. /\ step \in {"make", "install"} /\ todo # <<>> /\ Call.cmd = "install"
      /\ tidied' = tidied /\ tested' = tested /\ cache' = cache
  BY CallOfStep DEF Make, MakeInstall, tests
<1>2. todo \in Seq(Calls) /\ IsOf(cache, Call) /\ Orderly(todo)
  BY <1>1 DEF IInv, TypeInv, TestAllFits, TestsFit, Runs
<1>3. Full(Call)
  BY <1>1, <1>2, HeadOrderly
<1>4. CASE Fails
  BY <1>4, FailsTests
<1>5. ASSUME NEW to \in {"install", "loader"}, Goes(to), to = "loader" => built' = cache
      PROVE  TestAllFits'
  <2>1. todo' = todo /\ step' = to /\ last' = last /\ Call' = Call
    BY <1>5 DEF Goes, Call
  <2>2. IsOf(cache, Call)' /\ (to = "loader" => IsOf(built, Call)')
    BY <1>1, <1>2, <1>5, <2>1 DEF IsOf, Sanitized
  <2>3. TidyFits'
    BY <1>1, <2>1, GoesTidies
  <2>4. tested \cup Wanted(todo) \cup {} = Demanded(goal)
    BY <1>1 DEF TestAllFits, TestsFit
  <2>5. TestsFit'
    BY <1>1, <1>2, <1>5, <2>1, <2>2, <2>4 DEF TestsFit, Runs
  <2>6. QED
    BY <2>3, <2>5 DEF TestAllFits
<1>6. CASE Make
  BY <1>3, <1>4, <1>5, <1>6 DEF Make, Full
<1>7. CASE MakeInstall
  BY <1>3, <1>4, <1>5, <1>7 DEF MakeInstall, Full
<1>8. QED
  BY <1>6, <1>7

LEMMA InstallLoaderTests ==
  IInv /\ TestAllFits /\ InstallLoader => TestAllFits'
<1> SUFFICES ASSUME IInv, TestAllFits, InstallLoader, goal \in TestAllCalls, goal' = goal PROVE TestAllFits'
  BY DEF TestAllFits, TestsFit, TidyFits, InstallLoader, tests
<1>1. /\ step = "loader" /\ todo # <<>> /\ Call.cmd = "install"
      /\ tidied' = tidied /\ tested' = tested /\ cache' = cache /\ built' = built
  BY CallOfStep DEF InstallLoader, tests
<1>2. todo \in Seq(Calls) /\ IsOf(built, Call) /\ Orderly(todo) /\ Call = todo[1]
  BY <1>1, HeadAndTail DEF IInv, TypeInv, TestAllFits, TestsFit, Runs
<1>3. CASE Ends
  <2>1. todo' = Tail(todo) /\ last' = Call /\ Orderly(todo') /\ step' = "test"
    BY <1>1, <1>2, <1>3, NextTest
  <2>2. TidyFits'
    BY <1>1, <1>2, <1>3, EndsTidies DEF IsOf
  <2>3. tested \cup Wanted(todo) = Demanded(goal)
    BY <1>1 DEF TestAllFits, TestsFit
  <2>4. Wanted(todo) = Wanted(Tail(todo)) \cup {Wants(Call)}
    BY <1>1, <1>2, TailWanted
  <2>5. tested \cup Wanted(Tail(todo)) \cup {Wants(Call)} = Demanded(goal)
    BY <2>3, <2>4
  <2>6. IsOf(built, last)'
    BY <1>1, <1>2, <2>1 DEF IsOf, Sanitized
  <2>7. TestsFit'
    BY <1>1, <2>1, <2>5, <2>6 DEF TestsFit
  <2>8. QED
    BY <2>2, <2>7 DEF TestAllFits
<1>4. QED
  BY <1>3, FailsTests DEF InstallLoader

LEMMA UninstallTests ==
  IInv /\ TestAllFits /\ (Declines \/ Remove \/ Clean) => TestAllFits'
<1> SUFFICES ASSUME IInv, TestAllFits, Declines \/ Remove \/ Clean, goal \in TestAllCalls, goal' = goal
             PROVE TestAllFits'
  BY DEF TestAllFits, TestsFit, TidyFits, Declines, Remove, Clean, tests
<1>1. /\ step \in {"remove", "clean"} /\ todo # <<>> /\ Call.cmd = "uninstall"
      /\ tidied' = tidied /\ tested' = tested
  <2>1. step \in {"remove", "clean"} /\ tidied' = tidied /\ tested' = tested
    BY DEF Declines, Remove, Clean, tests
  <2>2. QED
    BY <2>1, CallOfStep
<1>2. todo \in Seq(Calls) /\ Orderly(todo)
  BY DEF IInv, TypeInv, TestAllFits, TestsFit
<1>3. Call.clean
  BY <1>1, <1>2, HeadOrderly
<1>4. CASE Fails
  BY <1>4, FailsTests
<1>5. ASSUME NEW to \in {"clean", "loader"}, Goes(to), to = "loader" => cache' = None
      PROVE  TestAllFits'
  <2>1. todo' = todo /\ step' = to /\ last' = last /\ Call' = Call
    BY <1>5 DEF Goes, Call
  <2>2. TidyFits'
    BY <1>1, <2>1, GoesTidies
  <2>3. tested \cup Wanted(todo) \cup {} = Demanded(goal)
    BY <1>1 DEF TestAllFits, TestsFit
  <2>4. TestsFit'
    BY <1>1, <1>2, <1>5, <2>1, <2>3 DEF TestsFit, Runs
  <2>5. QED
    BY <2>2, <2>4 DEF TestAllFits
<1>6. CASE Declines
  BY <1>4, <1>6 DEF Declines
<1>7. CASE Remove
  BY <1>4, <1>5, <1>7 DEF Remove
<1>8. CASE Clean
  BY <1>3, <1>4, <1>5, <1>8 DEF Clean
<1>9. QED
  BY <1>6, <1>7, <1>8

LEMMA UninstallLoaderTests ==
  IInv /\ TestAllFits /\ UninstallLoader => TestAllFits'
<1> SUFFICES ASSUME IInv, TestAllFits, UninstallLoader, goal \in TestAllCalls, goal' = goal PROVE TestAllFits'
  BY DEF TestAllFits, TestsFit, TidyFits, UninstallLoader, tests
<1>1. /\ step = "loader" /\ todo # <<>> /\ Call.cmd = "uninstall"
      /\ tidied' = tidied /\ tested' = tested /\ cache' = cache /\ built' = built
  BY CallOfStep DEF UninstallLoader, tests
<1>2. todo \in Seq(Calls) /\ cache = None /\ Orderly(todo) /\ Call = todo[1]
  BY <1>1, HeadAndTail DEF IInv, TypeInv, TestAllFits, TestsFit, Runs
<1>3. CASE Ends
  <2>1. todo' = Tail(todo) /\ last' = Call /\ Orderly(todo') /\ step' = "configure"
    BY <1>1, <1>2, <1>3, NextTest
  <2>2. TidyFits'
    BY <1>1, <1>2, <1>3, EndsTidies
  <2>3. tested \cup Wanted(todo) = Demanded(goal)
    BY <1>1 DEF TestAllFits, TestsFit
  <2>4. Wanted(todo) = Wanted(Tail(todo))
    BY <1>1, <1>2, TailWanted
  <2>5. TestsFit'
    BY <1>1, <1>2, <2>1, <2>3, <2>4 DEF TestsFit
  <2>6. QED
    BY <2>2, <2>5 DEF TestAllFits
<1>4. QED
  BY <1>3, FailsTests DEF UninstallLoader

LEMMA TestTests ==
  IInv /\ TestAllFits /\ Test => TestAllFits'
<1> SUFFICES ASSUME IInv, TestAllFits, Test, goal \in TestAllCalls, goal' = goal PROVE TestAllFits'
  BY DEF TestAllFits, TestsFit, TidyFits, Test
<1>1. /\ step = "test" /\ todo # <<>> /\ Call.cmd = "test"
      /\ tidied' = tidied /\ cache' = cache /\ built' = built
  BY CallOfStep DEF Test, disk
<1>2. todo \in Seq(Calls) /\ IsOf(built, last) /\ Orderly(todo) /\ Call = todo[1]
  BY <1>1, HeadAndTail DEF IInv, TypeInv, TestAllFits, TestsFit
<1>3. CASE Ends /\ tested' = tested \cup {[shared |-> built.shared, type |-> built.type,
                                          sanitized |-> Sanitized(built)]}
  <2>1. todo' = Tail(todo) /\ last' = Call /\ Orderly(todo') /\ step' \in {"none", "remove", "tidy"}
    BY <1>1, <1>2, <1>3, NextTest
  <2>2. TidyFits'
    BY <1>1, <1>2, <1>3, EndsTidies
  <2>3. tested \cup Wanted(todo) \cup {Wants(last)} = Demanded(goal)
    BY <1>1 DEF TestAllFits, TestsFit
  <2>4. Wanted(todo) = Wanted(Tail(todo))
    BY <1>1, <1>2, TailWanted
  <2>5. [shared |-> built.shared, type |-> built.type, sanitized |-> Sanitized(built)] = Wants(last)
    BY Zenon, <1>2 DEF Wants, IsOf
  <2>6. tested' \cup Wanted(Tail(todo)) = Demanded(goal)
    BY <1>3, <2>3, <2>4, <2>5
  <2>7. built' \in Config
    BY <1>1, <1>2 DEF IsOf
  <2>8. TestsFit'
    BY <1>1, <2>1, <2>6, <2>7 DEF TestsFit
  <2>9. QED
    BY <2>2, <2>8 DEF TestAllFits
<1>4. QED
  BY <1>3, FailsTests DEF Test

\* Counting is done on numbers.
TidiedTyped == tidied \in [Types -> Nat]

LEMMA TidyTests ==
  IInv /\ TestAllFits /\ TidiedTyped /\ Tidy => TestAllFits'
<1> SUFFICES ASSUME IInv, TestAllFits, TidiedTyped, Tidy, goal \in TestAllCalls, goal' = goal
             PROVE TestAllFits'
  BY DEF TestAllFits, TestsFit, TidyFits, Tidy
<1>1. /\ step = "tidy" /\ todo # <<>> /\ Call.cmd = "tidy"
      /\ tested' = tested /\ cache' = cache /\ built' = built
  BY CallOfStep DEF Tidy, disk
<1>2. todo \in Seq(Calls) /\ built \in Config /\ Orderly(todo) /\ Call = todo[1] /\ Len(todo) \in Nat \ {0}
  BY <1>1, HeadAndTail DEF IInv, TypeInv, TestAllFits, TestsFit
<1>3. CASE Ends /\ tidied' = [tidied EXCEPT ![built.type] = @ + 1]
  <2>1. todo' = Tail(todo) /\ last' = Call /\ Orderly(todo') /\ step' \in {"none", "remove"}
    BY <1>1, <1>2, <1>3, NextTest
  <2>2. tested \cup Wanted(todo) = Demanded(goal)
    BY <1>1 DEF TestAllFits, TestsFit
  <2>3. Wanted(todo) = Wanted(Tail(todo))
    BY <1>1, <1>2, TailWanted
  <2>4. TestsFit'
    BY <1>1, <2>1, <2>2, <2>3 DEF TestsFit
  <2>5. ASSUME goal.tidy, NEW t \in Types
        PROVE  IF goal.type \in {"Both", t}
               THEN \/ tidied'[t] = 1 /\ Tidies(Tail(todo), t, built) = {}
                    \/ tidied'[t] = 0 /\ \E i \in 1 .. Len(Tail(todo)) : Tidies(Tail(todo), t, built) = {i}
               ELSE tidied'[t] = 0 /\ Tidies(Tail(todo), t, built) = {}
    <3>1. 1 \in Tidies(todo, t, built) <=> built.type = t
      BY <1>1, <1>2 DEF Tidies, TypeOf
    <3>2. CASE built.type # t
      <4>1. tidied'[t] = tidied[t]
        BY <1>3, <3>2 DEF TidiedTyped
      <4>2. QED
        BY <1>1, <2>5, <3>1, <3>2, <4>1, TidyShifts
    <3>3. CASE built.type = t
      <4>1. IF goal.type \in {"Both", t}
            THEN \/ tidied[t] = 1 /\ Tidies(todo, t, built) = {}
                 \/ tidied[t] = 0 /\ \E i \in 1 .. Len(todo) : Tidies(todo, t, built) = {i}
            ELSE tidied[t] = 0 /\ Tidies(todo, t, built) = {}
        BY <1>1, <2>5 DEF TestAllFits, TidyFits
      <4>2. goal.type \in {"Both", t} /\ tidied[t] = 0 /\ Tidies(todo, t, built) = {1}
        BY <3>1, <3>3, <4>1
      <4>3. tidied'[t] = 1
        BY <1>3, <3>3, <4>2 DEF TidiedTyped
      <4>4. todo[1].cmd # "install"
        BY <1>1, <1>2
      <4>5. Tidies(Tail(todo), t, built) = {i - 1 : i \in Tidies(todo, t, built) \ {1}}
        BY <1>1, <1>2, <4>4, TailTidies
      <4>6. Tidies(Tail(todo), t, built) = {}
        BY <4>2, <4>5
      <4>7. QED
        BY <4>2, <4>3, <4>6
    <3>4. QED
      BY <3>2, <3>3
  <2>6. TidyFits'
    BY <1>1, <2>1, <2>5 DEF TidyFits
  <2>7. QED
    BY <2>4, <2>6 DEF TestAllFits
<1>4. QED
  BY <1>3, FailsTests DEF Tidy

LEMMA RunsTests ==
  IInv /\ (RunInstall \/ RunUninstall \/ RunTestAll \/ RunPackage) => TestAllFits'
<1> SUFFICES ASSUME RunInstall \/ RunUninstall \/ RunTestAll \/ RunPackage, goal' \in TestAllCalls
             PROVE TestAllFits'
  BY DEF TestAllFits, TestsFit, TidyFits
<1>1. None \notin TestAll /\ TestAllCalls \subseteq TestAll /\ PackageCalls \subseteq Package
  BY ScriptsAssumption
<1>2. RunTestAll
  BY <1>1, KindsApart DEF RunInstall, RunUninstall, RunPackage
<1>3. PICK a \in TestAllCalls : Starts(TestAllSteps(a)) /\ goal' = a
  BY <1>2 DEF RunTestAll
<1>4. Plan(TestAllSteps(a), Demanded(a), IF a.tidy THEN Asked(a) ELSE {})
  BY <1>1, TestAllPlan
<1>5. /\ todo' = TestAllSteps(a) /\ step' = At(todo') /\ last' = None
      /\ tested' = {} /\ tidied' = [t \in Types |-> 0]
  BY <1>3 DEF Starts
<1>6. todo' \in Seq(Calls) /\ Orderly(todo') /\ Wanted(todo') = Demanded(a)
  BY <1>4, <1>5 DEF Plan
<1>7. step' \in {"none", "remove"}
  <2>1. CASE todo' = <<>>
    BY <1>5, <2>1 DEF At
  <2>2. CASE todo' # <<>>
    <3>1. Head(todo') = todo'[1] /\ todo'[1].cmd = "uninstall"
      BY <1>4, <1>5, <1>6, <2>2 DEF Plan
    <3>2. QED
      BY <1>5, <2>2, <3>1 DEF At, FirstStep
  <2>3. QED
    BY <2>1, <2>2
<1>8. TestsFit'
  BY <1>3, <1>5, <1>6, <1>7 DEF TestsFit
<1>9. TidyFits'
  <2> SUFFICES ASSUME a.tidy, NEW t \in Types, NEW now
               PROVE  IF a.type \in {"Both", t}
                      THEN tidied'[t] = 0 /\ \E i \in 1 .. Len(todo') : Tidies(todo', t, now) = {i}
                      ELSE tidied'[t] = 0 /\ Tidies(todo', t, now) = {}
    BY <1>3 DEF TidyFits
  <2>1. t \in Asked(a) <=> a.type \in {"Both", t}
    BY DEF Asked
  <2>2. IF t \in Asked(a) THEN \E i \in 1 .. Len(todo') : Tidies(todo', t, now) = {i}
        ELSE Tidies(todo', t, now) = {}
    BY <1>4, <1>5 DEF Plan
  <2>3. tidied'[t] = 0
    BY <1>5
  <2>4. QED
    BY <2>1, <2>2, <2>3
<1>10. QED
  BY <1>8, <1>9 DEF TestAllFits

\* What testall.py is in the middle of: every configuration still to be tested is
\* installed from a clean build folder first, and what has been tested and is still
\* to be tested is what was asked for.
THEOREM TestAllInvariance == Spec => []TestAllFits
<1>1. Init => TestAllFits /\ TidiedTyped
  <2> SUFFICES ASSUME Init PROVE TestAllFits /\ TidiedTyped
    OBVIOUS
  <2>1. goal \notin TestAllCalls
    BY ScriptsAssumption DEF Init
  <2>2. QED
    BY <2>1 DEF Init, TestAllFits, TestsFit, TidyFits, TidiedTyped
<1>2. IInv /\ TestAllFits /\ TidiedTyped /\ [Next]_vars => TestAllFits' /\ TidiedTyped'
  <2> SUFFICES ASSUME IInv, TestAllFits, TidiedTyped, [Next]_vars PROVE TestAllFits' /\ TidiedTyped'
    OBVIOUS
  <2>1. CASE UNCHANGED vars
    <3>1. Call' = Call
      BY <2>1 DEF vars, Call
    <3>2. QED
      BY <2>1, <3>1 DEF vars, TestAllFits, TestsFit, TidyFits, TidiedTyped, Runs, IsOf, Sanitized
  <2>2. TestAllFits'
    BY <2>1, ConfigureTests, MakeTests, InstallLoaderTests, UninstallTests, UninstallLoaderTests,
       TestTests, TidyTests, RunsTests DEF Next
  <2>3. TidiedTyped'
    <3>1. CASE tidied' = tidied
      BY <3>1 DEF TidiedTyped
    <3>2. CASE tidied' = [t \in Types |-> 0]
      BY <3>2 DEF TidiedTyped
    <3>3. CASE tidied' = [tidied EXCEPT ![built.type] = @ + 1]
      <4>1. PICK b : b = built.type
        OBVIOUS
      <4>2. tidied' = [tidied EXCEPT ![b] = @ + 1]
        BY <3>3, <4>1
      <4>3. \A t \in Types : tidied[t] + 1 \in Nat
        BY DEF TidiedTyped
      <4>4. QED
        BY <4>2, <4>3 DEF TidiedTyped
    <3>4. QED
      BY <2>1, <3>1, <3>2, <3>3
         DEF vars, Next, RunInstall, RunUninstall, RunTestAll, RunPackage, Starts, Configure, Make, MakeInstall,
             InstallLoader, Declines, Remove, Clean, UninstallLoader, Test, Tidy, tests
  <2>4. QED
    BY <2>2, <2>3
<1>3. QED
  BY <1>1, <1>2, ScriptsInvariance, PTL DEF Spec

\* A call of testall.py that has ended well has tested all the configurations that
\* it was asked for and no other, whatever had been built or installed before.
THEOREM TestsAllThatIsDemanded == Spec => []TestsWhatIsDemanded
<1>1. IInv /\ TestAllFits => TestsWhatIsDemanded
  <2> SUFFICES ASSUME IInv, TestAllFits, goal \in TestAllCalls, step = "none", last # None
               PROVE tested = Demanded(goal)
    BY DEF TestsWhatIsDemanded
  <2>1. tested \cup Wanted(todo) = Demanded(goal) /\ todo = <<>>
    BY DEF IInv, StepFits, TestAllFits, TestsFit
  <2>2. Wanted(<<>>) = {}
    BY DEF Wanted
  <2>3. QED
    BY <2>1, <2>2
<1>2. QED
  BY <1>1, ScriptsInvariance, TestAllInvariance, PTL

\* A call of testall.py with clang-tidy that has ended well has run it exactly once
\* on each build type that was asked for.
THEOREM TidiesEachTypeOnce == Spec => []TidiedOnce
<1>1. IInv /\ TestAllFits => TidiedOnce
  <2> SUFFICES ASSUME IInv, TestAllFits, goal \in TestAllCalls, step = "none", last # None, goal.tidy,
                      NEW t \in Types
               PROVE tidied[t] = IF goal.type \in {"Both", t} THEN 1 ELSE 0
    BY DEF TidiedOnce
  <2>1. todo = <<>>
    BY DEF IInv, StepFits
  <2>2. \A i : ~(i \in 1 .. Len(<<>>))
    OBVIOUS
  <2>3. IF goal.type \in {"Both", t}
        THEN \/ tidied[t] = 1
             \/ tidied[t] = 0 /\ \E i \in 1 .. Len(todo) : Tidies(todo, t, built) = {i}
        ELSE tidied[t] = 0
    BY DEF TestAllFits, TidyFits
  <2>4. QED
    BY <2>1, <2>2, <2>3
<1>2. QED
  BY <1>1, ScriptsInvariance, TestAllInvariance, PTL
=============================================================================
