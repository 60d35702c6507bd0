-------------------------- MODULE MCInstallScripts --------------------------
(***************************************************************************)
(* The calls of the scripts that TLC runs, in any order and number.        *)
(***************************************************************************)
EXTENDS InstallScripts, TLC

Symmetry == Permutations(Prefixes)

AnyTests == {a \in TestAll : a.sudo /\ (a.tidy \/ (a.link = "Both" /\ a.type = "Both"))}
NoCalls  == {}

\* Installs with every choice of library, folder and sudo, with documentation or
\* with what an earlier build had, with or without a configuration.
Installs ==
  {c \in Install : /\ c.docs # "Off" /\ c.type = "Release" /\ ~c.sanitize
                   /\ c.make /\ c.install
                   /\ ~c.configure => c.docs = "Cache"}

Uninstalls == {c \in Uninstall : c.uninstall /\ ~c.prompt}

\* Builds of both types, with and without --sanitize, that may skip every stage
\* (what is not configured ignores these options).
Builds ==
  {c \in Install : /\ c.docs = "Off" /\ c.static = "Off" /\ c.sudo /\ c.dest = None
                   /\ ~c.configure => c.type = "Release" /\ ~c.sanitize}

Removals ==
  {c \in Uninstall : /\ c.uninstall \/ c.clean
                     /\ IF c.dest = None THEN c.sudo ELSE c.uninstall /\ ~c.clean /\ ~c.sudo
                     /\ c.prompt = (c.uninstall /\ c.clean)}

AnyPackages == Package
=============================================================================
