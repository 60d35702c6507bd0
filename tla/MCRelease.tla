----------------------------- MODULE MCRelease -----------------------------
(***************************************************************************)
(* The instance of Release that TLC checks: any CHANGES of up to three     *)
(* lines at first, then one or two entries; the calls of debian_create.py  *)
(* for a whole release, for parts of it and for what is left after them,   *)
(* the last with a revision of its own.                                    *)
(***************************************************************************)
EXTENDS Release

Start(v) == [mark |-> "start", of |-> v]
End      == [mark |-> "end", of |-> "a1"]

TwoEntries == {<<Start(e[1]), End, Start(e[2]), End>> : e \in Versions \X Versions}
MCFiles    == BoundedSeq(Line, 3) \cup TwoEntries
MCEdits    == {<<Start("0.1"), End>>, <<Start("0.2"), End, Start("0.1"), End>>}

\* One package for building more than debian_create.py lists, as the comment of
\* frag_debian_create.py allows, so that a wrong order would show.
Pkgs    == <<"libfspropfaker">>
DevPkgs == <<"libfspropfaker-dev", "libfspropfaker-doc">>

MCCalls ==
  {c \in [tool : {"debian"}, source : BOOLEAN, binaries : BOOLEAN, dist : BOOLEAN,
          asked : {None}, revision : 1 .. 2] :
     IF c.source THEN (c.dist => c.binaries) /\ c.revision = 1 ELSE c.dist}
  \cup [tool : {"debian"}, source : {TRUE}, binaries : {TRUE}, dist : {TRUE},
          asked : {"0.2"}, revision : {1}]
  \cup [tool : {"arch"}, asked : {None}, revision : {1}]
  \cup [tool : {"sourcepackage"}, touch : {FALSE}]
=============================================================================
