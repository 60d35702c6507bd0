----------------------------- MODULE CheckCode -----------------------------
(***************************************************************************)
(* checkcode.py, the first thing that testall.py runs: a walk over the     *)
(* source tree that changes the current folder as it goes, and stops at the*)
(* first file with a fault.                                                *)
(*                                                                         *)
(* A folder or a file is the sequence of the names that lead to it from the*)
(* root of the sources.  Which files have a line that begins with std::cout*)
(* or that pylint complains of, which may not be read, and whether pylint3 *)
(* is installed at all, differs from one call to the next.                 *)
(***************************************************************************)
EXTENDS Integers, Sequences

CONSTANTS
  Folders,   \* the folders below the root
  Files,
  Links,     \* of every symbolic link to a folder: that folder
  Above,     \* the names of the folders that lead to the root
  Hidden,    \* the names that begin with a point
  Fragments, \* the names that begin with frag_
  Ext        \* of every name of a file: its extension, from the last point on

Paths == Folders \cup Files \cup DOMAIN Links

ASSUME CheckCodeAssumption ==
  /\ Paths \subseteq Seq(STRING) \ {<<>>}
  /\ \A p \in Paths : \A k \in 1 .. Len(p) - 1 : SubSeq(p, 1, k) \in Folders
  /\ \A l \in DOMAIN Links : Links[l] \in Folders
  /\ Folders \cap Files = {} /\ DOMAIN Links \cap (Folders \cup Files) = {}

VARIABLES
  cout, lint, closed, \* the files with such a line, with complaints, that may not be read
  pylint,             \* pylint3 is installed
  cwd,                \* the current folder
  todo,               \* of every folder that is being walked, the innermost last: the names left
  result              \* "walking", then "ok", "found" a fault, or another "error"

given == <<cout, lint, closed, pylint>>
vars  == <<given, cwd, todo, result>>

Name(p) == p[Len(p)]
Up(p)   == SubSeq(p, 1, Len(p) - 1)
Names(folder) == {Name(p) : p \in {q \in Paths : Up(q) = folder}}

CxxExts   == {".cc", ".cpp", ".cxx", ".c++", ".h", ".hh", ".hpp", ".hxx", ".cc.in"}
SkipNames == {"build", "nbproject", "thirdparty", "stuff", ".git"}

Cxx    == {p \in Files : Ext[Name(p)] \in CxxExts}
Python == {p \in Files : Ext[Name(p)] = ".py"}

Init ==
  /\ cout \in SUBSET Cxx /\ lint \in SUBSET Python /\ closed \in SUBSET Cxx
  /\ pylint \in BOOLEAN
  /\ cwd = <<>> /\ todo = <<Names(<<>>)>>
  /\ result = "walking"

-----------------------------------------------------------------------------
Left    == todo[Len(todo)]
Takes(n) == result = "walking" /\ n \in Left
Rest(n) == [todo EXCEPT ![Len(todo)] = @ \ {n}]
Goes(n) == todo' = Rest(n) /\ UNCHANGED <<cwd, result>>
Finds   == result' = "found" /\ UNCHANGED <<cwd, todo>>

\* pathHasToBeSkipped: a folder of such a name anywhere in the absolute path.
HasToBeSkipped(p) == Above \cap SkipNames # {} \/ \E i \in 1 .. Len(p) - 1 : p[i] \in SkipNames

PassOver(n) ==
  /\ Takes(n)
  /\ n \in Hidden \/ Append(cwd, n) \in DOMAIN Links
  /\ Goes(n)

EnterFolder(n) ==
  /\ Takes(n) /\ n \notin Hidden
  /\ Append(cwd, n) \in Folders
  /\ cwd' = Append(cwd, n)
  /\ todo' = Append(Rest(n), Names(cwd'))
  /\ UNCHANGED result

\* A variant that stays where it is.
LeaveFolderStays ==
  /\ result = "walking" /\ Left = {} /\ Len(todo) > 1
  /\ todo' = Up(todo)
  /\ UNCHANGED <<cwd, result>>

LeaveFolder ==
  /\ result = "walking" /\ Left = {} /\ Len(todo) > 1
  /\ cwd' = Up(cwd) /\ todo' = Up(todo)
  /\ UNCHANGED result

WalkEnds ==
  /\ result = "walking" /\ Left = {} /\ Len(todo) = 1
  /\ result' = "ok"
  /\ UNCHANGED <<cwd, todo>>

\* A variant that looks into every file.
CheckCoutAnywhere(n) ==
  /\ Takes(n) /\ n \notin Hidden /\ Append(cwd, n) \in Cxx
  /\ IF Append(cwd, n) \in cout \ closed THEN Finds ELSE Goes(n)

\* A file that may not be read has no fault.
CheckCout(n) ==
  /\ Takes(n) /\ n \notin Hidden /\ Append(cwd, n) \in Cxx
  /\ IF Append(cwd, n) \in cout \ closed /\ ~HasToBeSkipped(Append(cwd, n)) THEN Finds ELSE Goes(n)

\* What pylint3 prints, which is nothing when there is no pylint3.
CheckLint(n) ==
  /\ Takes(n) /\ n \notin Hidden /\ Append(cwd, n) \in Python
  /\ IF Append(cwd, n) \in lint /\ n \notin Fragments /\ pylint /\ ~HasToBeSkipped(Append(cwd, n))
     THEN Finds ELSE Goes(n)

OtherFile(n) ==
  /\ Takes(n) /\ n \notin Hidden /\ Append(cwd, n) \in Files \ (Cxx \cup Python)
  /\ Goes(n)

\* A folder that cannot be listed or entered.
Breaks == result = "walking" /\ result' = "error" /\ UNCHANGED <<cwd, todo>>

Next ==
  /\ \/ \E n \in Left : PassOver(n) \/ EnterFolder(n) \/ CheckCout(n) \/ CheckLint(n) \/ OtherFile(n)
     \/ LeaveFolder \/ WalkEnds \/ Breaks
  /\ UNCHANGED given

Spec == Init /\ [][Next]_vars

-----------------------------------------------------------------------------
\* Without the walk: the files that are reached and looked into.
Reached(p) == \A i \in 1 .. Len(p) : p[i] \notin Hidden
Faults == {p \in cout \ closed : Reached(p) /\ ~HasToBeSkipped(p)}
            \cup {p \in lint : Reached(p) /\ ~HasToBeSkipped(p) /\ pylint /\ Name(p) \notin Fragments}

\* The comments in checkCurDir: what is neither hidden nor behind a link is
\* checked, so that the walk ends well if and only if there is no fault.
FindsEveryFault ==
  /\ result = "ok" => Faults = {}
  /\ result = "found" => Faults # {}

\* The current folder, which every path is relative to, is the one whose names are
\* left, although it is changed by relative steps.
StaysOnPath ==
  /\ Left \subseteq Names(cwd) /\ Len(todo) = Len(cwd) + 1
  /\ result = "ok" => cwd = <<>>
=============================================================================
