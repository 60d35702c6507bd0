------------------------------ MODULE Changes ------------------------------
(***************************************************************************)
(* getLastVersionAndDateFromChanged, of which debian_create.py and         *)
(* arch_create.py hold a copy each: the CHANGES file is read line by line  *)
(* until the entry after the first Skip ones has ended.  The file may be   *)
(* edited between two calls.                                               *)
(*                                                                         *)
(* A line is known by which regular expression it matches: the start of an *)
(* entry (with its version), the end of one (with its author), an end      *)
(* whose date no calendar has, or none.  The text is the numbers of the    *)
(* lines that it is made of.                                               *)
(***************************************************************************)
EXTENDS Integers, Sequences, FiniteSets

CONSTANTS
  Versions, \* the versions in the file, and those given on a command line
  Authors,  \* those who sign an entry
  None,     \* the empty string of the code
  Files,    \* what CHANGES may hold at first
  Edits,    \* what it may hold after it has been edited
  Skip      \* nSkip; 0 in both scripts

Line == [mark : {"start"}, of : Versions] \cup [mark : {"end"}, of : Authors]
          \cup [mark : {"faulty end", "text"}, of : {None}]

ASSUME ChangesAssumption ==
  /\ None \notin Versions \cup Authors
  /\ Files \cup Edits \subseteq Seq(Line)
  /\ Skip \in Int

VARIABLES
  changes, \* the lines of the file
  outcome, \* of the call: "idle" before the first one, then "reading" until it ends
  pos,     \* the next line
  skip,    \* nSkip
  within,  \* bWithinEntry
  version, \* sLastVersion
  author,  \* sAuthorFullName and sAuthorEMail
  text     \* sText

locals == <<pos, skip, within, version, author, text>>
reader == <<changes, outcome, locals>>

Returned == outcome = "returned"

ChangesInit ==
  /\ changes \in Files /\ outcome = "idle"
  /\ pos = 1 /\ skip = Skip /\ within = FALSE
  /\ version = None /\ author = None /\ text = <<>>

Fresh == /\ pos' = 1 /\ skip' = Skip /\ within' = FALSE
         /\ version' = None /\ author' = None /\ text' = <<>>

\* Somebody writes the file while it is not being read.
Edit == outcome # "reading" /\ changes' \in Edits /\ outcome' = "idle" /\ Fresh

-----------------------------------------------------------------------------
Call == outcome # "reading" /\ outcome' = "reading" /\ Fresh /\ UNCHANGED changes

\* The caller has taken what was returned, or has been killed.
Leave == outcome' = "idle" /\ Fresh /\ UNCHANGED changes

Ends(how) == outcome' = how /\ UNCHANGED changes
Raises    == Ends("raised") /\ UNCHANGED locals

\* A file that may not be read counts as one without entries, and one that is not
\* there is an exception that nobody catches: neither has a version.
CannotOpen ==
  /\ outcome = "reading" /\ pos = 1
  /\ Ends("no file") /\ UNCHANGED locals

NextLine == outcome = "reading" /\ pos <= Len(changes)
ReadsOn  == pos' = pos + 1 /\ UNCHANGED <<changes, outcome>>

\* A variant that forgets that an entry is open.
ReadStartAnywhere ==
  /\ NextLine /\ changes[pos].mark = "start"
  /\ version' = changes[pos].of /\ within' = TRUE
  /\ text' = Append(text, pos)
  /\ ReadsOn /\ UNCHANGED <<skip, author>>

ReadStart ==
  /\ NextLine /\ changes[pos].mark = "start"
  /\ IF within \/ skip < 0 THEN Raises
     ELSE /\ version' = changes[pos].of /\ within' = TRUE
          /\ text' = Append(text, pos)
          /\ ReadsOn /\ UNCHANGED <<skip, author>>

\* The last line of an entry is not part of the text.
ReadEnd ==
  /\ NextLine /\ changes[pos].mark = "end"
  /\ IF ~within THEN Raises
     ELSE /\ within' = FALSE /\ skip' = skip - 1 /\ author' = changes[pos].of
          /\ UNCHANGED <<version, text>>
          /\ IF skip' < 0 THEN Ends("returned") /\ UNCHANGED pos ELSE ReadsOn

ReadFaultyEnd == NextLine /\ changes[pos].mark = "faulty end" /\ Raises

ReadText ==
  /\ NextLine /\ changes[pos].mark = "text"
  /\ text' = IF within THEN Append(text, pos) ELSE text
  /\ ReadsOn /\ UNCHANGED <<skip, within, version, author>>

\* A variant that forgets the entry that is still open.
EndOfFileAnyhow ==
  /\ outcome = "reading" /\ pos = Len(changes) + 1
  /\ Ends("nothing") /\ UNCHANGED locals

\* The else of the loop: no entry has ended that was not to be skipped.
EndOfFile ==
  /\ outcome = "reading" /\ pos = Len(changes) + 1
  /\ IF within THEN Raises ELSE Ends("nothing") /\ UNCHANGED locals

Reads == CannotOpen \/ ReadStart \/ ReadEnd \/ ReadFaultyEnd \/ ReadText \/ EndOfFile

ChangesNext == Edit \/ Call \/ Reads \/ Leave

ChangesSpec == ChangesInit /\ [][ChangesNext]_reader

-----------------------------------------------------------------------------
\* The reader's variables.
Outcomes == {"idle", "reading", "returned", "nothing", "raised", "no file"}

ReaderOK ==
  /\ changes \in Seq(Line)
  /\ outcome \in Outcomes
  /\ pos \in Nat \ {0} /\ skip \in Int /\ within \in BOOLEAN
  /\ version \in Versions \cup {None} /\ author \in Authors \cup {None}
  /\ text \in Seq(Nat)

\* What an entry is, whatever the loop does: a start and an end without a mark
\* between them.
Marked(k)    == changes[k].mark # "text"
Entry(i, j)  == /\ i < j /\ changes[i].mark = "start" /\ changes[j].mark = "end"
                /\ \A k \in i + 1 .. j - 1 : ~Marked(k)
Ended(j)     == {k \in 1 .. j : changes[k].mark = "end"}
\* Every mark up to line j is one of an entry's.
Regular(j)   == \A k \in 1 .. j : Marked(k) => \E i \in 1 .. j : Entry(i, k) \/ Entry(k, i)

\* The comment on what the function returns: the version, the author and the text
\* are those of one entry, the first after Skip others.
ReturnsAnEntry ==
  Returned => \E i, j \in 1 .. Len(changes) :
                /\ Entry(i, j) /\ Regular(j)
                /\ Cardinality(Ended(j)) = Skip + 1
                /\ version = changes[i].of /\ author = changes[j].of
                /\ Skip = 0 => text = [k \in 1 .. j - i |-> i + k - 1]

\* "faulty" is said of a faulty file only, and a file of which nothing is
\* returned has no entry beyond those to skip.
RefusesWhatIsFaulty ==
  /\ outcome = "raised" => (Skip < 0 \/ ~Regular(Len(changes)))
  /\ outcome = "nothing" =>
       Regular(Len(changes)) /\ (Skip < 0 \/ Cardinality(Ended(Len(changes))) <= Skip)

\* Of a reader at line pos: the entry that is open began in line i, and the lines
\* before it are those of whole entries, as many as have been skipped.
Opened(i) ==
  /\ i < pos /\ changes[i].mark = "start" /\ version = changes[i].of
  /\ Regular(i - 1) /\ \A k \in i + 1 .. pos - 1 : ~Marked(k)
  /\ Skip = 0 => text = [k \in 1 .. pos - i |-> i + k - 1]

ReadsEntries ==
  outcome = "reading" =>
    /\ pos <= Len(changes) + 1
    /\ skip = Skip - Cardinality(Ended(pos - 1))
    /\ IF within THEN skip >= 0 /\ \E i \in 1 .. Len(changes) : Opened(i)
       ELSE /\ Regular(pos - 1) /\ (Skip = 0 => text = <<>>)
            /\ skip >= 0 \/ (Skip < 0 /\ skip = Skip)

ReaderInv == ReaderOK /\ ReadsEntries /\ ReturnsAnEntry /\ RefusesWhatIsFaulty
=============================================================================
