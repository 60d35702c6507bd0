--------------------------- MODULE ChangesProofs ---------------------------
(***************************************************************************)
(* Proofs about Changes, for files of any length, however they are edited  *)
(* between the calls, and for any number of entries to skip.               *)
(*                                                                         *)
(* ReaderInv is inductive: what has been read so far is whole entries, as  *)
(* many as skip has been counted down by, and maybe the start and the text *)
(* of one more.  Within such an entry any other mark, and outside of one an*)
(* end, shows that no reading of the whole file makes entries of it.       *)
(***************************************************************************)
EXTENDS Changes, FiniteSetTheorems, TLAPS

LEMMA LineAt ==
  ASSUME changes \in Seq(Line), NEW k \in 1 .. Len(changes)
  PROVE  /\ changes[k].mark \in {"start", "end", "faulty end", "text"}
         /\ changes[k].mark = "start" => changes[k].of \in Versions
         /\ changes[k].mark = "end" => changes[k].of \in Authors
<1>1. changes[k] \in Line
  OBVIOUS
<1>2. QED
  BY <1>1 DEF Line

LEMMA FreshTypes ==
  ASSUME Fresh
  PROVE  /\ pos' \in Nat \ {0} /\ skip' \in Int /\ within' \in BOOLEAN
         /\ version' \in Versions \cup {None} /\ author' \in Authors \cup {None}
         /\ text' \in Seq(Nat)
<1>1. pos' \in Nat \ {0} /\ skip' \in Int
  BY ChangesAssumption DEF Fresh
<1>2. within' \in BOOLEAN
  BY DEF Fresh
<1>3. version' \in Versions \cup {None} /\ author' \in Authors \cup {None}
  BY DEF Fresh
<1>4. text' \in Seq(Nat)
  BY DEF Fresh
<1>5. QED
  BY <1>1, <1>2, <1>3, <1>4

LEMMA ReaderTypeStep == ReaderOK /\ [ChangesNext]_reader => ReaderOK'
<1> SUFFICES ASSUME ReaderOK, [ChangesNext]_reader PROVE ReaderOK'
  OBVIOUS
<1>0. ASSUME UNCHANGED reader PROVE ReaderOK'
  BY <1>0 DEF ReaderOK, reader, locals
<1>1. ASSUME Edit PROVE ReaderOK'
  <2>1. changes' \in Seq(Line) /\ outcome' \in Outcomes /\ Fresh
    BY <1>1, ChangesAssumption DEF Edit, Outcomes
  <2>2. QED
    BY <2>1, FreshTypes DEF ReaderOK
<1>2. ASSUME Call PROVE ReaderOK'
  <2>1. changes' \in Seq(Line) /\ outcome' \in Outcomes /\ Fresh
    BY <1>2 DEF Call, ReaderOK, Outcomes
  <2>2. QED
    BY <2>1, FreshTypes DEF ReaderOK
<1>3. ASSUME Leave PROVE ReaderOK'
  <2>1. changes' \in Seq(Line) /\ outcome' \in Outcomes /\ Fresh
    BY <1>3 DEF Leave, ReaderOK, Outcomes
  <2>2. QED
    BY <2>1, FreshTypes DEF ReaderOK
<1>4. ASSUME NEW how \in {"returned", "nothing", "raised", "no file"}, Ends(how), UNCHANGED locals
      PROVE  ReaderOK'
  BY <1>4 DEF ReaderOK, Ends, locals, Outcomes
<1>5. ASSUME ReadStart PROVE ReaderOK'
  <2>1. CASE Raises
    BY <2>1, <1>4 DEF Raises
  <2>2. CASE ~Raises
    <3>1. /\ version' = changes[pos].of /\ within' = TRUE /\ text' = Append(text, pos)
          /\ pos' = pos + 1 /\ UNCHANGED <<changes, outcome, skip, author>>
          /\ pos \in 1 .. Len(changes) /\ changes[pos].mark = "start"
      BY <1>5, <2>2 DEF ReadStart, ReadsOn, NextLine, ReaderOK
    <3>2. text' \in Seq(Nat) /\ pos' \in Nat \ {0}
      BY <3>1 DEF ReaderOK
    <3>3. version' \in Versions \cup {None}
      BY <3>1, LineAt DEF ReaderOK
    <3>4. within' \in BOOLEAN
      BY <3>1
    <3>5. outcome' \in Outcomes /\ skip' \in Int /\ author' \in Authors \cup {None}
      BY <3>1 DEF ReaderOK
    <3>6. changes' \in Seq(Line)
      BY <3>1 DEF ReaderOK
    <3>7. QED
      BY <3>2, <3>3, <3>4, <3>5, <3>6 DEF ReaderOK
  <2>3. QED
    BY <2>1, <2>2
<1>6. ASSUME ReadEnd PROVE ReaderOK'
  <2>1. CASE Raises
    BY <2>1, <1>4 DEF Raises
  <2>2. CASE ~Raises
    <3>1. /\ within' = FALSE /\ skip' = skip - 1 /\ author' = changes[pos].of
          /\ UNCHANGED <<changes, version, text>>
          /\ outcome' \in {"returned", outcome} /\ pos' \in {pos, pos + 1}
          /\ pos \in 1 .. Len(changes) /\ changes[pos].mark = "end"
      BY <1>6, <2>2 DEF ReadEnd, Ends, ReadsOn, NextLine, ReaderOK
    <3>2. pos' \in Nat \ {0} /\ skip' \in Int
      BY <3>1 DEF ReaderOK
    <3>3. author' \in Authors \cup {None}
      BY <3>1, LineAt DEF ReaderOK
    <3>4. within' \in BOOLEAN
      BY <3>1
    <3>5. /\ outcome' \in Outcomes
          /\ version' \in Versions \cup {None} /\ text' \in Seq(Nat)
      BY <3>1 DEF ReaderOK, Outcomes
    <3>6. changes' \in Seq(Line)
      BY <3>1 DEF ReaderOK
    <3>7. QED
      BY <3>2, <3>3, <3>4, <3>5, <3>6 DEF ReaderOK
  <2>3. QED
    BY <2>1, <2>2
<1>7. ASSUME ReadText PROVE ReaderOK'
  <2>1. /\ text' \in {Append(text, pos), text} /\ pos' = pos + 1
        /\ UNCHANGED <<changes, outcome, skip, within, version, author>>
    BY <1>7 DEF ReadText, ReadsOn
  <2>2. text' \in Seq(Nat) /\ pos' \in Nat \ {0}
    BY <2>1 DEF ReaderOK
  <2>3. within' \in BOOLEAN
    BY <2>1 DEF ReaderOK
  <2>4. /\ changes' \in Seq(Line) /\ outcome' \in Outcomes /\ skip' \in Int
        /\ version' \in Versions \cup {None} /\ author' \in Authors \cup {None}
    BY <2>1 DEF ReaderOK
  <2>5. QED
    BY <2>2, <2>3, <2>4 DEF ReaderOK
<1>8. CASE CannotOpen
  BY <1>8, <1>4 DEF CannotOpen
<1>9. CASE ReadFaultyEnd
  BY <1>9, <1>4 DEF ReadFaultyEnd, Raises
<1>10. CASE EndOfFile
  BY <1>10, <1>4 DEF EndOfFile, Raises
<1>11. QED
  BY <1>0, <1>1, <1>2, <1>3, <1>5, <1>6, <1>7, <1>8, <1>9, <1>10 DEF ChangesNext, Reads

-----------------------------------------------------------------------------
\* Ended counts one line more at the end of an entry.
LEMMA EndedFinite == \A j \in Nat : IsFiniteSet(Ended(j)) /\ Cardinality(Ended(j)) \in Nat
<1> SUFFICES ASSUME NEW j \in Nat
             PROVE  IsFiniteSet(Ended(j)) /\ Cardinality(Ended(j)) \in Nat
  OBVIOUS
<1>1. IsFiniteSet(1 .. j)
  BY FS_Interval
<1>2. Ended(j) \subseteq 1 .. j
  BY DEF Ended
<1>3. QED
  BY <1>1, <1>2, FS_Subset, FS_CardinalityType

LEMMA EndedNone == Ended(0) = {} /\ Cardinality(Ended(0)) = 0
BY FS_EmptySet DEF Ended

LEMMA EndedNext ==
  ASSUME NEW j \in Nat \ {0}
  PROVE  Cardinality(Ended(j))
           = Cardinality(Ended(j - 1)) + (IF changes[j].mark = "end" THEN 1 ELSE 0)
<1>1. CASE changes[j].mark = "end"
  <2>1. Ended(j) = Ended(j - 1) \cup {j} /\ j \notin Ended(j - 1)
    BY <1>1 DEF Ended
  <2>2. IsFiniteSet(Ended(j - 1)) /\ Cardinality(Ended(j - 1)) \in Nat
    BY EndedFinite
  <2>3. Cardinality(Ended(j)) = Cardinality(Ended(j - 1)) + 1
    BY <2>1, <2>2, FS_AddElement
  <2>4. QED
    BY <1>1, <2>3
<1>2. CASE changes[j].mark # "end"
  <2>1. Ended(j) = Ended(j - 1)
    BY <1>2 DEF Ended
  <2>2. QED
    BY <1>2, <2>1, EndedFinite
<1>3. QED
  BY <1>1, <1>2

-----------------------------------------------------------------------------
\* Lines that are not marks, and whole entries, keep what is before them regular;
\* a start that no end follows does not.
LEMMA RegularNone == Regular(0)
BY DEF Regular

LEMMA RegularText ==
  ASSUME NEW j \in Nat \ {0}, Regular(j - 1), ~Marked(j)
  PROVE  Regular(j)
<1> SUFFICES ASSUME NEW k \in 1 .. j, Marked(k)
             PROVE  \E i \in 1 .. j : Entry(i, k) \/ Entry(k, i)
  BY DEF Regular
<1>1. k \in 1 .. j - 1
  OBVIOUS
<1>2. PICK i \in 1 .. j - 1 : Entry(i, k) \/ Entry(k, i)
  BY <1>1 DEF Regular
<1>3. QED
  BY <1>2

LEMMA RegularEntry ==
  ASSUME NEW j \in Nat, NEW i \in 1 .. j, Regular(i - 1), Entry(i, j)
  PROVE  Regular(j)
<1> SUFFICES ASSUME NEW k \in 1 .. j, Marked(k)
             PROVE  \E m \in 1 .. j : Entry(m, k) \/ Entry(k, m)
  BY DEF Regular
<1>1. CASE k < i
  <2>1. k \in 1 .. i - 1
    BY <1>1
  <2>2. PICK m \in 1 .. i - 1 : Entry(m, k) \/ Entry(k, m)
    BY <2>1 DEF Regular
  <2>3. QED
    BY <2>2
<1>2. CASE k = i \/ k = j
  <2>1. i \in 1 .. j /\ j \in 1 .. j
    OBVIOUS
  <2>2. CASE k = i
    <3>1. Entry(k, j)
      BY <2>2
    <3>2. QED
      BY <2>1, <3>1
  <2>3. CASE k = j
    <3>1. Entry(i, k)
      BY <2>3
    <3>2. QED
      BY <2>1, <3>1
  <2>4. QED
    BY <1>2, <2>2, <2>3
<1>3. CASE k \in i + 1 .. j - 1
  BY <1>3 DEF Entry
<1>4. QED
  BY <1>1, <1>2, <1>3

LEMMA OpenIsIrregular ==
  ASSUME NEW i \in Nat \ {0}, NEW p \in Nat, NEW j \in Nat, i < p, p - 1 <= j,
         changes[i].mark = "start", \A k \in i + 1 .. p - 1 : ~Marked(k),
         p > j \/ changes[p].mark = "start"
  PROVE  ~Regular(j)
<1> SUFFICES ASSUME Regular(j) PROVE FALSE
  OBVIOUS
<1>1. i \in 1 .. j /\ Marked(i)
  BY DEF Marked
<1>2. PICK m \in 1 .. j : Entry(m, i) \/ Entry(i, m)
  BY <1>1 DEF Regular
<1>3. Entry(i, m)
  BY <1>2 DEF Entry
<1>4. i < m /\ changes[m].mark = "end" /\ Marked(m)
  BY <1>3 DEF Entry, Marked
<1>5. m > p - 1
  BY <1>4
<1>6. CASE p > j
  BY <1>5, <1>6
<1>7. CASE p <= j /\ changes[p].mark = "start"
  <2>1. m # p /\ Marked(p)
    BY <1>4, <1>7 DEF Marked
  <2>2. p \in i + 1 .. m - 1
    BY <1>5, <2>1
  <2>3. QED
    BY <1>3, <2>1, <2>2 DEF Entry
<1>8. QED
  BY <1>6, <1>7

LEMMA LoneEndIsIrregular ==
  ASSUME NEW j \in Nat, NEW p \in 1 .. j, Regular(p - 1), changes[p].mark = "end"
  PROVE  ~Regular(j)
<1> SUFFICES ASSUME Regular(j) PROVE FALSE
  OBVIOUS
<1>1. Marked(p)
  BY DEF Marked
<1>2. PICK m \in 1 .. j : Entry(m, p) \/ Entry(p, m)
  BY <1>1 DEF Regular
<1>3. Entry(m, p)
  BY <1>2 DEF Entry
<1>4. m \in 1 .. p - 1 /\ changes[m].mark = "start" /\ Marked(m)
  BY <1>3 DEF Entry, Marked
<1>5. PICK n \in 1 .. p - 1 : Entry(m, n) \/ Entry(n, m)
  BY <1>4 DEF Regular
<1>6. m < n /\ changes[n].mark = "end" /\ Marked(n)
  BY <1>4, <1>5 DEF Entry, Marked
<1>7. n \in m + 1 .. p - 1
  BY <1>6
<1>8. QED
  BY <1>3, <1>6, <1>7 DEF Entry

LEMMA FaultyEndIsIrregular ==
  ASSUME NEW j \in Nat, NEW p \in 1 .. j, changes[p].mark = "faulty end"
  PROVE  ~Regular(j)
<1> SUFFICES ASSUME Regular(j) PROVE FALSE
  OBVIOUS
<1>1. Marked(p)
  BY DEF Marked
<1>2. PICK m \in 1 .. j : Entry(m, p) \/ Entry(p, m)
  BY <1>1 DEF Regular
<1>3. QED
  BY <1>2 DEF Entry

-----------------------------------------------------------------------------
\* A call that ends, or is forgotten, without a result.
LEMMA NoResult ==
  ASSUME outcome' \in {"idle", "no file"}
  PROVE  (ReadsEntries /\ ReturnsAnEntry /\ RefusesWhatIsFaulty)'
BY DEF ReadsEntries, ReturnsAnEntry, Returned, RefusesWhatIsFaulty

\* A call that ends with an exception, when the file is faulty.
LEMMA RaisesRightly ==
  ASSUME Raises, Skip < 0 \/ ~Regular(Len(changes))
  PROVE  (ReadsEntries /\ ReturnsAnEntry /\ RefusesWhatIsFaulty)'
<1>1. outcome' = "raised" /\ changes' = changes
  BY DEF Raises, Ends
<1>2. Regular(Len(changes))' <=> Regular(Len(changes))
  BY <1>1 DEF Regular, Entry, Marked
<1>3. QED
  BY <1>1, <1>2 DEF ReadsEntries, ReturnsAnEntry, Returned, RefusesWhatIsFaulty

LEMMA CallStep == ReaderInv /\ Call => (ReadsEntries /\ ReturnsAnEntry /\ RefusesWhatIsFaulty)'
<1> SUFFICES ASSUME ReaderInv, Call
             PROVE  (ReadsEntries /\ ReturnsAnEntry /\ RefusesWhatIsFaulty)'
  OBVIOUS
<1>1. /\ outcome' = "reading" /\ pos' = 1 /\ skip' = Skip /\ ~within' /\ text' = <<>>
      /\ changes' = changes
  BY DEF Call, Fresh
<1>2. Ended(pos - 1)' = Ended(0) /\ (Regular(pos - 1)' <=> Regular(0))
  BY <1>1 DEF Ended, Regular, Entry, Marked
<1>3. pos' <= Len(changes') + 1
  BY <1>1 DEF ReaderInv, ReaderOK
<1>4. skip' = Skip - Cardinality(Ended(pos - 1)')
  BY <1>1, <1>2, EndedNone, ChangesAssumption
<1>5. skip' >= 0 \/ (Skip < 0 /\ skip' = Skip)
  BY <1>1, ChangesAssumption
<1>6. ReadsEntries'
  BY <1>1, <1>2, <1>3, <1>4, <1>5, RegularNone DEF ReadsEntries
<1>7. QED
  BY <1>1, <1>6 DEF ReturnsAnEntry, Returned, RefusesWhatIsFaulty

\* What ReadsEntries says of a reader, outside of an entry and within one.
LEMMA Outside ==
  ASSUME ReadsEntries, outcome = "reading", ~within
  PROVE  /\ Regular(pos - 1) /\ (Skip = 0 => text = <<>>)
         /\ skip >= 0 \/ (Skip < 0 /\ skip = Skip)
BY DEF ReadsEntries

LEMMA Within ==
  ASSUME ReadsEntries, outcome = "reading", within
  PROVE  skip >= 0 /\ \E i \in 1 .. Len(changes) : Opened(i)
BY DEF ReadsEntries

LEMMA Counted ==
  ASSUME ReaderOK, ReadsEntries, outcome = "reading"
  PROVE  /\ skip = Skip - Cardinality(Ended(pos - 1)) /\ pos <= Len(changes) + 1
         /\ Cardinality(Ended(pos - 1)) \in Nat
<1>1. pos - 1 \in Nat
  BY DEF ReaderOK
<1>2. QED
  BY <1>1, EndedFinite DEF ReadsEntries

\* A line that is read on from.
LEMMA ReadOn ==
  ASSUME ReaderOK, ReadsEntries, NextLine, pos' = pos + 1, UNCHANGED <<changes, outcome>>,
         skip' = skip - (IF changes[pos].mark = "end" THEN 1 ELSE 0),
         \/ within' /\ skip' >= 0 /\ \E i \in 1 .. Len(changes) : Opened(i)'
         \/ /\ ~within' /\ Regular(pos) /\ (Skip = 0 => text' = <<>>)
            /\ skip' >= 0 \/ (Skip < 0 /\ skip' = Skip)
  PROVE  (ReadsEntries /\ ReturnsAnEntry /\ RefusesWhatIsFaulty)'
<1>1. outcome = "reading" /\ pos \in 1 .. Len(changes)
  BY DEF NextLine, ReaderOK
<1>2. Ended(pos - 1)' = Ended(pos) /\ (Regular(pos - 1)' <=> Regular(pos))
  BY <1>1 DEF Ended, Regular, Entry, Marked
<1>3. skip' = Skip - Cardinality(Ended(pos - 1)')
  <2>1. /\ Cardinality(Ended(pos))
             = Cardinality(Ended(pos - 1)) + (IF changes[pos].mark = "end" THEN 1 ELSE 0)
        /\ Cardinality(Ended(pos - 1)) \in Nat
    BY <1>1, EndedNext, Counted
  <2>2. skip = Skip - Cardinality(Ended(pos - 1))
    BY <1>1, Counted
  <2>3. Skip \in Int
    BY ChangesAssumption
  <2>4. QED
    BY <1>2, <2>1, <2>2, <2>3
<1>4. pos' <= Len(changes') + 1
  BY <1>1
<1>5. ReadsEntries'
  BY <1>2, <1>3, <1>4 DEF ReadsEntries
<1>6. QED
  BY <1>1, <1>5 DEF ReturnsAnEntry, Returned, RefusesWhatIsFaulty

LEMMA ReadStartStep ==
  ReaderInv /\ ReadStart => (ReadsEntries /\ ReturnsAnEntry /\ RefusesWhatIsFaulty)'
<1> SUFFICES ASSUME ReaderInv, ReadStart
             PROVE  (ReadsEntries /\ ReturnsAnEntry /\ RefusesWhatIsFaulty)'
  OBVIOUS
<1>1. /\ outcome = "reading" /\ pos \in 1 .. Len(changes) /\ changes[pos].mark = "start"
      /\ ReaderOK /\ ReadsEntries /\ NextLine
  BY DEF ReaderInv, ReaderOK, ReadStart, NextLine
<1>2. CASE within
  <2>1. PICK i \in 1 .. Len(changes) : Opened(i)
    BY <1>1, <1>2, Within
  <2>2. Len(changes) \in Nat
    BY <1>1 DEF ReaderOK
  <2>3. /\ i \in Nat \ {0} /\ pos \in Nat /\ i < pos /\ pos - 1 <= Len(changes)
        /\ changes[i].mark = "start" /\ \A k \in i + 1 .. pos - 1 : ~Marked(k)
    BY <1>1, <2>1, <2>2 DEF Opened
  <2>4. ~Regular(Len(changes))
    BY <1>1, <2>2, <2>3, OpenIsIrregular
  <2>5. Raises
    BY <1>2 DEF ReadStart
  <2>6. QED
    BY <2>4, <2>5, RaisesRightly
<1>3. CASE ~within /\ skip < 0
  <2>1. skip >= 0 \/ Skip < 0
    BY <1>1, <1>3, Outside
  <2>2. Skip < 0
    BY <1>1, <1>3, <2>1 DEF ReaderOK
  <2>3. Raises
    BY <1>3 DEF ReadStart
  <2>4. QED
    BY <2>2, <2>3, RaisesRightly
<1>4. CASE ~within /\ ~(skip < 0)
  <2>1. /\ version' = changes[pos].of /\ within' = TRUE /\ text' = Append(text, pos)
        /\ pos' = pos + 1 /\ UNCHANGED <<changes, outcome, skip>>
    BY <1>4 DEF ReadStart, ReadsOn
  <2>2. Regular(pos - 1) /\ (Skip = 0 => text = <<>>)
    BY <1>1, <1>4, Outside
  <2>3. ASSUME NEW i \in 1 .. Len(changes), i = pos
        PROVE  Opened(i)'
    <3>1. i < pos' /\ changes'[i].mark = "start" /\ version' = changes'[i].of
      BY <1>1, <2>1, <2>3
    <3>2. Regular(i - 1)'
      BY <2>1, <2>2, <2>3 DEF Regular, Entry, Marked
    <3>3. i + 1 .. pos' - 1 = {}
      BY <2>1, <2>3
    <3>4. ASSUME Skip = 0
          PROVE  text' = [k \in 1 .. pos' - i |-> i + k - 1]
      <4>1. text' = <<i>>
        BY <2>1, <2>2, <2>3, <3>4
      <4>2. pos' - i = 1
        BY <1>1, <2>1, <2>3
      <4>3. QED
        BY <4>1, <4>2
    <3>5. QED
      BY <3>1, <3>2, <3>3, <3>4 DEF Opened
  <2>4. \E i \in 1 .. Len(changes) : Opened(i)'
    BY <1>1, <2>3
  <2>5. within' /\ skip' >= 0 /\ skip' = skip - 0
    BY <1>1, <1>4, <2>1 DEF ReaderOK
  <2>6. QED
    BY <1>1, <2>1, <2>4, <2>5, ReadOn
<1>5. QED
  BY <1>2, <1>3, <1>4

LEMMA ReadTextStep ==
  ReaderInv /\ ReadText => (ReadsEntries /\ ReturnsAnEntry /\ RefusesWhatIsFaulty)'
<1> SUFFICES ASSUME ReaderInv, ReadText
             PROVE  (ReadsEntries /\ ReturnsAnEntry /\ RefusesWhatIsFaulty)'
  OBVIOUS
<1>1. /\ outcome = "reading" /\ pos \in 1 .. Len(changes) /\ ~Marked(pos)
      /\ ReaderOK /\ ReadsEntries /\ NextLine /\ changes[pos].mark = "text"
  BY DEF ReaderInv, ReaderOK, ReadText, NextLine, Marked
<1>2. /\ pos' = pos + 1 /\ UNCHANGED <<changes, outcome, skip, version>>
      /\ within' = within /\ skip' = skip - 0
      /\ text' = IF within THEN Append(text, pos) ELSE text
  BY <1>1 DEF ReadText, ReadsOn, ReaderOK
<1>3. CASE within
  <2>1. PICK i \in 1 .. Len(changes) : Opened(i)
    BY <1>1, <1>3, Within
  <2>2. i < pos' /\ changes'[i].mark = "start" /\ version' = changes'[i].of
    BY <1>1, <1>2, <2>1 DEF Opened
  <2>3. Regular(i - 1)'
    BY <1>2, <2>1 DEF Opened, Regular, Entry, Marked
  <2>4. \A k \in i + 1 .. pos' - 1 : ~Marked(k)'
    BY <1>1, <1>2, <2>1 DEF Opened, Marked
  <2>5. ASSUME Skip = 0
        PROVE  text' = [k \in 1 .. pos' - i |-> i + k - 1]
    <3>1. text = [k \in 1 .. pos - i |-> i + k - 1] /\ pos - i \in Nat
      BY <1>1, <2>1, <2>5 DEF Opened
    <3>2. text' = Append(text, pos) /\ pos' - i = pos - i + 1
      BY <1>1, <1>2, <1>3
    <3>3. QED
      BY <1>1, <3>1, <3>2
  <2>6. Opened(i)'
    BY <2>2, <2>3, <2>4, <2>5 DEF Opened
  <2>7. within' /\ skip' >= 0
    BY <1>1, <1>2, <1>3, Within
  <2>8. QED
    BY <1>1, <1>2, <2>6, <2>7, ReadOn
<1>4. CASE ~within
  <2>1. /\ Regular(pos - 1) /\ (Skip = 0 => text = <<>>)
        /\ skip >= 0 \/ (Skip < 0 /\ skip = Skip)
    BY <1>1, <1>4, Outside
  <2>2. Regular(pos)
    BY <1>1, <2>1, RegularText
  <2>3. ~within' /\ (Skip = 0 => text' = <<>>) /\ (skip' >= 0 \/ (Skip < 0 /\ skip' = Skip))
    BY <1>2, <1>4, <2>1
  <2>4. QED
    BY <1>1, <1>2, <2>2, <2>3, ReadOn
<1>5. QED
  BY <1>3, <1>4

LEMMA ReadEndStep ==
  ReaderInv /\ ReadEnd => (ReadsEntries /\ ReturnsAnEntry /\ RefusesWhatIsFaulty)'
<1> SUFFICES ASSUME ReaderInv, ReadEnd
             PROVE  (ReadsEntries /\ ReturnsAnEntry /\ RefusesWhatIsFaulty)'
  OBVIOUS
<1>1. /\ outcome = "reading" /\ pos \in 1 .. Len(changes) /\ changes[pos].mark = "end"
      /\ ReaderOK /\ ReadsEntries /\ NextLine /\ Len(changes) \in Nat
  BY DEF ReaderInv, ReaderOK, ReadEnd, NextLine
<1>2. CASE ~within
  <2>1. Regular(pos - 1)
    BY <1>1, <1>2, Outside
  <2>2. ~Regular(Len(changes))
    BY <1>1, <2>1, LoneEndIsIrregular
  <2>3. Raises
    BY <1>2 DEF ReadEnd
  <2>4. QED
    BY <2>2, <2>3, RaisesRightly
<1>3. CASE within
  <2>1. /\ within' = FALSE /\ skip' = skip - 1 /\ author' = changes[pos].of
        /\ UNCHANGED <<version, text, changes>>
    BY <1>3 DEF ReadEnd, Ends, ReadsOn
  <2>2. PICK i \in 1 .. Len(changes) : Opened(i)
    BY <1>1, <1>3, Within
  <2>3. /\ i < pos /\ changes[i].mark = "start" /\ version = changes[i].of
        /\ Regular(i - 1) /\ \A k \in i + 1 .. pos - 1 : ~Marked(k)
        /\ Skip = 0 => text = [k \in 1 .. pos - i |-> i + k - 1]
    BY <2>2 DEF Opened
  <2>4. Entry(i, pos)
    BY <1>1, <2>3 DEF Entry
  <2>5. pos \in Nat /\ i \in 1 .. pos
    BY <1>1, <2>3
  <2>6. Regular(pos)
    BY <2>3, <2>4, <2>5, RegularEntry
  <2>7. /\ Cardinality(Ended(pos)) = Cardinality(Ended(pos - 1)) + 1
        /\ Cardinality(Ended(pos - 1)) \in Nat
        /\ skip = Skip - Cardinality(Ended(pos - 1)) /\ Skip \in Int
    BY <1>1, EndedNext, Counted, ChangesAssumption
  <2>8. skip \in Int /\ skip >= 0
    BY <1>1, <1>3, Within DEF ReaderOK
  <2>9. CASE skip' < 0
    <3>1. outcome' = "returned"
      BY <1>3, <2>9 DEF ReadEnd, Ends
    <3>2. Cardinality(Ended(pos)) = Skip + 1
      BY <2>1, <2>7, <2>8, <2>9
    <3>3. ASSUME NEW j \in 1 .. Len(changes), j = pos
          PROVE  (Entry(i, j) /\ Regular(j) /\ Cardinality(Ended(j)) = Skip + 1)'
      BY <2>1, <2>4, <2>6, <3>2, <3>3 DEF Entry, Regular, Ended, Marked
    <3>4. ASSUME NEW j \in 1 .. Len(changes), j = pos
          PROVE  /\ version' = changes'[i].of /\ author' = changes'[j].of
                 /\ Skip = 0 => text' = [k \in 1 .. j - i |-> i + k - 1]
      BY <2>1, <2>3, <3>4
    <3>5. \E k, j \in 1 .. Len(changes') :
            /\ (Entry(k, j) /\ Regular(j) /\ Cardinality(Ended(j)) = Skip + 1)'
            /\ version' = changes'[k].of /\ author' = changes'[j].of
            /\ Skip = 0 => text' = [n \in 1 .. j - k |-> k + n - 1]
      <4>1. i \in 1 .. Len(changes') /\ pos \in 1 .. Len(changes')
        BY <1>1, <2>1
      <4>2. \E j \in 1 .. Len(changes') : j = pos
        BY <4>1
      <4>3. QED
        BY <2>1, <3>3, <3>4, <4>1, <4>2
    <3>6. ReturnsAnEntry'
      BY <3>5 DEF ReturnsAnEntry
    <3>7. QED
      BY <3>1, <3>6 DEF ReadsEntries, RefusesWhatIsFaulty
  <2>10. CASE ~(skip' < 0)
    <3>1. pos' = pos + 1 /\ UNCHANGED outcome
      BY <1>3, <2>10 DEF ReadEnd, ReadsOn
    <3>2. skip' >= 0
      BY <2>1, <2>8, <2>10
    <3>3. Skip = 0 => text' = <<>>
      BY <2>1, <2>7, <3>2
    <3>4. QED
      BY <1>1, <2>1, <2>6, <3>1, <3>2, <3>3, ReadOn
  <2>11. QED
    BY <2>9, <2>10
<1>4. QED
  BY <1>2, <1>3

LEMMA EndOfFileStep ==
  ReaderInv /\ EndOfFile => (ReadsEntries /\ ReturnsAnEntry /\ RefusesWhatIsFaulty)'
<1> SUFFICES ASSUME ReaderInv, EndOfFile
             PROVE  (ReadsEntries /\ ReturnsAnEntry /\ RefusesWhatIsFaulty)'
  OBVIOUS
<1>1. /\ outcome = "reading" /\ pos = Len(changes) + 1 /\ Len(changes) \in Nat
      /\ ReaderOK /\ ReadsEntries
  BY DEF ReaderInv, ReaderOK, EndOfFile
<1>2. CASE within
  <2>1. PICK i \in 1 .. Len(changes) : Opened(i)
    BY <1>1, <1>2, Within
  <2>2. /\ i \in Nat \ {0} /\ pos \in Nat /\ i < pos /\ pos - 1 <= Len(changes)
        /\ changes[i].mark = "start" /\ \A k \in i + 1 .. pos - 1 : ~Marked(k)
        /\ pos > Len(changes)
    BY <1>1, <2>1 DEF Opened
  <2>3. ~Regular(Len(changes))
    BY <1>1, <2>2, OpenIsIrregular
  <2>4. Raises
    BY <1>2 DEF EndOfFile
  <2>5. QED
    BY <2>3, <2>4, RaisesRightly
<1>3. CASE ~within
  <2>1. outcome' = "nothing" /\ changes' = changes
    BY <1>3 DEF EndOfFile, Ends
  <2>2. Regular(pos - 1) /\ (skip >= 0 \/ (Skip < 0 /\ skip = Skip))
    BY <1>1, <1>3, Outside
  <2>3. pos - 1 = Len(changes)
    BY <1>1
  <2>4. /\ skip = Skip - Cardinality(Ended(Len(changes))) /\ Skip \in Int
        /\ Cardinality(Ended(Len(changes))) \in Nat
    BY <1>1, <2>3, Counted, ChangesAssumption
  <2>5. Skip < 0 \/ Cardinality(Ended(Len(changes))) <= Skip
    BY <2>2, <2>4
  <2>6. /\ Regular(Len(changes))' <=> Regular(Len(changes))
        /\ Ended(Len(changes))' = Ended(Len(changes))
    BY <2>1 DEF Regular, Entry, Marked, Ended
  <2>7. QED
    BY <2>1, <2>2, <2>3, <2>5, <2>6
    DEF ReadsEntries, ReturnsAnEntry, Returned, RefusesWhatIsFaulty
<1>4. QED
  BY <1>2, <1>3

LEMMA FaultyEndStep ==
  ReaderInv /\ ReadFaultyEnd => (ReadsEntries /\ ReturnsAnEntry /\ RefusesWhatIsFaulty)'
<1> SUFFICES ASSUME ReaderInv, ReadFaultyEnd
             PROVE  (ReadsEntries /\ ReturnsAnEntry /\ RefusesWhatIsFaulty)'
  OBVIOUS
<1>0. ReaderOK /\ NextLine /\ changes[pos].mark = "faulty end" /\ Raises
  BY DEF ReaderInv, ReadFaultyEnd
<1>1. Len(changes) \in Nat /\ pos \in 1 .. Len(changes)
  <2>1. changes \in Seq(Line)
    BY <1>0 DEF ReaderOK
  <2>2. Len(changes) \in Nat
    BY <2>1
  <2>3. pos \in Nat \ {0} /\ pos <= Len(changes)
    BY <1>0 DEF ReaderOK, NextLine
  <2>4. QED
    BY <2>2, <2>3
<1>2. ~Regular(Len(changes))
  BY <1>0, <1>1, FaultyEndIsIrregular
<1>3. QED
  BY <1>0, <1>2, RaisesRightly

-----------------------------------------------------------------------------
LEMMA ReaderStarts == ChangesInit => ReaderInv
<1> SUFFICES ASSUME ChangesInit PROVE ReaderInv
  OBVIOUS
<1>1. outcome = "idle"
  BY DEF ChangesInit
<1>2. /\ changes \in Seq(Line) /\ outcome \in Outcomes /\ pos \in Nat \ {0} /\ skip \in Int
      /\ text \in Seq(Nat)
  BY ChangesAssumption DEF ChangesInit, Outcomes
<1>3. version \in Versions \cup {None} /\ author \in Authors \cup {None}
  BY DEF ChangesInit
<1>4. within \in BOOLEAN
  BY DEF ChangesInit
<1>5. ReaderOK
  BY <1>2, <1>3, <1>4 DEF ReaderOK
<1>6. QED
  BY <1>1, <1>5 DEF ReaderInv, ReadsEntries, ReturnsAnEntry, Returned, RefusesWhatIsFaulty

\* A step of the file, of the caller or of the reader.
LEMMA ReaderStep == ReaderInv /\ [ChangesNext]_reader => ReaderInv'
<1> SUFFICES ASSUME ReaderInv, [ChangesNext]_reader PROVE ReaderInv'
  OBVIOUS
<1>1. ReaderOK'
  BY ReaderTypeStep DEF ReaderInv
<1> SUFFICES (ReadsEntries /\ ReturnsAnEntry /\ RefusesWhatIsFaulty)'
  BY <1>1 DEF ReaderInv
<1>2. CASE UNCHANGED reader
  <2>1. UNCHANGED <<changes, outcome, pos, skip, within, version, author, text>>
    BY <1>2 DEF reader, locals
  <2>2. ReadsEntries'
    BY <2>1 DEF ReaderInv, ReadsEntries, Opened, Regular, Entry, Marked, Ended
  <2>3. ReturnsAnEntry'
    <3>1. \A i, j : Entry(i, j)' <=> Entry(i, j)
      BY <2>1 DEF Entry, Marked
    <3>2. \A j : (Regular(j)' <=> Regular(j)) /\ Ended(j)' = Ended(j)
      BY <2>1 DEF Regular, Entry, Marked, Ended
    <3>3. ReturnsAnEntry
      BY DEF ReaderInv
    <3>4. QED
      BY <2>1, <3>1, <3>2, <3>3 DEF ReturnsAnEntry, Returned
  <2>4. RefusesWhatIsFaulty'
    BY <2>1 DEF ReaderInv, RefusesWhatIsFaulty, Regular, Entry, Marked, Ended
  <2>5. QED
    BY <2>2, <2>3, <2>4
<1>3. CASE Edit \/ Leave \/ CannotOpen
  BY <1>3, NoResult DEF Edit, Leave, CannotOpen, Ends
<1>4. CASE Call
  BY <1>4, CallStep
<1>5. CASE Reads
  BY <1>3, <1>5, ReadStartStep, ReadEndStep, FaultyEndStep, ReadTextStep, EndOfFileStep
  DEF Reads
<1>6. QED
  BY <1>2, <1>3, <1>4, <1>5 DEF ChangesNext

\* The comment on getLastVersionAndDateFromChanged: it returns the version, the
\* author and the text of one entry, the one behind those to skip, of any file.
THEOREM ReturnsAnEntryAlways == ChangesSpec => []ReturnsAnEntry
<1>1. ReaderInv => ReturnsAnEntry
  BY DEF ReaderInv
<1>2. QED
  BY <1>1, ReaderStarts, ReaderStep, PTL DEF ChangesSpec

\* It refuses faulty files only, and says that there is no entry of files only that
\* have none left.
THEOREM RefusesWhatIsFaultyAlways == ChangesSpec => []RefusesWhatIsFaulty
<1>1. ReaderInv => RefusesWhatIsFaulty
  BY DEF ReaderInv
<1>2. QED
  BY <1>1, ReaderStarts, ReaderStep, PTL DEF ChangesSpec
=============================================================================
