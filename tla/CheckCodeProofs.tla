--------------------------- MODULE CheckCodeProofs ---------------------------
(***************************************************************************)
(* Proofs about CheckCode, for any source tree: the walk finds a fault if  *)
(* there is one that it is to find, and ends well only without any; and the*)
(* current folder is always the one whose names are being looked at.       *)
(*                                                                         *)
(* IInv says where a fault is that has not been met yet: on the way to it  *)
(* the walk is in a folder, one of whose names that are left leads on.     *)
(***************************************************************************)
EXTENDS CheckCode, SequenceTheorems, TLAPS

\* The first i - 1 names of a path are those of the current folder, and the next
\* one is left to be looked at there.
LeadsTo(i, p) ==
  /\ i \in 1 .. Len(todo) /\ i <= Len(p)
  /\ \A j \in 1 .. i - 1 : p[j] = cwd[j]
  /\ p[i] \in todo[i]

GivenFit == cout \subseteq Cxx /\ lint \subseteq Python

StackFits ==
  /\ cwd \in Seq(STRING) /\ cwd \in Folders \cup {<<>>}
  /\ todo \in Seq(SUBSET STRING) /\ Len(todo) = Len(cwd) + 1
  /\ \A i \in 1 .. Len(todo) : todo[i] \subseteq Names(SubSeq(cwd, 1, i - 1))
  /\ Reached(cwd)

FaultsAhead ==
  /\ result = "walking" => \A p \in Faults : \E i \in 1 .. Len(todo) : LeadsTo(i, p)
  /\ result = "found" => Faults # {}
  /\ result = "ok" => Faults = {} /\ cwd = <<>>

IInv == GivenFit /\ StackFits /\ FaultsAhead

-----------------------------------------------------------------------------
\* Sequences of any kind of elements, in the form in which they are needed below.
LEMMA Appended ==
  ASSUME NEW T, NEW s \in Seq(T), NEW e \in T
  PROVE  /\ Append(s, e) \in Seq(T) /\ Len(Append(s, e)) = Len(s) + 1
         /\ \A j \in 1 .. Len(s) : Append(s, e)[j] = s[j]
         /\ Append(s, e)[Len(s) + 1] = e
BY AppendProperties

LEMMA NameAppended ==
  ASSUME NEW s \in Seq(STRING), NEW n \in STRING
  PROVE  /\ Append(s, n) \in Seq(STRING) /\ Len(Append(s, n)) = Len(s) + 1
         /\ \A j \in 1 .. Len(s) : Append(s, n)[j] = s[j]
         /\ Append(s, n)[Len(s) + 1] = n
BY Zenon, Appended

LEMMA Replaced ==
  ASSUME NEW T, NEW s \in Seq(T), NEW k \in 1 .. Len(s), NEW e \in T
  PROVE  /\ [s EXCEPT ![k] = e] \in Seq(T) /\ Len([s EXCEPT ![k] = e]) = Len(s)
         /\ \A j \in 1 .. Len(s) : [s EXCEPT ![k] = e][j] = IF j = k THEN e ELSE s[j]
BY ExceptSeq

LEMMA Shortened ==
  ASSUME NEW T, NEW s \in Seq(T), s # <<>>
  PROVE  /\ Up(s) \in Seq(T) /\ Len(Up(s)) = Len(s) - 1
         /\ \A j \in 1 .. Len(s) - 1 : Up(s)[j] = s[j]
<1> DEFINE k == Len(s) - 1
<1>1. k \in 0 .. Len(s) /\ Len(s) - 1 = k /\ 1 .. Len(s) - 1 = 1 .. k
  OBVIOUS
<1>2. Up(s) = SubSeq(s, 1, k)
  BY DEF Up
<1> HIDE DEF k
<1>3. QED
  BY <1>1, <1>2, SubSeqProperties, ElementOfSeq

LEMMA Prefixes ==
  ASSUME NEW T, NEW s \in Seq(T), NEW k \in 0 .. Len(s)
  PROVE  /\ SubSeq(s, 1, k) \in Seq(T) /\ Len(SubSeq(s, 1, k)) = k
         /\ \A j \in 1 .. k : SubSeq(s, 1, k)[j] = s[j]
<1>1. Len(s) \in Nat
  OBVIOUS
<1>2. QED
  BY <1>1

LEMMA SameSequence ==
  ASSUME NEW T, NEW s \in Seq(T), NEW t \in Seq(T), Len(s) = Len(t), \A j \in 1 .. Len(s) : s[j] = t[j]
  PROVE  s = t
OBVIOUS

LEMMA PathsAreSequences ==
  \A p \in Paths : p \in Seq(STRING) /\ Len(p) \in Nat \ {0}
BY CheckCodeAssumption

LEMMA FaultsAreFiles ==
  GivenFit => \A p \in Faults : p \in Files /\ p \in Paths /\ Reached(p)
BY DEF GivenFit, Faults, Cxx, Python, Paths

\* Every name of a path is among the names of the folder that leads to it.
LEMMA NamesBelow ==
  ASSUME NEW p \in Paths, NEW k \in 0 .. Len(p) - 1
  PROVE  p[k + 1] \in Names(SubSeq(p, 1, k))
<1>1. p \in Seq(STRING) /\ Len(p) \in Nat \ {0} /\ k \in Nat
  BY PathsAreSequences
<1> DEFINE q == SubSeq(p, 1, k + 1)
<1>2. q \in Seq(STRING) /\ Len(q) = k + 1 /\ \A j \in 1 .. k + 1 : q[j] = p[j]
  BY <1>1
<1>3. q \in Paths
  <2>1. CASE k + 1 = Len(p)
    <3>1. q = p
      BY <1>1, <2>1
    <3>2. QED
      BY <3>1
  <2>2. CASE k + 1 # Len(p)
    <3>1. k + 1 \in 1 .. Len(p) - 1
      BY <1>1, <2>2
    <3>2. QED
      BY <3>1, CheckCodeAssumption DEF Paths
  <2>3. QED
    BY <2>1, <2>2
<1>4. Up(q) = SubSeq(p, 1, k)
  BY <1>1, <1>2 DEF Up
<1>5. Name(q) = p[k + 1]
  BY <1>1, <1>2 DEF Name
<1> HIDE DEF q
<1>6. QED
  BY <1>3, <1>4, <1>5 DEF Names

\* A file whose first names are those of a path in the current folder is that path
\* or is below it, and then the path is a folder.
LEMMA AtOrBelow ==
  ASSUME cwd \in Seq(STRING), NEW n \in STRING, NEW p \in Paths,
         Len(p) >= Len(cwd) + 1, \A j \in 1 .. Len(cwd) : p[j] = cwd[j], p[Len(cwd) + 1] = n
  PROVE  \/ p = Append(cwd, n)
         \/ /\ Append(cwd, n) \in Folders /\ Len(p) > Len(cwd) + 1
            /\ Append(cwd, n) = SubSeq(p, 1, Len(cwd) + 1)
<1> DEFINE k == Len(cwd) + 1
           q == Append(cwd, n)
<1>1. p \in Seq(STRING) /\ Len(p) \in Nat \ {0} /\ Len(cwd) \in Nat /\ k \in 1 .. Len(p)
  BY PathsAreSequences
<1>2. q \in Seq(STRING) /\ Len(q) = k /\ \A j \in 1 .. k : q[j] = p[j]
  <2>1. q \in Seq(STRING) /\ Len(q) = k /\ q[k] = n /\ \A j \in 1 .. Len(cwd) : q[j] = cwd[j]
    BY NameAppended
  <2>2. ASSUME NEW j \in 1 .. k PROVE j \in 1 .. Len(cwd) \/ j = k
    BY <1>1
  <2> HIDE DEF q
  <2>3. QED
    BY <2>1, <2>2
<1>3. SubSeq(p, 1, k) \in Seq(STRING) /\ Len(SubSeq(p, 1, k)) = k /\ \A j \in 1 .. k : SubSeq(p, 1, k)[j] = p[j]
  <2> HIDE DEF k
  <2>1. QED
    BY <1>1
<1> HIDE DEF q, k
<1>4. q = SubSeq(p, 1, k)
  BY <1>2, <1>3
<1>5. CASE k = Len(p)
  <2>1. q = p
    BY <1>1, <1>2, <1>5
  <2>2. QED
    BY <2>1 DEF q
<1>6. CASE k # Len(p)
  <2>1. k \in 1 .. Len(p) - 1
    BY <1>1, <1>6
  <2>2. q \in Folders
    BY <1>4, <2>1, CheckCodeAssumption
  <2>3. QED
    BY <1>1, <1>4, <2>1, <2>2 DEF q, k
<1>7. QED
  BY <1>5, <1>6

\* One name less is left in the current folder.
LEMMA Shrunk ==
  ASSUME NEW n, todo \in Seq(SUBSET STRING), Len(todo) \in Nat \ {0}
  PROVE  /\ Rest(n) \in Seq(SUBSET STRING) /\ Len(Rest(n)) = Len(todo)
         /\ \A i \in 1 .. Len(todo) : Rest(n)[i] = IF i = Len(todo) THEN todo[i] \ {n} ELSE todo[i]
<1> DEFINE k == Len(todo)
           D == todo[k] \ {n}
<1>1. k \in 1 .. Len(todo) /\ todo[k] \in SUBSET STRING /\ D \in SUBSET STRING
  OBVIOUS
<1>2. Rest(n) = [todo EXCEPT ![k] = D]
  BY DEF Rest
<1> HIDE DEF k, D
<1>3. /\ Rest(n) \in Seq(SUBSET STRING) /\ Len(Rest(n)) = Len(todo)
      /\ \A i \in 1 .. Len(todo) : Rest(n)[i] = IF i = k THEN D ELSE todo[i]
  <2> DEFINE T == SUBSET STRING
  <2> HIDE DEF T
  <2>1. todo \in Seq(T) /\ D \in T
    BY <1>1 DEF T
  <2>2. /\ Rest(n) \in Seq(T) /\ Len(Rest(n)) = Len(todo)
        /\ \A i \in 1 .. Len(todo) : Rest(n)[i] = IF i = k THEN D ELSE todo[i]
    BY <1>1, <1>2, <2>1, Replaced
  <2>3. QED
    BY <2>2 DEF T
<1>4. QED
  BY <1>3 DEF k, D

LEMMA RestFits ==
  ASSUME StackFits, NEW n, Goes(n)
  PROVE  /\ todo' \in Seq(SUBSET STRING) /\ Len(todo') = Len(todo)
         /\ \A i \in 1 .. Len(todo) : todo'[i] = IF i = Len(todo) THEN todo[i] \ {n} ELSE todo[i]
         /\ StackFits'
<1>1. todo \in Seq(SUBSET STRING) /\ Len(todo) \in Nat \ {0} /\ cwd' = cwd
  BY DEF StackFits, Goes
<1>3. /\ todo' \in Seq(SUBSET STRING) /\ Len(todo') = Len(todo)
      /\ \A i \in 1 .. Len(todo) : todo'[i] = IF i = Len(todo) THEN todo[i] \ {n} ELSE todo[i]
  BY <1>1, Shrunk DEF Goes
<1>4. \A i \in 1 .. Len(todo) : todo'[i] \subseteq todo[i]
  BY <1>3
<1>5. QED
  BY <1>1, <1>3, <1>4 DEF StackFits, Reached

LEMMA GoesAhead ==
  ASSUME IInv, NEW n, Goes(n), result = "walking",
         \A p \in Faults : Len(p) >= Len(cwd) + 1 /\ (\A j \in 1 .. Len(cwd) : p[j] = cwd[j]) => p[Len(cwd) + 1] # n,
         Faults' = Faults
  PROVE  FaultsAhead'
<1>1. Len(todo) = Len(cwd) + 1 /\ Len(cwd) \in Nat /\ cwd' = cwd /\ result' = result
  BY DEF IInv, StackFits, Goes
<1>2. ASSUME NEW p \in Faults PROVE \E i \in 1 .. Len(todo') : LeadsTo(i, p)'
  <2>1. PICK i \in 1 .. Len(todo) : LeadsTo(i, p)
    BY DEF IInv, FaultsAhead
  <2>2. i = Len(todo) => p[i] # n
    BY <1>1, <2>1 DEF LeadsTo
  <2>3. /\ Len(todo') = Len(todo)
        /\ todo'[i] = IF i = Len(todo) THEN todo[i] \ {n} ELSE todo[i]
    BY RestFits DEF IInv
  <2>4. p[i] \in todo'[i]
    BY <2>1, <2>2, <2>3 DEF LeadsTo
  <2>5. QED
    BY <1>1, <2>1, <2>3, <2>4 DEF LeadsTo
<1>3. QED
  BY <1>1, <1>2 DEF FaultsAhead

LEMMA NamesAreStrings ==
  \A folder : Names(folder) \subseteq STRING
<1>1. ASSUME NEW p \in Paths PROVE Name(p) \in STRING
  BY PathsAreSequences DEF Name
<1>2. QED
  BY <1>1 DEF Names

LEMMA SamePrefix ==
  ASSUME NEW T, NEW s \in Seq(T), NEW t \in Seq(T), NEW k \in Nat,
         k <= Len(s), k <= Len(t), \A j \in 1 .. k : s[j] = t[j]
  PROVE  SubSeq(s, 1, k) = SubSeq(t, 1, k)
<1>1. Len(s) \in Nat /\ Len(t) \in Nat /\ k \in 0 .. Len(s) /\ k \in 0 .. Len(t)
  OBVIOUS
<1>2. /\ SubSeq(s, 1, k) \in Seq(T) /\ Len(SubSeq(s, 1, k)) = k
      /\ \A j \in 1 .. k : SubSeq(s, 1, k)[j] = s[j]
  BY <1>1, Prefixes
<1>3. /\ SubSeq(t, 1, k) \in Seq(T) /\ Len(SubSeq(t, 1, k)) = k
      /\ \A j \in 1 .. k : SubSeq(t, 1, k)[j] = t[j]
  BY <1>1, Prefixes
<1>4. QED
  BY <1>2, <1>3, SameSequence

LEMMA WholePrefix ==
  ASSUME NEW T, NEW s \in Seq(T)
  PROVE  SubSeq(s, 1, Len(s)) = s
<1>1. Len(s) \in 0 .. Len(s)
  OBVIOUS
<1>2. /\ SubSeq(s, 1, Len(s)) \in Seq(T) /\ Len(SubSeq(s, 1, Len(s))) = Len(s)
      /\ \A j \in 1 .. Len(s) : SubSeq(s, 1, Len(s))[j] = s[j]
  BY <1>1, Prefixes
<1>3. QED
  BY <1>2, SameSequence

\* The names of a folder that is entered are put on top.
LEMMA EnterFits ==
  ASSUME StackFits, NEW n \in Left, EnterFolder(n)
  PROVE  /\ cwd' \in Seq(STRING) /\ Len(cwd') = Len(cwd) + 1 /\ Len(todo') = Len(todo) + 1
         /\ \A j \in 1 .. Len(cwd) : cwd'[j] = cwd[j]
         /\ \A i \in 1 .. Len(todo) : todo'[i] = IF i = Len(todo) THEN todo[i] \ {n} ELSE todo[i]
         /\ todo'[Len(todo) + 1] = Names(cwd')
         /\ StackFits'
<1> DEFINE r == Rest(n)
<1>1. /\ todo \in Seq(SUBSET STRING) /\ Len(todo) \in Nat \ {0} /\ Len(todo) = Len(cwd) + 1
      /\ cwd \in Seq(STRING) /\ Len(cwd) \in Nat
  BY DEF StackFits
<1>2. n \in STRING
  BY <1>1 DEF Left
<1>3. /\ cwd' = Append(cwd, n) /\ todo' = Append(r, Names(cwd'))
      /\ Append(cwd, n) \in Folders /\ n \notin Hidden
  BY DEF EnterFolder
<1>4. /\ r \in Seq(SUBSET STRING) /\ Len(r) = Len(todo)
      /\ \A i \in 1 .. Len(todo) : r[i] = IF i = Len(todo) THEN todo[i] \ {n} ELSE todo[i]
  BY <1>1, Shrunk DEF Rest
<1> HIDE DEF r
<1>5. /\ cwd' \in Seq(STRING) /\ Len(cwd') = Len(cwd) + 1
      /\ \A j \in 1 .. Len(cwd) : cwd'[j] = cwd[j]
      /\ cwd'[Len(cwd) + 1] = n
  BY <1>1, <1>2, <1>3, NameAppended
<1>6. Names(cwd') \in SUBSET STRING
  BY NamesAreStrings
<1>7. /\ todo' \in Seq(SUBSET STRING) /\ Len(todo') = Len(todo) + 1
      /\ \A i \in 1 .. Len(todo) : todo'[i] = IF i = Len(todo) THEN todo[i] \ {n} ELSE todo[i]
      /\ todo'[Len(todo) + 1] = Names(cwd')
  <2>1. /\ Append(r, Names(cwd')) \in Seq(SUBSET STRING) /\ Len(Append(r, Names(cwd'))) = Len(r) + 1
        /\ \A j \in 1 .. Len(r) : Append(r, Names(cwd'))[j] = r[j]
        /\ Append(r, Names(cwd'))[Len(r) + 1] = Names(cwd')
    BY <1>4, <1>6, Appended
  <2>2. QED
    BY <1>3, <1>4, <2>1
<1>8. ASSUME NEW i \in 1 .. Len(todo') PROVE todo'[i] \subseteq Names(SubSeq(cwd', 1, i - 1))
  <2>1. CASE i = Len(todo) + 1
    <3>1. SubSeq(cwd', 1, Len(cwd')) = cwd'
      BY <1>5, WholePrefix
    <3>2. todo'[i] = Names(cwd') /\ i - 1 = Len(cwd')
      BY <1>1, <1>5, <1>7, <2>1
    <3>3. QED
      BY <3>1, <3>2
  <2>2. CASE i \in 1 .. Len(todo)
    <3>1. todo[i] \subseteq Names(SubSeq(cwd, 1, i - 1))
      BY <2>2 DEF StackFits
    <3>2. i - 1 \in Nat /\ i - 1 <= Len(cwd) /\ i - 1 <= Len(cwd') /\ \A j \in 1 .. i - 1 : cwd[j] = cwd'[j]
      BY <1>1, <1>5, <2>2
    <3>3. SubSeq(cwd, 1, i - 1) = SubSeq(cwd', 1, i - 1)
      BY <1>1, <1>5, <3>2, SamePrefix
    <3>4. todo'[i] \subseteq todo[i]
      BY <1>7, <2>2
    <3>5. QED
      BY <3>1, <3>3, <3>4
  <2>3. QED
    BY <1>1, <1>7, <2>1, <2>2
<1>9. Reached(cwd')
  BY <1>1, <1>3, <1>5 DEF StackFits, Reached
<1>10. QED
  BY <1>1, <1>3, <1>5, <1>7, <1>8, <1>9 DEF StackFits

\* The folder that is left has no names left.
LEMMA LeaveFits ==
  ASSUME StackFits, LeaveFolder
  PROVE  /\ Len(cwd) \in Nat \ {0} /\ Len(todo') = Len(cwd) /\ Len(todo) = Len(cwd) + 1
         /\ \A j \in 1 .. Len(cwd) - 1 : cwd'[j] = cwd[j]
         /\ \A i \in 1 .. Len(cwd) : todo'[i] = todo[i]
         /\ StackFits'
<1>1. /\ todo \in Seq(SUBSET STRING) /\ Len(todo) = Len(cwd) + 1 /\ cwd \in Seq(STRING) /\ Len(cwd) \in Nat
      /\ Len(todo) > 1 /\ cwd' = Up(cwd) /\ todo' = Up(todo)
  BY DEF StackFits, LeaveFolder
<1>2. cwd # <<>> /\ todo # <<>> /\ Len(cwd) \in Nat \ {0}
  BY <1>1
<1>3. /\ cwd' \in Seq(STRING) /\ Len(cwd') = Len(cwd) - 1
      /\ \A j \in 1 .. Len(cwd) - 1 : cwd'[j] = cwd[j]
  BY <1>1, <1>2, Shortened
<1>4. /\ todo' \in Seq(SUBSET STRING) /\ Len(todo') = Len(todo) - 1
      /\ \A i \in 1 .. Len(todo) - 1 : todo'[i] = todo[i]
  BY <1>1, <1>2, Shortened
<1>5. cwd' \in Folders \cup {<<>>}
  <2>1. CASE Len(cwd) = 1
    BY <1>3, <2>1
  <2>2. CASE Len(cwd) # 1
    <3>1. Len(cwd) - 1 \in 1 .. Len(cwd) - 1
      <4>1. \A k \in Nat \ {0} : k # 1 => k - 1 \in 1 .. k - 1
        OBVIOUS
      <4>2. QED
        BY <1>2, <2>2, <4>1
    <3>2. cwd \in Paths
      BY <1>2 DEF StackFits, Paths
    <3>3. QED
      BY <1>1, <3>1, <3>2, CheckCodeAssumption DEF Up
  <2>3. QED
    BY <2>1, <2>2
<1>6. ASSUME NEW i \in 1 .. Len(todo') PROVE todo'[i] \subseteq Names(SubSeq(cwd', 1, i - 1))
  <2>1. i \in 1 .. Len(cwd) /\ i \in 1 .. Len(todo)
    BY <1>1, <1>4
  <2>2. todo[i] \subseteq Names(SubSeq(cwd, 1, i - 1)) /\ todo'[i] = todo[i]
    BY <1>1, <1>4, <2>1 DEF StackFits
  <2>3. i - 1 \in Nat /\ i - 1 <= Len(cwd) /\ i - 1 <= Len(cwd') /\ \A j \in 1 .. i - 1 : cwd[j] = cwd'[j]
    BY <1>2, <1>3, <2>1
  <2>4. SubSeq(cwd, 1, i - 1) = SubSeq(cwd', 1, i - 1)
    BY <1>1, <1>3, <2>3, SamePrefix
  <2>5. QED
    BY <2>2, <2>4
<1>7. Reached(cwd')
  BY <1>2, <1>3 DEF StackFits, Reached
<1>8. QED
  BY <1>1, <1>2, <1>3, <1>4, <1>5, <1>6, <1>7 DEF StackFits

-----------------------------------------------------------------------------
LEMMA FaultsStay == UNCHANGED given => Faults' = Faults
BY DEF given, Faults, Reached, HasToBeSkipped

\* What a name that is left and leads to a fault is the name of.
LEMMA AFaultOrItsFolder ==
  ASSUME IInv, NEW n \in STRING, NEW p \in Faults, Len(p) >= Len(cwd) + 1,
         \A j \in 1 .. Len(cwd) : p[j] = cwd[j], p[Len(cwd) + 1] = n
  PROVE  /\ n \notin Hidden
         /\ \/ p = Append(cwd, n)
            \/ /\ Append(cwd, n) \in Folders /\ Len(p) > Len(cwd) + 1
               /\ Append(cwd, n) = SubSeq(p, 1, Len(cwd) + 1)
<1>1. cwd \in Seq(STRING) /\ Len(cwd) \in Nat
  BY DEF IInv, StackFits
<1>2. p \in Paths /\ Reached(p)
  BY FaultsAreFiles DEF IInv
<1>3. n \notin Hidden
  <2>1. Len(cwd) + 1 \in 1 .. Len(p)
    BY <1>1, <1>2, PathsAreSequences
  <2>2. QED
    BY <1>2, <2>1 DEF Reached
<1>4. QED
  BY <1>1, <1>2, <1>3, AtOrBelow

LEMMA LeftAreStrings ==
  IInv => \A n \in Left : n \in STRING
<1>1. ASSUME IInv PROVE todo[Len(todo)] \in SUBSET STRING
  BY <1>1 DEF IInv, StackFits
<1>2. QED
  BY <1>1 DEF Left

LEMMA PassOverAhead ==
  ASSUME IInv, UNCHANGED given, NEW n \in Left, PassOver(n)
  PROVE  StackFits' /\ FaultsAhead'
<1>1. Goes(n) /\ result = "walking" /\ n \in STRING
  BY LeftAreStrings DEF PassOver, Takes
<1>2. ASSUME NEW p \in Faults, Len(p) >= Len(cwd) + 1, \A j \in 1 .. Len(cwd) : p[j] = cwd[j]
      PROVE  p[Len(cwd) + 1] # n
  <2>1. p \in Files
    BY FaultsAreFiles DEF IInv
  <2>2. p[Len(cwd) + 1] = n => n \notin Hidden /\ (p = Append(cwd, n) \/ Append(cwd, n) \in Folders)
    BY <1>1, <1>2, AFaultOrItsFolder
  <2>3. QED
    BY <2>1, <2>2, CheckCodeAssumption DEF PassOver
<1>3. QED
  BY <1>1, <1>2, RestFits, GoesAhead, FaultsStay DEF IInv

\* A file that has been looked into.
LEMMA LookedIntoAhead ==
  ASSUME IInv, UNCHANGED given, NEW n \in Left, Goes(n), result = "walking",
         Append(cwd, n) \in Files, Append(cwd, n) \notin Faults
  PROVE  StackFits' /\ FaultsAhead'
<1>1. n \in STRING
  BY LeftAreStrings
<1>2. ASSUME NEW p \in Faults, Len(p) >= Len(cwd) + 1, \A j \in 1 .. Len(cwd) : p[j] = cwd[j]
      PROVE  p[Len(cwd) + 1] # n
  BY <1>1, <1>2, AFaultOrItsFolder, CheckCodeAssumption
<1>3. QED
  BY <1>2, RestFits, GoesAhead, FaultsStay DEF IInv

LEMMA FoundAhead ==
  ASSUME IInv, UNCHANGED given, Finds, Faults # {}
  PROVE  StackFits' /\ FaultsAhead'
<1>1. StackFits' /\ Faults' # {} /\ result' = "found"
  BY FaultsStay DEF Finds, IInv, StackFits, Reached
<1>2. QED
  BY <1>1 DEF FaultsAhead

LEMMA IsReached ==
  ASSUME IInv, NEW n \in STRING, n \notin Hidden
  PROVE  Reached(Append(cwd, n)) /\ Name(Append(cwd, n)) = n
<1>1. cwd \in Seq(STRING) /\ Len(cwd) \in Nat /\ Reached(cwd)
  BY DEF IInv, StackFits
<1>2. /\ Len(Append(cwd, n)) = Len(cwd) + 1
      /\ \A j \in 1 .. Len(cwd) : Append(cwd, n)[j] = cwd[j]
      /\ Append(cwd, n)[Len(cwd) + 1] = n
  BY <1>1, NameAppended
<1>3. \A j \in 1 .. Len(cwd) + 1 : j \in 1 .. Len(cwd) \/ j = Len(cwd) + 1
  BY <1>1
<1>4. QED
  BY <1>1, <1>2, <1>3 DEF Reached, Name

LEMMA CheckCoutAhead ==
  ASSUME IInv, UNCHANGED given, NEW n \in Left, CheckCout(n)
  PROVE  StackFits' /\ FaultsAhead'
<1> DEFINE q == Append(cwd, n)
<1>1. n \in STRING /\ result = "walking" /\ n \notin Hidden /\ q \in Cxx /\ q \in Files
  BY LeftAreStrings DEF CheckCout, Takes, Cxx
<1>2. CASE q \in cout \ closed /\ ~HasToBeSkipped(q)
  <2>1. q \in Faults
    BY <1>1, <1>2, IsReached DEF Faults
  <2>2. QED
    BY <1>2, <2>1, FoundAhead DEF CheckCout
<1>3. CASE ~(q \in cout \ closed /\ ~HasToBeSkipped(q))
  <2>1. q \notin Python
    BY <1>1 DEF Cxx, Python, CxxExts
  <2>2. q \notin Faults
    BY <1>3, <2>1 DEF Faults, IInv, GivenFit
  <2>3. QED
    BY <1>1, <1>3, <2>2, LookedIntoAhead DEF CheckCout
<1>4. QED
  BY <1>2, <1>3

LEMMA CheckLintAhead ==
  ASSUME IInv, UNCHANGED given, NEW n \in Left, CheckLint(n)
  PROVE  StackFits' /\ FaultsAhead'
<1> DEFINE q == Append(cwd, n)
           f == q \in lint /\ n \notin Fragments /\ pylint /\ ~HasToBeSkipped(q)
<1>1. n \in STRING /\ result = "walking" /\ n \notin Hidden /\ q \in Python /\ q \in Files
  BY LeftAreStrings DEF CheckLint, Takes, Python
<1>2. Reached(q) /\ Name(q) = n
  BY <1>1, IsReached
<1>3. CASE f
  <2>1. q \in Faults
    BY <1>2, <1>3 DEF Faults
  <2>2. QED
    BY <1>3, <2>1, FoundAhead DEF CheckLint
<1>4. CASE ~f
  <2>1. q \notin Cxx
    BY <1>1 DEF Cxx, Python, CxxExts
  <2>2. q \notin Faults
    BY <1>2, <1>4, <2>1 DEF Faults, IInv, GivenFit
  <2>3. QED
    BY <1>1, <1>4, <2>2, LookedIntoAhead DEF CheckLint
<1>5. QED
  BY <1>3, <1>4

LEMMA OtherFileAhead ==
  ASSUME IInv, UNCHANGED given, NEW n \in Left, OtherFile(n)
  PROVE  StackFits' /\ FaultsAhead'
<1>1. Append(cwd, n) \in Files /\ Append(cwd, n) \notin Faults /\ Goes(n) /\ result = "walking"
  BY DEF OtherFile, Takes, Faults, IInv, GivenFit
<1>2. QED
  BY <1>1, LookedIntoAhead

\* A fault below a folder that is entered: one of the folder's names leads to it.
LEMMA EnterFolderAhead ==
  ASSUME IInv, UNCHANGED given, NEW n \in Left, EnterFolder(n)
  PROVE  StackFits' /\ FaultsAhead'
<1>1. n \in STRING /\ result = "walking" /\ result' = "walking" /\ cwd' = Append(cwd, n) /\ cwd' \in Folders
  BY LeftAreStrings DEF EnterFolder, Takes
<1>2. /\ Len(todo') = Len(todo) + 1 /\ Len(todo) = Len(cwd) + 1 /\ Len(cwd) \in Nat
      /\ \A j \in 1 .. Len(cwd) : cwd'[j] = cwd[j]
      /\ \A i \in 1 .. Len(todo) : todo'[i] = IF i = Len(todo) THEN todo[i] \ {n} ELSE todo[i]
      /\ todo'[Len(todo) + 1] = Names(cwd')
      /\ StackFits'
  <2>1. StackFits
    BY DEF IInv
  <2>2. Len(todo) = Len(cwd) + 1 /\ Len(cwd) \in Nat
    BY <2>1 DEF StackFits
  <2>3. QED
    BY <2>1, <2>2, EnterFits
<1>3. ASSUME NEW p \in Faults PROVE \E i \in 1 .. Len(todo') : LeadsTo(i, p)'
  <2>1. PICK i \in 1 .. Len(todo) : LeadsTo(i, p)
    BY <1>1 DEF IInv, FaultsAhead
  <2>2. p \in Files /\ p \in Paths /\ p \in Seq(STRING) /\ Len(p) \in Nat \ {0}
    BY FaultsAreFiles, PathsAreSequences DEF IInv
  <2>3. CASE i # Len(todo) \/ p[i] # n
    <3>1. i \in 1 .. Len(todo') /\ p[i] \in todo'[i] /\ i <= Len(p)
      <4>1. todo'[i] = IF i = Len(todo) THEN todo[i] \ {n} ELSE todo[i]
        BY <1>2
      <4>2. i \in 1 .. Len(todo')
        BY <1>2
      <4>3. QED
        BY <2>1, <2>3, <4>1, <4>2 DEF LeadsTo
    <3>2. \A j \in 1 .. i - 1 : p[j] = cwd'[j]
      BY <1>2, <2>1 DEF LeadsTo
    <3>3. LeadsTo(i, p)'
      BY <3>1, <3>2 DEF LeadsTo
    <3>4. QED
      BY <3>1, <3>3
  <2>4. CASE i = Len(todo) /\ p[i] = n
    <3>0. PICK k \in Nat : k = Len(cwd) + 1
      BY <1>2
    <3>1. Len(p) >= k /\ (\A j \in 1 .. Len(cwd) : p[j] = cwd[j]) /\ p[k] = n
      BY <1>2, <2>1, <2>4, <3>0 DEF LeadsTo
    <3>2. Len(p) > k /\ cwd' = SubSeq(p, 1, k)
      <4>1. Append(cwd, n) \notin Files
        BY <1>1, CheckCodeAssumption
      <4>2. \/ p = Append(cwd, n)
            \/ Len(p) > Len(cwd) + 1 /\ Append(cwd, n) = SubSeq(p, 1, Len(cwd) + 1)
        BY <1>1, <3>0, <3>1, AFaultOrItsFolder
      <4>3. QED
        BY <1>1, <2>2, <3>0, <4>1, <4>2
    <3>3. k \in 0 .. Len(p) - 1 /\ k \in 0 .. Len(p)
      BY <2>2, <3>2
    <3>4. p[k + 1] \in Names(cwd')
      BY <2>2, <3>2, <3>3, NamesBelow
    <3>5. \A j \in 1 .. k : cwd'[j] = p[j]
      BY <2>2, <3>2, <3>3, Prefixes
    <3>6. k + 1 \in 1 .. Len(todo') /\ k + 1 <= Len(p) /\ k + 1 = Len(todo) + 1 /\ (k + 1) - 1 = k
      BY <1>2, <2>2, <3>0, <3>3
    <3>7. p[k + 1] \in todo'[k + 1]
      BY <1>2, <3>4, <3>6
    <3>8. LeadsTo(k + 1, p)'
      BY <3>5, <3>6, <3>7 DEF LeadsTo
    <3>9. QED
      BY <3>6, <3>8
  <2>5. QED
    BY <2>3, <2>4
<1>4. QED
  BY <1>1, <1>2, <1>3, FaultsStay DEF FaultsAhead

LEMMA LeaveFolderAhead ==
  ASSUME IInv, UNCHANGED given, LeaveFolder
  PROVE  StackFits' /\ FaultsAhead'
<1>1. result = "walking" /\ result' = "walking" /\ Left = {}
  BY DEF LeaveFolder
<1>2. /\ Len(cwd) \in Nat \ {0} /\ Len(todo') = Len(cwd) /\ Len(todo) = Len(cwd) + 1
      /\ \A j \in 1 .. Len(cwd) - 1 : cwd'[j] = cwd[j]
      /\ \A i \in 1 .. Len(cwd) : todo'[i] = todo[i]
      /\ StackFits'
  BY LeaveFits DEF IInv
<1>3. ASSUME NEW p \in Faults PROVE \E i \in 1 .. Len(todo') : LeadsTo(i, p)'
  <2>1. PICK i \in 1 .. Len(todo) : LeadsTo(i, p)
    BY <1>1 DEF IInv, FaultsAhead
  <2>2. i # Len(todo)
    BY <1>1, <2>1 DEF LeadsTo, Left
  <2>3. i \in 1 .. Len(cwd) /\ \A j \in 1 .. i - 1 : j \in 1 .. Len(cwd) - 1
    BY <1>2, <2>2
  <2>4. i <= Len(p) /\ p[i] \in todo'[i] /\ \A j \in 1 .. i - 1 : p[j] = cwd'[j]
    BY <1>2, <2>1, <2>3 DEF LeadsTo
  <2>5. QED
    BY <1>2, <2>3, <2>4 DEF LeadsTo
<1>4. QED
  BY <1>1, <1>2, <1>3, FaultsStay DEF FaultsAhead

LEMMA WalkEndsAhead ==
  ASSUME IInv, UNCHANGED given, WalkEnds
  PROVE  StackFits' /\ FaultsAhead'
<1>1. result = "walking" /\ result' = "ok" /\ Left = {} /\ Len(todo) = 1 /\ cwd' = cwd /\ todo' = todo
  BY DEF WalkEnds
<1>2. StackFits'
  BY <1>1 DEF IInv, StackFits, Reached
<1>3. Faults = {}
  <2>1. ASSUME NEW p \in Faults PROVE FALSE
    <3>1. PICK i \in 1 .. Len(todo) : LeadsTo(i, p)
      BY <1>1 DEF IInv, FaultsAhead
    <3>2. i = Len(todo)
      BY <1>1
    <3>3. QED
      BY <1>1, <3>1, <3>2 DEF LeadsTo, Left
  <2>2. QED
    BY <2>1
<1>4. cwd = <<>>
  <2>1. cwd \in Seq(STRING) /\ Len(cwd) = 0
    BY <1>1 DEF IInv, StackFits
  <2>2. QED
    BY <2>1
<1>5. QED
  BY <1>1, <1>2, <1>3, <1>4, FaultsStay DEF FaultsAhead

-----------------------------------------------------------------------------
LEMMA InitIInv == Init => IInv
<1> SUFFICES ASSUME Init PROVE IInv
  OBVIOUS
<1>1. cwd = <<>> /\ todo = <<Names(<<>>)>> /\ result = "walking" /\ GivenFit
  BY DEF Init, GivenFit
<1>2. Names(<<>>) \in SUBSET STRING
  BY NamesAreStrings
<1>3. StackFits
  <2>1. SubSeq(cwd, 1, 0) = <<>>
    BY <1>1
  <2>2. todo \in Seq(SUBSET STRING) /\ Len(todo) = 1 /\ todo[1] = Names(<<>>)
    BY <1>1, <1>2
  <2>3. \A i \in 1 .. Len(todo) : i = 1 /\ i - 1 = 0
    BY <2>2
  <2>4. cwd \in Seq(STRING) /\ Len(cwd) = 0
    BY <1>1
  <2>5. \A i \in 1 .. Len(todo) : todo[i] \subseteq Names(SubSeq(cwd, 1, i - 1))
    BY <2>1, <2>2, <2>3
  <2>6. Reached(cwd)
    BY <2>4 DEF Reached
  <2>7. QED
    BY <1>1, <2>2, <2>4, <2>5, <2>6 DEF StackFits
<1>4. ASSUME NEW p \in Faults PROVE LeadsTo(1, p)
  <2>1. p \in Paths /\ p \in Seq(STRING) /\ Len(p) \in Nat \ {0}
    BY <1>1, FaultsAreFiles, PathsAreSequences
  <2>2. 0 \in 0 .. Len(p) - 1 /\ SubSeq(p, 1, 0) = <<>>
    BY <2>1
  <2>3. p[1] \in Names(<<>>)
    <3>1. p[0 + 1] \in Names(SubSeq(p, 1, 0))
      BY <2>1, <2>2, NamesBelow
    <3>2. 0 + 1 = 1
      OBVIOUS
    <3>3. QED
      BY <2>2, <3>1, <3>2
  <2>4. QED
    BY <1>1, <2>1, <2>3 DEF LeadsTo
<1>5. FaultsAhead
  <2>1. 1 \in 1 .. Len(todo)
    BY <1>1
  <2>2. QED
    BY <1>1, <1>4, <2>1 DEF FaultsAhead
<1>6. QED
  BY <1>1, <1>3, <1>5 DEF IInv

LEMMA NextIInv == IInv /\ [Next]_vars => IInv'
<1> SUFFICES ASSUME IInv, [Next]_vars PROVE IInv'
  OBVIOUS
<1>1. CASE UNCHANGED vars
  <2>1. UNCHANGED <<given, cwd, todo, result>> /\ GivenFit' /\ Faults' = Faults
    BY <1>1, FaultsStay DEF vars, given, IInv, GivenFit, Cxx, Python
  <2>2. QED
    BY <2>1 DEF IInv, StackFits, FaultsAhead, LeadsTo, Reached
<1>2. CASE Next
  <2>1. UNCHANGED given /\ GivenFit'
    BY <1>2 DEF Next, given, IInv, GivenFit
  <2>2. CASE \E n \in Left : PassOver(n)
    BY <2>1, <2>2, PassOverAhead DEF IInv
  <2>3. CASE \E n \in Left : EnterFolder(n)
    BY <2>1, <2>3, EnterFolderAhead DEF IInv
  <2>4. CASE \E n \in Left : CheckCout(n)
    BY <2>1, <2>4, CheckCoutAhead DEF IInv
  <2>5. CASE \E n \in Left : CheckLint(n)
    BY <2>1, <2>5, CheckLintAhead DEF IInv
  <2>6. CASE \E n \in Left : OtherFile(n)
    BY <2>1, <2>6, OtherFileAhead DEF IInv
  <2>7. CASE LeaveFolder
    BY <2>1, <2>7, LeaveFolderAhead DEF IInv
  <2>8. CASE WalkEnds
    BY <2>1, <2>8, WalkEndsAhead DEF IInv
  <2>9. CASE Breaks
    BY <2>1, <2>9 DEF Breaks, IInv, StackFits, FaultsAhead, Reached
  <2>10. QED
    BY <1>2, <2>2, <2>3, <2>4, <2>5, <2>6, <2>7, <2>8, <2>9 DEF Next
<1>3. QED
  BY <1>1, <1>2

\* The walk of checkCurDir is where the names that it has not looked at say that it
\* is, and nothing that it has passed over or come back from leads to a fault.
THEOREM Invariance == Spec => []IInv
BY InitIInv, NextIInv, PTL DEF Spec

\* checkcode.py ends well only if no source that it reaches has a fault, and stops as
\* on a fault only if there is one, whatever the tree, its links and the names in it.
THEOREM FindsEveryFaultAlways == Spec => []FindsEveryFault
<1>1. IInv => FindsEveryFault
  BY DEF IInv, FaultsAhead, FindsEveryFault
<1>2. QED
  BY <1>1, Invariance, PTL

\* The relative steps of checkCurDir's recursion always come back to the folder whose
\* names it is in the middle of, and at last to the one it began in.
THEOREM StaysOnPathAlways == Spec => []StaysOnPath
<1>1. IInv => StaysOnPath
  <2> SUFFICES ASSUME IInv PROVE StaysOnPath
    OBVIOUS
  <2>1. cwd \in Seq(STRING) /\ Len(cwd) \in Nat /\ Len(todo) = Len(cwd) + 1
    BY DEF IInv, StackFits
  <2>2. Len(todo) \in 1 .. Len(todo) /\ Len(todo) - 1 = Len(cwd)
    BY <2>1
  <2>3. Left \subseteq Names(SubSeq(cwd, 1, Len(cwd)))
    BY <2>2 DEF Left, IInv, StackFits
  <2>4. SubSeq(cwd, 1, Len(cwd)) = cwd
    BY <2>1, WholePrefix
  <2>5. QED
    BY <2>1, <2>3, <2>4 DEF StaysOnPath, IInv, FaultsAhead
<1>2. QED
  BY <1>1, Invariance, PTL

=============================================================================
