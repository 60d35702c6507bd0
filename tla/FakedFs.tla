------------------------------ MODULE FakedFs ------------------------------
(***************************************************************************)
(* What the size-faking file system promises to the application that sets  *)
(* fake sizes and to the programs that ask for the sizes of the mount:     *)
(*                                                                         *)
(*  - a setter takes effect as a whole, at one moment between its call and *)
(*    its return;                                                          *)
(*  - the answer to a statfs is computed from ONE answer of the underlying *)
(*    file system, taken while the request was open, and from the settings *)
(*    in force at ONE later moment of the same request;                    *)
(*  - an underlying file system that fails, or whose block size is no      *)
(*    longer the one the faker was created with, gives an error.           *)
(***************************************************************************)
EXTENDS FakeSizes

CONSTANTS
  Callers,    \* the application's threads
  Workers,    \* the threads of the fuse loop
  RealStats,  \* what statvfs may say of the underlying file system
  Requests    \* the setter calls the application makes

VARIABLES
  real,    \* what statvfs says of the underlying file system
  fake,    \* the settings in force
  up,      \* FALSE once the process is gone
  phase,   \* of every thread
  order,   \* of every caller: the call it is in
  sample,  \* of every worker: the underlying answer it works from
  answer   \* of every worker: what it replies

vars == <<real, fake, up, phase, order, sample, answer>>

Fresh ==
  /\ fake = NoFake
  /\ phase = [t \in Callers \cup Workers |-> "idle"]
  /\ order = [c \in Callers |-> NoCall]
  /\ sample = [w \in Workers |-> ZeroStat]
  /\ answer = [w \in Workers |-> Error]

Init == real \in RealStats /\ up = TRUE /\ Fresh

Moves(t, from, to) ==
  /\ up
  /\ phase[t] = from
  /\ phase' = [phase EXCEPT ![t] = to]

DiskChanges ==
  /\ up
  /\ real' \in RealStats
  /\ UNCHANGED <<fake, up, phase, order, sample, answer>>

Crash ==
  /\ up
  /\ up' = FALSE
  /\ fake' = NoFake
  /\ phase' = [t \in Callers \cup Workers |-> "idle"]
  /\ order' = [c \in Callers |-> NoCall]
  /\ sample' = [w \in Workers |-> ZeroStat]
  /\ answer' = [w \in Workers |-> Error]
  /\ UNCHANGED real

Call(c) ==
  /\ Moves(c, "idle", "called")
  /\ \E r \in Requests : order' = [order EXCEPT ![c] = Order(r)]
  /\ UNCHANGED <<real, fake, up, sample, answer>>

TakesEffect(c) ==
  /\ Moves(c, "called", "done")
  /\ fake' = [fake EXCEPT ![order[c].dim] = [fixed |-> order[c].fixed, n |-> order[c].n]]
  /\ UNCHANGED <<real, up, order, sample, answer>>

Return(c) ==
  /\ Moves(c, "done", "idle")
  /\ order' = [order EXCEPT ![c] = NoCall]
  /\ UNCHANGED <<real, fake, up, sample, answer>>

Ask(w) ==
  /\ Moves(w, "idle", "asked")
  /\ UNCHANGED <<real, fake, up, order, sample, answer>>

Sample(w) ==
  /\ Moves(w, "asked", "sampled")
  /\ sample' \in {[sample EXCEPT ![w] = s] : s \in {real, ZeroStat}}
  /\ UNCHANGED <<real, fake, up, order, answer>>

Decide(w) ==
  /\ Moves(w, "sampled", "decided")
  /\ answer' = [answer EXCEPT ![w] =
       IF sample[w].frsize = BlockSize
       THEN [ret |-> 0, stat |-> FakedStat(sample[w], fake)]
       ELSE Error]
  /\ UNCHANGED <<real, fake, up, order, sample>>

Reply(w) ==
  /\ Moves(w, "decided", "idle")
  /\ sample' = [sample EXCEPT ![w] = ZeroStat]
  /\ answer' = [answer EXCEPT ![w] = Error]
  /\ UNCHANGED <<real, fake, up, order>>

Next ==
  \/ DiskChanges \/ Crash
  \/ \E c \in Callers : Call(c) \/ TakesEffect(c) \/ Return(c)
  \/ \E w \in Workers : Ask(w) \/ Sample(w) \/ Decide(w) \/ Reply(w)

Spec == Init /\ [][Next]_vars
=============================================================================
