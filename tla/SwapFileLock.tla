------------------------------ MODULE SwapFileLock ------------------------------
(***************************************************************************)
(* The lock of a swap of a native node: a file that exists while the lock  *)
(* is held and holds the time of the last touch.  create_new, reading,     *)
(* opening for a write (which empties the file), the write itself and the  *)
(* removal are steps of their own: other processes run in between.         *)
(***************************************************************************)
EXTENDS SwapRunner

VARIABLES
  present,   \* the path names a file
  stamp,     \* the timestamp in it, 0 when it is empty
  open,      \* processes between opening the file and writing to it
  linked     \* those whose open file is still the one the path names

vars == <<runnerVars, present, stamp, open, linked>>
fileVars == <<present, stamp, open, linked>>

\* Mutant: a lock is looked upon as old one unit too early.
Fresh_short == clock - stamp + 1 < Ttl

\* now_float() - lm <= ttl_sec.  The timestamp is a whole second, rounded down,
\* and now_float() is not: when the clocks differ by Ttl more than Ttl has passed.
Fresh == clock - stamp < Ttl

\* Mutant: the creator leaves the first touch to the touch loop.
Create_untouched(p) ==
  /\ Due(p)
  /\ \/ ~present /\ present' = TRUE /\ stamp' = 0 /\ Own(p)
     \/ /\ present /\ UNCHANGED <<present, stamp, wake>> /\ Move(p, "reading")
        /\ UNCHANGED <<firstTry, known, record, clock, crashes>>
  /\ UNCHANGED <<open, linked>>

\* FileLock::lock creates the file or finds one.
Create(p) ==
  /\ Due(p)
  /\ \/ ~present /\ present' = TRUE /\ stamp' = 0 /\ Move(p, "stamping") /\ WakeAt(p, clock)
     \/ present /\ UNCHANGED <<present, stamp, wake>> /\ Move(p, "reading")
  /\ UNCHANGED <<open, linked, firstTry, known, record, clock, crashes>>

\* The file may be gone again, which is an error; an empty one counts as old.
Read(p) ==
  /\ pc[p] = "reading"
  /\ \/ /\ ~present
        /\ Move(p, "failed")
        /\ UNCHANGED <<wake, firstTry, known, record, clock, crashes>>
     \/ present /\ stamp # 0 /\ Fresh /\ Busy(p)
     \/ /\ present /\ (stamp = 0 \/ ~Fresh)
        /\ Move(p, "stamping") /\ WakeAt(p, clock)
        /\ UNCHANGED <<firstTry, known, record, clock, crashes>>
  /\ UNCHANGED fileVars

\* FileLock::touch: fs::write opens the file, or creates it, and empties it ...
Open(p) ==
  /\ p \notin open
  /\ pc[p] \in {"stamping", "owner"} /\ clock >= wake[p]
  /\ present' = TRUE /\ stamp' = 0
  /\ open' = open \cup {p} /\ linked' = linked \cup {p}
  /\ WakeAt(p, clock + RenewEvery)
  /\ UNCHANGED <<pc, firstTry, known, record, clock, crashes>>

\* ... and writes the time it was called at, into a file that may be gone.
Write(p) ==
  /\ p \in open
  /\ stamp' = IF p \in linked THEN wake[p] - RenewEvery ELSE stamp
  /\ open' = open \ {p} /\ linked' = linked \ {p}
  /\ IF pc[p] = "stamping"
     THEN Own(p)
     ELSE UNCHANGED runnerVars
  /\ UNCHANGED present

\* Dropping the lock removes whatever file the path names, once a touch of the
\* process is over.
Release(p) ==
  /\ pc[p] = "releasing" /\ p \notin open
  /\ present' = FALSE /\ stamp' = 0 /\ linked' = {}
  /\ Move(p, "done")
  /\ UNCHANGED <<open, firstTry, wake, known, record, clock, crashes>>

FileCrash(p) ==
  /\ Crash(p)
  /\ open' = open \ {p} /\ linked' = linked \ {p}
  /\ UNCHANGED <<present, stamp>>

Init == RunnerInit /\ present = FALSE /\ stamp = 0 /\ open = {} /\ linked = {}

Next ==
  \/ \E p \in Procs :
       \/ Create(p) \/ Read(p) \/ Open(p) \/ Write(p) \/ Release(p) \/ FileCrash(p)
       \/ (Start(p) \/ Work(p) \/ Leave(p)) /\ UNCHANGED fileVars
  \/ Tick /\ UNCHANGED fileVars

Spec == Init /\ [][Next]_vars

-----------------------------------------------------------------------------
TypeOK ==
  /\ RunnerTypeOK
  /\ present \in BOOLEAN /\ stamp \in Nat
  /\ linked \subseteq open /\ open \subseteq Procs

\* Unless a process died between them, a file without a timestamp has a process
\* that is about to write one: it does not stay for others to take.
EmptyOnlyInTouch ==
  present /\ stamp = 0 /\ crashes = 0 =>
    \E p \in Procs : pc[p] = "stamping" \/ p \in open

\* A process gives the swap up only to an owner that has touched the lock since
\* its first attempt: a crashed one's file, its own included, never stops it.
GivesUpOnlyToLiveOwner ==
  [][\A p \in Procs : pc[p] # "gaveUp" /\ pc'[p] = "gaveUp" => stamp > firstTry[p]]_vars
================================================================================
