-------------------------- MODULE SwapFileLock_proofs --------------------------
(***************************************************************************)
(* What the file lock does keep, for any number of processes and any times *)
(* and crashes: nobody gives a swap up to a dead owner, and no touch leaves *)
(* an empty file behind.  That two processes never own the lock is not      *)
(* among it (see the run file_lock_two).                                    *)
(***************************************************************************)
EXTENDS SwapFileLock, TLAPS

USE DEF Places, Move, WakeAt, runnerVars, fileVars

\* A process between opening and writing the file has the lock or is about to,
\* and the time it will write is a time.
OpenInTouch ==
  \A p \in open : pc[p] \in {"stamping", "owner", "releasing"} /\ wake[p] > RenewEvery

\* An empty file is about to be opened, or the one an open touch will write to.
EmptyIsTouched ==
  present /\ stamp = 0 /\ crashes = 0 =>
    \E p \in Procs : (pc[p] = "stamping" /\ p \notin open) \/ p \in linked

\* The second attempt comes when the lease the first one met is over.
WaitsForLease ==
  \A p \in Procs :
    /\ pc[p] = "trying" => firstTry[p] = 0
    /\ pc[p] = "waiting" => wake[p] = firstTry[p] + RetryAfter
    /\ pc[p] = "reading" /\ firstTry[p] # 0 => clock >= firstTry[p] + RetryAfter

FileInv == TypeOK /\ OpenInTouch /\ EmptyIsTouched /\ WaitsForLease
-----------------------------------------------------------------------------
\* The constants are numbers, and the retry comes after the lease.
LEMMA Parameters ==
  /\ Ttl \in Nat /\ RenewEvery \in Nat /\ RetryAfter \in Nat /\ Steps \in Nat
  /\ MaxLate \in Nat /\ MaxTime \in Nat /\ MaxCrashes \in Nat
  /\ Ttl <= RetryAfter /\ LoadFirst \in BOOLEAN
  BY RunnerAssumption

\* No process has touched the file yet.
LEMMA FileInvInit == Init => FileInv
<1> SUFFICES ASSUME Init PROVE FileInv
  OBVIOUS
<1>1. TypeOK
  <2>1. present \in BOOLEAN
    BY Zenon DEF Init
  <2>2. RunnerTypeOK
    BY Parameters DEF Init, RunnerInit, RunnerTypeOK
  <2> QED BY <2>1, <2>2 DEF Init, TypeOK
<1>2. EmptyIsTouched
  BY Zenon DEF Init, EmptyIsTouched
<1>3. OpenInTouch /\ WaitsForLease
  BY DEF Init, RunnerInit, OpenInTouch, WaitsForLease
<1> QED BY <1>1, <1>2, <1>3 DEF FileInv

\* Every file operation of a process, its crash and the passing of time keep the invariant.
LEMMA FileInvStep == FileInv /\ [Next]_vars => FileInv'
<1> SUFFICES ASSUME FileInv, [Next]_vars PROVE FileInv'
  OBVIOUS
<1> USE Parameters DEF FileInv, TypeOK, RunnerTypeOK
<1>create. ASSUME NEW p \in Procs, Create(p) PROVE FileInv'
  <2>0. present' \in BOOLEAN
    BY <1>create, Zenon DEF Create
  <2>1. TypeOK'
    BY <1>create, <2>0 DEF Create, Due
  <2>2. OpenInTouch'
    BY <1>create DEF Create, Due, OpenInTouch
  <2>3. EmptyIsTouched'
    BY <1>create DEF Create, Due, OpenInTouch, EmptyIsTouched
  <2>4. WaitsForLease'
    BY <1>create DEF Create, Due, WaitsForLease
  <2> QED BY <2>1, <2>2, <2>3, <2>4
<1>read. ASSUME NEW p \in Procs, Read(p) PROVE FileInv'
  <2>1. TypeOK'
    BY <1>read DEF Read, Busy, OpenInTouch
  <2>2. OpenInTouch'
    BY <1>read DEF Read, Busy, OpenInTouch
  <2>3. EmptyIsTouched'
    BY <1>read DEF Read, Busy, OpenInTouch, EmptyIsTouched
  <2>4. WaitsForLease'
    BY <1>read DEF Read, Busy, WaitsForLease
  <2> QED BY <2>1, <2>2, <2>3, <2>4
<1>open. ASSUME NEW p \in Procs, Open(p) PROVE FileInv'
  <2>1. TypeOK'
    BY <1>open DEF Open, OpenInTouch
  <2>2. OpenInTouch'
    BY <1>open DEF Open, OpenInTouch
  <2>3. EmptyIsTouched'
    BY <1>open DEF Open, OpenInTouch, EmptyIsTouched
  <2>4. WaitsForLease'
    BY <1>open DEF Open, WaitsForLease
  <2> QED BY <2>1, <2>2, <2>3, <2>4
<1>write. ASSUME NEW p \in Procs, Write(p) PROVE FileInv'
  <2>1. TypeOK'
    BY <1>write DEF Write, Own, OpenInTouch
  <2>2. OpenInTouch'
    BY <1>write DEF Write, Own, OpenInTouch
  <2>3. EmptyIsTouched'
    BY <1>write DEF Write, Own, OpenInTouch, EmptyIsTouched
  <2>4. WaitsForLease'
    BY <1>write DEF Write, Own, WaitsForLease
  <2> QED BY <2>1, <2>2, <2>3, <2>4
<1>release. ASSUME NEW p \in Procs, Release(p) PROVE FileInv'
  <2>1. TypeOK'
    BY <1>release DEF Release, OpenInTouch
  <2>2. OpenInTouch'
    BY <1>release DEF Release, OpenInTouch
  <2>3. EmptyIsTouched'
    BY <1>release DEF Release, OpenInTouch, EmptyIsTouched
  <2>4. WaitsForLease'
    BY <1>release DEF Release, WaitsForLease
  <2> QED BY <2>1, <2>2, <2>3, <2>4
<1>crash. ASSUME NEW p \in Procs, FileCrash(p) PROVE FileInv'
  <2>1. TypeOK'
    BY <1>crash DEF FileCrash, Crash, OpenInTouch
  <2>2. OpenInTouch'
    BY <1>crash DEF FileCrash, Crash, OpenInTouch
  <2>3. EmptyIsTouched'
    BY <1>crash DEF FileCrash, Crash, OpenInTouch, EmptyIsTouched
  <2>4. WaitsForLease'
    BY <1>crash DEF FileCrash, Crash, WaitsForLease
  <2> QED BY <2>1, <2>2, <2>3, <2>4
<1>start. ASSUME NEW p \in Procs, Start(p), UNCHANGED fileVars PROVE FileInv'
  <2>1. TypeOK'
    BY <1>start DEF Start, OpenInTouch
  <2>2. OpenInTouch'
    BY <1>start DEF Start, OpenInTouch
  <2>3. EmptyIsTouched'
    BY <1>start DEF Start, OpenInTouch, EmptyIsTouched
  <2>4. WaitsForLease'
    BY <1>start DEF Start, WaitsForLease
  <2> QED BY <2>1, <2>2, <2>3, <2>4
<1>work. ASSUME NEW p \in Procs, Work(p), UNCHANGED fileVars PROVE FileInv'
  <2>1. TypeOK'
    BY <1>work DEF Work, OpenInTouch
  <2>2. OpenInTouch'
    BY <1>work DEF Work, OpenInTouch
  <2>3. EmptyIsTouched'
    BY <1>work DEF Work, OpenInTouch, EmptyIsTouched
  <2>4. WaitsForLease'
    BY <1>work DEF Work, WaitsForLease
  <2> QED BY <2>1, <2>2, <2>3, <2>4
<1>leave. ASSUME NEW p \in Procs, Leave(p), UNCHANGED fileVars PROVE FileInv'
  <2>1. TypeOK'
    BY <1>leave DEF Leave, OpenInTouch
  <2>2. OpenInTouch'
    BY <1>leave DEF Leave, OpenInTouch
  <2>3. EmptyIsTouched'
    BY <1>leave DEF Leave, OpenInTouch, EmptyIsTouched
  <2>4. WaitsForLease'
    BY <1>leave DEF Leave, WaitsForLease
  <2> QED BY <2>1, <2>2, <2>3, <2>4
<1>tick. ASSUME Tick, UNCHANGED fileVars PROVE FileInv'
  BY <1>tick DEF Tick, OpenInTouch, EmptyIsTouched, WaitsForLease
<1>stutter. ASSUME UNCHANGED vars PROVE FileInv'
  BY <1>stutter DEF vars, OpenInTouch, EmptyIsTouched, WaitsForLease
<1> HIDE DEF FileInv
<1> QED
  BY <1>create, <1>read, <1>open, <1>write, <1>release, <1>crash, <1>start, <1>work, <1>leave,
     <1>tick, <1>stutter DEF Next

-----------------------------------------------------------------------------
\* The inductive invariant: an open touch belongs to a process that has the lock
\* or takes it, an empty file to a touch that will write to it, and a second
\* attempt comes after the lease the first one met.
THEOREM FileInvHolds == Spec => []FileInv
  BY FileInvInit, FileInvStep, PTL DEF Spec

\* The file, its open touches and the processes keep their types; what is written
\* is a time.
THEOREM Typing == Spec => []TypeOK
<1>1. FileInv => TypeOK
  BY DEF FileInv
<1> QED BY <1>1, FileInvHolds, PTL

\* A file without a timestamp is one that a touch is about to write, unless a
\* process died: also when others removed and created the file meanwhile.
THEOREM EmptyIsTransient == Spec => []EmptyOnlyInTouch
<1>1. FileInv => EmptyOnlyInTouch
  BY DEF FileInv, TypeOK, EmptyIsTouched, EmptyOnlyInTouch
<1> QED BY <1>1, FileInvHolds, PTL

\* The file of a crashed owner never makes a process give the swap up: it comes
\* back when the lease it met is over, and gives up only to a later touch.
THEOREM YieldsToTheLiving == Spec => GivesUpOnlyToLiveOwner
<1> DEFINE Yields == \A p \in Procs :
                       pc[p] # "gaveUp" /\ pc'[p] = "gaveUp" => stamp > firstTry[p]
<1>1. FileInv /\ [Next]_vars => [Yields]_vars
  <2> SUFFICES ASSUME FileInv, [Next]_vars, NEW p \in Procs,
                      pc[p] # "gaveUp", pc'[p] = "gaveUp"
               PROVE  stamp > firstTry[p]
    BY DEF vars
  <2> USE Parameters DEF FileInv, TypeOK, RunnerTypeOK
  <2>1. pc[p] = "reading" /\ Fresh /\ firstTry[p] # 0
    BY DEF Next, vars, Create, Read, Open, Write, Release, FileCrash, Busy, Own, Start, Work,
       Leave, Crash, Tick
  <2>2. clock >= firstTry[p] + RetryAfter
    BY <2>1 DEF WaitsForLease
  <2>3. clock - stamp < Ttl
    BY <2>1 DEF Fresh
  <2> QED BY <2>2, <2>3
<1> QED BY <1>1, FileInvHolds, PTL DEF Spec, GivesUpOnlyToLiveOwner
================================================================================
