------------------------- MODULE SwapTableLock_proofs -------------------------
(***************************************************************************)
(* The lock of SwapTableLock keeps processes off each other's swap, however *)
(* many there are and whatever the times, as long as an owner's touch comes *)
(* before its lease is over (RunnerAssumption).                             *)
(***************************************************************************)
EXTENDS SwapTableLock, TLAPS

USE DEF Places, Move, WakeAt, runnerVars

\* The constants are numbers, and a lease outlasts the time to its next touch.
LEMMA Parameters ==
  /\ Ttl \in Nat /\ RenewEvery \in Nat /\ RetryAfter \in Nat /\ Steps \in Nat
  /\ MaxLate \in Nat /\ MaxTime \in Nat /\ MaxCrashes \in Nat
  /\ RenewEvery + MaxLate < Ttl /\ Ttl <= RetryAfter
  /\ LoadFirst \in BOOLEAN /\ Nobody \notin Procs
  BY RunnerAssumption, NobodyAssumption

\* While there is an owner its record is there and its lease is not over: nobody
\* takes the lock.
LEMMA LeaseOfOwner ==
  ASSUME TypeOK, OwnerHoldsLease, NEW p \in Procs, pc[p] = "owner"
  PROVE  holder = p /\ holder # Nobody /\ Fresh
<1>1. holder = p /\ wake[p] <= stamp + RenewEvery /\ clock <= wake[p] + MaxLate
  BY DEF OwnerHoldsLease
<1>2. wake[p] \in Nat /\ clock \in Nat /\ stamp \in Nat
  BY DEF TypeOK, RunnerTypeOK
<1>3. clock <= stamp + RenewEvery + MaxLate
  BY <1>1, <1>2, Parameters
<1> QED BY <1>1, <1>2, <1>3, Parameters DEF Fresh

LEMMA LockInvInit == Init => LockInv
  BY Parameters DEF Init, RunnerInit, LockInv, TypeOK, RunnerTypeOK, OwnerHoldsLease,
     WaitsForLease, OwnerKnowsRecord

LEMMA LockInvStep == LockInv /\ [Next]_vars => LockInv'
<1> SUFFICES ASSUME LockInv, [Next]_vars PROVE LockInv'
  OBVIOUS
<1> USE Parameters DEF LockInv, TypeOK, RunnerTypeOK
<1>lock. ASSUME NEW p \in Procs, Lock(p) PROVE LockInv'
  <2>1. CASE holder # Nobody /\ Fresh /\ Busy(p) /\ UNCHANGED <<holder, stamp>>
    BY <1>lock, <2>1 DEF Busy, Due, OwnerHoldsLease, WaitsForLease, OwnerKnowsRecord
  <2>2. CASE (holder = Nobody \/ ~Fresh) /\ holder' = p /\ stamp' = clock /\ Own(p)
    <3>1. \A q \in Procs : pc[q] # "owner"
      BY <2>2, LeaseOfOwner
    <3>2. TypeOK'
      BY <2>2 DEF Own
    <3>3. OwnerHoldsLease'
      BY <2>2, <3>1 DEF Own, OwnerHoldsLease
    <3>4. WaitsForLease'
      BY <2>2 DEF Own, WaitsForLease
    <3>5. (LoadFirst \/ OwnerKnowsRecord)'
      BY <2>2, <3>1 DEF Own, OwnerKnowsRecord
    <3> QED BY <3>2, <3>3, <3>4, <3>5
  <2> QED BY <1>lock, <2>1, <2>2 DEF Lock
<1>touch. ASSUME NEW p \in Procs, Touch(p) PROVE LockInv'
  <2>1. holder = p /\ holder' = p /\ stamp' = clock
    BY <1>touch, LeaseOfOwner DEF Touch
  <2>2. TypeOK'
    BY <1>touch, <2>1 DEF Touch
  <2>3. OwnerHoldsLease'
    BY <1>touch, <2>1 DEF Touch, OwnerHoldsLease
  <2>4. WaitsForLease' /\ (LoadFirst \/ OwnerKnowsRecord)'
    BY <1>touch DEF Touch, WaitsForLease, OwnerKnowsRecord
  <2> QED BY <2>2, <2>3, <2>4
<1>release. ASSUME NEW p \in Procs, Release(p) PROVE LockInv'
  BY <1>release DEF Release, OwnerHoldsLease, WaitsForLease, OwnerKnowsRecord
<1>start. ASSUME NEW p \in Procs, Start(p), UNCHANGED <<holder, stamp>> PROVE LockInv'
  BY <1>start DEF Start, OwnerHoldsLease, WaitsForLease, OwnerKnowsRecord
<1>work. ASSUME NEW p \in Procs, Work(p), UNCHANGED <<holder, stamp>> PROVE LockInv'
  <2>1. \A q \in Procs : pc[q] = "owner" => q = p
    BY <1>work DEF Work, OwnerHoldsLease
  <2>2. TypeOK'
    BY <1>work DEF Work
  <2>3. OwnerHoldsLease' /\ WaitsForLease'
    BY <1>work DEF Work, OwnerHoldsLease, WaitsForLease
  <2>4. (LoadFirst \/ OwnerKnowsRecord)'
    BY <1>work, <2>1 DEF Work, OwnerKnowsRecord
  <2> QED BY <2>2, <2>3, <2>4
<1>leave. ASSUME NEW p \in Procs, Leave(p), UNCHANGED <<holder, stamp>> PROVE LockInv'
  BY <1>leave DEF Leave, OwnerHoldsLease, WaitsForLease, OwnerKnowsRecord
<1>crash. ASSUME NEW p \in Procs, Crash(p), UNCHANGED <<holder, stamp>> PROVE LockInv'
  BY <1>crash DEF Crash, OwnerHoldsLease, WaitsForLease, OwnerKnowsRecord
<1>tick. ASSUME Tick, UNCHANGED <<holder, stamp>> PROVE LockInv'
  BY <1>tick DEF Tick, OwnerHoldsLease, WaitsForLease, OwnerKnowsRecord
<1>stutter. ASSUME UNCHANGED vars PROVE LockInv'
  BY <1>stutter DEF vars, OwnerHoldsLease, WaitsForLease, OwnerKnowsRecord
<1> QED
  BY <1>lock, <1>touch, <1>release, <1>start, <1>work, <1>leave, <1>crash, <1>tick,
     <1>stutter DEF Next

-----------------------------------------------------------------------------
\* The inductive invariant: an owner's lease is its own and not over, a process
\* waits for the lease it saw, and the owner of a legacy swap knows its events.
THEOREM LockInvHolds == Spec => []LockInv
  BY LockInvInit, LockInvStep, PTL DEF Spec

\* The record, its timestamp and the processes keep their types.
THEOREM Typing == Spec => []TypeOK
<1>1. LockInv => TypeOK
  BY DEF LockInv
<1> QED BY <1>1, LockInvHolds, PTL

\* Two processes (or browser tabs) never run a swap at the same time.
THEOREM MutualExclusion == Spec => []AtMostOneOwner
<1>1. LockInv => AtMostOneOwner
  BY DEF LockInv, OwnerHoldsLease, AtMostOneOwner
<1> QED BY <1>1, LockInvHolds, PTL

\* A legacy swap, which loads its events under the lock, stores each event once
\* and in order, whoever runs it.
THEOREM LegacyEventsInOrder ==
  ASSUME ~LoadFirst PROVE Spec => EventsInOrder
<1>1. LockInv /\ [Next]_vars => [record' = record + 1]_record
  <2> SUFFICES ASSUME LockInv, [Next]_vars, record' # record
               PROVE  record' = record + 1
    OBVIOUS
  <2>1. PICK p \in Procs : Work(p)
    BY DEF Next, vars, Lock, Touch, Release, Busy, Own, Start, Leave, Crash, Tick
  <2> QED BY <2>1 DEF Work, LockInv, OwnerKnowsRecord
<1> QED BY <1>1, LockInvHolds, PTL DEF Spec, EventsInOrder

\* The lease of a crashed owner never makes a process give the swap up: it waits
\* until that lease is over, and gives up only to one who touched the lock since.
THEOREM YieldsToTheLiving == Spec => GivesUpOnlyToLiveOwner
<1> DEFINE Yields == \A p \in Procs :
                       pc[p] # "gaveUp" /\ pc'[p] = "gaveUp" => stamp > firstTry[p]
<1>1. LockInv /\ [Next]_vars => [Yields]_vars
  <2> SUFFICES ASSUME LockInv, [Next]_vars, NEW p \in Procs,
                      pc[p] # "gaveUp", pc'[p] = "gaveUp"
               PROVE  stamp > firstTry[p]
    BY DEF vars
  <2> USE Parameters DEF LockInv, TypeOK, RunnerTypeOK
  <2>1. PICK q \in Procs : Lock(q) /\ Fresh /\ Busy(q) /\ firstTry[q] # 0 /\ q = p
    BY DEF Next, vars, Lock, Touch, Release, Busy, Own, Start, Work, Leave, Crash, Tick
  <2>2. pc[p] = "waiting" /\ clock >= wake[p]
    BY <2>1 DEF Lock, Due, WaitsForLease
  <2>3. clock >= firstTry[p] + RetryAfter
    BY <2>2 DEF WaitsForLease
  <2>4. clock - stamp < Ttl
    BY <2>1 DEF Fresh
  <2> QED BY <2>3, <2>4
<1> QED BY <1>1, LockInvHolds, PTL DEF Spec, GivesUpOnlyToLiveOwner
===============================================================================
