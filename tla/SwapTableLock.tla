----------------------------- MODULE SwapTableLock -----------------------------
(***************************************************************************)
(* The lock of a swap in the browser: a record of SwapLockTable, one per   *)
(* swap, read and written in transactions of IndexedDB.                    *)
(***************************************************************************)
EXTENDS SwapRunner

CONSTANT Nobody   \* no record in the table

ASSUME NobodyAssumption == Nobody \notin Procs

VARIABLES
  holder,   \* whose record_id the record has
  stamp     \* its timestamp

vars == <<runnerVars, holder, stamp>>

\* Mutant: the comparison is off by one.
Fresh_short == clock - stamp + 1 < Ttl

\* time_passed <= ttl_sec.  The timestamp is a whole second, rounded down, and
\* now_float() is not: when the clocks differ by Ttl more than Ttl has passed.
Fresh == clock - stamp < Ttl

\* SwapLock::lock.
Lock(p) ==
  /\ Due(p)
  /\ \/ /\ holder # Nobody /\ Fresh
        /\ Busy(p) /\ UNCHANGED <<holder, stamp>>
     \/ /\ holder = Nobody \/ ~Fresh
        /\ holder' = p /\ stamp' = clock
        /\ Own(p)

\* SwapLock::touch: the record is put back under its id, unless the table has
\* another one for the swap; that error is only logged.
Touch(p) ==
  /\ pc[p] = "owner" /\ clock >= wake[p]
  /\ IF holder \in {p, Nobody}
     THEN holder' = p /\ stamp' = clock
     ELSE UNCHANGED <<holder, stamp>>
  /\ WakeAt(p, clock + RenewEvery)
  /\ UNCHANGED <<pc, firstTry, known, record, clock, crashes>>

\* SwapLock::release, in a future spawned by drop: by record id, so that only
\* the own record goes.
Release(p) ==
  /\ pc[p] = "releasing"
  /\ holder' = IF holder = p THEN Nobody ELSE holder
  /\ Move(p, "done")
  /\ UNCHANGED <<firstTry, wake, known, record, clock, crashes, stamp>>

Init == RunnerInit /\ holder = Nobody /\ stamp = 0

Next ==
  \/ \E p \in Procs :
       \/ Lock(p) \/ Touch(p) \/ Release(p)
       \/ (Start(p) \/ Work(p) \/ Leave(p) \/ Crash(p)) /\ UNCHANGED <<holder, stamp>>
  \/ Tick /\ UNCHANGED <<holder, stamp>>

Spec == Init /\ [][Next]_vars

-----------------------------------------------------------------------------
TypeOK == RunnerTypeOK /\ holder \in Procs \cup {Nobody} /\ stamp \in Nat

\* A process gives the swap up only to an owner that has touched the lock since
\* its first attempt: a crashed one's lease, its own included, never stops it.
GivesUpOnlyToLiveOwner ==
  [][\A p \in Procs : pc[p] # "gaveUp" /\ pc'[p] = "gaveUp" => stamp > firstTry[p]]_vars

-----------------------------------------------------------------------------
\* An owner's lease is its own and not over.
OwnerHoldsLease ==
  \A p \in Procs : pc[p] = "owner" =>
    /\ holder = p
    /\ wake[p] <= stamp + RenewEvery /\ clock <= wake[p] + MaxLate

\* An owner knows all that is stored.
OwnerKnowsRecord == \A p \in Procs : pc[p] = "owner" => known[p] = record

\* A process that has tried once is not awake before the lease it saw is over.
WaitsForLease ==
  \A p \in Procs :
    /\ pc[p] = "trying" => firstTry[p] = 0
    /\ pc[p] = "waiting" => firstTry[p] # 0 /\ wake[p] = firstTry[p] + RetryAfter

\* What every reachable state satisfies, and every step preserves: one owner,
\* whose lease is not over and who misses nothing that is stored if the events
\* were loaded under the lock.
LockInv ==
  /\ TypeOK
  /\ OwnerHoldsLease
  /\ WaitsForLease
  /\ LoadFirst \/ OwnerKnowsRecord
================================================================================
