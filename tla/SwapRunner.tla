------------------------------ MODULE SwapRunner ------------------------------
(***************************************************************************)
(* Processes that share a data directory and want to run the same swap:    *)
(* what each does around the swap's lock.  The lock itself is in           *)
(* SwapFileLock (native) and SwapTableLock (wasm32).  Time is in units of  *)
(* which the lease, its renewal and the retry are multiples.               *)
(***************************************************************************)
EXTENDS Naturals

CONSTANTS
  Procs,        \* processes (or browser tabs) that kickstart the swap
  Ttl,          \* ttl_sec of SwapLock::lock
  RenewEvery,   \* the sleep between two touches
  RetryAfter,   \* the sleep before the second attempt to lock
  LoadFirst,    \* the events are loaded before the lock is taken (swap v2)
  Steps,        \* events until the swap is over
  MaxLate,      \* how late an owner's touch may come
  MaxTime,      \* bound: the last tick of the clock
  MaxCrashes    \* bound: crashes of all processes together

ASSUME RunnerAssumption ==
  /\ {Ttl, RenewEvery, RetryAfter, Steps, MaxLate, MaxTime, MaxCrashes} \subseteq Nat
  /\ RenewEvery + MaxLate < Ttl /\ Ttl <= RetryAfter
  /\ LoadFirst \in BOOLEAN

VARIABLES
  pc,           \* where each process is
  firstTry,     \* when its first attempt to lock failed, 0 before
  wake,         \* when its next attempt, or its next touch, is due
  known,        \* the number of events its machine has gone through
  record,       \* the number of the last stored event
  clock,        \* now_sec()
  crashes       \* crashes so far

runnerVars == <<pc, firstTry, wake, known, record, clock, crashes>>

Places == {"off", "trying", "reading", "waiting", "stamping", "owner",
           "releasing", "done", "gaveUp", "failed"}

Move(p, place) == pc' = [pc EXCEPT ![p] = place]
WakeAt(p, t) == wake' = [wake EXCEPT ![p] = t]

-----------------------------------------------------------------------------
\* The process finds the swap unfinished.  Swap v2 takes the last event here,
\* and may then wait for the coins to be activated.
Start(p) ==
  /\ pc[p] = "off" /\ record < Steps
  /\ Move(p, "trying")
  /\ firstTry' = [firstTry EXCEPT ![p] = 0]
  /\ known' = [known EXCEPT ![p] = IF LoadFirst THEN record ELSE 0]
  /\ UNCHANGED <<wake, record, clock, crashes>>

Due(p) == \/ pc[p] = "trying"
          \/ pc[p] = "waiting" /\ clock >= wake[p]

\* Mutant: the second attempt comes before the lease is over.
Busy_soon(p) ==
  /\ IF firstTry[p] = 0
     THEN /\ Move(p, "waiting") /\ WakeAt(p, clock + RetryAfter \div 2)
          /\ firstTry' = [firstTry EXCEPT ![p] = clock]
     ELSE Move(p, "gaveUp") /\ UNCHANGED <<wake, firstTry>>
  /\ UNCHANGED <<known, record, clock, crashes>>

\* The lock is held: one more attempt, then none.
Busy(p) ==
  /\ IF firstTry[p] = 0
     THEN /\ Move(p, "waiting") /\ WakeAt(p, clock + RetryAfter)
          /\ firstTry' = [firstTry EXCEPT ![p] = clock]
     ELSE Move(p, "gaveUp") /\ UNCHANGED <<wake, firstTry>>
  /\ UNCHANGED <<known, record, clock, crashes>>

\* Mutant: the legacy swap loads its events before it waits for the lock.
Own_stale(p) ==
  /\ Move(p, "owner") /\ WakeAt(p, clock)
  /\ UNCHANGED <<known, firstTry, record, clock, crashes>>

\* The lock is taken and the first touch due at once.  The legacy swap loads
\* its events here.
Own(p) ==
  /\ Move(p, "owner") /\ WakeAt(p, clock)
  /\ known' = [known EXCEPT ![p] = IF LoadFirst THEN @ ELSE record]
  /\ UNCHANGED <<firstTry, record, clock, crashes>>

\* Mutant: a swap that is over is not recognised.
Work_past(p) ==
  /\ pc[p] = "owner"
  /\ known' = [known EXCEPT ![p] = @ + 1]
  /\ record' = known[p] + 1
  /\ UNCHANGED <<pc, firstTry, wake, clock, crashes>>

\* One event of the swap: what it stands for is done, then it is stored.
Work(p) ==
  /\ pc[p] = "owner" /\ known[p] < Steps
  /\ known' = [known EXCEPT ![p] = @ + 1]
  /\ record' = known[p] + 1
  /\ UNCHANGED <<pc, firstTry, wake, clock, crashes>>

\* The swap is over, for this process: the lock will be dropped.
Leave(p) ==
  /\ pc[p] = "owner" /\ known[p] = Steps
  /\ Move(p, "releasing")
  /\ UNCHANGED <<firstTry, wake, known, record, clock, crashes>>

\* The process stops and may be started again; the lock is not dropped.
Crash(p) ==
  /\ pc[p] # "off" /\ crashes < MaxCrashes
  /\ crashes' = crashes + 1
  /\ Move(p, "off")
  /\ UNCHANGED <<firstTry, wake, known, record, clock>>

\* Owners touch their lock in time.
Tick ==
  /\ clock < MaxTime
  /\ \A p \in Procs : pc[p] \in {"stamping", "owner"} => clock < wake[p] + MaxLate
  /\ clock' = clock + 1
  /\ UNCHANGED <<pc, firstTry, wake, known, record, crashes>>

RunnerInit ==
  /\ pc = [p \in Procs |-> "off"]
  /\ firstTry = [p \in Procs |-> 0]
  /\ wake = [p \in Procs |-> 0]
  /\ known = [p \in Procs |-> 0]
  /\ record = 0 /\ clock = 1 /\ crashes = 0

RunnerTypeOK ==
  /\ pc \in [Procs -> Places]
  /\ firstTry \in [Procs -> Nat] /\ wake \in [Procs -> Nat]
  /\ known \in [Procs -> 0..Steps] /\ record \in 0..Steps
  /\ clock \in Nat \ {0} /\ crashes \in Nat

-----------------------------------------------------------------------------
\* Two processes never run the swap at the same time.
AtMostOneOwner == \A p, q \in Procs : pc[p] = "owner" /\ pc[q] = "owner" => p = q

\* No event is stored twice or skipped: whoever takes the swap over goes on
\* from the last stored event.
EventsInOrder == [][record' = record + 1]_record
===============================================================================
