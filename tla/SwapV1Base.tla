------------------------------ MODULE SwapV1Base ------------------------------
(***************************************************************************)
(* State shared by the sides of a legacy swap: the commands each side runs *)
(* and the events it saves, the messages, the two chains and the clock.    *)
(* The commands are in MakerSwapV1 and TakerSwapV1, the watcher is in      *)
(* SwapWatcher; SwapV1 composes them.                                      *)
(***************************************************************************)
EXTENDS Naturals, Sequences

CONSTANTS
  LockDuration,   \* lock_duration, in ticks of the model's clock
  RefundWait,     \* the 3700 s of wait_refund_until, in ticks
  Watched,        \* watchers are enabled and both coins support them
  MaxTime,        \* bound: the last tick of the clock
  MaxCrashes,     \* bound: crashes, both sides together
  MaxErrors,      \* bound: calls of a node or checks that fail
  MaxDrops        \* bound: unconfirmed payments the mempools lose

ASSUME SwapV1Assumption ==
  /\ LockDuration \in Nat \ {0} /\ RefundWait \in Nat /\ Watched \in BOOLEAN
  /\ MaxTime \in Nat /\ MaxCrashes \in Nat /\ MaxErrors \in Nat /\ MaxDrops \in Nat

VARIABLES
  cmd,        \* the command each side runs next, or "Over", "Down", "Panicked"
  step,       \* the await the command has reached, 1 or 2
  todo,       \* the events the last command returned that are not saved yet
  saved,      \* the events each side has saved
  last,       \* the last of them
  lost,       \* the side whose record was made anew from the other's, or "none"
  restarts,   \* crashes of each side so far
  sent,       \* kinds of message broadcast so far
  tx,         \* what the chains know of each transaction
  repeats,    \* transactions sent again while the first was known
  drops,      \* payments lost by a mempool so far
  errors,     \* calls that failed so far
  watcher,    \* the state of the watcher's machine
  guarded,    \* the watcher waits for the end of the swap since the taker's
              \* message, and no call of its own failed since
  clock       \* now_sec() - started_at

runVars == <<cmd, step, todo, saved, last, lost>>
chainVars == <<tx, repeats, drops>>
watcherVars == <<watcher, guarded>>
vars == <<runVars, restarts, sent, chainVars, errors, watcherVars, clock>>

Sides == {"maker", "taker"}

-----------------------------------------------------------------------------
(* Deadlines, from started_at on, which both sides count from.             *)

FeeDeadline == LockDuration \div 3
MakerPaymentDeadline == LockDuration \div 3
MakerPaymentConfUntil == (LockDuration * 2) \div 5
TakerPaymentSpendDeadline == (LockDuration * 4) \div 5
TakerPaymentLock == LockDuration
MakerPaymentLock == 2 * LockDuration
WatcherRefundTime == (LockDuration * 3) \div 2
WaitRefundUntil == [maker |-> MakerPaymentLock + RefundWait,
                    taker |-> TakerPaymentLock + RefundWait]

-----------------------------------------------------------------------------
(* run_maker_swap and run_taker_swap: a command returns its events and the *)
(* command after it; each event is applied and saved, one by one.          *)

\* The command c of side s runs and has reached its await number n.
Runs(s, c, n) == cmd[s] = c /\ todo[s] = <<>> /\ step[s] = n

\* It returns.
Return(s, events, c) ==
  /\ todo' = [todo EXCEPT ![s] = events]
  /\ cmd' = [cmd EXCEPT ![s] = c]
  /\ step' = [step EXCEPT ![s] = 1]
  /\ UNCHANGED <<saved, last, lost, restarts, watcherVars, clock>>

NextAwait(s) ==
  /\ step' = [step EXCEPT ![s] = 2]
  /\ UNCHANGED <<cmd, todo, saved, last, lost, restarts, watcherVars, clock>>

\* Whether e is what the commands unwrap: an event that was applied.
Knows(s, e) == e \in saved[s]

SaveEvent(s) ==
  /\ cmd[s] # "Down" /\ todo[s] # <<>>
  /\ last' = [last EXCEPT ![s] = Head(todo[s])]
  /\ saved' = [saved EXCEPT ![s] = @ \cup {Head(todo[s])}]
  /\ todo' = [todo EXCEPT ![s] = Tail(@)]
  /\ UNCHANGED <<cmd, step, lost, restarts, sent, chainVars, errors, watcherVars, clock>>

\* The process stops at any moment; only what was saved is left.
Crash(s) ==
  /\ restarts["maker"] + restarts["taker"] < MaxCrashes
  /\ cmd[s] \notin {"Down", "Panicked"} /\ ~(cmd[s] = "Over" /\ todo[s] = <<>>)
  /\ cmd' = [cmd EXCEPT ![s] = "Down"]
  /\ step' = [step EXCEPT ![s] = 1]
  /\ todo' = [todo EXCEPT ![s] = <<>>]
  /\ restarts' = [restarts EXCEPT ![s] = @ + 1]
  /\ UNCHANGED <<saved, last, lost, sent, chainVars, errors, watcherVars, clock>>

\* A call of a node fails, or a check of what the other side sent.
Fails == errors < MaxErrors /\ errors' = errors + 1
NoError == UNCHANGED errors

-----------------------------------------------------------------------------
(* Messages.  What is broadcast may arrive any number of times, late or    *)
(* never, as long as the other side cares to wait.                         *)

Kinds == {"Negotiation", "NegotiationReply", "Negotiated", "TakerFee",
          "MakerPayment", "TakerPayment", "Watcher"}

Broadcast(k) == sent' = sent \cup {k}

-----------------------------------------------------------------------------
(* The two chains.                                                         *)

Payments == {"makerPayment", "takerPayment"}
Spends == [takerPaymentSpend |-> "takerPayment", takerPaymentRefund |-> "takerPayment",
           makerPaymentSpend |-> "makerPayment", makerPaymentRefund |-> "makerPayment"]
SpendingTxs == DOMAIN Spends
Txs == SpendingTxs \cup Payments \cup {"takerFee"}

Live(t) == tx[t] # "none"
Unspent(p) == \A t \in SpendingTxs : Spends[t] = p => ~Live(t)

\* A payment or a fee from the wallet is a new transaction each time.
Submit(t) ==
  /\ tx' = [tx EXCEPT ![t] = "mempool"]
  /\ repeats' = IF Live(t) THEN repeats \cup {t} ELSE repeats
  /\ UNCHANGED drops

\* A node accepts the spend of a known and unspent payment, and may accept one
\* it has already but that no block holds ...
SubmitSpend(t) ==
  /\ \/ Live(Spends[t]) /\ Unspent(Spends[t])
     \/ tx[t] = "mempool"
  /\ tx' = [tx EXCEPT ![t] = "mempool"]
  /\ UNCHANGED <<repeats, drops>>

\* ... or refuse it, as it refuses any other.
Refused(t) == ~(Live(Spends[t]) /\ Unspent(Spends[t])) /\ UNCHANGED chainVars

\* Mutant: zero confirmations do.
Confirmed_zeroConf(t, until) == Live(t) /\ clock <= until

\* wait_for_confirmations checks the time before it asks for the transaction.
Confirmed(t, until) == tx[t] = "confirmed" /\ clock <= until
ConfirmTimeout(t, until) == clock > until

\* Nobody asks for the confirmations of a refund, or of the fee.
Confirm(t) ==
  /\ tx[t] = "mempool"
  /\ t \in SpendingTxs => tx[Spends[t]] = "confirmed"
  /\ tx' = [tx EXCEPT ![t] = "confirmed"]
  /\ UNCHANGED <<runVars, restarts, sent, repeats, drops, errors, watcherVars, clock>>

\* An unconfirmed payment nobody spends is dropped or replaced.
Drop(t) ==
  /\ drops < MaxDrops
  /\ tx[t] = "mempool" /\ Unspent(t)
  /\ tx' = [tx EXCEPT ![t] = "none"]
  /\ drops' = drops + 1
  /\ UNCHANGED <<runVars, restarts, sent, repeats, errors, watcherVars, clock>>

-----------------------------------------------------------------------------
Init ==
  /\ cmd = [s \in Sides |-> "Start"] /\ step = [s \in Sides |-> 1]
  /\ todo = [s \in Sides |-> <<>>]
  /\ saved = [s \in Sides |-> {}] /\ last = [s \in Sides |-> "None"]
  /\ lost = "none"
  /\ restarts = [s \in Sides |-> 0]
  /\ sent = {}
  /\ tx = [t \in Txs |-> "none"] /\ repeats = {} /\ drops = 0 /\ errors = 0
  /\ watcher = "Stopped" /\ guarded = FALSE
  /\ clock = 0
===============================================================================
