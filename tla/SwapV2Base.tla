----------------------------- MODULE SwapV2Base -----------------------------
(***************************************************************************)
(* State shared by the two sides of a swap of the upgraded trading         *)
(* protocol ("swap v2"): the state machines as the storable state machine  *)
(* framework runs and persists them, the P2P message stores, the two       *)
(* chains and the clock.  The handlers of each state are in MakerSwapV2    *)
(* and TakerSwapV2; SwapV2 composes them.                                  *)
(***************************************************************************)
EXTENDS Naturals

CONSTANTS
  LockDuration,             \* lock_duration, in ticks of the model's clock
  MaxStartedAtDiff,         \* MAX_STARTED_AT_DIFF, in ticks
  SkipPreimage,             \* taker_coin.skip_taker_payment_spend_preimage()
  RequireFundingConfirm,    \* require_taker_funding_confirm_before_maker_payment
  RequirePaymentConfirm,    \* require_maker_payment_confirm_before_funding_spend
  RequireSpendConfirm,      \* require_{taker,maker}_payment_spend_confirm
  MaxSkew,                  \* bound: how far started_at goes beyond MaxStartedAtDiff
  MaxAfter,                 \* bound: ticks the clock goes on after MakerPaymentLocktime
  MaxCrashes,               \* bound: crashes, both sides together
  MaxStoreErrors,           \* bound: storage errors, both sides together
  MaxDrops                  \* bound: unconfirmed payments the mempools lose

ASSUME SwapAssumption ==
  /\ LockDuration \in Nat \ {0} /\ MaxStartedAtDiff \in Nat
  /\ {SkipPreimage, RequireFundingConfirm, RequirePaymentConfirm,
      RequireSpendConfirm} \subseteq BOOLEAN
  /\ MaxStartedAtDiff <= LockDuration
  /\ MaxSkew \in Nat /\ MaxAfter \in Nat /\ MaxCrashes \in Nat
  /\ MaxStoreErrors \in Nat /\ MaxDrops \in Nat

VARIABLES
  mem,          \* the state the machine of each side is in
  stored,       \* the state its last stored event restores
  step,         \* the await the state's on_changed has reached, 1 or 2
  finished,     \* mark_finished was stored
  locked,       \* the side's amount is in SwapsContext.locked_amounts
  restarts,     \* crashes of each side so far
  storeErrors,  \* storage errors so far
  reason,       \* the maker's MakerPaymentRefundReason, by what it decides
  sent,         \* kinds of message broadcast so far
  inbox,        \* the slots of the two SwapV2MsgStores that are filled
  tx,           \* what the chains know of each transaction
  orphans,      \* payments sent again after a crash, the first one forgotten
  drops,        \* payments lost by a mempool so far
  clock,        \* now_sec()
  startedAt     \* started_at of each side

machineVars == <<mem, step, locked>>
storageVars == <<stored, finished, storeErrors>>
p2pVars == <<sent, inbox>>
chainVars == <<tx, orphans, drops>>
timeVars == <<clock, startedAt>>
vars == <<machineVars, storageVars, restarts, reason, p2pVars, chainVars, timeVars>>

Sides == {"maker", "taker"}

-----------------------------------------------------------------------------
(* States.  "Initialize" stands for a stored repr with no event yet.       *)

MakerStates ==
  {"Initialize", "Initialized", "WaitingForTakerFunding", "TakerFundingReceived",
   "MakerPaymentSent", "MakerPaymentRefundRequired", "MakerPaymentRefunded",
   "TakerPaymentReceived", "TakerPaymentReceivedSkipped", "TakerPaymentSpent",
   "Aborted", "Completed"}

TakerStates ==
  {"Initialize", "Initialized", "Negotiated", "TakerFundingSent",
   "MakerPaymentReceived", "MakerPaymentConfirmed", "TakerPaymentSent",
   "TakerPaymentSentSkipped", "TakerFundingRefundRequired", "TakerFundingRefunded",
   "TakerPaymentRefundRequired", "TakerPaymentRefunded", "TakerPaymentSpent",
   "MakerPaymentSpent", "Aborted", "Completed"}

States == [maker |-> MakerStates, taker |-> TakerStates]

\* The states that implement LastState.
Terminal == {"Aborted", "Completed", "MakerPaymentRefunded",
             "TakerFundingRefunded", "TakerPaymentRefunded"}

\* A process that is down, and a machine whose run returned a storage error.
NotRunning == {"Down", "Failed"}

-----------------------------------------------------------------------------
(* Lock times and confirmation deadlines.                                  *)

MakerPaymentLocktime == startedAt["maker"] + 2 * LockDuration
TakerPaymentConfTimeout == startedAt["maker"] + (LockDuration * 2) \div 3
TakerPaymentLocktime == startedAt["taker"] + LockDuration
MakerPaymentConfTimeout == startedAt["taker"] + LockDuration \div 3

\* Mutant: the difference stops at zero, so a taker that starts late passes.
StartedAtDiff_saturated == IF startedAt["maker"] > startedAt["taker"]
                           THEN startedAt["maker"] - startedAt["taker"]
                           ELSE 0

StartedAtDiff == IF startedAt["maker"] > startedAt["taker"]
                 THEN startedAt["maker"] - startedAt["taker"]
                 ELSE startedAt["taker"] - startedAt["maker"]

-----------------------------------------------------------------------------
(* The framework: change_state calls on_event, then stores the event; only *)
(* then does on_changed of the new state run.                              *)

\* Side s runs on_changed of state st and has reached its await number n.
At(s, st, n) == mem[s] = st /\ stored[s] = st /\ step[s] = n

\* The states whose events lock the side's amount (on_event) ...
Locks == [maker |-> {"Initialized"}, taker |-> {"Initialized"}]
\* ... and those whose events release it.
Unlocks == [maker |-> {"MakerPaymentSent"}, taker |-> {"TakerFundingSent"}]
\* The stored states that on_kickstart_event locks the amount for.
KickstartLocks == [maker |-> {"Initialized", "WaitingForTakerFunding", "TakerFundingReceived"},
                   taker |-> {"Initialized", "Negotiated"}]

OnEvent(s, st) == \/ st \in Locks[s]
                  \/ locked[s] /\ st \notin Unlocks[s]

ChangeState(s, st) ==
  /\ mem' = [mem EXCEPT ![s] = st]
  /\ step' = [step EXCEPT ![s] = 1]
  /\ locked' = [locked EXCEPT ![s] = OnEvent(s, st)]
  /\ UNCHANGED <<storageVars, restarts, timeVars>>

\* on_changed goes on to its next await without changing state.
NextAwait(s) ==
  /\ step' = [step EXCEPT ![s] = 2]
  /\ UNCHANGED <<mem, locked, storageVars, restarts, reason, timeVars>>

StoreEvent(s) ==
  /\ mem[s] \notin NotRunning /\ mem[s] # stored[s]
  /\ stored' = [stored EXCEPT ![s] = mem[s]]
  /\ UNCHANGED <<machineVars, finished, storeErrors, restarts, reason,
                 p2pVars, chainVars, timeVars>>

\* on_finished: mark_finished, then clean_up_context.
Finish(s) ==
  /\ stored[s] \in Terminal /\ mem[s] = stored[s] /\ ~finished[s]
  /\ finished' = [finished EXCEPT ![s] = TRUE]
  /\ locked' = [locked EXCEPT ![s] = FALSE]
  /\ UNCHANGED <<mem, step, stored, storeErrors, restarts, reason,
                 p2pVars, chainVars, timeVars>>

\* store_event or mark_finished fails: run returns the error and nothing is
\* cleaned up.
StoreError(s) ==
  /\ storeErrors < MaxStoreErrors
  /\ mem[s] \notin NotRunning
  /\ mem[s] # stored[s] \/ (mem[s] \in Terminal /\ ~finished[s])
  /\ mem' = [mem EXCEPT ![s] = "Failed"]
  /\ storeErrors' = storeErrors + 1
  /\ UNCHANGED <<step, locked, stored, finished, restarts, reason,
                 p2pVars, chainVars, timeVars>>

-----------------------------------------------------------------------------
(* P2P messages.  A broadcast message may reach the other side's store any *)
(* number of times, late or never; a slot holds the last one and take()    *)
(* empties it.                                                             *)

Recipient == [MakerNegotiation   |-> "taker", TakerNegotiation |-> "maker",
              MakerNegotiated    |-> "taker", TakerFundingInfo |-> "maker",
              MakerPaymentInfo   |-> "taker", TakerPaymentSpendPreimage |-> "maker"]
Kinds == DOMAIN Recipient

Broadcast(k) == sent' = sent \cup {k} /\ UNCHANGED inbox

\* Mutant: the store accepts what was not sent in this swap.
Deliver_unsent(k) ==
  /\ k \in Kinds \ inbox
  /\ mem[Recipient[k]] # "Down" /\ ~finished[Recipient[k]]
  /\ inbox' = inbox \cup {k}
  /\ UNCHANGED <<machineVars, storageVars, restarts, reason, sent, chainVars, timeVars>>

\* process_swap_v2_msg: the store of the swap exists until clean_up_context.
Deliver(k) ==
  /\ k \in sent \ inbox
  /\ mem[Recipient[k]] # "Down" /\ ~finished[Recipient[k]]
  /\ inbox' = inbox \cup {k}
  /\ UNCHANGED <<machineVars, storageVars, restarts, reason, sent, chainVars, timeVars>>

Receive(k) == k \in inbox /\ inbox' = inbox \ {k} /\ UNCHANGED sent

\* recv_swap_v2_msg gives up; the getter is tried before the time is checked.
ReceiveTimeout(k) == k \notin inbox /\ UNCHANGED p2pVars

-----------------------------------------------------------------------------
(* The process stops at any moment and loses its memory; kickstart goes    *)
(* on from the last stored event.                                          *)

Crash(s) ==
  /\ restarts["maker"] + restarts["taker"] < MaxCrashes /\ mem[s] # "Down" /\ ~finished[s]
  /\ mem' = [mem EXCEPT ![s] = "Down"]
  /\ step' = [step EXCEPT ![s] = 1]
  /\ locked' = [locked EXCEPT ![s] = FALSE]
  /\ inbox' = {k \in inbox : Recipient[k] # s}
  /\ restarts' = [restarts EXCEPT ![s] = @ + 1]
  /\ UNCHANGED <<storageVars, reason, sent, chainVars, timeVars>>

\* recreate_machine refuses a swap without events and one whose last event is
\* terminal: such a swap stays unfinished in the database for good.
Resumable(s) == stored[s] \notin Terminal \cup {"Initialize"}

\* Mutant: on_kickstart_event locks nothing.
Restart_unlocked(s) ==
  /\ mem[s] = "Down" /\ Resumable(s)
  /\ mem' = [mem EXCEPT ![s] = stored[s]]
  /\ UNCHANGED <<step, locked, storageVars, restarts, reason, p2pVars, chainVars, timeVars>>

\* The machine goes on in the state of its last stored event.
Restart(s) ==
  /\ mem[s] = "Down" /\ Resumable(s)
  /\ mem' = [mem EXCEPT ![s] = stored[s]]
  /\ locked' = [locked EXCEPT ![s] = stored[s] \in KickstartLocks[s]]
  /\ UNCHANGED <<step, storageVars, restarts, reason, p2pVars, chainVars, timeVars>>

\* Mutant: recreate_machine clears the taker's gate as it clears the maker's.
PaymentConfirmRequired_cleared == RequirePaymentConfirm /\ restarts["taker"] = 0

\* recreate_machine gives the confirmation gates their default values.
FundingConfirmRequired == RequireFundingConfirm /\ restarts["maker"] = 0
PaymentConfirmRequired == RequirePaymentConfirm \/ restarts["taker"] > 0
SpendConfirmRequired(s) == RequireSpendConfirm \/ restarts[s] > 0

-----------------------------------------------------------------------------
(* The two chains.  funding and the transactions that descend from it are  *)
(* on the taker coin's chain, the maker payment's on the maker coin's.     *)

Spends == [takerPayment       |-> "funding",      fundingRefund      |-> "funding",
           takerPaymentSpend  |-> "takerPayment", takerPaymentRefund |-> "takerPayment",
           makerPaymentSpend  |-> "makerPayment", makerPaymentRefund |-> "makerPayment"]
SpendingTxs == DOMAIN Spends
Txs == SpendingTxs \cup {"funding", "makerPayment"}

Live(t) == tx[t] # "none"
Unspent(o) == \A t \in SpendingTxs : Spends[t] = o => ~Live(t)

\* A node accepts t when its input is known and unspent; it may accept once
\* more what its mempool already holds.
SubmitSpend(t) ==
  /\ \/ /\ Live(Spends[t]) /\ Unspent(Spends[t])
        /\ tx' = [tx EXCEPT ![t] = "mempool"]
     \/ tx[t] = "mempool" /\ UNCHANGED tx
  /\ UNCHANGED <<orphans, drops>>

\* A payment from the wallet is a new transaction each time it is sent: the
\* state machine keeps the last one only.
SubmitPayment(t, s) ==
  /\ tx' = [tx EXCEPT ![t] = "mempool"]
  /\ orphans' = [orphans EXCEPT ![s] = @ + (IF Live(t) THEN 1 ELSE 0)]
  /\ UNCHANGED drops

\* ensure_tx_is_broadcasted finds t, or sends it again.
EnsureBroadcast(t) ==
  /\ tx' = [tx EXCEPT ![t] = IF Live(t) THEN @ ELSE "mempool"]
  /\ UNCHANGED <<orphans, drops>>

\* Mutants: zero confirmations do; the deadline is forgotten.
Confirmed_zeroConf(t, until) == Live(t) /\ clock <= until
ConfirmTimeout_never(t, until) == ~Live(t)

\* wait_for_confirmations checks the time before it asks for the transaction.
Confirmed(t, until) == tx[t] = "confirmed" /\ clock <= until
ConfirmTimeout(t, until) == clock > until \/ ~Live(t)

Confirm(t) ==
  /\ tx[t] = "mempool"
  /\ t \in SpendingTxs => tx[Spends[t]] = "confirmed"
  /\ tx' = [tx EXCEPT ![t] = "confirmed"]
  /\ UNCHANGED <<machineVars, storageVars, restarts, reason, p2pVars,
                 orphans, drops, timeVars>>

\* An unconfirmed payment nobody spends is dropped or replaced.
Drop(t) ==
  /\ drops < MaxDrops
  /\ tx[t] = "mempool" /\ Unspent(t)
  /\ tx' = [tx EXCEPT ![t] = "none"]
  /\ drops' = drops + 1
  /\ UNCHANGED <<machineVars, storageVars, restarts, reason, p2pVars, orphans, timeVars>>

Tick ==
  /\ clock < MakerPaymentLocktime + MaxAfter
  /\ clock' = clock + 1
  /\ UNCHANGED <<machineVars, storageVars, restarts, reason, p2pVars, chainVars, startedAt>>

-----------------------------------------------------------------------------
Init ==
  /\ mem = [s \in Sides |-> "Initialize"]
  /\ stored = [s \in Sides |-> "Initialize"]
  /\ step = [s \in Sides |-> 1]
  /\ finished = [s \in Sides |-> FALSE]
  /\ locked = [s \in Sides |-> FALSE]
  /\ restarts = [s \in Sides |-> 0]
  /\ storeErrors = 0
  /\ reason = "none"
  /\ sent = {} /\ inbox = {}
  /\ tx = [t \in Txs |-> "none"]
  /\ orphans = [s \in Sides |-> 0]
  /\ drops = 0
  /\ startedAt \in {f \in [Sides -> 0 .. MaxStartedAtDiff + MaxSkew] : \E s \in Sides : f[s] = 0}
  /\ clock = IF startedAt["maker"] > startedAt["taker"]
             THEN startedAt["maker"] ELSE startedAt["taker"]

\* Steps that neither side's handlers take: the network, the chains, time.
ConfirmedTxs == {"funding", "takerPayment", "takerPaymentSpend",
                 "makerPayment", "makerPaymentSpend"}
Environment ==
  \/ Tick
  \/ \E k \in Kinds : Deliver(k)
  \/ \E t \in ConfirmedTxs : Confirm(t)
  \/ \E t \in {"funding", "makerPayment"} : Drop(t)

\* Steps of the framework that runs either side's machine.
Framework(s) == StoreEvent(s) \/ Finish(s) \/ StoreError(s) \/ Crash(s)

=============================================================================
