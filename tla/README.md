# Verification of the deXFG swap engine

TLA+ models of what is at the heart of this repository: the handshake that matches
two orders, the two atomic swap protocols it may start (the legacy one with its
watchers, and the upgraded trading protocol, "swap v2"), and the lock that keeps two
processes off one swap. They are checked with TLC on small instances, and their
safety properties are proved with TLAPS for every value of the constants.
Paths are relative to `src/mm2src/`.

## Inventory

The repository is a node (`mm2_main`, with its libraries) that trades coins
peer to peer, and clients of it (`swapxfgui`, `adex_cli`).

| Component | State it keeps | Operations | Hard behaviour | What makes it correct |
|---|---|---|---|---|
| Maker and taker swap v2: `mm2_main/src/lp_swap/maker_swap_v2.rs`, `taker_swap_v2.rs` | the current state, negotiation data, the gates `require_*_confirm` | one `on_changed` per state: negotiate, fund, pay, watch, spend, refund | two processes and two chains in any order; crashes between a broadcast and the record of it; deadlines counted from two clocks | neither side pays for nothing; each side ends; the record tells the truth |
| Storable state machines: `mm2_state_machine/` | the events of each machine | `change_state`, `on_event`, `store_event`, `on_finished`, `kickstart` | a crash or a storage error between two of these | a machine goes on where its record says |
| Swap services: `swap_v2_common.rs`, `lp_swap.rs` | message stores, active swaps, locked amounts, swap tables | broadcast, receive, store, kickstart, balance checks | lost, late and repeated messages; amounts that live in memory only | locked amounts follow the swaps; every wait is bounded |
| Payments: `coins/utxo/`, `coins/eth/eth_swap_v2/`, `coins/lp_coins.rs` | none; two chains outside | send, validate, wait, search, spend, refund | transactions dropped, unconfirmed, double spent | a search reports what the chain says |
| Legacy swaps and watchers: `maker_swap.rs`, `taker_swap.rs`, `taker_restart.rs`, `swap_watcher.rs` | saved events; the watcher keeps nothing | commands that return events, each applied and saved; load, recover; a watcher that spends or refunds for a taker | a crash between two events of one command; the watcher races the taker and the clock; a restart that has to find out what the watcher did | as for swap v2; nothing is paid twice; a watched taker loses nothing, running or not |
| Swap lock: `swap_lock.rs`, `mm2_io/src/file_lock.rs` | a lock file, or a record in the browser, with a timestamp | lock, touch, drop | two processes between any two file operations; a crashed or paused owner | one process runs a swap, and the next goes on where it stopped |
| Order matching: `lp_ordermatch.rs`, `lp_ordermatch/my_orders_storage.rs` | own orders with a lock each, their files, matches, the orderbook | request, reserved, connect, connected; time-outs, expiry, balance checks, updates, cancellations; keep-alive, trie diffs | a handler per message, each waiting for an order's lock while the order may be removed; lost and late messages; crashes | volumes are never sold twice; one taker has one maker; peers agree on the book |
| Bot: `lp_ordermatch/simple_market_maker.rs` | running, stopping, stopped | start, stop, refresh | a stop while a cycle runs | a stopped bot places nothing |
| Adaptor swaps: `fuego_adaptor/`, `adaptor_swap.rs` | a swap phase | steps of a scriptless swap | as for swap v2 | as for swap v2 |
| RPC tasks: `rpc_task/` | the table of tasks | init, status, user action, cancel | a cancel racing an answer | a task has one end |
| Abortable systems: `common/executor/abortable_system/` | spawned futures, subsystems | spawn, abort | spawning into an aborted system | nothing outlives its owner |
| Electrum connections: `coins/utxo/rpc_clients/electrum_rpc/` | connections by priority | connect, suspend, switch | flapping servers | a maintained set of live connections |
| P2P, health checks, event streams: `mm2_p2p/`, `lp_healthcheck.rs`, `mm2_event_stream/` | peers, topics, streamers | gossip, request, response | loss and churn | bounded tables |
| Coins, wallets, databases, user interfaces | accounts, keys, files | I/O, derivation, forms | outside of TLC's reach | left out |

How they interact: the maker's `connect` and the taker's `connected` handlers of order
matching start one maker and one taker swap, in two processes: a v2 machine each, or a
legacy swap each when one side's version is the legacy one or a swap by adaptor
signatures is asked for, whose own protocol is not finished. Each v2 machine runs one `on_changed` at a time; a state change first
calls `on_event` (which edits the locked amounts of `SwapsContext`), then stores
the event, and only then runs the next `on_changed`. The machines talk through
six kinds of P2P message, repeated in the background while a state waits, each
kept in one slot of the recipient's `SwapV2MsgStore`; and through the two chains.
After a restart `swap_kick_starts` builds each unfinished machine from its last
event. A legacy swap is a loop: a command runs, returns its events and the command
after it, and the events are applied and saved one by one before that one runs. A
restarted legacy swap derives its command from the last saved event. Its taker may
send a message from which any node can act as its watcher. A side that lost its record
may have it recreated from the other side's (`recreate_swap_data.rs`). Before a machine or a legacy swap runs it takes the lock of its swap, with a
lease of 40 s that a background loop renews every 30 s; a process that finds the
lock held tries once more after 40 s.

`PROJECT.json` lists every component with its status, and the hazards of this
code with the properties that watch them.

## The modules

| Module | Models |
|---|---|
| `SwapV2Base` | what both sides share: the framework (`mem`, `stored`, `step`, `finished`), locked amounts, the message stores, the two chains, the clock, crashes and restarts |
| `MakerSwapV2` | the maker's handlers |
| `TakerSwapV2` | the taker's handlers |
| `SwapV2` | the composition, its specification, fairness and properties, the inductive invariant `SwapInv`, and the mapping to `AtomicSwap` |
| `AtomicSwap` | the abstract promise: where the funds of the two sides may go |
| `SwapV2_proofs` | the theorems about it |
| `SwapV1Base` | a legacy swap's shared state: commands and events, what a crash leaves, messages, two chains, deadlines |
| `MakerSwapV1`, `TakerSwapV1` | the commands of each side, loading and recovering |
| `SwapWatcher` | the states of the watcher's machine |
| `SwapV1` | the composition, its fairness and properties, and the mapping to `AtomicSwap` |
| `RecreatedSwap` | `SwapV1` with a record that is lost and made anew from the other side's |
| `SwapV1_proofs` | the inductive invariant `SwapV1Inv` and the theorems about it |
| `RecreatedSwap_proofs` | what is added to it for a recreated record, and the theorems |
| `OrderMatch` | the handshake of order matching and every task that touches an order meanwhile |
| `OrderMatch_proofs` | its inductive invariant `HandshakeInv` and the theorems about it |
| `SwapRunner` | processes that kickstart the same swap: what each does around the lock, for a legacy swap and for a v2 swap |
| `SwapTableLock` | that with the lock of a browser, a record of `SwapLockTable` |
| `SwapFileLock` | that with the lock of a native node, a file |
| `SwapTableLock_proofs`, `SwapFileLock_proofs` | the theorems about the two locks |

### State and code

- `mem[s]` is the state the machine of side `s` is in; `stored[s]` the state its
  last stored event restores. They differ between `change_state` and the end of
  `store_event`, and a crash there loses the difference. `"Initialize"` in
  `stored` stands for a record without events, `"Down"` for a process that is not
  running, `"Failed"` for a machine whose `run` returned a storage error.
- `step[s]` splits an `on_changed` at the await where another actor can
  interfere: before it, what the handler broadcasts (or checks for visibility);
  after it, what it does with the answer. A crash restarts it at 1, as a
  kickstart runs the handler from its beginning.
- `MakerPaymentSentFundingSpendGenerated` is called `MakerPaymentSent`,
  `MakerPaymentAndFundingSpendPreimgReceived` is `MakerPaymentReceived`, and the
  two states that skip the preimage are `TakerPaymentReceivedSkipped` and
  `TakerPaymentSentSkipped`.
- `reason` keeps of `MakerPaymentRefundReason` the one distinction the code makes:
  whether the taker's secret is known.
- `sent` is every kind of message ever broadcast, `inbox` the slots that are
  filled. A message of `sent` may be delivered at any later moment, any number of
  times, or never: this covers loss, delay, duplication and reordering, and a
  broadcast task that outlives its state. A message that is signed by another
  key or of another swap does not reach the store and is not modelled.
- `tx` is what the nodes know of each transaction: nothing, unconfirmed,
  confirmed. Sending a payment from the wallet always makes a new transaction;
  the machine remembers the last and `orphans` counts the ones it forgot. A spend
  is accepted whenever its input is known and unspent, whatever its script says:
  so no property leans on a script refusing a spend, and lock times are
  enforced only where the code itself waits (`can_refund_htlc`).
- `clock` is `now_sec()` in units that leave `LockDuration` ticks in a
  lock duration. Both sides read it; `startedAt` is when each one started.
  `lock_duration * 2 / 3` and `/ 3` are integer divisions in the model too.
- The failures of a handler that depend on data (a fee, a balance, a parse, a
  validation, a refused broadcast) are a choice the handler may take at any time.
  An RPC error that the code retries is a step that does not happen yet.
- "Confirmed" is `wait_for_confirmations` with the swap's number of
  confirmations, at least one. A swap configured for zero confirmations reads
  "known to a node" there, and the properties about confirmed payments say no
  more than that.

The lock modules have a state of their own:

- `pc[p]` is where process `p` is: `trying` and `waiting` before the first and the
  second attempt, `owner` while its machine runs, `releasing` from the end of the
  swap to the removal of the lock; `reading` and `stamping` are inside
  `FileLock::lock`.
- `record` is the number of the last stored event, `known[p]` of the last event the
  machine of `p` has gone through. `LoadFirst` is the one difference between the
  two protocols here: a v2 swap is read before the lock is taken, in
  `swap_kick_starts`, a legacy swap after, in `run_maker_swap`.
- In the browser a lock, a touch and a removal are one transaction each: one
  action. On disk `create_new`, the read, the truncation and the write of
  `fs::write`, and the removal are steps; `linked` tells whether the file a process
  has open is still the one of that name.
- `Crash` leaves the lock behind. `Tick` waits for the owners' touches: one is
  never later than `MaxLate`, and `RunnerAssumption` says that the lease is longer
  than the sleep between two touches and that lateness, as 40 s is than 30 s. An
  owner that is suspended for longer is outside of what the code provides for.
- A legacy maker and a legacy taker take the lock alike; the lines are the maker's.

Of the legacy swap:

- `cmd[s]` is the command side `s` runs next; `todo[s]` are the events its last
  command returned that are not saved yet, `saved[s]` and `last[s]` what is saved. A
  command that awaits twice something another actor changes meanwhile is two actions
  (`step[s]`). A crash keeps `saved` and `last` only; `MakerCommand` and `TakerCommand`
  are the two `get_command` tables.
- Events of failures that lead to the same next command share the name of the first of
  them; `abort`ing with a refund is always "the failure, then `...WaitRefundStarted`".
- An `unwrap` of an event that was not saved is `Panicked`: a taker that crashes between
  the events of `wait_for_maker_payment` is sent to `validate_maker_payment` without the
  payment it is about, and a refund may not know its payment in a recreated record.
- A side may lose its record and ask the other for its own (`RecreatedSwap`):
  `MakerEventsFor` and `TakerEventsFor` are the two conversions of
  `recreate_swap_data.rs`, event by event; `ImportSwap` stores the result, and the next
  start goes on from its last event. `lost` is the side that did. A recreated maker has
  no secret, so it can only take its payment back; `SpendTakerPayment` fails on the
  script it would sign. A conversion is modelled as that
  of a set: what is last is given by `MakerEnds` and `TakerEnds`, and that it misses
  nothing where the code's conversion stops (`Outcomes`) is the property `OutcomeIsFinal`.
- The transactions are as in `SwapV2Base`, but for the same spend sent twice, which a
  node may accept or refuse as long as no block has it. `repeats` names what was sent
  again while the first was known.
- `guarded` is a ghost: the watcher took the message, is in time with its own deadlines
  and had no failing node since. `Tick` clears it when the watcher falls behind: the
  property of a watched taker is about watchers that work.
- Only the call `recover_funds` looks at a finished swap; that a user makes it is never
  assumed.

Of order matching:

- An order is in the map of its node (`active`), has a value its Arc leads to
  (`order`), and a file. A handler takes the Arc first and the lock later, so a task
  may hold an order that was removed meanwhile: `tasks` are the handlers that wait.
  `unsaved` are the orders whose lock is held until they are stored: a crash there
  leaves the file behind what the other side was told (`cut`).
- A taker order is `new`, `open` or `closed`; one that is good till cancelled and found
  no maker becomes a maker order of the same uuid, which is why `Orders` is
  `Makers \cup Takers`.
- A message of `net` arrives once, late or never. `Nodes` says which orders share a
  process.
- `MatchesRequest` is the matching of prices with every price suiting; volumes are
  numbers of units and `Available` is `max_base_vol` minus what is reserved.
- What comes from outside (an RPC, a changed balance, an expiry) is counted by `ops`.

### Bounds

In `SwapV2` the clock ends `MaxAfter` ticks after `MakerPaymentLocktime`, in `SwapV1` at
`MaxTime`, past the maker's lock time too: so every deadline is met and missed.
`MaxCrashes`, `MaxStoreErrors` and `MaxDrops` limit the faults, `MaxSkew` says how far
apart the sides may start beyond what negotiation tolerates. Every other variable is
finite by itself. `atomic` takes `MaxStartedAtDiff` to `LockDuration`, the most that
`SwapAssumption` allows, and `MaxSkew` to a tick more: a swap at the limit goes on and the
next one is refused, by both sides. There `LockDuration` is one tick, and a side that
starts a tick after the other misses that one's deadlines for a confirmation; `default` has
three ticks, with those deadlines at ticks 1 and 2, and sides that start together. One crash
is what it takes to lose any one record; two crashes only repeat that, and the
proofs need no bound on them.

In the legacy runs `LockDuration` is 3 ticks: then the deadlines of a third and two
fifths are tick 1, and those of four fifths, one, one and a half and two lock durations
ticks 2, 3, 4 and 6: each is met and missed. `RefundWait` stands for the 3700 s after a
lock time; it is 1 in `v1_restart` and 0 in the two passing runs, where a wait for a
confirmation and the lock time end in the same tick, in either order. `MaxErrors` limits
calls of a node that fail, `MaxDrops` lost payments; the run `v1` has one of each. The
loss of a record counts as a crash and, if one is left, as a call that fails: in `v1`
a call may fail before the loss; what one after it leads to is reached by the deadlines
too, and proved.

In `order_match` a maker has volume 2, which one of the two takers takes whole: both want
it, so every race for it is there. One of the takers is good till cancelled and becomes a
maker the other may match. One operation from outside and one crash interleave with
every step of the handshake.

In the lock's runs a tick is a third of the time between two touches (`RenewEvery` = 3,
`Ttl` = `RetryAfter` = 4, as 30 and 40 s): `MaxTime` leaves room for two leases. Two
processes suffice for each race; the third of `table_lock` waits while the other two
hand over.

A wait that ends by a duration of its own (`recv_swap_v2_msg`) may end at any
moment: how long 180 s is against a lock duration of hours is not modelled. The
one wait that takes a time stamp for a duration, for the preimage, does not end
in the model, as it ends decades late in the code.

## The runs

A swap that is over stops, an order that is closed too, so deadlock is not an error.

| Run | Instance | Shows |
|---|---|---|
| `default` | `SwapV2`: UTXO, default gates, one crash, one storage error | types, the secret, the taker's gate, early refunds, stored outcomes, payments sent once, locked amounts |
| `atomic` | `SwapV2`: no preimage, one crash, one dropped payment, starts up to a lock duration apart | that the maker's refund opens after that of a taker that has paid, that no side gets the funds of both before the lock time, and that every step refines `AtomicSwap` |
| `live` | `SwapV2`: the opposite of every gate, one crash, fair | `SwapInv`, the later check of the maker payment, the outcomes, and that both swaps end, but for a maker that waits for the preimage |
| `preimage_wait` | `SwapV2`: no crash, fair | *violated*: the maker waits for a preimage for good |
| `v1` | `RecreatedSwap`: a watcher, one crash and one failing call or one lost record, one dropped payment | payments against confirmed payments, nothing paid twice, `recover_funds` open to whoever needs it, the watched taker, when a side panics, that an outcome in a record is final, and that every step refines `AtomicSwap` |
| `v1_live` | `RecreatedSwap`: a watcher, one crash or one lost record, fair | both sides end, but for a side that panics or a taker that is refused at each start |
| `v1_restart` | `SwapV1`: one crash, one failing call | *violated*: a restarted taker finds its payment spent where the code rules it out |
| `order_match` | `OrderMatch`: a maker, two takers, three nodes | volumes within orders, one maker for one taker, a taker's swap counted by its maker, and the volume of a converted order used once |
| `table_lock` | `SwapTableLock`: three tabs, a legacy swap of two events, one crash | one owner, the inductive invariant `LockInv`, events stored once and in order, and that a crashed owner's lease makes nobody give up |
| `file_lock` | `SwapFileLock`: two processes, two crashes | that a crashed owner's file makes nobody give up, and when a file is empty |
| `file_lock_two` | `SwapFileLock`: two processes, no crash | *violated*: two owners |
| `v2_resume` | `SwapTableLock` with `LoadFirst` | *violated*: a v2 swap goes through stored events again |

The violations are in `PROJECT.json` under `findings`, with the lines that say
otherwise:

1. `maker_swap_v2.rs:1799` gives `recv_swap_v2_msg` an absolute time where it
   takes a duration. A maker whose taker vanishes after its payment never reaches
   its refund, until a restart, and then waits again.
2. `FileLock::lock` creates its file and writes the timestamp in two steps, and every
   touch empties the file first. A process that reads in between takes the file for
   one without a timestamp, which is free to take. The window is short; the browser's
   lock does not have it.
3. A v2 swap is resumed from the representation read before its lock was taken, while
   a legacy swap reads its events under the lock. When another process runs the swap
   in between, the second machine starts over from the old state. It takes two nodes on
   one database.
4. `taker_restart.rs:66` takes it for impossible that the payment of a taker on its way
   to a refund is spent. It is when the search for the spend failed once at the deadline,
   or when the taker's own spend was not confirmed in time. Such a taker, stopped before
   it finishes, is not loaded any more, and `recover_funds` refuses a swap that is not
   finished.

What the abstract promise does not say is as telling. It is limited
to the time before the maker payment's lock time: after it the maker's refund
and the taker's late claim race, and a maker that has spent the taker payment and
saw no confirmation in time (`TakerPaymentSpent::on_changed`, and
`confirm_taker_payment_spend` of the legacy swap) does refund.

### Fairness

`FairSpec` assumes that both processes run their handlers (weak fairness of
`MakerHandler` and `TakerHandler`: the executor polls a task that is ready), that
the storage answers (`StoreEvent`, `Finish`), that a crashed process is started
again (`Restart`) and that time passes (`Tick`). It assumes nothing of messages,
of confirmations or of the other side's willingness: a delivery or a confirmation
may never come. `SwapEnds` excepts the maker's wait for the preimage (finding 1) and
a process that dies before its first event, whose record `recreate_machine` refuses
(`NeverStarted`). It is checked for UTXO coins; the two states that skip the preimage
have the safety runs only.

`RecreatedFairSpec` of `RecreatedSwap` has one weak fairness condition per process: as long as a side
has something to do (a command, an event to save, a start after a crash), it does
something in the end; and time passes. Which alternative of a command is taken is not
fair: the awaited message may never come and the call may always fail. Nothing is
assumed of confirmations, of the watcher or of the user's `recover_funds`. The waits
without a limit are those for a lock time, and time passes. `SwapEnds` excepts `Rests`:
a side that panics at every start, a swap that failed to start (`load_from_saved` refuses
it if it stops before it is finished), and a taker whose load asks the chains, which may
refuse it (finding 4) for good.

## The proofs

`SwapV2_proofs` proves, for every lock duration, skew, number of crashes,
storage errors and drops, and all settings of the gates, that
`Spec => []SwapInv`; the only assumption is `SwapAssumption` (types of the
constants, and `MaxStartedAtDiff <= LockDuration`, which is 60 s against hours in
the code). The safety properties and the refinement follow from it.

Why the properties alone are not inductive: they speak of transactions, while
what a step does depends on states, messages and what a crash may bring back.
`SwapInv` closes the gap with facts each about two of these:

- `AnnouncedAfterStored`: a payment is announced only from a state that is already
  stored, so a side that sends its payment a second time after a crash is not
  known to the other yet. This is what keeps a confirmation the other side saw
  from being about a forgotten payment.
- `GatePassed`, `SecretGuarded`: states after a gate, in memory or stored, imply
  what the gate waited for, since confirmed transactions stay confirmed.
- `SpentOnce`, `SpentInputsLive`: the chains never hold two spends of one output,
  which is what excludes a refund and a claim together.
- `RefundsGuarded`: an early refund has the taker's refund before it, a late one
  the maker's lock time; with `SkewChecked` that is past the taker's lock time.
- `SentOnce`, `OutcomeKnown`, `StepFresh`, `FinishedAtRest`, `LockMatchesState`:
  the bookkeeping of crashes, outcomes, handlers and amounts.

| Theorem | States |
|---|---|
| `SwapInvHolds` | `SwapInv` is an invariant |
| `Typing`, `SecretSafety`, `GateSafety`, `PreimageSafety`, `EarlyRefundSafety`, `LateRefundSafety`, `OutcomeSafety`, `SentSafety`, `LockSafety` | the invariants of the runs |
| `AtomicitySafety` | `NobodyHasBoth`, whatever the gates |
| `Refinement` | with the taker's gate on, `Spec => AtomicSwap!Spec` under the mapping of `SwapV2` |

`SwapV1_proofs` proves, for every lock duration, any number of crashes, failing calls
and lost payments, with and without watchers, that `Spec => []SwapV1Inv`, as
long as each side has its own record; the
assumption is `SwapV1Assumption`, the types of the constants. It does so in two layers.
`ChainMoves` lists all that a step may do to the two chains, with what the step relies
on, and `MakerReports` and `TakerReports` all that a command may report; the parts of
the invariant are then proved of these few moves and not of some forty actions:

- `EventsTrue`: an event that speaks of a transaction is queued or saved only after the
  chain took it, and a confirmed payment stays confirmed; so a command that a restart
  derives from a saved event relies on the same as the command that returned it
  (`CommandsTrue`).
- `ChainTrue`: no two spends of one payment, the taker claims after the maker, the maker
  takes back after its lock time, and who has paid has saved the other's payment, which
  is what `recover_funds` asks for.
- `FeeUnsent`: a taker that never crashed has sent no fee before it is about to.
- `WatchedTrue`: where a watcher in time with its deadlines may be at which time. With
  `Deadlines` (1.5 lock durations and a tick are within 2) it is done before the
  maker's lock time.

| Theorem | States |
|---|---|
| `Typing`, `PaymentSafety`, `SinglePayment`, `Recovery`, `Watching` | invariants of the run `v1` |
| `Refinement` | `Spec => AtomicSwap!Spec` under the mapping of `SwapV1`, without a gate to assume |

`RecreatedSwap_proofs` proves the same of `RecreatedSpec`, where one record is made from
the other's, under the same assumption; the bounds on crashes and failing calls, which
the loss counts among, are any numbers. `SwapV1Inv` alone is not kept by the making of a record: it says what the
events of a record mean, so the new record is right only if the old one of the *other*
side implies it. `RecreatedInv` adds `RecordInv`, what the two records say about each
other:

- `MessagesTrue`: a side announces its payment after the event is saved, and reports the
  other's after the announcement; so with its own record a side that received a payment
  proves that the other has it in its record.
- `MakerRecord`, `TakerRecord`: a side past its own payment has it in its record, or
  goes on from one that could not have it (`MakerUninformed`, `TakerUninformed`): made
  from a side that had given up waiting. That is where, and only where, it panics.
- `MakerWaits`, `TakerWaits`: who gave up waiting for a payment never receives it, which
  is why an uninformed record stays one.
- `StoppedSaved`: a process that stops has nothing left to save.

`OutcomeInv` is a second invariant on top of it: the command, the last saved event and
the events still to be saved tell whether a record has an outcome yet (`Decided`). Without
the queue it is not inductive: the next command is set before the events are saved.

| Theorem | States |
|---|---|
| `RecreatedInvHolds` | `RecreatedInv` is an invariant of `RecreatedSpec` |
| `RecreatedTyping`, `RecreatedPaymentSafety`, `RecreatedSinglePayment`, `RecreatedRecovery`, `RecreatedWatching`, `PanicSafety` | the invariants of the run `v1` |
| `FinalOutcomes` | the action property `OutcomeIsFinal` |
| `RecreatedRefinement` | `RecreatedSpec => AtomicSwap!Spec`: the making of a record is a stutter |

`OrderMatch_proofs` proves, for any set of makers, any finite set of takers, any sizes and
volumes, any placement on nodes, and any number of crashes and operations from outside, that
`Spec => []HandshakeInv`. The assumption is `OrdersAssumption`: an order is a
maker's or a taker's, is on one node, and is no set of orders nor the value `None` that stands
for no order; sizes, as in the code, are positive; takers are finitely many, for amounts to be numbers. `Amount` is the number of
units of a set of orders (`Units`), not a sum over it: then what one more match adds
follows from cardinalities, without induction (`TallyFacts`).

None of the five invariants is inductive: they speak of swaps, while
what starts a swap are messages and handlers that wait with what they read before. The
parts of `HandshakeInv` are about these:

- `VolumesHold`: volumes cover the matches in memory, in the file, and in an update that
  has read the order and waits to write it.
- `TakerRecord`: a taker order has one match, in memory and stored; they differ only
  while its lock is held.
- `ConnectsMatched`: only that match is sent, or handles, a `connect`.
- `ConnectedCounted`: who was sent `connected`, or is in a swap, is in the order and in
  its file, but for the time until the order is stored; a crash in between puts it in `cut`.
- `OneRole`, `NewUnconnected`: an order that is a taker's, or may be again after a
  restart, is not known as a maker's, and has no swaps as one.

| Theorem | States |
|---|---|
| `HandshakeInvHolds`, `Typing` | `HandshakeInv` and the types are invariants |
| `VolumeSafety` | an order never gives more than its volume |
| `SingleMaker` | one maker for one taker order |
| `Counted` | a taker's swap is counted by its maker |
| `SingleUse` | an order that started a swap as a taker's never becomes a maker's |

`SwapTableLock_proofs` proves for any set of processes, any number of events and
crashes, and any times that meet `RunnerAssumption`:

| Theorem | States |
|---|---|
| `LockInvHolds`, `Typing` | `LockInv` and the types are invariants |
| `MutualExclusion` | at most one process runs the swap |
| `LegacyEventsInOrder` | when events are loaded under the lock, each is stored once |
| `YieldsToTheLiving` | a process gives up only to an owner that touched the lock after its first attempt |

Mutual exclusion is not inductive: it needs that an owner's record is its own and that
its lease covers the time to its next touch (`OwnerHoldsLease`), from which
`LeaseOfOwner` concludes that nobody takes the lock meanwhile. Event order needs that an
owner knows all that is stored, and the last theorem that a second attempt comes a
whole lease after the first (`WaitsForLease`).

`SwapFileLock_proofs` proves what the native lock does keep, under the same assumption.
Mutual exclusion is not among it (finding of `file_lock_two`). `FileInv` says that a
process with the file open has the lock or is taking it (`OpenInTouch`), that an empty
file is one that a touch has still to write to (`EmptyIsTouched`), and, as above,
`WaitsForLease`.

| Theorem | States |
|---|---|
| `FileInvHolds`, `Typing` | `FileInv` and the types are invariants |
| `EmptyIsTransient` | a file is empty only within a touch, unless a process died |
| `YieldsToTheLiving` | a process gives up only to an owner that touched the file after its first attempt |

So every invariant and every action property of the passing runs is a theorem as well.
Only model-checked: `SwapEnds` of both protocols, since liveness under fairness is out of
the prover's reach, and the violations.

## Not modelled, and the plan

Not modelled: scripts, signatures, fees and amounts; wasm storage; the wait for
coin activation before a kickstart (but for what it does to the order of loading and
locking); the lock in the swap modules themselves, which take one process per side; several
swaps at once; a chain reorganisation (a confirmed transaction stays confirmed).

Of the legacy swap: Lightning's payment instructions and the failure to send them,
coins that refund automatically, and the wait of a contract coin's refund
(`can_refund_htlc` of a coin with its own clock); watcher rewards but for their failure;
more than one watcher (the lock on the fee hash is per node, and a second watcher's
transactions are refused as the first's are known); the watcher's own stop, which
saves nothing and is the same as its absence. A public key or a payment that does not fit
is a failing check.

Of order matching: `setprice` and the replacement of earlier orders, which is a
cancellation and a new order; prices and the choice of confirmation settings; the
orderbook and its synchronisation; a storage that fails (the order goes on unsaved);
a balance handler that waited for an order removed meanwhile (`balance_updated` lowers its
volume, which only handlers that waited as well still see).

Of `libp2p`, the coin adapters, wallets, databases, activation and the user interfaces
nothing is modelled: they are I/O, data formats or third-party protocols, which the
models take in as failures, delays and losses. `PROJECT.json` says so component by
component.

Planned, the most important first:

1. `LockedAmounts`: several swaps, legacy and v2, against the balance checks.
2. `RpcTask` and `AbortableSystem`: a cancel racing an answer; what outlives its owner.
3. `OrderbookSync`: tries, keep-alive and diffs; liveness of convergence.
4. `ElectrumConnections`, `MarketMakerBot`, and `AdaptorSwap` when the code has it: one module each.
