----------------------------- MODULE SwapWatcher -----------------------------
(***************************************************************************)
(* A watcher of the taker's side: the state machine of swap_watcher.rs.    *)
(* Nothing of it is saved.  The lock on the fee hash lets one run at a     *)
(* time; a message that arrives after the end starts it again.             *)
(***************************************************************************)
EXTENDS SwapV1Base

WatcherTo(w) ==
  /\ watcher' = w
  /\ UNCHANGED <<runVars, restarts, sent, clock>>
WatcherIdle == UNCHANGED <<chainVars, errors, guarded>>
\* A call of a node fails, and the machine stops.
WatcherFails ==
  /\ WatcherTo("Stopped") /\ Fails /\ guarded' = FALSE
  /\ UNCHANGED chainVars

\* process_watcher_msg and spawn_taker_swap_watcher.
WatcherSpawn ==
  /\ watcher = "Stopped" /\ "Watcher" \in sent
  /\ WatcherTo("ValidateTakerFee") /\ WatcherIdle

WatcherValidateTakerFee ==
  /\ watcher = "ValidateTakerFee"
  /\ \/ Live("takerFee") /\ WatcherTo("ValidateTakerPayment")
     \/ WatcherTo("Stopped")
  /\ WatcherIdle

\* The payment must be known at once, confirm before the maker's deadline and
\* pass the checks; the node may fail at each.
WatcherValidateTakerPayment ==
  /\ watcher = "ValidateTakerPayment"
  /\ \/ /\ Confirmed("takerPayment", TakerPaymentSpendDeadline)
        /\ WatcherTo("WaitForTakerPaymentSpend")
        /\ guarded' = TRUE /\ UNCHANGED <<chainVars, errors>>
     \/ WatcherTo("Stopped") /\ WatcherIdle

\* The time is checked before the node is asked.  Until the taker's lock time
\* the spend of the maker's payment is left to the taker.
WatcherWaitForTakerPaymentSpend ==
  /\ watcher = "WaitForTakerPaymentSpend"
  /\ \/ clock > WatcherRefundTime /\ WatcherTo("RefundTakerPayment") /\ WatcherIdle
     \/ /\ clock <= WatcherRefundTime
        /\ \/ Live("takerPaymentRefund") /\ WatcherTo("Stopped") /\ WatcherIdle
           \/ /\ Live("takerPaymentSpend") /\ clock < TakerPaymentLock
              /\ WatcherTo("AwaitMakerPaymentSpend") /\ WatcherIdle
           \/ /\ Live("takerPaymentSpend") /\ clock >= TakerPaymentLock
              /\ WatcherTo("SpendMakerPayment") /\ WatcherIdle
           \/ Live("takerPaymentSpend") /\ WatcherFails

\* Mutant: the end of the wait for the taker ends the watch.
WatcherAwaitMakerPaymentSpend_leaves ==
  /\ watcher = "AwaitMakerPaymentSpend"
  /\ ~Unspent("makerPayment") \/ clock > TakerPaymentLock
  /\ WatcherTo("Stopped") /\ WatcherIdle

WatcherAwaitMakerPaymentSpend ==
  /\ watcher = "AwaitMakerPaymentSpend"
  /\ \/ ~Unspent("makerPayment") /\ WatcherTo("Stopped")
     \/ Unspent("makerPayment") /\ clock > TakerPaymentLock /\ WatcherTo("SpendMakerPayment")
  /\ WatcherIdle

WatcherSpendMakerPayment ==
  /\ watcher = "SpendMakerPayment"
  /\ \/ SubmitSpend("makerPaymentSpend") /\ WatcherTo("Stopped") /\ UNCHANGED <<errors, guarded>>
     \/ Refused("makerPaymentSpend") /\ WatcherTo("Stopped") /\ UNCHANGED <<errors, guarded>>
     \/ WatcherFails

WatcherRefundTakerPayment ==
  /\ watcher = "RefundTakerPayment"
  /\ \/ SubmitSpend("takerPaymentRefund") /\ WatcherTo("Stopped") /\ UNCHANGED <<errors, guarded>>
     \/ Refused("takerPaymentRefund") /\ WatcherTo("Stopped") /\ UNCHANGED <<errors, guarded>>
     \/ WatcherFails

WatcherNext ==
  \/ WatcherSpawn \/ WatcherValidateTakerFee \/ WatcherValidateTakerPayment
  \/ WatcherWaitForTakerPaymentSpend \/ WatcherAwaitMakerPaymentSpend
  \/ WatcherSpendMakerPayment \/ WatcherRefundTakerPayment

\* The watcher has something to do that does not wait for the clock.
WatcherBehind ==
  \/ watcher \in {"SpendMakerPayment", "RefundTakerPayment"}
  \/ /\ watcher = "WaitForTakerPaymentSpend"
     /\ ~Unspent("takerPayment") \/ clock > WatcherRefundTime
  \/ watcher = "AwaitMakerPaymentSpend" /\ clock > TakerPaymentLock
==============================================================================
