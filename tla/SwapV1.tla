-------------------------------- MODULE SwapV1 --------------------------------
(***************************************************************************)
(* A legacy swap: the maker, the taker and a watcher, the two chains, the  *)
(* clock, crashes and restarts.                                            *)
(***************************************************************************)
EXTENDS MakerSwapV1, TakerSwapV1, SwapWatcher

\* Bound: MaxTime.
Tick ==
  /\ clock < MaxTime
  /\ clock' = clock + 1
  /\ guarded' = (guarded /\ ~WatcherBehind)
  /\ UNCHANGED <<runVars, restarts, sent, chainVars, errors, watcher>>

Next ==
  \/ MakerHandler \/ TakerHandler \/ WatcherNext
  \/ \E s \in Sides : SaveEvent(s) \/ Crash(s)
  \/ MakerKickstart \/ TakerKickstart \/ TakerKickstartWatched
  \/ MakerRecover \/ TakerRecover
  \/ \E t \in Payments \cup {"takerPaymentSpend", "makerPaymentSpend"} : Confirm(t)
  \/ \E p \in Payments : Drop(p)
  \/ Tick

Spec == Init /\ [][Next]_vars

\* The executor runs what is ready, a process that stopped is started again and
\* time passes.  Nobody has to confirm, watch or recover anything.
Fairness ==
  /\ WF_vars(MakerHandler \/ SaveEvent("maker") \/ MakerKickstart)
  /\ WF_vars(TakerHandler \/ SaveEvent("taker") \/ TakerKickstart \/ TakerKickstartWatched)
  /\ WF_vars(Tick)

-----------------------------------------------------------------------------
MakerEvents ==
  {"Started", "StartFailed", "Negotiated", "NegotiateFailed", "MakerPaymentInstructionsReceived",
   "TakerFeeValidated", "TakerFeeValidateFailed", "MakerPaymentSent",
   "MakerPaymentTransactionFailed", "MakerPaymentWaitConfirmFailed", "TakerPaymentReceived",
   "TakerPaymentWaitConfirmStarted", "TakerPaymentValidatedAndConfirmed",
   "TakerPaymentValidateFailed", "TakerPaymentWaitConfirmFailed", "TakerPaymentSpent",
   "TakerPaymentSpendFailed", "TakerPaymentSpendConfirmStarted", "TakerPaymentSpendConfirmed",
   "TakerPaymentSpendConfirmFailed", "MakerPaymentWaitRefundStarted",
   "MakerPaymentRefundStarted", "MakerPaymentRefunded", "MakerPaymentRefundFailed",
   "MakerPaymentRefundFinished", "Finished"}
TakerEvents ==
  {"Started", "StartFailed", "Negotiated", "NegotiateFailed", "TakerFeeSent",
   "TakerFeeSendFailed", "TakerPaymentInstructionsReceived", "MakerPaymentReceived",
   "MakerPaymentWaitConfirmStarted", "MakerPaymentValidatedAndConfirmed",
   "MakerPaymentValidateFailed", "MakerPaymentWaitConfirmFailed", "TakerPaymentSent",
   "WatcherMessageSent", "TakerPaymentTransactionFailed", "TakerPaymentSpent",
   "TakerPaymentWaitForSpendFailed", "MakerPaymentSpent", "MakerPaymentSpendFailed",
   "MakerPaymentSpentByWatcher", "MakerPaymentSpendConfirmed",
   "MakerPaymentSpendConfirmFailed", "TakerPaymentWaitRefundStarted",
   "TakerPaymentRefundStarted", "TakerPaymentRefunded", "TakerPaymentRefundFailed",
   "TakerPaymentRefundFinished", "TakerPaymentRefundedByWatcher", "Finished"}
Commands ==
  [maker |-> {"Start", "Negotiate", "WaitForTakerFee", "SendPayment", "WaitForTakerPayment",
              "ValidateTakerPayment", "SpendTakerPayment", "ConfirmTakerPaymentSpend",
              "PrepareForMakerPaymentRefund", "RefundMakerPayment",
              "FinalizeMakerPaymentRefund", "Finish", "Over", "Down", "Panicked"},
   taker |-> {"Start", "Negotiate", "SendTakerFee", "WaitForMakerPayment",
              "ValidateMakerPayment", "SendTakerPayment", "WaitForTakerPaymentSpend",
              "SpendMakerPayment", "ConfirmMakerPaymentSpend", "PrepareForTakerPaymentRefund",
              "RefundTakerPayment", "FinalizeTakerPaymentRefund", "Finish", "Over", "Down",
              "Panicked"}]
Events == [maker |-> MakerEvents, taker |-> TakerEvents]
WatcherStates ==
  {"Stopped", "ValidateTakerFee", "ValidateTakerPayment", "WaitForTakerPaymentSpend",
   "AwaitMakerPaymentSpend", "SpendMakerPayment", "RefundTakerPayment"}

\* Every variable has its type: the commands, events and states of the source.
TypeOK ==
  /\ DOMAIN cmd = Sides /\ DOMAIN todo = Sides /\ DOMAIN saved = Sides /\ DOMAIN last = Sides
  /\ \A s \in Sides :
       /\ cmd[s] \in Commands[s] /\ saved[s] \subseteq Events[s]
       /\ todo[s] \in Seq(Events[s]) /\ last[s] \in Events[s] \cup {"None"}
  /\ lost \in Sides \cup {"none"}
  /\ step \in [Sides -> {1, 2}] /\ restarts \in [Sides -> 0..MaxCrashes]
  /\ sent \subseteq Kinds
  /\ tx \in [Txs -> {"none", "mempool", "confirmed"}]
  /\ repeats \subseteq Txs /\ drops \in 0..MaxDrops /\ errors \in 0..MaxErrors
  /\ watcher \in WatcherStates /\ guarded \in BOOLEAN
  /\ clock \in 0..MaxTime

\* The taker pays (taker_swap.rs, send_taker_payment) and the maker publishes its
\* secret (maker_swap.rs, spend_taker_payment) only when the payment of the other
\* side is confirmed, whatever was restarted in between.
PaysAgainstConfirmed ==
  /\ Live("takerPayment") => tx["makerPayment"] = "confirmed"
  /\ Live("takerPaymentSpend") => tx["takerPayment"] = "confirmed"

\* A payment is never sent a second time while the first is known, and the fee
\* only by a taker that was restarted: check_if_my_payment_sent looks for the
\* payments a crash or the loss of the record has kept from being saved, nothing
\* does for the fee.
PaidOnce ==
  /\ repeats \subseteq {"takerFee"}
  /\ repeats # {} => restarts["taker"] > 0

\* recover_funds is never closed to a side whose swap is finished while its funds
\* are still there to claim or to take back.
FinishedCanRecover ==
  /\ /\ Knows("taker", "Finished") /\ Live("takerPayment")
     /\ Unspent("takerPayment") \/ (Live("takerPaymentSpend") /\ Unspent("makerPayment"))
     => TakerCanRecover
  /\ /\ Knows("maker", "Finished") /\ Live("makerPayment")
     /\ Unspent("makerPayment") /\ ~Live("takerPaymentSpend")
     => MakerCanRecover

\* A taker whose watcher took the message, keeps up with the clock and has no
\* failing node loses nothing, running or not: what the maker claims is claimed
\* for the taker before the maker may take it back, and what it does not claim
\* comes back.
WatchedTakerLosesNothing ==
  guarded /\ clock > MakerPaymentLock =>
    /\ Live("takerPaymentSpend") => Live("makerPaymentSpend")
    /\ Live("takerPaymentSpend") \/ Live("takerPaymentRefund")

\* The swap does to the funds of the two sides what AtomicSwap allows, and
\* nothing else, until the lock time of the maker's payment.
Funds(payment, spend, refund) ==
  CASE Live(spend) -> "claimed" [] Live(refund) -> "returned"
    [] Live(payment) /\ Unspent(payment) -> "escrowed" [] OTHER -> "held"
Atomic == INSTANCE AtomicSwap WITH
  takerFunds <- Funds("takerPayment", "takerPaymentSpend", "takerPaymentRefund"),
  makerFunds <- Funds("makerPayment", "makerPaymentSpend", "makerPaymentRefund"),
  expired <- clock > MakerPaymentLock
ImplementsAtomicSwap == Atomic!Spec

-----------------------------------------------------------------------------
\* Side s has nothing to do any more, or cannot be started again.
Rests(s) ==
  \/ cmd[s] = "Over" /\ todo[s] = <<>>
  \/ cmd[s] = "Panicked"
  \/ cmd[s] = "Down" /\ last[s] = "StartFailed"
  \/ s = "taker" /\ cmd[s] = "Down" /\ AsksTheChains(TakerCommand(last[s]))

\* Every swap comes to an end on both sides, whatever the other side, the
\* messages, the chains and the watcher do; but for a side that panics at
\* every start, a swap that failed to start or a taker whose load is refused.
SwapEnds == <>[](\A s \in Sides : Rests(s))

\* taker_restart.rs, of a taker that was going to refund: "Taker payment is not
\* expected to be spent at this point".
RefundMeansUnspent ==
  LET c == TakerCommand(last["taker"]) IN
  /\ cmd["taker"] = "Down" /\ AsksTheChains(c)
  /\ c \in {"PrepareForTakerPaymentRefund", "RefundTakerPayment"}
  => ~Live("takerPaymentSpend")
===============================================================================
