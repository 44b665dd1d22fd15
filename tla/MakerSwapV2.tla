----------------------------- MODULE MakerSwapV2 -----------------------------
(***************************************************************************)
(* The maker's side of a swap: one action per state's on_changed, split    *)
(* where on_changed awaits something another actor can change meanwhile.   *)
(***************************************************************************)
EXTENDS SwapV2Base

MakerMoves(st) == ChangeState("maker", st) /\ UNCHANGED reason

-----------------------------------------------------------------------------
\* Block heights, fees and balance: any of them may fail the swap.
MakerInitialize ==
  /\ At("maker", "Initialize", 1)
  /\ MakerMoves("Initialized") \/ MakerMoves("Aborted")
  /\ UNCHANGED <<p2pVars, chainVars>>

MakerAnnounceNegotiation ==
  /\ At("maker", "Initialized", 1)
  /\ Broadcast("MakerNegotiation")
  /\ NextAwait("maker")
  /\ UNCHANGED chainVars

\* The taker's data is checked: started_at first, then the rest, which may fail.
MakerReceiveNegotiation ==
  /\ At("maker", "Initialized", 2)
  /\ Receive("TakerNegotiation")
  /\ \/ StartedAtDiff <= MaxStartedAtDiff /\ MakerMoves("WaitingForTakerFunding")
     \/ MakerMoves("Aborted")
  /\ UNCHANGED chainVars

MakerNegotiationTimeout ==
  /\ \/ At("maker", "Initialized", 2) /\ ReceiveTimeout("TakerNegotiation")
     \/ At("maker", "WaitingForTakerFunding", 2) /\ ReceiveTimeout("TakerFundingInfo")
  /\ MakerMoves("Aborted")
  /\ UNCHANGED chainVars

MakerAnnounceNegotiated ==
  /\ At("maker", "WaitingForTakerFunding", 1)
  /\ Broadcast("MakerNegotiated")
  /\ NextAwait("maker")
  /\ UNCHANGED chainVars

\* Parsing the funding transaction may fail.
MakerReceiveTakerFunding ==
  /\ At("maker", "WaitingForTakerFunding", 2)
  /\ Receive("TakerFundingInfo")
  /\ MakerMoves("TakerFundingReceived") \/ MakerMoves("Aborted")
  /\ UNCHANGED chainVars

-----------------------------------------------------------------------------
\* Validation, then visibility; either may fail, but a maker that waits for the
\* funding's confirmation anyway does not ask that it be visible now.
MakerValidateTakerFunding ==
  /\ At("maker", "TakerFundingReceived", 1)
  /\ \/ EnsureBroadcast("funding") /\ NextAwait("maker")
     \/ FundingConfirmRequired /\ UNCHANGED chainVars /\ NextAwait("maker")
     \/ UNCHANGED chainVars /\ MakerMoves("Aborted")
  /\ UNCHANGED p2pVars

\* The funding's confirmation is awaited when the maker asks for it; then the
\* preimage of the funding spend is generated and the payment sent.
MakerSendPayment ==
  /\ At("maker", "TakerFundingReceived", 2)
  /\ \/ /\ FundingConfirmRequired => Confirmed("funding", MakerPaymentLocktime)
        /\ SubmitPayment("makerPayment", "maker")
        /\ MakerMoves("MakerPaymentSent")
     \/ /\ FundingConfirmRequired =>
             \/ Confirmed("funding", MakerPaymentLocktime)
             \/ ConfirmTimeout("funding", MakerPaymentLocktime)
        /\ UNCHANGED chainVars
        /\ MakerMoves("Aborted")
  /\ UNCHANGED p2pVars

MakerAnnouncePayment ==
  /\ At("maker", "MakerPaymentSent", 1)
  /\ Broadcast("MakerPaymentInfo")
  /\ NextAwait("maker")
  /\ UNCHANGED chainVars

PaymentReceivedState ==
  IF SkipPreimage THEN "TakerPaymentReceivedSkipped" ELSE "TakerPaymentReceived"

RefundBecause(why) ==
  /\ ChangeState("maker", "MakerPaymentRefundRequired")
  /\ reason' = why

\* The deadline is checked first, then the chain.  A funding refunded by its
\* timelock is not found: no taker sends that transaction.  A search error that
\* is not an RPC error counts as a refusal.
MakerWatchFunding ==
  /\ At("maker", "MakerPaymentSent", 2)
  /\ \/ /\ clock <= TakerPaymentConfTimeout
        /\ \/ Live("takerPayment") /\ MakerMoves(PaymentReceivedState)
           \/ Live("fundingRefund") /\ RefundBecause("FundingReclaimedSecret")
     \/ RefundBecause("Other")
  /\ UNCHANGED <<p2pVars, chainVars>>

-----------------------------------------------------------------------------
MakerConfirmTakerPayment ==
  /\ At("maker", PaymentReceivedState, 1)
  /\ \/ Confirmed("takerPayment", TakerPaymentConfTimeout) /\ NextAwait("maker")
     \/ /\ ConfirmTimeout("takerPayment", TakerPaymentConfTimeout)
        /\ RefundBecause("Other")
  /\ UNCHANGED <<p2pVars, chainVars>>

\* The maker's secret is published.  The preimage is awaited without a limit:
\* recv_swap_v2_msg takes a duration and is given a point in time, so its
\* timeout is decades away.
MakerSpendTakerPayment ==
  /\ At("maker", PaymentReceivedState, 2)
  /\ IF SkipPreimage THEN UNCHANGED p2pVars ELSE Receive("TakerPaymentSpendPreimage")
  /\ \/ SubmitSpend("takerPaymentSpend") /\ MakerMoves("TakerPaymentSpent")
     \/ UNCHANGED chainVars /\ RefundBecause("Other")

MakerConfirmSpend ==
  /\ At("maker", "TakerPaymentSpent", 1)
  /\ \/ /\ SpendConfirmRequired("maker") => Confirmed("takerPaymentSpend", MakerPaymentLocktime)
        /\ MakerMoves("Completed")
     \/ /\ SpendConfirmRequired("maker")
        /\ ConfirmTimeout("takerPaymentSpend", MakerPaymentLocktime)
        /\ RefundBecause("Other")
  /\ UNCHANGED <<p2pVars, chainVars>>

-----------------------------------------------------------------------------
\* Mutant: can_refund_htlc is not asked.
MakerRefundPayment_early ==
  /\ At("maker", "MakerPaymentRefundRequired", 1)
  /\ \/ SubmitSpend("makerPaymentRefund") /\ MakerMoves("MakerPaymentRefunded")
     \/ UNCHANGED chainVars /\ MakerMoves("Aborted")
  /\ UNCHANGED p2pVars

\* At once, with the taker's secret, or when the lock time has passed.
MakerRefundPayment ==
  /\ At("maker", "MakerPaymentRefundRequired", 1)
  /\ reason = "FundingReclaimedSecret" \/ clock > MakerPaymentLocktime
  /\ \/ SubmitSpend("makerPaymentRefund") /\ MakerMoves("MakerPaymentRefunded")
     \/ UNCHANGED chainVars /\ MakerMoves("Aborted")
  /\ UNCHANGED p2pVars

MakerHandler ==
  \/ MakerInitialize \/ MakerAnnounceNegotiation \/ MakerReceiveNegotiation
  \/ MakerNegotiationTimeout \/ MakerAnnounceNegotiated \/ MakerReceiveTakerFunding
  \/ MakerValidateTakerFunding \/ MakerSendPayment \/ MakerAnnouncePayment
  \/ MakerWatchFunding \/ MakerConfirmTakerPayment \/ MakerSpendTakerPayment
  \/ MakerConfirmSpend \/ MakerRefundPayment
=============================================================================
