----------------------------- MODULE TakerSwapV2 -----------------------------
(***************************************************************************)
(* The taker's side of a swap: one action per state's on_changed, split    *)
(* where on_changed awaits something another actor can change meanwhile.   *)
(***************************************************************************)
EXTENDS SwapV2Base

\* The handler moves to st and leaves the network (chains) alone.
TakerMoves(st) == ChangeState("taker", st) /\ UNCHANGED reason

-----------------------------------------------------------------------------
\* Block heights, fees and balance: any of them may fail the swap.
TakerInitialize ==
  /\ At("taker", "Initialize", 1)
  /\ TakerMoves("Initialized") \/ TakerMoves("Aborted")
  /\ UNCHANGED <<p2pVars, chainVars>>

\* The maker's data is checked: started_at first, then the rest, which may fail.
TakerReceiveNegotiation ==
  /\ At("taker", "Initialized", 1)
  /\ "MakerNegotiation" \in inbox
  /\ inbox' = inbox \ {"MakerNegotiation"}
  /\ \/ /\ StartedAtDiff <= MaxStartedAtDiff
        /\ sent' = sent \cup {"TakerNegotiation"}
        /\ NextAwait("taker")
     \/ UNCHANGED sent /\ TakerMoves("Aborted")
  /\ UNCHANGED chainVars

\* The maker sends MakerNegotiated with negotiated = true only.
TakerReceiveNegotiated ==
  /\ At("taker", "Initialized", 2)
  /\ Receive("MakerNegotiated")
  /\ TakerMoves("Negotiated")
  /\ UNCHANGED chainVars

TakerNegotiationTimeout ==
  /\ \/ At("taker", "Initialized", 1) /\ ReceiveTimeout("MakerNegotiation")
     \/ At("taker", "Initialized", 2) /\ ReceiveTimeout("MakerNegotiated")
  /\ TakerMoves("Aborted")
  /\ UNCHANGED chainVars

\* Mutant: an error after the broadcast is retried.
TakerSendFunding_retried ==
  /\ At("taker", "Negotiated", 1)
  /\ \/ SubmitPayment("funding", "taker") /\ TakerMoves("TakerFundingSent")
     \/ SubmitPayment("funding", "taker") /\ TakerMoves("Negotiated")
  /\ UNCHANGED p2pVars

TakerSendFunding ==
  /\ At("taker", "Negotiated", 1)
  /\ \/ SubmitPayment("funding", "taker") /\ TakerMoves("TakerFundingSent")
     \/ UNCHANGED chainVars /\ TakerMoves("Aborted")
  /\ UNCHANGED p2pVars

TakerAnnounceFunding ==
  /\ At("taker", "TakerFundingSent", 1)
  /\ Broadcast("TakerFundingInfo")
  /\ NextAwait("taker")
  /\ UNCHANGED chainVars

\* Parsing the maker payment, the preimage or its signature may fail.
TakerReceiveMakerPayment ==
  /\ At("taker", "TakerFundingSent", 2)
  /\ Receive("MakerPaymentInfo")
  /\ TakerMoves("MakerPaymentReceived") \/ TakerMoves("TakerFundingRefundRequired")
  /\ UNCHANGED chainVars

TakerMakerPaymentTimeout ==
  /\ At("taker", "TakerFundingSent", 2)
  /\ ReceiveTimeout("MakerPaymentInfo")
  /\ TakerMoves("TakerFundingRefundRequired")
  /\ UNCHANGED chainVars

-----------------------------------------------------------------------------
\* Offline validation, then visibility; either may fail.
TakerValidateMakerPayment ==
  /\ At("taker", "MakerPaymentReceived", 1)
  /\ \/ EnsureBroadcast("makerPayment") /\ NextAwait("taker")
     \/ UNCHANGED chainVars /\ TakerMoves("TakerFundingRefundRequired")
  /\ UNCHANGED p2pVars

TakerConfirmMakerPayment ==
  /\ At("taker", "MakerPaymentReceived", 2)
  /\ PaymentConfirmRequired
  /\ \/ /\ Confirmed("makerPayment", MakerPaymentConfTimeout)
        /\ TakerMoves("MakerPaymentConfirmed")
     \/ /\ ConfirmTimeout("makerPayment", MakerPaymentConfTimeout)
        /\ TakerMoves("TakerFundingRefundRequired")
  /\ UNCHANGED <<p2pVars, chainVars>>

PaymentSentState == IF SkipPreimage THEN "TakerPaymentSentSkipped" ELSE "TakerPaymentSent"

\* sign_and_send_taker_funding_spend turns the funding into the taker payment.
TakerSendPayment ==
  /\ \/ At("taker", "MakerPaymentConfirmed", 1)
     \/ At("taker", "MakerPaymentReceived", 2) /\ ~PaymentConfirmRequired
  /\ \/ SubmitSpend("takerPayment") /\ TakerMoves(PaymentSentState)
     \/ UNCHANGED chainVars /\ TakerMoves("TakerFundingRefundRequired")
  /\ UNCHANGED p2pVars

\* Mutant: the maker payment's confirmations are not awaited a second time.
TakerAnnouncePreimage_early ==
  /\ At("taker", PaymentSentState, 1)
  /\ NextAwait("taker")
  /\ sent' = IF SkipPreimage THEN sent ELSE sent \cup {"TakerPaymentSpendPreimage"}
  /\ UNCHANGED <<inbox, chainVars>>

\* Without the gate above the maker payment's confirmations are awaited here;
\* then the preimage of the maker's spend is generated, which may fail, and
\* broadcast, unless the coin needs none.
TakerAnnouncePreimage ==
  /\ At("taker", PaymentSentState, 1)
  /\ \/ /\ PaymentConfirmRequired \/ Confirmed("makerPayment", MakerPaymentConfTimeout)
        /\ NextAwait("taker")
        /\ sent' = IF SkipPreimage THEN sent ELSE sent \cup {"TakerPaymentSpendPreimage"}
        /\ UNCHANGED inbox
     \/ /\ \/ ~SkipPreimage
           \/ /\ ~PaymentConfirmRequired
              /\ ConfirmTimeout("makerPayment", MakerPaymentConfTimeout)
        /\ TakerMoves("TakerPaymentRefundRequired")
        /\ UNCHANGED p2pVars
  /\ UNCHANGED chainVars

\* Mutant: the search has no deadline.
TakerFindSpend_forever ==
  /\ At("taker", PaymentSentState, 2)
  /\ Live("takerPaymentSpend") /\ TakerMoves("TakerPaymentSpent")
  /\ UNCHANGED <<p2pVars, chainVars>>

\* find_taker_payment_spend_tx: an RPC error hides a spend from the last poll.
TakerFindSpend ==
  /\ At("taker", PaymentSentState, 2)
  /\ \/ Live("takerPaymentSpend") /\ TakerMoves("TakerPaymentSpent")
     \/ clock > TakerPaymentLocktime /\ TakerMoves("TakerPaymentRefundRequired")
  /\ UNCHANGED <<p2pVars, chainVars>>

\* Mutant: the broadcast error is ignored.
TakerSpendMakerPayment_unsent ==
  /\ At("taker", "TakerPaymentSpent", 1)
  /\ SubmitSpend("makerPaymentSpend") \/ UNCHANGED chainVars
  /\ TakerMoves("MakerPaymentSpent")
  /\ UNCHANGED p2pVars

\* The secret is taken from the spend.
TakerSpendMakerPayment ==
  /\ At("taker", "TakerPaymentSpent", 1)
  /\ \/ SubmitSpend("makerPaymentSpend") /\ TakerMoves("MakerPaymentSpent")
     \/ UNCHANGED chainVars /\ TakerMoves("Aborted")
  /\ UNCHANGED p2pVars

TakerConfirmSpend ==
  /\ At("taker", "MakerPaymentSpent", 1)
  /\ \/ /\ SpendConfirmRequired("taker") => Confirmed("makerPaymentSpend", TakerPaymentLocktime)
        /\ TakerMoves("Completed")
     \/ /\ SpendConfirmRequired("taker")
        /\ ConfirmTimeout("makerPaymentSpend", TakerPaymentLocktime)
        /\ TakerMoves("TakerPaymentRefundRequired")
  /\ UNCHANGED <<p2pVars, chainVars>>

-----------------------------------------------------------------------------
\* The immediate refund path, which shows the taker's secret to the maker.
TakerRefundFunding ==
  /\ At("taker", "TakerFundingRefundRequired", 1)
  /\ \/ SubmitSpend("fundingRefund") /\ TakerMoves("TakerFundingRefunded")
     \/ UNCHANGED chainVars /\ TakerMoves("Aborted")
  /\ UNCHANGED p2pVars

\* Mutant: a refused refund counts as one.
TakerRefundPayment_unsent ==
  /\ At("taker", "TakerPaymentRefundRequired", 1)
  /\ clock > TakerPaymentLocktime
  /\ SubmitSpend("takerPaymentRefund") \/ UNCHANGED chainVars
  /\ TakerMoves("TakerPaymentRefunded")
  /\ UNCHANGED p2pVars

\* By the timelock: the maker may have been faster.
TakerRefundPayment ==
  /\ At("taker", "TakerPaymentRefundRequired", 1)
  /\ clock > TakerPaymentLocktime
  /\ \/ SubmitSpend("takerPaymentRefund") /\ TakerMoves("TakerPaymentRefunded")
     \/ UNCHANGED chainVars /\ TakerMoves("Aborted")
  /\ UNCHANGED p2pVars

TakerHandler ==
  \/ TakerInitialize \/ TakerReceiveNegotiation \/ TakerReceiveNegotiated
  \/ TakerNegotiationTimeout \/ TakerSendFunding \/ TakerAnnounceFunding
  \/ TakerReceiveMakerPayment \/ TakerMakerPaymentTimeout
  \/ TakerValidateMakerPayment \/ TakerConfirmMakerPayment \/ TakerSendPayment
  \/ TakerAnnouncePreimage \/ TakerFindSpend \/ TakerSpendMakerPayment
  \/ TakerConfirmSpend \/ TakerRefundFunding \/ TakerRefundPayment
=============================================================================
