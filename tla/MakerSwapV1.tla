----------------------------- MODULE MakerSwapV1 -----------------------------
(***************************************************************************)
(* The maker's side of a legacy swap: one action per command of            *)
(* maker_swap.rs, two where the command awaits a second time something     *)
(* another actor changes meanwhile.  Failures of one command that lead to  *)
(* the same command share the event of the first of them.                  *)
(***************************************************************************)
EXTENDS SwapV1Base

MakerReturns(events, c) == Return("maker", events, c)
MakerFinishes(event) == MakerReturns(<<event>>, "Finish")
\* Mutant: the event of the other side's table.
MakerRefunds_taker(event) ==
  MakerReturns(<<event, "TakerPaymentWaitRefundStarted">>, "PrepareForMakerPaymentRefund")
MakerRefunds(event) ==
  MakerReturns(<<event, "MakerPaymentWaitRefundStarted">>, "PrepareForMakerPaymentRefund")

\* MakerSavedEvent::get_command.
MakerCommand(e) ==
  CASE e \in {"None", "Finished"} -> "Over"
    [] e = "Started" -> "Negotiate"
    [] e \in {"Negotiated", "MakerPaymentInstructionsReceived"} -> "WaitForTakerFee"
    [] e = "TakerFeeValidated" -> "SendPayment"
    [] e = "MakerPaymentSent" -> "WaitForTakerPayment"
    [] e \in {"TakerPaymentReceived", "TakerPaymentWaitConfirmStarted"} -> "ValidateTakerPayment"
    [] e = "TakerPaymentValidatedAndConfirmed" -> "SpendTakerPayment"
    [] e \in {"TakerPaymentSpent", "TakerPaymentSpendConfirmStarted"} -> "ConfirmTakerPaymentSpend"
    [] e \in {"MakerPaymentWaitConfirmFailed", "TakerPaymentWaitConfirmFailed",
              "TakerPaymentValidateFailed", "TakerPaymentSpendFailed",
              "TakerPaymentSpendConfirmFailed", "MakerPaymentWaitRefundStarted"}
         -> "PrepareForMakerPaymentRefund"
    [] e = "MakerPaymentRefundStarted" -> "RefundMakerPayment"
    [] e = "MakerPaymentRefunded" -> "FinalizeMakerPaymentRefund"
    [] e \in {"StartFailed", "NegotiateFailed", "TakerFeeValidateFailed",
              "MakerPaymentTransactionFailed", "TakerPaymentSpendConfirmed",
              "MakerPaymentRefundFailed", "MakerPaymentRefundFinished"} -> "Finish"

\* load_from_saved.  A swap that saved nothing is not known any more, and one
\* whose first event is not Started is refused.
MakerKickstart ==
  /\ cmd["maker"] = "Down" /\ last["maker"] # "StartFailed"
  /\ cmd' = [cmd EXCEPT !["maker"] = MakerCommand(last["maker"])]
  /\ UNCHANGED <<step, todo, saved, last, lost, restarts, sent, chainVars, errors, watcherVars, clock>>

-----------------------------------------------------------------------------
MakerStart ==
  /\ Runs("maker", "Start", 1)
  /\ \/ MakerReturns(<<"Started">>, "Negotiate") /\ NoError
     \/ MakerFinishes("StartFailed") /\ Fails
  /\ UNCHANGED <<sent, chainVars>>

MakerAnnounceNegotiation ==
  /\ Runs("maker", "Negotiate", 1)
  /\ Broadcast("Negotiation") /\ NextAwait("maker")
  /\ UNCHANGED <<chainVars, errors>>

\* The reply does not come within 90 s, or does not fit.
MakerNegotiate ==
  /\ Runs("maker", "Negotiate", 2)
  /\ \/ "NegotiationReply" \in sent /\ MakerReturns(<<"Negotiated">>, "WaitForTakerFee")
     \/ MakerFinishes("NegotiateFailed")
  /\ NoError /\ UNCHANGED <<sent, chainVars>>

MakerAnnounceNegotiated ==
  /\ Runs("maker", "WaitForTakerFee", 1)
  /\ Broadcast("Negotiated") /\ NextAwait("maker")
  /\ UNCHANGED <<chainVars, errors>>

\* validate_fee asks the node for the fee, a few times.
WaitTakerFee ==
  /\ Runs("maker", "WaitForTakerFee", 2)
  /\ \/ /\ "TakerFee" \in sent /\ Live("takerFee")
        /\ MakerReturns(<<"MakerPaymentInstructionsReceived", "TakerFeeValidated">>, "SendPayment")
     \/ MakerFinishes("TakerFeeValidateFailed")
  /\ NoError /\ UNCHANGED <<sent, chainVars>>

\* Mutant: what was sent before a restart is not looked for.
MakerSendPayment_again ==
  /\ Runs("maker", "SendPayment", 1)
  /\ clock <= MakerPaymentDeadline
  /\ Submit("makerPayment") /\ MakerReturns(<<"MakerPaymentSent">>, "WaitForTakerPayment") /\ NoError
  /\ UNCHANGED sent

\* check_if_my_payment_sent first; then the deadline, and the payment.
MakerSendPayment ==
  /\ Runs("maker", "SendPayment", 1)
  /\ \/ /\ IF Live("makerPayment") THEN UNCHANGED chainVars
           ELSE clock <= MakerPaymentDeadline /\ Submit("makerPayment")
        /\ MakerReturns(<<"MakerPaymentSent">>, "WaitForTakerPayment") /\ NoError
     \/ /\ ~Live("makerPayment") /\ clock > MakerPaymentDeadline /\ UNCHANGED chainVars
        /\ MakerFinishes("MakerPaymentTransactionFailed") /\ NoError
     \/ UNCHANGED chainVars /\ MakerFinishes("MakerPaymentTransactionFailed") /\ Fails
  /\ UNCHANGED sent

\* The payment is announced every 15 s as long as the maker waits, first for
\* its confirmation.
MakerAnnouncePayment ==
  /\ Runs("maker", "WaitForTakerPayment", 1)
  /\ "MakerPayment" \notin sent /\ Broadcast("MakerPayment")
  /\ UNCHANGED <<runVars, restarts, chainVars, errors, watcherVars, clock>>

MakerConfirmOwnPayment ==
  /\ Runs("maker", "WaitForTakerPayment", 1)
  /\ "MakerPayment" \in sent
  /\ \/ Confirmed("makerPayment", MakerPaymentConfUntil) /\ NextAwait("maker")
     \/ /\ ConfirmTimeout("makerPayment", MakerPaymentConfUntil)
        /\ MakerRefunds("MakerPaymentWaitConfirmFailed")
  /\ NoError /\ UNCHANGED <<sent, chainVars>>

\* The taker's payment does not come within 3/5 of the lock duration, or cannot
\* be parsed.
MakerWaitForTakerPayment ==
  /\ Runs("maker", "WaitForTakerPayment", 2)
  /\ \/ /\ "TakerPayment" \in sent
        /\ MakerReturns(<<"TakerPaymentReceived", "TakerPaymentWaitConfirmStarted">>, "ValidateTakerPayment")
     \/ MakerRefunds("TakerPaymentValidateFailed")
  /\ NoError /\ UNCHANGED <<sent, chainVars>>

\* A reward for the watchers that cannot be computed finishes the swap without
\* a refund of the payment.
ValidateTakerPayment ==
  /\ Runs("maker", "ValidateTakerPayment", 1)
  /\ \/ /\ Confirmed("takerPayment", TakerPaymentSpendDeadline) /\ NoError
        /\ MakerReturns(<<"TakerPaymentValidatedAndConfirmed">>, "SpendTakerPayment")
     \/ /\ ConfirmTimeout("takerPayment", TakerPaymentSpendDeadline) /\ NoError
        /\ MakerRefunds("TakerPaymentWaitConfirmFailed")
     \/ /\ Confirmed("takerPayment", TakerPaymentSpendDeadline) /\ Fails
        /\ \/ MakerRefunds("TakerPaymentValidateFailed")
           \/ MakerFinishes("MakerPaymentTransactionFailed")
  /\ UNCHANGED <<sent, chainVars>>

\* The secret is published, if the record has it.  A spend that was sent before
\* a restart is not looked for.
SpendTakerPayment ==
  /\ Runs("maker", "SpendTakerPayment", 1)
  /\ \/ /\ clock <= TakerPaymentSpendDeadline /\ NoError
        /\ lost # "maker" /\ SubmitSpend("takerPaymentSpend")
        /\ MakerReturns(<<"TakerPaymentSpent", "TakerPaymentSpendConfirmStarted">>, "ConfirmTakerPaymentSpend")
     \/ /\ \/ /\ clock > TakerPaymentSpendDeadline \/ lost = "maker"
              /\ UNCHANGED chainVars /\ NoError
           \/ Refused("takerPaymentSpend") /\ NoError
           \/ UNCHANGED chainVars /\ Fails
        /\ MakerRefunds("TakerPaymentSpendFailed")
  /\ UNCHANGED sent

ConfirmTakerPaymentSpend ==
  /\ Runs("maker", "ConfirmTakerPaymentSpend", 1)
  /\ \/ /\ Confirmed("takerPaymentSpend", WaitRefundUntil["maker"])
        /\ MakerFinishes("TakerPaymentSpendConfirmed")
     \/ /\ ConfirmTimeout("takerPaymentSpend", WaitRefundUntil["maker"])
        /\ MakerRefunds("TakerPaymentSpendConfirmFailed")
  /\ NoError /\ UNCHANGED <<sent, chainVars>>

PrepareForMakerPaymentRefund ==
  /\ Runs("maker", "PrepareForMakerPaymentRefund", 1)
  /\ MakerReturns(<<"MakerPaymentRefundStarted">>, "RefundMakerPayment")
  /\ NoError /\ UNCHANGED <<sent, chainVars>>

\* Mutant: the lock time is not waited for.
RefundMakerPayment_early ==
  /\ Runs("maker", "RefundMakerPayment", 1)
  /\ SubmitSpend("makerPaymentRefund") /\ NoError
  /\ MakerReturns(<<"MakerPaymentRefunded">>, "FinalizeMakerPaymentRefund")
  /\ UNCHANGED sent

RefundMakerPayment ==
  /\ Runs("maker", "RefundMakerPayment", 1) /\ Knows("maker", "MakerPaymentSent")
  /\ clock > MakerPaymentLock
  /\ \/ /\ SubmitSpend("makerPaymentRefund") /\ NoError
        /\ MakerReturns(<<"MakerPaymentRefunded">>, "FinalizeMakerPaymentRefund")
     \/ /\ \/ Refused("makerPaymentRefund") /\ NoError
           \/ UNCHANGED chainVars /\ Fails
        /\ MakerFinishes("MakerPaymentRefundFailed")
  /\ UNCHANGED sent

\* The payment unwrapped is not in the record, which was made from a taker's
\* that had none either.
MakerPanics ==
  /\ Runs("maker", "RefundMakerPayment", 1) /\ ~Knows("maker", "MakerPaymentSent")
  /\ cmd' = [cmd EXCEPT !["maker"] = "Panicked"]
  /\ UNCHANGED <<step, todo, saved, last, lost, restarts, sent, chainVars, errors, watcherVars, clock>>

FinalizeMakerPaymentRefund ==
  /\ Runs("maker", "FinalizeMakerPaymentRefund", 1)
  /\ MakerFinishes("MakerPaymentRefundFinished")
  /\ NoError /\ UNCHANGED <<sent, chainVars>>

MakerFinish ==
  /\ Runs("maker", "Finish", 1)
  /\ MakerReturns(<<"Finished">>, "Over")
  /\ NoError /\ UNCHANGED <<sent, chainVars>>

\* recover_funds, which the user calls for a finished swap.
MakerCanRecover ==
  /\ Knows("maker", "Finished") /\ ~Knows("maker", "MakerPaymentRefunded")
  /\ ~Knows("maker", "TakerPaymentSpendConfirmed")
  /\ Live("makerPayment")

\* The payment is unspent and goes back.  When it is spent, so is the taker's,
\* and the call has nothing to do.
MakerRecover ==
  /\ MakerCanRecover
  /\ clock > MakerPaymentLock
  /\ Unspent("makerPayment") /\ SubmitSpend("makerPaymentRefund")
  /\ UNCHANGED <<runVars, restarts, sent, errors, watcherVars, clock>>

MakerHandler ==
  \/ MakerStart \/ MakerAnnounceNegotiation \/ MakerNegotiate \/ MakerAnnounceNegotiated
  \/ WaitTakerFee \/ MakerSendPayment \/ MakerAnnouncePayment \/ MakerConfirmOwnPayment
  \/ MakerWaitForTakerPayment
  \/ ValidateTakerPayment \/ SpendTakerPayment \/ ConfirmTakerPaymentSpend
  \/ PrepareForMakerPaymentRefund \/ RefundMakerPayment \/ MakerPanics \/ FinalizeMakerPaymentRefund
  \/ MakerFinish
==============================================================================
