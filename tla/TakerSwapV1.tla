----------------------------- MODULE TakerSwapV1 -----------------------------
(***************************************************************************)
(* The taker's side of a legacy swap: one action per command of            *)
(* taker_swap.rs, two where the command awaits a second time something     *)
(* another actor changes meanwhile, and what taker_restart.rs finds out    *)
(* about the watcher's work.                                               *)
(***************************************************************************)
EXTENDS SwapV1Base

TakerReturns(events, c) == Return("taker", events, c)
TakerFinishes(event) == TakerReturns(<<event>>, "Finish")
\* Mutant: the taker goes on waiting for the spend it gave up.
TakerRefunds_waits(event) ==
  TakerReturns(<<event, "TakerPaymentWaitRefundStarted">>, "WaitForTakerPaymentSpend")
TakerRefunds(event) ==
  TakerReturns(<<event, "TakerPaymentWaitRefundStarted">>, "PrepareForTakerPaymentRefund")

\* TakerSavedEvent::get_command.
TakerCommand(e) ==
  CASE e \in {"None", "Finished"} -> "Over"
    [] e = "Started" -> "Negotiate"
    [] e = "Negotiated" -> "SendTakerFee"
    [] e = "TakerFeeSent" -> "WaitForMakerPayment"
    [] e \in {"TakerPaymentInstructionsReceived", "MakerPaymentReceived",
              "MakerPaymentWaitConfirmStarted"} -> "ValidateMakerPayment"
    [] e = "MakerPaymentValidatedAndConfirmed" -> "SendTakerPayment"
    [] e \in {"TakerPaymentSent", "WatcherMessageSent"} -> "WaitForTakerPaymentSpend"
    [] e = "TakerPaymentSpent" -> "SpendMakerPayment"
    [] e \in {"MakerPaymentSpent", "MakerPaymentSpentByWatcher"} -> "ConfirmMakerPaymentSpend"
    [] e \in {"TakerPaymentWaitForSpendFailed", "MakerPaymentSpendFailed",
              "MakerPaymentSpendConfirmFailed", "TakerPaymentWaitRefundStarted"}
         -> "PrepareForTakerPaymentRefund"
    [] e = "TakerPaymentRefundStarted" -> "RefundTakerPayment"
    [] e = "TakerPaymentRefunded" -> "FinalizeTakerPaymentRefund"
    [] e \in {"StartFailed", "NegotiateFailed", "TakerFeeSendFailed", "MakerPaymentValidateFailed",
              "MakerPaymentWaitConfirmFailed", "TakerPaymentTransactionFailed",
              "MakerPaymentSpendConfirmed", "TakerPaymentRefundFailed",
              "TakerPaymentRefundFinished", "TakerPaymentRefundedByWatcher"} -> "Finish"

-----------------------------------------------------------------------------
(* load_from_saved.  From the time on at which a watcher acts, a swap the  *)
(* watchers know of asks the chains before it goes on; a load that fails   *)
(* leaves the swap where it is until the next start, so a node that does   *)
(* not answer is a load that does not happen yet.  A swap whose first      *)
(* event is not Started is refused.                                        *)

AsksTheChains(c) ==
  /\ Watched /\ Knows("taker", "WatcherMessageSent")
  /\ \/ clock >= TakerPaymentLock /\ c \in {"WaitForTakerPaymentSpend", "SpendMakerPayment"}
     \/ clock >= WatcherRefundTime /\ c \in {"PrepareForTakerPaymentRefund", "RefundTakerPayment"}

TakerLoads(events, e, c) ==
  /\ saved' = [saved EXCEPT !["taker"] = @ \cup events]
  /\ last' = [last EXCEPT !["taker"] = e]
  /\ cmd' = [cmd EXCEPT !["taker"] = c]
  /\ UNCHANGED <<step, todo, lost, restarts, sent, chainVars, errors, watcherVars, clock>>

TakerKickstart ==
  LET e == last["taker"]
      c == TakerCommand(e)
  IN /\ cmd["taker"] = "Down" /\ e # "StartFailed"
     /\ ~AsksTheChains(c)
     /\ TakerLoads({}, e, c)

\* get_command_based_on_maker_or_watcher_activity.  A spend of the maker's
\* payment is saved, the search for one that found nothing is not.
TakerKickstartWatched ==
  LET e == last["taker"]
      c == TakerCommand(e)
      spent == \/ c = "SpendMakerPayment"
               \/ c = "WaitForTakerPaymentSpend" /\ Live("takerPaymentSpend")
  IN /\ cmd["taker"] = "Down"
     /\ AsksTheChains(c)
     /\ \/ /\ spent /\ Live("makerPaymentSpend")
           /\ TakerLoads({"TakerPaymentSpent", "MakerPaymentSpentByWatcher"},
                         "MakerPaymentSpentByWatcher", "ConfirmMakerPaymentSpend")
        \/ /\ spent /\ Unspent("makerPayment")
           /\ TakerLoads({}, e, "SpendMakerPayment")
        \/ /\ ~spent /\ Live("takerPaymentRefund")
           /\ TakerLoads({"TakerPaymentRefundedByWatcher"}, "TakerPaymentRefundedByWatcher", "Finish")
        \/ /\ ~spent /\ Unspent("takerPayment")
           /\ TakerLoads({}, e, c)

-----------------------------------------------------------------------------
TakerStart ==
  /\ Runs("taker", "Start", 1)
  /\ \/ TakerReturns(<<"Started">>, "Negotiate") /\ NoError
     \/ TakerFinishes("StartFailed") /\ Fails
  /\ UNCHANGED <<sent, chainVars>>

\* The maker's offer does not come within 90 s, or does not fit.
TakerReply ==
  /\ Runs("taker", "Negotiate", 1)
  /\ \/ "Negotiation" \in sent /\ Broadcast("NegotiationReply") /\ NextAwait("taker")
     \/ UNCHANGED sent /\ TakerFinishes("NegotiateFailed")
  /\ NoError /\ UNCHANGED chainVars

TakerNegotiate ==
  /\ Runs("taker", "Negotiate", 2)
  /\ \/ "Negotiated" \in sent /\ TakerReturns(<<"Negotiated">>, "SendTakerFee")
     \/ TakerFinishes("NegotiateFailed")
  /\ NoError /\ UNCHANGED <<sent, chainVars>>

\* The fee is sent without a look at what was sent before a restart.
SendTakerFee ==
  /\ Runs("taker", "SendTakerFee", 1)
  /\ \/ /\ clock <= FeeDeadline /\ Submit("takerFee") /\ NoError
        /\ TakerReturns(<<"TakerFeeSent">>, "WaitForMakerPayment")
     \/ /\ clock > FeeDeadline /\ NoError /\ UNCHANGED chainVars
        /\ TakerFinishes("TakerFeeSendFailed")
     \/ Fails /\ UNCHANGED chainVars /\ TakerFinishes("TakerFeeSendFailed")
  /\ UNCHANGED sent

TakerAnnounceFee ==
  /\ Runs("taker", "WaitForMakerPayment", 1)
  /\ Broadcast("TakerFee") /\ NextAwait("taker")
  /\ NoError /\ UNCHANGED chainVars

\* The payment does not come within 600 s, or cannot be parsed.
TakerWaitForMakerPayment ==
  /\ Runs("taker", "WaitForMakerPayment", 2)
  /\ \/ /\ "MakerPayment" \in sent
        /\ TakerReturns(<<"TakerPaymentInstructionsReceived", "MakerPaymentReceived",
                          "MakerPaymentWaitConfirmStarted">>, "ValidateMakerPayment")
     \/ TakerFinishes("MakerPaymentValidateFailed")
  /\ NoError /\ UNCHANGED <<sent, chainVars>>

ValidateMakerPayment ==
  /\ Runs("taker", "ValidateMakerPayment", 1)
  /\ Knows("taker", "MakerPaymentReceived")
  /\ \/ /\ Confirmed("makerPayment", MakerPaymentConfUntil) /\ NoError
        /\ TakerReturns(<<"MakerPaymentValidatedAndConfirmed">>, "SendTakerPayment")
     \/ /\ ConfirmTimeout("makerPayment", MakerPaymentConfUntil) /\ NoError
        /\ TakerFinishes("MakerPaymentWaitConfirmFailed")
     \/ /\ Confirmed("makerPayment", MakerPaymentConfUntil) /\ Fails
        /\ TakerFinishes("MakerPaymentValidateFailed")
  /\ UNCHANGED <<sent, chainVars>>

\* The payment unwrapped is not known: only the instructions that came with it
\* were saved before a crash, or the record was made from a maker's that had
\* no payment of the taker.  Every later start ends here again.
TakerPanics ==
  /\ \/ /\ Runs("taker", "ValidateMakerPayment", 1)
        /\ ~Knows("taker", "MakerPaymentReceived")
     \/ /\ Runs("taker", "RefundTakerPayment", 1)
        /\ ~Knows("taker", "TakerPaymentSent")
  /\ cmd' = [cmd EXCEPT !["taker"] = "Panicked"]
  /\ UNCHANGED <<step, todo, saved, last, lost, restarts, sent, chainVars, errors, watcherVars, clock>>

\* check_if_my_payment_sent first; then the deadline, and the payment.
TakerSendPayment ==
  /\ Runs("taker", "SendTakerPayment", 1)
  /\ \/ /\ IF Live("takerPayment") THEN UNCHANGED chainVars
           ELSE clock <= MakerPaymentConfUntil /\ Submit("takerPayment")
        /\ NextAwait("taker") /\ NoError
     \/ /\ ~Live("takerPayment") /\ clock > MakerPaymentConfUntil /\ UNCHANGED chainVars
        /\ TakerFinishes("TakerPaymentTransactionFailed") /\ NoError
     \/ UNCHANGED chainVars /\ TakerFinishes("TakerPaymentTransactionFailed") /\ Fails
  /\ UNCHANGED sent

\* process_watcher_logic: the message is out before the events are saved; none
\* is sent when a preimage cannot be made.
TakerMessagesWatchers ==
  /\ Runs("taker", "SendTakerPayment", 2)
  /\ \/ /\ Watched /\ Broadcast("Watcher") /\ NoError
        /\ TakerReturns(<<"TakerPaymentSent", "WatcherMessageSent">>, "WaitForTakerPaymentSpend")
     \/ /\ UNCHANGED sent
        /\ IF Watched THEN Fails ELSE NoError
        /\ TakerReturns(<<"TakerPaymentSent">>, "WaitForTakerPaymentSpend")
  /\ UNCHANGED chainVars

TakerAnnouncePayment ==
  /\ Runs("taker", "WaitForTakerPaymentSpend", 1)
  /\ Broadcast("TakerPayment") /\ NextAwait("taker")
  /\ NoError /\ UNCHANGED chainVars

\* The node is asked before the time is checked.  A refund has no secret.
TakerWaitForPaymentSpend ==
  /\ Runs("taker", "WaitForTakerPaymentSpend", 2)
  /\ \/ /\ Live("takerPaymentSpend") /\ NoError
        /\ TakerReturns(<<"TakerPaymentSpent">>, "SpendMakerPayment")
     \/ /\ Live("takerPaymentRefund") /\ NoError
        /\ TakerFinishes("TakerPaymentWaitForSpendFailed")
     \/ /\ clock > TakerPaymentLock
        /\ IF Unspent("takerPayment") THEN NoError ELSE Fails
        /\ TakerRefunds("TakerPaymentWaitForSpendFailed")
  /\ UNCHANGED <<sent, chainVars>>

SpendMakerPayment ==
  /\ Runs("taker", "SpendMakerPayment", 1)
  /\ \/ /\ SubmitSpend("makerPaymentSpend") /\ NoError
        /\ TakerReturns(<<"MakerPaymentSpent">>, "ConfirmMakerPaymentSpend")
     \/ /\ \/ Refused("makerPaymentSpend") /\ NoError
           \/ UNCHANGED chainVars /\ Fails
        /\ TakerFinishes("MakerPaymentSpendFailed")
  /\ UNCHANGED sent

ConfirmMakerPaymentSpend ==
  /\ Runs("taker", "ConfirmMakerPaymentSpend", 1)
  /\ \/ /\ Confirmed("makerPaymentSpend", WaitRefundUntil["taker"])
        /\ TakerFinishes("MakerPaymentSpendConfirmed")
     \/ /\ ConfirmTimeout("makerPaymentSpend", WaitRefundUntil["taker"])
        /\ TakerRefunds("MakerPaymentSpendConfirmFailed")
  /\ NoError /\ UNCHANGED <<sent, chainVars>>

PrepareForTakerPaymentRefund ==
  /\ Runs("taker", "PrepareForTakerPaymentRefund", 1)
  /\ TakerReturns(<<"TakerPaymentRefundStarted">>, "RefundTakerPayment")
  /\ NoError /\ UNCHANGED <<sent, chainVars>>

\* Mutant: a refund that is refused is sent again and again.
RefundTakerPayment_retried ==
  /\ Runs("taker", "RefundTakerPayment", 1)
  /\ clock > TakerPaymentLock
  /\ SubmitSpend("takerPaymentRefund") /\ NoError
  /\ TakerReturns(<<"TakerPaymentRefunded">>, "FinalizeTakerPaymentRefund")
  /\ UNCHANGED sent

RefundTakerPayment ==
  /\ Runs("taker", "RefundTakerPayment", 1) /\ Knows("taker", "TakerPaymentSent")
  /\ clock > TakerPaymentLock
  /\ \/ /\ SubmitSpend("takerPaymentRefund") /\ NoError
        /\ TakerReturns(<<"TakerPaymentRefunded">>, "FinalizeTakerPaymentRefund")
     \/ /\ \/ Refused("takerPaymentRefund") /\ NoError
           \/ UNCHANGED chainVars /\ Fails
        /\ TakerFinishes("TakerPaymentRefundFailed")
  /\ UNCHANGED sent

FinalizeTakerPaymentRefund ==
  /\ Runs("taker", "FinalizeTakerPaymentRefund", 1)
  /\ TakerFinishes("TakerPaymentRefundFinished")
  /\ NoError /\ UNCHANGED <<sent, chainVars>>

TakerFinish ==
  /\ Runs("taker", "Finish", 1)
  /\ TakerReturns(<<"Finished">>, "Over")
  /\ NoError /\ UNCHANGED <<sent, chainVars>>

\* Mutant: only a payment that was saved is recovered.
TakerCanRecover_saved ==
  /\ Knows("taker", "Finished") /\ Knows("taker", "MakerPaymentReceived")
  /\ ~Knows("taker", "TakerPaymentRefunded") /\ ~Knows("taker", "TakerPaymentRefundedByWatcher")
  /\ ~Knows("taker", "MakerPaymentSpendConfirmed")
  /\ Knows("taker", "TakerPaymentSent")

\* recover_funds: the maker's payment is spent with the secret on the chain, or
\* the taker's refunded.  TakerPaymentRefundedByWatcher counts as a refund.
TakerCanRecover ==
  /\ Knows("taker", "Finished") /\ Knows("taker", "MakerPaymentReceived")
  /\ ~Knows("taker", "TakerPaymentRefunded") /\ ~Knows("taker", "TakerPaymentRefundedByWatcher")
  /\ ~Knows("taker", "MakerPaymentSpendConfirmed")
  /\ Live("takerPayment")

TakerRecover ==
  /\ TakerCanRecover
  /\ IF Live("takerPaymentSpend") THEN Unspent("makerPayment") /\ SubmitSpend("makerPaymentSpend")
     ELSE /\ clock > TakerPaymentLock
          /\ Unspent("takerPayment") /\ SubmitSpend("takerPaymentRefund")
  /\ UNCHANGED <<runVars, restarts, sent, errors, watcherVars, clock>>

TakerHandler ==
  \/ TakerStart \/ TakerReply \/ TakerNegotiate \/ SendTakerFee \/ TakerAnnounceFee
  \/ TakerWaitForMakerPayment \/ ValidateMakerPayment \/ TakerPanics \/ TakerSendPayment
  \/ TakerMessagesWatchers \/ TakerAnnouncePayment \/ TakerWaitForPaymentSpend
  \/ SpendMakerPayment \/ ConfirmMakerPaymentSpend \/ PrepareForTakerPaymentRefund
  \/ RefundTakerPayment \/ FinalizeTakerPaymentRefund \/ TakerFinish
==============================================================================
