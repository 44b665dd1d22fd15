---------------------------- MODULE RecreatedSwap ----------------------------
(***************************************************************************)
(* A side that lost its record asks the other for its own:                 *)
(* recreate_swap_data.rs converts it, import_swaps stores the result, and  *)
(* the next start goes on from there.                                      *)
(***************************************************************************)
EXTENDS SwapV1

\* Mutant: the payment the taker received is left out.
MakerEventsFor_unsent(e) ==
  CASE e = "MakerPaymentReceived" -> {"TakerFeeValidated"}
    [] e \in {"MakerPaymentValidateFailed", "MakerPaymentWaitConfirmFailed",
              "TakerPaymentTransactionFailed"}
         -> {"TakerPaymentValidateFailed", "MakerPaymentWaitRefundStarted"}
    [] OTHER -> {}

\* convert_taker_to_maker_events, one event of the taker.
MakerEventsFor(e) ==
  CASE e = "TakerFeeSendFailed" -> {"TakerFeeValidateFailed", "Finished"}
    [] e = "MakerPaymentReceived" -> {"TakerFeeValidated", "MakerPaymentSent"}
    [] e = "TakerPaymentSent" -> {"TakerPaymentReceived", "TakerPaymentWaitConfirmStarted"}
    [] e \in {"MakerPaymentValidateFailed", "MakerPaymentWaitConfirmFailed",
              "TakerPaymentTransactionFailed"}
         -> {"TakerPaymentValidateFailed", "MakerPaymentWaitRefundStarted"}
    [] e = "TakerPaymentSpent"
         -> {"TakerPaymentValidatedAndConfirmed", "TakerPaymentSpent",
             "TakerPaymentSpendConfirmStarted", "TakerPaymentSpendConfirmed", "Finished"}
    [] e = "TakerPaymentWaitForSpendFailed"
         -> {"TakerPaymentSpendFailed", "MakerPaymentWaitRefundStarted"}
    [] OTHER -> {}

\* convert_maker_to_taker_events, one event of the maker; the secret is taken
\* from the spend, if it can be.
TakerEventsFor(e, hasSecret) ==
  CASE e = "TakerFeeValidated" -> {"TakerFeeSent"}
    [] e \in {"TakerFeeValidateFailed", "MakerPaymentTransactionFailed",
              "MakerPaymentWaitConfirmFailed"}
         -> {"MakerPaymentValidateFailed", "Finished"}
    [] e = "MakerPaymentSent" -> {"MakerPaymentReceived", "MakerPaymentWaitConfirmStarted"}
    [] e = "TakerPaymentReceived" -> {"MakerPaymentValidatedAndConfirmed", "TakerPaymentSent"}
    [] e = "TakerPaymentSpent" /\ hasSecret -> {"TakerPaymentSpent"}
    [] \/ e = "TakerPaymentSpent" /\ ~hasSecret
       \/ e \in {"TakerPaymentValidateFailed", "TakerPaymentSpendFailed",
                 "TakerPaymentWaitConfirmFailed"}
         -> {"TakerPaymentWaitForSpendFailed", "TakerPaymentWaitRefundStarted"}
    [] OTHER -> {}

\* The events of a record at which its conversion stops, and all that it reads.
Outcomes ==
  [maker |-> {"TakerFeeValidateFailed", "MakerPaymentTransactionFailed",
              "MakerPaymentWaitConfirmFailed", "TakerPaymentValidateFailed",
              "TakerPaymentSpendFailed", "TakerPaymentWaitConfirmFailed", "TakerPaymentSpent"},
   taker |-> {"TakerFeeSendFailed", "MakerPaymentValidateFailed", "MakerPaymentWaitConfirmFailed",
              "TakerPaymentTransactionFailed", "TakerPaymentWaitForSpendFailed",
              "TakerPaymentSpent"}]
Converted ==
  [maker |-> Outcomes["maker"] \cup {"TakerFeeValidated", "MakerPaymentSent", "TakerPaymentReceived"},
   taker |-> Outcomes["taker"] \cup {"TakerFeeSent", "MakerPaymentReceived", "TakerPaymentSent"}]

\* What the new record can end with, in the order the events are made.  The
\* conversion is of a set: nothing follows an event at which it stops that it
\* would read (OutcomeIsFinal).
MakerEnds ==
  <<"Negotiated", "MakerPaymentSent", "TakerPaymentWaitConfirmStarted",
    "MakerPaymentWaitRefundStarted", "Finished">>
TakerEnds ==
  <<"Negotiated", "TakerFeeSent", "MakerPaymentWaitConfirmStarted", "TakerPaymentSent",
    "TakerPaymentWaitRefundStarted", "TakerPaymentSpent", "Finished">>
EndsWith(ends, events, e) ==
  \E i \in DOMAIN ends :
    /\ e = ends[i] /\ e \in events
    /\ \A j \in DOMAIN ends : j > i => ends[j] \notin events

\* Side s has lost its record, and the other got past the negotiation, without
\* which there is nothing to convert.  Bounds: one record is lost, and the loss is
\* one of the crashes and, if one is left, one of the calls that fail.
Loses(s, other) ==
  /\ restarts["maker"] + restarts["taker"] < MaxCrashes
  /\ {"Started", "Negotiated"} \subseteq saved[other]
  /\ lost = "none" /\ lost' = s
  /\ restarts' = [restarts EXCEPT ![s] = @ + 1]
  /\ errors' = IF errors < MaxErrors THEN errors + 1 ELSE errors

\* It goes on with these events, in a process that has to be started.
ImportSwap(s, ends, events) ==
  /\ saved' = [saved EXCEPT ![s] = events]
  /\ \E e \in events : EndsWith(ends, events, e) /\ last' = [last EXCEPT ![s] = e]
  /\ cmd' = [cmd EXCEPT ![s] = "Down"]
  /\ step' = [step EXCEPT ![s] = 1]
  /\ todo' = [todo EXCEPT ![s] = <<>>]
  /\ UNCHANGED <<sent, chainVars, watcherVars, clock>>

\* recreate_maker_swap: all but the secret.
RecreateMaker ==
  /\ Loses("maker", "taker")
  /\ ImportSwap("maker", MakerEnds,
       {"Started", "Negotiated"} \cup UNION {MakerEventsFor(e) : e \in saved["taker"]})

\* recreate_taker_swap.
RecreateTaker ==
  /\ Loses("taker", "maker")
  /\ \E hasSecret \in BOOLEAN :
       /\ ImportSwap("taker", TakerEnds,
            {"Started", "Negotiated"} \cup UNION {TakerEventsFor(e, hasSecret) : e \in saved["maker"]})

RecreatedNext == Next \/ RecreateMaker \/ RecreateTaker
RecreatedSpec == Init /\ [][RecreatedNext]_vars

\* Nobody has to ask for a record.
RecreatedFairSpec == RecreatedSpec /\ Fairness

-----------------------------------------------------------------------------
\* Once a record has an event at which its conversion stops, the side saves nothing
\* more that the conversion would read, whatever crashes and restarts follow: the
\* other side's record says how the swap went.
OutcomeIsFinal ==
  [][\A s \in Sides : \A e \in saved'[s] \ saved[s] :
       lost' = lost /\ e \in Converted[s] => saved[s] \cap Outcomes[s] = {}]_vars

\* A side panics for good only over a payment that the records could not tell it
\* of: its own, with a record made from one that had not received it, or the
\* other side's, when a crash kept all but the instructions from being saved.
PanicsUninformed ==
  /\ cmd["maker"] = "Panicked" =>
       lost = "maker" /\ ~Knows("taker", "MakerPaymentReceived")
  /\ cmd["taker"] = "Panicked" =>
       \/ lost # "taker" /\ ~Knows("taker", "MakerPaymentReceived")
       \/ lost = "taker" /\ ~Knows("maker", "TakerPaymentReceived")
==============================================================================
