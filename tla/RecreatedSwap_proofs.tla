------------------------- MODULE RecreatedSwap_proofs -------------------------
(***************************************************************************)
(* A record made from the other side's is as good as the one that was lost *)
(* but for the secret: RecreatedSpec keeps SwapV1Inv, implements           *)
(* AtomicSwap, and panics only over what no record told.                   *)
(***************************************************************************)
EXTENDS RecreatedSwap, SwapV1_proofs

\* What the maker does once its payment is sent, and what it reports then.
PaidCommands ==
  {"WaitForTakerPayment", "ValidateTakerPayment", "SpendTakerPayment",
   "ConfirmTakerPaymentSpend", "PrepareForMakerPaymentRefund", "RefundMakerPayment"}
PaidEvents ==
  {"TakerPaymentReceived", "TakerPaymentWaitConfirmStarted", "TakerPaymentValidatedAndConfirmed",
   "TakerPaymentSpent", "TakerPaymentSpendConfirmStarted", "MakerPaymentWaitConfirmFailed",
   "TakerPaymentWaitConfirmFailed", "TakerPaymentValidateFailed", "TakerPaymentSpendFailed",
   "TakerPaymentSpendConfirmFailed", "MakerPaymentWaitRefundStarted",
   "MakerPaymentRefundStarted"}

\* The same once it has the taker's payment ...
ReceivedCommands == {"ValidateTakerPayment", "SpendTakerPayment", "ConfirmTakerPaymentSpend"}
ReceivedEvents ==
  {"TakerPaymentValidatedAndConfirmed", "TakerPaymentSpent", "TakerPaymentSpendConfirmStarted",
   "TakerPaymentWaitConfirmFailed", "TakerPaymentSpendFailed"}

\* ... and once it has stopped waiting for it.
RefundCommands ==
  {"PrepareForMakerPaymentRefund", "RefundMakerPayment", "FinalizeMakerPaymentRefund",
   "Finish", "Over", "Panicked", "Down"}
RefundEvents ==
  {"TakerPaymentValidateFailed", "MakerPaymentWaitRefundStarted", "MakerPaymentRefundStarted",
   "MakerPaymentRefunded", "MakerPaymentRefundFailed", "MakerPaymentRefundFinished", "Finished"}

\* What the taker does once its own payment is sent, and what it reports then.
SentCommands ==
  {"WaitForTakerPaymentSpend", "SpendMakerPayment", "ConfirmMakerPaymentSpend",
   "PrepareForTakerPaymentRefund", "RefundTakerPayment"}
SentEvents ==
  {"TakerPaymentSpent", "TakerPaymentWaitForSpendFailed", "MakerPaymentSpent",
   "MakerPaymentSpentByWatcher", "MakerPaymentSpendFailed", "MakerPaymentSpendConfirmFailed",
   "TakerPaymentWaitRefundStarted", "TakerPaymentRefundStarted"}

\* The maker's record was made from that of a taker which had given up waiting for
\* the maker's payment.
MakerUninformed ==
  /\ lost = "maker" /\ Knows("taker", "MakerPaymentValidateFailed")
  /\ ~Knows("taker", "MakerPaymentReceived")

\* The taker's record was made from that of a maker which had given up waiting for
\* the taker's payment.
TakerUninformed ==
  /\ lost = "taker" /\ Knows("maker", "TakerPaymentValidateFailed")
  /\ ~Knows("maker", "TakerPaymentReceived")

\* Nothing is left to save in a process that stopped.
StoppedSaved == \A s \in Sides : cmd[s] \in {"Down", "Panicked"} => todo[s] = <<>>

\* What was sent was recorded first, and what was recorded was sent.
MessagesTrue ==
  /\ lost # "maker" /\ "MakerPayment" \in sent => Knows("maker", "MakerPaymentSent")
  /\ lost # "taker" /\ "MakerPaymentReceived" \in Reported("taker") => "MakerPayment" \in sent
  /\ "TakerPayment" \in sent
       => tx["makerPayment"] = "confirmed" /\ Knows("taker", "MakerPaymentReceived")
  /\ lost # "maker" /\ "TakerPaymentReceived" \in Reported("maker") => "TakerPayment" \in sent

\* The maker goes on from a payment of its own that is in its record, or from a
\* record that could not have it.
MakerRecord ==
  /\ cmd["maker"] \in PaidCommands
       => "MakerPaymentSent" \in Reported("maker") \/ MakerUninformed
  /\ Reported("maker") \cap PaidEvents # {} => Knows("maker", "MakerPaymentSent") \/ MakerUninformed
  /\ cmd["maker"] = "Panicked" => MakerUninformed
  /\ "TakerPaymentSpent" \in Reported("maker") => Live("takerPaymentSpend")

\* As long as the record is its own, the maker has the taker's payment when it says
\* so, and never gets it after it gave up waiting.
MakerWaits ==
  lost # "maker" =>
    /\ cmd["maker"] \in ReceivedCommands => "TakerPaymentReceived" \in Reported("maker")
    /\ Reported("maker") \cap ReceivedEvents # {} => Knows("maker", "TakerPaymentReceived")
    /\ "TakerPaymentWaitConfirmStarted" \in Reported("maker") =>
         \/ Knows("maker", "TakerPaymentReceived")
         \/ todo["maker"] = <<"TakerPaymentReceived", "TakerPaymentWaitConfirmStarted">>
            /\ "TakerPaymentWaitConfirmStarted" \notin saved["maker"]
    /\ /\ "TakerPaymentValidateFailed" \in Reported("maker")
       /\ ~Knows("maker", "TakerPaymentReceived")
       => /\ cmd["maker"] \in RefundCommands /\ Elements(todo["maker"]) \subseteq RefundEvents
          /\ Knows("maker", "TakerPaymentValidateFailed") => last["maker"] \in RefundEvents

\* The taker pays only with the maker's payment in its record.
TakerRecord ==
  /\ cmd["taker"] = "WaitForTakerPaymentSpend"
       => tx["makerPayment"] = "confirmed" /\ Knows("taker", "MakerPaymentReceived")
  /\ Reported("taker") \cap {"TakerPaymentSent", "WatcherMessageSent"} # {}
       => tx["makerPayment"] = "confirmed" /\ Knows("taker", "MakerPaymentReceived")
  /\ cmd["taker"] \in SentCommands => "TakerPaymentSent" \in Reported("taker") \/ TakerUninformed
  /\ Reported("taker") \cap SentEvents # {} => Knows("taker", "TakerPaymentSent") \/ TakerUninformed
  /\ "WatcherMessageSent" \in Reported("taker") =>
       \/ Knows("taker", "TakerPaymentSent")
       \/ todo["taker"] = <<"TakerPaymentSent", "WatcherMessageSent">>
          /\ "WatcherMessageSent" \notin saved["taker"]
  /\ cmd["taker"] = "Panicked" => ~Knows("taker", "MakerPaymentReceived") \/ TakerUninformed

\* As long as the record is its own, the taker has the maker's payment when it says
\* so, and never gets it after it gave up waiting.
TakerWaits ==
  lost # "taker" =>
    /\ Reported("taker") \cap {"MakerPaymentWaitConfirmFailed", "TakerPaymentTransactionFailed",
                               "TakerPaymentWaitForSpendFailed"} # {}
         => Knows("taker", "MakerPaymentReceived")
    /\ /\ "MakerPaymentValidateFailed" \in Reported("taker")
       /\ ~Knows("taker", "MakerPaymentReceived")
       => /\ cmd["taker"] \in {"Finish", "Over", "Down"}
          /\ Elements(todo["taker"]) \subseteq {"MakerPaymentValidateFailed", "Finished"}
          /\ Knows("taker", "MakerPaymentValidateFailed")
               => last["taker"] \in {"MakerPaymentValidateFailed", "Finished"}

RecordInv ==
  /\ StoppedSaved /\ MessagesTrue /\ MakerRecord /\ MakerWaits /\ TakerRecord /\ TakerWaits

\* The commands a side runs while its record has no outcome yet, and the events
\* after which it runs them.
OpenCommands ==
  [maker |-> {"Start", "Negotiate", "WaitForTakerFee", "SendPayment", "WaitForTakerPayment",
              "ValidateTakerPayment", "SpendTakerPayment"},
   taker |-> {"Start", "Negotiate", "SendTakerFee", "WaitForMakerPayment", "ValidateMakerPayment",
              "SendTakerPayment", "WaitForTakerPaymentSpend"}]
OpenEvents ==
  [maker |-> {"Started", "Negotiated", "MakerPaymentInstructionsReceived", "TakerFeeValidated",
              "MakerPaymentSent", "TakerPaymentReceived", "TakerPaymentWaitConfirmStarted",
              "TakerPaymentValidatedAndConfirmed"},
   taker |-> {"Started", "Negotiated", "TakerFeeSent", "TakerPaymentInstructionsReceived",
              "MakerPaymentReceived", "MakerPaymentWaitConfirmStarted",
              "MakerPaymentValidatedAndConfirmed", "TakerPaymentSent", "WatcherMessageSent"}]

\* What tells a record without an outcome from one with it: the command, the last
\* event, and the events that are still to be saved.
Decided(s) ==
  /\ cmd[s] \in OpenCommands[s] => Reported(s) \cap Outcomes[s] = {}
  /\ last[s] \in OpenEvents[s] => saved[s] \cap Outcomes[s] = {}
  /\ Elements(todo[s]) \cap (OpenEvents[s] \cup Outcomes[s]) # {} => saved[s] \cap Outcomes[s] = {}
  /\ Elements(todo[s]) \cap Outcomes[s] # {} =>
       Elements(Tail(todo[s])) \cap (OpenEvents[s] \cup Outcomes[s]) = {}
OutcomeInv == Decided("maker") /\ Decided("taker")
-----------------------------------------------------------------------------
\* Abbreviations and actions; what a proof is about is cited where it is used.
USE DEF Sides, vars, runVars, chainVars, watcherVars, Runs, Return, NextAwait, Knows,
        Fails, NoError, Broadcast, Txs, Payments, SpendingTxs, Spends, Live, Unspent,
        Submit, SubmitSpend, Refused
USE DEF MakerReturns, MakerFinishes, MakerRefunds, TakerReturns, TakerFinishes,
        TakerRefunds, TakerLoads, WatcherTo, WatcherIdle, WatcherFails
USE DEF MakerHandler, MakerStart, MakerAnnounceNegotiation, MakerNegotiate, MakerAnnounceNegotiated,
  WaitTakerFee, MakerSendPayment, MakerAnnouncePayment, MakerConfirmOwnPayment,
  MakerWaitForTakerPayment, ValidateTakerPayment, SpendTakerPayment, ConfirmTakerPaymentSpend,
  PrepareForMakerPaymentRefund, RefundMakerPayment, MakerPanics, FinalizeMakerPaymentRefund,
  MakerFinish, MakerKickstart, MakerRecover
USE DEF TakerHandler, TakerStart, TakerReply, TakerNegotiate, SendTakerFee, TakerAnnounceFee,
  TakerWaitForMakerPayment, ValidateMakerPayment, TakerPanics, TakerSendPayment,
  TakerMessagesWatchers, TakerAnnouncePayment, TakerWaitForPaymentSpend, SpendMakerPayment,
  ConfirmMakerPaymentSpend, PrepareForTakerPaymentRefund, RefundTakerPayment,
  FinalizeTakerPaymentRefund, TakerFinish, TakerKickstart, TakerKickstartWatched, TakerRecover
USE DEF WatcherNext, WatcherSpawn, WatcherValidateTakerFee, WatcherValidateTakerPayment,
  WatcherWaitForTakerPaymentSpend, WatcherAwaitMakerPaymentSpend, WatcherSpendMakerPayment,
  WatcherRefundTakerPayment, SaveEvent, Crash, Confirm, Drop, Tick

\* The types the steps below rely on.
Shapes ==
  /\ DOMAIN cmd = Sides /\ DOMAIN todo = Sides /\ DOMAIN saved = Sides /\ DOMAIN last = Sides
  /\ tx \in [Txs -> {"none", "mempool", "confirmed"}]

\* They are types of TypeOK.
LEMMA ShapesHold == TypeOK => Shapes
  BY DEF TypeOK, Shapes

-----------------------------------------------------------------------------
(* What a step leaves alone.                                               *)

\* A command of the maker adds its batch when the one before is saved.
LEMMA MakerFrame ==
  ASSUME Shapes, MakerStep
  PROVE  /\ saved' = saved /\ last' = last /\ lost' = lost
         /\ cmd'["taker"] = cmd["taker"] /\ todo'["taker"] = todo["taker"]
         /\ Reported("taker")' = Reported("taker")
         /\ sent \subseteq sent' /\ ("TakerPayment" \in sent' => "TakerPayment" \in sent)
         /\ Reported("maker") \subseteq Reported("maker")'
         /\ todo'["maker"] # todo["maker"] =>
              /\ todo["maker"] = <<>> /\ todo'["maker"] \in MakerBatches
              /\ Reported("maker") = saved["maker"]
  <1>1. /\ saved' = saved /\ last' = last /\ todo'["taker"] = todo["taker"]
        /\ todo'["maker"] # todo["maker"] => todo["maker"] = <<>> /\ todo'["maker"] \in MakerBatches
    BY MakerReturnsBatch DEF Shapes
  <1>2. /\ lost' = lost /\ cmd'["taker"] = cmd["taker"]
        /\ sent \subseteq sent' /\ ("TakerPayment" \in sent' => "TakerPayment" \in sent)
    BY DEF MakerStep, Shapes
  <1>3. Elements(<<>>) = {} BY QueueElements
  <1> QED BY <1>1, <1>2, <1>3 DEF Reported

\* So does one of the taker, but for the restart that reports the watcher's work.
LEMMA TakerFrame ==
  ASSUME Shapes, TakerStep
  PROVE  /\ saved'["maker"] = saved["maker"] /\ last'["maker"] = last["maker"] /\ lost' = lost
         /\ saved["taker"] \subseteq saved'["taker"]
         /\ cmd'["maker"] = cmd["maker"] /\ todo'["maker"] = todo["maker"]
         /\ Reported("maker")' = Reported("maker")
         /\ sent \subseteq sent' /\ ("MakerPayment" \in sent' => "MakerPayment" \in sent)
         /\ Reported("taker") \subseteq Reported("taker")'
         /\ todo'["taker"] # todo["taker"] =>
              /\ todo["taker"] = <<>> /\ todo'["taker"] \in TakerBatches
              /\ Reported("taker") = saved["taker"]
              /\ saved' = saved /\ last' = last
  <1>1. /\ todo'["maker"] = todo["maker"]
        /\ todo'["taker"] # todo["taker"] => todo["taker"] = <<>> /\ todo'["taker"] \in TakerBatches
    BY TakerReturnsBatch DEF Shapes
  <1>2. /\ saved'["maker"] = saved["maker"] /\ last'["maker"] = last["maker"] /\ lost' = lost
        /\ saved["taker"] \subseteq saved'["taker"]
        /\ cmd'["maker"] = cmd["maker"]
        /\ todo'["taker"] # todo["taker"] => saved' = saved /\ last' = last
    BY DEF TakerStep, Shapes
  <1>3. sent \subseteq sent' /\ ("MakerPayment" \in sent' => "MakerPayment" \in sent)
    BY DEF TakerStep
  <1>4. Elements(<<>>) = {} BY QueueElements
  <1> QED BY <1>1, <1>2, <1>3, <1>4 DEF Reported

\* The watcher and the world change no record and no command.
LEMMA WorldFrame ==
  ASSUME WatcherNext \/ EnvironmentStep
  PROVE  /\ UNCHANGED <<cmd, todo, saved, last, lost, sent>>
         /\ \A s \in Sides : Reported(s)' = Reported(s)
  <1>1. UNCHANGED <<cmd, todo, saved, last, lost, sent>>
    BY DEF EnvironmentStep
  <1> QED BY <1>1 DEF Reported

\* An event that is saved stays reported ...
LEMMA SaveFrame ==
  ASSUME TypeOK, NEW p \in Sides, SaveEvent(p)
  PROVE  /\ UNCHANGED <<cmd, lost, sent, tx>>
         /\ \A s \in Sides : Reported(s)' = Reported(s) /\ saved[s] \subseteq saved'[s]
         /\ \A s \in Sides \ {p} : todo'[s] = todo[s] /\ saved'[s] = saved[s] /\ last'[s] = last[s]
         /\ todo[p] # <<>> /\ todo'[p] = Tail(todo[p]) /\ last'[p] = Head(todo[p])
         /\ saved'[p] = saved[p] \cup {Head(todo[p])}
         /\ Elements(todo[p]) = {Head(todo[p])} \cup Elements(todo'[p])
         /\ cmd[p] # "Down"
  <1>1. Shapes /\ todo[p] \in Seq(Events[p]) BY ShapesHold DEF TypeOK
  <1>2. /\ UNCHANGED <<cmd, lost, sent, tx>>
        /\ \A s \in Sides \ {p} : todo'[s] = todo[s] /\ saved'[s] = saved[s] /\ last'[s] = last[s]
        /\ todo[p] # <<>> /\ todo'[p] = Tail(todo[p]) /\ last'[p] = Head(todo[p])
        /\ saved'[p] = saved[p] \cup {Head(todo[p])} /\ cmd[p] # "Down"
    BY <1>1 DEF Shapes
  <1>3. Elements(todo[p]) = {Head(todo[p])} \cup Elements(Tail(todo[p]))
    BY <1>1, <1>2, QueueSplits
  <1> QED BY <1>2, <1>3 DEF Reported

\* ... and a crash leaves what was saved.
LEMMA CrashFrame ==
  ASSUME Shapes, NEW p \in Sides, Crash(p)
  PROVE  /\ UNCHANGED <<saved, last, lost, sent, tx>>
         /\ cmd'[p] = "Down" /\ todo'[p] = <<>> /\ Reported(p)' = saved[p]
         /\ \A s \in Sides \ {p} :
              cmd'[s] = cmd[s] /\ todo'[s] = todo[s] /\ Reported(s)' = Reported(s)
  <1>1. /\ UNCHANGED <<saved, last, lost, sent, tx>> /\ cmd'[p] = "Down" /\ todo'[p] = <<>>
        /\ \A s \in Sides \ {p} : cmd'[s] = cmd[s] /\ todo'[s] = todo[s]
    BY DEF Shapes
  <1>2. Elements(<<>>) = {} BY QueueElements
  <1> QED BY <1>1, <1>2 DEF Reported

-----------------------------------------------------------------------------
(* What is reported, and by which command.                                 *)

\* A new report of the maker.
LEMMA MakerNews ==
  ASSUME Shapes, MakerStep
  PROVE  \A e \in Reported("maker")' \ Reported("maker") :
           /\ todo["maker"] = <<>>
           /\ e \in PaidEvents => cmd["maker"] \in PaidCommands
           /\ e \in ReceivedEvents => cmd["maker"] \in ReceivedCommands
           /\ e = "TakerPaymentReceived" =>
                cmd["maker"] = "WaitForTakerPayment" /\ "TakerPayment" \in sent
           /\ e = "TakerPaymentWaitConfirmStarted" =>
                todo'["maker"] = <<"TakerPaymentReceived", "TakerPaymentWaitConfirmStarted">>
           /\ e = "TakerPaymentValidateFailed" =>
                /\ cmd'["maker"] = "PrepareForMakerPaymentRefund"
                /\ todo'["maker"] = <<"TakerPaymentValidateFailed", "MakerPaymentWaitRefundStarted">>
           /\ e = "TakerPaymentSpent" => SubmitSpend("takerPaymentSpend")
  <1> SUFFICES ASSUME NEW e \in Elements(todo'["maker"]), todo'["maker"] # todo["maker"]
               PROVE  /\ e \in PaidEvents => cmd["maker"] \in PaidCommands
                      /\ e \in ReceivedEvents => cmd["maker"] \in ReceivedCommands
                      /\ e = "TakerPaymentReceived" =>
                           cmd["maker"] = "WaitForTakerPayment" /\ "TakerPayment" \in sent
                      /\ e = "TakerPaymentWaitConfirmStarted" => todo'["maker"]
                           = <<"TakerPaymentReceived", "TakerPaymentWaitConfirmStarted">>
                      /\ e = "TakerPaymentValidateFailed" =>
                           /\ cmd'["maker"] = "PrepareForMakerPaymentRefund"
                           /\ todo'["maker"]
                                = <<"TakerPaymentValidateFailed", "MakerPaymentWaitRefundStarted">>
                      /\ e = "TakerPaymentSpent" => SubmitSpend("takerPaymentSpend")
    BY MakerFrame DEF Reported
  <1> DEFINE q == todo'["maker"]
  <1>1. q \in MakerBatches BY MakerFrame
  <1>2. e \in PaidEvents => cmd["maker"] \in PaidCommands
    <2>1. e \in PaidEvents =>
            q \in {<<"MakerPaymentWaitConfirmFailed", "MakerPaymentWaitRefundStarted">>,
                   <<"TakerPaymentReceived", "TakerPaymentWaitConfirmStarted">>,
                   <<"TakerPaymentValidateFailed", "MakerPaymentWaitRefundStarted">>,
                   <<"TakerPaymentValidatedAndConfirmed">>,
                   <<"TakerPaymentWaitConfirmFailed", "MakerPaymentWaitRefundStarted">>,
                   <<"TakerPaymentSpent", "TakerPaymentSpendConfirmStarted">>,
                   <<"TakerPaymentSpendFailed", "MakerPaymentWaitRefundStarted">>,
                   <<"TakerPaymentSpendConfirmFailed", "MakerPaymentWaitRefundStarted">>,
                   <<"MakerPaymentRefundStarted">>}
      BY <1>1, QueueElements DEF MakerBatches, PaidEvents
    <2> QED BY <2>1 DEF MakerStep, Shapes, PaidCommands
  <1>3. e \in ReceivedEvents => cmd["maker"] \in ReceivedCommands
    <2>1. e \in ReceivedEvents =>
            q \in {<<"TakerPaymentValidatedAndConfirmed">>,
                   <<"TakerPaymentWaitConfirmFailed", "MakerPaymentWaitRefundStarted">>,
                   <<"TakerPaymentSpent", "TakerPaymentSpendConfirmStarted">>,
                   <<"TakerPaymentSpendFailed", "MakerPaymentWaitRefundStarted">>}
      BY <1>1, QueueElements DEF MakerBatches, ReceivedEvents
    <2> QED BY <2>1 DEF MakerStep, Shapes, ReceivedCommands
  <1>4. /\ e \in {"TakerPaymentReceived", "TakerPaymentWaitConfirmStarted"}
             => q = <<"TakerPaymentReceived", "TakerPaymentWaitConfirmStarted">>
        /\ e = "TakerPaymentValidateFailed"
             => q = <<"TakerPaymentValidateFailed", "MakerPaymentWaitRefundStarted">>
        /\ e = "TakerPaymentSpent" => q = <<"TakerPaymentSpent", "TakerPaymentSpendConfirmStarted">>
    BY <1>1, QueueElements DEF MakerBatches
  <1>5. q = <<"TakerPaymentReceived", "TakerPaymentWaitConfirmStarted">> =>
          cmd["maker"] = "WaitForTakerPayment" /\ "TakerPayment" \in sent
    BY DEF MakerStep, Shapes
  <1>6. q = <<"TakerPaymentValidateFailed", "MakerPaymentWaitRefundStarted">> =>
          cmd'["maker"] = "PrepareForMakerPaymentRefund"
    BY DEF MakerStep, Shapes
  <1>7. q = <<"TakerPaymentSpent", "TakerPaymentSpendConfirmStarted">>
          => SubmitSpend("takerPaymentSpend")
    BY DEF MakerStep, Shapes
  <1> QED BY <1>2, <1>3, <1>4, <1>5, <1>6, <1>7

\* A new command of the maker.
LEMMA MakerTurns ==
  ASSUME Shapes, MakerStep
  PROVE  /\ cmd'["maker"] \in PaidCommands =>
              \/ cmd["maker"] \in PaidCommands
              \/ "MakerPaymentSent" \in Reported("maker")'
              \/ cmd["maker"] = "Down" /\ cmd'["maker"] = MakerCommand(last["maker"])
         /\ cmd'["maker"] \in ReceivedCommands =>
              \/ cmd["maker"] \in ReceivedCommands
              \/ "TakerPaymentReceived" \in Reported("maker")'
              \/ cmd["maker"] = "Down" /\ cmd'["maker"] = MakerCommand(last["maker"])
         /\ cmd'["maker"] = "Panicked" =>
              \/ cmd["maker"] = "Panicked" /\ UNCHANGED todo
              \/ /\ cmd["maker"] = "RefundMakerPayment" /\ UNCHANGED todo
                 /\ todo["maker"] = <<>> /\ ~Knows("maker", "MakerPaymentSent")
              \/ cmd["maker"] = "Down" /\ cmd'["maker"] = MakerCommand(last["maker"])
         /\ cmd'["maker"] = "Down" =>
              \/ cmd["maker"] = "Down" /\ UNCHANGED todo
              \/ cmd["maker"] = "Down" /\ cmd'["maker"] = MakerCommand(last["maker"])
         /\ cmd["maker"] \in RefundCommands =>
              /\ \/ cmd'["maker"] \in RefundCommands
                 \/ cmd["maker"] = "Down" /\ cmd'["maker"] = MakerCommand(last["maker"])
              /\ todo' = todo \/ Elements(todo'["maker"]) \subseteq RefundEvents
         /\ "MakerPayment" \in sent' => 
              \/ "MakerPayment" \in sent
              \/ cmd["maker"] = "WaitForTakerPayment" /\ todo["maker"] = <<>>
  <1>1. cmd'["maker"] \in PaidCommands =>
              \/ cmd["maker"] \in PaidCommands
              \/ todo'["maker"] = <<"MakerPaymentSent">>
              \/ cmd["maker"] = "Down" /\ cmd'["maker"] = MakerCommand(last["maker"])
    BY DEF MakerStep, Shapes, PaidCommands
  <1>2. cmd'["maker"] \in ReceivedCommands =>
              \/ cmd["maker"] \in ReceivedCommands
              \/ todo'["maker"] = <<"TakerPaymentReceived", "TakerPaymentWaitConfirmStarted">>
              \/ cmd["maker"] = "Down" /\ cmd'["maker"] = MakerCommand(last["maker"])
    BY DEF MakerStep, Shapes, ReceivedCommands
  <1>3. /\ cmd'["maker"] = "Panicked" =>
              \/ cmd["maker"] = "Panicked" /\ UNCHANGED todo
              \/ /\ cmd["maker"] = "RefundMakerPayment" /\ UNCHANGED todo
                 /\ todo["maker"] = <<>> /\ ~Knows("maker", "MakerPaymentSent")
              \/ cmd["maker"] = "Down" /\ cmd'["maker"] = MakerCommand(last["maker"])
        /\ cmd'["maker"] = "Down" =>
              \/ cmd["maker"] = "Down" /\ UNCHANGED todo
              \/ cmd["maker"] = "Down" /\ cmd'["maker"] = MakerCommand(last["maker"])
    BY DEF MakerStep, Shapes
  <1>4. cmd["maker"] \in RefundCommands =>
              /\ \/ cmd'["maker"] \in RefundCommands
                 \/ cmd["maker"] = "Down" /\ cmd'["maker"] = MakerCommand(last["maker"])
              /\ \/ todo' = todo
                 \/ todo'["maker"] \in {<<"MakerPaymentRefundStarted">>, <<"MakerPaymentRefunded">>,
                      <<"MakerPaymentRefundFailed">>, <<"MakerPaymentRefundFinished">>, <<"Finished">>}
    BY DEF MakerStep, Shapes, RefundCommands
  <1>5. \A q \in {<<"MakerPaymentRefundStarted">>, <<"MakerPaymentRefunded">>,
                  <<"MakerPaymentRefundFailed">>, <<"MakerPaymentRefundFinished">>, <<"Finished">>} :
          Elements(q) \subseteq RefundEvents
    BY QueueElements DEF RefundEvents
  <1>6. "MakerPayment" \in sent' => 
              \/ "MakerPayment" \in sent
              \/ cmd["maker"] = "WaitForTakerPayment" /\ todo["maker"] = <<>>
    BY DEF MakerStep
  <1>7. /\ todo'["maker"] = <<"MakerPaymentSent">> => "MakerPaymentSent" \in Reported("maker")'
        /\ todo'["maker"] = <<"TakerPaymentReceived", "TakerPaymentWaitConfirmStarted">>
             => "TakerPaymentReceived" \in Reported("maker")'
    <2>1. /\ Elements(<<"MakerPaymentSent">>) = {"MakerPaymentSent"}
          /\ Elements(<<"TakerPaymentReceived", "TakerPaymentWaitConfirmStarted">>)
               = {"TakerPaymentReceived", "TakerPaymentWaitConfirmStarted"}
      BY QueueElements
    <2> QED BY <2>1 DEF Reported
  <1> QED BY <1>1, <1>2, <1>3, <1>4, <1>5, <1>6, <1>7

\* Where a restart of the maker goes on.
LEMMA MakerRestarts ==
  ASSUME NEW e \in MakerEvents \cup {"None"}
  PROVE  /\ MakerCommand(e) \notin {"Panicked", "Down"}
         /\ MakerCommand(e) \in PaidCommands => e \in PaidEvents \cup {"MakerPaymentSent"}
         /\ MakerCommand(e) \in ReceivedCommands =>
              e \in ReceivedEvents \cup {"TakerPaymentReceived", "TakerPaymentWaitConfirmStarted"}
         /\ e \in RefundEvents => MakerCommand(e) \in RefundCommands
  BY DEF MakerEvents, MakerCommand, PaidCommands, PaidEvents, ReceivedCommands, ReceivedEvents,
         RefundCommands, RefundEvents

\* A new report of the taker.
LEMMA TakerNews ==
  ASSUME Shapes, TakerStep
  PROVE  \A e \in Reported("taker")' \ Reported("taker") :
           /\ todo["taker"] = <<>> \/ cmd["taker"] = "Down"
           /\ e = "MakerPaymentReceived" =>
                cmd["taker"] = "WaitForMakerPayment" /\ "MakerPayment" \in sent
           /\ e \in {"TakerPaymentSent", "WatcherMessageSent"} => cmd["taker"] = "SendTakerPayment"
           /\ e = "WatcherMessageSent" =>
                todo'["taker"] = <<"TakerPaymentSent", "WatcherMessageSent">>
           /\ e \in SentEvents =>
                \/ cmd["taker"] \in SentCommands
                \/ cmd["taker"] = "Down" /\ TakerCommand(last["taker"]) \in SentCommands
           /\ e \in {"MakerPaymentWaitConfirmFailed", "TakerPaymentTransactionFailed",
                     "TakerPaymentWaitForSpendFailed"} =>
                \/ Knows("taker", "MakerPaymentReceived")
                \/ cmd["taker"] \in {"SendTakerPayment", "WaitForTakerPaymentSpend"}
           /\ e = "MakerPaymentValidateFailed" =>
                \/ Knows("taker", "MakerPaymentReceived")
                \/ cmd'["taker"] = "Finish" /\ todo'["taker"] = <<"MakerPaymentValidateFailed">>
  <1> DEFINE True(e) ==
           /\ todo["taker"] = <<>> \/ cmd["taker"] = "Down"
           /\ e = "MakerPaymentReceived" =>
                cmd["taker"] = "WaitForMakerPayment" /\ "MakerPayment" \in sent
           /\ e \in {"TakerPaymentSent", "WatcherMessageSent"} => cmd["taker"] = "SendTakerPayment"
           /\ e = "WatcherMessageSent" =>
                todo'["taker"] = <<"TakerPaymentSent", "WatcherMessageSent">>
           /\ e \in SentEvents =>
                \/ cmd["taker"] \in SentCommands
                \/ cmd["taker"] = "Down" /\ TakerCommand(last["taker"]) \in SentCommands
           /\ e \in {"MakerPaymentWaitConfirmFailed", "TakerPaymentTransactionFailed",
                     "TakerPaymentWaitForSpendFailed"} =>
                \/ Knows("taker", "MakerPaymentReceived")
                \/ cmd["taker"] \in {"SendTakerPayment", "WaitForTakerPaymentSpend"}
           /\ e = "MakerPaymentValidateFailed" =>
                \/ Knows("taker", "MakerPaymentReceived")
                \/ cmd'["taker"] = "Finish" /\ todo'["taker"] = <<"MakerPaymentValidateFailed">>
  <1>1. ASSUME NEW e \in saved'["taker"], e \notin saved["taker"] PROVE True(e)
    <2>1. TakerKickstartWatched BY <1>1 DEF TakerStep, Shapes
    <2>2. /\ cmd["taker"] = "Down" /\ TakerCommand(last["taker"]) \in SentCommands
          /\ e \in {"TakerPaymentSpent", "MakerPaymentSpentByWatcher", "TakerPaymentRefundedByWatcher"}
      BY <1>1, <2>1 DEF Shapes, AsksTheChains, SentCommands
    <2> QED BY <2>2
  <1>2. ASSUME NEW e \in Elements(todo'["taker"]), todo'["taker"] # todo["taker"] PROVE True(e)
    <2> DEFINE q == todo'["taker"]
    <2>1. q \in TakerBatches /\ todo["taker"] = <<>> BY <1>2, TakerFrame
    <2>2. /\ e = "MakerPaymentReceived" => q = <<"TakerPaymentInstructionsReceived",
                  "MakerPaymentReceived", "MakerPaymentWaitConfirmStarted">>
          /\ e \in {"TakerPaymentSent", "WatcherMessageSent"} =>
               q \in {<<"TakerPaymentSent", "WatcherMessageSent">>, <<"TakerPaymentSent">>}
          /\ e = "WatcherMessageSent" => q = <<"TakerPaymentSent", "WatcherMessageSent">>
          /\ e = "MakerPaymentValidateFailed" => q = <<"MakerPaymentValidateFailed">>
      BY <1>2, <2>1, QueueElements DEF TakerBatches
    <2>3. /\ e \in SentEvents =>
               q \in {<<"TakerPaymentSpent">>, <<"TakerPaymentWaitForSpendFailed">>,
                      <<"TakerPaymentWaitForSpendFailed", "TakerPaymentWaitRefundStarted">>,
                      <<"MakerPaymentSpent">>, <<"MakerPaymentSpendFailed">>,
                      <<"MakerPaymentSpendConfirmFailed", "TakerPaymentWaitRefundStarted">>,
                      <<"TakerPaymentRefundStarted">>}
      BY <1>2, <2>1, QueueElements DEF TakerBatches, SentEvents
    <2>4. e \in {"MakerPaymentWaitConfirmFailed", "TakerPaymentTransactionFailed",
                 "TakerPaymentWaitForSpendFailed"} =>
            q \in {<<"MakerPaymentWaitConfirmFailed">>, <<"TakerPaymentTransactionFailed">>,
                   <<"TakerPaymentWaitForSpendFailed">>,
                   <<"TakerPaymentWaitForSpendFailed", "TakerPaymentWaitRefundStarted">>}
      BY <1>2, <2>1, QueueElements DEF TakerBatches
    <2>5. e = "MakerPaymentReceived" =>
            cmd["taker"] = "WaitForMakerPayment" /\ "MakerPayment" \in sent
      BY <1>2, <2>2 DEF TakerStep, Shapes
    <2>6. e \in {"TakerPaymentSent", "WatcherMessageSent"} => cmd["taker"] = "SendTakerPayment"
      BY <1>2, <2>2 DEF TakerStep, Shapes
    <2>7. e \in SentEvents => cmd["taker"] \in SentCommands
      BY <1>2, <2>3 DEF TakerStep, Shapes, SentCommands
    <2>8. e \in {"MakerPaymentWaitConfirmFailed", "TakerPaymentTransactionFailed",
                 "TakerPaymentWaitForSpendFailed"} =>
            \/ Knows("taker", "MakerPaymentReceived")
            \/ cmd["taker"] \in {"SendTakerPayment", "WaitForTakerPaymentSpend"}
      BY <1>2, <2>4 DEF TakerStep, Shapes
    <2>9. e = "MakerPaymentValidateFailed" =>
            \/ Knows("taker", "MakerPaymentReceived")
            \/ cmd'["taker"] = "Finish" /\ todo'["taker"] = <<"MakerPaymentValidateFailed">>
      BY <1>2, <2>2 DEF TakerStep, Shapes
    <2> QED BY <2>1, <2>2, <2>5, <2>6, <2>7, <2>8, <2>9
  <1> QED BY <1>1, <1>2 DEF Reported

\* A new command of the taker.
LEMMA TakerTurns ==
  ASSUME Shapes, TakerStep
  PROVE  /\ cmd'["taker"] = "WaitForTakerPaymentSpend" =>
              \/ cmd["taker"] \in {"WaitForTakerPaymentSpend", "SendTakerPayment"}
              \/ cmd["taker"] = "Down" /\ TakerCommand(last["taker"]) = "WaitForTakerPaymentSpend"
         /\ cmd'["taker"] \in SentCommands =>
              \/ cmd["taker"] \in SentCommands
              \/ "TakerPaymentSent" \in Reported("taker")'
              \/ cmd["taker"] = "Down" /\ TakerCommand(last["taker"]) \in SentCommands
         /\ cmd'["taker"] = "Panicked" =>
              \/ cmd["taker"] = "Panicked" /\ UNCHANGED <<todo, saved>>
              \/ UNCHANGED todo /\ todo["taker"] = <<>> /\ ~Knows("taker", "MakerPaymentReceived")
                 /\ UNCHANGED saved
              \/ /\ cmd["taker"] = "RefundTakerPayment" /\ UNCHANGED <<todo, saved>>
                 /\ todo["taker"] = <<>> /\ ~Knows("taker", "TakerPaymentSent")
              \/ cmd["taker"] = "Down" /\ TakerCommand(last["taker"]) = "Panicked"
         /\ cmd'["taker"] = "Down" =>
              \/ cmd["taker"] = "Down" /\ UNCHANGED todo
              \/ cmd["taker"] = "Down" /\ TakerCommand(last["taker"]) = "Down"
         /\ cmd["taker"] \in {"Finish", "Over", "Down"} =>
              /\ \/ cmd'["taker"] \in {"Finish", "Over", "Down"}
                 \/ cmd["taker"] = "Down" /\ TakerCommand(last["taker"]) \notin {"Finish", "Over"}
              /\ \/ todo' = todo /\ last'["taker"] = last["taker"]
                 \/ Elements(todo'["taker"]) = {"Finished"} /\ last'["taker"] = last["taker"]
                 \/ cmd["taker"] = "Down" /\ TakerCommand(last["taker"]) \notin {"Finish", "Over"}
         /\ "TakerPayment" \in sent' => 
              \/ "TakerPayment" \in sent
              \/ cmd["taker"] = "WaitForTakerPaymentSpend" /\ todo["taker"] = <<>>
  <1>1. cmd'["taker"] = "WaitForTakerPaymentSpend" =>
              \/ cmd["taker"] \in {"WaitForTakerPaymentSpend", "SendTakerPayment"}
              \/ cmd["taker"] = "Down" /\ TakerCommand(last["taker"]) = "WaitForTakerPaymentSpend"
    BY DEF TakerStep, Shapes
  <1>2. cmd'["taker"] \in SentCommands =>
              \/ cmd["taker"] \in SentCommands
              \/ todo'["taker"] \in {<<"TakerPaymentSent", "WatcherMessageSent">>, <<"TakerPaymentSent">>}
              \/ cmd["taker"] = "Down" /\ TakerCommand(last["taker"]) \in SentCommands
    BY DEF TakerStep, Shapes, SentCommands, AsksTheChains
  <1>3. /\ cmd'["taker"] = "Panicked" =>
              \/ cmd["taker"] = "Panicked" /\ UNCHANGED <<todo, saved>>
              \/ UNCHANGED todo /\ todo["taker"] = <<>> /\ ~Knows("taker", "MakerPaymentReceived")
                 /\ UNCHANGED saved
              \/ /\ cmd["taker"] = "RefundTakerPayment" /\ UNCHANGED <<todo, saved>>
                 /\ todo["taker"] = <<>> /\ ~Knows("taker", "TakerPaymentSent")
              \/ cmd["taker"] = "Down" /\ TakerCommand(last["taker"]) = "Panicked"
        /\ cmd'["taker"] = "Down" =>
              \/ cmd["taker"] = "Down" /\ UNCHANGED todo
              \/ cmd["taker"] = "Down" /\ TakerCommand(last["taker"]) = "Down"
    BY DEF TakerStep, Shapes
  <1>4. cmd["taker"] \in {"Finish", "Over", "Down"} =>
              /\ \/ cmd'["taker"] \in {"Finish", "Over", "Down"}
                 \/ cmd["taker"] = "Down" /\ TakerCommand(last["taker"]) \notin {"Finish", "Over"}
              /\ \/ todo' = todo /\ last'["taker"] = last["taker"]
                 \/ todo'["taker"] = <<"Finished">> /\ last'["taker"] = last["taker"]
                 \/ cmd["taker"] = "Down" /\ TakerCommand(last["taker"]) \notin {"Finish", "Over"}
    BY DEF TakerStep, Shapes, AsksTheChains
  <1>5. "TakerPayment" \in sent' => 
              \/ "TakerPayment" \in sent
              \/ cmd["taker"] = "WaitForTakerPaymentSpend" /\ todo["taker"] = <<>>
    BY DEF TakerStep
  <1>6. Elements(<<"Finished">>) = {"Finished"} BY QueueElements
  <1>7. todo'["taker"] \in {<<"TakerPaymentSent", "WatcherMessageSent">>, <<"TakerPaymentSent">>}
          => "TakerPaymentSent" \in Reported("taker")'
    BY QueueElements DEF Reported
  <1> QED BY <1>1, <1>2, <1>3, <1>4, <1>5, <1>6, <1>7

\* Where a restart of the taker goes on, if it does not ask the chains.
LEMMA TakerRestarts ==
  ASSUME NEW e \in TakerEvents \cup {"None"}
  PROVE  /\ TakerCommand(e) \notin {"Panicked", "Down"}
         /\ TakerCommand(e) = "WaitForTakerPaymentSpend"
              => e \in {"TakerPaymentSent", "WatcherMessageSent"}
         /\ TakerCommand(e) \in SentCommands
              => e \in SentEvents \cup {"TakerPaymentSent", "WatcherMessageSent"}
         /\ e \in {"MakerPaymentValidateFailed", "Finished"} => TakerCommand(e) \in {"Finish", "Over"}
  BY DEF TakerEvents, TakerCommand, SentCommands, SentEvents

-----------------------------------------------------------------------------
(* Every step of the swap keeps the records.                               *)

\* What a step of the swap never takes back.
LEMMA Kept ==
  ASSUME TypeOK, ChainTrue, Next
  PROVE  /\ \A s \in Sides : saved[s] \subseteq saved'[s]
         /\ lost' = lost /\ sent \subseteq sent'
         /\ tx["makerPayment"] = "confirmed" => tx'["makerPayment"] = "confirmed"
         /\ Live("takerPaymentSpend") => Live("takerPaymentSpend")'
  <1>1. Shapes BY ShapesHold
  <1>2. /\ tx["makerPayment"] = "confirmed" => tx'["makerPayment"] = "confirmed"
        /\ Live("takerPaymentSpend") => Live("takerPaymentSpend")'
    BY <1>1, ChainMoves, ChainStable DEF Shapes
  <1>3. \A s \in Sides : saved[s] \subseteq saved'[s] BY <1>1, SavedGrows DEF Shapes
  <1>4. lost' = lost /\ sent \subseteq sent'
    <2>1. CASE MakerStep BY <1>1, <2>1, MakerFrame
    <2>2. CASE TakerStep BY <1>1, <2>2, TakerFrame
    <2>3. CASE WatcherNext \/ EnvironmentStep BY <2>3, WorldFrame
    <2>4. CASE ProcessStep BY <2>4 DEF ProcessStep
    <2> QED BY <2>1, <2>2, <2>3, <2>4, NextSplit
  <1> QED BY <1>2, <1>3, <1>4

\* Who gave up waiting for a payment never gets it.
LEMMA UninformedStays ==
  ASSUME TypeOK, ChainTrue, MakerWaits, TakerWaits, Next
  PROVE  /\ MakerUninformed => MakerUninformed'
         /\ TakerUninformed => TakerUninformed'
  <1>1. Shapes BY ShapesHold
  <1>2. ASSUME MakerUninformed PROVE MakerUninformed'
    <2>1. /\ lost = "maker" /\ Knows("taker", "MakerPaymentValidateFailed")
          /\ "MakerPaymentReceived" \notin Reported("taker")
          /\ cmd["taker"] \in {"Finish", "Over", "Down"}
      BY <1>2 DEF MakerUninformed, TakerWaits, Reported
    <2>2. "MakerPaymentReceived" \notin Reported("taker")'
      <3>1. CASE MakerStep BY <1>1, <2>1, <3>1, MakerFrame
      <3>2. CASE TakerStep BY <1>1, <2>1, <3>2, TakerNews
      <3>3. CASE WatcherNext \/ EnvironmentStep BY <2>1, <3>3, WorldFrame
      <3>4. CASE ProcessStep BY <2>1, <3>4, ProcessReports
      <3> QED BY <3>1, <3>2, <3>3, <3>4, NextSplit
    <2> QED BY <2>1, <2>2, Kept DEF MakerUninformed, Reported
  <1>3. ASSUME TakerUninformed PROVE TakerUninformed'
    <2>1. /\ lost = "taker" /\ Knows("maker", "TakerPaymentValidateFailed")
          /\ "TakerPaymentReceived" \notin Reported("maker")
          /\ cmd["maker"] \in RefundCommands
      BY <1>3 DEF TakerUninformed, MakerWaits, Reported, RefundEvents
    <2>2. "TakerPaymentReceived" \notin Reported("maker")'
      <3>1. CASE MakerStep BY <1>1, <2>1, <3>1, MakerNews DEF RefundCommands
      <3>2. CASE TakerStep BY <1>1, <2>1, <3>2, TakerFrame
      <3>3. CASE WatcherNext \/ EnvironmentStep BY <2>1, <3>3, WorldFrame
      <3>4. CASE ProcessStep BY <2>1, <3>4, ProcessReports
      <3> QED BY <3>1, <3>2, <3>3, <3>4, NextSplit
    <2> QED BY <2>1, <2>2, Kept DEF TakerUninformed, Reported
  <1> QED BY <1>2, <1>3

\* A process stops with nothing left to save.
LEMMA StoppedStep == ASSUME TypeOK, StoppedSaved, Next PROVE StoppedSaved'
  <1>1. Shapes BY ShapesHold
  <1>2. /\ MakerCommand(last["maker"]) \notin {"Panicked", "Down"}
        /\ TakerCommand(last["taker"]) \notin {"Panicked", "Down"}
    BY MakerRestarts, TakerRestarts DEF TypeOK, Events
  <1>3. CASE MakerStep
    BY <1>1, <1>2, <1>3, MakerFrame, MakerTurns DEF StoppedSaved
  <1>4. CASE TakerStep
    BY <1>1, <1>2, <1>4, TakerFrame, TakerTurns DEF StoppedSaved
  <1>5. CASE WatcherNext \/ EnvironmentStep BY <1>5, WorldFrame DEF StoppedSaved
  <1>6. ASSUME NEW p \in Sides, SaveEvent(p) PROVE StoppedSaved'
    BY <1>6, SaveFrame DEF StoppedSaved
  <1>7. ASSUME NEW p \in Sides, Crash(p) PROVE StoppedSaved'
    BY <1>1, <1>7, CrashFrame DEF StoppedSaved
  <1> QED BY <1>3, <1>4, <1>5, <1>6, <1>7, NextSplit DEF ProcessStep

\* A message goes out after its event is saved, an event is reported after its
\* message came.
LEMMA MessagesStep ==
  ASSUME TypeOK, ChainTrue, MessagesTrue, MakerRecord, TakerRecord, Next
  PROVE  MessagesTrue'
  <1>1. Shapes BY ShapesHold
  <1>2. lost # "maker" /\ "MakerPayment" \in sent' => Knows("maker", "MakerPaymentSent")
    <2>1. CASE MakerStep
      <3>1. /\ lost # "maker" /\ cmd["maker"] = "WaitForTakerPayment" /\ todo["maker"] = <<>>
            => Knows("maker", "MakerPaymentSent")
        BY QueueElements DEF MakerRecord, MakerUninformed, PaidCommands, Reported
      <3> QED BY <1>1, <2>1, <3>1, MakerTurns DEF MessagesTrue
    <2>2. CASE TakerStep BY <1>1, <2>2, TakerFrame DEF MessagesTrue
    <2>3. CASE WatcherNext \/ EnvironmentStep BY <2>3, WorldFrame DEF MessagesTrue
    <2>4. CASE ProcessStep BY <2>4 DEF ProcessStep, MessagesTrue
    <2> QED BY <2>1, <2>2, <2>3, <2>4, NextSplit
  <1>3. lost # "taker" /\ "MakerPaymentReceived" \in Reported("taker")' => "MakerPayment" \in sent
    <2>1. CASE MakerStep BY <1>1, <2>1, MakerFrame DEF MessagesTrue
    <2>2. CASE TakerStep BY <1>1, <2>2, TakerNews DEF MessagesTrue
    <2>3. CASE WatcherNext \/ EnvironmentStep BY <2>3, WorldFrame DEF MessagesTrue
    <2>4. CASE ProcessStep BY <2>4, ProcessReports DEF MessagesTrue
    <2> QED BY <2>1, <2>2, <2>3, <2>4, NextSplit
  <1>4. "TakerPayment" \in sent'
          => tx["makerPayment"] = "confirmed" /\ Knows("taker", "MakerPaymentReceived")
    <2>1. CASE MakerStep BY <1>1, <2>1, MakerFrame DEF MessagesTrue
    <2>2. CASE TakerStep BY <1>1, <2>2, TakerTurns DEF MessagesTrue, TakerRecord
    <2>3. CASE WatcherNext \/ EnvironmentStep BY <2>3, WorldFrame DEF MessagesTrue
    <2>4. CASE ProcessStep BY <2>4 DEF ProcessStep, MessagesTrue
    <2> QED BY <2>1, <2>2, <2>3, <2>4, NextSplit
  <1>5. lost # "maker" /\ "TakerPaymentReceived" \in Reported("maker")' => "TakerPayment" \in sent
    <2>1. CASE MakerStep BY <1>1, <2>1, MakerNews DEF MessagesTrue
    <2>2. CASE TakerStep BY <1>1, <2>2, TakerFrame DEF MessagesTrue
    <2>3. CASE WatcherNext \/ EnvironmentStep BY <2>3, WorldFrame DEF MessagesTrue
    <2>4. CASE ProcessStep BY <2>4, ProcessReports DEF MessagesTrue
    <2> QED BY <2>1, <2>2, <2>3, <2>4, NextSplit
  <1> QED BY <1>2, <1>3, <1>4, <1>5, Kept DEF MessagesTrue

\* The maker's own payment stays in its record, or out of its reach.
LEMMA MakerRecordStep ==
  ASSUME TypeOK, EventsTrue, ChainTrue, StoppedSaved, MakerRecord, MakerWaits, TakerWaits, Next
  PROVE  MakerRecord'
  <1>1. Shapes BY ShapesHold
  <1>2. /\ MakerCommand(last["maker"]) # "Panicked"
        /\ MakerCommand(last["maker"]) \in PaidCommands
             => last["maker"] \in PaidEvents \cup {"MakerPaymentSent"}
        /\ last["maker"] \in PaidEvents \cup {"MakerPaymentSent"} => last["maker"] \in saved["maker"]
    <2>1. last["maker"] \in saved["maker"] \cup {"None"} BY DEF EventsTrue
    <2> QED BY <2>1, MakerRestarts DEF TypeOK, Events, PaidEvents
  <1>3. /\ MakerUninformed => MakerUninformed'
        /\ Knows("maker", "MakerPaymentSent") => Knows("maker", "MakerPaymentSent")'
        /\ Live("takerPaymentSpend") => Live("takerPaymentSpend")'
    BY UninformedStays, Kept
  <1>4. CASE MakerStep
    <2>1. todo["maker"] = <<>> => Reported("maker") = saved["maker"]
      BY QueueElements DEF Reported
    <2>2. cmd["maker"] \in PaidCommands /\ todo["maker"] = <<>>
            => Knows("maker", "MakerPaymentSent") \/ MakerUninformed
      BY <2>1 DEF MakerRecord
    <2>3. cmd'["maker"] \in PaidCommands
            => "MakerPaymentSent" \in Reported("maker")' \/ MakerUninformed
      BY <1>1, <1>2, <1>4, MakerTurns, MakerFrame DEF MakerRecord, Reported
    <2>4. Reported("maker")' \cap PaidEvents # {}
            => Knows("maker", "MakerPaymentSent") \/ MakerUninformed
      BY <1>1, <1>4, <2>2, MakerNews DEF MakerRecord
    <2>5. cmd'["maker"] = "Panicked" => MakerUninformed
      <3>1. "RefundMakerPayment" \in PaidCommands BY DEF PaidCommands
      <3> QED BY <1>1, <1>2, <1>4, <2>2, <3>1, MakerTurns DEF MakerRecord
    <2>6. "TakerPaymentSpent" \in Reported("maker")' => Live("takerPaymentSpend")'
      <3>1. SubmitSpend("takerPaymentSpend") => Live("takerPaymentSpend")' BY <1>1 DEF Shapes
      <3> QED BY <1>1, <1>3, <1>4, <3>1, MakerNews DEF MakerRecord
    <2> QED BY <1>3, <2>3, <2>4, <2>5, <2>6 DEF MakerRecord
  <1>5. CASE TakerStep BY <1>1, <1>3, <1>5, TakerFrame DEF MakerRecord
  <1>6. CASE WatcherNext \/ EnvironmentStep BY <1>3, <1>6, WorldFrame DEF MakerRecord
  <1>7. ASSUME NEW p \in Sides, SaveEvent(p) PROVE MakerRecord'
    BY <1>3, <1>7, SaveFrame DEF MakerRecord
  <1>8. ASSUME NEW p \in Sides, Crash(p) PROVE MakerRecord'
    <2>1. CASE p = "maker"
      BY <1>1, <1>3, <1>8, <2>1, CrashFrame DEF MakerRecord, PaidCommands, Reported
    <2>2. CASE p = "taker"
      BY <1>1, <1>3, <1>8, <2>2, CrashFrame DEF MakerRecord
    <2> QED BY <2>1, <2>2
  <1> QED BY <1>4, <1>5, <1>6, <1>7, <1>8, NextSplit DEF ProcessStep

\* The maker's waiting for the taker's payment ends with it, or without it for good.
LEMMA MakerWaitsStep ==
  ASSUME TypeOK, EventsTrue, ChainTrue, StoppedSaved, MakerWaits, Next
  PROVE  MakerWaits'
  <1>0. lost' = lost BY Kept
  <1> SUFFICES ASSUME lost # "maker" PROVE MakerWaits' BY <1>0 DEF MakerWaits
  <1>1. Shapes BY ShapesHold
  <1> DEFINE R == Reported("maker")
  <1> DEFINE Batch == <<"TakerPaymentReceived", "TakerPaymentWaitConfirmStarted">>
  <1>2. /\ cmd["maker"] \in ReceivedCommands => "TakerPaymentReceived" \in R
        /\ R \cap ReceivedEvents # {} => Knows("maker", "TakerPaymentReceived")
        /\ "TakerPaymentWaitConfirmStarted" \in R =>
             \/ Knows("maker", "TakerPaymentReceived")
             \/ todo["maker"] = Batch /\ "TakerPaymentWaitConfirmStarted" \notin saved["maker"]
        /\ "TakerPaymentValidateFailed" \in R /\ ~Knows("maker", "TakerPaymentReceived")
             => /\ cmd["maker"] \in RefundCommands /\ Elements(todo["maker"]) \subseteq RefundEvents
                /\ Knows("maker", "TakerPaymentValidateFailed") => last["maker"] \in RefundEvents
    BY DEF MakerWaits
  <1>3. \/ last["maker"] \in saved["maker"]
        \/ MakerCommand(last["maker"]) \notin ReceivedCommands
    BY DEF EventsTrue, MakerCommand, ReceivedCommands
  <1>4. todo["maker"] = <<>> => R = saved["maker"] BY QueueElements DEF Reported
  <1>5. saved["maker"] \subseteq R BY DEF Reported
  <1>6. Elements(Batch) = {"TakerPaymentReceived", "TakerPaymentWaitConfirmStarted"}
    BY QueueElements
  <1>7. CASE MakerStep
    <2>0. saved' = saved /\ last' = last /\ R \subseteq R' BY <1>1, <1>7, MakerFrame
    <2>1. cmd'["maker"] \in ReceivedCommands => "TakerPaymentReceived" \in R'
      <3>1. cmd["maker"] = "Down" /\ MakerCommand(last["maker"]) \in ReceivedCommands
              => "TakerPaymentReceived" \in R
        <4> SUFFICES ASSUME cmd["maker"] = "Down", MakerCommand(last["maker"]) \in ReceivedCommands
                     PROVE  "TakerPaymentReceived" \in R
          OBVIOUS
        <4>1. last["maker"]
                \in ReceivedEvents \cup {"TakerPaymentReceived", "TakerPaymentWaitConfirmStarted"}
          BY MakerRestarts DEF TypeOK, Events
        <4> QED BY <1>2, <1>3, <1>5, <4>1
      <3> QED BY <1>1, <1>2, <1>7, <2>0, <3>1, MakerTurns
    <2>2. R' \cap ReceivedEvents # {} => Knows("maker", "TakerPaymentReceived")
      BY <1>1, <1>2, <1>4, <1>7, MakerNews
    <2>3. "TakerPaymentWaitConfirmStarted" \in R' =>
            \/ Knows("maker", "TakerPaymentReceived")
            \/ todo'["maker"] = Batch /\ "TakerPaymentWaitConfirmStarted" \notin saved["maker"]
      <3>1. Batch # <<>> OBVIOUS
      <3> QED BY <1>1, <1>2, <1>5, <1>7, <3>1, MakerNews, MakerFrame
    <2>4. ASSUME "TakerPaymentValidateFailed" \in R', ~Knows("maker", "TakerPaymentReceived")
          PROVE  /\ cmd'["maker"] \in RefundCommands /\ Elements(todo'["maker"]) \subseteq RefundEvents
                 /\ Knows("maker", "TakerPaymentValidateFailed") => last["maker"] \in RefundEvents
      <3>1. CASE "TakerPaymentValidateFailed" \in R
        <4>1. /\ cmd["maker"] \in RefundCommands /\ Elements(todo["maker"]) \subseteq RefundEvents
              /\ Knows("maker", "TakerPaymentValidateFailed") => last["maker"] \in RefundEvents
          BY <1>2, <2>0, <2>4, <3>1
        <4>2. cmd["maker"] = "Down" => MakerCommand(last["maker"]) \in RefundCommands
          BY <1>4, <3>1, <4>1, MakerRestarts DEF StoppedSaved, TypeOK, Events
        <4> QED BY <1>1, <1>7, <4>1, <4>2, MakerTurns
      <3>2. CASE "TakerPaymentValidateFailed" \notin R
        <4>1. /\ cmd'["maker"] = "PrepareForMakerPaymentRefund"
              /\ todo'["maker"] = <<"TakerPaymentValidateFailed", "MakerPaymentWaitRefundStarted">>
          BY <1>1, <1>7, <2>4, <3>2, MakerNews
        <4>2. Elements(todo'["maker"]) = {"TakerPaymentValidateFailed", "MakerPaymentWaitRefundStarted"}
          BY <4>1, QueueElements
        <4> QED BY <1>5, <3>2, <4>1, <4>2 DEF RefundCommands, RefundEvents
      <3> QED BY <3>1, <3>2
    <2> QED BY <2>0, <2>1, <2>2, <2>3, <2>4 DEF MakerWaits
  <1>8. CASE TakerStep
    <2>1. /\ saved'["maker"] = saved["maker"] /\ last'["maker"] = last["maker"] /\ R' = R
          /\ cmd'["maker"] = cmd["maker"] /\ todo'["maker"] = todo["maker"]
      BY <1>1, <1>8, TakerFrame
    <2> QED BY <1>2, <2>1 DEF MakerWaits
  <1>9. CASE WatcherNext \/ EnvironmentStep BY <1>2, <1>9, WorldFrame DEF MakerWaits
  <1>10. ASSUME NEW p \in Sides, SaveEvent(p) PROVE MakerWaits'
    <2>1. CASE p = "maker"
      <3>1. /\ R' = R /\ saved["maker"] \subseteq saved'["maker"] /\ cmd' = cmd
            /\ todo'["maker"] = Tail(todo["maker"]) /\ last'["maker"] = Head(todo["maker"])
            /\ saved'["maker"] = saved["maker"] \cup {Head(todo["maker"])}
            /\ Elements(todo["maker"]) = {Head(todo["maker"])} \cup Elements(todo'["maker"])
        BY <1>10, <2>1, SaveFrame
      <3>2. todo["maker"] = Batch => "TakerPaymentReceived" \in saved'["maker"]
        BY <3>1
      <3> QED BY <1>2, <3>1, <3>2 DEF MakerWaits
    <2>2. CASE p = "taker"
      <3>1. /\ R' = R /\ cmd' = cmd /\ saved'["maker"] = saved["maker"]
            /\ todo'["maker"] = todo["maker"] /\ last'["maker"] = last["maker"]
        BY <1>10, <2>2, SaveFrame
      <3> QED BY <1>2, <3>1 DEF MakerWaits
    <2> QED BY <2>1, <2>2
  <1>11. ASSUME NEW p \in Sides, Crash(p) PROVE MakerWaits'
    <2>1. CASE p = "maker"
      <3>1. /\ saved' = saved /\ last' = last /\ R' = saved["maker"]
            /\ cmd'["maker"] = "Down" /\ todo'["maker"] = <<>>
        BY <1>1, <1>11, <2>1, CrashFrame
      <3>2. "Down" \in RefundCommands /\ "Down" \notin ReceivedCommands /\ Elements(<<>>) = {}
        BY QueueElements DEF RefundCommands, ReceivedCommands
      <3>3. /\ saved["maker"] \cap ReceivedEvents # {} => Knows("maker", "TakerPaymentReceived")
            /\ "TakerPaymentWaitConfirmStarted" \in saved["maker"]
                 => Knows("maker", "TakerPaymentReceived")
        BY <1>2, <1>5
      <3>4. /\ "TakerPaymentValidateFailed" \in saved["maker"]
            /\ "TakerPaymentReceived" \notin saved["maker"]
            => last["maker"] \in RefundEvents
        BY <1>2, <1>5
      <3> QED BY <3>1, <3>2, <3>3, <3>4 DEF MakerWaits
    <2>2. CASE p = "taker"
      <3>1. /\ R' = R /\ saved' = saved /\ last' = last
            /\ cmd'["maker"] = cmd["maker"] /\ todo'["maker"] = todo["maker"]
        BY <1>1, <1>11, <2>2, CrashFrame
      <3> QED BY <1>2, <3>1 DEF MakerWaits
    <2> QED BY <2>1, <2>2
  <1> QED BY <1>7, <1>8, <1>9, <1>10, <1>11, NextSplit DEF ProcessStep

\* The payments of both sides stay in the taker's record, or out of its reach.
LEMMA TakerRecordStep ==
  ASSUME TypeOK, EventsTrue, CommandsTrue, ChainTrue, StoppedSaved, TakerRecord, MakerWaits,
         TakerWaits, Next
  PROVE  TakerRecord'
  <1>1. Shapes BY ShapesHold
  <1> DEFINE R == Reported("taker")
  <1> DEFINE Batch == <<"TakerPaymentSent", "WatcherMessageSent">>
  <1> DEFINE Covered == tx["makerPayment"] = "confirmed" /\ Knows("taker", "MakerPaymentReceived")
  <1>2. /\ cmd["taker"] = "WaitForTakerPaymentSpend" => Covered
        /\ R \cap {"TakerPaymentSent", "WatcherMessageSent"} # {} => Covered
        /\ cmd["taker"] \in SentCommands => "TakerPaymentSent" \in R \/ TakerUninformed
        /\ R \cap SentEvents # {} => Knows("taker", "TakerPaymentSent") \/ TakerUninformed
        /\ "WatcherMessageSent" \in R =>
             \/ Knows("taker", "TakerPaymentSent")
             \/ todo["taker"] = Batch /\ "WatcherMessageSent" \notin saved["taker"]
        /\ cmd["taker"] = "Panicked" => ~Knows("taker", "MakerPaymentReceived") \/ TakerUninformed
    BY DEF TakerRecord
  <1>3. /\ TakerUninformed => TakerUninformed'
        /\ Covered => Covered'
        /\ Knows("taker", "TakerPaymentSent") => Knows("taker", "TakerPaymentSent")'
    BY UninformedStays, Kept
  <1>4. cmd["taker"] = "SendTakerPayment" => Covered BY DEF CommandsTrue
  <1>5. saved["taker"] \subseteq R /\ (todo["taker"] = <<>> => R = saved["taker"])
    BY QueueElements DEF Reported
  <1>6. CASE TakerStep
    <2>1. /\ TakerCommand(last["taker"]) # "Panicked"
          /\ TakerCommand(last["taker"]) = "WaitForTakerPaymentSpend" => Covered
          /\ TakerCommand(last["taker"]) \in SentCommands
               => Knows("taker", "TakerPaymentSent") \/ TakerUninformed
      <3>1. last["taker"] \in TakerEvents \cup {"None"} /\ last["taker"] \in saved["taker"] \cup {"None"}
        BY DEF TypeOK, Events, EventsTrue
      <3>2. "None" \notin SentEvents BY DEF SentEvents
      <3>3. /\ TakerCommand(last["taker"]) # "Panicked"
            /\ TakerCommand(last["taker"]) = "WaitForTakerPaymentSpend"
                 => last["taker"] \in {"TakerPaymentSent", "WatcherMessageSent"}
            /\ TakerCommand(last["taker"]) \in SentCommands
                 => last["taker"] \in SentEvents \cup {"TakerPaymentSent", "WatcherMessageSent"}
        BY <3>1, TakerRestarts
      <3> QED BY <1>2, <1>5, <3>1, <3>2, <3>3
    <2>2. cmd'["taker"] = "WaitForTakerPaymentSpend" => Covered
      BY <1>1, <1>2, <1>4, <1>6, <2>1, TakerTurns
    <2>3. R' \cap {"TakerPaymentSent", "WatcherMessageSent"} # {} => Covered
      BY <1>1, <1>2, <1>4, <1>6, TakerNews
    <2>4. cmd'["taker"] \in SentCommands => "TakerPaymentSent" \in R' \/ TakerUninformed
      BY <1>1, <1>2, <1>5, <1>6, <2>1, TakerTurns, TakerFrame
    <2>5. R' \cap SentEvents # {} => Knows("taker", "TakerPaymentSent") \/ TakerUninformed
      <3>1. "Down" \notin SentCommands BY DEF SentCommands
      <3> QED BY <1>1, <1>2, <1>5, <1>6, <2>1, <3>1, TakerNews
    <2>6. "WatcherMessageSent" \in R' =>
             \/ Knows("taker", "TakerPaymentSent")
             \/ todo'["taker"] = Batch /\ "WatcherMessageSent" \notin saved'["taker"]
      <3>1. CASE "WatcherMessageSent" \notin R
        <4>1. "WatcherMessageSent" \in R' => cmd["taker"] = "SendTakerPayment"
          BY <1>1, <1>6, <3>1, TakerNews
        <4>2. cmd["taker"] = "SendTakerPayment" => saved' = saved
          BY <1>1, <1>6 DEF TakerStep, Shapes
        <4> QED BY <1>1, <1>5, <1>6, <3>1, <4>1, <4>2, TakerNews
      <3>2. CASE "WatcherMessageSent" \in R
        <4>1. Batch # <<>> OBVIOUS
        <4>2. /\ todo["taker"] = Batch /\ todo'["taker"] = todo["taker"]
              /\ "WatcherMessageSent" \in saved'["taker"]
              => "WatcherMessageSent" \in saved["taker"]
          BY <1>1, <1>6 DEF TakerStep, Shapes
        <4> QED BY <1>1, <1>2, <1>6, <3>2, <4>1, <4>2, TakerFrame
      <3> QED BY <3>1, <3>2
    <2>7. cmd'["taker"] = "Panicked" => ~Knows("taker", "MakerPaymentReceived")' \/ TakerUninformed
      <3>1. "RefundTakerPayment" \in SentCommands BY DEF SentCommands
      <3> QED BY <1>1, <1>2, <1>5, <1>6, <2>1, <3>1, TakerTurns
    <2> QED BY <1>3, <2>2, <2>3, <2>4, <2>5, <2>6, <2>7 DEF TakerRecord
  <1>7. CASE MakerStep
    <2>1. /\ saved' = saved /\ cmd'["taker"] = cmd["taker"] /\ todo'["taker"] = todo["taker"] /\ R' = R
      BY <1>1, <1>7, MakerFrame
    <2> QED BY <1>2, <1>3, <2>1 DEF TakerRecord
  <1>8. CASE WatcherNext \/ EnvironmentStep
    <2>1. saved' = saved /\ cmd' = cmd /\ todo' = todo /\ R' = R BY <1>8, WorldFrame
    <2> QED BY <1>2, <1>3, <2>1 DEF TakerRecord
  <1>9. ASSUME NEW p \in Sides, SaveEvent(p) PROVE TakerRecord'
    <2>1. CASE p = "taker"
      <3>1. /\ R' = R /\ saved["taker"] \subseteq saved'["taker"] /\ cmd' = cmd
            /\ todo["taker"] # <<>>
            /\ saved'["taker"] = saved["taker"] \cup {Head(todo["taker"])}
        BY <1>9, <2>1, SaveFrame
      <3>2. todo["taker"] = Batch => "TakerPaymentSent" \in saved'["taker"]
        BY <3>1
      <3>3. cmd["taker"] # "Panicked" BY <3>1 DEF StoppedSaved
      <3> QED BY <1>2, <1>3, <3>1, <3>2, <3>3 DEF TakerRecord
    <2>2. CASE p = "maker"
      <3>1. R' = R /\ cmd' = cmd /\ saved'["taker"] = saved["taker"] /\ todo'["taker"] = todo["taker"]
        BY <1>9, <2>2, SaveFrame
      <3> QED BY <1>2, <1>3, <3>1 DEF TakerRecord
    <2> QED BY <2>1, <2>2
  <1>10. ASSUME NEW p \in Sides, Crash(p) PROVE TakerRecord'
    <2>1. CASE p = "taker"
      <3>1. saved' = saved /\ R' = saved["taker"] /\ cmd'["taker"] = "Down"
        BY <1>1, <1>10, <2>1, CrashFrame
      <3>2. "Down" \notin SentCommands BY DEF SentCommands
      <3>3. "WatcherMessageSent" \in saved["taker"] => Knows("taker", "TakerPaymentSent")
        BY <1>2, <1>5
      <3>4. /\ saved["taker"] \cap {"TakerPaymentSent", "WatcherMessageSent"} # {} => Covered
            /\ saved["taker"] \cap SentEvents # {}
                 => Knows("taker", "TakerPaymentSent") \/ TakerUninformed
        BY <1>2, <1>5
      <3> QED BY <1>3, <3>1, <3>2, <3>3, <3>4 DEF TakerRecord
    <2>2. CASE p = "maker"
      <3>1. /\ R' = R /\ saved' = saved
            /\ cmd'["taker"] = cmd["taker"] /\ todo'["taker"] = todo["taker"]
        BY <1>1, <1>10, <2>2, CrashFrame
      <3> QED BY <1>2, <1>3, <3>1 DEF TakerRecord
    <2> QED BY <2>1, <2>2
  <1> QED BY <1>6, <1>7, <1>8, <1>9, <1>10, NextSplit DEF ProcessStep

\* The taker's waiting for the maker's payment ends with it, or without it for good.
LEMMA TakerWaitsStep ==
  ASSUME TypeOK, EventsTrue, CommandsTrue, ChainTrue, StoppedSaved, TakerRecord, TakerWaits, Next
  PROVE  TakerWaits'
  <1>0. lost' = lost BY Kept
  <1> SUFFICES ASSUME lost # "taker" PROVE TakerWaits' BY <1>0 DEF TakerWaits
  <1>1. Shapes BY ShapesHold
  <1> DEFINE R == Reported("taker")
  <1> DEFINE Ends == {"MakerPaymentValidateFailed", "Finished"}
  <1> DEFINE Late == {"MakerPaymentWaitConfirmFailed", "TakerPaymentTransactionFailed",
                      "TakerPaymentWaitForSpendFailed"}
  <1>2. /\ R \cap Late # {} => Knows("taker", "MakerPaymentReceived")
        /\ "MakerPaymentValidateFailed" \in R /\ ~Knows("taker", "MakerPaymentReceived")
             => /\ cmd["taker"] \in {"Finish", "Over", "Down"} /\ Elements(todo["taker"]) \subseteq Ends
                /\ Knows("taker", "MakerPaymentValidateFailed") => last["taker"] \in Ends
    BY DEF TakerWaits
  <1>3. saved["taker"] \subseteq R /\ (todo["taker"] = <<>> => R = saved["taker"])
    BY QueueElements DEF Reported
  <1>4. Knows("taker", "MakerPaymentReceived") => Knows("taker", "MakerPaymentReceived")'
    BY Kept
  <1>5. CASE TakerStep
    <2>1. R' \cap Late # {} => Knows("taker", "MakerPaymentReceived")
      BY <1>1, <1>2, <1>5, TakerNews DEF CommandsTrue, TakerRecord
    <2>2. ASSUME "MakerPaymentValidateFailed" \in R', ~Knows("taker", "MakerPaymentReceived")
          PROVE  /\ cmd'["taker"] \in {"Finish", "Over", "Down"}
                 /\ Elements(todo'["taker"]) \subseteq Ends
                 /\ Knows("taker", "MakerPaymentValidateFailed")' => last'["taker"] \in Ends
      <3>1. CASE "MakerPaymentValidateFailed" \in R
        <4>1. /\ cmd["taker"] \in {"Finish", "Over", "Down"} /\ Elements(todo["taker"]) \subseteq Ends
              /\ Knows("taker", "MakerPaymentValidateFailed") => last["taker"] \in Ends
          BY <1>2, <2>2, <3>1
        <4>2. cmd["taker"] = "Down" => TakerCommand(last["taker"]) \in {"Finish", "Over"}
          BY <1>3, <3>1, <4>1, TakerRestarts DEF StoppedSaved, TypeOK, Events
        <4>3. Knows("taker", "MakerPaymentValidateFailed")' => Knows("taker", "MakerPaymentValidateFailed")
          BY <1>1, <1>5 DEF TakerStep, Shapes
        <4> QED BY <1>1, <1>5, <4>1, <4>2, <4>3, TakerTurns
      <3>2. CASE "MakerPaymentValidateFailed" \notin R
        <4>1. cmd'["taker"] = "Finish" /\ todo'["taker"] = <<"MakerPaymentValidateFailed">>
          BY <1>1, <1>5, <2>2, <3>2, TakerNews
        <4>2. Elements(<<"MakerPaymentValidateFailed">>) = {"MakerPaymentValidateFailed"}
          BY QueueElements
        <4>3. ~Knows("taker", "MakerPaymentValidateFailed")'
          BY <1>1, <1>3, <1>5, <3>2 DEF TakerStep, Shapes
        <4> QED BY <4>1, <4>2, <4>3
      <3> QED BY <3>1, <3>2
    <2> QED BY <1>4, <2>1, <2>2 DEF TakerWaits
  <1>6. CASE MakerStep
    <2>1. /\ saved' = saved /\ last' = last /\ R' = R
          /\ cmd'["taker"] = cmd["taker"] /\ todo'["taker"] = todo["taker"]
      BY <1>1, <1>6, MakerFrame
    <2> QED BY <1>2, <2>1 DEF TakerWaits
  <1>7. CASE WatcherNext \/ EnvironmentStep BY <1>2, <1>7, WorldFrame DEF TakerWaits
  <1>8. ASSUME NEW p \in Sides, SaveEvent(p) PROVE TakerWaits'
    <2>1. CASE p = "taker"
      <3>1. /\ R' = R /\ cmd' = cmd /\ last'["taker"] = Head(todo["taker"])
            /\ Elements(todo["taker"]) = {Head(todo["taker"])} \cup Elements(todo'["taker"])
        BY <1>8, <2>1, SaveFrame
      <3> QED BY <1>2, <1>4, <3>1 DEF TakerWaits
    <2>2. CASE p = "maker"
      <3>1. /\ R' = R /\ cmd' = cmd /\ saved'["taker"] = saved["taker"]
            /\ todo'["taker"] = todo["taker"] /\ last'["taker"] = last["taker"]
        BY <1>8, <2>2, SaveFrame
      <3> QED BY <1>2, <3>1 DEF TakerWaits
    <2> QED BY <2>1, <2>2
  <1>9. ASSUME NEW p \in Sides, Crash(p) PROVE TakerWaits'
    <2>1. CASE p = "taker"
      <3>1. /\ saved' = saved /\ last' = last /\ R' = saved["taker"]
            /\ cmd'["taker"] = "Down" /\ todo'["taker"] = <<>>
        BY <1>1, <1>9, <2>1, CrashFrame
      <3>2. Elements(<<>>) = {} BY QueueElements
      <3> QED BY <1>2, <1>3, <3>1, <3>2 DEF TakerWaits
    <2>2. CASE p = "maker"
      <3>1. /\ R' = R /\ saved' = saved /\ last' = last
            /\ cmd'["taker"] = cmd["taker"] /\ todo'["taker"] = todo["taker"]
        BY <1>1, <1>9, <2>2, CrashFrame
      <3> QED BY <1>2, <3>1 DEF TakerWaits
    <2> QED BY <2>1, <2>2
  <1> QED BY <1>5, <1>6, <1>7, <1>8, <1>9, NextSplit DEF ProcessStep

-----------------------------------------------------------------------------
(* A record made from the other side's.                                    *)

\* What convert_taker_to_maker_events makes, and what of.
LEMMA MakerConverted ==
  ASSUME NEW S, NEW E, E = {"Started", "Negotiated"} \cup UNION {MakerEventsFor(e) : e \in S}
  PROVE  /\ E \subseteq MakerEvents /\ "MakerPaymentRefunded" \notin E
         /\ E \cap {"TakerPaymentValidatedAndConfirmed", "TakerPaymentSpent",
                    "TakerPaymentSpendConfirmed"} # {} => "TakerPaymentSpent" \in S
         /\ E \cap PaidEvents # {} =>
              S \cap {"TakerPaymentSent", "MakerPaymentValidateFailed",
                      "MakerPaymentWaitConfirmFailed", "TakerPaymentTransactionFailed",
                      "TakerPaymentSpent", "TakerPaymentWaitForSpendFailed"} # {}
         /\ "MakerPaymentReceived" \in S => "MakerPaymentSent" \in E
  <1>1. \A e \in S :
          /\ MakerEventsFor(e) \subseteq MakerEvents /\ "MakerPaymentRefunded" \notin MakerEventsFor(e)
          /\ MakerEventsFor(e) \cap {"TakerPaymentValidatedAndConfirmed", "TakerPaymentSpent",
                                     "TakerPaymentSpendConfirmed"} # {} => e = "TakerPaymentSpent"
          /\ MakerEventsFor(e) \cap PaidEvents # {} =>
               e \in {"TakerPaymentSent", "MakerPaymentValidateFailed",
                      "MakerPaymentWaitConfirmFailed", "TakerPaymentTransactionFailed",
                      "TakerPaymentSpent", "TakerPaymentWaitForSpendFailed"}
          /\ e = "MakerPaymentReceived" => "MakerPaymentSent" \in MakerEventsFor(e)
    BY DEF MakerEventsFor, MakerEvents, PaidEvents
  <1>2. {"Started", "Negotiated"} \subseteq MakerEvents
        /\ {"Started", "Negotiated"} \cap PaidEvents = {}
    BY DEF MakerEvents, PaidEvents
  <1> QED BY <1>1, <1>2

\* The taker's record from the events S of the maker's.
TakerMade(S, hasSecret) ==
  {"Started", "Negotiated"} \cup UNION {TakerEventsFor(e, hasSecret) : e \in S}

\* What convert_maker_to_taker_events makes, and what of.
LEMMA TakerConverted ==
  ASSUME NEW S, NEW h, NEW E, E = TakerMade(S, h)
  PROVE  /\ E \subseteq TakerEvents
         /\ E \cap {"TakerPaymentRefunded", "TakerPaymentRefundedByWatcher",
                    "MakerPaymentSpendConfirmed", "WatcherMessageSent"} = {}
         /\ E \cap {"MakerPaymentValidatedAndConfirmed", "TakerPaymentSent"} # {}
              => "TakerPaymentReceived" \in S
         /\ "TakerPaymentSpent" \in E => "TakerPaymentSpent" \in S
         /\ E \cap SentEvents # {} =>
              S \cap {"TakerPaymentSpent", "TakerPaymentValidateFailed", "TakerPaymentSpendFailed",
                      "TakerPaymentWaitConfirmFailed"} # {}
         /\ "MakerPaymentSent" \in S => "MakerPaymentReceived" \in E
         /\ "TakerPaymentReceived" \in S => "TakerPaymentSent" \in E
  <1>1. \A e \in S :
          /\ TakerEventsFor(e, h) \subseteq TakerEvents
          /\ TakerEventsFor(e, h) \cap {"TakerPaymentRefunded", "TakerPaymentRefundedByWatcher",
                    "MakerPaymentSpendConfirmed", "WatcherMessageSent"} = {}
          /\ TakerEventsFor(e, h) \cap {"MakerPaymentValidatedAndConfirmed", "TakerPaymentSent"} # {}
               => e = "TakerPaymentReceived"
          /\ "TakerPaymentSpent" \in TakerEventsFor(e, h) => e = "TakerPaymentSpent"
          /\ TakerEventsFor(e, h) \cap SentEvents # {} =>
               e \in {"TakerPaymentSpent", "TakerPaymentValidateFailed", "TakerPaymentSpendFailed",
                      "TakerPaymentWaitConfirmFailed"}
          /\ e = "MakerPaymentSent" => "MakerPaymentReceived" \in TakerEventsFor(e, h)
          /\ e = "TakerPaymentReceived" => "TakerPaymentSent" \in TakerEventsFor(e, h)
    BY DEF TakerEventsFor, TakerEvents, SentEvents
  <1>2. {"Started", "Negotiated"} \subseteq TakerEvents
        /\ {"Started", "Negotiated"} \cap SentEvents = {}
    BY DEF TakerEvents, SentEvents
  <1> QED BY <1>1, <1>2 DEF TakerMade

\* Side s goes on with the record E; the other side and the chains notice nothing.
Imported(s, E) ==
  /\ saved'[s] = E /\ last'[s] \in E /\ cmd'[s] = "Down" /\ todo'[s] = <<>>
  /\ Reported(s)' = E /\ lost = "none" /\ lost' = s
  /\ \A o \in Sides \ {s} :
       /\ saved'[o] = saved[o] /\ last'[o] = last[o] /\ cmd'[o] = cmd[o] /\ todo'[o] = todo[o]
       /\ Reported(o)' = Reported(o) /\ restarts'[o] = restarts[o]
  /\ restarts'[s] = restarts[s] + 1 /\ errors' \in 0..MaxErrors
  /\ restarts["maker"] + restarts["taker"] < MaxCrashes
  /\ DOMAIN saved' = Sides /\ DOMAIN last' = Sides /\ DOMAIN cmd' = Sides /\ DOMAIN todo' = Sides
  /\ step' \in [Sides -> {1, 2}] /\ restarts' \in [Sides -> 0..MaxCrashes]
  /\ UNCHANGED <<sent, chainVars, watcherVars, clock>>

\* import_swaps does so.
LEMMA Imports ==
  ASSUME TypeOK, NEW s \in Sides, NEW o \in Sides, NEW ends, NEW E,
         Loses(s, o), ImportSwap(s, ends, E)
  PROVE  Imported(s, E)
  <1>1. Elements(<<>>) = {} BY QueueElements
  <1>2. /\ DOMAIN cmd = Sides /\ DOMAIN todo = Sides /\ DOMAIN saved = Sides /\ DOMAIN last = Sides
        /\ step \in [Sides -> {1, 2}] /\ restarts \in [Sides -> 0..MaxCrashes]
        /\ errors \in 0..MaxErrors
    BY DEF TypeOK
  <1>3. /\ saved'[s] = E /\ last'[s] \in E /\ cmd'[s] = "Down" /\ todo'[s] = <<>>
        /\ \A x \in Sides \ {s} :
             saved'[x] = saved[x] /\ last'[x] = last[x] /\ cmd'[x] = cmd[x] /\ todo'[x] = todo[x]
        /\ DOMAIN saved' = Sides /\ DOMAIN last' = Sides /\ DOMAIN cmd' = Sides /\ DOMAIN todo' = Sides
    BY <1>2 DEF ImportSwap, EndsWith
  <1>4. step' \in [Sides -> {1, 2}] BY <1>2 DEF ImportSwap
  <1>5. /\ restarts'[s] = restarts[s] + 1 /\ restarts' \in [Sides -> 0..MaxCrashes]
        /\ \A x \in Sides \ {s} : restarts'[x] = restarts[x]
        /\ restarts["maker"] + restarts["taker"] < MaxCrashes
    BY <1>2, SwapV1Assumption DEF Loses, SwapV1Assumption
  <1>6. Reported(s)' = E /\ \A x \in Sides \ {s} : Reported(x)' = Reported(x)
    BY <1>1, <1>3 DEF Reported
  <1>7. errors' \in 0..MaxErrors BY <1>2, SwapV1Assumption DEF Loses, SwapV1Assumption
  <1> QED BY <1>3, <1>4, <1>5, <1>6, <1>7 DEF Imported, Loses, ImportSwap

\* The types of an imported record.
LEMMA ImportTypes ==
  ASSUME TypeOK, NEW s \in Sides, NEW E \in SUBSET Events[s], Imported(s, E)
  PROVE  TypeOK'
  <1>1. <<>> \in Seq(Events[s]) BY QueueTypes
  <1>2. "Down" \in Commands[s] BY DEF Commands
  <1>3. \A x \in Sides : /\ cmd'[x] \in Commands[x] /\ saved'[x] \subseteq Events[x]
                         /\ todo'[x] \in Seq(Events[x]) /\ last'[x] \in Events[x] \cup {"None"}
    <2> TAKE x \in Sides
    <2>1. CASE x = s BY <1>1, <1>2, <2>1 DEF Imported
    <2>2. CASE x # s
      <3>1. saved'[x] = saved[x] /\ last'[x] = last[x] /\ cmd'[x] = cmd[x] /\ todo'[x] = todo[x]
        BY <2>2 DEF Imported
      <3> QED BY <3>1 DEF TypeOK
    <2> QED BY <2>1, <2>2
  <1>4. errors' \in 0..MaxErrors BY DEF Imported
  <1>5. sent' = sent /\ tx' = tx /\ repeats' = repeats /\ drops' = drops /\ watcher' = watcher
        /\ clock' = clock /\ guarded' = guarded
    BY DEF Imported
  <1>6. guarded' \in BOOLEAN BY <1>5, Zenon DEF TypeOK
  <1> QED BY <1>3, <1>4, <1>5, <1>6 DEF TypeOK, Imported

\* The maker's record from the taker's.
LEMMA MakerImport ==
  ASSUME SwapV1Inv, RecordInv, RecreateMaker
  PROVE  SwapV1Inv' /\ RecordInv'
  <1> DEFINE S == saved["taker"]
  <1> DEFINE E == {"Started", "Negotiated"} \cup UNION {MakerEventsFor(e) : e \in S}
  <1>1. Imported("maker", E)
    BY Imports DEF RecreateMaker, SwapV1Inv
  <1>2. /\ E \subseteq MakerEvents /\ "MakerPaymentRefunded" \notin E
        /\ E \cap {"TakerPaymentValidatedAndConfirmed", "TakerPaymentSpent",
                   "TakerPaymentSpendConfirmed"} # {} => "TakerPaymentSpent" \in S
        /\ E \cap PaidEvents # {} =>
             S \cap {"TakerPaymentSent", "MakerPaymentValidateFailed",
                     "MakerPaymentWaitConfirmFailed", "TakerPaymentTransactionFailed",
                     "TakerPaymentSpent", "TakerPaymentWaitForSpendFailed"} # {}
        /\ "MakerPaymentReceived" \in S => "MakerPaymentSent" \in E
    BY MakerConverted
  <1> HIDE DEF E
  <1>3. TypeOK' BY <1>1, <1>2, ImportTypes DEF SwapV1Inv, Events
  <1>4. S \subseteq Reported("taker") BY DEF Reported
  <1>5. "TakerPaymentSpent" \in S =>
          /\ Live("takerPaymentSpend") /\ tx["takerPayment"] = "confirmed"
          /\ Knows("taker", "MakerPaymentReceived")
    BY <1>4 DEF SwapV1Inv, EventsTrue, PaysAgainstConfirmed, ChainTrue
  <1>6. EventsTrue'
    BY <1>1, <1>2, <1>5 DEF SwapV1Inv, EventsTrue, Imported
  <1>7. CommandsTrue' /\ ChainTrue' /\ FeeUnsent' /\ PaysAgainstConfirmed' /\ PaidOnce'
    BY <1>1 DEF SwapV1Inv, CommandsTrue, ChainTrue, FeeUnsent, PaysAgainstConfirmed,
       PaidOnce, Imported, MakerPaymentLock
  <1>8. WatchedTrue'
    BY <1>1 DEF SwapV1Inv, WatchedTrue, Imported, MakerPaymentLock, TakerPaymentLock, WatcherRefundTime
  <1>9. StoppedSaved' /\ MessagesTrue' /\ MakerWaits' /\ TakerWaits'
    BY <1>1 DEF RecordInv, StoppedSaved, MessagesTrue, MakerWaits, TakerWaits, Imported
  <1>10. MakerRecord'
    <2>1. E \cap PaidEvents # {} => "MakerPaymentSent" \in E \/ MakerUninformed'
      <3>1. /\ "TakerPaymentSent" \in S => "MakerPaymentReceived" \in S
            /\ S \cap {"MakerPaymentWaitConfirmFailed", "TakerPaymentTransactionFailed",
                       "TakerPaymentWaitForSpendFailed"} # {} => "MakerPaymentReceived" \in S
        BY <1>1, <1>4 DEF RecordInv, TakerRecord, TakerWaits, Imported
      <3>2. "MakerPaymentValidateFailed" \in S /\ "MakerPaymentReceived" \notin S => MakerUninformed'
        BY <1>1 DEF MakerUninformed, Imported
      <3> QED BY <1>2, <1>5, <3>1, <3>2
    <2>2. "Down" \notin PaidCommands BY DEF PaidCommands
    <2>3. Live("takerPaymentSpend")' <=> Live("takerPaymentSpend") BY <1>1 DEF Imported
    <2> QED BY <1>1, <1>2, <1>5, <2>1, <2>2, <2>3 DEF MakerRecord, Imported
  <1>11. TakerRecord'
    <2>1. ~TakerUninformed BY <1>1 DEF TakerUninformed, Imported
    <2> QED BY <1>1, <2>1 DEF RecordInv, TakerRecord, Imported
  <1> QED BY <1>3, <1>6, <1>7, <1>8, <1>9, <1>10, <1>11 DEF SwapV1Inv, RecordInv

\* The taker's record from the maker's.
LEMMA TakerImport ==
  ASSUME SwapV1Inv, RecordInv, RecreateTaker
  PROVE  SwapV1Inv' /\ RecordInv'
  <1> DEFINE S == saved["maker"]
  <1> PICK h \in BOOLEAN :
        /\ Loses("taker", "maker")
        /\ ImportSwap("taker", TakerEnds, TakerMade(S, h))
    BY DEF RecreateTaker, TakerMade
  <1> DEFINE E == TakerMade(S, h)
  <1>1. Imported("taker", E)
    BY Imports DEF SwapV1Inv
  <1>2. /\ E \subseteq TakerEvents
        /\ E \cap {"TakerPaymentRefunded", "TakerPaymentRefundedByWatcher",
                   "MakerPaymentSpendConfirmed", "WatcherMessageSent"} = {}
        /\ E \cap {"MakerPaymentValidatedAndConfirmed", "TakerPaymentSent"} # {}
             => "TakerPaymentReceived" \in S
        /\ "TakerPaymentSpent" \in E => "TakerPaymentSpent" \in S
        /\ E \cap SentEvents # {} =>
             S \cap {"TakerPaymentSpent", "TakerPaymentValidateFailed", "TakerPaymentSpendFailed",
                     "TakerPaymentWaitConfirmFailed"} # {}
        /\ "MakerPaymentSent" \in S => "MakerPaymentReceived" \in E
        /\ "TakerPaymentReceived" \in S => "TakerPaymentSent" \in E
    BY TakerConverted
  <1> HIDE DEF E
  <1>3. TypeOK' BY <1>1, <1>2, ImportTypes DEF SwapV1Inv, Events
  <1>4. S \subseteq Reported("maker") /\ saved["taker"] \subseteq Reported("taker") /\ lost = "none"
    BY <1>1 DEF Reported, Imported
  <1>5. Knows("taker", "MakerPaymentReceived") => "MakerPaymentReceived" \in E
    BY <1>2, <1>4 DEF RecordInv, MessagesTrue
  <1>6. "TakerPayment" \in sent \/ "TakerPaymentReceived" \in S
          => tx["makerPayment"] = "confirmed" /\ "MakerPaymentReceived" \in E
    BY <1>4, <1>5 DEF RecordInv, MessagesTrue
  <1>7. "TakerPaymentSpent" \in S => Live("takerPaymentSpend")
    BY <1>4 DEF RecordInv, MakerRecord
  <1>8. EventsTrue'
    BY <1>1, <1>2, <1>6, <1>7 DEF SwapV1Inv, EventsTrue, Imported
  <1>9. CommandsTrue' /\ ChainTrue' /\ PaysAgainstConfirmed'
    BY <1>1, <1>5 DEF SwapV1Inv, CommandsTrue, ChainTrue, PaysAgainstConfirmed, Imported,
       MakerPaymentLock
  <1>10. FeeUnsent' /\ PaidOnce'
    <2>1. restarts["taker"] \in Nat BY SwapV1Assumption DEF SwapV1Inv, TypeOK, SwapV1Assumption
    <2>2. restarts'["taker"] > 0 BY <1>1, <2>1 DEF Imported
    <2> QED BY <1>1, <2>2 DEF SwapV1Inv, FeeUnsent, PaidOnce, Imported
  <1>11. WatchedTrue'
    BY <1>1 DEF SwapV1Inv, WatchedTrue, Imported, MakerPaymentLock, TakerPaymentLock, WatcherRefundTime
  <1>12. StoppedSaved' /\ MakerWaits' /\ TakerWaits'
    BY <1>1 DEF RecordInv, StoppedSaved, MakerWaits, TakerWaits, Imported
  <1>13. MessagesTrue'
    BY <1>1, <1>6 DEF RecordInv, MessagesTrue, Imported
  <1>14. MakerRecord'
    <2>1. ~MakerUninformed BY <1>1 DEF MakerUninformed, Imported
    <2> QED BY <1>1, <2>1 DEF RecordInv, MakerRecord, Imported
  <1>15. TakerRecord'
    <2>1. E \cap SentEvents # {} => "TakerPaymentSent" \in E \/ TakerUninformed'
      <3>1. S \cap {"TakerPaymentSpent", "TakerPaymentSpendFailed",
                    "TakerPaymentWaitConfirmFailed"} # {} => "TakerPaymentReceived" \in S
        BY <1>4 DEF RecordInv, MakerWaits, ReceivedEvents
      <3>2. /\ "TakerPaymentValidateFailed" \in S /\ "TakerPaymentReceived" \notin S
            => TakerUninformed'
        BY <1>1 DEF TakerUninformed, Imported
      <3> QED BY <1>2, <3>1, <3>2
    <2>2. "Down" \notin SentCommands BY DEF SentCommands
    <2> QED BY <1>1, <1>2, <1>6, <2>1, <2>2 DEF TakerRecord, Imported
  <1> QED BY <1>3, <1>8, <1>9, <1>10, <1>11, <1>12, <1>13, <1>14, <1>15 DEF SwapV1Inv, RecordInv

-----------------------------------------------------------------------------
(* How a record tells the outcome of its swap.                             *)

\* A batch of the maker that tells of an outcome, or rules one out, is returned by an
\* open command; after an outcome no command is open.
LEMMA MakerDecides ==
  ASSUME Shapes, MakerStep
  PROVE  /\ cmd'["maker"] \in OpenCommands["maker"] =>
              \/ cmd["maker"] \in OpenCommands["maker"]
              \/ cmd["maker"] = "Down" /\ MakerCommand(last["maker"]) \in OpenCommands["maker"]
         /\ todo'["maker"] # todo["maker"] =>
              LET E == Elements(todo'["maker"])
                  F == Elements(Tail(todo'["maker"]))
              IN /\ E \cap (OpenEvents["maker"] \cup Outcomes["maker"]) # {}
                      => cmd["maker"] \in OpenCommands["maker"]
                 /\ E \cap Outcomes["maker"] # {}
                      => /\ cmd'["maker"] \notin OpenCommands["maker"]
                         /\ F \cap (OpenEvents["maker"] \cup Outcomes["maker"]) = {}
                 /\ cmd'["maker"] \in OpenCommands["maker"] => cmd["maker"] \in OpenCommands["maker"]
  <1> DEFINE q == todo'["maker"]
  <1> DEFINE O == OpenEvents["maker"]
  <1> DEFINE D == Outcomes["maker"]
  <1> DEFINE Open ==
        {<<"Started">>, <<"Negotiated">>, <<"MakerPaymentInstructionsReceived", "TakerFeeValidated">>,
         <<"MakerPaymentSent">>, <<"TakerPaymentReceived", "TakerPaymentWaitConfirmStarted">>,
         <<"TakerPaymentValidatedAndConfirmed">>}
  <1> DEFINE Deciding ==
        {<<"TakerFeeValidateFailed">>, <<"MakerPaymentTransactionFailed">>,
         <<"MakerPaymentWaitConfirmFailed", "MakerPaymentWaitRefundStarted">>,
         <<"TakerPaymentValidateFailed", "MakerPaymentWaitRefundStarted">>,
         <<"TakerPaymentWaitConfirmFailed", "MakerPaymentWaitRefundStarted">>,
         <<"TakerPaymentSpent", "TakerPaymentSpendConfirmStarted">>,
         <<"TakerPaymentSpendFailed", "MakerPaymentWaitRefundStarted">>}
  <1>1. q # todo["maker"] => q \in MakerBatches BY MakerFrame
  <1>2. cmd'["maker"] \in OpenCommands["maker"] =>
          \/ cmd["maker"] \in OpenCommands["maker"]
          \/ cmd["maker"] = "Down" /\ MakerCommand(last["maker"]) \in OpenCommands["maker"]
    BY DEF MakerStep, Shapes, OpenCommands
  <1>3. \A b \in MakerBatches :
          /\ Elements(b) \cap (O \cup D) # {} => b \in Open \cup Deciding
          /\ Elements(b) \cap D # {} => b \in Deciding
    BY QueueElements DEF MakerBatches, OpenEvents, Outcomes
  <1>4. \A b \in Deciding : Elements(Tail(b)) \cap (O \cup D) = {}
    <2>1. \A a : Tail(<<a>>) = <<>> OBVIOUS
    <2>2. \A a, b : Tail(<<a, b>>) = <<b>> OBVIOUS
    <2>3. \A b \in Deciding :
            Tail(b) \in {<<>>, <<"MakerPaymentWaitRefundStarted">>, <<"TakerPaymentSpendConfirmStarted">>}
      BY <2>1, <2>2
    <2>4. \A t \in {<<>>, <<"MakerPaymentWaitRefundStarted">>, <<"TakerPaymentSpendConfirmStarted">>} :
            Elements(t) \cap (O \cup D) = {}
      BY QueueElements DEF OpenEvents, Outcomes
    <2> QED BY <2>3, <2>4
  <1>5. q \in Open \cup Deciding /\ q # todo["maker"] => cmd["maker"] \in OpenCommands["maker"]
    BY DEF MakerStep, Shapes, OpenCommands
  <1>6. q \in Deciding /\ q # todo["maker"] => cmd'["maker"] \notin OpenCommands["maker"]
    BY DEF MakerStep, Shapes, OpenCommands
  <1>7. q # todo["maker"] /\ cmd'["maker"] \in OpenCommands["maker"]
          => cmd["maker"] \in OpenCommands["maker"]
    BY DEF MakerStep, Shapes, OpenCommands
  <1> HIDE DEF Open, Deciding
  <1> QED BY <1>1, <1>2, <1>3, <1>4, <1>5, <1>6, <1>7

\* The same of the taker; the restart that reports the watcher's work is the last
\* that may tell of an outcome.
LEMMA TakerDecides ==
  ASSUME Shapes, TakerStep
  PROVE  /\ cmd'["taker"] \in OpenCommands["taker"] =>
              \/ cmd["taker"] \in OpenCommands["taker"]
              \/ /\ cmd["taker"] = "Down" /\ TakerCommand(last["taker"]) \in OpenCommands["taker"]
                 /\ saved'["taker"] = saved["taker"]
         /\ todo'["taker"] # todo["taker"] =>
              LET E == Elements(todo'["taker"])
                  F == Elements(Tail(todo'["taker"]))
              IN /\ E \cap (OpenEvents["taker"] \cup Outcomes["taker"]) # {}
                      => cmd["taker"] \in OpenCommands["taker"]
                 /\ E \cap Outcomes["taker"] # {}
                      => /\ cmd'["taker"] \notin OpenCommands["taker"]
                         /\ F \cap (OpenEvents["taker"] \cup Outcomes["taker"]) = {}
                 /\ cmd'["taker"] \in OpenCommands["taker"] => cmd["taker"] \in OpenCommands["taker"]
         /\ saved'["taker"] # saved["taker"] =>
              /\ cmd["taker"] = "Down" /\ last'["taker"] \notin OpenEvents["taker"]
              /\ cmd'["taker"] \notin OpenCommands["taker"]
              /\ \/ /\ saved'["taker"]
                         = saved["taker"] \cup {"TakerPaymentSpent", "MakerPaymentSpentByWatcher"}
                    /\ TakerCommand(last["taker"]) \in {"SpendMakerPayment", "WaitForTakerPaymentSpend"}
                 \/ saved'["taker"] = saved["taker"] \cup {"TakerPaymentRefundedByWatcher"}
         /\ last'["taker"] = last["taker"] \/ last'["taker"] \notin OpenEvents["taker"]
  <1> DEFINE q == todo'["taker"]
  <1> DEFINE O == OpenEvents["taker"]
  <1> DEFINE D == Outcomes["taker"]
  <1> DEFINE Open ==
        {<<"Started">>, <<"Negotiated">>, <<"TakerFeeSent">>,
         <<"TakerPaymentInstructionsReceived", "MakerPaymentReceived", "MakerPaymentWaitConfirmStarted">>,
         <<"MakerPaymentValidatedAndConfirmed">>, <<"TakerPaymentSent", "WatcherMessageSent">>,
         <<"TakerPaymentSent">>}
  <1> DEFINE Deciding ==
        {<<"TakerFeeSendFailed">>, <<"MakerPaymentValidateFailed">>,
         <<"MakerPaymentWaitConfirmFailed">>, <<"TakerPaymentTransactionFailed">>,
         <<"TakerPaymentSpent">>, <<"TakerPaymentWaitForSpendFailed">>,
         <<"TakerPaymentWaitForSpendFailed", "TakerPaymentWaitRefundStarted">>}
  <1>1. q # todo["taker"] => q \in TakerBatches BY TakerFrame
  <1>2. cmd'["taker"] \in OpenCommands["taker"] =>
          \/ cmd["taker"] \in OpenCommands["taker"]
          \/ /\ cmd["taker"] = "Down" /\ TakerCommand(last["taker"]) \in OpenCommands["taker"]
             /\ saved'["taker"] = saved["taker"]
    BY DEF TakerStep, Shapes, OpenCommands, AsksTheChains
  <1>3. \A b \in TakerBatches :
          /\ Elements(b) \cap (O \cup D) # {} => b \in Open \cup Deciding
          /\ Elements(b) \cap D # {} => b \in Deciding
    BY QueueElements DEF TakerBatches, OpenEvents, Outcomes
  <1>4. \A b \in Deciding : Elements(Tail(b)) \cap (O \cup D) = {}
    <2>1. \A a : Tail(<<a>>) = <<>> OBVIOUS
    <2>2. \A a, b : Tail(<<a, b>>) = <<b>> OBVIOUS
    <2>3. \A b \in Deciding : Tail(b) \in {<<>>, <<"TakerPaymentWaitRefundStarted">>}
      BY <2>1, <2>2
    <2>4. \A t \in {<<>>, <<"TakerPaymentWaitRefundStarted">>} :
            Elements(t) \cap (O \cup D) = {}
      BY QueueElements DEF OpenEvents, Outcomes
    <2> QED BY <2>3, <2>4
  <1>5. q \in Open \cup Deciding /\ q # todo["taker"] => cmd["taker"] \in OpenCommands["taker"]
    BY DEF TakerStep, Shapes, OpenCommands
  <1>6. q \in Deciding /\ q # todo["taker"] => cmd'["taker"] \notin OpenCommands["taker"]
    BY DEF TakerStep, Shapes, OpenCommands
  <1>7. q # todo["taker"] /\ cmd'["taker"] \in OpenCommands["taker"]
          => cmd["taker"] \in OpenCommands["taker"]
    BY DEF TakerStep, Shapes, OpenCommands
  <1>8. /\ saved'["taker"] # saved["taker"] =>
             /\ cmd["taker"] = "Down" /\ last'["taker"] \notin O
             /\ cmd'["taker"] \notin OpenCommands["taker"]
             /\ \/ /\ saved'["taker"]
                        = saved["taker"] \cup {"TakerPaymentSpent", "MakerPaymentSpentByWatcher"}
                   /\ TakerCommand(last["taker"]) \in {"SpendMakerPayment", "WaitForTakerPaymentSpend"}
                \/ saved'["taker"] = saved["taker"] \cup {"TakerPaymentRefundedByWatcher"}
        /\ last'["taker"] = last["taker"] \/ last'["taker"] \notin O
    <2>1. CASE TakerKickstartWatched BY <2>1 DEF Shapes, OpenEvents, OpenCommands
    <2>2. CASE ~TakerKickstartWatched
      <3>1. saved'["taker"] = saved["taker"] /\ last'["taker"] = last["taker"]
        BY <2>2 DEF TakerStep, Shapes
      <3> QED BY <3>1
    <2> QED BY <2>1, <2>2
  <1> HIDE DEF Open, Deciding
  <1> QED BY <1>1, <1>2, <1>3, <1>4, <1>5, <1>6, <1>7, <1>8

\* A record that told of no outcome may tell of one now, and of nothing else later.
LEMMA OutcomeStep ==
  ASSUME TypeOK, EventsTrue, StoppedSaved, OutcomeInv, Next
  PROVE  /\ OutcomeInv'
         /\ \A s \in Sides : \A e \in saved'[s] \ saved[s] :
              e \in Converted[s] => saved[s] \cap Outcomes[s] = {}
  <1> DEFINE Final(s) == \A e \in saved'[s] \ saved[s] :
                           e \in Converted[s] => saved[s] \cap Outcomes[s] = {}
  <1>1. Shapes /\ Elements(<<>>) = {} BY ShapesHold, QueueElements
  <1>2. \A s \in Sides :
          /\ Converted[s] \subseteq OpenEvents[s] \cup Outcomes[s]
          /\ OpenEvents[s] \cap Outcomes[s] = {}
          /\ "Down" \notin OpenCommands[s]
    BY DEF Converted, OpenEvents, Outcomes, OpenCommands
  <1>3. /\ MakerCommand(last["maker"]) \in OpenCommands["maker"] => last["maker"] \in OpenEvents["maker"]
        /\ TakerCommand(last["taker"]) \in OpenCommands["taker"] => last["taker"] \in OpenEvents["taker"]
    BY DEF TypeOK, Events, MakerEvents, TakerEvents, MakerCommand, TakerCommand, OpenCommands,
       OpenEvents
  <1>4. \A s \in Sides :
          /\ cmd[s] = "Down" => Reported(s) = saved[s]
          /\ todo[s] = <<>> => Reported(s) = saved[s]
    BY <1>1 DEF StoppedSaved, Reported
  <1>5. ASSUME NEW s \in Sides, Decided(s), cmd'[s] = cmd[s], last'[s] = last[s],
               saved'[s] = saved[s], todo'[s] = todo[s]
        PROVE  Decided(s)' /\ Final(s)
    BY <1>5 DEF Decided, Reported
  <1>6. CASE MakerStep
    <2>1. Decided("taker")' /\ Final("taker")
      BY <1>1, <1>5, <1>6, MakerFrame DEF OutcomeInv
    <2>2. Decided("maker") /\ saved' = saved /\ last' = last
      BY <1>1, <1>6, MakerFrame DEF OutcomeInv
    <2>3. CASE todo'["maker"] = todo["maker"]
      <3>1. Reported("maker")' = Reported("maker") BY <2>2, <2>3 DEF Reported
      <3>2. cmd'["maker"] \in OpenCommands["maker"]
              => Reported("maker") \cap Outcomes["maker"] = {}
        BY <1>1, <1>3, <1>4, <1>6, <2>2, MakerDecides DEF Decided
      <3> QED BY <2>1, <2>2, <2>3, <3>1, <3>2 DEF OutcomeInv, Decided
    <2>4. CASE todo'["maker"] # todo["maker"]
      <3> DEFINE E == Elements(todo'["maker"])
      <3> DEFINE F == Elements(Tail(todo'["maker"]))
      <3>1. /\ E \cap (OpenEvents["maker"] \cup Outcomes["maker"]) # {}
                 => cmd["maker"] \in OpenCommands["maker"]
            /\ E \cap Outcomes["maker"] # {}
                 => /\ cmd'["maker"] \notin OpenCommands["maker"]
                    /\ F \cap (OpenEvents["maker"] \cup Outcomes["maker"]) = {}
            /\ cmd'["maker"] \in OpenCommands["maker"] => cmd["maker"] \in OpenCommands["maker"]
        BY <1>1, <1>6, <2>4, MakerDecides
      <3>2. Reported("maker")' = saved["maker"] \cup E BY <2>2 DEF Reported
      <3>3. cmd["maker"] \in OpenCommands["maker"] => saved["maker"] \cap Outcomes["maker"] = {}
        BY <2>2 DEF Decided, Reported
      <3> HIDE DEF E, F
      <3>4. Decided("maker")' BY <2>2, <3>1, <3>2, <3>3 DEF Decided, E, F
      <3> QED BY <2>1, <2>2, <3>4 DEF OutcomeInv
    <2> QED BY <2>3, <2>4
  <1>7. CASE TakerStep
    <2>1. Decided("maker")' /\ Final("maker")
      BY <1>1, <1>5, <1>7, TakerFrame DEF OutcomeInv
    <2>2. Decided("taker") BY DEF OutcomeInv
    <2>3. CASE saved'["taker"] # saved["taker"]
      <3>1. /\ cmd["taker"] = "Down" /\ last'["taker"] \notin OpenEvents["taker"]
            /\ cmd'["taker"] \notin OpenCommands["taker"]
            /\ \/ /\ saved'["taker"]
                       = saved["taker"] \cup {"TakerPaymentSpent", "MakerPaymentSpentByWatcher"}
                  /\ TakerCommand(last["taker"]) \in {"SpendMakerPayment", "WaitForTakerPaymentSpend"}
               \/ saved'["taker"] = saved["taker"] \cup {"TakerPaymentRefundedByWatcher"}
        BY <1>1, <1>7, <2>3, TakerDecides
      <3>2. todo'["taker"] = <<>> BY <1>1, <1>7, <2>3, <3>1, TakerFrame DEF StoppedSaved
      <3>3. Decided("taker")' BY <1>1, <3>1, <3>2 DEF Decided
      <3>4. TakerCommand(last["taker"]) = "SpendMakerPayment" => "TakerPaymentSpent" \in saved["taker"]
        <4>1. TakerCommand(last["taker"]) = "SpendMakerPayment" => last["taker"] = "TakerPaymentSpent"
          BY DEF TypeOK, Events, TakerEvents, TakerCommand
        <4> QED BY <4>1 DEF EventsTrue
      <3>5. TakerCommand(last["taker"]) = "WaitForTakerPaymentSpend"
              => saved["taker"] \cap Outcomes["taker"] = {}
        <4>1. "WaitForTakerPaymentSpend" \in OpenCommands["taker"] BY DEF OpenCommands
        <4> QED BY <1>3, <2>2, <4>1 DEF Decided
      <3>6. {"MakerPaymentSpentByWatcher", "TakerPaymentRefundedByWatcher"} \cap Converted["taker"] = {}
        BY DEF Converted, Outcomes
      <3>7. Final("taker") BY <3>1, <3>4, <3>5, <3>6
      <3> QED BY <2>1, <3>3, <3>7 DEF OutcomeInv
    <2>4. CASE saved'["taker"] = saved["taker"] /\ todo'["taker"] = todo["taker"]
      <3>1. Reported("taker")' = Reported("taker") BY <2>4 DEF Reported
      <3>2. cmd'["taker"] \in OpenCommands["taker"]
              => Reported("taker") \cap Outcomes["taker"] = {}
        BY <1>1, <1>3, <1>4, <1>7, <2>2, TakerDecides DEF Decided
      <3>3. last'["taker"] \in OpenEvents["taker"] => saved["taker"] \cap Outcomes["taker"] = {}
        BY <1>1, <1>7, <2>2, TakerDecides DEF Decided
      <3> QED BY <2>1, <2>2, <2>4, <3>1, <3>2, <3>3 DEF OutcomeInv, Decided
    <2>5. CASE saved'["taker"] = saved["taker"] /\ todo'["taker"] # todo["taker"]
      <3> DEFINE E == Elements(todo'["taker"])
      <3> DEFINE F == Elements(Tail(todo'["taker"]))
      <3>1. /\ E \cap (OpenEvents["taker"] \cup Outcomes["taker"]) # {}
                 => cmd["taker"] \in OpenCommands["taker"]
            /\ E \cap Outcomes["taker"] # {}
                 => /\ cmd'["taker"] \notin OpenCommands["taker"]
                    /\ F \cap (OpenEvents["taker"] \cup Outcomes["taker"]) = {}
            /\ cmd'["taker"] \in OpenCommands["taker"] => cmd["taker"] \in OpenCommands["taker"]
            /\ last'["taker"] = last["taker"]
        BY <1>1, <1>7, <2>5, TakerDecides, TakerFrame
      <3>2. Reported("taker")' = saved["taker"] \cup E BY <2>5 DEF Reported
      <3>3. cmd["taker"] \in OpenCommands["taker"] => saved["taker"] \cap Outcomes["taker"] = {}
        BY <2>2 DEF Decided, Reported
      <3> HIDE DEF E, F
      <3>4. Decided("taker")' BY <2>2, <2>5, <3>1, <3>2, <3>3 DEF Decided, E, F
      <3> QED BY <2>1, <2>5, <3>4 DEF OutcomeInv
    <2> QED BY <2>3, <2>4, <2>5
  <1>8. CASE WatcherNext \/ EnvironmentStep
    BY <1>5, <1>8, WorldFrame DEF OutcomeInv
  <1>9. ASSUME NEW p \in Sides, SaveEvent(p)
        PROVE  OutcomeInv' /\ \A s \in Sides : Final(s)
    <2> DEFINE h == Head(todo[p])
    <2> DEFINE F == Elements(Tail(todo[p]))
    <2>1. /\ cmd' = cmd /\ Reported(p)' = Reported(p) /\ todo[p] # <<>>
          /\ todo'[p] = Tail(todo[p]) /\ last'[p] = h /\ saved'[p] = saved[p] \cup {h}
          /\ Elements(todo[p]) = {h} \cup F
      BY <1>9, SaveFrame
    <2>2. \A s \in Sides \ {p} : Decided(s)' /\ Final(s)
      BY <1>5, <1>9, SaveFrame DEF OutcomeInv
    <2>3. Decided(p) BY DEF OutcomeInv
    <2>4. Final(p) BY <1>2, <2>1, <2>3 DEF Decided
    <2>5. Elements(Tail(Tail(todo[p]))) \subseteq F \/ Tail(todo[p]) = <<>>
      <3>1. todo[p] \in Seq(Events[p]) BY DEF TypeOK
      <3>2. Tail(todo[p]) \in Seq(Events[p]) BY <2>1, <3>1, QueueTypes
      <3> QED BY <3>2, QueueSplits
    <2> HIDE DEF h, F
    <2>6. h \in Outcomes[p] => F \cap (OpenEvents[p] \cup Outcomes[p]) = {}
      BY <2>1, <2>3 DEF Decided, F
    <2>7. F \cap Outcomes[p] # {} => F \cap (OpenEvents[p] \cup Outcomes[p]) = {}
      BY <2>1, <2>3 DEF Decided, F
    <2>8. F \cap Outcomes[p] = {} BY <2>7
    <2>9. h \in OpenEvents[p] => saved'[p] \cap Outcomes[p] = {}
      BY <1>2, <2>1, <2>3 DEF Decided
    <2>10. F \cap (OpenEvents[p] \cup Outcomes[p]) # {} => saved'[p] \cap Outcomes[p] = {}
      BY <2>1, <2>3, <2>6 DEF Decided
    <2>11. Decided(p)'
      BY <2>1, <2>3, <2>8, <2>9, <2>10 DEF Decided, F
    <2> QED BY <2>2, <2>4, <2>11 DEF OutcomeInv
  <1>10. ASSUME NEW p \in Sides, Crash(p)
         PROVE  OutcomeInv' /\ \A s \in Sides : Final(s)
    <2>1. \A s \in Sides \ {p} : Decided(s)' /\ Final(s)
      BY <1>1, <1>5, <1>10, CrashFrame DEF OutcomeInv
    <2>2. Decided(p) BY DEF OutcomeInv
    <2>3. Decided(p)' /\ Final(p)
      BY <1>1, <1>2, <1>10, <2>2, CrashFrame DEF Decided
    <2> QED BY <2>1, <2>3 DEF OutcomeInv
  <1> QED BY <1>6, <1>7, <1>8, <1>9, <1>10, NextSplit DEF ProcessStep

\* A record made from the other's that goes on as if nothing was decided tells of no
\* outcome.
LEMMA OutcomeImport ==
  ASSUME TypeOK, OutcomeInv, RecreateMaker \/ RecreateTaker
  PROVE  OutcomeInv'
  <1>1. Elements(<<>>) = {} BY QueueElements
  <1>2. \A s \in Sides : "Down" \notin OpenCommands[s] BY DEF OpenCommands
  <1>3. ASSUME NEW s \in Sides, NEW o \in Sides, NEW ends, NEW E,
               Loses(s, o), ImportSwap(s, ends, E),
               last'[s] \in OpenEvents[s] => E \cap Outcomes[s] = {}
        PROVE  OutcomeInv'
    <2>1. Imported(s, E) BY <1>3, Imports
    <2>2. Decided(s)' BY <1>1, <1>2, <1>3, <2>1 DEF Decided, Imported
    <2>3. \A x \in Sides \ {s} : Decided(x)' BY <2>1 DEF OutcomeInv, Decided, Imported
    <2> QED BY <2>2, <2>3 DEF OutcomeInv
  <1>4. CASE RecreateMaker
    <2> DEFINE S == saved["taker"]
    <2> DEFINE E == {"Started", "Negotiated"} \cup UNION {MakerEventsFor(e) : e \in S}
    <2>1. Loses("maker", "taker") /\ ImportSwap("maker", MakerEnds, E)
      BY <1>4 DEF RecreateMaker
    <2>2. \A e \in S : MakerEventsFor(e) \cap Outcomes["maker"] # {}
            => MakerEventsFor(e) \cap {"MakerPaymentWaitRefundStarted", "Finished"} # {}
      BY DEF MakerEventsFor, Outcomes
    <2>3. E \cap Outcomes["maker"] # {} => E \cap {"MakerPaymentWaitRefundStarted", "Finished"} # {}
      BY <2>2 DEF Outcomes
    <2> HIDE DEF E
    <2>4. last'["maker"] \in OpenEvents["maker"]
            => E \cap {"MakerPaymentWaitRefundStarted", "Finished"} = {}
      <3>1. EndsWith(MakerEnds, E, last'["maker"]) BY <2>1 DEF ImportSwap, TypeOK
      <3> QED BY <3>1 DEF EndsWith, MakerEnds, OpenEvents
    <2> QED BY <1>3, <2>1, <2>3, <2>4
  <1>5. CASE RecreateTaker
    <2> DEFINE S == saved["maker"]
    <2> PICK h \in BOOLEAN :
          Loses("taker", "maker") /\ ImportSwap("taker", TakerEnds, TakerMade(S, h))
      BY <1>5 DEF RecreateTaker, TakerMade
    <2> DEFINE E == TakerMade(S, h)
    <2> DEFINE Late == {"TakerPaymentWaitRefundStarted", "TakerPaymentSpent", "Finished"}
    <2>1. \A e \in S : TakerEventsFor(e, h) \cap Outcomes["taker"] # {}
            => TakerEventsFor(e, h) \cap Late # {}
      BY DEF TakerEventsFor, Outcomes
    <2>2. E \cap Outcomes["taker"] # {} => E \cap Late # {}
      BY <2>1 DEF TakerMade, Outcomes
    <2> HIDE DEF E
    <2>3. last'["taker"] \in OpenEvents["taker"] => E \cap Late = {}
      <3>1. EndsWith(TakerEnds, E, last'["taker"]) BY DEF ImportSwap, TypeOK, E
      <3> QED BY <3>1 DEF EndsWith, TakerEnds, OpenEvents
    <2> QED BY <1>3, <2>2, <2>3 DEF E
  <1> QED BY <1>4, <1>5

-----------------------------------------------------------------------------
(* The theorems                                                            *)

\* What keeps a swap with a recreated record safe.
RecreatedInv == SwapV1Inv /\ RecordInv

\* At the start nothing is recorded, sent or paid ...
LEMMA RecreatedInit == Init => RecreatedInv
  <1> SUFFICES ASSUME Init PROVE RecordInv BY InvInit DEF RecreatedInv
  <1>1. \A s \in Sides : Reported(s) = {} /\ saved[s] = {} /\ cmd[s] = "Start"
    BY QueueElements DEF Init, Reported
  <1>2. "Start" \notin PaidCommands /\ "Start" \notin ReceivedCommands /\ "Start" \notin SentCommands
    BY DEF PaidCommands, ReceivedCommands, SentCommands
  <1>3. sent = {} BY DEF Init
  <1> QED BY <1>1, <1>2, <1>3 DEF RecordInv, StoppedSaved, MessagesTrue, MakerRecord, MakerWaits,
        TakerRecord, TakerWaits

\* ... and every step keeps the invariant, the making of a record included.
LEMMA RecreatedStep == RecreatedInv /\ [RecreatedNext]_vars => RecreatedInv'
  <1>1. ASSUME RecreatedInv, Next PROVE RecreatedInv'
    <2>1. /\ TypeOK /\ EventsTrue /\ CommandsTrue /\ ChainTrue /\ StoppedSaved /\ MessagesTrue
          /\ MakerRecord /\ MakerWaits /\ TakerRecord /\ TakerWaits
      BY <1>1 DEF RecreatedInv, SwapV1Inv, RecordInv
    <2>2. SwapV1Inv' BY <1>1, InvStep DEF RecreatedInv
    <2>3. RecordInv'
      BY <1>1, <2>1, StoppedStep, MessagesStep, MakerRecordStep, MakerWaitsStep, TakerRecordStep,
         TakerWaitsStep DEF RecordInv
    <2> QED BY <2>2, <2>3 DEF RecreatedInv
  <1>2. ASSUME RecreatedInv, UNCHANGED vars PROVE RecreatedInv'
    <2>1. SwapV1Inv' BY <1>2, InvStep DEF RecreatedInv
    <2>2. \A s \in Sides : Reported(s)' = Reported(s) BY <1>2 DEF Reported
    <2>3. RecordInv'
      BY <1>2, <2>2 DEF RecreatedInv, RecordInv, StoppedSaved, MessagesTrue, MakerRecord, MakerWaits,
         TakerRecord, TakerWaits, MakerUninformed, TakerUninformed
    <2> QED BY <2>1, <2>3 DEF RecreatedInv
  <1>3. ASSUME RecreatedInv, RecreateMaker PROVE RecreatedInv'
    BY <1>3, MakerImport DEF RecreatedInv
  <1>4. ASSUME RecreatedInv, RecreateTaker PROVE RecreatedInv'
    BY <1>4, TakerImport DEF RecreatedInv
  <1> QED BY <1>1, <1>2, <1>3, <1>4 DEF RecreatedNext

\* The inductive invariant of a swap whose sides crash, and one of whose records
\* is made from the other (recreate_swap_data.rs), for every bound.
THEOREM RecreatedInvHolds == RecreatedSpec => []RecreatedInv
  BY RecreatedInit, RecreatedStep, PTL DEF RecreatedSpec

\* Every variable keeps its type, the converted events included: what a conversion
\* makes are events of the side it is made for.
THEOREM RecreatedTyping == RecreatedSpec => []TypeOK
  <1>1. RecreatedInv => TypeOK BY DEF RecreatedInv, SwapV1Inv
  <1> QED BY <1>1, RecreatedInvHolds, PTL

\* A taker with a recreated record still pays, and a maker still publishes its
\* secret, only against a confirmed payment.
THEOREM RecreatedPaymentSafety == RecreatedSpec => []PaysAgainstConfirmed
  <1>1. RecreatedInv => PaysAgainstConfirmed BY DEF RecreatedInv, SwapV1Inv
  <1> QED BY <1>1, RecreatedInvHolds, PTL

\* Nor is a payment sent twice because the record of the first was lost:
\* check_if_my_payment_sent looks for it.
THEOREM RecreatedSinglePayment == RecreatedSpec => []PaidOnce
  <1>1. RecreatedInv => PaidOnce BY DEF RecreatedInv, SwapV1Inv
  <1> QED BY <1>1, RecreatedInvHolds, PTL

\* recover_funds stays open with a recreated record.
THEOREM RecreatedRecovery == RecreatedSpec => []FinishedCanRecover
  <1>1. RecreatedInv => FinishedCanRecover BY RecoverOpen DEF RecreatedInv
  <1> QED BY <1>1, RecreatedInvHolds, PTL

\* A guarded taker loses nothing, even with its record lost.
THEOREM RecreatedWatching == RecreatedSpec => []WatchedTakerLosesNothing
  <1>1. RecreatedInv => WatchedTakerLosesNothing BY GuardedSafe DEF RecreatedInv
  <1> QED BY <1>1, RecreatedInvHolds, PTL

\* The unwraps of refund_maker_payment, validate_maker_payment and
\* refund_taker_payment panic only over a payment no record told of.
THEOREM PanicSafety == RecreatedSpec => []PanicsUninformed
  <1>1. RecreatedInv => PanicsUninformed
    <2> SUFFICES ASSUME RecreatedInv PROVE PanicsUninformed OBVIOUS
    <2>1. cmd["maker"] = "Panicked" => lost = "maker" /\ ~Knows("taker", "MakerPaymentReceived")
      BY DEF RecreatedInv, RecordInv, MakerRecord, MakerUninformed
    <2>2. ASSUME cmd["taker"] = "Panicked"
          PROVE  \/ lost # "taker" /\ ~Knows("taker", "MakerPaymentReceived")
                 \/ lost = "taker" /\ ~Knows("maker", "TakerPaymentReceived")
      <3>1. ~Knows("taker", "MakerPaymentReceived") \/ TakerUninformed
        BY <2>2 DEF RecreatedInv, RecordInv, TakerRecord
      <3>2. lost = "taker" /\ ~Knows("taker", "MakerPaymentReceived")
              => ~Knows("maker", "TakerPaymentReceived")
        BY DEF RecreatedInv, RecordInv, MessagesTrue, Reported
      <3> QED BY <3>1, <3>2 DEF TakerUninformed
    <2> QED BY <2>1, <2>2 DEF PanicsUninformed
  <1> QED BY <1>1, RecreatedInvHolds, PTL

\* A conversion of recreate_swap_data.rs that stops at the first outcome of a record
\* misses nothing: the side saved no more than it reads.
THEOREM FinalOutcomes == RecreatedSpec => OutcomeIsFinal
  <1> DEFINE Final == \A s \in Sides : \A e \in saved'[s] \ saved[s] :
                        lost' = lost /\ e \in Converted[s] => saved[s] \cap Outcomes[s] = {}
  <1>1. Init => OutcomeInv
    <2> SUFFICES ASSUME Init PROVE OutcomeInv OBVIOUS
    <2>1. \A s \in Sides : Reported(s) = {} /\ saved[s] = {} /\ Elements(todo[s]) = {}
      BY QueueElements DEF Init, Reported
    <2> QED BY <2>1 DEF OutcomeInv, Decided
  <1>2. RecreatedInv /\ OutcomeInv /\ [RecreatedNext]_vars => OutcomeInv' /\ [Final]_vars
    <2>1. ASSUME RecreatedInv, OutcomeInv, Next PROVE OutcomeInv' /\ Final
      <3>1. TypeOK /\ EventsTrue /\ StoppedSaved
        BY <2>1 DEF RecreatedInv, SwapV1Inv, RecordInv
      <3> QED BY <2>1, <3>1, OutcomeStep
    <2>2. ASSUME RecreatedInv, OutcomeInv, RecreateMaker \/ RecreateTaker PROVE OutcomeInv' /\ Final
      <3>1. TypeOK /\ lost' # lost
        BY <2>2 DEF RecreatedInv, SwapV1Inv, RecreateMaker, RecreateTaker, Loses
      <3> QED BY <2>2, <3>1, OutcomeImport
    <2>3. ASSUME OutcomeInv, UNCHANGED vars PROVE OutcomeInv'
      BY <2>3 DEF OutcomeInv, Decided, Reported
    <2> QED BY <2>1, <2>2, <2>3 DEF RecreatedNext
  <1> QED BY <1>1, <1>2, RecreatedInvHolds, PTL DEF RecreatedSpec, OutcomeIsFinal

\* The making of a record moves no funds: with it the legacy swap still implements
\* AtomicSwap.
THEOREM RecreatedRefinement == RecreatedSpec => ImplementsAtomicSwap
  <1>1. Init => Atomic!Init BY AtomicInit
  <1>2. RecreatedInv /\ [RecreatedNext]_vars => [Atomic!Next]_(Atomic!swapVars)
    <2>1. ASSUME RecreatedInv, [Next]_vars PROVE [Atomic!Next]_(Atomic!swapVars)
      BY <2>1, AtomicStep DEF RecreatedInv
    <2>2. ASSUME RecreateMaker \/ RecreateTaker PROVE UNCHANGED Atomic!swapVars
      <3>1. tx' = tx /\ clock' = clock
        BY <2>2 DEF RecreateMaker, RecreateTaker, ImportSwap
      <3>2. TakerFunds' = TakerFunds /\ MakerFunds' = MakerFunds BY <3>1, FundsStay
      <3>3. MakerPaymentLock' = MakerPaymentLock BY DEF MakerPaymentLock
      <3> QED BY <3>1, <3>2, <3>3 DEF Atomic!swapVars, TakerFunds, MakerFunds
    <2> QED BY <2>1, <2>2 DEF RecreatedNext
  <1> QED BY <1>1, <1>2, RecreatedInvHolds, PTL DEF RecreatedSpec, ImplementsAtomicSwap, Atomic!Spec
==============================================================================
