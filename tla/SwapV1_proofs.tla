---------------------------- MODULE SwapV1_proofs ----------------------------
(***************************************************************************)
(* The safety of a legacy swap, for every lock duration and every bound:   *)
(* SwapV1Inv is inductive, the properties follow from it, and SwapV1       *)
(* implements AtomicSwap until the lock time of the maker's payment.       *)
(***************************************************************************)
EXTENDS SwapV1, TLAPS

\* What side s has reported: the events it has saved or has still to save.
Elements(q) == {q[i] : i \in DOMAIN q}
Reported(s) == saved[s] \cup Elements(todo[s])

\* An event that speaks of a transaction is reported after the chain took it.
EventsTrue ==
  /\ \A s \in Sides : last[s] \in saved[s] \cup {"None"}
  /\ "TakerPaymentValidatedAndConfirmed" \in Reported("maker") => tx["takerPayment"] = "confirmed"
  /\ "MakerPaymentRefunded" \in Reported("maker") => Live("makerPaymentRefund")
  /\ "TakerPaymentSpendConfirmed" \in Reported("maker") => Live("takerPaymentSpend")
  /\ "MakerPaymentValidatedAndConfirmed" \in Reported("taker")
       => tx["makerPayment"] = "confirmed" /\ Knows("taker", "MakerPaymentReceived")
  /\ "TakerPaymentSpent" \in Reported("taker") => Live("takerPaymentSpend")
  /\ Reported("taker") \cap {"TakerPaymentRefunded", "TakerPaymentRefundedByWatcher"} # {}
       => Live("takerPaymentRefund")
  /\ "MakerPaymentSpendConfirmed" \in Reported("taker") => Live("makerPaymentSpend")

\* A command that pays or claims runs only when what it relies on is there.
CommandsTrue ==
  /\ cmd["maker"] = "SpendTakerPayment" => tx["takerPayment"] = "confirmed"
  /\ cmd["taker"] = "SendTakerPayment"
       => tx["makerPayment"] = "confirmed" /\ Knows("taker", "MakerPaymentReceived")
  /\ cmd["taker"] = "SpendMakerPayment" => Live("takerPaymentSpend")
  /\ watcher \in {"AwaitMakerPaymentSpend", "SpendMakerPayment"} => Live("takerPaymentSpend")

\* Two transactions never spend one payment, a spent one is never lost, the
\* taker claims after the maker, and the maker takes back after its lock time.
ChainTrue ==
  /\ ~(Live("takerPaymentSpend") /\ Live("takerPaymentRefund"))
  /\ ~(Live("makerPaymentSpend") /\ Live("makerPaymentRefund"))
  /\ \A t \in SpendingTxs : Live(t) => Live(Spends[t])
  /\ Live("takerPayment") => Knows("taker", "MakerPaymentReceived")
  /\ Live("makerPaymentSpend") => Live("takerPaymentSpend")
  /\ Live("makerPaymentRefund") => clock > MakerPaymentLock

\* A taker that never crashed has not sent the fee before it is about to.
FeeUnsent ==
  restarts["taker"] = 0 =>
    /\ cmd["taker"] # "Down"
    /\ cmd["taker"] \in {"Start", "Negotiate", "SendTakerFee"} => ~Live("takerFee")

\* The watcher is never late while the taker is guarded: it is done before the
\* maker's lock time.
WatchedTrue ==
  guarded =>
    /\ tx["takerPayment"] = "confirmed"
    /\ watcher = "WaitForTakerPaymentSpend" =>
         /\ clock <= WatcherRefundTime + 1
         /\ clock > WatcherRefundTime => ~Live("takerPaymentSpend")
    /\ watcher = "AwaitMakerPaymentSpend" => clock <= TakerPaymentLock + 1
    /\ watcher = "SpendMakerPayment" => clock <= MakerPaymentLock
    /\ watcher = "RefundTakerPayment" =>
         clock <= MakerPaymentLock /\ clock > WatcherRefundTime /\ ~Live("takerPaymentSpend")
    /\ watcher \in {"Stopped", "ValidateTakerFee", "ValidateTakerPayment"} =>
         /\ Live("takerPaymentSpend") => Live("makerPaymentSpend")
         /\ Live("takerPaymentSpend") \/ Live("takerPaymentRefund")

SwapV1Inv ==
  /\ TypeOK /\ EventsTrue /\ CommandsTrue /\ ChainTrue /\ FeeUnsent /\ WatchedTrue
  /\ PaysAgainstConfirmed /\ PaidOnce
-----------------------------------------------------------------------------
\* Abbreviations and actions; what a proof is about is cited where it is used.
USE DEF Sides, vars, runVars, chainVars, watcherVars, Runs, Return, NextAwait, Knows,
        Fails, NoError, Broadcast, Txs, Payments, SpendingTxs, Spends, Live, Unspent,
        Submit, SubmitSpend, Refused
USE DEF MakerReturns, MakerFinishes, MakerRefunds, TakerReturns, TakerFinishes,
        TakerRefunds, TakerLoads, WatcherTo, WatcherIdle, WatcherFails

MakerStep == MakerHandler \/ MakerKickstart \/ MakerRecover
TakerStep == TakerHandler \/ TakerKickstart \/ TakerKickstartWatched \/ TakerRecover
ProcessStep == \E s \in Sides : SaveEvent(s) \/ Crash(s)
EnvironmentStep ==
  \/ \E t \in Payments \cup {"takerPaymentSpend", "makerPaymentSpend"} : Confirm(t)
  \/ \E p \in Payments : Drop(p)
  \/ Tick

\* A step belongs to the maker, the taker, the watcher, the disks or the world.
LEMMA NextSplit ==
  Next => MakerStep \/ TakerStep \/ WatcherNext \/ ProcessStep \/ EnvironmentStep
  BY DEF Next, MakerStep, TakerStep, ProcessStep, EnvironmentStep

USE DEF MakerHandler, MakerStart, MakerAnnounceNegotiation, MakerNegotiate, MakerAnnounceNegotiated,
  WaitTakerFee, MakerSendPayment, MakerAnnouncePayment, MakerConfirmOwnPayment,
  MakerWaitForTakerPayment, ValidateTakerPayment, SpendTakerPayment, ConfirmTakerPaymentSpend,
  PrepareForMakerPaymentRefund, RefundMakerPayment, MakerPanics, FinalizeMakerPaymentRefund,
  MakerFinish, MakerKickstart, MakerRecover
USE DEF TakerHandler, TakerStart, TakerReply, TakerNegotiate, SendTakerFee, TakerAnnounceFee,
  TakerWaitForMakerPayment, ValidateMakerPayment, TakerPanics, TakerSendPayment,
  TakerMessagesWatchers, TakerAnnouncePayment, TakerWaitForPaymentSpend, SpendMakerPayment,
  ConfirmMakerPaymentSpend, PrepareForTakerPaymentRefund, RefundTakerPayment,
  FinalizeTakerPaymentRefund, TakerFinish, TakerKickstart, TakerKickstartWatched, TakerRecover
USE DEF WatcherNext, WatcherSpawn, WatcherValidateTakerFee, WatcherValidateTakerPayment,
  WatcherWaitForTakerPaymentSpend, WatcherAwaitMakerPaymentSpend, WatcherSpendMakerPayment,
  WatcherRefundTakerPayment, SaveEvent, Crash, Confirm, Drop, Tick

\* The commands a restart goes on with.
LEMMA MakerCommandType ==
  ASSUME NEW e \in MakerEvents \cup {"None"}
  PROVE  /\ MakerCommand(e) \in Commands["maker"]
         /\ MakerCommand(e) = "SpendTakerPayment" => e = "TakerPaymentValidatedAndConfirmed"
  BY DEF MakerEvents, MakerCommand, Commands

\* The same for the taker, which no restart takes back to the start.
LEMMA TakerCommandType ==
  ASSUME NEW e \in TakerEvents \cup {"None"}
  PROVE  /\ TakerCommand(e) \in Commands["taker"]
         /\ TakerCommand(e) \notin {"Start", "Down"}
         /\ TakerCommand(e) = "SendTakerPayment" => e = "MakerPaymentValidatedAndConfirmed"
         /\ TakerCommand(e) = "SpendMakerPayment" => e = "TakerPaymentSpent"
  BY DEF TakerEvents, TakerCommand, Commands

\* What a step does to the chains, and what it relies on.
ChainMove ==
  \/ UNCHANGED chainVars
  \/ Submit("takerFee") /\ cmd["taker"] = "SendTakerFee" /\ cmd'["taker"] = "WaitForMakerPayment"
  \/ Submit("makerPayment") /\ ~Live("makerPayment")
  \/ Submit("takerPayment") /\ ~Live("takerPayment") /\ cmd["taker"] = "SendTakerPayment"
  \/ SubmitSpend("takerPaymentSpend") /\ cmd["maker"] = "SpendTakerPayment"
       /\ clock <= TakerPaymentSpendDeadline
  \/ /\ SubmitSpend("makerPaymentSpend")
     /\ \/ cmd["taker"] = "SpendMakerPayment" \/ watcher = "SpendMakerPayment"
        \/ Live("takerPaymentSpend")
  \/ SubmitSpend("takerPaymentRefund")
  \/ SubmitSpend("makerPaymentRefund") /\ clock > MakerPaymentLock
  \/ \E t \in Payments \cup {"takerPaymentSpend", "makerPaymentSpend"} : Confirm(t)
  \/ \E p \in Payments : Drop(p)

\* There is no other move.
LEMMA ChainMoves == ASSUME DOMAIN cmd = Sides, Next PROVE ChainMove
  <1> USE DEF ChainMove
  <1>1. CASE MakerStep BY <1>1 DEF MakerStep
  <1>2. CASE TakerStep BY <1>2 DEF TakerStep, TakerCanRecover
  <1>3. CASE WatcherNext BY <1>3
  <1>4. CASE ProcessStep BY <1>4 DEF ProcessStep
  <1>5. CASE EnvironmentStep BY <1>5 DEF EnvironmentStep
  <1> QED BY <1>1, <1>2, <1>3, <1>4, <1>5, NextSplit

\* What was saved stays.
LEMMA SavedGrows ==
  ASSUME DOMAIN saved = Sides, Next
  PROVE  DOMAIN saved' = Sides /\ \A s \in Sides : saved[s] \subseteq saved'[s]
  <1>1. CASE MakerStep BY <1>1 DEF MakerStep
  <1>2. CASE TakerStep BY <1>2 DEF TakerStep
  <1>3. CASE WatcherNext BY <1>3
  <1>4. CASE ProcessStep BY <1>4 DEF ProcessStep
  <1>5. CASE EnvironmentStep BY <1>5 DEF EnvironmentStep
  <1> QED BY <1>1, <1>2, <1>3, <1>4, <1>5, NextSplit

\* The variables that are neither of the runs nor of the chains.
LEMMA OtherTypes ==
  ASSUME Next, step \in [Sides -> {1, 2}], restarts \in [Sides -> 0..MaxCrashes],
         sent \subseteq Kinds, errors \in 0..MaxErrors, watcher \in WatcherStates,
         guarded \in BOOLEAN, clock \in 0..MaxTime, lost \in Sides \cup {"none"}
  PROVE  /\ step' \in [Sides -> {1, 2}] /\ restarts' \in [Sides -> 0..MaxCrashes]
         /\ sent' \subseteq Kinds /\ errors' \in 0..MaxErrors
         /\ watcher' \in WatcherStates /\ guarded' \in BOOLEAN /\ clock' \in 0..MaxTime
         /\ lost' \in Sides \cup {"none"}
  <1> USE SwapV1Assumption DEF SwapV1Assumption
  <1>1. step' \in [Sides -> {1, 2}]
    <2>1. CASE MakerStep BY <2>1 DEF MakerStep
    <2>2. CASE TakerStep BY <2>2 DEF TakerStep
    <2>3. CASE WatcherNext BY <2>3
    <2>4. CASE ProcessStep BY <2>4 DEF ProcessStep
    <2>5. CASE EnvironmentStep BY <2>5 DEF EnvironmentStep
    <2> QED BY <2>1, <2>2, <2>3, <2>4, <2>5, NextSplit
  <1>2. restarts' \in [Sides -> 0..MaxCrashes]
    <2>1. CASE MakerStep BY <2>1 DEF MakerStep
    <2>2. CASE TakerStep BY <2>2 DEF TakerStep
    <2>3. CASE WatcherNext BY <2>3
    <2>4. CASE ProcessStep BY <2>4 DEF ProcessStep
    <2>5. CASE EnvironmentStep BY <2>5 DEF EnvironmentStep
    <2> QED BY <2>1, <2>2, <2>3, <2>4, <2>5, NextSplit
  <1>3. sent' \subseteq Kinds
    <2> USE DEF Kinds
    <2>1. CASE MakerStep BY <2>1 DEF MakerStep
    <2>2. CASE TakerStep BY <2>2 DEF TakerStep
    <2>3. CASE WatcherNext BY <2>3
    <2>4. CASE ProcessStep BY <2>4 DEF ProcessStep
    <2>5. CASE EnvironmentStep BY <2>5 DEF EnvironmentStep
    <2> QED BY <2>1, <2>2, <2>3, <2>4, <2>5, NextSplit
  <1>4. errors' \in 0..MaxErrors
    <2>1. CASE MakerStep BY <2>1 DEF MakerStep
    <2>2. CASE TakerStep BY <2>2 DEF TakerStep
    <2>3. CASE WatcherNext BY <2>3
    <2>4. CASE ProcessStep BY <2>4 DEF ProcessStep
    <2>5. CASE EnvironmentStep BY <2>5 DEF EnvironmentStep
    <2> QED BY <2>1, <2>2, <2>3, <2>4, <2>5, NextSplit
  <1>5. watcher' \in WatcherStates
    <2> USE DEF WatcherStates
    <2>1. CASE MakerStep BY <2>1 DEF MakerStep
    <2>2. CASE TakerStep BY <2>2 DEF TakerStep
    <2>3. CASE WatcherNext BY <2>3
    <2>4. CASE ProcessStep BY <2>4 DEF ProcessStep
    <2>5. CASE EnvironmentStep BY <2>5 DEF EnvironmentStep
    <2> QED BY <2>1, <2>2, <2>3, <2>4, <2>5, NextSplit
  <1>6. guarded' \in BOOLEAN
    <2>1. CASE MakerStep BY <2>1 DEF MakerStep
    <2>2. CASE TakerStep BY <2>2 DEF TakerStep
    <2>3. CASE WatcherNext BY <2>3
    <2>4. CASE ProcessStep BY <2>4 DEF ProcessStep
    <2>5. CASE EnvironmentStep
      <3>1. (guarded /\ ~WatcherBehind) \in BOOLEAN OBVIOUS
      <3> QED BY <3>1, <2>5 DEF EnvironmentStep
    <2> QED BY <2>1, <2>2, <2>3, <2>4, <2>5, NextSplit
  <1>7. clock' \in 0..MaxTime
    <2>1. CASE MakerStep BY <2>1 DEF MakerStep
    <2>2. CASE TakerStep BY <2>2 DEF TakerStep
    <2>3. CASE WatcherNext BY <2>3
    <2>4. CASE ProcessStep BY <2>4 DEF ProcessStep
    <2>5. CASE EnvironmentStep BY <2>5 DEF EnvironmentStep
    <2> QED BY <2>1, <2>2, <2>3, <2>4, <2>5, NextSplit
  <1>8. lost' \in Sides \cup {"none"}
    <2>1. CASE MakerStep BY <2>1 DEF MakerStep
    <2>2. CASE TakerStep BY <2>2 DEF TakerStep
    <2>3. CASE WatcherNext BY <2>3
    <2>4. CASE ProcessStep BY <2>4 DEF ProcessStep
    <2>5. CASE EnvironmentStep BY <2>5 DEF EnvironmentStep
    <2> QED BY <2>1, <2>2, <2>3, <2>4, <2>5, NextSplit
  <1> QED BY <1>1, <1>2, <1>3, <1>4, <1>5, <1>6, <1>7, <1>8

\* The moves keep the types of the chains.
LEMMA ChainTypes ==
  ASSUME ChainMove, tx \in [Txs -> {"none", "mempool", "confirmed"}], repeats \subseteq Txs,
         drops \in 0..MaxDrops
  PROVE  /\ tx' \in [Txs -> {"none", "mempool", "confirmed"}] /\ repeats' \subseteq Txs
         /\ drops' \in 0..MaxDrops
  BY SwapV1Assumption DEF SwapV1Assumption, ChainMove

\* A queue of events, written out or read.
LEMMA QueueTypes ==
  ASSUME NEW S
  PROVE  /\ <<>> \in Seq(S)
         /\ \A a \in S : <<a>> \in Seq(S)
         /\ \A a, b \in S : <<a, b>> \in Seq(S)
         /\ \A a, b, c \in S : <<a, b, c>> \in Seq(S)
         /\ \A q \in Seq(S) : q # <<>> => Head(q) \in S /\ Tail(q) \in Seq(S)
  OBVIOUS

\* The events of the queues the commands write out ...
LEMMA QueueElements ==
  /\ Elements(<<>>) = {}
  /\ \A a : Elements(<<a>>) = {a}
  /\ \A a, b : Elements(<<a, b>>) = {a, b}
  /\ \A a, b, c : Elements(<<a, b, c>>) = {a, b, c}
  BY DEF Elements

\* ... and of the queue an event is taken from.
LEMMA QueueSplits ==
  ASSUME NEW S, NEW q \in Seq(S), q # <<>>
  PROVE  Elements(q) = {Head(q)} \cup Elements(Tail(q))
  <1>1. Len(q) \in Nat \ {0} /\ DOMAIN q = 1..Len(q) /\ Head(q) = q[1]
    OBVIOUS
  <1>2. DOMAIN Tail(q) = 1..(Len(q) - 1) /\ \A i \in 1..(Len(q) - 1) : Tail(q)[i] = q[i + 1]
    BY <1>1
  <1>3. ASSUME NEW e \in Elements(q) PROVE e \in {Head(q)} \cup Elements(Tail(q))
    <2> PICK i \in 1..Len(q) : e = q[i] BY <1>1 DEF Elements
    <2>1. CASE i = 1 BY <2>1, <1>1
    <2>2. CASE i # 1
      <3>1. i - 1 \in 1..(Len(q) - 1) /\ (i - 1) + 1 = i BY <2>2, <1>1
      <3> QED BY <3>1, <1>2 DEF Elements
    <2> QED BY <2>1, <2>2
  <1>4. ASSUME NEW e \in {Head(q)} \cup Elements(Tail(q)) PROVE e \in Elements(q)
    <2>1. CASE e = Head(q) BY <2>1, <1>1 DEF Elements
    <2>2. CASE e \in Elements(Tail(q))
      <3> PICK i \in 1..(Len(q) - 1) : e = Tail(q)[i] BY <2>2, <1>2 DEF Elements
      <3>1. i + 1 \in 1..Len(q) /\ e = q[i + 1] BY <1>1, <1>2
      <3> QED BY <3>1, <1>1 DEF Elements
    <2> QED BY <2>1, <2>2
  <1> QED BY <1>3, <1>4

-----------------------------------------------------------------------------
(* Types                                                                   *)

\* The command after a handler or a restart, and the events it returned.
LEMMA CommandTypes ==
  ASSUME TypeOK, Next
  PROVE  DOMAIN cmd' = Sides /\ \A s \in Sides : cmd'[s] \in Commands[s]
  <1>0. DOMAIN cmd = Sides /\ cmd["maker"] \in Commands["maker"] /\ cmd["taker"] \in Commands["taker"]
    BY DEF TypeOK
  <1>1. MakerCommand(last["maker"]) \in Commands["maker"] 
        /\ TakerCommand(last["taker"]) \in Commands["taker"]
    BY MakerCommandType, TakerCommandType DEF TypeOK, Events
  <1>2. CASE MakerStep BY <1>0, <1>1, <1>2 DEF MakerStep, Commands
  <1>3. CASE TakerStep BY <1>0, <1>1, <1>3 DEF TakerStep, Commands
  <1>4. CASE WatcherNext BY <1>0, <1>4
  <1>5. CASE ProcessStep BY <1>0, <1>5 DEF ProcessStep, Commands
  <1>6. CASE EnvironmentStep BY <1>0, <1>6 DEF EnvironmentStep
  <1> QED BY <1>2, <1>3, <1>4, <1>5, <1>6, NextSplit

\* What the commands of a side return.
MakerBatches ==
  {<<"Started">>, <<"StartFailed">>,
   <<"Negotiated">>, <<"NegotiateFailed">>,
   <<"MakerPaymentInstructionsReceived", "TakerFeeValidated">>, <<"TakerFeeValidateFailed">>,
   <<"MakerPaymentSent">>, <<"MakerPaymentTransactionFailed">>,
   <<"MakerPaymentWaitConfirmFailed", "MakerPaymentWaitRefundStarted">>,
   <<"TakerPaymentReceived", "TakerPaymentWaitConfirmStarted">>,
   <<"TakerPaymentValidateFailed", "MakerPaymentWaitRefundStarted">>,
   <<"TakerPaymentValidatedAndConfirmed">>,
   <<"TakerPaymentWaitConfirmFailed", "MakerPaymentWaitRefundStarted">>,
   <<"TakerPaymentSpent", "TakerPaymentSpendConfirmStarted">>,
   <<"TakerPaymentSpendFailed", "MakerPaymentWaitRefundStarted">>,
   <<"TakerPaymentSpendConfirmed">>,
   <<"TakerPaymentSpendConfirmFailed", "MakerPaymentWaitRefundStarted">>,
   <<"MakerPaymentRefundStarted">>, <<"MakerPaymentRefunded">>, <<"MakerPaymentRefundFailed">>,
   <<"MakerPaymentRefundFinished">>, <<"Finished">>}
TakerBatches ==
  {<<"Started">>, <<"StartFailed">>,
   <<"NegotiateFailed">>, <<"Negotiated">>, <<"TakerFeeSent">>, <<"TakerFeeSendFailed">>,
   <<"TakerPaymentInstructionsReceived", "MakerPaymentReceived", "MakerPaymentWaitConfirmStarted">>,
   <<"MakerPaymentValidateFailed">>, <<"MakerPaymentValidatedAndConfirmed">>,
   <<"MakerPaymentWaitConfirmFailed">>, <<"TakerPaymentTransactionFailed">>,
   <<"TakerPaymentSent", "WatcherMessageSent">>, <<"TakerPaymentSent">>, <<"TakerPaymentSpent">>,
   <<"TakerPaymentWaitForSpendFailed">>,
   <<"TakerPaymentWaitForSpendFailed", "TakerPaymentWaitRefundStarted">>,
   <<"MakerPaymentSpent">>, <<"MakerPaymentSpendFailed">>, <<"MakerPaymentSpendConfirmed">>,
   <<"MakerPaymentSpendConfirmFailed", "TakerPaymentWaitRefundStarted">>,
   <<"TakerPaymentRefundStarted">>, <<"TakerPaymentRefunded">>, <<"TakerPaymentRefundFailed">>,
   <<"TakerPaymentRefundFinished">>, <<"Finished">>}

\* The maker only queues what its commands return, and only when all was saved.
LEMMA MakerReturnsBatch ==
  ASSUME DOMAIN todo = Sides, MakerStep
  PROVE  /\ DOMAIN todo' = Sides /\ todo'["taker"] = todo["taker"]
         /\ todo'["maker"] # todo["maker"] => todo["maker"] = <<>> /\ todo'["maker"] \in MakerBatches
         /\ saved' = saved /\ last' = last
  BY DEF MakerStep, MakerBatches

\* So does the taker.
LEMMA TakerReturnsBatch ==
  ASSUME DOMAIN todo = Sides, TakerStep
  PROVE  /\ DOMAIN todo' = Sides /\ todo'["maker"] = todo["maker"]
         /\ todo'["taker"] # todo["taker"] => todo["taker"] = <<>> /\ todo'["taker"] \in TakerBatches
  BY DEF TakerStep, TakerBatches

\* What is returned are events of the side.
LEMMA BatchTypes == MakerBatches \subseteq Seq(MakerEvents) /\ TakerBatches \subseteq Seq(TakerEvents)
  <1>1. MakerBatches \subseteq Seq(MakerEvents)
    BY QueueTypes DEF MakerBatches, MakerEvents
  <1>2. TakerBatches \subseteq Seq(TakerEvents)
    BY QueueTypes DEF TakerBatches, TakerEvents
  <1> QED BY <1>1, <1>2

\* What is queued, saved and last saved are events of the side.
LEMMA EventTypes ==
  ASSUME TypeOK, Next
  PROVE  /\ DOMAIN todo' = Sides /\ DOMAIN saved' = Sides /\ DOMAIN last' = Sides
         /\ \A s \in Sides : /\ saved'[s] \subseteq Events[s] /\ todo'[s] \in Seq(Events[s])
                             /\ last'[s] \in Events[s] \cup {"None"}
  <1>0. /\ DOMAIN todo = Sides /\ DOMAIN saved = Sides /\ DOMAIN last = Sides
        /\ \A s \in Sides : /\ saved[s] \subseteq Events[s] /\ todo[s] \in Seq(Events[s])
                            /\ last[s] \in Events[s] \cup {"None"}
    BY DEF TypeOK
  <1>1. CASE MakerStep
    BY <1>0, <1>1, MakerReturnsBatch, BatchTypes DEF Events
  <1>2. CASE TakerStep
    <2>1. /\ DOMAIN saved' = Sides /\ DOMAIN last' = Sides
          /\ saved'["maker"] = saved["maker"] /\ last'["maker"] = last["maker"]
          /\ saved'["taker"] \subseteq Events["taker"]
          /\ last'["taker"] \in Events["taker"] \cup {"None"}
      BY <1>0, <1>2 DEF TakerStep, Events, TakerEvents
    <2> QED BY <1>0, <1>2, <2>1, TakerReturnsBatch, BatchTypes DEF Events
  <1>3. CASE WatcherNext BY <1>0, <1>3
  <1>4. CASE ProcessStep
    <2> PICK s \in Sides : SaveEvent(s) \/ Crash(s) BY <1>4 DEF ProcessStep
    <2>1. <<>> \in Seq(Events[s])
          /\ (todo[s] # <<>> => Head(todo[s]) \in Events[s] /\ Tail(todo[s]) \in Seq(Events[s]))
      BY <1>0, QueueTypes
    <2>2. CASE SaveEvent(s) BY <1>0, <2>1, <2>2
    <2>3. CASE Crash(s) BY <1>0, <2>1, <2>3
    <2> QED BY <2>2, <2>3
  <1>5. CASE EnvironmentStep BY <1>0, <1>5 DEF EnvironmentStep
  <1> QED BY <1>1, <1>2, <1>3, <1>4, <1>5, NextSplit

\* Every step keeps the types.
LEMMA TypeStep == ASSUME TypeOK, Next PROVE TypeOK'
  <1>1. ChainMove BY ChainMoves DEF TypeOK
  <1>2. /\ tx' \in [Txs -> {"none", "mempool", "confirmed"}] /\ repeats' \subseteq Txs
        /\ drops' \in 0..MaxDrops
    BY <1>1, ChainTypes DEF TypeOK
  <1> QED BY <1>2, OtherTypes, CommandTypes, EventTypes DEF TypeOK

-----------------------------------------------------------------------------
(* What is reported is true.                                               *)

\* A new report, and the step that makes it.
LEMMA MakerReports ==
  ASSUME TypeOK, MakerStep
  PROVE  \A e \in Reported("maker")' \ Reported("maker") :
           /\ e = "TakerPaymentValidatedAndConfirmed" => tx["takerPayment"] = "confirmed"
           /\ e = "MakerPaymentRefunded" => SubmitSpend("makerPaymentRefund")
           /\ e = "TakerPaymentSpendConfirmed" => tx["takerPaymentSpend"] = "confirmed"
  <1>1. \A q \in MakerBatches :
          /\ "TakerPaymentValidatedAndConfirmed" \in Elements(q)
               => q = <<"TakerPaymentValidatedAndConfirmed">>
          /\ "MakerPaymentRefunded" \in Elements(q) => q = <<"MakerPaymentRefunded">>
          /\ "TakerPaymentSpendConfirmed" \in Elements(q) => q = <<"TakerPaymentSpendConfirmed">>
    BY QueueElements DEF MakerBatches
  <1>2. DOMAIN todo = Sides BY DEF TypeOK
  <1>3. SUFFICES ASSUME NEW e \in Elements(todo'["maker"]), e \notin Elements(todo["maker"])
        PROVE /\ e = "TakerPaymentValidatedAndConfirmed" => tx["takerPayment"] = "confirmed"
              /\ e = "MakerPaymentRefunded" => SubmitSpend("makerPaymentRefund")
              /\ e = "TakerPaymentSpendConfirmed" => tx["takerPaymentSpend"] = "confirmed"
    BY <1>2, MakerReturnsBatch DEF Reported
  <1>4. todo'["maker"] # todo["maker"] /\ todo'["maker"] \in MakerBatches
    BY <1>2, <1>3, MakerReturnsBatch
  <1>5. CASE e = "TakerPaymentValidatedAndConfirmed"
    <2>1. todo'["maker"] = <<"TakerPaymentValidatedAndConfirmed">> BY <1>1, <1>3, <1>4, <1>5
    <2>2. tx["takerPayment"] = "confirmed" BY <1>2, <1>4, <2>1 DEF MakerStep, Confirmed
    <2> QED BY <1>5, <2>2
  <1>6. CASE e = "MakerPaymentRefunded"
    <2>1. todo'["maker"] = <<"MakerPaymentRefunded">> BY <1>1, <1>3, <1>4, <1>6
    <2>2. SubmitSpend("makerPaymentRefund") BY <1>2, <1>4, <2>1 DEF MakerStep
    <2> QED BY <1>6, <2>2
  <1>7. CASE e = "TakerPaymentSpendConfirmed"
    <2>1. todo'["maker"] = <<"TakerPaymentSpendConfirmed">> BY <1>1, <1>3, <1>4, <1>7
    <2>2. tx["takerPaymentSpend"] = "confirmed" BY <1>2, <1>4, <2>1 DEF MakerStep, Confirmed
    <2> QED BY <1>7, <2>2
  <1> QED BY <1>5, <1>6, <1>7

\* The same for the taker, whose restart reports the watcher's work too.
LEMMA TakerReports ==
  ASSUME TypeOK, TakerStep
  PROVE  \A e \in Reported("taker")' \ Reported("taker") :
           /\ e = "MakerPaymentValidatedAndConfirmed"
                => tx["makerPayment"] = "confirmed" /\ Knows("taker", "MakerPaymentReceived")
           /\ e = "TakerPaymentSpent"
                => Live("takerPaymentSpend") \/ Live("makerPaymentSpend")
           /\ e = "TakerPaymentRefunded" => SubmitSpend("takerPaymentRefund")
           /\ e = "TakerPaymentRefundedByWatcher" => Live("takerPaymentRefund") /\ UNCHANGED tx
           /\ e = "MakerPaymentSpendConfirmed" => tx["makerPaymentSpend"] = "confirmed"
  <1> DEFINE True(e) ==
           /\ e = "MakerPaymentValidatedAndConfirmed"
                => tx["makerPayment"] = "confirmed" /\ Knows("taker", "MakerPaymentReceived")
           /\ e = "TakerPaymentSpent"
                => Live("takerPaymentSpend") \/ Live("makerPaymentSpend")
           /\ e = "TakerPaymentRefunded" => SubmitSpend("takerPaymentRefund")
           /\ e = "TakerPaymentRefundedByWatcher" => Live("takerPaymentRefund") /\ UNCHANGED tx
           /\ e = "MakerPaymentSpendConfirmed" => tx["makerPaymentSpend"] = "confirmed"
  <1>1. \A q \in TakerBatches :
          /\ "MakerPaymentValidatedAndConfirmed" \in Elements(q)
               => q = <<"MakerPaymentValidatedAndConfirmed">>
          /\ "TakerPaymentSpent" \in Elements(q) => q = <<"TakerPaymentSpent">>
          /\ "TakerPaymentRefunded" \in Elements(q) => q = <<"TakerPaymentRefunded">>
          /\ "TakerPaymentRefundedByWatcher" \notin Elements(q)
          /\ "MakerPaymentSpendConfirmed" \in Elements(q) => q = <<"MakerPaymentSpendConfirmed">>
    BY QueueElements DEF TakerBatches
  <1>2. DOMAIN todo = Sides /\ DOMAIN saved = Sides BY DEF TypeOK
  <1>3. ASSUME NEW e \in saved'["taker"], e \notin saved["taker"] PROVE True(e)
    BY <1>2, <1>3 DEF TakerStep
  <1>4. ASSUME NEW e \in Elements(todo'["taker"]), e \notin Elements(todo["taker"]) PROVE True(e)
    <2>1. todo'["taker"] # todo["taker"] /\ todo'["taker"] \in TakerBatches
      BY <1>2, <1>4, TakerReturnsBatch
    <2>2. CASE e = "MakerPaymentValidatedAndConfirmed"
      <3>1. todo'["taker"] = <<"MakerPaymentValidatedAndConfirmed">> BY <1>1, <1>4, <2>1, <2>2
      <3>2. tx["makerPayment"] = "confirmed" /\ Knows("taker", "MakerPaymentReceived")
        BY <1>2, <2>1, <3>1 DEF TakerStep, Confirmed
      <3> QED BY <2>2, <3>2
    <2>3. CASE e = "TakerPaymentSpent"
      <3>1. todo'["taker"] = <<"TakerPaymentSpent">> BY <1>1, <1>4, <2>1, <2>3
      <3>2. Live("takerPaymentSpend") BY <1>2, <2>1, <3>1 DEF TakerStep
      <3> QED BY <2>3, <3>2
    <2>4. CASE e = "TakerPaymentRefunded"
      <3>1. todo'["taker"] = <<"TakerPaymentRefunded">> BY <1>1, <1>4, <2>1, <2>4
      <3>2. SubmitSpend("takerPaymentRefund") BY <1>2, <2>1, <3>1 DEF TakerStep
      <3> QED BY <2>4, <3>2
    <2>5. CASE e = "MakerPaymentSpendConfirmed"
      <3>1. todo'["taker"] = <<"MakerPaymentSpendConfirmed">> BY <1>1, <1>4, <2>1, <2>5
      <3>2. tx["makerPaymentSpend"] = "confirmed" BY <1>2, <2>1, <3>1 DEF TakerStep, Confirmed
      <3> QED BY <2>5, <3>2
    <2>6. e # "TakerPaymentRefundedByWatcher" BY <1>1, <1>4, <2>1
    <2> QED BY <2>2, <2>3, <2>4, <2>5, <2>6
  <1> QED BY <1>3, <1>4 DEF Reported

\* Saving a report and losing one report nothing new.
LEMMA ProcessReports ==
  ASSUME TypeOK, ProcessStep
  PROVE  /\ \A s \in Sides : Reported(s)' \subseteq Reported(s)
         /\ \A s \in Sides : last'[s] = last[s] \/ last'[s] \in saved'[s]
  <1> PICK p \in Sides : SaveEvent(p) \/ Crash(p) BY DEF ProcessStep
  <1>1. /\ DOMAIN todo = Sides /\ DOMAIN saved = Sides /\ DOMAIN last = Sides
        /\ todo[p] \in Seq(Events[p])
    BY DEF TypeOK
  <1>2. CASE SaveEvent(p)
    <2>1. Elements(todo[p]) = {Head(todo[p])} \cup Elements(Tail(todo[p]))
      BY <1>1, <1>2, QueueSplits
    <2>2. \A s \in Sides : Reported(s)' \subseteq Reported(s) BY <1>1, <1>2, <2>1 DEF Reported
    <2>3. \A s \in Sides : last'[s] = last[s] \/ last'[s] \in saved'[s] BY <1>1, <1>2
    <2> QED BY <2>2, <2>3
  <1>3. CASE Crash(p)
    <2>1. Elements(<<>>) = {} BY QueueElements
    <2>2. \A s \in Sides : Elements(todo'[s]) \subseteq Elements(todo[s])
      BY <1>1, <1>3, <2>1
    <2> QED BY <1>3, <2>2 DEF Reported
  <1> QED BY <1>2, <1>3

\* What is on a chain stays there, but for an unconfirmed payment nobody spends.
LEMMA ChainStable ==
  ASSUME tx \in [Txs -> {"none", "mempool", "confirmed"}], ChainTrue, ChainMove
  PROVE  /\ \A p \in Payments : tx[p] = "confirmed" => tx'[p] = "confirmed"
         /\ \A t \in SpendingTxs : Live(t) => Live(t)'
  BY DEF ChainMove, ChainTrue

\* Every step keeps the reports true.
LEMMA EventsStep == ASSUME TypeOK, EventsTrue, ChainTrue, PaysAgainstConfirmed, Next PROVE EventsTrue'
  <1>1. /\ \A p \in Payments : tx[p] = "confirmed" => tx'[p] = "confirmed"
        /\ \A t \in SpendingTxs : Live(t) => Live(t)'
    BY ChainMoves, ChainStable DEF TypeOK
  <1>2. tx \in [Txs -> {"none", "mempool", "confirmed"}] BY DEF TypeOK
  <1>3. Knows("taker", "MakerPaymentReceived") => Knows("taker", "MakerPaymentReceived")'
    BY SavedGrows DEF TypeOK
  <1> DEFINE MakerTrue(e) ==
           /\ e = "TakerPaymentValidatedAndConfirmed" => tx["takerPayment"] = "confirmed"
           /\ e = "MakerPaymentRefunded" => Live("makerPaymentRefund")
           /\ e = "TakerPaymentSpendConfirmed" => Live("takerPaymentSpend")
  <1> DEFINE TakerTrue(e) ==
           /\ e = "MakerPaymentValidatedAndConfirmed"
                => tx["makerPayment"] = "confirmed" /\ Knows("taker", "MakerPaymentReceived")
           /\ e = "TakerPaymentSpent" => Live("takerPaymentSpend")
           /\ e \in {"TakerPaymentRefunded", "TakerPaymentRefundedByWatcher"}
                => Live("takerPaymentRefund")
           /\ e = "MakerPaymentSpendConfirmed" => Live("makerPaymentSpend")
  <1>4. /\ \A e \in Reported("maker") : MakerTrue(e)' 
        /\ \A e \in Reported("taker") : TakerTrue(e)'
    <2>1. /\ \A e \in Reported("maker") : MakerTrue(e) 
          /\ \A e \in Reported("taker") : TakerTrue(e)
      BY DEF EventsTrue
    <2> QED BY <1>1, <1>3, <2>1
  <1>5. CASE MakerStep
    <2>1. \A e \in Reported("maker")' \ Reported("maker") : MakerTrue(e)'
      BY <1>1, <1>2, <1>5, MakerReports
    <2>2. Reported("taker")' = Reported("taker") /\ saved' = saved /\ last' = last
      BY <1>5, MakerReturnsBatch DEF TypeOK, Reported
    <2> QED BY <1>4, <2>1, <2>2 DEF EventsTrue
  <1>6. CASE TakerStep
    <2>1. \A e \in Reported("taker")' \ Reported("taker") : TakerTrue(e)'
      BY <1>1, <1>2, <1>3, <1>6, TakerReports DEF ChainTrue
    <2>2. Reported("maker")' = Reported("maker")
      <3>1. saved'["maker"] = saved["maker"] BY <1>6 DEF TakerStep, TypeOK
      <3> QED BY <1>6, <3>1, TakerReturnsBatch DEF TypeOK, Reported
    <2>3. \A s \in Sides : last'[s] \in saved'[s] \cup {"None"}
      BY <1>6 DEF TakerStep, TypeOK, EventsTrue
    <2> QED BY <1>4, <2>1, <2>2, <2>3 DEF EventsTrue
  <1>7. CASE WatcherNext \/ EnvironmentStep
    <2>1. saved' = saved /\ last' = last /\ todo' = todo
      BY <1>7 DEF EnvironmentStep
    <2> QED BY <1>4, <2>1 DEF EventsTrue, Reported
  <1>8. CASE ProcessStep
    <2>1. \A s \in Sides : last'[s] \in saved'[s] \cup {"None"}
      BY <1>8, ProcessReports, SavedGrows DEF TypeOK, EventsTrue
    <2> QED BY <1>4, <1>8, <2>1, ProcessReports DEF EventsTrue
  <1> QED BY <1>5, <1>6, <1>7, <1>8, NextSplit

-----------------------------------------------------------------------------
(* The commands and the chains.                                            *)

\* A command that relies on the chains is reached by a check or by a true report.
LEMMA CommandsStep == ASSUME TypeOK, EventsTrue, CommandsTrue, ChainTrue, Next PROVE CommandsTrue'
  <1>0. DOMAIN cmd = Sides BY DEF TypeOK
  <1>1. /\ \A p \in Payments : tx[p] = "confirmed" => tx'[p] = "confirmed"
        /\ \A t \in SpendingTxs : Live(t) => Live(t)'
    BY ChainMoves, ChainStable DEF TypeOK
  <1>2. Knows("taker", "MakerPaymentReceived") => Knows("taker", "MakerPaymentReceived")'
    BY SavedGrows DEF TypeOK
  <1>3. cmd'["maker"] = "SpendTakerPayment" => tx["takerPayment"] = "confirmed"
    <2>0. MakerCommand(last["maker"]) = "SpendTakerPayment" => tx["takerPayment"] = "confirmed"
      BY MakerCommandType DEF TypeOK, Events, EventsTrue, Reported
    <2>1. CASE MakerStep BY <1>0, <2>0, <2>1 DEF MakerStep, CommandsTrue, Confirmed
    <2>2. CASE TakerStep BY <1>0, <2>2 DEF TakerStep, CommandsTrue
    <2>3. CASE WatcherNext BY <2>3 DEF CommandsTrue
    <2>4. CASE ProcessStep BY <1>0, <2>4 DEF ProcessStep, CommandsTrue
    <2>5. CASE EnvironmentStep BY <2>5 DEF EnvironmentStep, CommandsTrue
    <2> QED BY <2>1, <2>2, <2>3, <2>4, <2>5, NextSplit
  <1>4. /\ cmd'["taker"] = "SendTakerPayment"
             => tx["makerPayment"] = "confirmed" /\ Knows("taker", "MakerPaymentReceived")
        /\ cmd'["taker"] = "SpendMakerPayment" => Live("takerPaymentSpend")
    <2>0. /\ TakerCommand(last["taker"]) = "SendTakerPayment"
               => tx["makerPayment"] = "confirmed" /\ Knows("taker", "MakerPaymentReceived")
          /\ TakerCommand(last["taker"]) = "SpendMakerPayment" => Live("takerPaymentSpend")
      BY TakerCommandType DEF TypeOK, Events, EventsTrue, Reported
    <2>1. CASE MakerStep BY <1>0, <2>1 DEF MakerStep, CommandsTrue
    <2>2. CASE TakerStep BY <1>0, <2>0, <2>2 DEF TakerStep, CommandsTrue, Confirmed, AsksTheChains
    <2>3. CASE WatcherNext BY <2>3 DEF CommandsTrue
    <2>4. CASE ProcessStep BY <1>0, <2>4 DEF ProcessStep, CommandsTrue
    <2>5. CASE EnvironmentStep BY <2>5 DEF EnvironmentStep, CommandsTrue
    <2> QED BY <2>1, <2>2, <2>3, <2>4, <2>5, NextSplit
  <1>5. watcher' \in {"AwaitMakerPaymentSpend", "SpendMakerPayment"} => Live("takerPaymentSpend")
    <2>1. CASE MakerStep BY <2>1 DEF MakerStep, CommandsTrue
    <2>2. CASE TakerStep BY <2>2 DEF TakerStep, CommandsTrue
    <2>3. CASE WatcherNext BY <2>3 DEF CommandsTrue
    <2>4. CASE ProcessStep BY <2>4 DEF ProcessStep, CommandsTrue
    <2>5. CASE EnvironmentStep BY <2>5 DEF EnvironmentStep, CommandsTrue
    <2> QED BY <2>1, <2>2, <2>3, <2>4, <2>5, NextSplit
  <1> QED BY <1>1, <1>2, <1>3, <1>4, <1>5 DEF CommandsTrue

\* Time does not go back, and the counts of restarts neither.
LEMMA Monotonic ==
  ASSUME TypeOK, Next
  PROVE  /\ clock' \in Nat /\ clock' >= clock
         /\ restarts["taker"] > 0 => restarts'["taker"] > 0
  <1> USE SwapV1Assumption DEF SwapV1Assumption
  <1>0. /\ clock \in Nat /\ DOMAIN restarts = Sides 
        /\ restarts["taker"] \in Nat /\ restarts["maker"] \in Nat
    BY DEF TypeOK
  <1>1. CASE MakerStep BY <1>0, <1>1 DEF MakerStep
  <1>2. CASE TakerStep BY <1>0, <1>2 DEF TakerStep
  <1>3. CASE WatcherNext BY <1>0, <1>3
  <1>4. CASE ProcessStep BY <1>0, <1>4 DEF ProcessStep
  <1>5. CASE EnvironmentStep BY <1>0, <1>5 DEF EnvironmentStep
  <1> QED BY <1>1, <1>2, <1>3, <1>4, <1>5, NextSplit

\* The chains keep the order of payments, claims and refunds.
LEMMA ChainStep ==
  ASSUME TypeOK, CommandsTrue, ChainTrue, PaysAgainstConfirmed, Next
  PROVE  ChainTrue' /\ PaysAgainstConfirmed'
  <1>0. tx \in [Txs -> {"none", "mempool", "confirmed"}] BY DEF TypeOK
  <1>1. ChainMove BY ChainMoves DEF TypeOK
  <1>2. Knows("taker", "MakerPaymentReceived") => Knows("taker", "MakerPaymentReceived")'
    BY SavedGrows DEF TypeOK
  <1>3. /\ ~(Live("takerPaymentSpend") /\ Live("takerPaymentRefund"))'
        /\ ~(Live("makerPaymentSpend") /\ Live("makerPaymentRefund"))'
    BY <1>0, <1>1 DEF ChainMove, ChainTrue
  <1>4. \A t \in SpendingTxs : Live(t)' => Live(Spends[t])'
    BY <1>0, <1>1 DEF ChainMove, ChainTrue
  <1>5. /\ Live("takerPayment")' => Knows("taker", "MakerPaymentReceived")'
        /\ Live("makerPaymentSpend")' => Live("takerPaymentSpend")'
    BY <1>0, <1>1, <1>2 DEF ChainMove, ChainTrue, CommandsTrue
  <1>6. Live("makerPaymentRefund")' => clock' > MakerPaymentLock
    <2>1. Live("makerPaymentRefund")' => clock > MakerPaymentLock
      BY <1>0, <1>1 DEF ChainMove, ChainTrue
    <2>2. clock \in Nat /\ MakerPaymentLock \in Nat
      BY SwapV1Assumption DEF TypeOK, SwapV1Assumption, MakerPaymentLock
    <2> QED BY <2>1, <2>2, Monotonic DEF MakerPaymentLock
  <1>7. PaysAgainstConfirmed'
    BY <1>0, <1>1 DEF ChainMove, ChainTrue, CommandsTrue, PaysAgainstConfirmed
  <1> QED BY <1>3, <1>4, <1>5, <1>6, <1>7 DEF ChainTrue

\* The fee is repeated by a restarted taker only.
LEMMA FeeStep ==
  ASSUME TypeOK, FeeUnsent, PaidOnce, Next
  PROVE  FeeUnsent' /\ PaidOnce'
  <1>0. /\ tx \in [Txs -> {"none", "mempool", "confirmed"}] /\ DOMAIN cmd = Sides
        /\ restarts \in [Sides -> 0..MaxCrashes] /\ restarts' \in [Sides -> 0..MaxCrashes]
    BY TypeStep DEF TypeOK
  <1>1. ChainMove BY ChainMoves DEF TypeOK
  <1>2. restarts'["taker"] = 0 => restarts["taker"] = 0
    BY <1>0, Monotonic, SwapV1Assumption DEF SwapV1Assumption
  <1>3. Live("takerFee")' =>
          \/ Live("takerFee") 
          \/ (cmd["taker"] = "SendTakerFee" /\ cmd'["taker"] = "WaitForMakerPayment")
    BY <1>0, <1>1 DEF ChainMove
  <1>4. restarts'["taker"] = 0 /\ cmd["taker"] # "Down" =>
          /\ cmd'["taker"] # "Down"
          /\ cmd'["taker"] \in {"Start", "Negotiate", "SendTakerFee"}
               => cmd["taker"] \in {"Start", "Negotiate", "SendTakerFee"}
    <2>1. CASE MakerStep BY <1>0, <2>1 DEF MakerStep
    <2>2. CASE TakerStep BY <1>0, <2>2 DEF TakerStep
    <2>3. CASE WatcherNext BY <2>3
    <2>4. CASE ProcessStep
      BY <1>0, <2>4, SwapV1Assumption DEF ProcessStep, SwapV1Assumption
    <2>5. CASE EnvironmentStep BY <2>5 DEF EnvironmentStep
    <2> QED BY <2>1, <2>2, <2>3, <2>4, <2>5, NextSplit
  <1>5. FeeUnsent' BY <1>2, <1>3, <1>4 DEF FeeUnsent
  <1>6. repeats' \subseteq repeats \cup {"takerFee"} /\ (repeats' # repeats => restarts["taker"] # 0)
    BY <1>0, <1>1 DEF ChainMove, FeeUnsent
  <1>7. repeats' # {} => restarts["taker"] # 0
    BY <1>0, <1>6, SwapV1Assumption DEF PaidOnce, SwapV1Assumption
  <1>8. restarts["taker"] # 0 => restarts'["taker"] > 0
    <2>1. restarts["taker"] \in Nat BY <1>0, SwapV1Assumption DEF SwapV1Assumption
    <2> QED BY <2>1, Monotonic
  <1>9. PaidOnce' BY <1>6, <1>7, <1>8 DEF PaidOnce
  <1> QED BY <1>5, <1>9

-----------------------------------------------------------------------------
(* The guarded taker.                                                      *)

\* The deadlines are in the order the watcher relies on.
LEMMA Deadlines ==
  /\ TakerPaymentLock \in Nat /\ MakerPaymentLock \in Nat /\ WatcherRefundTime \in Nat
  /\ TakerPaymentSpendDeadline \in Nat
  /\ TakerPaymentSpendDeadline <= WatcherRefundTime
  /\ WatcherRefundTime + 1 <= MakerPaymentLock
  /\ TakerPaymentLock + 1 <= MakerPaymentLock
  BY SwapV1Assumption DEF SwapV1Assumption, TakerPaymentLock, MakerPaymentLock,
     WatcherRefundTime, TakerPaymentSpendDeadline

\* What the chains may do about a spend of the taker's payment.
LEMMA SpendMove ==
  ASSUME TypeOK, CommandsTrue, ChainTrue, Next
  PROVE  Live("takerPaymentSpend")' /\ ~Live("takerPaymentSpend")
           => clock <= TakerPaymentSpendDeadline /\ ~Live("takerPaymentRefund")
  <1>1. ChainMove BY ChainMoves DEF TypeOK
  <1>2. tx \in [Txs -> {"none", "mempool", "confirmed"}] BY DEF TypeOK
  <1> QED BY <1>1, <1>2 DEF ChainMove

\* Every step of the watcher, the clock and the sides keeps the guard.
LEMMA WatchedStep ==
  ASSUME TypeOK, CommandsTrue, ChainTrue, PaysAgainstConfirmed, WatchedTrue, Next
  PROVE  WatchedTrue'
  <1>1. /\ \A p \in Payments : tx[p] = "confirmed" => tx'[p] = "confirmed"
        /\ \A t \in SpendingTxs : Live(t) => Live(t)'
    BY ChainMoves, ChainStable DEF TypeOK
  <1>2. clock \in Nat /\ tx \in [Txs -> {"none", "mempool", "confirmed"}] BY DEF TypeOK
  <1>3. CASE watcher' = watcher /\ guarded' = guarded /\ clock' = clock
    BY <1>1, <1>2, <1>3, SpendMove, Deadlines DEF WatchedTrue
  <1>4. CASE MakerStep BY <1>3, <1>4 DEF MakerStep
  <1>5. CASE TakerStep BY <1>3, <1>5 DEF TakerStep
  <1>6. CASE ProcessStep BY <1>3, <1>6 DEF ProcessStep
  <1>7. CASE EnvironmentStep
    <2>1. CASE Tick
      <3>1. /\ tx' = tx /\ watcher' = watcher /\ clock' = clock + 1
            /\ guarded' => guarded /\ ~WatcherBehind
        BY <2>1
      <3>2. SUFFICES ASSUME guarded, ~WatcherBehind PROVE WatchedTrue'
        BY <3>1 DEF WatchedTrue
      <3> QED BY <1>2, <3>1, <3>2, Deadlines DEF WatchedTrue, WatcherBehind
    <2>2. CASE ~Tick BY <1>3, <1>7, <2>2 DEF EnvironmentStep
    <2> QED BY <2>1, <2>2
  <1>8. CASE WatcherNext
    <2> SUFFICES ASSUME guarded' PROVE WatchedTrue' BY DEF WatchedTrue
    <2> USE <1>2, Deadlines DEF WatchedTrue
    <2>1. CASE WatcherSpawn
      <3>1. tx' = tx /\ guarded /\ watcher' = "ValidateTakerFee" /\ watcher = "Stopped" BY <2>1
      <3> QED BY <3>1
    <2>2. CASE WatcherValidateTakerFee
      <3>1. /\ tx' = tx /\ guarded /\ watcher = "ValidateTakerFee"
            /\ watcher' \in {"ValidateTakerPayment", "Stopped"}
        BY <2>2
      <3> QED BY <3>1
    <2>3. CASE WatcherValidateTakerPayment
      <3>1. tx' = tx /\ clock' = clock /\ watcher = "ValidateTakerPayment" BY <2>3
      <3>2. \/ /\ watcher' = "WaitForTakerPaymentSpend" /\ tx["takerPayment"] = "confirmed"
               /\ clock <= TakerPaymentSpendDeadline
            \/ watcher' = "Stopped" /\ guarded
        BY <2>3 DEF Confirmed
      <3> QED BY <3>1, <3>2
    <2>4. CASE WatcherWaitForTakerPaymentSpend
      <3>1. tx' = tx /\ clock' = clock /\ guarded /\ watcher = "WaitForTakerPaymentSpend" BY <2>4
      <3>2. \/ watcher' = "RefundTakerPayment" /\ clock > WatcherRefundTime
            \/ watcher' = "Stopped" /\ Live("takerPaymentRefund")
            \/ watcher' = "AwaitMakerPaymentSpend" /\ clock < TakerPaymentLock
            \/ watcher' = "SpendMakerPayment" /\ clock <= WatcherRefundTime
        BY <2>4
      <3> QED BY <3>1, <3>2 DEF ChainTrue
    <2>5. CASE WatcherAwaitMakerPaymentSpend BY <2>5 DEF ChainTrue, CommandsTrue
    <2>6. CASE WatcherSpendMakerPayment
      <3>1. watcher' = "Stopped" /\ guarded /\ watcher = "SpendMakerPayment" BY <2>6
      <3>2. Live("makerPayment") /\ ~Live("makerPaymentRefund") /\ tx["takerPayment"] = "confirmed"
        BY <3>1 DEF ChainTrue, CommandsTrue, PaysAgainstConfirmed
      <3>3. Live("makerPaymentSpend")' BY <2>6, <3>1, <3>2
      <3>4. Live("takerPaymentSpend")' BY <1>1, <3>1 DEF CommandsTrue
      <3> QED BY <1>1, <3>1, <3>2, <3>3, <3>4
    <2>7. CASE WatcherRefundTakerPayment
      <3>1. watcher' = "Stopped" /\ guarded /\ watcher = "RefundTakerPayment" BY <2>7
      <3>2. tx["takerPayment"] = "confirmed" /\ ~Live("takerPaymentSpend") BY <3>1
      <3>3. Live("takerPaymentRefund")' /\ ~Live("takerPaymentSpend")' BY <2>7, <3>1, <3>2
      <3> QED BY <1>1, <3>1, <3>2, <3>3
    <2> QED BY <1>8, <2>1, <2>2, <2>3, <2>4, <2>5, <2>6, <2>7
  <1> QED BY <1>4, <1>5, <1>6, <1>7, <1>8, NextSplit

-----------------------------------------------------------------------------
(* The theorems                                                            *)

\* The invariant holds at the start ...
LEMMA InvInit == Init => SwapV1Inv
  <1> SUFFICES ASSUME Init PROVE SwapV1Inv OBVIOUS
  <1> USE SwapV1Assumption DEF SwapV1Assumption, Init
  <1>1. TypeOK
    <2>1. \A s \in Sides : todo[s] \in Seq(Events[s]) BY QueueTypes
    <2>2. \A s \in Sides : cmd[s] \in Commands[s] BY DEF Commands
    <2>3. tx \in [Txs -> {"none", "mempool", "confirmed"}] OBVIOUS
    <2>4. watcher \in WatcherStates BY DEF WatcherStates
    <2>5. /\ DOMAIN cmd = Sides /\ DOMAIN todo = Sides /\ DOMAIN saved = Sides /\ DOMAIN last = Sides
          /\ \A s \in Sides : saved[s] \subseteq Events[s] /\ last[s] \in Events[s] \cup {"None"}
          /\ step \in [Sides -> {1, 2}] /\ restarts \in [Sides -> 0..MaxCrashes]
      OBVIOUS
    <2>6. sent \subseteq Kinds /\ repeats \subseteq Txs /\ guarded \in BOOLEAN
      BY Zenon
    <2>7. drops \in 0..MaxDrops /\ errors \in 0..MaxErrors /\ clock \in 0..MaxTime
      OBVIOUS
    <2> QED BY <2>1, <2>2, <2>3, <2>4, <2>5, <2>6, <2>7 DEF TypeOK
  <1>2. \A s \in Sides : Reported(s) = {} BY QueueElements DEF Reported
  <1>3. EventsTrue BY <1>2 DEF EventsTrue
  <1> QED BY <1>1, <1>3 DEF SwapV1Inv, CommandsTrue, ChainTrue, FeeUnsent, WatchedTrue,
        PaysAgainstConfirmed, PaidOnce

\* ... every step keeps it ...
LEMMA InvStep == SwapV1Inv /\ [Next]_vars => SwapV1Inv'
  <1>1. ASSUME SwapV1Inv, Next PROVE SwapV1Inv'
    BY <1>1, TypeStep, EventsStep, CommandsStep, ChainStep, FeeStep, WatchedStep DEF SwapV1Inv
  <1>2. ASSUME SwapV1Inv, UNCHANGED vars PROVE SwapV1Inv'
    BY <1>2 DEF SwapV1Inv, TypeOK, EventsTrue, CommandsTrue, ChainTrue, FeeUnsent, WatchedTrue,
       PaysAgainstConfirmed, PaidOnce, Reported
  <1> QED BY <1>1, <1>2

\* ... and it always holds.
LEMMA Invariance == Spec => []SwapV1Inv
  BY InvInit, InvStep, PTL DEF Spec

\* Every variable of the legacy swap keeps its type, whatever crashes and fails.
THEOREM Typing == Spec => []TypeOK
  <1>1. SwapV1Inv => TypeOK BY DEF SwapV1Inv
  <1> QED BY <1>1, Invariance, PTL

\* send_taker_payment and spend_taker_payment pay and publish the secret only
\* against a confirmed payment.
THEOREM PaymentSafety == Spec => []PaysAgainstConfirmed
  <1>1. SwapV1Inv => PaysAgainstConfirmed BY DEF SwapV1Inv
  <1> QED BY <1>1, Invariance, PTL

\* check_if_my_payment_sent keeps a restarted side from paying twice; the fee is
\* paid twice by a restarted taker only.
THEOREM SinglePayment == Spec => []PaidOnce
  <1>1. SwapV1Inv => PaidOnce BY DEF SwapV1Inv
  <1> QED BY <1>1, Invariance, PTL

\* What a side has saved when its funds are still to move leaves recover_funds open.
LEMMA RecoverOpen == SwapV1Inv => FinishedCanRecover
  <1> SUFFICES ASSUME SwapV1Inv PROVE FinishedCanRecover OBVIOUS
  <1>1. EventsTrue /\ ChainTrue BY DEF SwapV1Inv
  <1>2. ASSUME Knows("taker", "Finished"), Live("takerPayment"),
               Unspent("takerPayment") \/ (Live("takerPaymentSpend") /\ Unspent("makerPayment"))
        PROVE  TakerCanRecover
    BY <1>1, <1>2 DEF EventsTrue, ChainTrue, Reported, TakerCanRecover
  <1>3. ASSUME Knows("maker", "Finished"), Live("makerPayment"),
               Unspent("makerPayment"), ~Live("takerPaymentSpend")
        PROVE  MakerCanRecover
    BY <1>1, <1>3 DEF EventsTrue, Reported, MakerCanRecover
  <1> QED BY <1>2, <1>3 DEF FinishedCanRecover

\* recover_funds stays open to a side that finished with funds still to move.
THEOREM Recovery == Spec => []FinishedCanRecover
  BY RecoverOpen, Invariance, PTL

\* A watcher that is never late is done before the maker's lock time.
LEMMA GuardedSafe == SwapV1Inv => WatchedTakerLosesNothing
  <1> SUFFICES ASSUME SwapV1Inv, guarded, clock > MakerPaymentLock
               PROVE  /\ Live("takerPaymentSpend") => Live("makerPaymentSpend")
                      /\ Live("takerPaymentSpend") \/ Live("takerPaymentRefund")
    BY DEF WatchedTakerLosesNothing
  <1>1. clock \in Nat /\ watcher \in WatcherStates BY DEF SwapV1Inv, TypeOK
  <1>2. WatchedTrue BY DEF SwapV1Inv
  <1> QED BY <1>1, <1>2, Deadlines DEF WatchedTrue, WatcherStates

\* The watcher's machine: a guarded taker loses nothing, whatever the lock
\* duration and wherever the taker is.
THEOREM Watching == Spec => []WatchedTakerLosesNothing
  BY GuardedSafe, Invariance, PTL

-----------------------------------------------------------------------------
(* The refinement                                                          *)

\* Nothing is paid at the start.
LEMMA AtomicInit == ASSUME Init PROVE Atomic!Init
  <1>1. (clock > MakerPaymentLock) \in BOOLEAN OBVIOUS
  <1> QED BY <1>1 DEF Init, Atomic!Init, Funds

\* The chains move only while the clock stands still.
LEMMA ClockOrChain == ASSUME Next PROVE Tick \/ clock' = clock
  <1>1. CASE MakerStep BY <1>1 DEF MakerStep
  <1>2. CASE TakerStep BY <1>2 DEF TakerStep
  <1>3. CASE WatcherNext BY <1>3
  <1>4. CASE ProcessStep BY <1>4 DEF ProcessStep
  <1>5. CASE EnvironmentStep BY <1>5 DEF EnvironmentStep
  <1> QED BY <1>1, <1>2, <1>3, <1>4, <1>5, NextSplit

\* Where the funds of a side are, told by the transactions.
TakerFunds == Funds("takerPayment", "takerPaymentSpend", "takerPaymentRefund")
MakerFunds == Funds("makerPayment", "makerPaymentSpend", "makerPaymentRefund")

\* The transactions tell the places apart.
LEMMA FundsTold ==
  ASSUME ChainTrue
  PROVE  /\ Live("takerPaymentSpend") => TakerFunds = "claimed"
         /\ Live("takerPaymentRefund") => TakerFunds = "returned"
         /\ Live("takerPayment") /\ Unspent("takerPayment") => TakerFunds = "escrowed"
         /\ ~Live("takerPayment") => TakerFunds = "held"
         /\ Live("makerPaymentSpend") => MakerFunds = "claimed"
         /\ Live("makerPaymentRefund") => MakerFunds = "returned"
         /\ Live("makerPayment") /\ Unspent("makerPayment") => MakerFunds = "escrowed"
         /\ ~Live("makerPayment") => MakerFunds = "held"
  BY DEF ChainTrue, TakerFunds, MakerFunds, Funds

\* The funds a move of the chains does not speak of stay where they are.
LEMMA FundsStay ==
  /\ tx'["takerPayment"] = tx["takerPayment"] /\ tx'["takerPaymentSpend"] = tx["takerPaymentSpend"]
     /\ tx'["takerPaymentRefund"] = tx["takerPaymentRefund"] => TakerFunds' = TakerFunds
  /\ tx'["makerPayment"] = tx["makerPayment"] /\ tx'["makerPaymentSpend"] = tx["makerPaymentSpend"]
     /\ tx'["makerPaymentRefund"] = tx["makerPaymentRefund"] => MakerFunds' = MakerFunds
  BY DEF TakerFunds, MakerFunds, Funds

\* Every move of the chains moves the funds as AtomicSwap allows, or not at all.
LEMMA FundsMove ==
  ASSUME SwapV1Inv, SwapV1Inv', ChainMove
  PROVE  \/ TakerFunds' = TakerFunds /\ MakerFunds' = MakerFunds
         \/ /\ MakerFunds' = MakerFunds
            /\ \/ TakerFunds = "held" /\ TakerFunds' = "escrowed"
               \/ TakerFunds = "escrowed" /\ TakerFunds' \in {"held", "returned"}
               \/ TakerFunds = "escrowed" /\ MakerFunds = "escrowed" /\ TakerFunds' = "claimed"
         \/ /\ TakerFunds' = TakerFunds
            /\ \/ MakerFunds = "held" /\ MakerFunds' = "escrowed"
               \/ MakerFunds = "escrowed" /\ MakerFunds' = "held"
               \/ MakerFunds = "escrowed" /\ TakerFunds = "claimed" /\ MakerFunds' = "claimed"
               \/ MakerFunds = "escrowed" /\ clock > MakerPaymentLock /\ MakerFunds' = "returned"
  <1>1. /\ tx \in [Txs -> {"none", "mempool", "confirmed"}] /\ clock \in Nat
        /\ ChainTrue /\ ChainTrue' /\ CommandsTrue /\ PaysAgainstConfirmed
    BY DEF SwapV1Inv, TypeOK
  <1>2. CASE UNCHANGED chainVars BY <1>2, FundsStay
  <1>3. CASE Submit("takerFee") BY <1>1, <1>3, FundsStay
  <1>4. CASE Submit("makerPayment") /\ ~Live("makerPayment")
    <2>1. MakerFunds = "held" BY <1>1, <1>4, FundsTold
    <2>2. MakerFunds' = "escrowed" BY <1>1, <1>4 DEF ChainTrue, MakerFunds, Funds
    <2> QED BY <1>1, <1>4, <2>1, <2>2, FundsStay
  <1>5. CASE Submit("takerPayment") /\ ~Live("takerPayment")
    <2>1. TakerFunds = "held" BY <1>1, <1>5, FundsTold
    <2>2. TakerFunds' = "escrowed" BY <1>1, <1>5 DEF ChainTrue, TakerFunds, Funds
    <2> QED BY <1>1, <1>5, <2>1, <2>2, FundsStay
  <1>6. CASE /\ SubmitSpend("takerPaymentSpend") /\ cmd["maker"] = "SpendTakerPayment"
             /\ clock <= TakerPaymentSpendDeadline
    <2>1. CASE Live("takerPaymentSpend")
      BY <1>1, <1>6, <2>1, FundsStay DEF TakerFunds, Funds
    <2>2. CASE ~Live("takerPaymentSpend")
      <3>1. TakerFunds = "escrowed" BY <1>1, <1>6, <2>2, FundsTold
      <3>2. TakerFunds' = "claimed" BY <1>1, <1>6 DEF ChainTrue, TakerFunds, Funds
      <3>3. Live("makerPayment") /\ ~Live("makerPaymentSpend")
        BY <1>1, <1>6, <2>2 DEF ChainTrue, CommandsTrue, PaysAgainstConfirmed
      <3>4. ~Live("makerPaymentRefund") BY <1>1, <1>6, Deadlines DEF ChainTrue
      <3>5. MakerFunds = "escrowed" BY <1>1, <3>3, <3>4, FundsTold
      <3> QED BY <1>1, <1>6, <3>1, <3>2, <3>5, FundsStay
    <2> QED BY <2>1, <2>2
  <1>7. CASE /\ SubmitSpend("makerPaymentSpend")
             /\ \/ cmd["taker"] = "SpendMakerPayment" \/ watcher = "SpendMakerPayment"
                \/ Live("takerPaymentSpend")
    <2>1. CASE Live("makerPaymentSpend")
      BY <1>1, <1>7, <2>1, FundsStay DEF MakerFunds, Funds
    <2>2. CASE ~Live("makerPaymentSpend")
      <3>1. MakerFunds = "escrowed" BY <1>1, <1>7, <2>2, FundsTold
      <3>2. MakerFunds' = "claimed" BY <1>1, <1>7 DEF ChainTrue, MakerFunds, Funds
      <3>3. TakerFunds = "claimed" BY <1>1, <1>7, FundsTold DEF CommandsTrue
      <3> QED BY <1>1, <1>7, <3>1, <3>2, <3>3, FundsStay
    <2> QED BY <2>1, <2>2
  <1>8. CASE SubmitSpend("takerPaymentRefund")
    <2>1. CASE Live("takerPaymentRefund")
      BY <1>1, <1>8, <2>1, FundsStay DEF TakerFunds, Funds
    <2>2. CASE ~Live("takerPaymentRefund")
      <3>1. TakerFunds = "escrowed" BY <1>1, <1>8, <2>2, FundsTold
      <3>2. Live("takerPaymentRefund")' BY <1>1, <1>8
      <3>3. TakerFunds' = "returned" BY <1>1, <3>2 DEF ChainTrue, TakerFunds, Funds
      <3> QED BY <1>1, <1>8, <3>1, <3>3, FundsStay
    <2> QED BY <2>1, <2>2
  <1>9. CASE SubmitSpend("makerPaymentRefund") /\ clock > MakerPaymentLock
    <2>1. CASE Live("makerPaymentRefund")
      BY <1>1, <1>9, <2>1, FundsStay DEF MakerFunds, Funds
    <2>2. CASE ~Live("makerPaymentRefund")
      <3>1. MakerFunds = "escrowed" BY <1>1, <1>9, <2>2, FundsTold
      <3>2. Live("makerPaymentRefund")' BY <1>1, <1>9
      <3>3. MakerFunds' = "returned" BY <1>1, <3>2 DEF ChainTrue, MakerFunds, Funds
      <3> QED BY <1>1, <1>9, <3>1, <3>3, FundsStay
    <2> QED BY <2>1, <2>2
  <1>10. CASE \E t \in Payments \cup {"takerPaymentSpend", "makerPaymentSpend"} : Confirm(t)
    <2>1. \A t \in Txs : Live(t)' <=> Live(t) BY <1>1, <1>10
    <2> QED BY <2>1 DEF TakerFunds, MakerFunds, Funds
  <1>11. CASE \E p \in Payments : Drop(p)
    <2>1. CASE Drop("takerPayment")
      <3>1. TakerFunds = "escrowed" BY <1>1, <2>1, FundsTold
      <3>2. TakerFunds' = "held" BY <1>1, <2>1 DEF ChainTrue, TakerFunds, Funds
      <3> QED BY <1>1, <2>1, <3>1, <3>2, FundsStay
    <2>2. CASE Drop("makerPayment")
      <3>1. MakerFunds = "escrowed" BY <1>1, <2>2, FundsTold
      <3>2. MakerFunds' = "held" BY <1>1, <2>2 DEF ChainTrue, MakerFunds, Funds
      <3> QED BY <1>1, <2>2, <3>1, <3>2, FundsStay
    <2> QED BY <1>11, <2>1, <2>2
  <1> QED BY <1>2, <1>3, <1>4, <1>5, <1>6, <1>7, <1>8, <1>9, <1>10, <1>11 DEF ChainMove

\* Every step of the swap is a step of AtomicSwap or a stutter.
LEMMA AtomicStep ==
  ASSUME SwapV1Inv, [Next]_vars
  PROVE  [Atomic!Next]_(Atomic!swapVars)
  <1> USE DEF Atomic!Next, Atomic!swapVars, Atomic!TakerEscrow, Atomic!TakerEscrowLost,
          Atomic!MakerEscrow, Atomic!MakerEscrowLost, Atomic!MakerClaim, Atomic!TakerClaim,
          Atomic!TakerReturn, Atomic!MakerReturn, Atomic!Expire
  <1>1. CASE UNCHANGED vars
    <2>1. TakerFunds' = TakerFunds /\ MakerFunds' = MakerFunds BY <1>1, FundsStay
    <2> QED BY <1>1, <2>1 DEF TakerFunds, MakerFunds
  <1>2. CASE Tick
    <2>1. TakerFunds' = TakerFunds /\ MakerFunds' = MakerFunds BY <1>2, FundsStay
    <2>2. clock \in Nat /\ clock' = clock + 1 BY <1>2 DEF SwapV1Inv, TypeOK
    <2>3. clock > MakerPaymentLock => clock' > MakerPaymentLock BY <2>2, Deadlines
    <2>4. MakerPaymentLock' = MakerPaymentLock BY DEF MakerPaymentLock
    <2> QED BY <2>1, <2>3, <2>4 DEF TakerFunds, MakerFunds
  <1>3. CASE Next /\ ~Tick
    <2>1. /\ ChainMove /\ SwapV1Inv' BY <1>3, ChainMoves, InvStep DEF SwapV1Inv, TypeOK
    <2>2. clock' = clock BY <1>3, ClockOrChain
    <2> QED BY <2>1, <2>2, FundsMove DEF TakerFunds, MakerFunds
  <1> QED BY <1>1, <1>2, <1>3

\* The commands of both sides, their restarts and the watcher together implement
\* AtomicSwap, which counts on the maker's lock time alone.
THEOREM Refinement == Spec => ImplementsAtomicSwap
  <1>1. Init => Atomic!Init BY AtomicInit
  <1>2. SwapV1Inv /\ [Next]_vars => [Atomic!Next]_(Atomic!swapVars) BY AtomicStep
  <1> QED BY <1>1, <1>2, Invariance, PTL DEF Spec, ImplementsAtomicSwap, Atomic!Spec
==============================================================================
