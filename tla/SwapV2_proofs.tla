---------------------------- MODULE SwapV2_proofs ----------------------------
(***************************************************************************)
(* The safety of a swap, for every lock duration, every bound and every    *)
(* setting of the gates: SwapInv is inductive, the properties follow from  *)
(* it, and SwapV2 implements AtomicSwap.                                   *)
(***************************************************************************)
EXTENDS SwapV2, TLAPS

\* Abbreviations and actions; what a proof is about is cited where it is used.
USE DEF Sides, vars, machineVars, storageVars, p2pVars, chainVars, timeVars,
        NotRunning, Terminal
USE DEF At, ChangeState, MakerMoves, TakerMoves, NextAwait, RefundBecause, Receive,
        ReceiveTimeout, Broadcast, PaymentReceivedState, PaymentSentState
USE DEF Txs, SpendingTxs, Spends, Live, Unspent, SubmitPayment, SubmitSpend,
        EnsureBroadcast, ConfirmedTxs
USE DEF Environment, Tick, Deliver, Confirm, Drop, Framework, StoreEvent, Finish,
        StoreError, Crash, Restart, Resumable
USE DEF MakerHandler, MakerInitialize, MakerAnnounceNegotiation, MakerReceiveNegotiation,
        MakerNegotiationTimeout, MakerAnnounceNegotiated, MakerReceiveTakerFunding,
        MakerValidateTakerFunding, MakerSendPayment, MakerAnnouncePayment,
        MakerWatchFunding, MakerConfirmTakerPayment, MakerSpendTakerPayment,
        MakerConfirmSpend, MakerRefundPayment
USE DEF TakerHandler, TakerInitialize, TakerReceiveNegotiation, TakerReceiveNegotiated,
        TakerNegotiationTimeout, TakerSendFunding, TakerAnnounceFunding,
        TakerReceiveMakerPayment, TakerMakerPaymentTimeout, TakerValidateMakerPayment,
        TakerConfirmMakerPayment, TakerSendPayment, TakerAnnouncePreimage, TakerFindSpend,
        TakerSpendMakerPayment, TakerConfirmSpend, TakerRefundFunding, TakerRefundPayment

-----------------------------------------------------------------------------
(* Types                                                                   *)

\* The framework leaves the await, the mark and the lock in their types.
LEMMA FrameworkTypes ==
  ASSUME TypeOK, NEW s \in Sides, Framework(s) \/ Restart(s)
  PROVE  /\ step' \in [Sides -> 1 .. 2]
         /\ finished' \in [Sides -> BOOLEAN] /\ locked' \in [Sides -> BOOLEAN]
  <1>1. CASE StoreEvent(s) BY <1>1 DEF TypeOK
  <1>2. CASE Finish(s) BY <1>2 DEF TypeOK
  <1>3. CASE StoreError(s) BY <1>3 DEF TypeOK
  <1>4. CASE Crash(s) BY <1>4 DEF TypeOK
  <1>5. CASE Restart(s)
    <2>1. (stored[s] \in KickstartLocks[s]) \in BOOLEAN OBVIOUS
    <2> QED BY <1>5, <2>1 DEF TypeOK
  <1> QED BY <1>1, <1>2, <1>3, <1>4, <1>5

\* Every step keeps the types.
LEMMA TypeStep == ASSUME TypeOK, Next PROVE TypeOK'
  <1>1. /\ mem' \in [Sides -> MakerStates \cup TakerStates \cup NotRunning]
        /\ \A s \in Sides : mem'[s] \in States[s] \cup NotRunning
        /\ stored' \in [Sides -> MakerStates \cup TakerStates]
        /\ \A s \in Sides : stored'[s] \in States[s]
    <2> USE DEF TypeOK, States, MakerStates, TakerStates
    <2>1. CASE Environment BY <2>1
    <2>2. CASE MakerHandler BY <2>2
    <2>3. CASE TakerHandler BY <2>3
    <2>4. CASE \E s \in Sides : Framework(s) \/ Restart(s) BY <2>4
    <2> QED BY <2>1, <2>2, <2>3, <2>4 DEF Next
  <1>2. /\ step' \in [Sides -> 1 .. 2]
        /\ finished' \in [Sides -> BOOLEAN] /\ locked' \in [Sides -> BOOLEAN]
    <2> USE DEF TypeOK
    <2>1. \A s, st : OnEvent(s, st) \in BOOLEAN BY DEF OnEvent
    <2>2. CASE Environment BY <2>2
    <2>3. CASE MakerHandler BY <2>1, <2>3
    <2>4. CASE TakerHandler BY <2>1, <2>4
    <2>5. CASE \E s \in Sides : Framework(s) \/ Restart(s) BY <2>5, FrameworkTypes
    <2> QED BY <2>2, <2>3, <2>4, <2>5 DEF Next
  <1>3. /\ restarts' \in [Sides -> Nat] /\ orphans' \in [Sides -> Nat]
        /\ storeErrors' \in Nat /\ drops' \in Nat /\ clock' \in Nat
        /\ startedAt' \in [Sides -> Nat]
        /\ reason' \in {"none", "FundingReclaimedSecret", "Other"}
    <2> USE DEF TypeOK
    <2>1. CASE Environment BY <2>1
    <2>2. CASE MakerHandler BY <2>2
    <2>3. CASE TakerHandler BY <2>3
    <2>4. CASE \E s \in Sides : Framework(s) \/ Restart(s) BY <2>4
    <2> QED BY <2>1, <2>2, <2>3, <2>4 DEF Next
  <1>4. /\ sent' \subseteq Kinds /\ inbox' \subseteq sent'
        /\ tx' \in [Txs -> {"none", "mempool", "confirmed"}]
    <2> USE DEF TypeOK, Kinds, Recipient
    <2>1. CASE Environment BY <2>1
    <2>2. CASE MakerHandler BY <2>2
    <2>3. CASE TakerHandler BY <2>3
    <2>4. CASE \E s \in Sides : Framework(s) \/ Restart(s) BY <2>4
    <2> QED BY <2>1, <2>2, <2>3, <2>4 DEF Next
  <1> QED BY <1>1, <1>2, <1>3, <1>4 DEF TypeOK

-----------------------------------------------------------------------------
(* The parts of the invariant, one step at a time                          *)

\* A payment message is sent by a side that has stored its payment, and only
\* then can the other side act on the payment.
LEMMA AnnouncedStep == ASSUME SwapInv, Next PROVE AnnouncedAfterStored'
  <1> USE DEF SwapInv, TypeOK, AnnouncedAfterStored, PrePaid, In, KnowsMakerPayment
  <1>1. CASE Environment BY <1>1
  <1>2. CASE MakerHandler BY <1>2
  <1>3. CASE TakerHandler BY <1>3
  <1>4. CASE \E s \in Sides : Framework(s) \/ Restart(s) BY <1>4
  <1> QED BY <1>1, <1>2, <1>3, <1>4 DEF Next

\* A maker payment the taker has relied on stays confirmed: the one step that
\* could replace it is taken by a maker that has not announced it.
LEMMA GateStep == ASSUME SwapInv, Next PROVE GatePassed'
  <1> USE DEF SwapInv, TypeOK, GatePassed, PreimageOnlyAgainstConfirmed,
              SawMakerPaymentConfirmed
  <1>1. CASE Environment BY <1>1 DEF In
  <1>2. CASE MakerHandler
    <2>1. CASE MakerSendPayment
      <3>1. "MakerPaymentInfo" \notin sent BY <2>1 DEF AnnouncedAfterStored, PrePaid
      <3>2. ~In("taker", KnowsMakerPayment) /\ ~Live("takerPayment")
        BY <3>1 DEF AnnouncedAfterStored
      <3> QED BY <2>1, <3>1, <3>2 DEF In
    <2>2. CASE ~MakerSendPayment
      <3>1. tx["makerPayment"] = "confirmed" => tx'["makerPayment"] = "confirmed"
        BY <1>2, <2>2
      <3>2. Live("takerPayment")' => Live("takerPayment") BY <1>2
      <3>3. sent \subseteq sent' BY <1>2
      <3>4. "TakerPaymentSpendPreimage" \in sent' => "TakerPaymentSpendPreimage" \in sent
        BY <1>2
      <3>5. UNCHANGED <<mem["taker"], stored["taker"], restarts>> BY <1>2
      <3> QED BY <3>1, <3>2, <3>3, <3>4, <3>5 DEF In
    <2> QED BY <2>1, <2>2
  <1>3. CASE TakerHandler
    BY <1>3 DEF In, AnnouncedAfterStored, KnowsMakerPayment, PaymentConfirmRequired, Confirmed
  <1>4. CASE \E s \in Sides : Framework(s) \/ Restart(s) 
    BY <1>4 DEF In, KnowsMakerPayment
  <1> QED BY <1>1, <1>2, <1>3, <1>4 DEF Next

\* A new state starts at its first await, and so does a restarted one.
LEMMA FreshStep == ASSUME SwapInv, Next PROVE StepFresh'
  <1> USE DEF SwapInv, TypeOK, StepFresh
  <1>1. CASE Environment BY <1>1
  <1>2. CASE MakerHandler BY <1>2
  <1>3. CASE TakerHandler BY <1>3
  <1>4. CASE \E s \in Sides : Framework(s) \/ Restart(s) BY <1>4
  <1> QED BY <1>1, <1>2, <1>3, <1>4 DEF Next

\* The taker passes the comparison of the two started_at before all the rest.
LEMMA SkewStep == ASSUME SwapInv, Next PROVE SkewChecked'
  <1> USE DEF SwapInv, TypeOK, SkewChecked, StepFresh, In, TakerStates, StartedAtDiff
  <1>1. CASE Environment BY <1>1
  <1>2. CASE MakerHandler BY <1>2
  <1>3. CASE TakerHandler BY <1>3
  <1>4. CASE \E s \in Sides : Framework(s) \/ Restart(s) BY <1>4
  <1> QED BY <1>1, <1>2, <1>3, <1>4 DEF Next

\* A payment is sent on the way out of PrePaid, where only a crash leads back.
LEMMA SentStep == ASSUME SwapInv, Next PROVE SentOnce'
  <1> USE DEF SwapInv, TypeOK, SentOnce, AnnouncedAfterStored, PrePaid, Payment, In
  <1>1. CASE Environment BY <1>1
  <1>2. CASE MakerHandler BY <1>2
  <1>3. CASE TakerHandler BY <1>3 DEF KnowsMakerPayment
  <1>4. CASE \E s \in Sides : Framework(s) \/ Restart(s) BY <1>4
  <1> QED BY <1>1, <1>2, <1>3, <1>4 DEF Next

\* Two transactions never spend the same output, and a spent one is never lost.
LEMMA SpendStep == ASSUME SwapInv, Next PROVE SpentOnce' /\ SpentInputsLive'
  <1> USE DEF SwapInv, TypeOK, SpentOnce, SpentInputsLive
  <1>1. CASE Environment BY <1>1
  <1>2. CASE MakerHandler BY <1>2
  <1>3. CASE TakerHandler BY <1>3
  <1>4. CASE \E s \in Sides : Framework(s) \/ Restart(s) BY <1>4
  <1> QED BY <1>1, <1>2, <1>3, <1>4 DEF Next

\* The maker spends in the await after the confirmation; after a crash it is
\* back before it.  The taker goes for the maker payment on seeing that spend.
LEMMA SecretStep == ASSUME SwapInv, Next PROVE SecretGuarded'
  <1> USE DEF SwapInv, TypeOK, SecretGuarded, In
  <1>1. CASE Environment BY <1>1
  <1>2. CASE MakerHandler
    <2>1. CASE MakerConfirmTakerPayment BY <2>1 DEF Confirmed
    <2>2. CASE MakerSpendTakerPayment BY <2>2
    <2>3. CASE ~MakerConfirmTakerPayment /\ ~MakerSpendTakerPayment BY <1>2, <2>3
    <2> QED BY <2>1, <2>2, <2>3
  <1>3. CASE TakerHandler
    <2>1. CASE TakerSendPayment BY <2>1 DEF SpentInputsLive
    <2>2. CASE TakerFindSpend BY <2>2
    <2>3. CASE ~TakerSendPayment /\ ~TakerFindSpend BY <1>3, <2>3
    <2> QED BY <2>1, <2>2, <2>3
  <1>4. CASE \E s \in Sides : Framework(s) \/ Restart(s) BY <1>4 DEF StepFresh
  <1> QED BY <1>1, <1>2, <1>3, <1>4 DEF Next

\* The maker refunds in one state, when the funding came back or time is up,
\* and nothing follows that state but the end.
LEMMA RefundStep == ASSUME SwapInv, Next PROVE RefundsGuarded'
  <1> USE DEF SwapInv, TypeOK, RefundsGuarded
  <1>1. CASE Environment BY <1>1, SwapAssumption DEF SwapAssumption, MakerPaymentLocktime
  <1>2. CASE MakerHandler
    <2>1. CASE MakerWatchFunding BY <2>1 DEF MakerPaymentLocktime
    <2>2. CASE MakerRefundPayment BY <2>2 DEF MakerPaymentLocktime
    <2>3. CASE ~MakerWatchFunding /\ ~MakerRefundPayment
      BY <1>2, <2>3 DEF MakerPaymentLocktime
    <2> QED BY <2>1, <2>2, <2>3
  <1>3. CASE TakerHandler BY <1>3 DEF MakerPaymentLocktime
  <1>4. CASE \E s \in Sides : Framework(s) \/ Restart(s) BY <1>4 DEF MakerPaymentLocktime
  <1> QED BY <1>1, <1>2, <1>3, <1>4 DEF Next

\* A state that reports a transaction is entered when the node has accepted it.
LEMMA OutcomeStep == ASSUME SwapInv, Next PROVE OutcomeKnown'
  <1> USE DEF SwapInv, TypeOK, OutcomeKnown, In
  <1>1. CASE Environment BY <1>1
  <1>2. CASE MakerHandler BY <1>2
  <1>3. CASE TakerHandler BY <1>3
  <1>4. CASE \E s \in Sides : Framework(s) \/ Restart(s) BY <1>4
  <1> QED BY <1>1, <1>2, <1>3, <1>4 DEF Next

\* mark_finished is the last step of a machine.
LEMMA RestStep == ASSUME SwapInv, Next PROVE FinishedAtRest'
  <1> USE DEF SwapInv, TypeOK, FinishedAtRest
  <1>1. CASE Environment BY <1>1
  <1>2. CASE MakerHandler BY <1>2
  <1>3. CASE TakerHandler BY <1>3
  <1>4. CASE \E s \in Sides : Framework(s) \/ Restart(s) BY <1>4
  <1> QED BY <1>1, <1>2, <1>3, <1>4 DEF Next

\* on_event and on_kickstart_event agree on the states that hold a lock.
LEMMA LockStep == ASSUME SwapInv, Next PROVE LockMatchesState'
  <1> USE DEF SwapInv, TypeOK, LockMatchesState, FinishedAtRest, KickstartLocks
  <1>1. CASE Environment BY <1>1
  <1>2. CASE MakerHandler BY <1>2 DEF OnEvent, Locks, Unlocks
  <1>3. CASE TakerHandler BY <1>3 DEF OnEvent, Locks, Unlocks
  <1>4. ASSUME NEW s \in Sides, Framework(s) \/ Restart(s) PROVE LockMatchesState'
    <2>1. CASE StoreEvent(s) BY <2>1
    <2>2. CASE Finish(s) BY <2>2
    <2>3. CASE StoreError(s) BY <2>3
    <2>4. CASE Crash(s) BY <2>4
    <2>5. CASE Restart(s) BY <2>5
    <2> QED BY <1>4, <2>1, <2>2, <2>3, <2>4, <2>5
  <1> QED BY <1>1, <1>2, <1>3, <1>4 DEF Next

-----------------------------------------------------------------------------
(* The invariant                                                           *)

\* It holds when the two machines are created.
LEMMA InvInit == ASSUME Init PROVE SwapInv
  <1>1. TypeOK
    BY SwapAssumption DEF SwapAssumption, Init, TypeOK, States, MakerStates, TakerStates
  <1>2. AnnouncedAfterStored /\ GatePassed /\ SecretGuarded /\ OutcomeKnown
    BY DEF Init, AnnouncedAfterStored, GatePassed, SecretGuarded, OutcomeKnown, PrePaid, In,
           KnowsMakerPayment, SawMakerPaymentConfirmed, PreimageOnlyAgainstConfirmed
  <1>3. StepFresh /\ SkewChecked /\ SentOnce
    BY DEF Init, StepFresh, SkewChecked, SentOnce, In, Payment, PrePaid
  <1>4. SpentOnce /\ SpentInputsLive /\ RefundsGuarded /\ FinishedAtRest
    BY DEF Init, SpentOnce, SpentInputsLive, RefundsGuarded, FinishedAtRest
  <1>5. LockMatchesState BY DEF Init, LockMatchesState, KickstartLocks
  <1> QED BY <1>1, <1>2, <1>3, <1>4, <1>5 DEF SwapInv

\* Every step and every stuttering step keeps it.
LEMMA InvStep == ASSUME SwapInv, [Next]_vars PROVE SwapInv'
  <1>1. CASE Next
    <2>1. TypeOK' BY <1>1, TypeStep DEF SwapInv
    <2> QED BY <1>1, <2>1, AnnouncedStep, GateStep, FreshStep, SkewStep, SentStep,
               SpendStep, SecretStep, RefundStep, OutcomeStep, RestStep, LockStep DEF SwapInv
  <1>2. CASE UNCHANGED vars
    BY <1>2 DEF SwapInv, TypeOK, AnnouncedAfterStored, GatePassed, StepFresh, SkewChecked,
       SentOnce, SpentOnce, SpentInputsLive, SecretGuarded, RefundsGuarded, OutcomeKnown,
       FinishedAtRest, LockMatchesState, In, PreimageOnlyAgainstConfirmed, StartedAtDiff,
       MakerPaymentLocktime
  <1> QED BY <1>1, <1>2

\* SwapInv holds in every reachable state.
THEOREM SwapInvHolds == Spec => []SwapInv
  <1>1. Init => SwapInv BY InvInit
  <1>2. SwapInv /\ [Next]_vars => SwapInv' BY InvStep
  <1> QED BY <1>1, <1>2, PTL DEF Spec

-----------------------------------------------------------------------------
(* What it gives                                                           *)

\* Types, for every value of the constants.
THEOREM Typing == Spec => []TypeOK
  <1>1. SwapInv => TypeOK BY DEF SwapInv
  <1> QED BY <1>1, SwapInvHolds, PTL

\* The maker's secret is published for a confirmed taker payment only.
THEOREM SecretSafety == Spec => []SecretOnlyForConfirmedPayment
  <1>1. SwapInv => SecretOnlyForConfirmedPayment
    BY DEF SwapInv, SecretGuarded, SecretOnlyForConfirmedPayment
  <1> QED BY <1>1, SwapInvHolds, PTL

\* The taker pays against a confirmed maker payment only, when its gate is on.
THEOREM GateSafety == Spec => []TakerPaysOnlyAgainstConfirmed
  <1>1. SwapInv => TakerPaysOnlyAgainstConfirmed
    BY DEF SwapInv, GatePassed, TakerPaysOnlyAgainstConfirmed
  <1> QED BY <1>1, SwapInvHolds, PTL

\* The taker gives its preimage away against a confirmed maker payment only: its
\* gate is on, or it never restarted and made the later check.
THEOREM PreimageSafety == Spec => []PreimageOnlyAgainstConfirmed
  <1>1. SwapInv => PreimageOnlyAgainstConfirmed
    BY DEF SwapInv, GatePassed
  <1> QED BY <1>1, SwapInvHolds, PTL

\* What RefundsGuarded says of a refund before the lock time.
LEMMA EarlyRefund == SwapInv => EarlyRefundMeansFundingReclaimed
  BY SwapAssumption DEF SwapAssumption, SwapInv, TypeOK, RefundsGuarded,
     EarlyRefundMeansFundingReclaimed, MakerPaymentLocktime

\* A refund of the maker before its lock time follows the taker's own, whose
\* secret it takes.
THEOREM EarlyRefundSafety == Spec => []EarlyRefundMeansFundingReclaimed
  BY EarlyRefund, SwapInvHolds, PTL

\* Any other refund of the maker comes when the taker's own lock time has passed,
\* however far apart their clocks started.
THEOREM LateRefundSafety == Spec => []MakerRefundsOnlyAfterTakerCan
  <1>1. SwapInv => MakerRefundsOnlyAfterTakerCan
    <2> SUFFICES ASSUME SwapInv, Live("takerPayment"), Live("makerPaymentRefund")
                 PROVE  clock > TakerPaymentLocktime
      BY DEF MakerRefundsOnlyAfterTakerCan
    <2>1. ~Live("fundingRefund") BY DEF SwapInv, SpentOnce
    <2>2. clock > MakerPaymentLocktime BY <2>1 DEF SwapInv, RefundsGuarded
    <2>3. StartedAtDiff <= MaxStartedAtDiff BY DEF SwapInv, SkewChecked
    <2> QED BY <2>2, <2>3, SwapAssumption
            DEF SwapAssumption, SwapInv, TypeOK, StartedAtDiff, MakerPaymentLocktime,
                TakerPaymentLocktime
  <1> QED BY <1>1, SwapInvHolds, PTL

\* Neither side ends up with the funds of both before the maker payment's lock
\* time, whichever gates are on: an early refund of the maker takes the secret
\* of a taker refund, which excludes the spend that shows the maker's secret.
THEOREM AtomicitySafety == Spec => []NobodyHasBoth
  <1>1. SwapInv => NobodyHasBoth
    <2> SUFFICES ASSUME SwapInv, clock <= MakerPaymentLocktime
                 PROVE  /\ ~(TakerFunds = "claimed" /\ MakerFunds = "returned")
                        /\ ~(TakerFunds = "returned" /\ MakerFunds = "claimed")
      BY SwapAssumption DEF NobodyHasBoth, Atomic!Atomicity, SwapAssumption, SwapInv, TypeOK,
         MakerPaymentLocktime
    <2>1. TakerFunds = "claimed" => Live("takerPaymentSpend") BY DEF TakerFunds
    <2>2. MakerFunds = "returned" => Live("makerPaymentRefund") BY DEF MakerFunds
    <2>3. MakerFunds = "claimed" => Live("makerPaymentSpend") BY DEF MakerFunds
    <2>4. Live("makerPaymentRefund") => Live("fundingRefund")
      BY EarlyRefund DEF EarlyRefundMeansFundingReclaimed
    <2>5. Live("makerPaymentSpend") => Live("takerPaymentSpend") BY DEF SwapInv, SecretGuarded
    <2>6. ~(Live("takerPaymentSpend") /\ (Live("fundingRefund") \/ Live("takerPaymentRefund")))
      BY DEF SwapInv, SpentOnce, SpentInputsLive, SpendingTxs, Spends
    <2>7. TakerFunds = "returned" => Live("fundingRefund") \/ Live("takerPaymentRefund")
      BY DEF TakerFunds
    <2> QED BY <2>1, <2>2, <2>3, <2>4, <2>5, <2>6, <2>7
  <1> QED BY <1>1, SwapInvHolds, PTL

\* The outcome that is stored is the one on the chains.
THEOREM OutcomeSafety == Spec => []OutcomeMatchesChain
  <1>1. SwapInv => OutcomeMatchesChain
    BY DEF SwapInv, OutcomeKnown, SecretGuarded, In, OutcomeMatchesChain
  <1> QED BY <1>1, SwapInvHolds, PTL

\* A payment is sent at most once in each run of a process.
THEOREM SentSafety == Spec => []PaymentSentOncePerRun
  <1>1. SwapInv => PaymentSentOncePerRun BY DEF SwapInv, SentOnce, PaymentSentOncePerRun
  <1> QED BY <1>1, SwapInvHolds, PTL

\* The locked amounts follow the states.
THEOREM LockSafety == Spec => []LockMatchesState
  <1>1. SwapInv => LockMatchesState BY DEF SwapInv
  <1> QED BY <1>1, SwapInvHolds, PTL

-----------------------------------------------------------------------------
(* The refinement                                                          *)

\* Nothing is paid when the machines are created.
LEMMA AtomicInit == ASSUME Init PROVE Atomic!Init
  BY SwapAssumption DEF SwapAssumption, Init, Atomic!Init, TakerFunds, MakerFunds

\* With the taker's gate on, every step moves the funds as AtomicSwap allows or
\* leaves them where they are.
LEMMA AtomicStep ==
  ASSUME RequirePaymentConfirm, SwapInv, [Next]_vars
  PROVE  [Atomic!Next]_(Atomic!swapVars)
  <1> USE SwapAssumption DEF SwapAssumption, SwapInv, TypeOK, SpentOnce, SpentInputsLive,
          TakerFunds, MakerFunds, MakerPaymentLocktime
  <1> USE DEF Atomic!Next, Atomic!swapVars, Atomic!TakerEscrow, Atomic!TakerEscrowLost,
          Atomic!MakerEscrow, Atomic!MakerEscrowLost, Atomic!MakerClaim, Atomic!TakerClaim,
          Atomic!TakerReturn, Atomic!MakerReturn, Atomic!Expire
  <1>1. CASE Environment BY <1>1
  <1>2. CASE MakerHandler
    <2>1. CASE MakerSpendTakerPayment
      BY <2>1 DEF GatePassed, SecretGuarded, RefundsGuarded
    <2>2. CASE MakerRefundPayment BY <2>2 DEF RefundsGuarded
    <2>3. CASE ~MakerSpendTakerPayment /\ ~MakerRefundPayment BY <1>2, <2>3
    <2> QED BY <2>1, <2>2, <2>3
  <1>3. CASE TakerHandler
    <2>1. CASE TakerSpendMakerPayment BY <2>1 DEF SecretGuarded, In
    <2>2. CASE ~TakerSpendMakerPayment BY <1>3, <2>2
    <2> QED BY <2>1, <2>2
  <1>4. CASE \E s \in Sides : Framework(s) \/ Restart(s) BY <1>4
  <1>5. CASE UNCHANGED vars BY <1>5
  <1> QED BY <1>1, <1>2, <1>3, <1>4, <1>5 DEF Next

\* The two machines, with their crashes, implement the promise of a swap.
THEOREM Refinement == ASSUME RequirePaymentConfirm PROVE Spec => ImplementsAtomicSwap
  <1>1. Init => Atomic!Init BY AtomicInit
  <1>2. SwapInv /\ [Next]_vars => [Atomic!Next]_(Atomic!swapVars) BY AtomicStep
  <1> QED BY <1>1, <1>2, SwapInvHolds, PTL DEF Spec, ImplementsAtomicSwap, Atomic!Spec
=============================================================================
