-------------------------------- MODULE SwapV2 --------------------------------
(***************************************************************************)
(* A whole swap: the two sides, the framework under each, the network, the *)
(* two chains and time.                                                    *)
(***************************************************************************)
EXTENDS MakerSwapV2, TakerSwapV2

Next ==
  \/ Environment
  \/ MakerHandler \/ TakerHandler
  \/ \E s \in Sides : Framework(s) \/ Restart(s)

Spec == Init /\ [][Next]_vars

\* Both processes run their machines and come back after a crash, and time goes
\* on.  Nothing is promised of the network, the chains or the storage.
Fairness ==
  /\ WF_vars(Tick)
  /\ WF_vars(MakerHandler) /\ WF_vars(TakerHandler)
  /\ \A s \in Sides : WF_vars(StoreEvent(s)) /\ WF_vars(Finish(s)) /\ WF_vars(Restart(s))

FairSpec == Spec /\ Fairness

-----------------------------------------------------------------------------
TypeOK ==
  /\ mem \in [Sides -> MakerStates \cup TakerStates \cup NotRunning]
  /\ \A s \in Sides : mem[s] \in States[s] \cup NotRunning
  /\ stored \in [Sides -> MakerStates \cup TakerStates]
  /\ \A s \in Sides : stored[s] \in States[s]
  /\ step \in [Sides -> 1 .. 2]
  /\ finished \in [Sides -> BOOLEAN] /\ locked \in [Sides -> BOOLEAN]
  /\ restarts \in [Sides -> Nat] /\ orphans \in [Sides -> Nat]
  /\ storeErrors \in Nat /\ drops \in Nat /\ clock \in Nat
  /\ startedAt \in [Sides -> Nat]
  /\ reason \in {"none", "FundingReclaimedSecret", "Other"}
  /\ sent \subseteq Kinds /\ inbox \subseteq sent
  /\ tx \in [Txs -> {"none", "mempool", "confirmed"}]

\* The maker's secret is on the chain only once the payment it buys is
\* confirmed, whatever crashes made the maker start its wait again.
SecretOnlyForConfirmedPayment ==
  Live("takerPaymentSpend") => tx["takerPayment"] = "confirmed"

\* swap_v2_common.rs: the taker must not risk a replaced maker payment, so it
\* spends its funding only when the payment is confirmed, after a restart too.
TakerPaysOnlyAgainstConfirmed ==
  RequirePaymentConfirm /\ Live("takerPayment") => tx["makerPayment"] = "confirmed"

\* The taker, with the gate before its payment or with the later check, gives
\* the preimage away only when the maker payment is confirmed, unless a restart
\* takes one for the other (taker_swap_v2.rs:859 and 1774).
PreimageOnlyAgainstConfirmed ==
  /\ RequirePaymentConfirm \/ restarts["taker"] = 0
  /\ "TakerPaymentSpendPreimage" \in sent
  => tx["makerPayment"] = "confirmed"

\* Before its lock time the maker payment comes back to the maker only when the
\* taker's funding went back too: the secret that releases one released the other.
EarlyRefundMeansFundingReclaimed ==
  Live("makerPaymentRefund") /\ clock <= MakerPaymentLocktime => Live("fundingRefund")

\* The two sides count their lock times from their own started_at, which the
\* negotiation compares: when the maker takes its payment back, the refund of a
\* taker that has paid is open already, however far apart they started.
MakerRefundsOnlyAfterTakerCan ==
  Live("takerPayment") /\ Live("makerPaymentRefund") => clock > TakerPaymentLocktime

\* What the last stored event says of the swap is what the chains say, although
\* the event is stored after the broadcast and a crash may come between.
OutcomeMatchesChain ==
  /\ stored["maker"] = "Completed" => Live("takerPaymentSpend")
  /\ stored["maker"] = "MakerPaymentRefunded" => Live("makerPaymentRefund")
  /\ stored["taker"] = "Completed" => Live("makerPaymentSpend") /\ Live("takerPaymentSpend")
  /\ stored["taker"] = "TakerFundingRefunded" => Live("fundingRefund")
  /\ stored["taker"] = "TakerPaymentRefunded" => Live("takerPaymentRefund")

\* A side sends its payment again only because a crash made it forget the first.
PaymentSentOncePerRun == \A s \in Sides : orphans[s] <= restarts[s]

\* locked_amounts holds the side's amount exactly while the payment is still to
\* be made, after a kickstart too, and nothing when the swap is over.
LockMatchesState ==
  \A s \in Sides :
    /\ mem[s] \notin NotRunning \cup Terminal => (locked[s] <=> mem[s] \in KickstartLocks[s])
    /\ finished[s] => ~locked[s]

-----------------------------------------------------------------------------
\* Where the funds are, as AtomicSwap sees it.
TakerFunds ==
  CASE Live("takerPaymentSpend") -> "claimed"
    [] Live("fundingRefund") \/ Live("takerPaymentRefund") -> "returned"
    [] Live("funding") /\ ~Live("takerPaymentSpend") /\ ~Live("fundingRefund")
         /\ ~Live("takerPaymentRefund") -> "escrowed"
    [] OTHER -> "held"
MakerFunds ==
  CASE Live("makerPaymentSpend") -> "claimed"
    [] Live("makerPaymentRefund") -> "returned"
    [] Live("makerPayment") /\ ~Live("makerPaymentSpend") /\ ~Live("makerPaymentRefund")
         -> "escrowed"
    [] OTHER -> "held"

Atomic == INSTANCE AtomicSwap WITH
  takerFunds <- TakerFunds, makerFunds <- MakerFunds, expired <- clock > MakerPaymentLocktime

\* Every behaviour of the two machines moves the funds as AtomicSwap allows.
ImplementsAtomicSwap == Atomic!Spec

\* While the maker payment has not expired, no order of crashes, waits and
\* refunds leaves one side with the funds of both.
NobodyHasBoth == Atomic!Atomicity

-----------------------------------------------------------------------------
\* The process died before the first event: kickstart gives the swap up.
NeverStarted(s) == mem[s] = "Down" /\ stored[s] = "Initialize"

\* Either side's swap is over at last, with nobody's help: every wait has a
\* deadline.  The exception is the maker's wait for the preimage (see
\* PreimageWaitEnds).
Over(s) == stored[s] \in Terminal \/ NeverStarted(s)
SwapEnds ==
  <>[](Over("taker") /\ (Over("maker") \/ At("maker", "TakerPaymentReceived", 2)))

\* lp_swap.rs says of every P2P wait: "If a certain P2P message is not received,
\* swap will be aborted after this time expires."
PreimageWaitEnds ==
  [](At("maker", "TakerPaymentReceived", 2) => <>~At("maker", "TakerPaymentReceived", 2))

-----------------------------------------------------------------------------
(* Why the safety properties hold: facts every step keeps, about what a    *)
(* stored state, a message and a transaction each tell of the others.      *)

\* The states in which side s has not sent its payment, as far as it knows.
PrePaid == [maker |-> {"Initialize", "Initialized", "WaitingForTakerFunding",
                       "TakerFundingReceived"},
            taker |-> {"Initialize", "Initialized", "Negotiated"}]

\* The payment each side sends from its wallet.
Payment == [maker |-> "makerPayment", taker |-> "funding"]

\* Side s is, or will be when restarted, in one of the states S.
In(s, S) == mem[s] \in S \/ stored[s] \in S

\* The taker's states after it has received the maker payment ...
KnowsMakerPayment ==
  {"MakerPaymentReceived", "MakerPaymentConfirmed", "TakerPaymentSent",
   "TakerPaymentSentSkipped", "TakerPaymentRefundRequired", "TakerPaymentRefunded",
   "TakerPaymentSpent", "MakerPaymentSpent", "Completed"}
\* ... and after it has seen it confirmed.
SawMakerPaymentConfirmed == KnowsMakerPayment \ {"MakerPaymentReceived"}

\* A payment is never sent again once the other side can know of it.
AnnouncedAfterStored ==
  /\ \A s \in Sides : mem[s] \in PrePaid[s] => stored[s] \in PrePaid[s]
  /\ "MakerPaymentInfo" \in sent => stored["maker"] \notin PrePaid["maker"]
  /\ "TakerFundingInfo" \in sent => stored["taker"] \notin PrePaid["taker"]
  /\ In("maker", {"TakerFundingReceived"}) => "TakerFundingInfo" \in sent
  /\ In("taker", KnowsMakerPayment) => "MakerPaymentInfo" \in sent
  /\ Live("takerPayment") => "MakerPaymentInfo" \in sent

GatePassed ==
  /\ RequirePaymentConfirm /\ (In("taker", SawMakerPaymentConfirmed) \/ Live("takerPayment"))
       => tx["makerPayment"] = "confirmed"
  /\ "TakerPaymentSpendPreimage" \in sent => "MakerPaymentInfo" \in sent
  /\ PreimageOnlyAgainstConfirmed

\* A state's on_changed starts at its first await.
StepFresh ==
  \A s \in Sides : mem[s] # stored[s] \/ mem[s] \in Terminal => step[s] = 1

\* A taker that has negotiated has compared the two started_at.
SkewChecked ==
  /\ \/ In("taker", TakerStates \ {"Initialize", "Initialized", "Aborted"})
     \/ mem["taker"] = "Initialized" /\ step["taker"] = 2
     \/ Live("takerPayment")
  => StartedAtDiff <= MaxStartedAtDiff

\* One run of the process sends the payment once, on its way out of PrePaid.
SentOnce ==
  \A s \in Sides :
    /\ orphans[s] <= restarts[s]
    /\ mem[s] = "Down" => orphans[s] < restarts[s]
    /\ mem[s] \in PrePaid[s] /\ Live(Payment[s]) => orphans[s] < restarts[s]

SpentOnce ==
  \A t, u \in SpendingTxs : Live(t) /\ Live(u) /\ Spends[t] = Spends[u] => t = u

SpentInputsLive == \A t \in SpendingTxs : Live(t) => Live(Spends[t])

\* The maker gives its secret away in one state only, and never after that
\* state takes its payment back.
SecretGuarded ==
  /\ At("maker", "TakerPaymentReceived", 2) \/ At("maker", "TakerPaymentReceivedSkipped", 2)
     \/ Live("takerPaymentSpend")
       => tx["takerPayment"] = "confirmed"
  /\ In("maker", {"TakerPaymentSpent", "Completed"}) => Live("takerPaymentSpend")
  /\ In("taker", {"TakerPaymentSpent", "MakerPaymentSpent", "Completed"})
     \/ Live("makerPaymentSpend")
       => Live("takerPaymentSpend")

RefundsGuarded ==
  /\ reason = "FundingReclaimedSecret" => Live("fundingRefund")
  /\ Live("makerPaymentRefund") =>
       /\ stored["maker"] \in {"MakerPaymentRefundRequired", "MakerPaymentRefunded", "Aborted"}
       /\ mem["maker"] \in {"MakerPaymentRefundRequired", "MakerPaymentRefunded", "Aborted"}
                           \cup NotRunning
       /\ Live("fundingRefund") \/ clock > MakerPaymentLocktime

OutcomeKnown ==
  /\ In("maker", {"MakerPaymentRefunded"}) => Live("makerPaymentRefund")
  /\ In("taker", {"MakerPaymentSpent", "Completed"}) => Live("makerPaymentSpend")
  /\ In("taker", {"TakerFundingRefunded"}) => Live("fundingRefund")
  /\ In("taker", {"TakerPaymentRefunded"}) => Live("takerPaymentRefund")

FinishedAtRest ==
  \A s \in Sides : finished[s] => mem[s] = stored[s] /\ stored[s] \in Terminal /\ ~locked[s]

SwapInv ==
  /\ TypeOK /\ AnnouncedAfterStored /\ GatePassed /\ StepFresh /\ SkewChecked /\ SentOnce
  /\ SpentOnce /\ SpentInputsLive
  /\ SecretGuarded /\ RefundsGuarded /\ OutcomeKnown /\ FinishedAtRest /\ LockMatchesState

=============================================================================
