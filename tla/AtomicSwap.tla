------------------------------ MODULE AtomicSwap ------------------------------
(***************************************************************************)
(* What a swap promises, whatever the messages, the crashes and the order  *)
(* of things: where the funds of the two sides may go.                     *)
(***************************************************************************)

VARIABLES takerFunds, makerFunds, expired

swapVars == <<takerFunds, makerFunds, expired>>

Places == {"held", "escrowed", "claimed", "returned"}

Init == takerFunds = "held" /\ makerFunds = "held" /\ expired \in BOOLEAN

\* An unconfirmed escrow may be lost by the network.
TakerEscrow ==
  /\ takerFunds = "held" /\ takerFunds' = "escrowed"
  /\ UNCHANGED <<makerFunds, expired>>
TakerEscrowLost ==
  /\ takerFunds = "escrowed" /\ takerFunds' = "held"
  /\ UNCHANGED <<makerFunds, expired>>
MakerEscrow ==
  /\ makerFunds = "held" /\ makerFunds' = "escrowed"
  /\ UNCHANGED <<takerFunds, expired>>
MakerEscrowLost ==
  /\ makerFunds = "escrowed" /\ makerFunds' = "held"
  /\ UNCHANGED <<takerFunds, expired>>

\* The maker claims first, against an escrow of its own that is in place ...
MakerClaim ==
  /\ takerFunds = "escrowed" /\ makerFunds = "escrowed"
  /\ takerFunds' = "claimed"
  /\ UNCHANGED <<makerFunds, expired>>

\* ... and only that lets the taker claim.
TakerClaim ==
  /\ makerFunds = "escrowed" /\ takerFunds = "claimed"
  /\ makerFunds' = "claimed"
  /\ UNCHANGED <<takerFunds, expired>>

TakerReturn ==
  /\ takerFunds = "escrowed" /\ takerFunds' = "returned"
  /\ UNCHANGED <<makerFunds, expired>>

\* The maker's funds come back before their lock time only after the taker's.
MakerReturn ==
  /\ makerFunds = "escrowed"
  /\ takerFunds = "returned" \/ expired
  /\ makerFunds' = "returned"
  /\ UNCHANGED <<takerFunds, expired>>

Expire == ~expired /\ expired' = TRUE /\ UNCHANGED <<takerFunds, makerFunds>>

Next == \/ TakerEscrow \/ TakerEscrowLost \/ MakerEscrow \/ MakerEscrowLost
        \/ MakerClaim \/ TakerClaim \/ TakerReturn \/ MakerReturn \/ Expire

Spec == Init /\ [][Next]_swapVars

\* Until the maker payment expires nobody holds the funds of both sides.
Atomicity ==
  ~expired => ~(\/ takerFunds = "claimed" /\ makerFunds = "returned"
                \/ takerFunds = "returned" /\ makerFunds = "claimed")
===============================================================================
