--------------------------- MODULE OrderMatch_proofs ---------------------------
(***************************************************************************)
(* The handshake of OrderMatch never gives a volume away twice: for every  *)
(* number of orders and nodes, whatever is lost, late, crashed or changed  *)
(* meanwhile.                                                              *)
(***************************************************************************)
EXTENDS OrderMatch, FiniteSetTheorems, TLAPS

USE DEF rigid, makerVars, takerVars

\* Amounts.

\* The amount of each set of taker orders, as a function: it is the same after
\* every step, and all that is said below of amounts is said of it.
Tally == [S \in SUBSET Takers |-> Amount(S)]

Sized == size \in [Takers -> Nat \ {0}]

\* One order asks for as many units as its size.
LEMMA UnitsOfOne ==
  ASSUME Sized, NEW t \in Takers
  PROVE  /\ IsFiniteSet({t} \X (1..size[t]))
         /\ Cardinality({t} \X (1..size[t])) = size[t]
<1>1. size[t] \in Nat /\ size[t] > 0
  BY DEF Sized
<1>2. IsFiniteSet({t}) /\ Cardinality({t}) = 1
  BY FS_Singleton
<1>3. IsFiniteSet(1..size[t]) /\ Cardinality(1..size[t]) = size[t]
  <2>1. IsFiniteSet(1..size[t])
          /\ Cardinality(1..size[t]) = IF 1 > size[t] THEN 0 ELSE size[t] - 1 + 1
    BY <1>1, FS_Interval
  <2> QED BY <1>1, <2>1
<1>4. IsFiniteSet({t} \X (1..size[t]))
        /\ Cardinality({t} \X (1..size[t])) = Cardinality({t}) * Cardinality(1..size[t])
  BY <1>2, <1>3, FS_Product
<1> QED BY <1>1, <1>2, <1>3, <1>4

\* What a set of orders asks for is a finite number of units.
LEMMA UnitsFinite ==
  ASSUME Sized, NEW S \in SUBSET Takers
  PROVE  IsFiniteSet(Units(S))
<1> DEFINE f == [t \in S |-> {t} \X (1..size[t])]
           T == {{t} \X (1..size[t]) : t \in S}
<1>1. f \in Surjection(S, T)
  BY DEF Surjection
<1>2. IsFiniteSet(S)
  BY OrdersAssumption, FS_Subset
<1>3. IsFiniteSet(T)
  BY <1>1, <1>2, FS_Surjection
<1>4. \A U \in T : IsFiniteSet(U)
  BY UnitsOfOne
<1> QED BY <1>3, <1>4, FS_UNION DEF Units

\* More orders ask for no less.
LEMMA AmountGrows ==
  ASSUME Sized, NEW T \in SUBSET Takers, NEW S \in SUBSET T
  PROVE  Amount(S) <= Amount(T)
<1>1. Units(S) \subseteq Units(T)
  BY DEF Units
<1> QED BY <1>1, UnitsFinite, FS_Subset DEF Amount

\* One more order adds its amount.
LEMMA AmountAdds ==
  ASSUME Sized, NEW S \in SUBSET Takers, NEW t \in Takers \ S
  PROVE  Amount(S \cup {t}) = Amount(S) + size[t]
<1> DEFINE U == {t} \X (1..size[t])
<1>1. IsFiniteSet(U) /\ Cardinality(U) = size[t]
  BY UnitsOfOne
<1>2. Units(S \cup {t}) = Units(S) \cup U
  BY DEF Units
<1>3. Cardinality(Units(S) \cap U) = 0
  <2>1. Units(S) \cap U = {}
    BY DEF Units
  <2> QED BY <2>1, FS_EmptySet
<1>4. Cardinality(Units(S) \cup U)
        = Cardinality(Units(S)) + Cardinality(U) - Cardinality(Units(S) \cap U)
  BY <1>1, UnitsFinite, FS_Union
<1>5. Cardinality(Units(S)) \in Nat
  BY UnitsFinite, FS_CardinalityType
<1>6. size[t] \in Nat
  BY DEF Sized
<1>7. Cardinality(Units(S) \cup U) = Cardinality(Units(S)) + size[t]
  <2> HIDE DEF U
  <2> QED BY <1>1, <1>3, <1>4, <1>5, <1>6
<1> QED BY <1>2, <1>7 DEF Amount

\* The tally of the orders: a number that grows with the set, order by order.
LEMMA TallyFacts ==
  ASSUME Sized
  PROVE  /\ Tally \in [SUBSET Takers -> Nat]
         /\ Tally[{}] = 0
         /\ \A T \in SUBSET Takers : \A S \in SUBSET T : Tally[S] <= Tally[T]
         /\ \A S \in SUBSET Takers, t \in Takers :
              t \notin S => Tally[S \cup {t}] = Tally[S] + size[t]
<1>1. \A S \in SUBSET Takers : Amount(S) \in Nat
  BY UnitsFinite, FS_CardinalityType DEF Amount
<1>2. Units({}) = {}
  BY DEF Units
<1>3. Amount({}) = 0
  BY <1>2, FS_EmptySet DEF Amount
<1> QED BY <1>1, <1>3, AmountGrows, AmountAdds DEF Tally

\* The tally reads nothing but the sizes the orders were given when they were made.
LEMMA TallyKept == size' = size => Tally' = Tally
  BY DEF Tally, Amount, Units
-----------------------------------------------------------------------------
\* Types.

\* What a handler that waits for a lock knows.
LEMMA TaskShapes ==
  /\ \A t, left : <<"ask", t, left>> \in Task => t \in Takers /\ left \in SUBSET Orders
  /\ \A t, o : <<"connect", t, o>> \in Task => t \in Takers /\ o \in Orders
  /\ \A c \in {"update", "apply"} : \A o, v, ord :
       <<c, o, v, ord>> \in Task => o \in Orders /\ v \in Nat /\ ord \in MakerOrder
  BY DEF Task

\* A handler's kind tells what it knows.
LEMMA TaskKinds ==
  ASSUME NEW k \in Task
  PROVE  /\ k[1] = "ask" => k = <<"ask", k[2], k[3]>>
         /\ k[1] = "connect" => k = <<"connect", k[2], k[3]>>
         /\ k[1] \in {"update", "apply"} => k = <<k[1], k[2], k[3], k[4]>>
         /\ k[1] \in {"drop", "expire", "cancel", "create"} => k = <<k[1], k[2]>>
         /\ k[1] \in {"ask", "connect", "drop", "expire", "cancel", "create", "update", "apply"}
  BY DEF Task

\* Changed matches or a changed volume make an order of an order.
LEMMA OrderShapes ==
  ASSUME NEW ord \in MakerOrder
  PROVE  /\ \A t \in Takers :
              /\ [ord EXCEPT !.reserved = @ \cup {t}] \in MakerOrder
              /\ [ord EXCEPT !.reserved = @ \ {t}, !.connected = @ \cup {t}] \in MakerOrder
         /\ \A old : [ord EXCEPT !.reserved = @ \ old] \in MakerOrder
         /\ \A v \in Nat : [ord EXCEPT !.vol = v] \in MakerOrder
  BY DEF MakerOrder

\* What an order counts is a set of taker orders and their amount a number.
LEMMA ReservedTally ==
  ASSUME TypeOK, NEW ord \in MakerOrder
  PROVE  /\ MatchesOf(ord) \in SUBSET Takers
         /\ ReservedAmount(ord) = Tally[MatchesOf(ord)] /\ ReservedAmount(ord) \in Nat
<1>1. Sized
  BY OrdersAssumption DEF Sized, TypeOK
<1>2. MatchesOf(ord) \in SUBSET Takers
  BY DEF MatchesOf, MakerOrder
<1> QED BY <1>1, <1>2, TallyFacts DEF ReservedAmount, Tally

\* A changed order and its lock.
LEMMA ChangeTypes ==
  ASSUME TypeOK, NEW o \in Orders, NEW ord \in MakerOrder, Change(o, ord)
  PROVE  /\ order' \in [Orders -> MakerOrder] /\ unsaved' \subseteq Orders
         /\ active' = active /\ file' = file
  BY DEF TypeOK, Change

\* No order has been made when the nodes start: every variable has its type.
LEMMA TypeInit == Init => TypeOK
  BY OrdersAssumption DEF Init, TypeOK, Orders, MakerOrder, NewOrder

\* Every handler and every task of the nodes keeps the types.
LEMMA TypeStep == TypeOK /\ [Next]_vars => TypeOK'
<1> SUFFICES ASSUME TypeOK, [Next]_vars PROVE TypeOK'
  OBVIOUS
<1> USE OrdersAssumption DEF TypeOK, Orders
<1>request. ASSUME NEW t \in Takers, NEW n \in Nodes, ReceiveRequest(t, n) PROVE TypeOK'
  BY <1>request DEF ReceiveRequest, Task
<1>skip. ASSUME NEW t \in Takers, NEW left, NEW o \in left, SkipOrder(t, left, o) PROVE TypeOK'
  BY <1>skip, TaskShapes DEF SkipOrder, Task
<1>reserve. ASSUME NEW t, NEW left, NEW o \in left, Reserve(t, left, o) PROVE TypeOK'
  <2>1. t \in Takers /\ o \in Orders
    BY <1>reserve, TaskShapes DEF Reserve
  <2>2. [order[o] EXCEPT !.reserved = @ \cup {t}] \in MakerOrder
    BY <2>1, OrderShapes
  <2>3. CASE UNCHANGED <<net, makerVars>>
    BY <1>reserve, <2>3 DEF Reserve
  <2>4. CASE /\ net' = net \cup {<<"reserved", t, o>>}
             /\ Change(o, [order[o] EXCEPT !.reserved = @ \cup {t}])
    BY <1>reserve, <2>1, <2>2, <2>4, ChangeTypes DEF Reserve, Message
  <2> QED BY <1>reserve, <2>3, <2>4 DEF Reserve
<1>receiveconnect. ASSUME NEW t \in Takers, NEW o \in Orders, ReceiveConnect(t, o) PROVE TypeOK'
  BY <1>receiveconnect DEF ReceiveConnect, Task
<1>connect. ASSUME NEW t \in Takers, NEW o \in Orders, Connect(t, o) PROVE TypeOK'
  <2>1. [order[o] EXCEPT !.reserved = @ \ {t}, !.connected = @ \cup {t}] \in MakerOrder
    BY OrderShapes
  <2> QED BY <1>connect, <2>1 DEF Connect, Change, Message
<1>save. ASSUME NEW o \in Orders, Save(o) PROVE TypeOK'
  BY <1>save DEF Save
<1>wait. ASSUME NEW o \in Orders, WaitToDrop(o) PROVE TypeOK'
  BY <1>wait DEF WaitToDrop, Task
<1>drop. ASSUME NEW o \in Orders, DropMatches(o) PROVE TypeOK'
  <2>1. CASE UNCHANGED makerVars
    BY <1>drop, <2>1 DEF DropMatches
  <2>2. ASSUME NEW ord \in MakerOrder, Change(o, ord) PROVE TypeOK'
    <3>1. order' \in [Orders -> MakerOrder] /\ unsaved' \subseteq Orders
            /\ active' = active /\ file' = file
      BY <2>2, ChangeTypes
    <3>2. tasks' \subseteq tasks
            /\ UNCHANGED <<rigid, takerVars, net, makerSwaps, takerSwaps, cut, ready, crashes, ops>>
      BY <1>drop DEF DropMatches
    <3> QED BY <3>1, <3>2
  <2>3. \A old : [order[o] EXCEPT !.reserved = @ \ old] \in MakerOrder
    BY OrderShapes
  <2> HIDE DEF TypeOK
  <2> QED BY <1>drop, <2>1, <2>2, <2>3 DEF DropMatches
<1>check. ASSUME NEW o \in Orders, CheckBalance(o) PROVE TypeOK'
  BY <1>check DEF CheckBalance, Remove
<1>expire. ASSUME NEW o \in Orders, Expire(o) PROVE TypeOK'
  BY <1>expire DEF Expire, Bounded, Task
<1>delete. ASSUME NEW o \in Orders, DeleteExpired(o) PROVE TypeOK'
  BY <1>delete DEF DeleteExpired, Remove
<1>cancel. ASSUME NEW o \in Orders, Cancel(o) PROVE TypeOK'
  BY <1>cancel DEF Cancel, Remove, Bounded
<1>mark. ASSUME NEW o \in Orders, MarkForCancel(o) PROVE TypeOK'
  BY <1>mark DEF MarkForCancel, Bounded, Task
<1>cancelmarked. ASSUME NEW o \in Orders, CancelMarked(o) PROVE TypeOK'
  BY <1>cancelmarked DEF CancelMarked, Remove
<1>start. ASSUME NEW o \in Orders, NEW v \in 0..Volume, StartUpdate(o, v) PROVE TypeOK'
  BY <1>start DEF StartUpdate, Bounded, Task
<1>resume. ASSUME NEW o \in Orders, NEW v, NEW before, ResumeUpdate(o, v, before) PROVE TypeOK'
  BY <1>resume, TaskShapes DEF ResumeUpdate, Task
<1>finish. ASSUME NEW o \in Orders, NEW v, NEW before, FinishUpdate(o, v, before) PROVE TypeOK'
  <2>1. v \in Nat /\ before \in MakerOrder
    BY <1>finish, TaskShapes DEF FinishUpdate
  <2>2. [before EXCEPT !.vol = v] \in MakerOrder
    BY <2>1, OrderShapes
  <2>3. CASE Change(o, [before EXCEPT !.vol = v])
    BY <1>finish, <2>2, <2>3, ChangeTypes DEF FinishUpdate
  <2> QED BY <1>finish, <2>3 DEF FinishUpdate
<1>balance. ASSUME NEW o \in Orders, NEW v \in 0..Volume, BalanceUpdated(o, v) PROVE TypeOK'
  <2>1. ReservedAmount(order[o]) + v \in Nat
    BY ReservedTally
  <2>2. [order[o] EXCEPT !.vol = ReservedAmount(order[o]) + v] \in MakerOrder
    BY <2>1, OrderShapes
  <2>3. [order EXCEPT ![o].vol = ReservedAmount(order[o]) + v]
          = [order EXCEPT ![o] = [order[o] EXCEPT !.vol = ReservedAmount(order[o]) + v]]
    OBVIOUS
  <2> QED BY <1>balance, <2>2, <2>3 DEF BalanceUpdated, Remove, Bounded
<1>buy. ASSUME NEW t \in Takers, Buy(t) PROVE TypeOK'
  BY <1>buy DEF Buy, Message
<1>receivereserved. ASSUME NEW t \in Takers, NEW o \in Orders, ReceiveReserved(t, o) PROVE TypeOK'
  BY <1>receivereserved DEF ReceiveReserved
<1>giveup. ASSUME NEW t \in Takers, GiveUp(t) PROVE TypeOK'
  BY <1>giveup DEF GiveUp
<1>choose. ASSUME NEW t \in Takers, NEW o \in Orders, ChooseMaker(t, o) PROVE TypeOK'
  BY <1>choose DEF ChooseMaker, Message
<1>ignore. ASSUME NEW t \in Takers, IgnoreMakers(t) PROVE TypeOK'
  BY <1>ignore DEF IgnoreMakers
<1>savematch. ASSUME NEW t \in Takers, SaveMatch(t) PROVE TypeOK'
  BY <1>savematch DEF SaveMatch
<1>connected. ASSUME NEW t \in Takers, NEW o \in Orders, ReceiveConnected(t, o) PROVE TypeOK'
  BY <1>connected DEF ReceiveConnected
<1>deletetaker. ASSUME NEW t \in Takers, DeleteTakerOrder(t) PROVE TypeOK'
  BY <1>deletetaker DEF DeleteTakerOrder
<1>canceltaker. ASSUME NEW t \in Takers, CancelTaker(t) PROVE TypeOK'
  BY <1>canceltaker DEF CancelTaker, Close, Bounded
<1>timeout. ASSUME NEW t \in Takers, TimeOut(t) PROVE TypeOK'
  BY <1>timeout DEF TimeOut, Close
<1>tomaker. ASSUME NEW t \in Takers, ToMaker(t) PROVE TypeOK'
  BY <1>tomaker DEF ToMaker, Close, Task
<1>savenew. ASSUME NEW t \in Takers, SaveNew(t) PROVE TypeOK'
  BY <1>savenew DEF SaveNew, NewOrder, MakerOrder
<1>crash. ASSUME NEW n \in Nodes, Crash(n) PROVE TypeOK'
  BY <1>crash DEF Crash
<1>activate. ASSUME NEW n \in Nodes, Activate(n) PROVE TypeOK'
  BY <1>activate DEF Activate
<1>stutter. ASSUME UNCHANGED vars PROVE TypeOK'
  BY <1>stutter DEF vars
<1> HIDE DEF TypeOK
<1>maker. ASSUME NEW o \in Orders, MakerStep(o) PROVE TypeOK'
  BY <1>maker, <1>save, <1>wait, <1>drop, <1>check, <1>expire, <1>delete, <1>cancel, <1>mark,
     <1>cancelmarked, <1>start, <1>resume, <1>finish, <1>balance DEF MakerStep
<1>taker. ASSUME NEW t \in Takers, TakerStep(t) PROVE TypeOK'
  BY <1>taker, <1>buy, <1>giveup, <1>ignore, <1>savematch, <1>deletetaker, <1>canceltaker,
     <1>timeout, <1>tomaker, <1>savenew DEF TakerStep
<1>answer. ASSUME NEW t \in Takers, Answer(t) PROVE TypeOK'
  BY <1>answer, <1>request, <1>skip, <1>reserve DEF Answer
<1>handshake. ASSUME NEW t \in Takers, NEW o \in Orders, Handshake(t, o) PROVE TypeOK'
  BY <1>handshake, <1>receiveconnect, <1>connect, <1>receivereserved, <1>choose, <1>connected
     DEF Handshake
<1> QED
  BY <1>maker, <1>taker, <1>answer, <1>handshake, <1>crash, <1>activate, <1>stutter DEF Next

-----------------------------------------------------------------------------
\* The inductive invariant.

\* The makers' orders whose handlers wait.
MakersOf(k) == IF k[1] = "ask" THEN k[3] ELSE IF k[1] = "connect" THEN {k[3]} ELSE {k[2]}

\* Nothing on the makers' side knows of the uuid of t.
Untouched(t) ==
  /\ t \notin active /\ t \notin unsaved /\ file[t] = None
  /\ order[t].connected = {} /\ SwapsOf(t) = {}
  /\ \A k \in tasks : t \notin MakersOf(k)

\* An order, a stored one, and an update that waits have a volume their matches
\* fit in.
VolumesHold ==
  /\ \A o \in Orders :
       /\ ReservedAmount(order[o]) <= order[o].vol
       /\ file[o] # None => ReservedAmount(file[o]) <= file[o].vol
  /\ \A k \in tasks : k[1] \in {"update", "apply"} => ReservedAmount(k[4]) <= k[3]

\* A taker order has one match at most; but for the time its lock is held, what
\* is stored of an open one are its matches.
TakerRecord ==
  \A t \in Takers :
    /\ phase[t] = "new" => matched[t] = {} /\ tfile[t] = None /\ tlock[t] = "free"
    /\ phase[t] = "open" => tfile[t] # None
    /\ tlock[t] = "saving" => phase[t] = "open"
    /\ tlock[t] = "deleting" => phase[t] = "closed"
    /\ tlock[t] # "saving" /\ tfile[t] # None => tfile[t] = matched[t]
    /\ \A o1, o2 \in matched[t] : o1 = o2
    /\ tfile[t] # None => \A o1, o2 \in tfile[t] : o1 = o2

\* An order that is or will again be a taker's is no maker's, and one that
\* started a swap never becomes a maker's: it keeps its match.
OneRole ==
  \A t \in Takers :
    /\ phase[t] # "closed" \/ tfile[t] # None => Untouched(t)
    /\ (\E o \in Orders : <<o, t>> \in takerSwaps) =>
         Untouched(t) /\ matched[t] # {} /\ tfile[t] # {}

\* Only the maker that is the match is sent "connect" and starts a swap.
ConnectsMatched ==
  \A t \in Takers \ cut, o \in Orders :
    <<"connect", t, o>> \in net \cup tasks \/ <<o, t>> \in makerSwaps => o \in matched[t]

\* Who was sent "connected" or is in a swap is counted, and what is stored
\* counts it too, but for the time the lock is held.
ConnectedCounted ==
  \A o \in Orders \ cut :
    /\ \A t \in Takers :
         <<"connected", t, o>> \in net \/ <<o, t>> \in makerSwaps \cup takerSwaps =>
           t \in order[o].connected
    /\ o \notin unsaved /\ file[o] # None => order[o].connected \subseteq file[o].connected

\* Nobody connects to an order before its first save.
NewUnconnected ==
  \A t \in Takers : <<"create", t>> \in tasks =>
    order[t].connected = {} /\ \A u \in Takers : <<"connect", u, t>> \notin tasks

HandshakeInv ==
  /\ TypeOK /\ VolumesHold /\ TakerRecord /\ OneRole
  /\ ConnectsMatched /\ ConnectedCounted /\ NewUnconnected

\* The makers' steps leave the takers and what is sent alone.
LEMMA MakerFrame ==
  ASSUME NEW o \in Orders, MakerStep(o)
  PROVE  UNCHANGED <<rigid, takerVars, net, makerSwaps, takerSwaps, cut, ready, crashes>>
  BY DEF MakerStep, Save, WaitToDrop, DropMatches, CheckBalance, Expire, DeleteExpired, Cancel,
     MarkForCancel, CancelMarked, BalanceUpdated, StartUpdate, ResumeUpdate, FinishUpdate

\* A maker's answer is no "connect" and no "connected", and starts nothing.
LEMMA AnswerFrame ==
  ASSUME NEW t \in Takers, Answer(t)
  PROVE  /\ UNCHANGED <<rigid, takerVars, makerSwaps, takerSwaps, cut, ready, crashes>>
         /\ \A u, o : /\ <<"connect", u, o>> \in net' => <<"connect", u, o>> \in net
                      /\ <<"connected", u, o>> \in net' => <<"connected", u, o>> \in net
<1>1. ASSUME NEW n, ReceiveRequest(t, n)
      PROVE  /\ UNCHANGED <<rigid, takerVars, makerSwaps, takerSwaps, cut, ready, crashes>>
             /\ net' \subseteq net
  BY <1>1 DEF ReceiveRequest
<1>2. ASSUME NEW left, NEW o, SkipOrder(t, left, o)
      PROVE  UNCHANGED <<rigid, takerVars, net, makerSwaps, takerSwaps, cut, ready, crashes>>
  BY <1>2 DEF SkipOrder
<1>3. ASSUME NEW left, NEW o, Reserve(t, left, o)
      PROVE  /\ UNCHANGED <<rigid, takerVars, makerSwaps, takerSwaps, cut, ready, crashes>>
             /\ net' \subseteq net \cup {<<"reserved", t, o>>}
  BY <1>3 DEF Reserve
<1> QED BY <1>1, <1>2, <1>3 DEF Answer

\* Each handler keeps what a taker order's record says of the maker it chose
\* (process_maker_reserved, process_maker_connected, lp_connect_start_bob).
LEMMA TakerRecordStep == TypeOK /\ TakerRecord /\ [Next]_vars => TakerRecord'
<1> SUFFICES ASSUME TypeOK, TakerRecord, [Next]_vars PROVE TakerRecord'
  OBVIOUS
<1> USE OrdersAssumption DEF TypeOK, TakerRecord, TakerLockFree
<1>buy. ASSUME NEW t \in Takers, Buy(t) PROVE TakerRecord'
  BY <1>buy DEF Buy
<1>giveup. ASSUME NEW t \in Takers, GiveUp(t) PROVE TakerRecord'
  BY <1>giveup DEF GiveUp
<1>ignore. ASSUME NEW t \in Takers, IgnoreMakers(t) PROVE TakerRecord'
  BY <1>ignore DEF IgnoreMakers
<1>savematch. ASSUME NEW t \in Takers, SaveMatch(t) PROVE TakerRecord'
  BY <1>savematch DEF SaveMatch
<1>deletetaker. ASSUME NEW t \in Takers, DeleteTakerOrder(t) PROVE TakerRecord'
  BY <1>deletetaker DEF DeleteTakerOrder
<1>canceltaker. ASSUME NEW t \in Takers, CancelTaker(t) PROVE TakerRecord'
  BY <1>canceltaker DEF CancelTaker, Close
<1>timeout. ASSUME NEW t \in Takers, TimeOut(t) PROVE TakerRecord'
  BY <1>timeout DEF TimeOut, Close
<1>tomaker. ASSUME NEW t \in Takers, ToMaker(t) PROVE TakerRecord'
  BY <1>tomaker DEF ToMaker, Close
<1>savenew. ASSUME NEW t \in Takers, SaveNew(t) PROVE TakerRecord'
  BY <1>savenew DEF SaveNew
<1>receivereserved. ASSUME NEW t \in Takers, NEW o \in Orders, ReceiveReserved(t, o) PROVE TakerRecord'
  BY <1>receivereserved DEF ReceiveReserved
<1>choose. ASSUME NEW t \in Takers, NEW o \in Orders, ChooseMaker(t, o) PROVE TakerRecord'
  BY <1>choose DEF ChooseMaker
<1>receiveconnect. ASSUME NEW t \in Takers, NEW o \in Orders, ReceiveConnect(t, o) PROVE TakerRecord'
  BY <1>receiveconnect DEF ReceiveConnect
<1>connect. ASSUME NEW t \in Takers, NEW o \in Orders, Connect(t, o) PROVE TakerRecord'
  BY <1>connect DEF Connect, Change
<1>connected. ASSUME NEW t \in Takers, NEW o \in Orders, ReceiveConnected(t, o) PROVE TakerRecord'
  BY <1>connected DEF ReceiveConnected
<1>crash. ASSUME NEW n \in Nodes, Crash(n) PROVE TakerRecord'
  BY <1>crash DEF Crash
<1>activate. ASSUME NEW n \in Nodes, Activate(n) PROVE TakerRecord'
  BY <1>activate DEF Activate
<1>stutter. ASSUME UNCHANGED vars PROVE TakerRecord'
  BY <1>stutter DEF vars
<1>maker. ASSUME NEW o \in Orders, MakerStep(o) PROVE TakerRecord'
  BY <1>maker, MakerFrame DEF TakerRecord
<1>taker. ASSUME NEW t \in Takers, TakerStep(t) PROVE TakerRecord'
  BY <1>taker, <1>buy, <1>giveup, <1>ignore, <1>savematch, <1>deletetaker, <1>canceltaker,
     <1>timeout, <1>tomaker, <1>savenew DEF TakerStep
<1>answer. ASSUME NEW t \in Takers, Answer(t) PROVE TakerRecord'
  BY <1>answer, AnswerFrame
<1>handshake. ASSUME NEW t \in Takers, NEW o \in Orders, Handshake(t, o) PROVE TakerRecord'
  BY <1>handshake, <1>receivereserved, <1>choose, <1>receiveconnect, <1>connect,
     <1>connected DEF Handshake
<1> QED
  BY <1>maker, <1>taker, <1>answer, <1>handshake, <1>crash, <1>activate, <1>stutter DEF Next

\* Only ToMaker makes a maker's order of a taker's: what is said of it meanwhile
\* finds no order.
LEMMA UntouchedKept ==
  ASSUME TypeOK, [Next]_vars, NEW u \in Takers, Untouched(u), ~ToMaker(u)
  PROVE  Untouched(u)'
<1> USE OrdersAssumption DEF TypeOK, Orders, Untouched, SwapsOf, MakersOf
<1>save. ASSUME NEW o \in Orders, Save(o) PROVE Untouched(u)'
  BY <1>save DEF Save
<1>wait. ASSUME NEW o \in Orders, WaitToDrop(o) PROVE Untouched(u)'
  BY <1>wait DEF WaitToDrop
<1>drop. ASSUME NEW o \in Orders, DropMatches(o) PROVE Untouched(u)'
  <2>1. o # u
    BY <1>drop DEF DropMatches, Change
  <2>2. order'[u] = order[u] /\ active' \subseteq active /\ file'[u] \in {file[u], None}
          /\ unsaved' \subseteq unsaved \cup {o}
    BY <1>drop, <2>1 DEF DropMatches, Change
  <2>3. tasks' \subseteq tasks /\ \A x \in Takers : <<u, x>> \in makerSwaps' => <<u, x>> \in makerSwaps
    BY <1>drop, <2>1 DEF DropMatches, Change
  <2> QED BY <2>1, <2>2, <2>3
<1>check. ASSUME NEW o \in Orders, CheckBalance(o) PROVE Untouched(u)'
  BY <1>check DEF CheckBalance, Remove
<1>expire. ASSUME NEW o \in Orders, Expire(o) PROVE Untouched(u)'
  BY <1>expire DEF Expire
<1>delete. ASSUME NEW o \in Orders, DeleteExpired(o) PROVE Untouched(u)'
  BY <1>delete DEF DeleteExpired, Remove
<1>cancel. ASSUME NEW o \in Orders, Cancel(o) PROVE Untouched(u)'
  BY <1>cancel DEF Cancel, Remove
<1>mark. ASSUME NEW o \in Orders, MarkForCancel(o) PROVE Untouched(u)'
  BY <1>mark DEF MarkForCancel
<1>cancelmarked. ASSUME NEW o \in Orders, CancelMarked(o) PROVE Untouched(u)'
  BY <1>cancelmarked DEF CancelMarked, Remove
<1>balance. ASSUME NEW o \in Orders, NEW v \in 0..Volume, BalanceUpdated(o, v) PROVE Untouched(u)'
  <2>1. o # u
    BY <1>balance DEF BalanceUpdated, Remove
  <2>2. order'[u] = order[u] /\ active' \subseteq active /\ file'[u] \in {file[u], None}
          /\ unsaved' \subseteq unsaved \cup {o}
    BY <1>balance, <2>1 DEF BalanceUpdated, Remove
  <2>3. tasks' \subseteq tasks /\ \A x \in Takers : <<u, x>> \in makerSwaps' => <<u, x>> \in makerSwaps
    BY <1>balance, <2>1 DEF BalanceUpdated, Remove
  <2> QED BY <2>1, <2>2, <2>3
<1>start. ASSUME NEW o \in Orders, NEW v \in 0..Volume, StartUpdate(o, v) PROVE Untouched(u)'
  BY <1>start DEF StartUpdate
<1>resume. ASSUME NEW o \in Orders, NEW v, NEW before, ResumeUpdate(o, v, before) PROVE Untouched(u)'
  BY <1>resume DEF ResumeUpdate
<1>finish. ASSUME NEW o \in Orders, NEW v, NEW before, FinishUpdate(o, v, before) PROVE Untouched(u)'
  <2>1. o # u
    BY <1>finish DEF FinishUpdate, Change
  <2>2. order'[u] = order[u] /\ active' \subseteq active /\ file'[u] \in {file[u], None}
          /\ unsaved' \subseteq unsaved \cup {o}
    BY <1>finish, <2>1 DEF FinishUpdate, Change
  <2>3. tasks' \subseteq tasks /\ \A x \in Takers : <<u, x>> \in makerSwaps' => <<u, x>> \in makerSwaps
    BY <1>finish, <2>1 DEF FinishUpdate, Change
  <2> QED BY <2>1, <2>2, <2>3
<1>buy. ASSUME NEW t \in Takers, Buy(t) PROVE Untouched(u)'
  BY <1>buy DEF Buy
<1>giveup. ASSUME NEW t \in Takers, GiveUp(t) PROVE Untouched(u)'
  BY <1>giveup DEF GiveUp
<1>ignore. ASSUME NEW t \in Takers, IgnoreMakers(t) PROVE Untouched(u)'
  BY <1>ignore DEF IgnoreMakers
<1>savematch. ASSUME NEW t \in Takers, SaveMatch(t) PROVE Untouched(u)'
  BY <1>savematch DEF SaveMatch
<1>deletetaker. ASSUME NEW t \in Takers, DeleteTakerOrder(t) PROVE Untouched(u)'
  BY <1>deletetaker DEF DeleteTakerOrder
<1>canceltaker. ASSUME NEW t \in Takers, CancelTaker(t) PROVE Untouched(u)'
  BY <1>canceltaker DEF CancelTaker, Close
<1>timeout. ASSUME NEW t \in Takers, TimeOut(t) PROVE Untouched(u)'
  BY <1>timeout DEF TimeOut, Close
<1>tomaker. ASSUME NEW t \in Takers, u # t, ToMaker(t) PROVE Untouched(u)'
  BY <1>tomaker DEF ToMaker, Close
<1>savenew. ASSUME NEW t \in Takers, SaveNew(t) PROVE Untouched(u)'
  BY <1>savenew DEF SaveNew
<1>request. ASSUME NEW t \in Takers, NEW n \in Nodes, ReceiveRequest(t, n) PROVE Untouched(u)'
  BY <1>request DEF ReceiveRequest
<1>skip. ASSUME NEW t, NEW left, NEW o \in left, SkipOrder(t, left, o) PROVE Untouched(u)'
  BY <1>skip DEF SkipOrder
<1>reserve. ASSUME NEW t, NEW left, NEW o \in left, Reserve(t, left, o) PROVE Untouched(u)'
  <2>1. o # u
    BY <1>reserve DEF Reserve, Change
  <2>2. order'[u] = order[u] /\ active' \subseteq active /\ file'[u] \in {file[u], None}
          /\ unsaved' \subseteq unsaved \cup {o}
    BY <1>reserve, <2>1 DEF Reserve, Change
  <2>3. tasks' \subseteq tasks /\ \A x \in Takers : <<u, x>> \in makerSwaps' => <<u, x>> \in makerSwaps
    BY <1>reserve, <2>1 DEF Reserve, Change
  <2> QED BY <2>1, <2>2, <2>3
<1>receivereserved. ASSUME NEW t \in Takers, NEW o \in Orders, ReceiveReserved(t, o) PROVE Untouched(u)'
  BY <1>receivereserved DEF ReceiveReserved
<1>choose. ASSUME NEW t \in Takers, NEW o \in Orders, ChooseMaker(t, o) PROVE Untouched(u)'
  BY <1>choose DEF ChooseMaker
<1>receiveconnect. ASSUME NEW t \in Takers, NEW o \in Orders, ReceiveConnect(t, o) PROVE Untouched(u)'
  BY <1>receiveconnect DEF ReceiveConnect
<1>connect. ASSUME NEW t \in Takers, NEW o \in Orders, Connect(t, o) PROVE Untouched(u)'
  <2>1. o # u
    BY <1>connect DEF Connect, Change
  <2>2. order'[u] = order[u] /\ active' \subseteq active /\ file'[u] \in {file[u], None}
          /\ unsaved' \subseteq unsaved \cup {o}
    BY <1>connect, <2>1 DEF Connect, Change
  <2>3. tasks' \subseteq tasks /\ \A x \in Takers : <<u, x>> \in makerSwaps' => <<u, x>> \in makerSwaps
    BY <1>connect, <2>1 DEF Connect, Change
  <2> QED BY <2>1, <2>2, <2>3
<1>connected. ASSUME NEW t \in Takers, NEW o \in Orders, ReceiveConnected(t, o) PROVE Untouched(u)'
  BY <1>connected DEF ReceiveConnected
<1>crash. ASSUME NEW n \in Nodes, Crash(n) PROVE Untouched(u)'
  <2>1. u \notin active' /\ u \notin unsaved' /\ file'[u] = None /\ order'[u] = order[u]
    BY <1>crash DEF Crash, Orders
  <2>2. tasks' \subseteq tasks /\ makerSwaps' = makerSwaps
    BY <1>crash DEF Crash
  <2> QED BY <2>1, <2>2
<1>activate. ASSUME NEW n \in Nodes, Activate(n) PROVE Untouched(u)'
  BY <1>activate DEF Activate
<1>stutter. ASSUME UNCHANGED vars PROVE Untouched(u)'
  BY <1>stutter DEF vars
<1> HIDE DEF TypeOK, Orders, Untouched
<1>maker. ASSUME NEW o \in Orders, MakerStep(o) PROVE Untouched(u)'
  BY <1>maker, <1>save, <1>wait, <1>drop, <1>check, <1>expire, <1>delete, <1>cancel,
     <1>mark, <1>cancelmarked, <1>balance, <1>start, <1>resume, <1>finish DEF MakerStep
<1>taker. ASSUME NEW t \in Takers, TakerStep(t) PROVE Untouched(u)'
  BY <1>taker, <1>buy, <1>giveup, <1>ignore, <1>savematch, <1>deletetaker, <1>canceltaker,
     <1>timeout, <1>tomaker, <1>savenew DEF TakerStep
<1>answer. ASSUME NEW t \in Takers, Answer(t) PROVE Untouched(u)'
  BY <1>answer, <1>request, <1>skip, <1>reserve DEF Answer
<1>handshake. ASSUME NEW t \in Takers, NEW o \in Orders, Handshake(t, o) PROVE Untouched(u)'
  BY <1>handshake, <1>receivereserved, <1>choose, <1>receiveconnect, <1>connect,
     <1>connected DEF Handshake
<1> QED
  BY <1>maker, <1>taker, <1>answer, <1>handshake, <1>crash, <1>activate, <1>stutter DEF Next

\* No step makes a taker's order of a closed one without a file, or loses the
\* last match; a taker starts a swap when its order is open and has a match.
LEMMA TakerSteps ==
  ASSUME TypeOK, TakerRecord, [Next]_vars, NEW u \in Takers
  PROVE  /\ phase'[u] # "closed" \/ tfile'[u] # None => phase[u] # "closed" \/ tfile[u] # None
         /\ matched[u] # {} /\ tfile[u] # {} => matched'[u] # {} /\ tfile'[u] # {}
         /\ \A o \in Orders : <<o, u>> \in takerSwaps' =>
              \/ <<o, u>> \in takerSwaps
              \/ phase[u] = "open" /\ matched[u] # {} /\ tfile[u] # {}
<1> DEFINE Result ==
      /\ phase'[u] # "closed" \/ tfile'[u] # None => phase[u] # "closed" \/ tfile[u] # None
      /\ matched[u] # {} /\ tfile[u] # {} => matched'[u] # {} /\ tfile'[u] # {}
      /\ \A q \in Orders : <<q, u>> \in takerSwaps' =>
           \/ <<q, u>> \in takerSwaps
           \/ phase[u] = "open" /\ matched[u] # {} /\ tfile[u] # {}
<1> SUFFICES Result
  OBVIOUS
<1>none. None # {}
  BY OrdersAssumption
<1> USE <1>none DEF TypeOK, TakerRecord, TakerLockFree
<1>buy. ASSUME NEW t \in Takers, Buy(t) PROVE Result
  BY <1>buy DEF Buy
<1>giveup. ASSUME NEW t \in Takers, GiveUp(t) PROVE Result
  BY <1>giveup DEF GiveUp
<1>ignore. ASSUME NEW t \in Takers, IgnoreMakers(t) PROVE Result
  BY <1>ignore DEF IgnoreMakers
<1>savematch. ASSUME NEW t \in Takers, SaveMatch(t) PROVE Result
  BY <1>savematch DEF SaveMatch
<1>deletetaker. ASSUME NEW t \in Takers, DeleteTakerOrder(t) PROVE Result
  BY <1>deletetaker DEF DeleteTakerOrder
<1>canceltaker. ASSUME NEW t \in Takers, CancelTaker(t) PROVE Result
  BY <1>canceltaker DEF CancelTaker, Close
<1>timeout. ASSUME NEW t \in Takers, TimeOut(t) PROVE Result
  BY <1>timeout DEF TimeOut, Close
<1>tomaker. ASSUME NEW t \in Takers, ToMaker(t) PROVE Result
  BY <1>tomaker DEF ToMaker, Close
<1>savenew. ASSUME NEW t \in Takers, SaveNew(t) PROVE Result
  BY <1>savenew DEF SaveNew
<1>receivereserved. ASSUME NEW t \in Takers, NEW o \in Orders, ReceiveReserved(t, o) PROVE Result
  BY <1>receivereserved DEF ReceiveReserved
<1>choose. ASSUME NEW t \in Takers, NEW o \in Orders, ChooseMaker(t, o) PROVE Result
  BY <1>choose DEF ChooseMaker
<1>receiveconnect. ASSUME NEW t \in Takers, NEW o \in Orders, ReceiveConnect(t, o) PROVE Result
  BY <1>receiveconnect DEF ReceiveConnect
<1>connect. ASSUME NEW t \in Takers, NEW o \in Orders, Connect(t, o) PROVE Result
  BY <1>connect DEF Connect, Change
<1>connected. ASSUME NEW t \in Takers, NEW o \in Orders, ReceiveConnected(t, o) PROVE Result
  BY <1>connected DEF ReceiveConnected
<1>crash. ASSUME NEW n \in Nodes, Crash(n) PROVE Result
  BY <1>crash DEF Crash
<1>activate. ASSUME NEW n \in Nodes, Activate(n) PROVE Result
  BY <1>activate DEF Activate
<1>stutter. ASSUME UNCHANGED vars PROVE Result
  BY <1>stutter DEF vars
<1> HIDE DEF Result
<1>maker. ASSUME NEW o \in Orders, MakerStep(o) PROVE Result
  BY <1>maker, MakerFrame DEF Result
<1>taker. ASSUME NEW t \in Takers, TakerStep(t) PROVE Result
  BY <1>taker, <1>buy, <1>giveup, <1>ignore, <1>savematch, <1>deletetaker, <1>canceltaker,
     <1>timeout, <1>tomaker, <1>savenew DEF TakerStep
<1>answer. ASSUME NEW t \in Takers, Answer(t) PROVE Result
  BY <1>answer, AnswerFrame DEF Result
<1>handshake. ASSUME NEW t \in Takers, NEW o \in Orders, Handshake(t, o) PROVE Result
  BY <1>handshake, <1>receivereserved, <1>choose, <1>receiveconnect, <1>connect,
     <1>connected DEF Handshake
<1> QED
  BY <1>maker, <1>taker, <1>answer, <1>handshake, <1>crash, <1>activate, <1>stutter DEF Next

\* An order is a taker order or a maker order, and turns from one into the other
\* only in handle_timed_out_taker_orders.
LEMMA OneRoleStep == TypeOK /\ TakerRecord /\ OneRole /\ [Next]_vars => OneRole'
<1> SUFFICES ASSUME TypeOK, TakerRecord, OneRole, [Next]_vars, NEW u \in Takers
             PROVE  /\ phase'[u] # "closed" \/ tfile'[u] # None => Untouched(u)'
                    /\ (\E o \in Orders : <<o, u>> \in takerSwaps') =>
                         Untouched(u)' /\ matched'[u] # {} /\ tfile'[u] # {}
  BY DEF OneRole
<1>1. /\ phase[u] # "closed" \/ tfile[u] # None => Untouched(u)
      /\ (\E o \in Orders : <<o, u>> \in takerSwaps) =>
           Untouched(u) /\ matched[u] # {} /\ tfile[u] # {}
  BY DEF OneRole
<1>2. CASE ToMaker(u)
  <2>1. phase'[u] = "closed" /\ tfile'[u] = None /\ matched[u] = {} /\ takerSwaps' = takerSwaps
    BY <1>2 DEF ToMaker, Close, TypeOK
  <2> QED BY <1>1, <2>1
<1>3. CASE ~ToMaker(u)
  <2>1. Untouched(u) => Untouched(u)'
    BY <1>3, UntouchedKept
  <2> QED BY <1>1, <2>1, TakerSteps
<1> QED BY <1>2, <1>3

\* An order a crash cut off from its file stays one.
LEMMA CutGrows == [Next]_vars => cut \subseteq cut'
<1>1. ASSUME NEW t \in Takers, TakerStep(t) PROVE cut' = cut
  BY <1>1 DEF TakerStep, Buy, GiveUp, IgnoreMakers, SaveMatch, DeleteTakerOrder, CancelTaker,
     TimeOut, ToMaker, Close, SaveNew
<1>2. ASSUME NEW t \in Takers, NEW o \in Orders, Handshake(t, o) PROVE cut' = cut
  BY <1>2 DEF Handshake, ReceiveReserved, ChooseMaker, ReceiveConnect, Connect, ReceiveConnected
<1>3. ASSUME NEW n \in Nodes, Crash(n) \/ Activate(n) PROVE cut \subseteq cut'
  BY <1>3 DEF Crash, Activate
<1> QED BY <1>1, <1>2, <1>3, MakerFrame, AnswerFrame DEF Next, vars

\* A connect message is sent by process_maker_reserved only, with the match it chose.
LEMMA ConnectsMatchedStep ==
  TypeOK /\ TakerRecord /\ ConnectsMatched /\ [Next]_vars => ConnectsMatched'
<1> DEFINE Sent(u, q) == <<"connect", u, q>> \in net \cup tasks \/ <<q, u>> \in makerSwaps
<1> SUFFICES ASSUME TypeOK, TakerRecord, ConnectsMatched, [Next]_vars,
                    NEW u \in Takers, NEW q \in Orders, u \notin cut', Sent(u, q)'
             PROVE  q \in matched'[u]
  BY DEF ConnectsMatched
<1>1. Sent(u, q) => q \in matched[u]
  BY CutGrows DEF ConnectsMatched
<1> USE <1>1 DEF TypeOK
<1>save. ASSUME NEW o \in Orders, Save(o) PROVE q \in matched'[u]
  BY <1>save DEF Save
<1>wait. ASSUME NEW o \in Orders, WaitToDrop(o) PROVE q \in matched'[u]
  BY <1>wait DEF WaitToDrop
<1>drop. ASSUME NEW o \in Orders, DropMatches(o) PROVE q \in matched'[u]
  BY <1>drop DEF DropMatches, Change
<1>check. ASSUME NEW o \in Orders, CheckBalance(o) PROVE q \in matched'[u]
  BY <1>check DEF CheckBalance, Remove
<1>expire. ASSUME NEW o \in Orders, Expire(o) PROVE q \in matched'[u]
  BY <1>expire DEF Expire
<1>delete. ASSUME NEW o \in Orders, DeleteExpired(o) PROVE q \in matched'[u]
  BY <1>delete DEF DeleteExpired, Remove
<1>cancel. ASSUME NEW o \in Orders, Cancel(o) PROVE q \in matched'[u]
  BY <1>cancel DEF Cancel, Remove
<1>mark. ASSUME NEW o \in Orders, MarkForCancel(o) PROVE q \in matched'[u]
  BY <1>mark DEF MarkForCancel
<1>cancelmarked. ASSUME NEW o \in Orders, CancelMarked(o) PROVE q \in matched'[u]
  BY <1>cancelmarked DEF CancelMarked, Remove
<1>balance. ASSUME NEW o \in Orders, NEW v \in 0..Volume, BalanceUpdated(o, v) PROVE q \in matched'[u]
  BY <1>balance DEF BalanceUpdated, Remove
<1>start. ASSUME NEW o \in Orders, NEW v \in 0..Volume, StartUpdate(o, v) PROVE q \in matched'[u]
  BY <1>start DEF StartUpdate
<1>resume. ASSUME NEW o \in Orders, NEW v, NEW before, ResumeUpdate(o, v, before) PROVE q \in matched'[u]
  BY <1>resume DEF ResumeUpdate
<1>finish. ASSUME NEW o \in Orders, NEW v, NEW before, FinishUpdate(o, v, before) PROVE q \in matched'[u]
  BY <1>finish DEF FinishUpdate, Change
<1>buy. ASSUME NEW t \in Takers, Buy(t) PROVE q \in matched'[u]
  BY <1>buy DEF Buy
<1>giveup. ASSUME NEW t \in Takers, GiveUp(t) PROVE q \in matched'[u]
  BY <1>giveup DEF GiveUp
<1>ignore. ASSUME NEW t \in Takers, IgnoreMakers(t) PROVE q \in matched'[u]
  BY <1>ignore DEF IgnoreMakers
<1>savematch. ASSUME NEW t \in Takers, SaveMatch(t) PROVE q \in matched'[u]
  BY <1>savematch DEF SaveMatch
<1>deletetaker. ASSUME NEW t \in Takers, DeleteTakerOrder(t) PROVE q \in matched'[u]
  BY <1>deletetaker DEF DeleteTakerOrder
<1>canceltaker. ASSUME NEW t \in Takers, CancelTaker(t) PROVE q \in matched'[u]
  BY <1>canceltaker DEF CancelTaker, Close
<1>timeout. ASSUME NEW t \in Takers, TimeOut(t) PROVE q \in matched'[u]
  BY <1>timeout DEF TimeOut, Close
<1>tomaker. ASSUME NEW t \in Takers, ToMaker(t) PROVE q \in matched'[u]
  BY <1>tomaker DEF ToMaker, Close
<1>savenew. ASSUME NEW t \in Takers, SaveNew(t) PROVE q \in matched'[u]
  BY <1>savenew DEF SaveNew
<1>request. ASSUME NEW t \in Takers, NEW n \in Nodes, ReceiveRequest(t, n) PROVE q \in matched'[u]
  BY <1>request DEF ReceiveRequest
<1>skip. ASSUME NEW t, NEW left, NEW o \in left, SkipOrder(t, left, o) PROVE q \in matched'[u]
  BY <1>skip DEF SkipOrder
<1>reserve. ASSUME NEW t, NEW left, NEW o \in left, Reserve(t, left, o) PROVE q \in matched'[u]
  BY <1>reserve DEF Reserve, Change
<1>receivereserved. ASSUME NEW t \in Takers, NEW o \in Orders, ReceiveReserved(t, o) PROVE q \in matched'[u]
  BY <1>receivereserved DEF ReceiveReserved
<1>choose. ASSUME NEW t \in Takers, NEW o \in Orders, ChooseMaker(t, o) PROVE q \in matched'[u]
  BY <1>choose DEF ChooseMaker
<1>receiveconnect. ASSUME NEW t \in Takers, NEW o \in Orders, ReceiveConnect(t, o) PROVE q \in matched'[u]
  BY <1>receiveconnect DEF ReceiveConnect
<1>connect. ASSUME NEW t \in Takers, NEW o \in Orders, Connect(t, o) PROVE q \in matched'[u]
  BY <1>connect DEF Connect, Change
<1>connected. ASSUME NEW t \in Takers, NEW o \in Orders, ReceiveConnected(t, o) PROVE q \in matched'[u]
  BY <1>connected DEF ReceiveConnected
<1>crash. ASSUME NEW n \in Nodes, Crash(n) PROVE q \in matched'[u]
  BY <1>crash DEF Crash, TakerRecord
<1>activate. ASSUME NEW n \in Nodes, Activate(n) PROVE q \in matched'[u]
  BY <1>activate DEF Activate
<1>stutter. ASSUME UNCHANGED vars PROVE q \in matched'[u]
  BY <1>stutter DEF vars
<1> HIDE DEF Sent
<1>maker. ASSUME NEW o \in Orders, MakerStep(o) PROVE q \in matched'[u]
  BY <1>maker, <1>save, <1>wait, <1>drop, <1>check, <1>expire, <1>delete, <1>cancel,
     <1>mark, <1>cancelmarked, <1>balance, <1>start, <1>resume, <1>finish DEF MakerStep
<1>taker. ASSUME NEW t \in Takers, TakerStep(t) PROVE q \in matched'[u]
  BY <1>taker, <1>buy, <1>giveup, <1>ignore, <1>savematch, <1>deletetaker, <1>canceltaker,
     <1>timeout, <1>tomaker, <1>savenew DEF TakerStep
<1>answer. ASSUME NEW t \in Takers, Answer(t) PROVE q \in matched'[u]
  BY <1>answer, <1>request, <1>skip, <1>reserve DEF Answer
<1>handshake. ASSUME NEW t \in Takers, NEW o \in Orders, Handshake(t, o) PROVE q \in matched'[u]
  BY <1>handshake, <1>receivereserved, <1>choose, <1>receiveconnect, <1>connect,
     <1>connected DEF Handshake
<1> QED
  BY <1>maker, <1>taker, <1>answer, <1>handshake, <1>crash, <1>activate, <1>stutter DEF Next

\* What the makers' steps leave to be done connects and creates nothing new.
LEMMA MakerTasks ==
  ASSUME NEW o \in Orders, MakerStep(o)
  PROVE  /\ \A t, q : <<"connect", t, q>> \in tasks' => <<"connect", t, q>> \in tasks
         /\ \A q : <<"create", q>> \in tasks' => <<"create", q>> \in tasks
<1>1. ASSUME \/ Save(o) \/ DropMatches(o) \/ CheckBalance(o) \/ DeleteExpired(o) \/ Cancel(o)
             \/ CancelMarked(o) \/ \E v \in 0..Volume : BalanceUpdated(o, v)
             \/ \E v, before : FinishUpdate(o, v, before)
      PROVE  tasks' \subseteq tasks
  BY <1>1 DEF Save, DropMatches, CheckBalance, DeleteExpired, Cancel, CancelMarked,
     BalanceUpdated, FinishUpdate
<1>2. ASSUME WaitToDrop(o) \/ Expire(o) \/ MarkForCancel(o)
      PROVE  tasks' \subseteq tasks \cup {<<"drop", o>>, <<"expire", o>>, <<"cancel", o>>}
  BY <1>2 DEF WaitToDrop, Expire, MarkForCancel
<1>3. ASSUME NEW v, StartUpdate(o, v)
      PROVE  tasks' \subseteq tasks \cup {<<"update", o, v, order[o]>>}
  BY <1>3 DEF StartUpdate
<1>4. ASSUME NEW v, NEW before, ResumeUpdate(o, v, before)
      PROVE  tasks' \subseteq tasks \cup {<<"apply", o, v, before>>}
  BY <1>4 DEF ResumeUpdate
<1> QED BY <1>1, <1>2, <1>3, <1>4 DEF MakerStep

\* The makers' steps but Connect leave the connected matches alone.
LEMMA MakerConnected ==
  ASSUME TypeOK, NEW o \in Orders, MakerStep(o), NEW q \in Orders
  PROVE  order'[q].connected = order[q].connected
<1> DEFINE Kept == \E ord \in MakerOrder :
                     ord.connected = order[o].connected /\ order' = [order EXCEPT ![o] = ord]
<1>1. order[o] \in MakerOrder
  BY DEF TypeOK
<1>2. order' = order \/ Kept
  <2>1. CASE DropMatches(o)
    <3>1. CASE UNCHANGED makerVars
      BY <3>1
    <3>2. ASSUME NEW old, Change(o, [order[o] EXCEPT !.reserved = @ \ old]) PROVE Kept
      <4> DEFINE ord == [order[o] EXCEPT !.reserved = @ \ old]
      <4>1. ord \in MakerOrder /\ ord.connected = order[o].connected
        BY <1>1, OrderShapes DEF MakerOrder
      <4>2. order' = [order EXCEPT ![o] = ord]
        BY <3>2 DEF Change
      <4> HIDE DEF ord
      <4> QED BY <4>1, <4>2
    <3> HIDE DEF Kept
    <3> QED BY <2>1, <3>1, <3>2 DEF DropMatches
  <2>2. ASSUME NEW v \in 0..Volume, BalanceUpdated(o, v) PROVE order' = order \/ Kept
    <3> DEFINE ord == [order[o] EXCEPT !.vol = ReservedAmount(order[o]) + v]
    <3>1. ord \in MakerOrder /\ ord.connected = order[o].connected
      <4>1. ReservedAmount(order[o]) + v \in Nat
        BY <1>1, ReservedTally
      <4> QED BY <1>1, <4>1, OrderShapes DEF MakerOrder
    <3>2. order' = order \/ order' = [order EXCEPT ![o] = ord]
      BY <2>2 DEF BalanceUpdated, Remove
    <3> HIDE DEF ord
    <3> QED BY <3>1, <3>2
  <2>3. ASSUME NEW v, NEW before, FinishUpdate(o, v, before) PROVE order' = order \/ Kept
    <3> DEFINE ord == [before EXCEPT !.vol = v]
    <3>1. CASE order[o] = before
      <4>1. v \in Nat
        BY <2>3, TaskShapes DEF FinishUpdate, TypeOK
      <4>2. ord \in MakerOrder /\ ord.connected = order[o].connected
        BY <1>1, <3>1, <4>1, OrderShapes DEF MakerOrder
      <4>3. order' = [order EXCEPT ![o] = ord]
        BY <2>3, <3>1 DEF FinishUpdate, Change
      <4> HIDE DEF ord
      <4> QED BY <4>2, <4>3
    <3>2. CASE order[o] # before
      BY <2>3, <3>2 DEF FinishUpdate
    <3> QED BY <3>1, <3>2
  <2>4. CASE \/ Save(o) \/ WaitToDrop(o) \/ CheckBalance(o) \/ Expire(o) \/ DeleteExpired(o)
             \/ Cancel(o) \/ MarkForCancel(o) \/ CancelMarked(o)
             \/ \E v \in 0..Volume : StartUpdate(o, v)
             \/ \E v, before : ResumeUpdate(o, v, before)
    BY <2>4 DEF Save, WaitToDrop, CheckBalance, Expire, DeleteExpired, Cancel, MarkForCancel,
       CancelMarked, StartUpdate, ResumeUpdate, Remove
  <2> HIDE DEF Kept
  <2> QED BY <2>1, <2>2, <2>3, <2>4 DEF MakerStep
<1> QED BY <1>2 DEF TypeOK

\* Neither does a reservation.
LEMMA ReserveConnected ==
  ASSUME TypeOK, NEW t, NEW left, NEW o \in Orders, Reserve(t, left, o), NEW q \in Orders
  PROVE  order'[q].connected = order[q].connected
<1>1. CASE order' = order
  BY <1>1
<1>2. CASE order' = [order EXCEPT ![o] = [order[o] EXCEPT !.reserved = @ \cup {t}]]
  <2>1. order[o] \in MakerOrder
    BY DEF TypeOK
  <2>2. [order[o] EXCEPT !.reserved = @ \cup {t}].connected = order[o].connected
    BY <2>1 DEF MakerOrder
  <2> QED BY <1>2, <2>2 DEF TypeOK
<1> QED BY <1>1, <1>2 DEF Reserve, Change

\* Every order is on one node.
LEMMA NodeOfOrder ==
  ASSUME NEW o \in Orders, NEW n \in Nodes, o \in n
  PROVE  NodeOf(o) = n
  BY OrdersAssumption DEF NodeOf

\* A reservation that was not connected is dropped by the cleanup and by the restart
\* before the same taker can be reserved again.
LEMMA NewUnconnectedStep ==
  TypeOK /\ TakerRecord /\ OneRole /\ NewUnconnected /\ [Next]_vars => NewUnconnected'
<1> DEFINE Unconnected(u) ==
      order[u].connected = {} /\ \A v \in Takers : <<"connect", v, u>> \notin tasks
<1> SUFFICES ASSUME TypeOK, TakerRecord, OneRole, NewUnconnected, [Next]_vars,
                    NEW u \in Takers, <<"create", u>> \in tasks'
             PROVE  Unconnected(u)'
  BY DEF NewUnconnected
<1>1. <<"create", u>> \in tasks => Unconnected(u)
  BY DEF NewUnconnected
<1>2. u \in Orders
  BY DEF Orders
<1> USE <1>1, <1>2 DEF TypeOK
<1>buy. ASSUME NEW t \in Takers, Buy(t) PROVE Unconnected(u)'
  BY <1>buy DEF Buy
<1>giveup. ASSUME NEW t \in Takers, GiveUp(t) PROVE Unconnected(u)'
  BY <1>giveup DEF GiveUp
<1>ignore. ASSUME NEW t \in Takers, IgnoreMakers(t) PROVE Unconnected(u)'
  BY <1>ignore DEF IgnoreMakers
<1>savematch. ASSUME NEW t \in Takers, SaveMatch(t) PROVE Unconnected(u)'
  BY <1>savematch DEF SaveMatch
<1>deletetaker. ASSUME NEW t \in Takers, DeleteTakerOrder(t) PROVE Unconnected(u)'
  BY <1>deletetaker DEF DeleteTakerOrder
<1>canceltaker. ASSUME NEW t \in Takers, CancelTaker(t) PROVE Unconnected(u)'
  BY <1>canceltaker DEF CancelTaker, Close
<1>timeout. ASSUME NEW t \in Takers, TimeOut(t) PROVE Unconnected(u)'
  BY <1>timeout DEF TimeOut, Close
<1>tomaker. ASSUME NEW t \in Takers, ToMaker(t) PROVE Unconnected(u)'
  <2>1. order' = order /\ tasks' = tasks \cup {<<"create", t>>}
    BY <1>tomaker DEF ToMaker, Close
  <2>2. CASE u = t
    <3>1. Untouched(t)
      BY <1>tomaker DEF ToMaker, Close, OneRole
    <3>2. \A v \in Takers : <<"connect", v, t>> \notin tasks
      BY <3>1 DEF Untouched, MakersOf
    <3> QED BY <2>1, <2>2, <3>1, <3>2 DEF Untouched
  <2> QED BY <2>1, <2>2
<1>savenew. ASSUME NEW t \in Takers, SaveNew(t) PROVE Unconnected(u)'
  BY <1>savenew DEF SaveNew
<1>request. ASSUME NEW t \in Takers, NEW n \in Nodes, ReceiveRequest(t, n) PROVE Unconnected(u)'
  BY <1>request DEF ReceiveRequest
<1>skip. ASSUME NEW t, NEW left, NEW o \in left, SkipOrder(t, left, o) PROVE Unconnected(u)'
  BY <1>skip DEF SkipOrder
<1>reserve. ASSUME NEW t, NEW left, NEW o \in left, Reserve(t, left, o) PROVE Unconnected(u)'
  <2>1. <<"create", u>> \in tasks /\ tasks' \subseteq tasks /\ o \in Orders
    BY <1>reserve, TaskShapes DEF Reserve
  <2>2. order'[u].connected = order[u].connected
    BY <1>reserve, <2>1, ReserveConnected DEF Change
  <2> QED BY <2>1, <2>2
<1>receivereserved. ASSUME NEW t \in Takers, NEW o \in Orders, ReceiveReserved(t, o) PROVE Unconnected(u)'
  BY <1>receivereserved DEF ReceiveReserved
<1>choose. ASSUME NEW t \in Takers, NEW o \in Orders, ChooseMaker(t, o) PROVE Unconnected(u)'
  BY <1>choose DEF ChooseMaker
<1>receiveconnect. ASSUME NEW t \in Takers, NEW o \in Orders, ReceiveConnect(t, o) PROVE Unconnected(u)'
  BY <1>receiveconnect DEF ReceiveConnect
<1>connect. ASSUME NEW t \in Takers, NEW o \in Orders, Connect(t, o) PROVE Unconnected(u)'
  <2>1. o # u /\ <<"create", u>> \in tasks /\ tasks' \subseteq tasks
    BY <1>connect DEF Connect
  <2>2. order'[u] = order[u]
    BY <1>connect, <2>1 DEF Connect, Change
  <2> QED BY <2>1, <2>2
<1>connected. ASSUME NEW t \in Takers, NEW o \in Orders, ReceiveConnected(t, o) PROVE Unconnected(u)'
  BY <1>connected DEF ReceiveConnected
<1>crash. ASSUME NEW n \in Nodes, Crash(n) PROVE Unconnected(u)'
  <2>1. <<"create", u>> \in tasks /\ tasks' \subseteq tasks /\ NodeOf(u) # n
    BY <1>crash DEF Crash, TaskNode
  <2>2. u \notin n
    BY <2>1, <1>2, NodeOfOrder
  <2>3. order'[u] = order[u]
    BY <1>crash, <2>2 DEF Crash
  <2> QED BY <2>1, <2>3
<1>activate. ASSUME NEW n \in Nodes, Activate(n) PROVE Unconnected(u)'
  BY <1>activate DEF Activate
<1>stutter. ASSUME UNCHANGED vars PROVE Unconnected(u)'
  BY <1>stutter DEF vars
<1>maker. ASSUME NEW o \in Orders, MakerStep(o) PROVE Unconnected(u)'
  <2>1. order'[u].connected = order[u].connected
    BY <1>maker, MakerConnected
  <2>2. /\ <<"create", u>> \in tasks
        /\ \A v \in Takers : <<"connect", v, u>> \in tasks' => <<"connect", v, u>> \in tasks
    BY <1>maker, MakerTasks
  <2> QED BY <2>1, <2>2
<1>taker. ASSUME NEW t \in Takers, TakerStep(t) PROVE Unconnected(u)'
  BY <1>taker, <1>buy, <1>giveup, <1>ignore, <1>savematch, <1>deletetaker, <1>canceltaker,
     <1>timeout, <1>tomaker, <1>savenew DEF TakerStep
<1>answer. ASSUME NEW t \in Takers, Answer(t) PROVE Unconnected(u)'
  BY <1>answer, <1>request, <1>skip, <1>reserve DEF Answer
<1>handshake. ASSUME NEW t \in Takers, NEW o \in Orders, Handshake(t, o) PROVE Unconnected(u)'
  BY <1>handshake, <1>receivereserved, <1>choose, <1>receiveconnect, <1>connect,
     <1>connected DEF Handshake
<1> HIDE DEF Unconnected
<1> QED
  BY <1>maker, <1>taker, <1>answer, <1>handshake, <1>crash, <1>activate, <1>stutter DEF Next

\* After a maker's step, an order that is stored and not held is as it was, or
\* was stored just now.
LEMMA MakerFiles ==
  ASSUME TypeOK, NEW o \in Orders, MakerStep(o), NEW q \in Orders, q \notin unsaved', file'[q] # None
  PROVE  (q \notin unsaved /\ file'[q] = file[q]) \/ file'[q] = order'[q]
<1> DEFINE Stored == (q \notin unsaved /\ file'[q] = file[q]) \/ file'[q] = order'[q]
<1> SUFFICES Stored
  OBVIOUS
<1> USE DEF TypeOK, LockFree
<1>save. ASSUME Save(o) PROVE Stored
  BY <1>save DEF Save
<1>wait. ASSUME WaitToDrop(o) PROVE Stored
  BY <1>wait DEF WaitToDrop
<1>drop. ASSUME DropMatches(o) PROVE Stored
  BY <1>drop DEF DropMatches, Change
<1>check. ASSUME CheckBalance(o) PROVE Stored
  BY <1>check DEF CheckBalance, Remove
<1>expire. ASSUME Expire(o) PROVE Stored
  BY <1>expire DEF Expire
<1>delete. ASSUME DeleteExpired(o) PROVE Stored
  BY <1>delete DEF DeleteExpired, Remove
<1>cancel. ASSUME Cancel(o) PROVE Stored
  BY <1>cancel DEF Cancel, Remove
<1>mark. ASSUME MarkForCancel(o) PROVE Stored
  BY <1>mark DEF MarkForCancel
<1>cancelmarked. ASSUME CancelMarked(o) PROVE Stored
  BY <1>cancelmarked DEF CancelMarked, Remove
<1>balance. ASSUME NEW v \in 0..Volume, BalanceUpdated(o, v) PROVE Stored
  BY <1>balance DEF BalanceUpdated, Remove
<1>start. ASSUME NEW v \in 0..Volume, StartUpdate(o, v) PROVE Stored
  BY <1>start DEF StartUpdate
<1>resume. ASSUME NEW v, NEW before, ResumeUpdate(o, v, before) PROVE Stored
  BY <1>resume DEF ResumeUpdate
<1>finish. ASSUME NEW v, NEW before, FinishUpdate(o, v, before) PROVE Stored
  BY <1>finish DEF FinishUpdate, Change
<1> HIDE DEF Stored
<1> QED
  BY <1>save, <1>wait, <1>drop, <1>check, <1>expire, <1>delete, <1>cancel, <1>mark,
     <1>cancelmarked, <1>balance, <1>start, <1>resume, <1>finish DEF MakerStep

\* The takers' steps but SaveNew leave the makers' orders alone, tell nobody that
\* it is connected, and start no swap.
LEMMA TakerFrame ==
  ASSUME NEW t \in Takers, TakerStep(t)
  PROVE  /\ UNCHANGED <<rigid, order, unsaved, makerSwaps, takerSwaps, cut>>
         /\ \A u, o : <<"connected", u, o>> \in net' => <<"connected", u, o>> \in net
         /\ file' = file \/ SaveNew(t)
<1>1. ASSUME Buy(t)
      PROVE  /\ UNCHANGED <<rigid, order, unsaved, file, makerSwaps, takerSwaps, cut>>
             /\ net' \subseteq net \cup {<<"request", t, n>> : n \in Nodes}
  BY <1>1 DEF Buy
<1>2. ASSUME ~Buy(t)
      PROVE  /\ UNCHANGED <<rigid, order, unsaved, net, makerSwaps, takerSwaps, cut>>
             /\ file' = file \/ SaveNew(t)
  BY <1>2 DEF TakerStep, GiveUp, IgnoreMakers, SaveMatch, DeleteTakerOrder, CancelTaker,
     TimeOut, ToMaker, Close, SaveNew
<1> QED BY <1>1, <1>2

\* A taker that runs a swap keeps being counted by the maker order it swaps with,
\* through every update, cleanup, storage and crash.
LEMMA ConnectedCountedStep ==
  TypeOK /\ NewUnconnected /\ ConnectedCounted /\ [Next]_vars => ConnectedCounted'
<1> DEFINE Told(q, u) == <<"connected", u, q>> \in net \/ <<q, u>> \in makerSwaps \cup takerSwaps
           Counted(q) == \A u \in Takers : Told(q, u) => u \in order[q].connected
           Stored(q) == q \notin unsaved /\ file[q] # None => order[q].connected \subseteq file[q].connected
<1> SUFFICES ASSUME TypeOK, NewUnconnected, ConnectedCounted, [Next]_vars,
                    NEW q \in Orders, q \notin cut'
             PROVE  Counted(q)' /\ Stored(q)'
  BY DEF ConnectedCounted
<1>1. q \notin cut /\ Counted(q) /\ Stored(q)
  BY CutGrows DEF ConnectedCounted
<1> USE <1>1
<1>receivereserved. ASSUME NEW t \in Takers, NEW o \in Orders, ReceiveReserved(t, o) PROVE Counted(q)' /\ Stored(q)'
  BY <1>receivereserved DEF ReceiveReserved
<1>choose. ASSUME NEW t \in Takers, NEW o \in Orders, ChooseMaker(t, o) PROVE Counted(q)' /\ Stored(q)'
  BY <1>choose DEF ChooseMaker
<1>receiveconnect. ASSUME NEW t \in Takers, NEW o \in Orders, ReceiveConnect(t, o) PROVE Counted(q)' /\ Stored(q)'
  BY <1>receiveconnect DEF ReceiveConnect
<1>connect. ASSUME NEW t \in Takers, NEW o \in Orders, Connect(t, o) PROVE Counted(q)' /\ Stored(q)'
  <2>1. CASE t \in order[o].reserved
    <3> DEFINE ord == [order[o] EXCEPT !.reserved = @ \ {t}, !.connected = @ \cup {t}]
    <3>1. ord.connected = order[o].connected \cup {t}
      BY DEF TypeOK, MakerOrder
    <3>2. /\ order' = [order EXCEPT ![o] = ord]
          /\ unsaved' = unsaved \cup {o} /\ file' = file /\ takerSwaps' = takerSwaps
          /\ makerSwaps' \subseteq makerSwaps \cup {<<o, t>>}
          /\ net' = net \cup {<<"connected", t, o>>}
      BY <1>connect, <2>1 DEF Connect, Change
    <3> HIDE DEF ord
    <3> QED BY <3>1, <3>2 DEF TypeOK
  <2>2. CASE t \notin order[o].reserved
    BY <1>connect, <2>2 DEF Connect
  <2> QED BY <2>1, <2>2
<1>connected. ASSUME NEW t \in Takers, NEW o \in Orders, ReceiveConnected(t, o) PROVE Counted(q)' /\ Stored(q)'
  BY <1>connected DEF ReceiveConnected
<1>crash. ASSUME NEW n \in Nodes, Crash(n) PROVE Counted(q)' /\ Stored(q)'
  BY <1>crash DEF Crash
<1>activate. ASSUME NEW n \in Nodes, Activate(n) PROVE Counted(q)' /\ Stored(q)'
  BY <1>activate DEF Activate
<1>stutter. ASSUME UNCHANGED vars PROVE Counted(q)' /\ Stored(q)'
  BY <1>stutter DEF vars
<1>maker. ASSUME NEW o \in Orders, MakerStep(o) PROVE Counted(q)' /\ Stored(q)'
  <2>1. order'[q].connected = order[q].connected
    BY <1>maker, MakerConnected
  <2>2. Counted(q)'
    BY <1>maker, <2>1, MakerFrame
  <2>3. ASSUME q \notin unsaved', file'[q] # None PROVE order'[q].connected \subseteq file'[q].connected
    BY <1>maker, <2>1, <2>3, MakerFiles
  <2> QED BY <2>2, <2>3
<1>taker. ASSUME NEW t \in Takers, TakerStep(t) PROVE Counted(q)' /\ Stored(q)'
  <2>1. order' = order /\ unsaved' = unsaved
    BY <1>taker, TakerFrame
  <2>2. Counted(q)'
    BY <1>taker, TakerFrame
  <2>3. CASE SaveNew(t)
    <3>1. order[t].connected = {}
      BY <2>3 DEF SaveNew, NewUnconnected
    <3>2. q # t => file'[q] = file[q]
      BY <2>3 DEF SaveNew, TypeOK
    <3> QED BY <2>1, <2>2, <3>1, <3>2
  <2> QED BY <1>taker, <2>1, <2>2, <2>3, TakerFrame
<1>answer. ASSUME NEW t \in Takers, Answer(t) PROVE Counted(q)' /\ Stored(q)'
  <2>1. ASSUME order' = order, unsaved' = unsaved, file' = file PROVE Counted(q)' /\ Stored(q)'
    BY <1>answer, <2>1, AnswerFrame
  <2>2. ASSUME NEW left, NEW o \in left, Reserve(t, left, o) PROVE Counted(q)' /\ Stored(q)'
    <3>1. o \in Orders
      BY <2>2, TaskShapes DEF Reserve, TypeOK
    <3>2. order'[q].connected = order[q].connected
      BY <2>2, <3>1, ReserveConnected
    <3>3. file' = file /\ unsaved \subseteq unsaved'
      BY <2>2 DEF Reserve, Change
    <3> QED BY <1>answer, <3>2, <3>3, AnswerFrame
  <2> HIDE DEF Counted, Stored
  <2> QED BY <1>answer, <2>1, <2>2 DEF Answer, ReceiveRequest, SkipOrder
<1>handshake. ASSUME NEW t \in Takers, NEW o \in Orders, Handshake(t, o) PROVE Counted(q)' /\ Stored(q)'
  BY <1>handshake, <1>receivereserved, <1>choose, <1>receiveconnect, <1>connect,
     <1>connected DEF Handshake
<1> HIDE DEF Counted, Stored
<1> QED
  BY <1>maker, <1>taker, <1>answer, <1>handshake, <1>crash, <1>activate, <1>stutter DEF Next

-----------------------------------------------------------------------------
\* Volumes.

\* The matches of an order fit in a volume, by the tally c.
Fits(c, ord, v) == c[MatchesOf(ord)] <= v

\* VolumesHold, by the tally c.
AllFit(c, orders, files, work) ==
  /\ \A o \in Orders :
       /\ Fits(c, orders[o], orders[o].vol)
       /\ files[o] # None => Fits(c, files[o], files[o].vol)
  /\ \A k \in work : k[1] \in {"update", "apply"} => Fits(c, k[4], k[3])

\* The volumes of the model are the volumes over the tally, which the next lemmas
\* bound step by step.
LEMMA VolumesTally == TypeOK => (VolumesHold <=> AllFit(Tally, order, file, tasks))
<1> SUFFICES ASSUME TypeOK PROVE VolumesHold <=> AllFit(Tally, order, file, tasks)
  OBVIOUS
<1>1. \A ord \in MakerOrder : ReservedAmount(ord) = Tally[MatchesOf(ord)]
  BY ReservedTally
<1>2. \A o \in Orders : order[o] \in MakerOrder /\ (file[o] # None => file[o] \in MakerOrder)
  BY DEF TypeOK
<1>3. \A k \in tasks : k[1] \in {"update", "apply"} => k[4] \in MakerOrder
  BY TaskKinds, TaskShapes DEF TypeOK
<1> QED BY <1>1, <1>2, <1>3 DEF VolumesHold, AllFit, Fits

\* The same in the next state.
LEMMA VolumesTallyNext == (TypeOK => (VolumesHold <=> AllFit(Tally, order, file, tasks)))'
  BY VolumesTally, PTL

\* What the handlers do to an order keeps its matches within its volume.
LEMMA FitsKept ==
  ASSUME TypeOK, NEW ord \in MakerOrder, Fits(Tally, ord, ord.vol)
  PROVE  /\ \A t \in Takers : t \notin MatchesOf(ord) /\ size[t] <= Available(ord) =>
              LET new == [ord EXCEPT !.reserved = @ \cup {t}] IN Fits(Tally, new, new.vol)
         /\ \A t \in ord.reserved :
              LET new == [ord EXCEPT !.reserved = @ \ {t}, !.connected = @ \cup {t}]
              IN Fits(Tally, new, new.vol)
         /\ \A old : LET new == [ord EXCEPT !.reserved = @ \ old] IN Fits(Tally, new, new.vol)
         /\ \A v \in Nat :
              LET new == [ord EXCEPT !.vol = ReservedAmount(ord) + v] IN Fits(Tally, new, new.vol)
<1>1. Sized
  BY OrdersAssumption DEF Sized, TypeOK
<1>2. /\ MatchesOf(ord) \in SUBSET Takers
      /\ ReservedAmount(ord) = Tally[MatchesOf(ord)] /\ ReservedAmount(ord) \in Nat
  BY ReservedTally
<1>3. ord.vol \in Nat
  BY DEF MakerOrder
<1>4. ASSUME NEW t \in Takers, t \notin MatchesOf(ord), size[t] <= Available(ord),
             NEW new, new = [ord EXCEPT !.reserved = @ \cup {t}]
      PROVE  Fits(Tally, new, new.vol)
  <2>1. MatchesOf(new) = MatchesOf(ord) \cup {t} /\ new.vol = ord.vol
    BY <1>4 DEF MakerOrder, MatchesOf
  <2>2. Tally[MatchesOf(ord) \cup {t}] = Tally[MatchesOf(ord)] + size[t]
    BY <1>1, <1>2, <1>4, TallyFacts
  <2>3. size[t] <= ord.vol - Tally[MatchesOf(ord)] /\ size[t] \in Nat
    BY <1>1, <1>2, <1>4 DEF Available, Sized
  <2>4. Tally[MatchesOf(ord)] + size[t] <= ord.vol
    BY <1>2, <1>3, <2>3
  <2> QED BY <2>1, <2>2, <2>4 DEF Fits
<1>5. ASSUME NEW t \in ord.reserved,
             NEW new, new = [ord EXCEPT !.reserved = @ \ {t}, !.connected = @ \cup {t}]
      PROVE  Fits(Tally, new, new.vol)
  <2>1. MatchesOf(new) = MatchesOf(ord) /\ new.vol = ord.vol
    BY <1>5 DEF MakerOrder, MatchesOf
  <2> QED BY <2>1 DEF Fits
<1>6. ASSUME NEW old, NEW new, new = [ord EXCEPT !.reserved = @ \ old]
      PROVE  Fits(Tally, new, new.vol)
  <2>1. MatchesOf(new) \in SUBSET MatchesOf(ord) /\ new.vol = ord.vol
    BY <1>6 DEF MakerOrder, MatchesOf
  <2>2. Tally[MatchesOf(new)] <= Tally[MatchesOf(ord)]
    BY <1>1, <1>2, <2>1, TallyFacts
  <2>3. Tally[MatchesOf(new)] \in Nat
    BY <1>1, <1>2, <2>1, TallyFacts
  <2> QED BY <1>2, <1>3, <2>1, <2>2, <2>3 DEF Fits
<1>7. ASSUME NEW v \in Nat, NEW new, new = [ord EXCEPT !.vol = ReservedAmount(ord) + v]
      PROVE  Fits(Tally, new, new.vol)
  <2>1. MatchesOf(new) = MatchesOf(ord) /\ new.vol = ReservedAmount(ord) + v
    BY <1>7 DEF MakerOrder, MatchesOf
  <2> QED BY <1>2, <2>1 DEF Fits
<1> QED BY <1>4, <1>5, <1>6, <1>7

\* No handler reserves, connects or updates past the volume of a maker order.
LEMMA AllFitStep ==
  ASSUME TypeOK, [Next]_vars, AllFit(Tally, order, file, tasks)
  PROVE  AllFit(Tally, order', file', tasks')
<1> DEFINE Fit(o) == Fits(Tally, order[o], order[o].vol)
           FileFits(o) == file[o] # None => Fits(Tally, file[o], file[o].vol)
           TaskFits(k) == k[1] \in {"update", "apply"} => Fits(Tally, k[4], k[3])
           Result == AllFit(Tally, order', file', tasks')
<1>1. /\ \A o \in Orders : order[o] \in MakerOrder /\ Fit(o) /\ FileFits(o)
      /\ \A k \in tasks : TaskFits(k)
  BY DEF AllFit, TypeOK
<1> SUFFICES Result
  OBVIOUS
<1> HIDE DEF Result
\* No order is changed, and none stored but as it is.
<1>2. ASSUME order' = order,
             \A o \in Orders : file'[o] \in {file[o], None, order[o]},
             \A k \in tasks' : k \in tasks \/ TaskFits(k)
      PROVE  Result
  BY <1>1, <1>2 DEF AllFit, Result
\* One order is changed, under its lock.
<1>3. ASSUME NEW o \in Orders, NEW ord, Fits(Tally, ord, ord.vol),
             order' = [order EXCEPT ![o] = ord], \A q \in Orders : file'[q] \in {file[q], None},
             tasks' \subseteq tasks
      PROVE  Result
  BY <1>1, <1>3 DEF AllFit, TypeOK, Result
<1> HIDE DEF Fit, FileFits
<1>save. ASSUME NEW o \in Orders, Save(o) PROVE Result
  BY <1>save, <1>2 DEF Save, TypeOK
<1>wait. ASSUME NEW o \in Orders, WaitToDrop(o) PROVE Result
  BY <1>wait, <1>2 DEF WaitToDrop, TypeOK
<1>drop. ASSUME NEW o \in Orders, DropMatches(o) PROVE Result
  <2>1. CASE UNCHANGED makerVars
    BY <1>drop, <1>2, <2>1 DEF DropMatches
  <2>2. ASSUME NEW old, Change(o, [order[o] EXCEPT !.reserved = @ \ old]) PROVE Result
    <3> DEFINE ord == [order[o] EXCEPT !.reserved = @ \ old]
    <3>1. Fits(Tally, ord, ord.vol)
      BY <1>1, FitsKept DEF Fit
    <3>2. order' = [order EXCEPT ![o] = ord] /\ file' = file /\ tasks' \subseteq tasks
      BY <1>drop, <2>2 DEF DropMatches, Change
    <3> HIDE DEF ord
    <3> QED BY <1>3, <3>1, <3>2
  <2> QED BY <1>drop, <2>1, <2>2 DEF DropMatches
<1>check. ASSUME NEW o \in Orders, CheckBalance(o) PROVE Result
  BY <1>check, <1>2 DEF CheckBalance, Remove, TypeOK
<1>expire. ASSUME NEW o \in Orders, Expire(o) PROVE Result
  BY <1>expire, <1>2 DEF Expire, TypeOK
<1>delete. ASSUME NEW o \in Orders, DeleteExpired(o) PROVE Result
  BY <1>delete, <1>2 DEF DeleteExpired, Remove, TypeOK
<1>cancel. ASSUME NEW o \in Orders, Cancel(o) PROVE Result
  BY <1>cancel, <1>2 DEF Cancel, Remove, TypeOK
<1>mark. ASSUME NEW o \in Orders, MarkForCancel(o) PROVE Result
  BY <1>mark, <1>2 DEF MarkForCancel, TypeOK
<1>cancelmarked. ASSUME NEW o \in Orders, CancelMarked(o) PROVE Result
  BY <1>cancelmarked, <1>2 DEF CancelMarked, Remove, TypeOK
<1>balance. ASSUME NEW o \in Orders, NEW v \in 0..Volume, BalanceUpdated(o, v) PROVE Result
  <2> DEFINE ord == [order[o] EXCEPT !.vol = ReservedAmount(order[o]) + v]
  <2>1. Fits(Tally, ord, ord.vol)
    <3>1. v \in Nat
      BY OrdersAssumption
    <3> QED BY <1>1, <3>1, FitsKept DEF Fit
  <2>2. CASE Remove(o)
    BY <1>balance, <1>2, <2>2 DEF BalanceUpdated, Remove, TypeOK
  <2>3. CASE ~Remove(o)
    <3>1. order' = [order EXCEPT ![o] = ord] /\ file' = file /\ tasks' = tasks
      BY <1>balance, <2>3 DEF BalanceUpdated
    <3> HIDE DEF ord
    <3> QED BY <1>3, <2>1, <3>1
  <2> QED BY <2>2, <2>3
<1>start. ASSUME NEW o \in Orders, NEW v \in 0..Volume, StartUpdate(o, v) PROVE Result
  <2>1. Fits(Tally, order[o], v)
    BY <1>start, <1>1, ReservedTally DEF StartUpdate, Fits
  <2> QED BY <1>start, <1>2, <2>1 DEF StartUpdate
<1>resume. ASSUME NEW o \in Orders, NEW v, NEW before, ResumeUpdate(o, v, before) PROVE Result
  <2>1. Fits(Tally, before, v)
    BY <1>1, <1>resume DEF ResumeUpdate
  <2> QED BY <1>resume, <1>2, <2>1 DEF ResumeUpdate
<1>finish. ASSUME NEW o \in Orders, NEW v, NEW before, FinishUpdate(o, v, before) PROVE Result
  <2> DEFINE ord == [before EXCEPT !.vol = v]
  <2>1. CASE order[o] = before
    <3>1. before \in MakerOrder /\ Fits(Tally, before, v)
      BY <1>1, <1>finish, <2>1 DEF FinishUpdate
    <3>2. MatchesOf(ord) = MatchesOf(before) /\ ord.vol = v
      BY <3>1 DEF MatchesOf, MakerOrder
    <3>3. order' = [order EXCEPT ![o] = ord] /\ file' = file /\ tasks' \subseteq tasks
      BY <1>finish, <2>1 DEF FinishUpdate, Change
    <3> HIDE DEF ord
    <3> QED BY <1>3, <3>1, <3>2, <3>3 DEF Fits
  <2>2. CASE order[o] # before
    BY <1>finish, <1>2, <2>2 DEF FinishUpdate
  <2> QED BY <2>1, <2>2
<1>buy. ASSUME NEW t \in Takers, Buy(t) PROVE Result
  BY <1>buy, <1>2 DEF Buy, TypeOK
<1>giveup. ASSUME NEW t \in Takers, GiveUp(t) PROVE Result
  BY <1>giveup, <1>2 DEF GiveUp, TypeOK
<1>ignore. ASSUME NEW t \in Takers, IgnoreMakers(t) PROVE Result
  BY <1>ignore, <1>2 DEF IgnoreMakers, TypeOK
<1>savematch. ASSUME NEW t \in Takers, SaveMatch(t) PROVE Result
  BY <1>savematch, <1>2 DEF SaveMatch, TypeOK
<1>deletetaker. ASSUME NEW t \in Takers, DeleteTakerOrder(t) PROVE Result
  BY <1>deletetaker, <1>2 DEF DeleteTakerOrder, TypeOK
<1>canceltaker. ASSUME NEW t \in Takers, CancelTaker(t) PROVE Result
  BY <1>canceltaker, <1>2 DEF CancelTaker, Close, TypeOK
<1>timeout. ASSUME NEW t \in Takers, TimeOut(t) PROVE Result
  BY <1>timeout, <1>2 DEF TimeOut, Close, TypeOK
<1>tomaker. ASSUME NEW t \in Takers, ToMaker(t) PROVE Result
  BY <1>tomaker, <1>2 DEF ToMaker, Close, TypeOK
<1>savenew. ASSUME NEW t \in Takers, SaveNew(t) PROVE Result
  <2>1. Fits(Tally, NewOrder(size[t]), size[t]) /\ NewOrder(size[t]).vol = size[t]
    <3>1. Sized
      BY OrdersAssumption DEF Sized, TypeOK
    <3>2. Tally[{}] = 0 /\ size[t] \in Nat
      BY <3>1, TallyFacts DEF Sized
    <3> QED BY <3>2 DEF Fits, NewOrder, MatchesOf
  <2>2. order' = order /\ tasks' \subseteq tasks /\ file' = [file EXCEPT ![t] = NewOrder(size[t])]
    BY <1>savenew DEF SaveNew
  <2> QED BY <1>1, <2>1, <2>2 DEF AllFit, Fit, FileFits, TypeOK, Result
<1>request. ASSUME NEW t \in Takers, NEW n \in Nodes, ReceiveRequest(t, n) PROVE Result
  BY <1>request, <1>2 DEF ReceiveRequest, TypeOK
<1>skip. ASSUME NEW t, NEW left, NEW o \in left, SkipOrder(t, left, o) PROVE Result
  BY <1>skip, <1>2 DEF SkipOrder, TypeOK
<1>reserve. ASSUME NEW t, NEW left, NEW o \in left, Reserve(t, left, o) PROVE Result
  <2>1. o \in Orders /\ t \in Takers
    BY <1>reserve, TaskShapes DEF Reserve, TypeOK
  <2>2. CASE Change(o, [order[o] EXCEPT !.reserved = @ \cup {t}]) /\ t \notin MatchesOf(order[o])
    <3> DEFINE ord == [order[o] EXCEPT !.reserved = @ \cup {t}]
    <3>1. Fits(Tally, ord, ord.vol)
      BY <1>1, <1>reserve, <2>1, <2>2, FitsKept DEF Fit, Reserve, MatchesRequest
    <3>2. order' = [order EXCEPT ![o] = ord] /\ file' = file /\ tasks' \subseteq tasks
      BY <1>reserve, <2>2 DEF Reserve, Change
    <3> HIDE DEF ord
    <3> QED BY <1>3, <2>1, <3>1, <3>2
  <2>3. CASE UNCHANGED makerVars
    BY <1>reserve, <1>2, <2>3 DEF Reserve
  <2> QED BY <1>reserve, <2>2, <2>3 DEF Reserve
<1>receivereserved. ASSUME NEW t \in Takers, NEW o \in Orders, ReceiveReserved(t, o) PROVE Result
  BY <1>receivereserved, <1>2 DEF ReceiveReserved, TypeOK
<1>choose. ASSUME NEW t \in Takers, NEW o \in Orders, ChooseMaker(t, o) PROVE Result
  BY <1>choose, <1>2 DEF ChooseMaker, TypeOK
<1>receiveconnect. ASSUME NEW t \in Takers, NEW o \in Orders, ReceiveConnect(t, o) PROVE Result
  BY <1>receiveconnect, <1>2 DEF ReceiveConnect, TypeOK
<1>connect. ASSUME NEW t \in Takers, NEW o \in Orders, Connect(t, o) PROVE Result
  <2>1. CASE t \in order[o].reserved
    <3> DEFINE ord == [order[o] EXCEPT !.reserved = @ \ {t}, !.connected = @ \cup {t}]
    <3>1. Fits(Tally, ord, ord.vol)
      BY <1>1, <2>1, FitsKept DEF Fit
    <3>2. order' = [order EXCEPT ![o] = ord] /\ file' = file /\ tasks' \subseteq tasks
      BY <1>connect, <2>1 DEF Connect, Change
    <3> HIDE DEF ord
    <3> QED BY <1>3, <3>1, <3>2
  <2>2. CASE t \notin order[o].reserved
    BY <1>connect, <1>2, <2>2 DEF Connect
  <2> QED BY <2>1, <2>2
<1>connected. ASSUME NEW t \in Takers, NEW o \in Orders, ReceiveConnected(t, o) PROVE Result
  BY <1>connected, <1>2 DEF ReceiveConnected, TypeOK
<1>crash. ASSUME NEW n \in Nodes, Crash(n) PROVE Result
  <2>1. /\ file' = file /\ tasks' \subseteq tasks
        /\ \A o \in Orders : order'[o] = order[o] \/ (file[o] # None /\ order'[o] = file[o])
    BY <1>crash DEF Crash
  <2> QED BY <1>1, <2>1 DEF AllFit, Fit, FileFits, Result
<1>activate. ASSUME NEW n \in Nodes, Activate(n) PROVE Result
  BY <1>activate, <1>2 DEF Activate, TypeOK
<1>stutter. ASSUME UNCHANGED vars PROVE Result
  BY <1>stutter, <1>2 DEF vars, TypeOK
<1>maker. ASSUME NEW o \in Orders, MakerStep(o) PROVE Result
  BY <1>maker, <1>save, <1>wait, <1>drop, <1>check, <1>expire, <1>delete, <1>cancel,
     <1>mark, <1>cancelmarked, <1>balance, <1>start, <1>resume, <1>finish DEF MakerStep
<1>taker. ASSUME NEW t \in Takers, TakerStep(t) PROVE Result
  BY <1>taker, <1>buy, <1>giveup, <1>ignore, <1>savematch, <1>deletetaker, <1>canceltaker,
     <1>timeout, <1>tomaker, <1>savenew DEF TakerStep
<1>answer. ASSUME NEW t \in Takers, Answer(t) PROVE Result
  BY <1>answer, <1>request, <1>skip, <1>reserve DEF Answer
<1>handshake. ASSUME NEW t \in Takers, NEW o \in Orders, Handshake(t, o) PROVE Result
  BY <1>handshake, <1>receivereserved, <1>choose, <1>receiveconnect, <1>connect,
     <1>connected DEF Handshake
<1> QED
  BY <1>maker, <1>taker, <1>answer, <1>handshake, <1>crash, <1>activate, <1>stutter DEF Next

\* Nobody changes what a taker asks for.
LEMMA SizeKept == [Next]_vars => size' = size
<1>1. ASSUME NEW t \in Takers, NEW o \in Orders, Handshake(t, o) PROVE size' = size
  BY <1>1 DEF Handshake, ReceiveReserved, ChooseMaker, ReceiveConnect, Connect, ReceiveConnected
<1>2. ASSUME NEW n \in Nodes, Crash(n) \/ Activate(n) PROVE size' = size
  BY <1>2 DEF Crash, Activate
<1> QED BY <1>1, <1>2, MakerFrame, AnswerFrame, TakerFrame DEF Next, vars

\* The same, in the terms of the model.
LEMMA VolumesHoldStep == TypeOK /\ VolumesHold /\ [Next]_vars => VolumesHold'
<1> SUFFICES ASSUME TypeOK, VolumesHold, [Next]_vars PROVE VolumesHold'
  OBVIOUS
<1>1. TypeOK'
  BY TypeStep
<1>2. size' = size
  BY SizeKept
<1>3. AllFit(Tally, order', file', tasks')
  BY VolumesTally, AllFitStep
<1>4. Tally' = Tally
  BY <1>2, TallyKept
<1>5. AllFit(Tally, order, file, tasks)'
  BY <1>3, <1>4 DEF AllFit, Fits
<1> QED BY <1>1, <1>5, VolumesTallyNext

-----------------------------------------------------------------------------
\* With no order there is nothing to match.
LEMMA HandshakeInvInit == Init => HandshakeInv
<1> SUFFICES ASSUME Init PROVE HandshakeInv
  OBVIOUS
<1>1. TypeOK
  BY TypeInit
<1>2. AllFit(Tally, order, file, tasks)
  <2>1. Sized
    BY <1>1, OrdersAssumption DEF Sized, TypeOK
  <2>2. \A v \in Nat : Fits(Tally, NewOrder(v), v) /\ NewOrder(v).vol = v
    BY <2>1, TallyFacts DEF Fits, NewOrder, MatchesOf
  <2>3. \A o \in Orders : (IF o \in Makers THEN Volume ELSE size[o]) \in Nat
    BY <2>1, OrdersAssumption DEF Sized, Orders
  <2>4. /\ \A o \in Orders : order[o] = NewOrder(IF o \in Makers THEN Volume ELSE size[o])
        /\ \A o \in Orders : file[o] = None \/ file[o] = NewOrder(Volume)
        /\ tasks = {}
    BY DEF Init
  <2> QED BY <2>2, <2>3, <2>4, OrdersAssumption DEF AllFit
<1>3. VolumesHold
  BY <1>1, <1>2, VolumesTally
<1>4. TakerRecord
  BY DEF Init, TakerRecord
<1>5. OneRole
  BY OrdersAssumption DEF Init, OneRole, Untouched, SwapsOf, Orders, NewOrder
<1>6. ConnectsMatched /\ NewUnconnected
  BY DEF Init, ConnectsMatched, NewUnconnected
<1>7. ConnectedCounted
  BY DEF Init, ConnectedCounted, NewOrder
<1> QED BY <1>1, <1>3, <1>4, <1>5, <1>6, <1>7 DEF HandshakeInv

\* Each part is kept with the help of the others.
LEMMA HandshakeInvStep == HandshakeInv /\ [Next]_vars => HandshakeInv'
  BY TypeStep, VolumesHoldStep, TakerRecordStep, OneRoleStep, ConnectsMatchedStep,
     ConnectedCountedStep, NewUnconnectedStep DEF HandshakeInv

\* The inductive invariant: volumes hold in memory, on disk and in updates that
\* wait; a taker order has one match, stored under its lock, and one role; who
\* is told it is connected is counted in memory and on disk.
THEOREM HandshakeInvHolds == Spec => []HandshakeInv
  BY HandshakeInvInit, HandshakeInvStep, PTL DEF Spec

\* Orders, files, waiting handlers and messages keep their types: what an update
\* that waits writes is an order, and a message names an order of its kind.
THEOREM Typing == Spec => []TypeOK
<1>1. HandshakeInv => TypeOK
  BY DEF HandshakeInv
<1> QED BY <1>1, HandshakeInvHolds, PTL

\* An order never gives more than its volume, whatever update, balance, expiry,
\* timeout or crash comes between request, reservation, connection and save.
THEOREM VolumeSafety == Spec => []SwapsWithinVolume
<1>1. HandshakeInv => SwapsWithinVolume
  <2> SUFFICES ASSUME HandshakeInv, NEW o \in Orders, o \notin cut
               PROVE  /\ ReservedAmount(order[o]) <= order[o].vol
                      /\ Amount(SwapsOf(o)) <= order[o].vol
    BY DEF SwapsWithinVolume
  <2>1. TypeOK /\ ReservedAmount(order[o]) <= order[o].vol /\ order[o] \in MakerOrder
    BY DEF HandshakeInv, VolumesHold, TypeOK
  <2>2. /\ MatchesOf(order[o]) \in SUBSET Takers
        /\ ReservedAmount(order[o]) = Tally[MatchesOf(order[o])]
        /\ ReservedAmount(order[o]) \in Nat
    BY <2>1, ReservedTally
  <2>3. SwapsOf(o) \in SUBSET MatchesOf(order[o])
    BY DEF HandshakeInv, ConnectedCounted, SwapsOf, MatchesOf
  <2>4. Amount(SwapsOf(o)) = Tally[SwapsOf(o)]
    BY DEF Tally, SwapsOf
  <2>5. Sized
    BY <2>1, OrdersAssumption DEF Sized, TypeOK
  <2>6. Tally[SwapsOf(o)] <= Tally[MatchesOf(order[o])] /\ Tally[SwapsOf(o)] \in Nat
    BY <2>2, <2>3, <2>5, TallyFacts
  <2>7. order[o].vol \in Nat
    BY <2>1 DEF MakerOrder
  <2> QED BY <2>1, <2>2, <2>4, <2>6, <2>7
<1> QED BY <1>1, HandshakeInvHolds, PTL

\* Two makers never both start a swap for one taker order, although every maker
\* that suits reserves for it and the taker may crash and be started again.
THEOREM SingleMaker == Spec => []OneMakerPerTaker
<1>1. HandshakeInv => OneMakerPerTaker
  <2> SUFFICES ASSUME HandshakeInv, NEW t \in Takers, t \notin cut, NEW o1 \in Orders,
                      NEW o2 \in Orders, <<o1, t>> \in makerSwaps, <<o2, t>> \in makerSwaps
               PROVE  o1 = o2
    BY DEF OneMakerPerTaker
  <2>1. o1 \in matched[t] /\ o2 \in matched[t]
    BY DEF HandshakeInv, ConnectsMatched
  <2> QED BY <2>1 DEF HandshakeInv, TakerRecord
<1> QED BY <1>1, HandshakeInvHolds, PTL

\* A swap that the taker starts is one the maker's order counts: the maker's
\* volume is never free again for somebody else.
THEOREM Counted == Spec => []TakerSwapIsCounted
<1>1. HandshakeInv => TakerSwapIsCounted
  BY DEF HandshakeInv, ConnectedCounted, TakerSwapIsCounted
<1> QED BY <1>1, HandshakeInvHolds, PTL

\* A taker order that started a swap never becomes a maker order as well.
THEOREM SingleUse == Spec => []VolumeUsedOnce
<1>1. HandshakeInv => VolumeUsedOnce
  BY DEF HandshakeInv, OneRole, Untouched, VolumeUsedOnce
<1> QED BY <1>1, HandshakeInvHolds, PTL
===============================================================================
