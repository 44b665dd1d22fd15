------------------------------ MODULE OrderMatch ------------------------------
(***************************************************************************)
(* The handshake of lp_ordermatch.rs: a taker's request, a maker's         *)
(* "reserved", the taker's "connect" and the maker's "connected", after    *)
(* which both start a swap.  Each handler is a task of its own; it takes   *)
(* an order's Arc from the map, waits for the order's lock, and keeps the  *)
(* lock until the order is stored.  A node may crash anywhere and goes on  *)
(* from its stored orders.                                                 *)
(***************************************************************************)
EXTENDS Integers, FiniteSets

CONSTANTS
  Makers,      \* orders made by setprice
  Takers,      \* orders made by buy and sell, one per node
  Nodes,       \* the orders of each node: a partition of Makers and Takers
  Gtc,         \* the taker orders that are good till cancelled
  Sellers,     \* the taker orders that may be on the side of Makers
  Sizes,       \* the amounts a taker may ask for
  Volume,      \* max_base_vol of an order made by setprice
  MinVol,      \* min_base_vol
  MaxCrashes,  \* bound of the model: crashes of any node
  MaxOps,      \* bound of the model: cancellations, updates, expiries and
               \* changes of a balance
  None         \* no order, no file

\* The keys of maker_orders_ctx.orders: a taker order that nobody matched in
\* time keeps its uuid when it becomes a maker order.
Orders == Makers \cup Takers

ASSUME OrdersAssumption ==
  /\ Makers \cap Takers = {} /\ None \notin Orders /\ \A S \in SUBSET Orders : None # S
  /\ Gtc \subseteq Takers /\ Sellers \subseteq Takers
  /\ IsFiniteSet(Takers) /\ Sizes \subseteq Nat \ {0}
  /\ Volume \in Nat /\ MinVol \in Nat \ {0} /\ MaxCrashes \in Nat /\ MaxOps \in Nat
  /\ UNION Nodes = Orders /\ \A m, n \in Nodes : m = n \/ m \cap n = {}

VARIABLES
  size,       \* the amount of each taker order
  sells,      \* the taker orders on the side of Makers
  active,     \* the keys of maker_orders_ctx.orders, on every node
  order,      \* the MakerOrder of each uuid, reachable through its Arc
  file,       \* what is stored of it
  unsaved,    \* orders whose lock is held until they are stored
  tasks,      \* handlers that are waiting for an order's lock
  phase,      \* of a taker order: "new", "open" (in my_taker_orders), "closed"
  matched,    \* the keys of the taker order's matches
  tfile,      \* what is stored of the taker order: its matches
  tlock,      \* the lock of my_taker_orders: "free", or held until the order
              \* is stored ("saving") or its file deleted ("deleting")
  pending,    \* pending_maker_reserved
  sleeping,   \* orders for which a process_maker_reserved sleeps
  net,        \* messages that may still arrive, once
  makerSwaps, takerSwaps,   \* swaps started, as <<maker order, taker order>>
  ready,      \* nodes whose coins are activated
  cut,        \* handlers a crash stopped between a message and its storage
  crashes, ops

makerVars == <<active, order, file, unsaved>>
takerVars == <<phase, matched, tfile, tlock, pending, sleeping>>
rigid == <<size, sells>>
vars == <<rigid, makerVars, tasks, takerVars, net, makerSwaps, takerSwaps, cut, ready, crashes, ops>>

NodeOf(o) == CHOOSE n \in Nodes : o \in n
Ready(o) == NodeOf(o) \in ready

\* reserved: matches without connect and connected; connected: with both.
MakerOrder == [vol : Nat, reserved : SUBSET Takers, connected : SUBSET Takers]
NewOrder(v) == [vol |-> v, reserved |-> {}, connected |-> {}]
HasOngoing(ord) == ord.reserved # {}
MatchesOf(ord) == ord.reserved \cup ord.connected

\* The sum of the amounts of a set of taker orders, as a number of units.
Units(S) == UNION {{t} \X (1..size[t]) : t \in S}
Amount(S) == Cardinality(Units(S))
ReservedAmount(ord) == Amount(MatchesOf(ord))
\* Mutant: only the ongoing matches are subtracted.
Available_ongoing(ord) == ord.vol - Amount(ord.reserved)

Available(ord) == ord.vol - ReservedAmount(ord)

\* match_with_request, for prices that suit both: the tickers and the volumes.
OtherSide(o, t) == (t \in sells) # (o \in Makers \cup sells)
MatchesRequest(o, t) ==
  /\ OtherSide(o, t)
  /\ size[t] <= Available(order[o]) /\ size[t] >= MinVol

\* The node a handler runs on.
TaskNode(k) == IF k[1] = "ask" THEN NodeOf(CHOOSE o \in k[3] : TRUE)
               ELSE IF k[1] = "connect" THEN NodeOf(k[3]) ELSE NodeOf(k[2])

LockFree(o) == o \notin unsaved
TakerLockFree(t) == tlock[t] = "free"

\* What comes from outside, within the bound.
Bounded == ops < MaxOps /\ ops' = ops + 1

\* The order is changed under its lock, which is kept until Save.
Change(o, ord) ==
  /\ order' = [order EXCEPT ![o] = ord]
  /\ unsaved' = unsaved \cup {o}
  /\ UNCHANGED <<active, file>>

\* remove_order and delete_my_maker_order; the owner of the Arc keeps the order.
Remove(o) ==
  /\ active' = active \ {o}
  /\ file' = [file EXCEPT ![o] = None]
  /\ UNCHANGED <<order, unsaved>>

-----------------------------------------------------------------------------
\* The maker's handlers.

\* process_taker_request: the Arcs of all orders, then one lock after the other.
ReceiveRequest(t, n) ==
  LET left == {o \in active \cap n : OtherSide(o, t)}
  IN /\ <<"request", t, n>> \in net
     /\ net' = net \ {<<"request", t, n>>}
     /\ tasks' = IF left = {} THEN tasks ELSE tasks \cup {<<"ask", t, left>>}
     /\ UNCHANGED <<rigid, makerVars, takerVars, makerSwaps, takerSwaps, cut, ready, crashes, ops>>

\* The next order does not match.
SkipOrder(t, left, o) ==
  /\ <<"ask", t, left>> \in tasks /\ o \in left /\ LockFree(o)
  /\ ~MatchesRequest(o, t)
  /\ tasks' = (tasks \ {<<"ask", t, left>>})
                \cup (IF left = {o} THEN {} ELSE {<<"ask", t, left \ {o}>>})
  /\ UNCHANGED <<rigid, makerVars, takerVars, net, makerSwaps, takerSwaps, cut, ready, crashes, ops>>

\* The first that matches is reserved, unless the request was reserved before
\* or a coin is not activated; the handler returns in any case.
Reserve(t, left, o) ==
  /\ <<"ask", t, left>> \in tasks /\ o \in left /\ LockFree(o)
  /\ MatchesRequest(o, t)
  /\ tasks' = tasks \ {<<"ask", t, left>>}
  /\ IF Ready(o) /\ t \notin MatchesOf(order[o])
     THEN /\ net' = net \cup {<<"reserved", t, o>>}
          /\ Change(o, [order[o] EXCEPT !.reserved = @ \cup {t}])
     ELSE UNCHANGED <<net, makerVars>>
  /\ UNCHANGED <<rigid, takerVars, makerSwaps, takerSwaps, cut, ready, crashes, ops>>

\* process_taker_connect: the Arc from the map, then its lock.  The taker slept
\* for 3 s before it answered: the first save of the order is over.
ReceiveConnect(t, o) ==
  /\ <<"connect", t, o>> \in net /\ <<"create", o>> \notin tasks
  /\ net' = net \ {<<"connect", t, o>>}
  /\ tasks' = IF o \in active THEN tasks \cup {<<"connect", t, o>>} ELSE tasks
  /\ UNCHANGED <<rigid, makerVars, takerVars, makerSwaps, takerSwaps, cut, ready, crashes, ops>>

\* lp_connect_start_bob spawns the swap, which ends at once if a coin is not
\* activated; the taker is told that it is connected all the same.
Connect(t, o) ==
  /\ <<"connect", t, o>> \in tasks /\ LockFree(o)
  /\ tasks' = tasks \ {<<"connect", t, o>>}
  /\ IF t \in order[o].reserved
     THEN /\ Change(o, [order[o] EXCEPT !.reserved = @ \ {t}, !.connected = @ \cup {t}])
          /\ makerSwaps' = IF Ready(o) THEN makerSwaps \cup {<<o, t>>} ELSE makerSwaps
          /\ net' = net \cup {<<"connected", t, o>>}
     ELSE UNCHANGED <<makerVars, makerSwaps, net>>
  /\ UNCHANGED <<rigid, takerVars, takerSwaps, cut, ready, crashes, ops>>

\* update_active_maker_order, the end of every handler that changed an order.
Save(o) ==
  /\ o \in unsaved
  /\ file' = [file EXCEPT ![o] = order[o]]
  /\ unsaved' = unsaved \ {o}
  /\ UNCHANGED <<rigid, active, order, tasks, takerVars, net, makerSwaps, takerSwaps, cut, ready, crashes, ops>>

-----------------------------------------------------------------------------
\* The maker's loops and its RPCs.

\* handle_timed_out_maker_matches has taken the Arcs and waits for a lock.
WaitToDrop(o) ==
  /\ o \in active /\ ~LockFree(o) /\ HasOngoing(order[o])
  /\ tasks' = tasks \cup {<<"drop", o>>}
  /\ UNCHANGED <<rigid, makerVars, takerVars, net, makerSwaps, takerSwaps, cut, ready, crashes, ops>>

\* Mutant: connected matches are dropped too.
DropMatches_all(o) ==
  /\ o \in active /\ LockFree(o)
  /\ MatchesOf(order[o]) # {}
  /\ tasks' = tasks \ {<<"drop", o>>}
  /\ Change(o, [order[o] EXCEPT !.reserved = {}, !.connected = {}])
  /\ UNCHANGED <<rigid, takerVars, net, makerSwaps, takerSwaps, cut, ready, crashes, ops>>

\* Some of the matches are older than ORDER_MATCH_TIMEOUT and not connected.
DropMatches(o) ==
  /\ o \in active \/ <<"drop", o>> \in tasks
  /\ LockFree(o)
  /\ tasks' = tasks \ {<<"drop", o>>}
  /\ \/ \E old \in SUBSET order[o].reserved \ {{}} :
          Change(o, [order[o] EXCEPT !.reserved = @ \ old])
     \/ ~HasOngoing(order[o]) /\ UNCHANGED makerVars
  /\ UNCHANGED <<rigid, takerVars, net, makerSwaps, takerSwaps, cut, ready, crashes, ops>>

\* check_balance_for_maker_orders: too little is left, and nothing is ongoing.
CheckBalance(o) ==
  /\ o \in active /\ LockFree(o)
  /\ Available(order[o]) < MinVol /\ ~HasOngoing(order[o])
  /\ Remove(o)
  /\ UNCHANGED <<rigid, tasks, takerVars, net, makerSwaps, takerSwaps, cut, ready, crashes, ops>>

\* Mutant: the reserved amount is subtracted instead of added.
BalanceUpdated_net(o, v) ==
  /\ Bounded
  /\ o \in active /\ LockFree(o) /\ Ready(o)
  /\ order' = [order EXCEPT ![o].vol = v - ReservedAmount(order[o])]
  /\ UNCHANGED <<rigid, active, file, unsaved, tasks, takerVars, net, makerSwaps, takerSwaps, cut, ready, crashes>>

\* balance_updated: the order is removed whatever is ongoing, or its volume is
\* lowered, in memory only.  A handler that waited for the lock of an order
\* removed meanwhile lowers a volume only such handlers still see; the model
\* leaves that out.
BalanceUpdated(o, v) ==
  /\ Bounded
  /\ o \in active /\ LockFree(o) /\ Ready(o)
  /\ \/ v < MinVol /\ Remove(o)
     \/ /\ v >= MinVol /\ v < Available(order[o])
        /\ order' = [order EXCEPT ![o].vol = ReservedAmount(order[o]) + v]
        /\ UNCHANGED <<active, file, unsaved>>
  /\ UNCHANGED <<rigid, tasks, takerVars, net, makerSwaps, takerSwaps, cut, ready, crashes>>

\* drop_expired_entries looks at no match; the file is deleted under the lock.
Expire(o) ==
  /\ Bounded
  /\ o \in active \cap Makers
  /\ active' = active \ {o}
  /\ tasks' = tasks \cup {<<"expire", o>>}
  /\ UNCHANGED <<rigid, order, file, unsaved, takerVars, net, makerSwaps, takerSwaps, cut, ready, crashes>>

DeleteExpired(o) ==
  /\ <<"expire", o>> \in tasks /\ LockFree(o)
  /\ tasks' = tasks \ {<<"expire", o>>}
  /\ Remove(o)
  /\ UNCHANGED <<rigid, takerVars, net, makerSwaps, takerSwaps, cut, ready, crashes, ops>>

\* cancel_order, under the order's lock.
Cancel(o) ==
  /\ Bounded
  /\ o \in active /\ LockFree(o) /\ ~HasOngoing(order[o])
  /\ Remove(o)
  /\ UNCHANGED <<rigid, tasks, takerVars, net, makerSwaps, takerSwaps, cut, ready, crashes>>

\* cancel_orders_by looks at the orders one by one and removes them when it has
\* seen all, under the lock of the map alone.
MarkForCancel(o) ==
  /\ Bounded
  /\ o \in active /\ LockFree(o) /\ ~HasOngoing(order[o])
  /\ tasks' = tasks \cup {<<"cancel", o>>}
  /\ UNCHANGED <<rigid, makerVars, takerVars, net, makerSwaps, takerSwaps, cut, ready, crashes>>

CancelMarked(o) ==
  /\ <<"cancel", o>> \in tasks
  /\ tasks' = tasks \ {<<"cancel", o>>}
  /\ Remove(o)
  /\ UNCHANGED <<rigid, takerVars, net, makerSwaps, takerSwaps, cut, ready, crashes, ops>>

\* update_maker_order: the checks on a snapshot of the order, then its Arc from
\* the map once more, then its lock.
StartUpdate(o, v) ==
  /\ Bounded
  /\ o \in active /\ LockFree(o) /\ Ready(o)
  /\ ~HasOngoing(order[o]) /\ v > ReservedAmount(order[o])
  /\ tasks' = tasks \cup {<<"update", o, v, order[o]>>}
  /\ UNCHANGED <<rigid, makerVars, takerVars, net, makerSwaps, takerSwaps, cut, ready, crashes>>

ResumeUpdate(o, v, before) ==
  /\ <<"update", o, v, before>> \in tasks
  /\ tasks' = (tasks \ {<<"update", o, v, before>>})
                \cup (IF o \in active THEN {<<"apply", o, v, before>>} ELSE {})
  /\ UNCHANGED <<rigid, makerVars, takerVars, net, makerSwaps, takerSwaps, cut, ready, crashes, ops>>

\* Whether the order is in the map when its lock is free is not looked at.
FinishUpdate(o, v, before) ==
  /\ <<"apply", o, v, before>> \in tasks /\ LockFree(o)
  /\ tasks' = tasks \ {<<"apply", o, v, before>>}
  /\ IF order[o] = before
     THEN Change(o, [before EXCEPT !.vol = v])
     ELSE UNCHANGED makerVars
  /\ UNCHANGED <<rigid, takerVars, net, makerSwaps, takerSwaps, cut, ready, crashes, ops>>

-----------------------------------------------------------------------------
\* The taker's handlers.

\* lp_auto_buy, under the lock of my_taker_orders.  Nodes that never have an
\* order of the other side drop the request.
Buy(t) ==
  /\ phase[t] = "new" /\ Ready(t)
  /\ phase' = [phase EXCEPT ![t] = "open"]
  /\ tfile' = [tfile EXCEPT ![t] = {}]
  /\ net' = net \cup {<<"request", t, n>> : n \in {k \in Nodes : \E o \in k : OtherSide(o, t)}}
  /\ UNCHANGED <<rigid, makerVars, tasks, matched, tlock, pending, sleeping, makerSwaps, takerSwaps, cut, ready, crashes, ops>>

\* process_maker_reserved: the first message starts a handler that sleeps; the
\* others are left to it.
ReceiveReserved(t, o) ==
  /\ <<"reserved", t, o>> \in net /\ TakerLockFree(t)
  /\ net' = net \ {<<"reserved", t, o>>}
  /\ IF phase[t] = "open"
     THEN /\ pending' = [pending EXCEPT ![t] = @ \cup {o}]
          /\ sleeping' = IF pending[t] = {} THEN sleeping \cup {t} ELSE sleeping
     ELSE UNCHANGED <<pending, sleeping>>
  /\ UNCHANGED <<rigid, makerVars, tasks, phase, matched, tfile, tlock, makerSwaps, takerSwaps, cut, ready, crashes, ops>>

\* It wakes: without the order or a coin it leaves the messages where they are.
GiveUp(t) ==
  /\ t \in sleeping /\ TakerLockFree(t)
  /\ phase[t] # "open" \/ ~Ready(t)
  /\ sleeping' = sleeping \ {t}
  /\ UNCHANGED <<rigid, makerVars, tasks, phase, matched, tfile, tlock, pending, net, makerSwaps, takerSwaps, cut, ready, crashes, ops>>

\* Mutant: whether the order has a match is not looked at.
ChooseMaker_again(t, o) ==
  /\ t \in sleeping /\ TakerLockFree(t) /\ phase[t] = "open" /\ Ready(t)
  /\ o \in pending[t]
  /\ pending' = [pending EXCEPT ![t] = {}]
  /\ sleeping' = sleeping \ {t}
  /\ matched' = [matched EXCEPT ![t] = @ \cup {o}]
  /\ net' = net \cup {<<"connect", t, o>>}
  /\ tlock' = [tlock EXCEPT ![t] = "saving"]
  /\ UNCHANGED <<rigid, makerVars, tasks, phase, tfile, makerSwaps, takerSwaps, cut, ready, crashes, ops>>

\* The best of the makers is sent "connect", if the order has no match.
ChooseMaker(t, o) ==
  /\ t \in sleeping /\ TakerLockFree(t) /\ phase[t] = "open" /\ Ready(t)
  /\ o \in pending[t] /\ matched[t] = {}
  /\ pending' = [pending EXCEPT ![t] = {}]
  /\ sleeping' = sleeping \ {t}
  /\ matched' = [matched EXCEPT ![t] = {o}]
  /\ net' = net \cup {<<"connect", t, o>>}
  /\ tlock' = [tlock EXCEPT ![t] = "saving"]
  /\ UNCHANGED <<rigid, makerVars, tasks, phase, tfile, makerSwaps, takerSwaps, cut, ready, crashes, ops>>

\* Or none of them suits: a coin's protocol is not supported, or the messages
\* came after the order was matched.
IgnoreMakers(t) ==
  /\ t \in sleeping /\ TakerLockFree(t) /\ phase[t] = "open" /\ Ready(t)
  /\ pending' = [pending EXCEPT ![t] = {}]
  /\ sleeping' = sleeping \ {t}
  /\ UNCHANGED <<rigid, makerVars, tasks, phase, matched, tfile, tlock, net, makerSwaps, takerSwaps, cut, ready, crashes, ops>>

\* Mutant: the match is not stored.
SaveMatch_forgotten(t) ==
  /\ tlock[t] = "saving"
  /\ tlock' = [tlock EXCEPT ![t] = "free"]
  /\ UNCHANGED <<rigid, makerVars, tasks, phase, matched, tfile, pending, sleeping, net, makerSwaps, takerSwaps, cut, ready, crashes, ops>>

\* update_active_taker_order.
SaveMatch(t) ==
  /\ tlock[t] = "saving"
  /\ tfile' = [tfile EXCEPT ![t] = matched[t]]
  /\ tlock' = [tlock EXCEPT ![t] = "free"]
  /\ UNCHANGED <<rigid, makerVars, tasks, phase, matched, pending, sleeping, net, makerSwaps, takerSwaps, cut, ready, crashes, ops>>

\* process_maker_connected: lp_connected_alice spawns the swap, which ends at
\* once without its coins; the order is removed, then its file.
ReceiveConnected(t, o) ==
  /\ <<"connected", t, o>> \in net /\ TakerLockFree(t)
  /\ net' = net \ {<<"connected", t, o>>}
  /\ IF phase[t] = "open" /\ o \in matched[t]
     THEN /\ takerSwaps' = IF Ready(t) THEN takerSwaps \cup {<<o, t>>} ELSE takerSwaps
          /\ phase' = [phase EXCEPT ![t] = "closed"]
          /\ tlock' = [tlock EXCEPT ![t] = "deleting"]
     ELSE UNCHANGED <<takerSwaps, phase, tlock>>
  /\ UNCHANGED <<rigid, makerVars, tasks, matched, tfile, pending, sleeping, makerSwaps, cut, ready, crashes, ops>>

DeleteTakerOrder(t) ==
  /\ tlock[t] = "deleting"
  /\ tfile' = [tfile EXCEPT ![t] = None]
  /\ tlock' = [tlock EXCEPT ![t] = "free"]
  /\ UNCHANGED <<rigid, makerVars, tasks, phase, matched, pending, sleeping, net, makerSwaps, takerSwaps, cut, ready, crashes, ops>>

\* The order is taken out of my_taker_orders and its file deleted.
Close(t) ==
  /\ phase[t] = "open" /\ TakerLockFree(t)
  /\ phase' = [phase EXCEPT ![t] = "closed"]
  /\ tfile' = [tfile EXCEPT ![t] = None]
  /\ UNCHANGED <<rigid, order, file, unsaved, matched, tlock, pending, sleeping, net, makerSwaps, takerSwaps, cut, ready, crashes>>

\* cancel_order and cancel_orders_by.
CancelTaker(t) ==
  /\ Close(t) /\ matched[t] = {} /\ Bounded
  /\ UNCHANGED <<active, tasks>>

\* handle_timed_out_taker_orders.
TimeOut(t) ==
  /\ Close(t) /\ (matched[t] # {} \/ t \notin Gtc)
  /\ UNCHANGED <<active, tasks, ops>>

ToMaker(t) ==
  /\ Close(t) /\ matched[t] = {} /\ t \in Gtc
  /\ active' = active \cup {t}
  /\ tasks' = tasks \cup {<<"create", t>>}
  /\ UNCHANGED ops

\* save_new_active_maker_order of what the order was when it was added, without
\* its lock.
SaveNew(t) ==
  /\ <<"create", t>> \in tasks
  /\ tasks' = tasks \ {<<"create", t>>}
  /\ file' = [file EXCEPT ![t] = NewOrder(size[t])]
  /\ UNCHANGED <<rigid, active, order, unsaved, takerVars, net, makerSwaps, takerSwaps, cut, ready, crashes, ops>>

-----------------------------------------------------------------------------
\* The nodes.

\* Only the files are left; orders_kick_start loads them before any coin is
\* activated.
Crash(n) ==
  /\ crashes < MaxCrashes /\ crashes' = crashes + 1
  /\ active' = (active \ n) \cup {o \in n : file[o] # None}
  /\ order' = [o \in Orders |-> IF o \in n /\ file[o] # None THEN file[o] ELSE order[o]]
  /\ unsaved' = unsaved \ n
  /\ tasks' = {k \in tasks : TaskNode(k) # n}
  /\ phase' = [t \in Takers |->
       IF t \in n THEN IF tfile[t] # None THEN "open" ELSE IF phase[t] = "new" THEN "new" ELSE "closed"
       ELSE phase[t]]
  /\ matched' = [t \in Takers |-> IF t \in n /\ tfile[t] # None THEN tfile[t] ELSE matched[t]]
  /\ tlock' = [t \in Takers |-> IF t \in n THEN "free" ELSE tlock[t]]
  /\ pending' = [t \in Takers |-> IF t \in n THEN {} ELSE pending[t]]
  /\ sleeping' = sleeping \ n
  /\ ready' = ready \ {n}
  /\ cut' = cut \cup (unsaved \cap n) \cup {t \in Takers \cap n : tlock[t] = "saving"}
  /\ UNCHANGED <<rigid, file, tfile, net, makerSwaps, takerSwaps, ops>>

\* The user activates the coins of the orders.
Activate(n) ==
  /\ n \notin ready
  /\ ready' = ready \cup {n}
  /\ UNCHANGED <<rigid, makerVars, tasks, takerVars, net, makerSwaps, takerSwaps, cut, crashes, ops>>

Init ==
  /\ size \in [Takers -> Sizes] /\ sells \in SUBSET Sellers
  /\ active = Makers
  /\ order = [o \in Orders |-> NewOrder(IF o \in Makers THEN Volume ELSE size[o])]
  /\ file = [o \in Orders |-> IF o \in Makers THEN NewOrder(Volume) ELSE None]
  /\ unsaved = {} /\ tasks = {} /\ net = {}
  /\ phase = [t \in Takers |-> "new"]
  /\ matched = [t \in Takers |-> {}]
  /\ tfile = [t \in Takers |-> None]
  /\ tlock = [t \in Takers |-> "free"]
  /\ pending = [t \in Takers |-> {}] /\ sleeping = {}
  /\ makerSwaps = {} /\ takerSwaps = {} /\ cut = {}
  /\ ready = Nodes /\ crashes = 0 /\ ops = 0

MakerStep(o) ==
  \/ Save(o) \/ WaitToDrop(o) \/ DropMatches(o) \/ CheckBalance(o)
  \/ Expire(o) \/ DeleteExpired(o) \/ Cancel(o) \/ MarkForCancel(o) \/ CancelMarked(o)
  \/ \E v \in 0..Volume : BalanceUpdated(o, v) \/ StartUpdate(o, v)
  \/ \E k \in tasks : k[1] = "update" /\ k[2] = o /\ ResumeUpdate(o, k[3], k[4])
  \/ \E k \in tasks : k[1] = "apply" /\ k[2] = o /\ FinishUpdate(o, k[3], k[4])

TakerStep(t) ==
  \/ Buy(t) \/ GiveUp(t) \/ IgnoreMakers(t) \/ SaveMatch(t) \/ DeleteTakerOrder(t)
  \/ CancelTaker(t) \/ TimeOut(t) \/ ToMaker(t) \/ SaveNew(t)

Handshake(t, o) ==
  \/ ReceiveReserved(t, o) \/ ChooseMaker(t, o) \/ ReceiveConnect(t, o)
  \/ Connect(t, o) \/ ReceiveConnected(t, o)

Answer(t) ==
  \/ \E n \in Nodes : ReceiveRequest(t, n)
  \/ \E k \in tasks : k[1] = "ask" /\ k[2] = t
       /\ \E o \in k[3] : SkipOrder(t, k[3], o) \/ Reserve(t, k[3], o)

Next ==
  \/ \E o \in Orders : MakerStep(o)
  \/ \E t \in Takers : TakerStep(t) \/ Answer(t) \/ \E o \in Orders : Handshake(t, o)
  \/ \E n \in Nodes : Crash(n) \/ Activate(n)

Spec == Init /\ [][Next]_vars
-----------------------------------------------------------------------------
Task ==
  ({"ask"} \X Takers \X SUBSET Orders) \cup ({"connect"} \X Takers \X Orders)
  \cup ({"drop", "expire", "cancel", "create"} \X Orders)
  \cup ({"update", "apply"} \X Orders \X Nat \X MakerOrder)

Message ==
  ({"request"} \X Takers \X Nodes) \cup ({"reserved", "connect", "connected"} \X Takers \X Orders)

TypeOK ==
  /\ size \in [Takers -> Sizes] /\ sells \subseteq Takers
  /\ active \subseteq Orders /\ unsaved \subseteq Orders /\ cut \subseteq Orders
  /\ order \in [Orders -> MakerOrder] /\ file \in [Orders -> MakerOrder \cup {None}]
  /\ tasks \subseteq Task /\ net \subseteq Message
  /\ phase \in [Takers -> {"new", "open", "closed"}]
  /\ matched \in [Takers -> SUBSET Orders]
  /\ tfile \in [Takers -> (SUBSET Orders) \cup {None}]
  /\ tlock \in [Takers -> {"free", "saving", "deleting"}]
  /\ pending \in [Takers -> SUBSET Orders] /\ sleeping \subseteq Takers
  /\ makerSwaps \subseteq Orders \X Takers /\ takerSwaps \subseteq Orders \X Takers
  /\ ready \subseteq Nodes /\ crashes \in 0..MaxCrashes /\ ops \in 0..MaxOps

SwapsOf(o) == {t \in Takers : <<o, t>> \in makerSwaps}

\* An order never gives more than its volume, which updates and balances change
\* meanwhile: what is reserved and what is in swaps fits in.
SwapsWithinVolume ==
  \A o \in Orders \ cut :
    /\ ReservedAmount(order[o]) <= order[o].vol
    /\ Amount(SwapsOf(o)) <= order[o].vol

\* One uuid, one swap: two makers never both start one for the same taker order.
OneMakerPerTaker ==
  \A t \in Takers \ cut : \A o1, o2 \in Orders : {<<o1, t>>, <<o2, t>>} \subseteq makerSwaps => o1 = o2

\* The taker starts only a swap that the maker's order counts.
TakerSwapIsCounted ==
  \A o \in Orders \ cut, t \in Takers : <<o, t>> \in takerSwaps => t \in order[o].connected

\* The volume of an order good till cancelled is given once, as a taker or as a
\* maker.
VolumeUsedOnce ==
  \A t \in Takers : (\E o \in Orders : <<o, t>> \in takerSwaps) => t \notin active /\ SwapsOf(t) = {}
================================================================================
