----------------------------- MODULE Restaurant -----------------------------
(***************************************************************************)
(* The restaurant of Ass3B: the management hands orders to chefs and sleeps *)
(* on the bell, a chef polls its pending orders and its futures and sleeps  *)
(* on its own monitor, the cooks work in the Kitchen, delivery persons take *)
(* from a queue until they meet a poisoned order.  Fields that two threads  *)
(* use without a lock (_currentPressure, the LinkedList of pending orders)  *)
(* are read and written in separate steps.                                  *)
(***************************************************************************)
EXTENDS Kitchen, Sequences, SequencesExt

CONSTANTS OrderList,  \* the orders, in the order of the file
          Difficulty, \* of each order
          DishesOf,   \* the dishes of each order
          Endurance,  \* of each chef
          Guys,       \* the delivery persons
          Poison      \* the poisoned order

Orders == Range(OrderList)
Chefs == DOMAIN Endurance
NChefs == Len(Endurance)
ASSUME OrdersAssumption ==
  /\ OrderList \in Seq(Orders) /\ IsInjective(OrderList)
  /\ Poison \notin Orders /\ Orders \cap {"take", "done"} = {}
  /\ Difficulty \in [Orders -> Nat] /\ Endurance \in Seq(Nat) \ {<<>>}
  /\ \A o \in Orders : \E c \in Chefs : Difficulty[o] <= Endurance[c]
  /\ IsFiniteSet(Guys) /\ Guys # {}
  /\ DishesOf \in [Orders -> SUBSET Dishes]
  /\ \A o, p \in Orders : o # p => DishesOf[o] \cap DishesOf[p] = {}

VARIABLES
  mgmt, next, seen, \* place of the management, the chef it is at, the pressure it read
  orders, bell,
  chef, look, read, \* place of a chef, the future it looks at, the pressure it read
  reduced,          \* wasPressureReduced
  pressure, stop,   \* _currentPressure, _stopTakingNewOrders
  pending, size,    \* _myPendingOrders: what can be reached, and its size field
  futures,
  order,            \* the callable of an order
  queue, guy,       \* _awaitingOrdersToDeliver; what a delivery person has
  delivered,
  clash,            \* the chef has polled during the management's add
  broken,           \* the chefs whose list has lost its first node, not its last
  raced,            \* history: a poll and an add have spoiled a list or its size
  overwrote         \* history: a change of a pressure was lost

mgmtVars == <<mgmt, next, seen, orders, clash>>
chefVars == <<look, read, reduced, futures>>
deliveryVars == <<queue, guy, delivered>>
races == <<broken, raced, overwrote>>
vars == <<mgmtVars, chefVars, deliveryVars, kitchenVars, bell, chef, pressure, stop,
          pending, size, order, races>>

Init ==
  /\ KitchenInit
  /\ mgmt = "loop" /\ next = 1 /\ seen = 0
  /\ orders = OrderList /\ bell = FALSE
  /\ chef = [c \in Chefs |-> "loop"]
  /\ look = [c \in Chefs |-> 1] /\ read = [c \in Chefs |-> 0]
  /\ reduced = [c \in Chefs |-> FALSE]
  /\ pressure = [c \in Chefs |-> 0] /\ stop = [c \in Chefs |-> FALSE]
  /\ pending = [c \in Chefs |-> <<>>] /\ size = [c \in Chefs |-> 0]
  /\ futures = [c \in Chefs |-> <<>>]
  /\ order = [o \in Orders |-> "none"]
  /\ queue = <<>> /\ guy = [g \in Guys |-> "take"]
  /\ delivered = {}
  /\ clash = FALSE /\ broken = {} /\ raced = FALSE /\ overwrote = FALSE

-----------------------------------------------------------------------------
(* notifyAll on the monitor of chef c. *)
Notify(c) == chef' = [chef EXCEPT ![c] = IF @ = "wait" THEN "loop" ELSE @]

(* The loop of start(): reset the bell, then go through the chefs. *)
MgmtLoop ==
  /\ mgmt = "loop"
  /\ IF orders = <<>> THEN mgmt' = "stop" /\ UNCHANGED bell
                      ELSE mgmt' = "scan" /\ bell' = FALSE
  /\ UNCHANGED <<next, seen, orders, clash, chefVars, deliveryVars, kitchenVars, chef, pressure, stop, pending, size, order, races>>

(* Mutant: the order is taken although the chef's endurance does not allow it. *)
MgmtAskAny ==
  /\ mgmt = "scan"
  /\ mgmt' = "take" /\ seen' = pressure[next]
  /\ UNCHANGED <<next, orders, clash, chefVars, deliveryVars, kitchenVars, bell, chef, pressure, stop, pending, size, order, races>>

(* canYouTakeThisOrder of the next chef: reads its pressure. *)
MgmtAsk ==
  /\ mgmt = "scan"
  /\ IF Difficulty[Head(orders)] <= Endurance[next] - pressure[next]
     THEN mgmt' = "take" /\ seen' = pressure[next] /\ UNCHANGED next
     ELSE /\ IF next = NChefs THEN mgmt' = "bell" /\ next' = 1
                              ELSE next' = next + 1 /\ UNCHANGED mgmt
          /\ UNCHANGED seen
  /\ UNCHANGED <<orders, clash, chefVars, deliveryVars, kitchenVars, bell, chef, pressure, stop, pending, size, order, races>>

(* It writes the increased pressure, over a decrease that came in between, ... *)
MgmtTake ==
  /\ mgmt = "take" /\ mgmt' = "add"
  /\ pressure' = [pressure EXCEPT ![next] = seen + Difficulty[Head(orders)]]
  /\ overwrote' = (overwrote \/ pressure[next] # seen)
  /\ seen' = 0
  /\ UNCHANGED <<next, orders, clash, chefVars, deliveryVars, kitchenVars, bell, chef, stop, pending, size, order, broken, raced>>

(* ... adds the order to the chef's LinkedList.  When the chef polls at the  *)
(* same time the size may be one too many or one too few.  When it polls the *)
(* only node, the new one may come off the list; the list may then be left   *)
(* with a last node and no first, so that later ones cannot be reached.      *)
MgmtAdd ==
  LET right == Append(pending[next], Head(orders))
      both == clash \/ chef[next] = "polling"
      only == \/ clash /\ pending[next] = <<>>
              \/ chef[next] = "polling" /\ Len(pending[next]) = 1
  IN
  /\ mgmt = "add" /\ mgmt' = "notify"
  /\ \E list \in (IF next \in broken THEN {} ELSE {right})
                     \cup (IF only \/ next \in broken THEN {pending[next]} ELSE {}),
       n \in IF both THEN {0, 1, 2} ELSE {1} :
       /\ pending' = [pending EXCEPT ![next] = list]
       /\ size' = [size EXCEPT ![next] = @ + n]
       /\ raced' = (raced \/ list # right \/ n # 1)
       /\ broken' \in IF list = right THEN {broken} ELSE {broken, broken \cup {next}}
  /\ clash' = FALSE
  /\ UNCHANGED <<next, seen, orders, chefVars, deliveryVars, kitchenVars, bell, chef, pressure, stop, order, overwrote>>

(* ... and notifies it; start() takes the order off its queue. *)
MgmtNotify ==
  /\ mgmt = "notify" /\ mgmt' = "loop"
  /\ Notify(next)
  /\ orders' = Tail(orders)
  /\ next' = 1
  /\ UNCHANGED <<seen, clash, chefVars, deliveryVars, kitchenVars, bell, pressure, stop, pending, size, order, races>>

(* No chef took the order: wait, unless the bell rang since it was reset. *)
MgmtBell ==
  /\ mgmt = "bell"
  /\ mgmt' = IF bell THEN "loop" ELSE "wait"
  /\ UNCHANGED <<next, seen, orders, clash, chefVars, deliveryVars, kitchenVars, bell, chef, pressure, stop, pending, size, order, races>>

(* Shutdown: stopTakingNewOrders of the next chef, ... *)
MgmtStop ==
  /\ mgmt = "stop" /\ mgmt' = "stopNotify"
  /\ stop' = [stop EXCEPT ![next] = TRUE]
  /\ UNCHANGED <<next, seen, orders, clash, chefVars, deliveryVars, kitchenVars, bell, chef, pressure, pending, size, order, races>>

(* ... notify it. *)
MgmtStopNotify ==
  /\ mgmt = "stopNotify"
  /\ Notify(next)
  /\ IF next = NChefs THEN mgmt' = "await" /\ next' = 1
                      ELSE mgmt' = "stop" /\ next' = next + 1
  /\ UNCHANGED <<seen, orders, clash, chefVars, deliveryVars, kitchenVars, bell, pressure, stop, pending, size, order, races>>

Poisons == [i \in 1..Cardinality(Guys) |-> Poison]

(* Mutant: the delivery persons are poisoned without awaiting the chefs' latch. *)
MgmtPoisonNow ==
  /\ mgmt = "await" /\ mgmt' = "awaitGuys"
  /\ queue' = queue \o Poisons
  /\ UNCHANGED <<next, seen, orders, clash, chefVars, guy, delivered, kitchenVars, bell, chef, pressure, stop, pending, size, order, races>>

(* Every chef has counted the latch down: poison the delivery persons. *)
MgmtPoison ==
  /\ mgmt = "await" /\ \A c \in Chefs : chef[c] = "done"
  /\ mgmt' = "awaitGuys"
  /\ queue' = queue \o Poisons
  /\ UNCHANGED <<next, seen, orders, clash, chefVars, guy, delivered, kitchenVars, bell, chef, pressure, stop, pending, size, order, races>>

MgmtEnd ==
  /\ mgmt = "awaitGuys" /\ \A g \in Guys : guy[g] = "done"
  /\ mgmt' = "ended"
  /\ UNCHANGED <<next, seen, orders, clash, chefVars, deliveryVars, kitchenVars, bell, chef, pressure, stop, pending, size, order, races>>

Mgmt == MgmtLoop \/ MgmtAsk \/ MgmtTake \/ MgmtAdd \/ MgmtNotify \/ MgmtBell
        \/ MgmtStop \/ MgmtStopNotify \/ MgmtPoison \/ MgmtEnd

-----------------------------------------------------------------------------
(* The loop of work(): stop when told to and nothing is left, else poll a   *)
(* pending order if there is one.                                           *)
ChefLoop(c) ==
  /\ chef[c] = "loop"
  /\ chef' = [chef EXCEPT ![c] =
       IF stop[c] /\ futures[c] = <<>> /\ size[c] = 0 THEN "done"
       ELSE IF size[c] # 0 THEN "polling" ELSE "look"]
  /\ UNCHANGED <<mgmtVars, chefVars, deliveryVars, kitchenVars, bell, pressure, stop, pending, size, order, races>>

(* poll() and handleNewOrder: the order is submitted to the pool. *)
ChefPoll(c) ==
  /\ chef[c] = "polling" /\ pending[c] # <<>>
  /\ pending' = [pending EXCEPT ![c] = Tail(@)]
  /\ size' = [size EXCEPT ![c] = @ - 1]
  /\ clash' = (clash \/ (mgmt = "add" /\ next = c))
  /\ futures' = [futures EXCEPT ![c] = Append(@, Head(pending[c]))]
  /\ order' = [order EXCEPT ![Head(pending[c])] = "cooking"]
  /\ StartCooking(DishesOf[Head(pending[c])])
  /\ chef' = [chef EXCEPT ![c] = "look"]
  /\ UNCHANGED <<mgmt, next, seen, orders, look, read, reduced, deliveryVars, bell, pressure, stop, races>>

(* poll() returns null, which handleNewOrder dereferences: the chef's thread *)
(* ends without counting the latch down.                                     *)
ChefDies(c) ==
  /\ chef[c] = "polling" /\ pending[c] = <<>>
  /\ chef' = [chef EXCEPT ![c] = "dead"]
  /\ UNCHANGED <<mgmtVars, chefVars, deliveryVars, kitchenVars, bell, pressure, stop, pending, size, order, races>>

(* sendFinishedOrdersToDelivery looks at the next future; after the last one *)
(* the chef rings the bell if its pressure was reduced, else it waits.       *)
ChefLook(c) ==
  /\ chef[c] = "look"
  /\ IF look[c] > Len(futures[c])
     THEN /\ chef' = [chef EXCEPT ![c] = IF reduced[c] THEN "ring" ELSE "wait"]
          /\ look' = [look EXCEPT ![c] = 1]
          /\ UNCHANGED read
     ELSE IF order[futures[c][look[c]]] = "done"
     THEN /\ chef' = [chef EXCEPT ![c] = "deduct"]
          /\ read' = [read EXCEPT ![c] = pressure[c]]
          /\ UNCHANGED look
     ELSE /\ look' = [look EXCEPT ![c] = @ + 1]
          /\ UNCHANGED <<chef, read>>
  /\ UNCHANGED <<mgmtVars, reduced, futures, deliveryVars, kitchenVars, bell, pressure, stop, pending, size, order, races>>

(* Mutant: the future of a finished order stays in the list. *)
ChefDeductKeeps(c) ==
  LET o == futures[c][look[c]] IN
  /\ chef[c] = "deduct"
  /\ pressure' = [pressure EXCEPT ![c] = read[c] - Difficulty[o]]
  /\ overwrote' = (overwrote \/ pressure[c] # read[c])
  /\ reduced' = [reduced EXCEPT ![c] = TRUE]
  /\ read' = [read EXCEPT ![c] = 0]
  /\ queue' = Append(queue, o)
  /\ look' = [look EXCEPT ![c] = @ + 1]
  /\ chef' = [chef EXCEPT ![c] = "look"]
  /\ UNCHANGED <<mgmtVars, futures, guy, delivered, kitchenVars, bell, stop, pending, size, order, broken, raced>>

(* A finished order: write the decreased pressure, send it to delivery. *)
ChefDeduct(c) ==
  LET o == futures[c][look[c]] IN
  /\ chef[c] = "deduct"
  /\ pressure' = [pressure EXCEPT ![c] = read[c] - Difficulty[o]]
  /\ overwrote' = (overwrote \/ pressure[c] # read[c])
  /\ futures' = [futures EXCEPT ![c] = RemoveAt(@, look[c])]
  /\ reduced' = [reduced EXCEPT ![c] = TRUE]
  /\ read' = [read EXCEPT ![c] = 0]
  /\ queue' = Append(queue, o)
  /\ chef' = [chef EXCEPT ![c] = "look"]
  /\ UNCHANGED <<mgmtVars, look, guy, delivered, kitchenVars, bell, stop, pending, size, order, broken, raced>>

(* Mutant: the chef notifies the management without setting the bell. *)
ChefRingSilent(c) ==
  /\ chef[c] = "ring"
  /\ chef' = [chef EXCEPT ![c] = "ringNotify"]
  /\ UNCHANGED <<mgmtVars, chefVars, deliveryVars, kitchenVars, bell, pressure, stop, pending, size, order, races>>

(* Set the bell, ... *)
ChefRing(c) ==
  /\ chef[c] = "ring"
  /\ bell' = TRUE
  /\ chef' = [chef EXCEPT ![c] = "ringNotify"]
  /\ UNCHANGED <<mgmtVars, chefVars, deliveryVars, kitchenVars, pressure, stop, pending, size, order, races>>

(* ... and notify the management. *)
ChefRingNotify(c) ==
  /\ chef[c] = "ringNotify"
  /\ mgmt' = IF mgmt = "wait" THEN "loop" ELSE mgmt
  /\ chef' = [chef EXCEPT ![c] = "loop"]
  /\ reduced' = [reduced EXCEPT ![c] = FALSE]
  /\ UNCHANGED <<next, seen, orders, clash, look, read, futures, deliveryVars, kitchenVars, bell, pressure, stop, pending, size, order, races>>

Chef(c) == ChefLoop(c) \/ ChefPoll(c) \/ ChefDies(c) \/ ChefLook(c) \/ ChefDeduct(c)
           \/ ChefRing(c) \/ ChefRingNotify(c)

-----------------------------------------------------------------------------
(* call(): all dishes are done, the chef is notified, ... *)
CookWholeOrder(o) ==
  /\ order[o] = "cooking" /\ \A d \in DishesOf[o] : cook[d] = "done"
  /\ order' = [order EXCEPT ![o] = "notified"]
  /\ \E c \in Chefs : o \in Range(futures[c]) /\ Notify(c)
  /\ UNCHANGED <<mgmtVars, chefVars, deliveryVars, kitchenVars, bell, pressure, stop, pending, size, races>>

(* ... and only when call() has returned is the future done. *)
FutureDone(o) ==
  /\ order[o] = "notified"
  /\ order' = [order EXCEPT ![o] = "done"]
  /\ UNCHANGED <<mgmtVars, chefVars, deliveryVars, kitchenVars, bell, chef, pressure, stop, pending, size, races>>

Cook(d) ==
  /\ CookStep(d)
  /\ UNCHANGED <<mgmtVars, chefVars, deliveryVars, bell, chef, pressure, stop, pending, size, order, races>>

(* A delivery person takes an order, and ends if it is poisoned. *)
GuyTake(g) ==
  /\ guy[g] = "take" /\ queue # <<>>
  /\ queue' = Tail(queue)
  /\ guy' = [guy EXCEPT ![g] = IF Head(queue) = Poison THEN "done" ELSE Head(queue)]
  /\ UNCHANGED <<mgmtVars, chefVars, delivered, kitchenVars, bell, chef, pressure, stop, pending, size, order, races>>

GuyDeliver(g) ==
  /\ guy[g] \in Orders
  /\ delivered' = delivered \cup {guy[g]}
  /\ guy' = [guy EXCEPT ![g] = "take"]
  /\ UNCHANGED <<mgmtVars, chefVars, queue, kitchenVars, bell, chef, pressure, stop, pending, size, order, races>>

Cooks == \/ \E d \in Dishes : Cook(d)
         \/ \E o \in Orders : CookWholeOrder(o) \/ FutureDone(o)
Delivery == \E g \in Guys : GuyTake(g) \/ GuyDeliver(g)

(* A wait() may return without a notification. *)
Spurious ==
  /\ \/ mgmt = "wait" /\ mgmt' = "loop" /\ UNCHANGED chef
     \/ \E c \in Chefs : chef[c] = "wait" /\ Notify(c) /\ UNCHANGED mgmt
  /\ UNCHANGED <<next, seen, orders, clash, chefVars, deliveryVars, kitchenVars, bell, pressure, stop, pending, size, order, races>>

Ended == mgmt = "ended" /\ UNCHANGED vars

Next ==
  \/ Mgmt \/ Cooks \/ Delivery \/ Spurious \/ Ended
  \/ \E c \in Chefs : Chef(c)

(* Every thread runs.  A wait() is not promised to return without a           *)
(* notification; the threads that take finitely many steps are one group.     *)
Spec ==
  /\ Init /\ [][Next]_vars
  /\ WF_vars(Mgmt)
  /\ \A c \in Chefs : WF_vars(Chef(c))
  /\ WF_vars(Cooks)
  /\ WF_vars(Delivery)

-----------------------------------------------------------------------------
TypeOK ==
  /\ mgmt \in {"loop", "scan", "take", "add", "notify", "bell", "wait", "stop",
               "stopNotify", "await", "awaitGuys", "ended"}
  /\ next \in Chefs /\ seen \in Int
  /\ bell \in BOOLEAN /\ clash \in BOOLEAN
  /\ broken \subseteq Chefs /\ raced \in BOOLEAN /\ overwrote \in BOOLEAN
  /\ Range(orders) \subseteq Orders
  /\ \A c \in Chefs :
       /\ chef[c] \in {"loop", "polling", "look", "deduct", "ring", "ringNotify",
                       "wait", "done", "dead"}
       /\ pressure[c] <= Endurance[c]
       /\ Range(pending[c]) \cup Range(futures[c]) \subseteq Orders
       /\ size[c] >= 0
  /\ order \in [Orders -> {"none", "cooking", "notified", "done"}]
  /\ Range(queue) \subseteq Orders \cup {Poison}
  /\ guy \in [Guys -> Orders \cup {"take", "done"}]
  /\ delivered \subseteq Orders
  /\ cook \in [Dishes -> {"none", "take", "putBack", "done"}]
  /\ \A d \in Dishes : held[d] \subseteq Needed(d)
  /\ \A k \in Tools : sem[k] \in 0..Quantity[k] /\ Range(line[k]) \subseteq Dishes

(* Where an order is: the management has it until it is on a chef's list. *)
Places(o) ==
  LET At(name, c, seq) == {<<name, c, i>> : i \in {j \in 1..Len(seq) : seq[j] = o}} IN
  At("orders", 0, IF mgmt = "notify" THEN Tail(orders) ELSE orders)
    \cup At("queue", 0, queue)
    \cup (UNION {At("pending", c, pending[c]) \cup At("futures", c, futures[c]) : c \in Chefs})
    \cup {<<"guy", g, 0>> : g \in {h \in Guys : guy[h] = o}}
    \cup (IF o \in delivered THEN {<<"delivered", 0, 0>>} ELSE {})

(* No order is cooked or delivered twice, and none is lost but by a race on  *)
(* a chef's list.                                                            *)
OrderOnce ==
  \A o \in Orders : Cardinality(Places(o)) <= 1 /\ (~raced => Places(o) # {})

(* The management does not sleep on the bell while a chef could take the     *)
(* order, unless that chef is about to ring.                                 *)
BellNotMissed ==
  mgmt = "wait" =>
    \A c \in Chefs : Difficulty[Head(orders)] <= Endurance[c] - pressure[c] =>
       reduced[c] /\ chef[c] \in {"look", "deduct", "ring", "ringNotify"}

(* The restaurant closes with every order delivered, if no poll and add have *)
(* spoiled a chef's list.                                                    *)
AllDelivered == mgmt = "ended" /\ ~raced => delivered = Orders

(* A chef waits for a notification that has come and gone: it has an order   *)
(* to poll or to deliver, or nothing left to do but to stop.                 *)
Missed(c) ==
  /\ chef[c] = "wait"
  /\ \/ size[c] # 0
     \/ \E o \in Range(futures[c]) : order[o] = "done"
     \/ stop[c] /\ futures[c] = <<>>

(* The restaurant closes, unless a chef waits for a notification it missed,  *)
(* a race has spoiled a chef's list or a change of its pressure was lost:    *)
(* cooks, management and delivery persons never wait for each other for      *)
(* ever, and no chef waits for an order that its cooks do not finish.        *)
Closes == <>(mgmt = "ended") \/ <>[](raced \/ overwrote \/ \E c \in Chefs : Missed(c))
=============================================================================
