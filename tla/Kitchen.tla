------------------------------- MODULE Kitchen -------------------------------
(***************************************************************************)
(* The warehouse and the cooks of the restaurant (Ass3B): a thread for     *)
(* each unit of a dish (RunnableCookOneDish) takes its kitchen tools from   *)
(* semaphores one after the other, cooks, and puts them back.  The          *)
(* semaphores are not fair: who finds enough permits takes them at once,    *)
(* who does not queues up and then has its turn only at the head.           *)
(* Ingredients are only subtracted, never waited for, and are left out.     *)
(***************************************************************************)
EXTENDS Integers, Sequences, FiniteSetsExt

CONSTANTS Dishes,   \* the units of dishes of all orders
          NTools,   \* kitchen tools, numbered in the order of their names
          Quantity, \* of each tool, in the warehouse
          Need      \* of each dish, the quantity of each tool; 0: not in its set

Tools == 1..NTools
ASSUME KitchenAssumption ==
  /\ NTools \in Nat /\ Quantity \in [Tools -> Nat]
  /\ Need \in [Dishes -> [Tools -> Nat]]
  /\ \A d \in Dishes, k \in Tools : Need[d][k] <= Quantity[k]

VARIABLES cook,  \* what the thread of a dish does
          held,  \* the tools it has taken and not put back
          sem,   \* permits of each tool's semaphore
          line   \* the dishes parked in its acquire(), first come first

kitchenVars == <<cook, held, sem, line>>

KitchenInit ==
  /\ cook = [d \in Dishes |-> "none"]
  /\ held = [d \in Dishes |-> {}]
  /\ sem = Quantity
  /\ line = [k \in Tools |-> << >>]

Needed(d) == {k \in Tools : Need[d][k] > 0}
NextTool(d) == Min(Needed(d) \ held[d])
Parked(d, k) == \E i \in 1..Len(line[k]) : line[k][i] = d

(* call() of an order starts a thread for each of its dishes D. *)
StartCooking(D) ==
  /\ cook' = [d \in Dishes |-> IF d \in D THEN "take" ELSE cook[d]]
  /\ UNCHANGED <<held, sem, line>>

(* Mutant: the tools of a dish come in any order, as from a set not sorted. *)
TakeAnyTool(d) ==
  /\ cook[d] = "take" /\ Needed(d) # held[d]
  /\ \E k \in Needed(d) \ held[d] :
       /\ Need[d][k] <= sem[k]
       /\ sem' = [sem EXCEPT ![k] = @ - Need[d][k]]
       /\ held' = [held EXCEPT ![d] = @ \cup {k}]
  /\ UNCHANGED <<cook, line>>

(* Warehouse.take: acquire the next tool of the sorted set, when there is    *)
(* enough; who is parked for it must be first in line.                       *)
TakeTool(d) ==
  LET k == NextTool(d) IN
  /\ cook[d] = "take" /\ Needed(d) # held[d]
  /\ Need[d][k] <= sem[k]
  /\ Parked(d, k) => Head(line[k]) = d
  /\ sem' = [sem EXCEPT ![k] = @ - Need[d][k]]
  /\ held' = [held EXCEPT ![d] = @ \cup {k}]
  /\ line' = [line EXCEPT ![k] = IF Parked(d, k) THEN Tail(@) ELSE @]
  /\ UNCHANGED cook

(* There is not enough: acquire() parks the thread at the end of the line. *)
JoinLine(d) ==
  LET k == NextTool(d) IN
  /\ cook[d] = "take" /\ Needed(d) # held[d]
  /\ sem[k] < Need[d][k] /\ ~Parked(d, k)
  /\ line' = [line EXCEPT ![k] = Append(@, d)]
  /\ UNCHANGED <<cook, held, sem>>

(* It has them all, and sleeps for the time of cooking. *)
CookDish(d) ==
  /\ cook[d] = "take" /\ Needed(d) = held[d]
  /\ cook' = [cook EXCEPT ![d] = "putBack"]
  /\ UNCHANGED <<held, sem, line>>

(* Mutant: a tool is put back without a release of its semaphore. *)
PutBackToolKeeps(d) ==
  /\ cook[d] = "putBack" /\ held[d] # {}
  /\ held' = [held EXCEPT ![d] = @ \ {Min(held[d])}]
  /\ UNCHANGED <<cook, sem, line>>

(* Warehouse.putBack releases a tool, ... *)
PutBackTool(d) ==
  /\ cook[d] = "putBack" /\ held[d] # {}
  /\ LET k == Min(held[d])
     IN  /\ sem' = [sem EXCEPT ![k] = @ + Need[d][k]]
         /\ held' = [held EXCEPT ![d] = @ \ {k}]
  /\ UNCHANGED <<cook, line>>

(* ... and after the last one the order's latch is counted down. *)
DishDone(d) ==
  /\ cook[d] = "putBack" /\ held[d] = {}
  /\ cook' = [cook EXCEPT ![d] = "done"]
  /\ UNCHANGED <<held, sem, line>>

CookStep(d) == TakeTool(d) \/ JoinLine(d) \/ CookDish(d) \/ PutBackTool(d) \/ DishDone(d)

-----------------------------------------------------------------------------
(* The cook of d cannot go on: too few permits, or others are parked first. *)
Waits(d) ==
  LET k == NextTool(d) IN
  /\ cook[d] = "take" /\ Needed(d) # held[d]
  /\ sem[k] < Need[d][k] \/ (Parked(d, k) /\ Head(line[k]) # d)

(* Cooks never all wait for each other's tools: as long as dishes are being  *)
(* cooked, one of them has its tools or finds the next one in the warehouse  *)
(* and is not parked behind another (Warehouse.take goes through a set       *)
(* sorted by name).                                                          *)
CooksGoOn ==
  LET cooking == {d \in Dishes : cook[d] \in {"take", "putBack"}}
  IN  cooking # {} => \E d \in cooking : ~Waits(d)
=============================================================================
