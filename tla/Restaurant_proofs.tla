--------------------------- MODULE Restaurant_proofs ---------------------------
(***************************************************************************)
(* The restaurant, for every list of orders, every endurance of the chefs,  *)
(* all tools and dishes and any delivery persons: its types and the permits *)
(* of the kitchen tools, that no order is doubled or lost, that the cooks    *)
(* are never deadlocked over the tools, that the restaurant closes with      *)
(* every order delivered, and that the bell is not missed.                  *)
(***************************************************************************)
EXTENDS Restaurant, FiniteSetTheorems, SequenceTheorems, TLAPS

USE DEF races

(* The permits of tool k that are lent, counted one by one for each dish. *)
Lent(k) == {p \in Dishes \X Nat : k \in held[p[1]] /\ p[2] \in 1..Need[p[1]][k]}

(* Whatever is not in the semaphore of a tool is held for a dish. *)
KitchenInv ==
  /\ cook \in [Dishes -> {"none", "take", "putBack", "done"}]
  /\ held \in [Dishes -> SUBSET Tools] /\ sem \in [Tools -> Nat]
  /\ line \in [Tools -> Seq(Dishes)]
  /\ \A d \in Dishes : held[d] \subseteq Needed(d)
  /\ \A k \in Tools : IsFiniteSet(Lent(k)) /\ sem[k] + Cardinality(Lent(k)) = Quantity[k]

(* The least element of a set of numbers: the sets 1..s, s in S, are ordered *)
(* by inclusion, which is well-founded on finite sets.                       *)
LEMMA LeastOf ==
  ASSUME NEW S \in SUBSET Nat, S # {}
  PROVE  Min(S) \in S /\ \A y \in S : Min(S) <= y
<1> DEFINE T == {1..s : s \in S}
<1>1. T \subseteq FiniteSubsetsOf(Nat) /\ T # {}
  <2>1. \A s \in S : IsFiniteSet(1..s) /\ 1..s \in SUBSET Nat
    BY FS_Interval
  <2> QED
    BY <2>1 DEF FiniteSubsetsOf
<1>2. PICK X \in T : \A Y \in T : <<Y, X>> \notin StrictSubsetOrdering(Nat)
  <2> HIDE DEF T
  <2> QED
    BY <1>1, FS_StrictSubsetOrderingWellFounded, WFMin
<1>3. PICK x \in S : X = 1..x
  BY <1>2
<1>4. ASSUME NEW y \in S, y < x PROVE FALSE
  <2>1. 1..y \subseteq 1..x /\ x \in 1..x /\ x \notin 1..y
    BY <1>3, <1>4
  <2>2. 1..y \in SUBSET Nat /\ 1..x \in SUBSET Nat /\ 1..y \in T
    BY <1>3
  <2>3. <<1..y, 1..x>> \in StrictSubsetOrdering(Nat)
    BY <2>1, <2>2, Zenon DEF StrictSubsetOrdering
  <2> QED
    BY <1>2, <1>3, <2>2, <2>3
<1>5. \A y \in S : x <= y
  BY <1>4
<1> QED
  BY <1>5 DEF Min

(* n permits for dish d are n pairs. *)
LEMMA PermitsCounted ==
  ASSUME NEW L, IsFiniteSet(L), NEW d, NEW n \in Nat, \A i \in Nat : <<d, i>> \notin L,
         NEW M, M = L \cup ({d} \X (1..n))
  PROVE  IsFiniteSet(M) /\ Cardinality(M) = Cardinality(L) + n /\ Cardinality(L) \in Nat
<1> DEFINE P == {d} \X (1..n)
<1>1. IsFiniteSet(1..n) /\ Cardinality(1..n) = n
  BY FS_Interval
<1>2. IsFiniteSet({d}) /\ Cardinality({d}) = 1
  BY FS_Singleton
<1>3. IsFiniteSet(P) /\ Cardinality(P) = Cardinality({d}) * Cardinality(1..n)
  <2> HIDE DEF P
  <2> QED
    BY <1>1, <1>2, FS_Product DEF P
<1>4. L \cap P = {}
  OBVIOUS
<1>5. Cardinality(L) \in Nat /\ Cardinality(P) = n
  BY <1>1, <1>2, <1>3, FS_CardinalityType
<1> HIDE DEF P
<1>6. IsFiniteSet(L \cup P) /\ Cardinality(L \cup P) = Cardinality(L) + Cardinality(P) - Cardinality(L \cap P)
  BY <1>3, FS_Union
<1>7. Cardinality(L \cap P) = 0
  BY <1>4, FS_EmptySet
<1> QED
  BY <1>5, <1>6, <1>7 DEF P

LEMMA KitchenInvInit == KitchenInit => KitchenInv
<1> SUFFICES ASSUME KitchenInit PROVE KitchenInv
  OBVIOUS
<1>1. cook \in [Dishes -> {"none", "take", "putBack", "done"}] /\ held \in [Dishes -> SUBSET Tools]
      /\ sem \in [Tools -> Nat] /\ \A d \in Dishes : held[d] = {}
  BY KitchenAssumption DEF KitchenInit
<1>2. \A k \in Tools : Lent(k) = {}
  BY <1>1 DEF Lent
<1>3. \A k \in Tools : IsFiniteSet(Lent(k)) /\ Cardinality(Lent(k)) = 0
  BY <1>2, FS_EmptySet
<1>4. \A k \in Tools : sem[k] = Quantity[k] /\ sem[k] + 0 = Quantity[k]
  BY <1>1 DEF KitchenInit
<1>5. line \in [Tools -> Seq(Dishes)]
  BY DEF KitchenInit
<1> QED
  BY <1>1, <1>3, <1>4, <1>5 DEF KitchenInv

LEMMA KitchenKept ==
  ASSUME KitchenInv, cook' \in [Dishes -> {"none", "take", "putBack", "done"}], UNCHANGED <<held, sem>>,
         line' \in [Tools -> Seq(Dishes)]
  PROVE  KitchenInv'
<1>1. \A k \in Tools : Lent(k)' = Lent(k)
  BY DEF Lent
<1> QED
  BY <1>1 DEF KitchenInv, Needed

LEMMA CookStepKeeps ==
  ASSUME KitchenInv, NEW d \in Dishes, CookStep(d)
  PROVE  KitchenInv'
<1> USE DEF KitchenInv
<1>0. Need[d] \in [Tools -> Nat] /\ Quantity \in [Tools -> Nat] /\ Tools \subseteq Nat /\ Needed(d) \subseteq Tools
      /\ \A e \in Dishes : \A k \in Tools : Need[e][k] \in Nat
  BY KitchenAssumption DEF Tools, Needed
<1>1. CASE CookDish(d) \/ DishDone(d)
  BY <1>1, KitchenKept DEF CookDish, DishDone
<1>2. CASE TakeTool(d)
  <2>1. PICK k : k = NextTool(d) /\ k = Min(Needed(d) \ held[d])
    BY DEF NextTool
  <2>2. k \in Needed(d) \ held[d] /\ k \in Tools
    <3>1. Needed(d) \ held[d] # {} /\ Needed(d) \ held[d] \in SUBSET Nat
      BY <1>0, <1>2 DEF TakeTool
    <3> QED
      BY <1>0, <2>1, <3>1, LeastOf
  <2> DEFINE n == Need[d][k]
  <2>3. /\ n <= sem[k] /\ sem' = [sem EXCEPT ![k] = @ - n]
        /\ held' = [held EXCEPT ![d] = @ \cup {k}] /\ cook' = cook
        /\ line' = [line EXCEPT ![k] = IF Parked(d, k) THEN Tail(@) ELSE @]
    BY <1>2, <2>1 DEF TakeTool
  <2>4. n \in Nat /\ sem[k] \in Nat
    BY <1>0, <2>2
  <2>5. sem' \in [Tools -> Nat] /\ held' \in [Dishes -> SUBSET Tools]
    BY <2>2, <2>3, <2>4
  <2>6. \A e \in Dishes : held'[e] \subseteq Needed(e)'
    BY <2>2, <2>3 DEF Needed
  <2>7. Lent(k)' = Lent(k) \cup ({d} \X (1..n))
    BY <2>3 DEF Lent
  <2>8. \A i \in Nat : <<d, i>> \notin Lent(k)
    BY <2>2 DEF Lent
  <2>9. IsFiniteSet(Lent(k)') /\ Cardinality(Lent(k)') = Cardinality(Lent(k)) + n /\ Cardinality(Lent(k)) \in Nat
    <3>1. IsFiniteSet(Lent(k))
      BY <2>2
    <3> HIDE DEF n, KitchenInv
    <3> QED
      BY <2>4, <2>7, <2>8, <3>1, PermitsCounted
  <2>10. ASSUME NEW j \in Tools PROVE IsFiniteSet(Lent(j)') /\ sem'[j] + Cardinality(Lent(j)') = Quantity[j]
    <3>1. CASE j = k
      BY <2>2, <2>3, <2>4, <2>9, <3>1
    <3>2. CASE j # k
      <4>1. Lent(j)' = Lent(j)
        BY <2>3, <3>2 DEF Lent
      <4> QED
        BY <2>2, <2>3, <3>2, <4>1
    <3> QED
      BY <3>1, <3>2
  <2>11. line' \in [Tools -> Seq(Dishes)]
    <3>1. line[k] \in Seq(Dishes)
      BY <2>2
    <3>2. Parked(d, k) => Tail(line[k]) \in Seq(Dishes)
      BY <3>1 DEF Parked
    <3> QED
      BY <2>3, <3>1, <3>2
  <2> QED
    BY <2>3, <2>5, <2>6, <2>10, <2>11
<1>3. CASE JoinLine(d)
  <2>1. PICK k : UNCHANGED <<cook, held, sem>> /\ line' = [line EXCEPT ![k] = Append(line[k], d)]
    BY <1>3 DEF JoinLine
  <2>2. line' \in [Tools -> Seq(Dishes)]
    <3>1. k \in Tools => Append(line[k], d) \in Seq(Dishes)
      OBVIOUS
    <3> QED
      BY <2>1, <3>1
  <2> QED
    BY <2>1, <2>2, KitchenKept
<1>4. CASE PutBackTool(d)
  <2>1. PICK k : k = Min(held[d])
    OBVIOUS
  <2>2. k \in held[d] /\ k \in Tools
    BY <1>0, <1>4, <2>1, LeastOf DEF PutBackTool
  <2> DEFINE n == Need[d][k]
  <2>3. /\ sem' = [sem EXCEPT ![k] = @ + n]
        /\ held' = [held EXCEPT ![d] = @ \ {k}] /\ UNCHANGED <<cook, line>>
    BY <1>4, <2>1 DEF PutBackTool
  <2>4. n \in Nat /\ sem[k] \in Nat
    BY <1>0, <2>2
  <2>5. sem' \in [Tools -> Nat] /\ held' \in [Dishes -> SUBSET Tools]
    BY <2>2, <2>3, <2>4
  <2>6. \A e \in Dishes : held'[e] \subseteq Needed(e)'
    BY <2>2, <2>3 DEF Needed
  <2>7. Lent(k) = Lent(k)' \cup ({d} \X (1..n)) /\ Lent(k)' \subseteq Lent(k)
    BY <2>2, <2>3 DEF Lent
  <2>8. \A i \in Nat : <<d, i>> \notin Lent(k)'
    BY <2>2, <2>3 DEF Lent
  <2>9. IsFiniteSet(Lent(k)') /\ Cardinality(Lent(k)) = Cardinality(Lent(k)') + n /\ Cardinality(Lent(k)') \in Nat
    <3>1. IsFiniteSet(Lent(k)) /\ IsFiniteSet(Lent(k)')
      BY <2>2, <2>7, FS_Subset
    <3> HIDE DEF n, KitchenInv
    <3> QED
      BY <2>4, <2>7, <2>8, <3>1, PermitsCounted
  <2>10. ASSUME NEW j \in Tools PROVE IsFiniteSet(Lent(j)') /\ sem'[j] + Cardinality(Lent(j)') = Quantity[j]
    <3>1. CASE j = k
      BY <2>2, <2>3, <2>4, <2>9, <3>1
    <3>2. CASE j # k
      <4>1. Lent(j)' = Lent(j)
        BY <2>3, <3>2 DEF Lent
      <4> QED
        BY <2>2, <2>3, <3>2, <4>1
    <3> QED
      BY <3>1, <3>2
  <2> QED
    BY <2>3, <2>5, <2>6, <2>10
<1> QED
  BY <1>1, <1>2, <1>3, <1>4 DEF CookStep

(* All permits of a tool are in its semaphore or lent. *)
LEMMA PermitsInRange ==
  ASSUME KitchenInv, NEW k \in Tools
  PROVE  sem[k] \in 0..Quantity[k]
<1>1. sem[k] \in Nat /\ IsFiniteSet(Lent(k)) /\ sem[k] + Cardinality(Lent(k)) = Quantity[k]
  BY DEF KitchenInv
<1>2. Cardinality(Lent(k)) \in Nat
  BY <1>1, FS_CardinalityType
<1> QED
  BY <1>1, <1>2

-----------------------------------------------------------------------------
(* The types; the management has an order to give until it stops, a chef     *)
(* that polls has counted an order, one that deducts is at a future, and no   *)
(* pressure that is written, or was read to be written, is above endurance.   *)
MgmtTypes ==
  /\ mgmt \in {"loop", "scan", "take", "add", "notify", "bell", "wait", "stop", "stopNotify",
               "await", "awaitGuys", "ended"}
  /\ next \in Chefs /\ seen \in Int
  /\ bell \in BOOLEAN /\ clash \in BOOLEAN /\ raced \in BOOLEAN
  /\ orders \in Seq(Orders)
  /\ mgmt \in {"scan", "take", "add", "notify", "bell", "wait"} => orders # <<>>
  /\ mgmt = "take" => seen + Difficulty[Head(orders)] <= Endurance[next]
ChefTypes ==
  /\ chef \in [Chefs -> {"loop", "polling", "look", "deduct", "ring", "ringNotify",
                         "wait", "done", "dead"}]
  /\ look \in [Chefs -> Nat \ {0}] /\ read \in [Chefs -> Int] /\ reduced \in [Chefs -> BOOLEAN]
  /\ pressure \in [Chefs -> Int] /\ stop \in [Chefs -> BOOLEAN]
  /\ pending \in [Chefs -> Seq(Orders)] /\ size \in [Chefs -> Nat] /\ futures \in [Chefs -> Seq(Orders)]
  /\ \A c \in Chefs :
       /\ pressure[c] <= Endurance[c] /\ read[c] <= Endurance[c]
       /\ chef[c] = "polling" => size[c] # 0
       /\ chef[c] = "deduct" => look[c] <= Len(futures[c])
OrderTypes ==
  /\ order \in [Orders -> {"none", "cooking", "notified", "done"}]
  /\ queue \in Seq(Orders \cup {Poison}) /\ guy \in [Guys -> Orders \cup {"take", "done"}]
  /\ delivered \subseteq Orders
Types == MgmtTypes /\ ChefTypes /\ OrderTypes /\ KitchenInv

LEMMA ChefNumbers ==
  /\ Chefs = 1..NChefs /\ NChefs \in Nat /\ 1 \in Chefs
  /\ \A c \in Chefs : Endurance[c] \in Nat
<1>1. Endurance \in Seq(Nat) /\ Endurance # << >>
  BY OrdersAssumption
<1>2. Chefs = 1..NChefs /\ NChefs \in Nat \ {0}
  BY <1>1 DEF Chefs, NChefs
<1> QED
  BY <1>1, <1>2 DEF NChefs

LEMMA RemoveAtFacts ==
  ASSUME NEW S, NEW s \in Seq(S), NEW i \in 1..Len(s)
  PROVE  /\ RemoveAt(s, i) \in Seq(S) /\ Len(RemoveAt(s, i)) = Len(s) - 1
         /\ \A j \in 1..(Len(s) - 1) : RemoveAt(s, i)[j] = IF j < i THEN s[j] ELSE s[j + 1]
<1> DEFINE a == SubSeq(s, 1, i - 1)
           b == SubSeq(s, i + 1, Len(s))
<1>1. /\ a \in Seq(S) /\ b \in Seq(S) /\ Len(a) = i - 1 /\ Len(b) = Len(s) - i
      /\ (\A j \in 1..(i - 1) : a[j] = s[j]) /\ (\A j \in 1..(Len(s) - i) : b[j] = s[i + j])
  OBVIOUS
<1>2. Len(s) \in Nat /\ i \in Nat /\ RemoveAt(s, i) = a \o b
  BY DEF RemoveAt
<1> HIDE DEF a, b
<1>3. /\ a \o b \in Seq(S) /\ Len(a \o b) = Len(a) + Len(b)
      /\ \A j \in 1..(Len(a) + Len(b)) : (a \o b)[j] = IF j <= Len(a) THEN a[j] ELSE b[j - Len(a)]
  BY <1>1, ConcatProperties
<1>4. ASSUME NEW j \in 1..(Len(s) - 1)
      PROVE  (a \o b)[j] = IF j < i THEN s[j] ELSE s[j + 1]
  <2>1. j \in 1..(Len(a) + Len(b))
    BY <1>1, <1>2
  <2>2. CASE j < i
    BY <1>1, <1>2, <1>3, <2>1, <2>2
  <2>3. CASE ~(j < i)
    <3>1. j - Len(a) \in 1..(Len(s) - i) /\ i + (j - Len(a)) = j + 1 /\ ~(j <= Len(a))
      BY <1>1, <1>2, <2>1, <2>3
    <3>2. (a \o b)[j] = b[j - Len(a)]
      BY <1>3, <2>1, <3>1
    <3> QED
      BY <1>1, <2>3, <3>1, <3>2
  <2> QED
    BY <2>2, <2>3
<1>5. Len(a \o b) = Len(s) - 1
  BY <1>1, <1>2, <1>3
<1> QED
  BY <1>2, <1>3, <1>4, <1>5

LEMMA NotifyTypes ==
  ASSUME ChefTypes, NEW c \in Chefs, Notify(c),
         UNCHANGED <<chefVars, pressure, stop, pending, size>>
  PROVE  ChefTypes'
BY DEF ChefTypes, Notify, chefVars

LEMMA MgmtTypesKept ==
  ASSUME MgmtTypes, UNCHANGED <<next, seen, orders, mgmt>>, bell' \in BOOLEAN, clash' \in BOOLEAN, raced' \in BOOLEAN
  PROVE  MgmtTypes'
BY DEF MgmtTypes

LEMMA OrderTypesKept ==
  ASSUME OrderTypes, UNCHANGED <<order, deliveryVars>>
  PROVE  OrderTypes'
BY DEF OrderTypes, deliveryVars

LEMMA ChefTypesKept ==
  ASSUME ChefTypes, UNCHANGED <<chef, chefVars, pressure, stop, pending, size>>
  PROVE  ChefTypes'
BY DEF ChefTypes, chefVars

LEMMA KitchenStands ==
  ASSUME KitchenInv, UNCHANGED kitchenVars
  PROVE  KitchenInv'
BY KitchenKept DEF KitchenInv, kitchenVars

LEMMA HeadOrder ==
  ASSUME MgmtTypes, orders # <<>>
  PROVE  Head(orders) \in Orders /\ Tail(orders) \in Seq(Orders) /\ Difficulty[Head(orders)] \in Nat
BY OrdersAssumption DEF MgmtTypes

LEMMA MgmtTypesStep ==
  ASSUME Types, Mgmt
  PROVE  Types'
<1> USE DEF Types
<1>1. CASE MgmtLoop
  <2>1. MgmtTypes'
    BY <1>1 DEF MgmtLoop, MgmtTypes
  <2> QED
    BY <1>1, <2>1, ChefTypesKept, OrderTypesKept, KitchenStands DEF MgmtLoop
<1>2. CASE MgmtAsk
  <2>1. MgmtTypes'
    <3>1. /\ mgmt = "scan" /\ orders # <<>> /\ UNCHANGED <<orders, clash, bell, raced>>
          /\ pressure[next] \in Int /\ Endurance[next] \in Nat /\ Difficulty[Head(orders)] \in Nat
      BY <1>2, HeadOrder, ChefNumbers DEF MgmtAsk, MgmtTypes, ChefTypes
    <3>2. CASE Difficulty[Head(orders)] <= Endurance[next] - pressure[next]
      BY <1>2, <3>1, <3>2 DEF MgmtAsk, MgmtTypes
    <3>3. CASE ~(Difficulty[Head(orders)] <= Endurance[next] - pressure[next])
      <4>1. next' \in Chefs /\ mgmt' \in {"bell", "scan"} /\ seen' = seen
        BY <1>2, <3>1, <3>3, ChefNumbers DEF MgmtAsk, MgmtTypes
      <4> QED
        BY <3>1, <4>1 DEF MgmtTypes
    <3> QED
      BY <3>2, <3>3
  <2> QED
    BY <1>2, <2>1, ChefTypesKept, OrderTypesKept, KitchenStands DEF MgmtAsk
<1>3. CASE MgmtTake
  <2>1. /\ orders # <<>> /\ Difficulty[Head(orders)] \in Nat /\ seen + Difficulty[Head(orders)] <= Endurance[next]
        /\ seen \in Int /\ next \in Chefs
    BY <1>3, HeadOrder DEF MgmtTake, MgmtTypes
  <2>2. MgmtTypes'
    BY <1>3, <2>1 DEF MgmtTake, MgmtTypes
  <2>3. ChefTypes'
    <3>1. /\ pressure' = [pressure EXCEPT ![next] = seen + Difficulty[Head(orders)]]
          /\ UNCHANGED <<chef, chefVars, stop, pending, size>>
      BY <1>3 DEF MgmtTake
    <3>2. pressure' \in [Chefs -> Int] /\ \A c \in Chefs : pressure'[c] <= Endurance[c]
      BY <2>1, <3>1 DEF ChefTypes
    <3> QED
      BY <3>1, <3>2 DEF ChefTypes, chefVars
  <2> QED
    BY <1>3, <2>2, <2>3, OrderTypesKept, KitchenStands DEF MgmtTake
<1>4. CASE MgmtAdd
  <2>1. PICK list \in {Append(pending[next], Head(orders)), pending[next]}, n \in {0, 1, 2} :
           /\ pending' = [pending EXCEPT ![next] = list] /\ size' = [size EXCEPT ![next] = @ + n]
           /\ raced' \in BOOLEAN
    BY <1>4 DEF MgmtAdd, MgmtTypes
  <2>2. mgmt = "add" /\ mgmt' = "notify" /\ clash' = FALSE
        /\ UNCHANGED <<next, seen, orders, chefVars, deliveryVars, kitchenVars, bell, chef, pressure, stop, order>>
    BY <1>4 DEF MgmtAdd
  <2>3. Head(orders) \in Orders /\ orders # <<>> /\ next \in Chefs
    BY <2>2, HeadOrder DEF MgmtTypes
  <2>4. list \in Seq(Orders)
    <3>1. pending[next] \in Seq(Orders)
      BY <2>3 DEF ChefTypes
    <3> QED
      BY <2>3, <3>1
  <2>5. MgmtTypes'
    BY <2>1, <2>2, <2>3 DEF MgmtTypes
  <2>6. size' \in [Chefs -> Nat] /\ pending' \in [Chefs -> Seq(Orders)]
    BY <2>1, <2>3, <2>4 DEF ChefTypes
  <2>7. \A c \in Chefs : size[c] # 0 => size'[c] # 0
    BY <2>1, <2>3 DEF ChefTypes
  <2>8. ChefTypes'
    BY <2>2, <2>6, <2>7 DEF ChefTypes, chefVars
  <2> QED
    BY <2>2, <2>5, <2>8, OrderTypesKept, KitchenStands
<1>5. CASE MgmtNotify
  <2>1. orders # <<>> /\ Tail(orders) \in Seq(Orders)
    BY <1>5, HeadOrder DEF MgmtNotify, MgmtTypes
  <2>2. MgmtTypes'
    BY <1>5, <2>1, ChefNumbers DEF MgmtNotify, MgmtTypes
  <2>3. ChefTypes'
    BY <1>5, NotifyTypes DEF MgmtNotify, MgmtTypes
  <2> QED
    BY <1>5, <2>2, <2>3, OrderTypesKept, KitchenStands DEF MgmtNotify
<1>6. CASE MgmtBell
  <2>1. MgmtTypes'
    BY <1>6 DEF MgmtBell, MgmtTypes
  <2> QED
    BY <1>6, <2>1, ChefTypesKept, OrderTypesKept, KitchenStands DEF MgmtBell
<1>7. CASE MgmtStop
  <2>1. MgmtTypes' /\ ChefTypes'
    BY <1>7 DEF MgmtStop, MgmtTypes, ChefTypes, chefVars
  <2> QED
    BY <1>7, <2>1, OrderTypesKept, KitchenStands DEF MgmtStop
<1>8. CASE MgmtStopNotify
  <2>1. MgmtTypes'
    BY <1>8, ChefNumbers DEF MgmtStopNotify, MgmtTypes
  <2>2. ChefTypes'
    BY <1>8, NotifyTypes DEF MgmtStopNotify, MgmtTypes
  <2> QED
    BY <1>8, <2>1, <2>2, OrderTypesKept, KitchenStands DEF MgmtStopNotify
<1>9. CASE MgmtPoison
  <2>1. Poisons \in Seq(Orders \cup {Poison})
    <3>1. Cardinality(Guys) \in Nat
      BY OrdersAssumption, FS_CardinalityType
    <3> QED
      BY <3>1 DEF Poisons
  <2>2. MgmtTypes'
    BY <1>9 DEF MgmtPoison, MgmtTypes
  <2>3. OrderTypes'
    BY <1>9, <2>1 DEF MgmtPoison, OrderTypes
  <2> QED
    BY <1>9, <2>2, <2>3, ChefTypesKept, KitchenStands DEF MgmtPoison
<1>10. CASE MgmtEnd
  <2>1. MgmtTypes'
    BY <1>10 DEF MgmtEnd, MgmtTypes
  <2> QED
    BY <1>10, <2>1, ChefTypesKept, OrderTypesKept, KitchenStands DEF MgmtEnd
<1> QED
  BY <1>1, <1>2, <1>3, <1>4, <1>5, <1>6, <1>7, <1>8, <1>9, <1>10 DEF Mgmt

LEMMA ChefTypesStep ==
  ASSUME Types, NEW c \in Chefs, Chef(c)
  PROVE  Types'
<1> USE DEF Types
<1>1. CASE ChefLoop(c)
  <2>1. MgmtTypes'
    BY <1>1, MgmtTypesKept DEF ChefLoop, mgmtVars, MgmtTypes
  <2>2. ChefTypes'
    BY <1>1 DEF ChefLoop, ChefTypes, chefVars
  <2> QED
    BY <1>1, <2>1, <2>2, OrderTypesKept, KitchenStands DEF ChefLoop
<1>2. CASE ChefPoll(c)
  <2>1. /\ pending[c] # <<>> /\ chef[c] = "polling" /\ size[c] \in Nat \ {0} /\ pending[c] \in Seq(Orders)
        /\ Head(pending[c]) \in Orders /\ Tail(pending[c]) \in Seq(Orders)
    BY <1>2 DEF ChefPoll, ChefTypes
  <2>2. MgmtTypes'
    BY <1>2, MgmtTypesKept DEF ChefPoll, MgmtTypes
  <2>3. ChefTypes'
    <3>1. /\ pending' = [pending EXCEPT ![c] = Tail(pending[c])] /\ size' = [size EXCEPT ![c] = size[c] - 1]
          /\ futures' = [futures EXCEPT ![c] = Append(futures[c], Head(pending[c]))]
          /\ chef' = [chef EXCEPT ![c] = "look"] /\ UNCHANGED <<look, read, reduced, pressure, stop>>
      BY <1>2 DEF ChefPoll
    <3>2. pending' \in [Chefs -> Seq(Orders)] /\ size' \in [Chefs -> Nat] /\ futures' \in [Chefs -> Seq(Orders)]
      BY <2>1, <3>1 DEF ChefTypes
    <3> QED
      BY <3>1, <3>2 DEF ChefTypes
  <2>4. OrderTypes'
    BY <1>2, <2>1 DEF ChefPoll, OrderTypes, deliveryVars
  <2>5. KitchenInv'
    <3>1. cook' \in [Dishes -> {"none", "take", "putBack", "done"}] /\ UNCHANGED <<held, sem, line>>
      BY <1>2 DEF ChefPoll, StartCooking, KitchenInv
    <3> QED
      BY <3>1, KitchenKept DEF KitchenInv
  <2> QED
    BY <2>2, <2>3, <2>4, <2>5
<1>3. CASE ChefDies(c)
  <2>1. MgmtTypes'
    BY <1>3, MgmtTypesKept DEF ChefDies, mgmtVars, MgmtTypes
  <2>2. ChefTypes'
    BY <1>3 DEF ChefDies, ChefTypes, chefVars
  <2> QED
    BY <1>3, <2>1, <2>2, OrderTypesKept, KitchenStands DEF ChefDies
<1>4. CASE ChefLook(c)
  <2>1. MgmtTypes'
    BY <1>4, MgmtTypesKept DEF ChefLook, mgmtVars, MgmtTypes
  <2>2. ChefTypes'
    <3>0. UNCHANGED <<reduced, futures, pressure, stop, pending, size>> /\ chef[c] = "look"
          /\ look[c] \in Nat \ {0} /\ Len(futures[c]) \in Nat
      BY <1>4 DEF ChefLook, ChefTypes
    <3>1. CASE look[c] > Len(futures[c])
      <4>1. chef' = [chef EXCEPT ![c] = IF reduced[c] THEN "ring" ELSE "wait"]
            /\ look' = [look EXCEPT ![c] = 1] /\ read' = read
        BY <1>4, <3>1 DEF ChefLook
      <4> QED
        BY <3>0, <4>1 DEF ChefTypes
    <3>2. CASE ~(look[c] > Len(futures[c])) /\ order[futures[c][look[c]]] = "done"
      <4>1. chef' = [chef EXCEPT ![c] = "deduct"] /\ read' = [read EXCEPT ![c] = pressure[c]] /\ look' = look
        BY <1>4, <3>2 DEF ChefLook
      <4>2. look[c] <= Len(futures[c])
        BY <3>0, <3>2
      <4> QED
        BY <3>0, <4>1, <4>2 DEF ChefTypes
    <3>3. CASE ~(look[c] > Len(futures[c])) /\ order[futures[c][look[c]]] # "done"
      <4>1. look' = [look EXCEPT ![c] = look[c] + 1] /\ UNCHANGED <<chef, read>>
        BY <1>4, <3>3 DEF ChefLook
      <4> QED
        BY <3>0, <4>1 DEF ChefTypes
    <3> QED
      BY <3>1, <3>2, <3>3
  <2> QED
    BY <1>4, <2>1, <2>2, OrderTypesKept, KitchenStands DEF ChefLook
<1>5. CASE ChefDeduct(c)
  <2> DEFINE o == futures[c][look[c]]
  <2>1. /\ look[c] \in 1..Len(futures[c]) /\ futures[c] \in Seq(Orders) /\ read[c] \in Int
        /\ read[c] <= Endurance[c] /\ Endurance[c] \in Nat
    <3>1. chef[c] = "deduct" /\ look[c] \in Nat \ {0} /\ look[c] <= Len(futures[c]) /\ futures[c] \in Seq(Orders)
          /\ read[c] \in Int /\ read[c] <= Endurance[c]
      BY <1>5 DEF ChefDeduct, ChefTypes
    <3> QED
      BY <3>1, ChefNumbers
  <2>2. o \in Orders /\ Difficulty[o] \in Nat
    BY <2>1, OrdersAssumption
  <2>3. RemoveAt(futures[c], look[c]) \in Seq(Orders)
    BY <2>1, RemoveAtFacts
  <2>4. /\ pressure' = [pressure EXCEPT ![c] = read[c] - Difficulty[o]] /\ raced' \in BOOLEAN
        /\ futures' = [futures EXCEPT ![c] = RemoveAt(futures[c], look[c])]
        /\ reduced' = [reduced EXCEPT ![c] = TRUE] /\ read' = [read EXCEPT ![c] = 0]
        /\ queue' = Append(queue, o) /\ chef' = [chef EXCEPT ![c] = "look"]
        /\ UNCHANGED <<mgmtVars, look, guy, delivered, kitchenVars, bell, stop, pending, size, order>>
    BY <1>5 DEF ChefDeduct, MgmtTypes
  <2> HIDE DEF o
  <2>5. MgmtTypes'
    BY <2>4, MgmtTypesKept DEF mgmtVars, MgmtTypes
  <2>6. ChefTypes'
    <3>1. read[c] - Difficulty[o] \in Int /\ read[c] - Difficulty[o] <= Endurance[c] /\ 0 <= Endurance[c]
      BY <2>1, <2>2
    <3>2. pressure' \in [Chefs -> Int] /\ \A d \in Chefs : pressure'[d] <= Endurance[d] /\ read'[d] <= Endurance[d]
      BY <2>4, <3>1 DEF ChefTypes
    <3>3. /\ futures' \in [Chefs -> Seq(Orders)] /\ read' \in [Chefs -> Int] /\ reduced' \in [Chefs -> BOOLEAN]
          /\ \A d \in Chefs \ {c} : futures'[d] = futures[d] /\ chef'[d] = chef[d]
          /\ chef'[c] = "look"
      BY <2>3, <2>4 DEF ChefTypes
    <3>4. chef' \in [Chefs -> {"loop", "polling", "look", "deduct", "ring", "ringNotify", "wait", "done", "dead"}]
      BY <2>4 DEF ChefTypes
    <3> QED
      BY <2>4, <3>2, <3>3, <3>4 DEF ChefTypes
  <2>7. OrderTypes'
    BY <2>2, <2>4 DEF OrderTypes
  <2> QED
    BY <2>4, <2>5, <2>6, <2>7, KitchenStands
<1>6. CASE ChefRing(c)
  <2>1. MgmtTypes'
    BY <1>6, MgmtTypesKept DEF ChefRing, mgmtVars, MgmtTypes
  <2>2. ChefTypes'
    BY <1>6 DEF ChefRing, ChefTypes, chefVars
  <2> QED
    BY <1>6, <2>1, <2>2, OrderTypesKept, KitchenStands DEF ChefRing
<1>7. CASE ChefRingNotify(c)
  <2>1. MgmtTypes'
    BY <1>7 DEF ChefRingNotify, MgmtTypes
  <2>2. ChefTypes'
    BY <1>7 DEF ChefRingNotify, ChefTypes
  <2> QED
    BY <1>7, <2>1, <2>2, OrderTypesKept, KitchenStands DEF ChefRingNotify
<1> QED
  BY <1>1, <1>2, <1>3, <1>4, <1>5, <1>6, <1>7 DEF Chef

LEMMA OthersTypesStep ==
  ASSUME Types, Cooks \/ Delivery \/ Spurious
  PROVE  Types'
<1> USE DEF Types
<1>1. ASSUME NEW o \in Orders, CookWholeOrder(o) PROVE Types'
  <2>1. PICK c \in Chefs : Notify(c)
    BY <1>1 DEF CookWholeOrder
  <2>2. MgmtTypes' /\ ChefTypes'
    BY <1>1, <2>1, MgmtTypesKept, NotifyTypes DEF CookWholeOrder, MgmtTypes, mgmtVars
  <2>3. OrderTypes'
    BY <1>1 DEF CookWholeOrder, OrderTypes, deliveryVars
  <2> QED
    BY <1>1, <2>2, <2>3, KitchenStands DEF CookWholeOrder
<1>2. ASSUME NEW o \in Orders, FutureDone(o) PROVE Types'
  <2>1. MgmtTypes' /\ ChefTypes'
    BY <1>2, MgmtTypesKept, ChefTypesKept DEF FutureDone, MgmtTypes, mgmtVars
  <2>2. OrderTypes'
    BY <1>2 DEF FutureDone, OrderTypes, deliveryVars
  <2> QED
    BY <1>2, <2>1, <2>2, KitchenStands DEF FutureDone
<1>3. ASSUME NEW d \in Dishes, Cook(d) PROVE Types'
  <2>1. MgmtTypes' /\ ChefTypes' /\ OrderTypes'
    BY <1>3, MgmtTypesKept, ChefTypesKept, OrderTypesKept DEF Cook, MgmtTypes, mgmtVars
  <2> QED
    BY <1>3, <2>1, CookStepKeeps DEF Cook
<1>4. ASSUME NEW g \in Guys, GuyTake(g) \/ GuyDeliver(g) PROVE Types'
  <2>1. MgmtTypes' /\ ChefTypes' /\ KitchenInv'
    BY <1>4, MgmtTypesKept, ChefTypesKept, KitchenStands DEF GuyTake, GuyDeliver, MgmtTypes, mgmtVars
  <2>2. OrderTypes'
    BY <1>4 DEF GuyTake, GuyDeliver, OrderTypes
  <2> QED
    BY <2>1, <2>2
<1>5. CASE Spurious
  <2>1. MgmtTypes'
    BY <1>5 DEF Spurious, MgmtTypes
  <2>2. ChefTypes'
    BY <1>5, ChefTypesKept, NotifyTypes DEF Spurious
  <2> QED
    BY <1>5, <2>1, <2>2, OrderTypesKept, KitchenStands DEF Spurious
<1> QED
  BY <1>1, <1>2, <1>3, <1>4, <1>5 DEF Cooks, Delivery

LEMMA InitTypes == Init => Types
<1> SUFFICES ASSUME Init PROVE Types
  OBVIOUS
<1>1. MgmtTypes
  <2>1. OrderList \in Seq(Orders) /\ 1 \in Chefs
    BY OrdersAssumption, ChefNumbers
  <2>2. mgmt = "loop" /\ next = 1 /\ seen = 0 /\ orders \in Seq(Orders)
    BY <2>1 DEF Init
  <2>3. bell \in BOOLEAN /\ clash \in BOOLEAN /\ raced \in BOOLEAN
    BY DEF Init
  <2> QED
    BY <2>1, <2>2, <2>3 DEF MgmtTypes
<1>2. ChefTypes
  BY ChefNumbers DEF Init, ChefTypes
<1>3. OrderTypes
  BY DEF Init, OrderTypes
<1> QED
  BY <1>1, <1>2, <1>3, KitchenInvInit DEF Init, Types

LEMMA NextTypes == Types /\ [Next]_vars => Types'
<1> SUFFICES ASSUME Types, [Next]_vars PROVE Types'
  OBVIOUS
<1>1. CASE UNCHANGED vars
  BY <1>1, MgmtTypesKept, ChefTypesKept, OrderTypesKept, KitchenStands DEF vars, mgmtVars, Types, MgmtTypes
<1> QED
  BY <1>1, MgmtTypesStep, ChefTypesStep, OthersTypesStep DEF Next, Ended

LEMMA TypesAlways == Spec => []Types
BY InitTypes, NextTypes, PTL DEF Spec

(* What the races leave behind. *)
RaceTypes == broken \subseteq Chefs /\ overwrote \in BOOLEAN

LEMMA NextRaceTypes == Types /\ RaceTypes /\ [Next]_vars => RaceTypes'
<1> SUFFICES ASSUME Types, RaceTypes, [Next]_vars PROVE RaceTypes'
  OBVIOUS
<1> USE DEF RaceTypes
<1>1. CASE MgmtAdd
  <2>1. next \in Chefs
    BY DEF Types, MgmtTypes
  <2> QED
    BY <1>1, <2>1 DEF MgmtAdd
<1>2. CASE MgmtTake
  BY <1>2 DEF MgmtTake
<1>3. ASSUME NEW c \in Chefs, Chef(c) PROVE RaceTypes'
  BY <1>3 DEF Chef, ChefLoop, ChefPoll, ChefDies, ChefLook, ChefDeduct, ChefRing, ChefRingNotify
<1>4. CASE MgmtLoop \/ MgmtAsk \/ MgmtNotify \/ MgmtBell \/ MgmtStop \/ MgmtStopNotify \/ MgmtPoison \/ MgmtEnd
  BY <1>4 DEF MgmtLoop, MgmtAsk, MgmtNotify, MgmtBell, MgmtStop, MgmtStopNotify, MgmtPoison, MgmtEnd
<1>5. CASE UNCHANGED vars \/ Cooks \/ Delivery \/ Spurious \/ Ended
  BY <1>5 DEF vars, Cooks, Cook, CookWholeOrder, FutureDone, Delivery, GuyTake, GuyDeliver, Spurious, Ended
<1> QED
  BY <1>1, <1>2, <1>3, <1>4, <1>5 DEF Next, Mgmt

LEMMA RaceTypesAlways == Spec => []RaceTypes
<1>1. Init => RaceTypes
  BY DEF Init, RaceTypes
<1> QED
  BY <1>1, NextRaceTypes, TypesAlways, PTL DEF Spec

(* The restaurant keeps its types; what is written over in a race on a        *)
(* pressure leaves no chef above its endurance, and the tools of the kitchen  *)
(* are in the warehouse or lent, none more often than there are               *)
(* (KitchenTool.java, Warehouse.java).                                       *)
THEOREM RestaurantTypeCorrect == Spec => []TypeOK
<1>1. Types /\ RaceTypes => TypeOK
  <2> SUFFICES ASSUME Types, RaceTypes PROVE TypeOK
    OBVIOUS
  <2>2. \A S : \A s \in Seq(S) : Range(s) \subseteq S
    BY RangeOfSeq
  <2>3. Range(orders) \subseteq Orders /\ Range(queue) \subseteq Orders \cup {Poison}
        /\ \A c \in Chefs : Range(pending[c]) \cup Range(futures[c]) \subseteq Orders
    BY <2>2 DEF Types, MgmtTypes, ChefTypes, OrderTypes
  <2>1. \A k \in Tools : sem[k] \in 0..Quantity[k] /\ Range(line[k]) \subseteq Dishes
    BY <2>2, PermitsInRange DEF Types, KitchenInv
  <2>4. \A c \in Chefs : /\ chef[c] \in {"loop", "polling", "look", "deduct", "ring", "ringNotify",
                                         "wait", "done", "dead"}
                         /\ pressure[c] <= Endurance[c] /\ size[c] >= 0
    BY DEF Types, ChefTypes
  <2> QED
    BY <2>1, <2>3, <2>4 DEF TypeOK, Types, RaceTypes, MgmtTypes, OrderTypes, KitchenInv
<1> QED
  BY <1>1, TypesAlways, RaceTypesAlways, PTL

-----------------------------------------------------------------------------
(* Who has an order: the management, a chef's list or futures, the queue of   *)
(* deliveries, a delivery person, or whoever ordered it.                      *)
Rest == IF mgmt = "notify" THEN Tail(orders) ELSE orders
Has(k, w, o) ==
  \/ k = "orders" /\ w = 0 /\ o \in Range(Rest)
  \/ k = "pending" /\ w \in Chefs /\ o \in Range(pending[w])
  \/ k = "futures" /\ w \in Chefs /\ o \in Range(futures[w])
  \/ k = "queue" /\ w = 0 /\ o \in Range(queue)
  \/ k = "guy" /\ w \in Guys /\ guy[w] = o
  \/ k = "delivered" /\ w = 0 /\ o \in delivered

Distinct(s) == \A i, j \in 1..Len(s) : s[i] = s[j] /\ s[i] # Poison => i = j
NoneTwice ==
  /\ Distinct(Rest) /\ Distinct(queue)
  /\ \A c \in Chefs : Distinct(pending[c]) /\ Distinct(futures[c])
OneHolder ==
  \A o \in Orders : \A k, w, l, v : Has(k, w, o) /\ Has(l, v, o) => k = l /\ w = v
Kept == ~raced => \A o \in Orders : \E k, w : Has(k, w, o)
OnceInv == NoneTwice /\ OneHolder /\ Kept

LEMMA DistinctTail ==
  ASSUME NEW S, NEW s \in Seq(S), s # <<>>, Distinct(s)
  PROVE  /\ Distinct(Tail(s)) /\ Head(s) \in Range(s)
         /\ \A o : o # Poison => (o \in Range(Tail(s)) <=> o \in Range(s) /\ o # Head(s))
<1>1. /\ Len(s) \in Nat \ {0} /\ DOMAIN s = 1..Len(s) /\ Head(s) = s[1]
      /\ Len(Tail(s)) = Len(s) - 1 /\ DOMAIN Tail(s) = 1..(Len(s) - 1)
      /\ \A i \in 1..(Len(s) - 1) : Tail(s)[i] = s[i + 1] /\ i + 1 \in 1..Len(s)
  OBVIOUS
<1>2. Distinct(Tail(s))
  BY <1>1 DEF Distinct
<1>3. Head(s) \in Range(s)
  BY <1>1 DEF Range
<1>4. ASSUME NEW o \in Range(Tail(s)), o # Poison PROVE o \in Range(s) /\ o # Head(s)
  <2>1. PICK i \in 1..(Len(s) - 1) : o = s[i + 1] /\ i + 1 \in 1..Len(s)
    BY <1>1 DEF Range
  <2>2. 1 \in 1..Len(s) /\ i + 1 # 1
    BY <1>1
  <2> QED
    BY <1>1, <1>4, <2>1, <2>2 DEF Range, Distinct
<1>5. ASSUME NEW o \in Range(s), o # Head(s) PROVE o \in Range(Tail(s))
  <2>1. PICK i \in 1..Len(s) : o = s[i]
    BY <1>1 DEF Range
  <2>2. i - 1 \in 1..(Len(s) - 1) /\ (i - 1) + 1 = i
    BY <1>1, <1>5, <2>1
  <2> QED
    BY <1>1, <2>1, <2>2 DEF Range
<1> QED
  BY <1>2, <1>3, <1>4, <1>5

LEMMA DistinctAppend ==
  ASSUME NEW S, NEW s \in Seq(S), NEW x \in S
  PROVE  /\ Distinct(s) /\ x \notin Range(s) => Distinct(Append(s, x))
         /\ \A o : o \in Range(Append(s, x)) <=> o \in Range(s) \/ o = x
<1>1. /\ Len(s) \in Nat /\ DOMAIN s = 1..Len(s) /\ Len(Append(s, x)) = Len(s) + 1
      /\ DOMAIN Append(s, x) = 1..(Len(s) + 1) /\ Append(s, x)[Len(s) + 1] = x
      /\ \A i \in 1..Len(s) : Append(s, x)[i] = s[i] /\ i \in 1..(Len(s) + 1)
  OBVIOUS
<1>2. Len(s) + 1 \in 1..(Len(s) + 1) /\ \A i \in 1..(Len(s) + 1) : i \in 1..Len(s) \/ i = Len(s) + 1
  BY <1>1
<1>3. Distinct(s) /\ x \notin Range(s) => Distinct(Append(s, x))
  BY <1>1, <1>2 DEF Distinct, Range
<1>4. ASSUME NEW o \in Range(Append(s, x)) PROVE o \in Range(s) \/ o = x
  BY <1>1, <1>2 DEF Range
<1>5. ASSUME NEW o, o \in Range(s) \/ o = x PROVE o \in Range(Append(s, x))
  BY <1>1, <1>2, <1>5 DEF Range
<1> QED
  BY <1>3, <1>4, <1>5

LEMMA DistinctRemove ==
  ASSUME NEW S, NEW s \in Seq(S), NEW i \in 1..Len(s), Distinct(s), s[i] # Poison
  PROVE  /\ Distinct(RemoveAt(s, i)) /\ s[i] \in Range(s)
         /\ \A o : o \in Range(RemoveAt(s, i)) <=> o \in Range(s) /\ o # s[i]
<1> DEFINE r == RemoveAt(s, i)
<1>1. r \in Seq(S) /\ Len(r) = Len(s) - 1 /\ Len(s) \in Nat /\ i \in Nat
      /\ DOMAIN s = 1..Len(s) /\ DOMAIN r = 1..(Len(s) - 1)
      /\ \A j \in 1..(Len(s) - 1) : r[j] = IF j < i THEN s[j] ELSE s[j + 1]
  BY RemoveAtFacts
<1> HIDE DEF r
<1>2. \A j \in 1..(Len(s) - 1) : \E m \in 1..Len(s) : r[j] = s[m] /\ m # i /\ m = (IF j < i THEN j ELSE j + 1)
  BY <1>1
<1>3. Distinct(r)
  <2> SUFFICES ASSUME NEW j \in 1..(Len(s) - 1), NEW k \in 1..(Len(s) - 1), r[j] = r[k], r[j] # Poison
               PROVE  j = k
    BY <1>1 DEF Distinct
  <2>1. PICK m \in 1..Len(s) : r[j] = s[m] /\ m = (IF j < i THEN j ELSE j + 1)
    BY <1>2
  <2>2. PICK n \in 1..Len(s) : r[k] = s[n] /\ n = (IF k < i THEN k ELSE k + 1)
    BY <1>2
  <2>3. m = n
    BY <2>1, <2>2 DEF Distinct
  <2> QED
    BY <1>1, <2>1, <2>2, <2>3
<1>4. ASSUME NEW o \in Range(r) PROVE o \in Range(s) /\ o # s[i]
  <2>1. PICK j \in 1..(Len(s) - 1) : o = r[j]
    BY <1>1 DEF Range
  <2>2. PICK m \in 1..Len(s) : o = s[m] /\ m # i
    BY <1>2, <2>1
  <2> QED
    BY <1>1, <2>2 DEF Range, Distinct
<1>5. ASSUME NEW o \in Range(s), o # s[i] PROVE o \in Range(r)
  <2>1. PICK m \in 1..Len(s) : o = s[m] /\ m # i
    BY <1>1, <1>5 DEF Range
  <2>2. CASE m < i
    BY <1>1, <2>1, <2>2 DEF Range
  <2>3. CASE m > i
    <3>1. m - 1 \in 1..(Len(s) - 1) /\ ~(m - 1 < i) /\ (m - 1) + 1 = m
      BY <1>1, <2>3
    <3> QED
      BY <1>1, <2>1, <3>1 DEF Range
  <2> QED
    BY <1>1, <2>1, <2>2, <2>3
<1>6. s[i] \in Range(s)
  BY <1>1 DEF Range
<1> QED
  BY <1>3, <1>4, <1>5, <1>6 DEF r

(* Order x moves from one holder to another, ... *)
Moves(x, k, w, l, v) ==
  /\ Has(k, w, x) /\ (k # l \/ w # v)
  /\ \A o \in Orders : \A m, u :
       Has(m, u, o)' <=> (Has(m, u, o) /\ ~(m = k /\ u = w /\ o = x)) \/ (m = l /\ u = v /\ o = x)

LEMMA OrderMoves ==
  ASSUME OneHolder, Kept, (raced => raced'), NEW x, NEW k, NEW w, NEW l, NEW v, Moves(x, k, w, l, v)
  PROVE  OneHolder' /\ Kept'
<1>1. OneHolder'
  BY DEF OneHolder, Moves
<1>2. Kept'
  <2> SUFFICES ASSUME ~raced', NEW o \in Orders PROVE \E m, u : Has(m, u, o)'
    BY DEF Kept
  <2>1. PICK m, u : Has(m, u, o)
    BY DEF Kept
  <2> QED
    BY <2>1 DEF Moves
<1> QED
  BY <1>1, <1>2

(* ... or nobody gets one. *)
LEMMA NoneMoves ==
  ASSUME OneHolder, Kept, raced => raced',
         \A o \in Orders : \A m, u : Has(m, u, o)' => Has(m, u, o),
         ~raced' => \A o \in Orders : \A m, u : Has(m, u, o) => Has(m, u, o)'
  PROVE  OneHolder' /\ Kept'
<1>1. OneHolder'
  BY DEF OneHolder
<1>2. Kept'
  <2> SUFFICES ASSUME ~raced', NEW o \in Orders PROVE \E m, u : Has(m, u, o)'
    BY DEF Kept
  <2>1. PICK m, u : Has(m, u, o)
    BY DEF Kept
  <2> QED
    BY <2>1
<1> QED
  BY <1>1, <1>2

LEMMA HeldStill ==
  ASSUME OnceInv, raced => raced', Rest' = Rest, UNCHANGED <<pending, futures, deliveryVars>>
  PROVE  OnceInv'
<1>1. \A o \in Orders : \A m, u : Has(m, u, o)' <=> Has(m, u, o)
  BY DEF Has, deliveryVars
<1>2. NoneTwice'
  BY DEF OnceInv, NoneTwice, Distinct, deliveryVars
<1> QED
  BY <1>1, <1>2, NoneMoves DEF OnceInv

LEMMA PoisonIsNone == Poison \notin Orders /\ "take" \notin Orders /\ "done" \notin Orders
BY OrdersAssumption

(* The management gives the next order to a chef. *)
LEMMA MgmtAddOnce ==
  ASSUME Types, OnceInv, MgmtAdd
  PROVE  OnceInv'
<1>1. orders \in Seq(Orders) /\ orders # <<>> /\ next \in Chefs /\ pending \in [Chefs -> Seq(Orders)]
      /\ Head(orders) \in Orders /\ pending[next] \in Seq(Orders)
  BY HeadOrder DEF Types, MgmtTypes, ChefTypes, MgmtAdd
<1> DEFINE x == Head(orders)
<1>2. PICK list \in {Append(pending[next], x), pending[next]} :
         /\ pending' = [pending EXCEPT ![next] = list]
         /\ (raced => raced') /\ (~raced' => list = Append(pending[next], x))
  BY DEF MgmtAdd
<1>3. mgmt = "add" /\ mgmt' = "notify" /\ UNCHANGED <<orders, futures, deliveryVars>>
  BY DEF MgmtAdd, chefVars
<1>4. Rest = orders /\ Rest' = Tail(orders)
  BY <1>3 DEF Rest
<1>5. /\ Distinct(Tail(orders)) /\ x \in Range(orders)
      /\ \A o \in Orders : o \in Range(Tail(orders)) <=> o \in Range(orders) /\ o # x
  <2>1. Distinct(orders)
    BY <1>4 DEF OnceInv, NoneTwice
  <2> QED
    BY <1>1, <2>1, DistinctTail, PoisonIsNone
<1>6. x \in Orders /\ x \notin Range(pending[next])
  BY <1>1, <1>4, <1>5 DEF OnceInv, OneHolder, Has
<1>7. /\ Distinct(pending[next]) /\ Distinct(Append(pending[next], x))
      /\ \A o : o \in Range(Append(pending[next], x)) <=> o \in Range(pending[next]) \/ o = x
  <2>1. Distinct(pending[next])
    BY <1>1 DEF OnceInv, NoneTwice
  <2> QED
    BY <1>1, <1>6, <2>1, DistinctAppend
<1> HIDE DEF x
<1>8. pending'[next] = list /\ \A c \in Chefs \ {next} : pending'[c] = pending[c]
  BY <1>1, <1>2
<1>9. NoneTwice'
  <2>1. Distinct(list)
    BY <1>2, <1>7
  <2>2. \A c \in Chefs : Distinct(pending[c])' /\ Distinct(futures[c])'
    BY <1>3, <1>8, <2>1 DEF OnceInv, NoneTwice, Distinct
  <2>3. Distinct(Rest)' /\ Distinct(queue)'
    BY <1>3, <1>4, <1>5 DEF OnceInv, NoneTwice, Distinct, deliveryVars
  <2> QED
    BY <2>2, <2>3 DEF NoneTwice
<1>10. OneHolder' /\ Kept'
  <2>1. CASE list = Append(pending[next], x)
    <3>2. Has("orders", 0, x)
      BY <1>4, <1>5 DEF Has
    <3>1. Moves(x, "orders", 0, "pending", next)
      <4>1. \A o \in Orders : o \in Range(Rest') <=> o \in Range(Rest) /\ o # x
        BY <1>4, <1>5
      <4>2. \A o, u : u \in Chefs => (o \in Range(pending'[u]) <=> o \in Range(pending[u]) \/ (u = next /\ o = x))
        BY <1>7, <1>8, <2>1
      <4>3. UNCHANGED <<futures, queue, guy, delivered>> /\ next \in Chefs
        BY <1>1, <1>3 DEF deliveryVars
      <4> QED
        BY <3>2, <4>1, <4>2, <4>3 DEF Has, Moves
    <3> QED
      BY <1>2, <3>1, <3>2, OrderMoves DEF OnceInv
  <2>2. CASE list # Append(pending[next], x)
    <3>1. \A o \in Orders : \A m, u : Has(m, u, o)' => Has(m, u, o)
      BY <1>1, <1>2, <1>3, <1>4, <1>5, <1>8, <2>2 DEF Has, deliveryVars
    <3> QED
      BY <1>2, <2>2, <3>1, NoneMoves DEF OnceInv
  <2> QED
    BY <2>1, <2>2
<1> QED
  BY <1>9, <1>10 DEF OnceInv

LEMMA MgmtOnce ==
  ASSUME Types, OnceInv, Mgmt
  PROVE  OnceInv'
<1>1. CASE MgmtAdd
  BY <1>1, MgmtAddOnce
<1>2. CASE MgmtNotify
  BY <1>2, HeldStill DEF MgmtNotify, Rest, chefVars
<1>3. CASE MgmtPoison
  <2>1. Rest' = Rest /\ UNCHANGED <<pending, futures, guy, delivered, raced>> /\ queue' = queue \o Poisons
    BY <1>3 DEF MgmtPoison, Rest, chefVars
  <2>2. queue \in Seq(Orders \cup {Poison}) /\ Poisons \in Seq(Orders \cup {Poison})
        /\ \A i \in 1..Len(Poisons) : Poisons[i] = Poison
    <3>1. Cardinality(Guys) \in Nat
      BY OrdersAssumption, FS_CardinalityType
    <3> QED
      BY <3>1 DEF Poisons, Types, OrderTypes
  <2>3. Range(queue \o Poisons) = Range(queue) \cup Range(Poisons) /\ Range(Poisons) \subseteq {Poison}
    BY <2>2, RangeConcatenation, RangeEquality
  <2>4. Distinct(queue \o Poisons)
    <3>1. /\ Len(queue) \in Nat /\ Len(Poisons) \in Nat /\ Len(queue \o Poisons) = Len(queue) + Len(Poisons)
          /\ \A i \in 1..(Len(queue) + Len(Poisons)) :
                (queue \o Poisons)[i] = IF i <= Len(queue) THEN queue[i] ELSE Poisons[i - Len(queue)]
      BY <2>2, ConcatProperties
    <3>2. \A i \in 1..(Len(queue) + Len(Poisons)) :
             (queue \o Poisons)[i] # Poison => i \in 1..Len(queue) /\ (queue \o Poisons)[i] = queue[i]
      BY <2>2, <3>1
    <3>3. Distinct(queue)
      BY DEF OnceInv, NoneTwice
    <3> QED
      BY <3>1, <3>2, <3>3 DEF Distinct
  <2>5. \A o \in Orders : \A m, u : Has(m, u, o)' <=> Has(m, u, o)
    BY <2>1, <2>3, PoisonIsNone DEF Has
  <2>6. NoneTwice'
    BY <2>1, <2>4 DEF OnceInv, NoneTwice, Distinct
  <2> QED
    BY <2>1, <2>5, <2>6, NoneMoves DEF OnceInv
<1>4. CASE MgmtLoop \/ MgmtAsk \/ MgmtTake \/ MgmtBell \/ MgmtStop \/ MgmtStopNotify \/ MgmtEnd
  <2>1. mgmt # "notify" /\ mgmt' # "notify" /\ UNCHANGED orders /\ (raced => raced')
    <3>1. CASE MgmtLoop \/ MgmtAsk
      BY <1>4, <3>1 DEF MgmtLoop, MgmtAsk
    <3>2. CASE MgmtTake
      BY <1>4, <3>2 DEF MgmtTake
    <3>3. CASE MgmtBell \/ MgmtEnd
      BY <1>4, <3>3 DEF MgmtBell, MgmtEnd
    <3>4. CASE MgmtStop \/ MgmtStopNotify
      BY <1>4, <3>4 DEF MgmtStop, MgmtStopNotify
    <3> QED
      BY <1>4, <3>1, <3>2, <3>3, <3>4
  <2>2. UNCHANGED <<pending, futures, deliveryVars>>
    BY <1>4 DEF MgmtLoop, MgmtAsk, MgmtTake, MgmtBell, MgmtStop, MgmtStopNotify, MgmtEnd, chefVars
  <2>3. Rest' = Rest
    BY <2>1 DEF Rest
  <2> QED
    BY <2>1, <2>2, <2>3, HeldStill
<1> QED
  BY <1>1, <1>2, <1>3, <1>4 DEF Mgmt

(* A chef takes an order off its list, to the futures, ... *)
LEMMA ChefPollOnce ==
  ASSUME Types, OnceInv, NEW c \in Chefs, ChefPoll(c)
  PROVE  OnceInv'
<1> DEFINE x == Head(pending[c])
<1>1. /\ pending[c] \in Seq(Orders) /\ pending[c] # <<>> /\ futures[c] \in Seq(Orders) /\ x \in Orders
      /\ pending \in [Chefs -> Seq(Orders)] /\ futures \in [Chefs -> Seq(Orders)]
  BY DEF Types, ChefTypes, ChefPoll
<1>2. /\ pending' = [pending EXCEPT ![c] = Tail(pending[c])]
      /\ futures' = [futures EXCEPT ![c] = Append(futures[c], x)]
      /\ Rest' = Rest /\ UNCHANGED <<deliveryVars, raced>>
  BY DEF ChefPoll, Rest
<1>3. Distinct(pending[c]) /\ Distinct(futures[c])
  BY DEF OnceInv, NoneTwice
<1>4. /\ Distinct(Tail(pending[c])) /\ x \in Range(pending[c])
      /\ \A o \in Orders : o \in Range(Tail(pending[c])) <=> o \in Range(pending[c]) /\ o # x
  BY <1>1, <1>3, DistinctTail, PoisonIsNone
<1>5. x \notin Range(futures[c])
  BY <1>1, <1>4 DEF OnceInv, OneHolder, Has
<1>6. /\ Distinct(Append(futures[c], x))
      /\ \A o : o \in Range(Append(futures[c], x)) <=> o \in Range(futures[c]) \/ o = x
  BY <1>1, <1>3, <1>5, DistinctAppend
<1> HIDE DEF x
<1>7. /\ pending'[c] = Tail(pending[c]) /\ futures'[c] = Append(futures[c], x)
      /\ \A d \in Chefs \ {c} : pending'[d] = pending[d] /\ futures'[d] = futures[d]
  BY <1>1, <1>2
<1>8. NoneTwice'
  <2>1. ASSUME NEW d \in Chefs PROVE Distinct(pending[d])' /\ Distinct(futures[d])'
    <3>1. CASE d = c
      <4>1. pending'[d] = Tail(pending[c]) /\ futures'[d] = Append(futures[c], x)
        BY <1>7, <3>1
      <4> QED
        BY <1>4, <1>6, <4>1 DEF Distinct
    <3>2. CASE d # c
      <4>1. pending'[d] = pending[d] /\ futures'[d] = futures[d] /\ Distinct(pending[d]) /\ Distinct(futures[d])
        BY <1>7, <3>2 DEF OnceInv, NoneTwice
      <4> QED
        BY <4>1 DEF Distinct
    <3> QED
      BY <3>1, <3>2
  <2> QED
    BY <1>2, <2>1 DEF OnceInv, NoneTwice, Distinct, deliveryVars
<1>10. Has("pending", c, x)
  BY <1>4 DEF Has
<1>9. Moves(x, "pending", c, "futures", c)
  BY <1>2, <1>4, <1>6, <1>7, <1>10 DEF Has, deliveryVars, Moves
<1> QED
  BY <1>2, <1>8, <1>9, <1>10, OrderMoves DEF OnceInv

(* ... and a finished one off the futures, to the queue of deliveries. *)
LEMMA ChefDeductOnce ==
  ASSUME Types, OnceInv, NEW c \in Chefs, ChefDeduct(c)
  PROVE  OnceInv'
<1> DEFINE i == look[c]
           x == futures[c][i]
<1>1. /\ futures \in [Chefs -> Seq(Orders)] /\ futures[c] \in Seq(Orders) /\ i \in 1..Len(futures[c])
      /\ queue \in Seq(Orders \cup {Poison})
  <2>1. chef[c] = "deduct" /\ futures[c] \in Seq(Orders) /\ i \in Nat \ {0} /\ i <= Len(futures[c])
    BY DEF Types, ChefTypes, ChefDeduct
  <2> QED
    BY <2>1 DEF Types, ChefTypes, OrderTypes
<1>2. x \in Orders /\ x # Poison
  BY <1>1, PoisonIsNone
<1>3. /\ futures' = [futures EXCEPT ![c] = RemoveAt(futures[c], i)] /\ queue' = Append(queue, x)
      /\ Rest' = Rest /\ UNCHANGED <<pending, guy, delivered>> /\ (raced => raced')
  BY DEF ChefDeduct, Rest, mgmtVars
<1>4. Distinct(queue) /\ Distinct(futures[c])
  BY DEF OnceInv, NoneTwice
<1>5. /\ Distinct(RemoveAt(futures[c], i)) /\ x \in Range(futures[c])
      /\ \A o : o \in Range(RemoveAt(futures[c], i)) <=> o \in Range(futures[c]) /\ o # x
  BY <1>1, <1>2, <1>4, DistinctRemove
<1>6. x \notin Range(queue)
  BY <1>2, <1>5 DEF OnceInv, OneHolder, Has
<1>7. /\ Distinct(Append(queue, x)) /\ \A o : o \in Range(Append(queue, x)) <=> o \in Range(queue) \/ o = x
  BY <1>1, <1>2, <1>4, <1>6, DistinctAppend
<1> HIDE DEF x, i
<1>8. futures'[c] = RemoveAt(futures[c], i) /\ \A d \in Chefs \ {c} : futures'[d] = futures[d]
  BY <1>1, <1>3
<1>9. NoneTwice'
  <2>1. \A d \in Chefs : Distinct(futures[d])'
    BY <1>5, <1>8 DEF OnceInv, NoneTwice, Distinct
  <2>2. Distinct(queue)'
    BY <1>3, <1>7 DEF Distinct
  <2>3. Distinct(Rest)' /\ \A d \in Chefs : Distinct(pending[d])'
    <3>1. Distinct(Rest) /\ \A d \in Chefs : Distinct(pending[d])
      BY DEF OnceInv, NoneTwice
    <3>2. Rest' = Rest /\ pending' = pending
      BY <1>3
    <3> QED
      BY <3>1, <3>2 DEF Distinct
  <2> QED
    BY <2>1, <2>2, <2>3 DEF NoneTwice
<1>11. Has("futures", c, x)
  BY <1>5 DEF Has
<1>10. Moves(x, "futures", c, "queue", 0)
  BY <1>3, <1>5, <1>7, <1>8, <1>11 DEF Has, Moves
<1> QED
  BY <1>3, <1>9, <1>10, <1>11, OrderMoves DEF OnceInv

LEMMA ChefOnce ==
  ASSUME Types, OnceInv, NEW c \in Chefs, Chef(c)
  PROVE  OnceInv'
<1>1. CASE ChefPoll(c) \/ ChefDeduct(c)
  BY <1>1, ChefPollOnce, ChefDeductOnce
<1>2. CASE ChefLoop(c) \/ ChefDies(c) \/ ChefLook(c) \/ ChefRing(c) \/ ChefRingNotify(c)
  <2>1. Rest' = Rest /\ UNCHANGED <<pending, futures, deliveryVars, raced>>
    BY <1>2 DEF ChefLoop, ChefDies, ChefLook, ChefRing, ChefRingNotify, Rest, mgmtVars, chefVars
  <2> QED
    BY <2>1, HeldStill
<1> QED
  BY <1>1, <1>2 DEF Chef

LEMMA GuyOnce ==
  ASSUME Types, OnceInv, NEW g \in Guys, GuyTake(g) \/ GuyDeliver(g)
  PROVE  OnceInv'
<1>1. /\ queue \in Seq(Orders \cup {Poison}) /\ guy \in [Guys -> Orders \cup {"take", "done"}]
      /\ Rest' = Rest /\ UNCHANGED <<pending, futures, raced>>
  BY DEF Types, OrderTypes, GuyTake, GuyDeliver, Rest, mgmtVars, chefVars
<1>2. CASE GuyTake(g)
  <2> DEFINE x == Head(queue)
  <2>1. /\ guy[g] = "take" /\ queue # <<>> /\ queue' = Tail(queue) /\ UNCHANGED delivered
        /\ guy' = [guy EXCEPT ![g] = IF x = Poison THEN "done" ELSE x]
    BY <1>2 DEF GuyTake
  <2>2. x \in Orders \cup {Poison}
    BY <1>1, <2>1
  <2>3. /\ Distinct(Tail(queue)) /\ x \in Range(queue)
        /\ \A o \in Orders : o \in Range(Tail(queue)) <=> o \in Range(queue) /\ o # x
    <3>1. Distinct(queue)
      BY DEF OnceInv, NoneTwice
    <3> QED
      BY <1>1, <2>1, <3>1, DistinctTail, PoisonIsNone
  <2> HIDE DEF x
  <2>4. NoneTwice'
    <3>1. Distinct(queue)'
      BY <2>1, <2>3 DEF Distinct
    <3> QED
      BY <1>1, <3>1 DEF OnceInv, NoneTwice, Distinct
  <2>5. guy'[g] = (IF x = Poison THEN "done" ELSE x) /\ \A h \in Guys \ {g} : guy'[h] = guy[h]
    BY <1>1, <2>1
  <2>6. CASE x = Poison
    <3>1. \A o \in Orders : \A m, u : Has(m, u, o)' <=> Has(m, u, o)
      BY <1>1, <2>1, <2>3, <2>5, <2>6, PoisonIsNone DEF Has
    <3> QED
      BY <1>1, <2>4, <3>1, NoneMoves DEF OnceInv
  <2>7. CASE x # Poison
    <3>2. Has("queue", 0, x)
      BY <2>3 DEF Has
    <3>1. Moves(x, "queue", 0, "guy", g)
      BY <1>1, <2>1, <2>3, <2>5, <2>7, PoisonIsNone, <3>2 DEF Has, Moves
    <3> QED
      BY <1>1, <2>4, <3>1, <3>2, OrderMoves DEF OnceInv
  <2> QED
    BY <2>6, <2>7
<1>3. CASE GuyDeliver(g)
  <2> DEFINE x == guy[g]
  <2>1. x \in Orders /\ delivered' = delivered \cup {x} /\ guy' = [guy EXCEPT ![g] = "take"] /\ UNCHANGED queue
    BY <1>3 DEF GuyDeliver
  <2> HIDE DEF x
  <2>2. NoneTwice'
    BY <1>1, <2>1 DEF OnceInv, NoneTwice, Distinct
  <2>3. guy'[g] = "take" /\ \A h \in Guys \ {g} : guy'[h] = guy[h]
    BY <1>1, <2>1
  <2>5. Has("guy", g, x)
    BY DEF Has, x
  <2>4. Moves(x, "guy", g, "delivered", 0)
    BY <1>1, <2>1, <2>3, PoisonIsNone, <2>5 DEF Has, x, Moves
  <2> QED
    BY <1>1, <2>2, <2>4, <2>5, OrderMoves DEF OnceInv
<1> QED
  BY <1>2, <1>3

LEMMA InitOnce == Init => OnceInv
<1> SUFFICES ASSUME Init PROVE OnceInv
  OBVIOUS
<1>1. /\ Rest = OrderList /\ raced = FALSE /\ queue = <<>> /\ guy = [g \in Guys |-> "take"] /\ delivered = {}
      /\ pending = [c \in Chefs |-> <<>>] /\ futures = [c \in Chefs |-> <<>>]
  BY DEF Init, Rest
<1>2. OrderList \in Seq(Orders) /\ Distinct(OrderList) /\ Range(OrderList) = Orders
  <2>1. OrderList \in Seq(Orders) /\ DOMAIN OrderList = 1..Len(OrderList)
    BY OrdersAssumption
  <2> QED
    BY <2>1, OrdersAssumption DEF IsInjective, Distinct, Orders
<1>3. Range(<<>>) = {} /\ Distinct(<<>>)
  BY DEF Range, Distinct
<1>4. \A o \in Orders : \A k, w : Has(k, w, o) <=> k = "orders" /\ w = 0
  BY <1>1, <1>2, <1>3, PoisonIsNone DEF Has
<1>5. NoneTwice
  BY <1>1, <1>2, <1>3 DEF NoneTwice
<1> QED
  BY <1>4, <1>5 DEF OnceInv, OneHolder, Kept

LEMMA NextOnce == Types /\ OnceInv /\ [Next]_vars => OnceInv'
<1> SUFFICES ASSUME Types, OnceInv, [Next]_vars PROVE OnceInv'
  OBVIOUS
<1>1. CASE UNCHANGED vars
  BY <1>1, HeldStill DEF vars, mgmtVars, chefVars, Rest
<1>2. CASE Cooks \/ Spurious
  <2>1. Rest' = Rest /\ UNCHANGED <<pending, futures, deliveryVars, raced>>
    BY <1>2 DEF Cooks, Cook, CookWholeOrder, FutureDone, Spurious, Rest, mgmtVars, chefVars
  <2> QED
    BY <2>1, HeldStill
<1>3. CASE Delivery
  BY <1>3, GuyOnce DEF Delivery
<1> QED
  BY <1>1, <1>2, <1>3, MgmtOnce, ChefOnce DEF Next, Ended

LEMMA OnceAlways == Spec => []OnceInv
BY InitOnce, NextOnce, TypesAlways, PTL DEF Spec

(* No order is cooked or delivered twice, and none is lost but by a race on a *)
(* chef's list of pending orders (RunnableChef.java).                        *)
THEOREM RestaurantOrderOnce == Spec => []OrderOnce
<1>1. ASSUME Types, OnceInv PROVE OrderOnce
  <2> SUFFICES ASSUME NEW o \in Orders
               PROVE  Cardinality(Places(o)) <= 1 /\ (~raced => Places(o) # {})
    BY DEF OrderOnce
  <2> DEFINE In(name, w, s) == {<<name, w, i>> : i \in {j \in 1..Len(s) : s[j] = o}}
  <2>0. /\ Rest \in Seq(Orders) /\ queue \in Seq(Orders \cup {Poison})
        /\ pending \in [Chefs -> Seq(Orders)] /\ futures \in [Chefs -> Seq(Orders)]
    <3>1. orders \in Seq(Orders) /\ (mgmt = "notify" => orders # <<>>)
      BY <1>1 DEF Types, MgmtTypes
    <3> QED
      BY <1>1, <3>1 DEF Rest, Types, ChefTypes, OrderTypes
  <2> DEFINE OnLists == UNION {In("pending", c, pending[c]) \cup In("futures", c, futures[c]) : c \in Chefs}
             WithGuys == {<<"guy", g, 0>> : g \in {h \in Guys : guy[h] = o}}
             Eaten == IF o \in delivered THEN {<<"delivered", 0, 0>>} ELSE {}
  <2>1. Places(o) = In("orders", 0, Rest) \cup In("queue", 0, queue) \cup OnLists \cup WithGuys \cup Eaten
    BY DEF Places, Rest
  <2>2. ASSUME NEW s, s \in Seq(Orders) \/ s \in Seq(Orders \cup {Poison})
        PROVE  \A i \in 1..Len(s) : s[i] = o => o \in Range(s)
    BY <2>2, RangeEquality
  <2> DEFINE Position(k, w, i) ==
               \/ k = "orders" /\ i \in 1..Len(Rest) /\ Rest[i] = o
               \/ k = "queue" /\ i \in 1..Len(queue) /\ queue[i] = o
               \/ k = "pending" /\ i \in 1..Len(pending[w]) /\ pending[w][i] = o
               \/ k = "futures" /\ i \in 1..Len(futures[w]) /\ futures[w][i] = o
               \/ k \in {"guy", "delivered"} /\ i = 0
             At(p) == \E k, w, i : p = <<k, w, i>> /\ Has(k, w, o) /\ Position(k, w, i)
  <2>3. ASSUME NEW p \in Places(o) PROVE At(p)
    <3>1. CASE p \in In("orders", 0, Rest)
      BY <2>0, <2>2, <3>1, Zenon DEF Has
    <3>2. CASE p \in In("queue", 0, queue)
      BY <2>0, <2>2, <3>2, Zenon DEF Has
    <3>3. ASSUME NEW c \in Chefs, p \in In("pending", c, pending[c]) PROVE At(p)
      <4>1. pending[c] \in Seq(Orders)
        BY <2>0
      <4> QED
        BY <2>2, <3>3, <4>1, Zenon DEF Has
    <3>4. ASSUME NEW c \in Chefs, p \in In("futures", c, futures[c]) PROVE At(p)
      <4>1. futures[c] \in Seq(Orders)
        BY <2>0
      <4> QED
        BY <2>2, <3>4, <4>1, Zenon DEF Has
    <3>5. CASE p \in WithGuys
      BY <3>5 DEF Has
    <3>6. CASE p \in Eaten
      BY <3>6 DEF Has
    <3> HIDE DEF At, In
    <3>7. p \in OnLists => \E c \in Chefs : p \in In("pending", c, pending[c]) \/ p \in In("futures", c, futures[c])
      OBVIOUS
    <3> HIDE DEF OnLists, WithGuys, Eaten
    <3> QED
      BY <2>1, <3>1, <3>2, <3>3, <3>4, <3>5, <3>6, <3>7
  <2>4. ASSUME NEW p \in Places(o), NEW q \in Places(o) PROVE p = q
    <3>1. At(p) /\ At(q)
      BY <2>3
    <3>2. PICK k, w, i : p = <<k, w, i>> /\ Has(k, w, o) /\ Position(k, w, i)
      BY <3>1
    <3>3. PICK l, v, j : q = <<l, v, j>> /\ Has(l, v, o) /\ Position(l, v, j)
      BY <3>1
    <3>4. k = l /\ w = v
      BY <1>1, <3>2, <3>3 DEF OnceInv, OneHolder
    <3>5. o # Poison
      BY PoisonIsNone
    <3>6. /\ Distinct(Rest) /\ Distinct(queue)
          /\ k \in {"pending", "futures"} => Distinct(pending[w]) /\ Distinct(futures[w])
      BY <1>1, <3>2 DEF OnceInv, NoneTwice, Has
    <3>7. i = j
      BY <3>2, <3>3, <3>4, <3>5, <3>6 DEF Distinct
    <3> QED
      BY <3>2, <3>3, <3>4, <3>7
  <2>5. Cardinality(Places(o)) <= 1
    <3>1. CASE Places(o) = {}
      BY <3>1, FS_EmptySet
    <3>2. CASE Places(o) # {}
      <4>1. PICK p : Places(o) = {p}
        BY <2>4, <3>2
      <4> QED
        BY <4>1, FS_Singleton
    <3> QED
      BY <3>1, <3>2
  <2>6. ASSUME ~raced PROVE Places(o) # {}
    <3>1. PICK k, w : Has(k, w, o)
      BY <1>1, <2>6 DEF OnceInv, Kept
    <3>2. ASSUME NEW s, o \in Range(s), s \in Seq(Orders) \/ s \in Seq(Orders \cup {Poison}),
                 NEW name, NEW v
          PROVE  In(name, v, s) # {}
      <4>1. PICK i \in 1..Len(s) : s[i] = o
        BY <3>2, RangeEquality
      <4> QED
        BY <4>1
    <3>3. CASE k = "orders" \/ k = "queue"
      <4>1. In("orders", 0, Rest) # {} \/ In("queue", 0, queue) # {}
        <5>1. o \in Range(Rest) \/ o \in Range(queue)
          BY <3>1, <3>3 DEF Has
        <5> HIDE DEF In
        <5> QED
          BY <2>0, <3>2, <5>1
      <4> HIDE DEF In, OnLists, WithGuys, Eaten
      <4> QED
        BY <2>1, <4>1
    <3>4. CASE k = "pending" \/ k = "futures"
      <4>1. w \in Chefs /\ (In("pending", w, pending[w]) # {} \/ In("futures", w, futures[w]) # {})
        <5>1. w \in Chefs /\ (o \in Range(pending[w]) \/ o \in Range(futures[w]))
          BY <3>1, <3>4 DEF Has
        <5>2. pending[w] \in Seq(Orders) /\ futures[w] \in Seq(Orders)
          BY <2>0, <5>1
        <5> HIDE DEF In
        <5> QED
          BY <3>2, <5>1, <5>2
      <4> HIDE DEF In
      <4>2. OnLists # {}
        BY <4>1
      <4> HIDE DEF OnLists, WithGuys, Eaten
      <4> QED
        BY <2>1, <4>2
    <3>5. CASE k = "guy" \/ k = "delivered"
      <4>1. CASE k = "guy"
        <5>1. w \in {h \in Guys : guy[h] = o}
          BY <3>1, <4>1 DEF Has
        <5>2. WithGuys # {}
          BY <5>1
        <5> HIDE DEF In, OnLists, WithGuys, Eaten
        <5> QED
          BY <2>1, <5>2
      <4>2. CASE k = "delivered"
        <5>1. Eaten # {}
          BY <3>1, <4>2 DEF Has
        <5> HIDE DEF In, OnLists, WithGuys, Eaten
        <5> QED
          BY <2>1, <5>1
      <4> QED
        BY <3>5, <4>1, <4>2
    <3> QED
      BY <3>1, <3>3, <3>4, <3>5 DEF Has
  <2> QED
    BY <2>5, <2>6
<1> QED
  BY <1>1, TypesAlways, OnceAlways, PTL
-----------------------------------------------------------------------------
(* No dish of an order that no chef has taken yet is being cooked; a cook     *)
(* holds tools only while it cooks, and takes them in the order of their      *)
(* numbers: whatever it has comes before whatever it still needs.            *)
Untaken(o) == \E w : Has("orders", w, o) \/ Has("pending", w, o)
Unstarted == \A o \in Orders : Untaken(o) => \A d \in DishesOf[o] : cook[d] = "none"
Sorted ==
  \A d \in Dishes :
    /\ cook[d] \in {"none", "done"} => held[d] = {}
    /\ cook[d] = "take" => \A j \in held[d], k \in Needed(d) \ held[d] : j < k
(* Who is parked for a tool is so once, and it is the tool it goes for. *)
Lines ==
  /\ \A k \in Tools : \A i, j \in 1..Len(line[k]) : line[k][i] = line[k][j] => i = j
  /\ \A d \in Dishes, k \in Tools :
        Parked(d, k) => cook[d] = "take" /\ Needed(d) # held[d] /\ NextTool(d) = k
CooksInv == Unstarted /\ Sorted /\ Lines

LEMMA ToolNumbers ==
  ASSUME Types, NEW d \in Dishes
  PROVE  /\ Tools \subseteq Nat /\ Needed(d) \subseteq Tools /\ held[d] \subseteq Needed(d)
         /\ Needed(d) # held[d] => NextTool(d) \in Needed(d) \ held[d]
         /\ \A k \in Needed(d) \ held[d] : NextTool(d) <= k
<1>1. Tools \subseteq Nat /\ Needed(d) \subseteq Tools /\ held[d] \subseteq Needed(d)
  BY DEF Types, KitchenInv, Tools, Needed
<1>2. ASSUME Needed(d) \ held[d] # {}
      PROVE  NextTool(d) \in Needed(d) \ held[d] /\ \A k \in Needed(d) \ held[d] : NextTool(d) <= k
  BY <1>1, <1>2, LeastOf DEF NextTool
<1> QED
  BY <1>1, <1>2

(* An order that is untaken was so before: only ChefPoll takes one. *)
LEMMA UntakenBefore ==
  ASSUME Types, OnceInv, [Next]_vars, NEW o \in Orders, Untaken(o)'
  PROVE  Untaken(o)
<1>1. CASE UNCHANGED vars \/ Cooks \/ Delivery \/ Spurious \/ Ended
  <2>1. Rest' = Rest /\ UNCHANGED pending
    BY <1>1 DEF vars, mgmtVars, Cooks, Cook, CookWholeOrder, FutureDone, Delivery, GuyTake, GuyDeliver,
                Spurious, Ended, Rest
  <2> QED
    BY <2>1 DEF Untaken, Has
<1>2. CASE Mgmt
  <2>1. CASE MgmtAdd
    <3>1. /\ orders \in Seq(Orders) /\ orders # <<>> /\ next \in Chefs /\ pending \in [Chefs -> Seq(Orders)]
          /\ Head(orders) \in Orders /\ pending[next] \in Seq(Orders)
      BY <2>1, HeadOrder DEF Types, MgmtTypes, ChefTypes, MgmtAdd
    <3>2. Rest = orders /\ Rest' = Tail(orders) /\ Distinct(orders)
      BY <2>1 DEF MgmtAdd, Rest, OnceInv, NoneTwice
    <3>3. Head(orders) \in Range(orders) /\ (o \in Range(Tail(orders)) => o \in Range(orders))
      BY <3>1, <3>2, DistinctTail, PoisonIsNone
    <3>4. PICK list \in {Append(pending[next], Head(orders)), pending[next]} :
             pending' = [pending EXCEPT ![next] = list]
      BY <2>1 DEF MgmtAdd
    <3>5. o \in Range(list) => o \in Range(pending[next]) \/ o = Head(orders)
      BY <3>1, <3>4, DistinctAppend
    <3>6. \A w \in Chefs : o \in Range(pending'[w]) => o \in Range(pending[w]) \/ o = Head(orders)
      BY <3>1, <3>4, <3>5
    <3> QED
      BY <3>2, <3>3, <3>6 DEF Untaken, Has
  <2>2. CASE MgmtNotify
    BY <2>2 DEF MgmtNotify, Rest, Untaken, Has
  <2>3. CASE MgmtLoop \/ MgmtAsk \/ MgmtTake \/ MgmtBell \/ MgmtStop \/ MgmtStopNotify \/ MgmtPoison \/ MgmtEnd
    <3>1. mgmt # "notify" /\ mgmt' # "notify" /\ UNCHANGED <<orders, pending>>
      <4>1. CASE MgmtLoop \/ MgmtAsk \/ MgmtTake
        BY <2>3, <4>1 DEF MgmtLoop, MgmtAsk, MgmtTake
      <4>2. CASE MgmtBell \/ MgmtEnd \/ MgmtPoison
        BY <2>3, <4>2 DEF MgmtBell, MgmtEnd, MgmtPoison
      <4>3. CASE MgmtStop \/ MgmtStopNotify
        BY <2>3, <4>3 DEF MgmtStop, MgmtStopNotify
      <4> QED
        BY <2>3, <4>1, <4>2, <4>3
    <3> QED
      BY <3>1 DEF Rest, Untaken, Has
  <2> QED
    BY <1>2, <2>1, <2>2, <2>3 DEF Mgmt
<1>3. ASSUME NEW c \in Chefs, Chef(c) PROVE Untaken(o)
  <2>1. Rest' = Rest
    BY <1>3 DEF Chef, ChefLoop, ChefPoll, ChefDies, ChefLook, ChefDeduct, ChefRing, ChefRingNotify, Rest, mgmtVars
  <2>2. CASE ChefPoll(c)
    <3>1. /\ pending[c] \in Seq(Orders) /\ pending[c] # <<>> /\ pending \in [Chefs -> Seq(Orders)]
          /\ pending' = [pending EXCEPT ![c] = Tail(pending[c])] /\ Distinct(pending[c])
      BY <2>2 DEF Types, ChefTypes, ChefPoll, OnceInv, NoneTwice
    <3>2. o \in Range(Tail(pending[c])) => o \in Range(pending[c])
      BY <3>1, DistinctTail, PoisonIsNone
    <3> QED
      BY <2>1, <3>1, <3>2 DEF Untaken, Has
  <2>3. CASE ~ChefPoll(c)
    <3>1. UNCHANGED pending
      BY <1>3, <2>3 DEF Chef, ChefLoop, ChefDies, ChefLook, ChefDeduct, ChefRing, ChefRingNotify
    <3> QED
      BY <2>1, <3>1 DEF Untaken, Has
  <2> QED
    BY <2>2, <2>3
<1> QED
  BY <1>1, <1>2, <1>3 DEF Next

(* A cook takes the least of the tools it needs, and is never "none" again. *)
LEMMA CookStepSorted ==
  ASSUME Types, Sorted, NEW d \in Dishes, CookStep(d)
  PROVE  Sorted' /\ \A e \in Dishes : cook[e] = "none" => cook'[e] = "none"
<1>1. /\ cook \in [Dishes -> {"none", "take", "putBack", "done"}] /\ held \in [Dishes -> SUBSET Tools]
      /\ \A e \in Dishes : Needed(e)' = Needed(e)
  BY DEF Types, KitchenInv, Needed
<1>2. CASE TakeTool(d)
  <2>1. PICK k \in Needed(d) \ held[d] : k = NextTool(d)
    BY <1>2, ToolNumbers DEF TakeTool
  <2>2. cook[d] = "take" /\ cook' = cook /\ held' = [held EXCEPT ![d] = @ \cup {k}]
    BY <1>2, <2>1 DEF TakeTool, NextTool
  <2>3. \A j \in held[d] \cup {k}, m \in Needed(d) \ (held[d] \cup {k}) : j < m
    <3>1. \A m \in Needed(d) \ held[d] : m \in Nat /\ k \in Nat /\ k <= m
      BY <2>1, ToolNumbers
    <3>2. \A j \in held[d], m \in Needed(d) \ held[d] : j < m
      BY <2>2 DEF Sorted
    <3> QED
      BY <3>1, <3>2
  <2>4. held'[d] = held[d] \cup {k} /\ \A e \in Dishes \ {d} : held'[e] = held[e]
    BY <1>1, <2>2
  <2> QED
    BY <1>1, <2>2, <2>3, <2>4 DEF Sorted
<1>3. CASE CookDish(d)
  <2>1. cook[d] = "take" /\ cook' = [cook EXCEPT ![d] = "putBack"] /\ held' = held
    BY <1>3 DEF CookDish
  <2> QED
    BY <1>1, <2>1 DEF Sorted
<1>4. CASE PutBackTool(d)
  <2>1. cook[d] = "putBack" /\ cook' = cook /\ \A e \in Dishes \ {d} : held'[e] = held[e]
    BY <1>1, <1>4 DEF PutBackTool
  <2> QED
    BY <1>1, <2>1 DEF Sorted
<1>5. CASE DishDone(d)
  <2>1. cook[d] = "putBack" /\ held[d] = {} /\ cook' = [cook EXCEPT ![d] = "done"] /\ held' = held
    BY <1>5 DEF DishDone
  <2> QED
    BY <1>1, <2>1 DEF Sorted
<1>6. CASE JoinLine(d)
  BY <1>1, <1>6 DEF JoinLine, Sorted
<1> QED
  BY <1>2, <1>3, <1>4, <1>5, <1>6 DEF CookStep

(* The lines stay as they are when nobody in them does anything. *)
LEMMA LinesKept ==
  ASSUME Lines, line' = line,
         \A e \in Dishes : (\E k \in Tools : Parked(e, k)) => cook'[e] = cook[e] /\ held'[e] = held[e]
  PROVE  Lines'
<1>1. \A e \in Dishes, k \in Tools : Parked(e, k)' <=> Parked(e, k)
  BY DEF Parked
<1>2. \A e \in Dishes : held'[e] = held[e] => NextTool(e)' = NextTool(e) /\ Needed(e)' = Needed(e)
  BY DEF NextTool, Needed
<1> QED
  BY <1>1, <1>2 DEF Lines

(* Who takes the tool it is parked for leaves the line; who is parked behind  *)
(* does nothing.                                                             *)
LEMMA TakeToolLines ==
  ASSUME Types, Lines, NEW d \in Dishes, TakeTool(d)
  PROVE  Lines'
<1> DEFINE k == NextTool(d)
<1>1. /\ k \in Tools /\ line \in [Tools -> Seq(Dishes)] /\ cook' = cook
      /\ Parked(d, k) => Head(line[k]) = d
      /\ line' = [line EXCEPT ![k] = IF Parked(d, k) THEN Tail(@) ELSE @]
      /\ \A e \in Dishes \ {d} : held'[e] = held[e]
  <2>1. k \in Tools
    BY ToolNumbers DEF TakeTool
  <2> QED
    BY <2>1 DEF TakeTool, Types, KitchenInv
<1> HIDE DEF k
<1>2. \A j \in Tools : Parked(d, j) => j = k
  BY DEF Lines, k
<1>3. CASE ~Parked(d, k)
  <2>1. line' = line
    BY <1>1, <1>3
  <2>2. \A e \in Dishes : (\E j \in Tools : Parked(e, j)) => cook'[e] = cook[e] /\ held'[e] = held[e]
    BY <1>1, <1>2, <1>3
  <2> QED
    BY <2>1, <2>2, LinesKept
<1>4. CASE Parked(d, k)
  <2>1. line[k] \in Seq(Dishes) /\ Len(line[k]) \in Nat \ {0} /\ line[k][1] = d
    <3>1. line[k] \in Seq(Dishes)
      BY <1>1
    <3>2. Len(line[k]) \in Nat \ {0}
      BY <1>4, <3>1 DEF Parked
    <3> QED
      BY <1>1, <1>4, <3>1, <3>2
  <2>2. line'[k] = Tail(line[k]) /\ \A j \in Tools \ {k} : line'[j] = line[j]
    BY <1>1, <1>4
  <2>3. Len(line'[k]) = Len(line[k]) - 1 /\ \A i \in 1..Len(line'[k]) : line'[k][i] = line[k][i + 1]
    BY <2>1, <2>2
  <2>4. \A i, j \in 1..Len(line[k]) : line[k][i] = line[k][j] => i = j
    BY <1>1 DEF Lines
  <2>5. \A i, j \in 1..Len(line'[k]) : line'[k][i] = line'[k][j] => i = j
    <3> TAKE i, j \in 1..Len(line'[k])
    <3>1. i + 1 \in 1..Len(line[k]) /\ j + 1 \in 1..Len(line[k]) /\ i \in Int /\ j \in Int
      BY <2>1, <2>3
    <3>2. line'[k][i] = line[k][i + 1] /\ line'[k][j] = line[k][j + 1]
      BY <2>3
    <3>3. line[k][i + 1] = line[k][j + 1] => i + 1 = j + 1
      BY <2>4, <3>1
    <3> QED
      BY <3>1, <3>2, <3>3
  <2>6. \A i \in 1..Len(line'[k]) : line'[k][i] # d /\ \E j \in 1..Len(line[k]) : line[k][j] = line'[k][i]
    <3> TAKE i \in 1..Len(line'[k])
    <3>1. i + 1 \in 1..Len(line[k]) /\ 1 \in 1..Len(line[k]) /\ i + 1 # 1
      BY <2>1, <2>3
    <3>2. line'[k][i] = line[k][i + 1]
      BY <2>3
    <3> QED
      BY <2>1, <2>4, <3>1, <3>2
  <2>7. \A e \in Dishes, j \in Tools : Parked(e, j)' => Parked(e, j) /\ e # d
    <3> SUFFICES ASSUME NEW e \in Dishes, NEW j \in Tools, Parked(e, j)' PROVE Parked(e, j) /\ e # d
      OBVIOUS
    <3>1. CASE j = k
      BY <2>6, <3>1 DEF Parked
    <3>2. CASE j # k
      BY <1>2, <2>2, <3>2 DEF Parked
    <3> QED
      BY <3>1, <3>2
  <2>8. \A e \in Dishes \ {d} : NextTool(e)' = NextTool(e) /\ Needed(e)' = Needed(e)
    BY <1>1 DEF NextTool, Needed
  <2>9. \A e \in Dishes, j \in Tools :
          Parked(e, j)' => cook'[e] = "take" /\ Needed(e)' # held'[e] /\ NextTool(e)' = j
    BY <1>1, <2>7, <2>8 DEF Lines
  <2>10. \A j \in Tools : \A a, b \in 1..Len(line'[j]) : line'[j][a] = line'[j][b] => a = b
    BY <2>2, <2>5 DEF Lines
  <2> QED
    BY <2>9, <2>10 DEF Lines
<1> QED
  BY <1>3, <1>4

LEMMA JoinLineLines ==
  ASSUME Types, Lines, NEW d \in Dishes, JoinLine(d)
  PROVE  Lines'
<1> DEFINE k == NextTool(d)
<1>1. /\ k \in Tools /\ line[k] \in Seq(Dishes) /\ UNCHANGED <<cook, held>> /\ ~Parked(d, k)
      /\ line'[k] = Append(line[k], d) /\ \A j \in Tools \ {k} : line'[j] = line[j]
      /\ cook[d] = "take" /\ Needed(d) # held[d]
  <2>1. k \in Tools
    BY ToolNumbers DEF JoinLine
  <2>2. line \in [Tools -> Seq(Dishes)]
    BY DEF Types, KitchenInv
  <2> QED
    BY <2>1, <2>2 DEF JoinLine
<1>2. \A e \in Dishes : NextTool(e)' = NextTool(e) /\ Needed(e)' = Needed(e)
  BY <1>1 DEF NextTool, Needed
<1>3. \A e \in Dishes, j \in Tools : Parked(e, j)' => Parked(e, j) \/ (e = d /\ j = k)
  <2> SUFFICES ASSUME NEW e \in Dishes, NEW j \in Tools, Parked(e, j)' PROVE Parked(e, j) \/ (e = d /\ j = k)
    OBVIOUS
  <2> HIDE DEF k
  <2>1. CASE j = k
    BY <1>1, <2>1 DEF Parked
  <2>2. CASE j # k
    BY <1>1, <2>2 DEF Parked
  <2> QED
    BY <2>1, <2>2
<1>4. \A a, b \in 1..Len(line'[k]) : line'[k][a] = line'[k][b] => a = b
  <2>1. \A a, b \in 1..Len(line[k]) : line[k][a] = line[k][b] => a = b
    BY <1>1 DEF Lines
  <2>2. \A a \in 1..Len(line[k]) : line[k][a] # d
    BY <1>1 DEF Parked
  <2> HIDE DEF k
  <2> QED
    BY <1>1, <2>1, <2>2
<1> HIDE DEF k
<1>5. \A j \in Tools : \A a, b \in 1..Len(line'[j]) : line'[j][a] = line'[j][b] => a = b
  BY <1>1, <1>4 DEF Lines
<1>6. \A e \in Dishes, j \in Tools :
        Parked(e, j)' => cook'[e] = "take" /\ Needed(e)' # held'[e] /\ NextTool(e)' = j
  BY <1>1, <1>2, <1>3 DEF Lines, k
<1> QED
  BY <1>5, <1>6 DEF Lines

LEMMA CookStepLines ==
  ASSUME Types, Lines, NEW d \in Dishes, CookStep(d)
  PROVE  Lines'
<1>1. ASSUME UNCHANGED line, cook[d] # "take" \/ Needed(d) = held[d],
             \A e \in Dishes \ {d} : cook'[e] = cook[e] /\ held'[e] = held[e]
      PROVE  Lines'
  <2>1. \A j \in Tools : ~Parked(d, j)
    BY <1>1 DEF Lines
  <2> QED
    BY <1>1, <2>1, LinesKept
<1>2. cook \in [Dishes -> {"none", "take", "putBack", "done"}] /\ held \in [Dishes -> SUBSET Tools]
  BY DEF Types, KitchenInv
<1>3. CASE CookDish(d) \/ DishDone(d)
  <2>1. UNCHANGED <<line, held>> /\ (cook[d] # "take" \/ Needed(d) = held[d])
        /\ \A e \in Dishes \ {d} : cook'[e] = cook[e]
    BY <1>2, <1>3 DEF CookDish, DishDone
  <2> QED
    BY <1>1, <2>1
<1>4. CASE PutBackTool(d)
  <2>1. UNCHANGED <<line, cook>> /\ cook[d] # "take" /\ \A e \in Dishes \ {d} : held'[e] = held[e]
    BY <1>2, <1>4 DEF PutBackTool
  <2> QED
    BY <1>1, <2>1
<1> QED
  BY <1>3, <1>4, TakeToolLines, JoinLineLines DEF CookStep

(* An order that is taken starts dishes nobody is cooking, none of another's. *)
LEMMA ChefPollCooks ==
  ASSUME Types, OnceInv, CooksInv, NEW c \in Chefs, ChefPoll(c)
  PROVE  CooksInv'
<1>0. pending[c] \in Seq(Orders) /\ pending[c] # <<>> /\ Distinct(pending[c])
  BY DEF Types, ChefTypes, ChefPoll, OnceInv, NoneTwice
<1>1. PICK x \in Orders :
        /\ x = Head(pending[c]) /\ futures \in [Chefs -> Seq(Orders)]
        /\ futures' = [futures EXCEPT ![c] = Append(futures[c], x)]
  <2>1. Head(pending[c]) \in Orders
    BY <1>0
  <2>2. futures \in [Chefs -> Seq(Orders)] /\ futures' = [futures EXCEPT ![c] = Append(@, Head(pending[c]))]
    BY DEF Types, ChefTypes, ChefPoll
  <2> QED
    BY <2>1, <2>2
<1>2. cook' = [d \in Dishes |-> IF d \in DishesOf[x] THEN "take" ELSE cook[d]] /\ held' = held
  BY <1>1 DEF ChefPoll, StartCooking
<1>3. DishesOf[x] \subseteq Dishes /\ \A o \in Orders \ {x} : DishesOf[o] \subseteq Dishes /\ DishesOf[o] \cap DishesOf[x] = {}
  BY <1>1, OrdersAssumption
<1>4. x \in Range(pending[c])
  BY <1>0, <1>1, DistinctTail
<1>5. x \in Range(futures[c])'
  <2>1. x \in Range(Append(futures[c], x))
    BY <1>1, DistinctAppend
  <2> QED
    BY <1>1, <2>1
<1>6. ~Untaken(x)'
  <2>1. Has("futures", c, x)'
    BY <1>5 DEF Has
  <2>2. \A k, w : Has(k, w, x)' => k = "futures"
    <3>1. OneHolder'
      BY ChefPollOnce DEF OnceInv
    <3> QED
      BY <1>1, <2>1, <3>1 DEF OneHolder
  <2> QED
    BY <2>2 DEF Untaken
<1>7. \A d \in DishesOf[x] : cook[d] = "none"
  BY <1>1, <1>4 DEF CooksInv, Unstarted, Untaken, Has
<1>8. Unstarted'
  <2> SUFFICES ASSUME NEW o \in Orders, Untaken(o)' PROVE \A d \in DishesOf[o] : cook'[d] = "none"
    BY DEF Unstarted
  <2>1. Untaken(o) /\ o # x
    <3>1. [Next]_vars
      BY DEF Next, Chef
    <3> QED
      BY <1>6, <3>1, UntakenBefore
  <2> QED
    BY <1>2, <1>3, <2>1 DEF CooksInv, Unstarted
<1>9. Sorted'
  <2>1. \A d \in Dishes : Needed(d)' = Needed(d)
    BY DEF Needed
  <2> QED
    BY <1>2, <1>3, <1>7, <2>1 DEF CooksInv, Sorted
<1>10. Lines'
  <2>1. Lines /\ line' = line
    BY <1>1 DEF CooksInv, ChefPoll, StartCooking
  <2>2. \A d \in Dishes : (\E k \in Tools : Parked(d, k)) => cook'[d] = cook[d] /\ held'[d] = held[d]
    BY <1>2, <1>7, <2>1 DEF Lines
  <2> QED
    BY <2>1, <2>2, LinesKept
<1> QED
  BY <1>8, <1>9, <1>10 DEF CooksInv

LEMMA InitCooks == Init => CooksInv
<1> SUFFICES ASSUME Init PROVE CooksInv
  OBVIOUS
<1>1. cook = [d \in Dishes |-> "none"] /\ held = [d \in Dishes |-> {}]
  BY DEF Init, KitchenInit
<1>2. \A o \in Orders : DishesOf[o] \subseteq Dishes
  BY OrdersAssumption
<1>3. \A k \in Tools : line[k] = << >>
  BY DEF Init, KitchenInit
<1> QED
  BY <1>1, <1>2, <1>3 DEF CooksInv, Unstarted, Sorted, Lines, Parked

LEMMA NextCooks == Types /\ OnceInv /\ CooksInv /\ [Next]_vars => CooksInv'
<1> SUFFICES ASSUME Types, OnceInv, CooksInv, [Next]_vars PROVE CooksInv'
  OBVIOUS
<1>1. ASSUME UNCHANGED kitchenVars PROVE CooksInv'
  <2>1. cook' = cook /\ held' = held /\ \A d \in Dishes : Needed(d)' = Needed(d)
    BY <1>1 DEF kitchenVars, Needed
  <2>2. Sorted'
    BY <2>1 DEF CooksInv, Sorted
  <2>3. Unstarted'
    BY <2>1, UntakenBefore DEF CooksInv, Unstarted
  <2>4. Lines'
    BY <1>1, LinesKept DEF kitchenVars, CooksInv
  <2> QED
    BY <2>2, <2>3, <2>4 DEF CooksInv
<1>2. ASSUME NEW d \in Dishes, Cook(d) PROVE CooksInv'
  <2>1. CookStep(d)
    BY <1>2 DEF Cook
  <2>2. Sorted' /\ \A e \in Dishes : cook[e] = "none" => cook'[e] = "none"
    BY <2>1, CookStepSorted DEF CooksInv
  <2>3. Unstarted'
    BY <2>2, UntakenBefore, OrdersAssumption DEF CooksInv, Unstarted
  <2>4. Lines'
    BY <2>1, CookStepLines DEF CooksInv
  <2> QED
    BY <2>2, <2>3, <2>4 DEF CooksInv
<1>3. CASE UNCHANGED vars \/ Mgmt \/ Delivery \/ Spurious \/ Ended
  <2>1. UNCHANGED kitchenVars
    BY <1>3 DEF vars, Mgmt, MgmtLoop, MgmtAsk, MgmtTake, MgmtAdd, MgmtNotify, MgmtBell, MgmtStop,
                MgmtStopNotify, MgmtPoison, MgmtEnd, Delivery, GuyTake, GuyDeliver, Spurious, Ended
  <2> QED
    BY <1>1, <2>1
<1>4. CASE \E o \in Orders : CookWholeOrder(o) \/ FutureDone(o)
  BY <1>1, <1>4 DEF CookWholeOrder, FutureDone
<1>5. ASSUME NEW c \in Chefs, Chef(c) PROVE CooksInv'
  <2>1. CASE ChefPoll(c)
    BY <2>1, ChefPollCooks
  <2>2. CASE ~ChefPoll(c)
    BY <1>1, <1>5, <2>2 DEF Chef, ChefLoop, ChefDies, ChefLook, ChefDeduct, ChefRing, ChefRingNotify
  <2> QED
    BY <2>1, <2>2
<1> QED
  BY <1>2, <1>3, <1>4, <1>5 DEF Next, Cooks

(* A tool of which there is too little for a dish is lent to another dish. *)
LEMMA ToolIsLent ==
  ASSUME Types, NEW d \in Dishes, NEW k \in Tools, sem[k] < Need[d][k]
  PROVE  \E e \in Dishes : k \in held[e]
<1>1. sem[k] \in Nat /\ Quantity[k] \in Nat /\ Need[d][k] \in Nat /\ Need[d][k] <= Quantity[k]
  BY KitchenAssumption DEF Types, KitchenInv
<1>2. IsFiniteSet(Lent(k)) /\ sem[k] + Cardinality(Lent(k)) = Quantity[k]
  BY DEF Types, KitchenInv
<1>3. Lent(k) # {}
  BY <1>1, <1>2, FS_EmptySet
<1> QED
  BY <1>3 DEF Lent

(* However many dishes share however many tools, the cooks are never          *)
(* deadlocked, neither over the permits of a tool nor in the line of those     *)
(* parked for it: who is parked behind others waits for the first of them, and *)
(* a dish that waits for the highest tool that is waited for waits for a dish  *)
(* that has it and waits for none, or for a higher one (Warehouse.take).       *)
THEOREM RestaurantCooksGoOn == Spec => []CooksGoOn
<1>1. ASSUME Types, CooksInv PROVE CooksGoOn
  <2> DEFINE cooking == {d \in Dishes : cook[d] \in {"take", "putBack"}}
             height(d) == NTools - NextTool(d)
             heights == {height(d) : d \in cooking}
  <2>1. /\ \A d \in cooking : d \in Dishes
        /\ \A d \in Dishes : held[d] # {} => d \in cooking
    <3>1. \A d \in Dishes : cook[d] \in {"none", "take", "putBack", "done"}
      BY <1>1 DEF Types, KitchenInv
    <3> QED
      BY <1>1, <3>1 DEF CooksInv, Sorted
  <2> HIDE DEF cooking
  <2>2. NTools \in Nat /\ Tools = 1..NTools
    BY KitchenAssumption DEF Tools
  <2> SUFFICES ASSUME cooking # {}, \A d \in cooking : Waits(d) PROVE FALSE
    BY DEF CooksGoOn, cooking
  <2>3. ASSUME NEW d \in cooking
        PROVE  /\ cook[d] = "take" /\ NextTool(d) \in Needed(d) \ held[d] /\ NextTool(d) \in Tools
               /\ \E e \in Dishes : NextTool(d) \in held[e]
    <3> DEFINE k == NextTool(d)
    <3>1. d \in Dishes /\ cook[d] = "take" /\ Needed(d) # held[d]
          /\ (sem[k] < Need[d][k] \/ Parked(d, k))
      BY <2>1 DEF Waits
    <3>2. k \in Needed(d) \ held[d] /\ k \in Tools
      BY <1>1, <3>1, ToolNumbers
    <3>3. CASE sem[k] < Need[d][k]
      BY <1>1, <3>1, <3>2, <3>3, ToolIsLent
    <3>4. CASE Parked(d, k)
      <4> HIDE DEF k
      <4>1. line[k] \in Seq(Dishes)
        BY <1>1, <3>2 DEF Types, KitchenInv
      <4>2. Len(line[k]) \in Nat \ {0}
        BY <3>4, <4>1 DEF Parked
      <4> DEFINE h == Head(line[k])
      <4>3. h \in Dishes /\ h = line[k][1] /\ 1 \in 1..Len(line[k])
        BY <4>1, <4>2
      <4>4. Parked(h, k)
        BY <4>3 DEF Parked
      <4> HIDE DEF h
      <4>5. h \in cooking /\ NextTool(h) = k
        BY <1>1, <3>2, <4>3, <4>4 DEF CooksInv, Lines, cooking
      <4>6. sem[k] < Need[h][k]
        BY <2>1, <4>5 DEF Waits, h
      <4>7. \E e \in Dishes : k \in held[e]
        BY <1>1, <3>2, <4>3, <4>6, ToolIsLent
      <4> QED
        BY <3>1, <3>2, <4>7 DEF k
    <3> QED
      BY <3>1, <3>2, <3>3, <3>4
  <2>4. heights \in SUBSET Nat /\ heights # {}
    BY <2>2, <2>3
  <2>5. PICK d \in cooking : \A e \in cooking : height(d) <= height(e)
    <3>1. \A e \in cooking : height(e) \in heights
      OBVIOUS
    <3>2. \A h \in heights : \E d \in cooking : h = height(d)
      OBVIOUS
    <3> HIDE DEF heights, height
    <3>3. Min(heights) \in heights /\ \A h \in heights : Min(heights) <= h
      BY <2>4, LeastOf
    <3> QED
      BY <3>1, <3>2, <3>3
  <2>6. PICK e \in Dishes : NextTool(d) \in held[e]
    BY <2>3
  <2>7. e \in cooking /\ cook[e] = "take" /\ NextTool(e) \in Needed(e) \ held[e]
    BY <2>1, <2>3, <2>6
  <2>8. NextTool(d) < NextTool(e)
    BY <1>1, <2>6, <2>7 DEF CooksInv, Sorted
  <2>9. NextTool(d) \in Nat /\ NextTool(e) \in Nat /\ height(d) <= height(e)
    BY <2>2, <2>3, <2>5, <2>7
  <2> QED
    BY <2>2, <2>8, <2>9
<1>2. Spec => []CooksInv
  BY InitCooks, NextCooks, TypesAlways, OnceAlways, PTL DEF Spec
<1> QED
  BY <1>1, <1>2, TypesAlways, PTL

-----------------------------------------------------------------------------
(* Closing time: nothing is left when the chefs are told to stop, a chef goes *)
(* home with nothing pending, and the poisoned orders come last in the queue. *)
Closing == {"stop", "stopNotify", "await", "awaitGuys", "ended"}
Poisoned == {"awaitGuys", "ended"}
EndMgmt == (mgmt \in Closing => orders = <<>>) /\ \A c \in Chefs : stop[c] => mgmt \in Closing
EndChefs ==
  \A c \in Chefs :
    /\ chef[c] = "done" => stop[c] /\ futures[c] = <<>> /\ size[c] = 0
    /\ ~raced => size[c] = Len(pending[c])
    /\ mgmt \in Poisoned => chef[c] = "done"
EndGuys ==
  /\ mgmt \notin Poisoned => Poison \notin Range(queue) /\ \A g \in Guys : guy[g] # "done"
  /\ \A i, j \in 1..Len(queue) : i < j /\ queue[i] = Poison => queue[j] = Poison
  /\ \A g \in Guys : guy[g] = "done" => Range(queue) \subseteq {Poison}
  /\ mgmt = "ended" => \A g \in Guys : guy[g] = "done"
EndInv == EndMgmt /\ EndChefs /\ EndGuys

(* The management is as far in closing as it was. *)
SameStage ==
  /\ mgmt \in Closing <=> mgmt' \in Closing
  /\ mgmt \in Poisoned <=> mgmt' \in Poisoned
  /\ mgmt' = "ended" => mgmt = "ended"

LEMMA EndMgmtKept ==
  ASSUME EndInv, SameStage, UNCHANGED <<orders, stop>>
  PROVE  EndMgmt'
BY DEF EndInv, EndMgmt, SameStage

LEMMA EndChefsKept ==
  ASSUME EndInv, SameStage, UNCHANGED <<stop, futures, size, pending>>, (raced => raced'),
         \A c \in Chefs : chef[c] = "done" <=> chef'[c] = "done"
  PROVE  EndChefs'
BY DEF EndInv, EndChefs, SameStage

LEMMA EndGuysKept ==
  ASSUME EndInv, SameStage, UNCHANGED <<queue, guy>>
  PROVE  EndGuys'
BY DEF EndInv, EndGuys, SameStage

LEMMA NotifyDone ==
  ASSUME Types, NEW c \in Chefs, Notify(c)
  PROVE  \A d \in Chefs : chef[d] = "done" <=> chef'[d] = "done"
BY DEF Types, ChefTypes, Notify

LEMMA EndStill ==
  ASSUME Types, EndInv, SameStage, UNCHANGED <<orders, stop, futures, size, pending, queue, guy>>,
         (raced => raced'), UNCHANGED chef \/ \E c \in Chefs : Notify(c)
  PROVE  EndInv'
<1>1. \A d \in Chefs : chef[d] = "done" <=> chef'[d] = "done"
  BY NotifyDone
<1> QED
  BY <1>1, EndMgmtKept, EndChefsKept, EndGuysKept DEF EndInv

LEMMA MgmtEndInv ==
  ASSUME Types, EndInv, Mgmt
  PROVE  EndInv'
<1>1. CASE MgmtLoop
  <2>1. /\ mgmt = "loop" /\ mgmt' \in {"stop", "scan"} /\ (mgmt' = "stop" => orders = <<>>)
        /\ UNCHANGED <<orders, stop, futures, size, pending, queue, guy, chef, raced>>
    BY <1>1 DEF MgmtLoop, chefVars, deliveryVars
  <2>2. EndMgmt'
    BY <2>1 DEF EndInv, EndMgmt, Closing
  <2>3. EndChefs'
    BY <2>1 DEF EndInv, EndChefs, Poisoned
  <2>4. EndGuys'
    BY <2>1 DEF EndInv, EndGuys, Poisoned
  <2> QED
    BY <2>2, <2>3, <2>4 DEF EndInv
<1>2. CASE MgmtAsk \/ MgmtTake \/ MgmtBell
  <2>1. UNCHANGED <<orders, stop, futures, size, pending, queue, guy, chef>>
    BY <1>2 DEF MgmtAsk, MgmtTake, MgmtBell, chefVars, deliveryVars
  <2>2. mgmt \in {"scan", "take", "bell"} /\ mgmt' \in {"scan", "take", "add", "bell", "loop", "wait"}
    BY <1>2 DEF MgmtAsk, MgmtTake, MgmtBell
  <2>3. raced => raced'
    BY <1>2 DEF MgmtAsk, MgmtTake, MgmtBell
  <2>4. SameStage
    BY <2>2 DEF SameStage, Closing, Poisoned
  <2> QED
    BY <2>1, <2>3, <2>4, EndStill
<1>3. CASE MgmtAdd
  <2>1. PICK list \in {Append(pending[next], Head(orders)), pending[next]}, n \in {0, 1, 2} :
           /\ pending' = [pending EXCEPT ![next] = list] /\ size' = [size EXCEPT ![next] = @ + n]
           /\ (raced => raced') /\ (~raced' => list = Append(pending[next], Head(orders)) /\ n = 1)
    BY <1>3 DEF MgmtAdd
  <2>2. mgmt = "add" /\ mgmt' = "notify" /\ UNCHANGED <<orders, stop, futures, queue, guy, chef>>
    BY <1>3 DEF MgmtAdd, chefVars, deliveryVars
  <2>3. SameStage
    BY <2>2 DEF SameStage, Closing, Poisoned
  <2>4. ASSUME ~raced', NEW c \in Chefs PROVE size'[c] = Len(pending'[c])
    <3>1. next \in Chefs /\ pending \in [Chefs -> Seq(Orders)] /\ size \in [Chefs -> Nat]
      BY DEF Types, MgmtTypes, ChefTypes
    <3>2. size[c] = Len(pending[c])
      BY <2>1, <2>4 DEF EndInv, EndChefs
    <3>3. CASE c = next
      <4>1. size'[c] = size[c] + 1 /\ pending'[c] = Append(pending[c], Head(orders)) /\ pending[c] \in Seq(Orders)
        BY <2>1, <2>4, <3>1, <3>3
      <4> QED
        BY <3>2, <4>1
    <3>4. CASE c # next
      BY <2>1, <3>1, <3>2, <3>4
    <3> QED
      BY <3>3, <3>4
  <2>5. \A c \in Chefs : chef[c] # "done"
    BY <2>2 DEF EndInv, EndMgmt, EndChefs, Closing
  <2>6. EndChefs'
    BY <2>2, <2>4, <2>5 DEF EndChefs, Poisoned
  <2> QED
    BY <2>2, <2>3, <2>6, EndMgmtKept, EndGuysKept DEF EndInv
<1>4. CASE MgmtNotify
  <2>1. mgmt = "notify" /\ mgmt' = "loop" /\ UNCHANGED <<stop, futures, size, pending, queue, guy, raced>>
    BY <1>4 DEF MgmtNotify, chefVars, deliveryVars
  <2>2. SameStage
    BY <2>1 DEF SameStage, Closing, Poisoned
  <2>3. \A d \in Chefs : chef[d] = "done" <=> chef'[d] = "done"
    BY <1>4, NotifyDone DEF MgmtNotify, Types, MgmtTypes
  <2>4. EndMgmt'
    BY <2>1 DEF EndInv, EndMgmt, Closing
  <2> QED
    BY <2>1, <2>2, <2>3, <2>4, EndChefsKept, EndGuysKept DEF EndInv
<1>5. CASE MgmtStop
  <2>1. /\ mgmt = "stop" /\ mgmt' = "stopNotify" /\ stop' = [stop EXCEPT ![next] = TRUE]
        /\ UNCHANGED <<orders, futures, size, pending, queue, guy, chef, raced>>
    BY <1>5 DEF MgmtStop, chefVars, deliveryVars
  <2>2. SameStage
    BY <2>1 DEF SameStage, Closing, Poisoned
  <2>3. EndMgmt'
    BY <2>1 DEF EndInv, EndMgmt, Closing
  <2>4. \A c \in Chefs : stop[c] => stop'[c]
    BY <2>1 DEF Types, ChefTypes
  <2>5. EndChefs'
    BY <2>1, <2>2, <2>4 DEF EndInv, EndChefs, SameStage
  <2> QED
    BY <2>1, <2>2, <2>3, <2>5, EndGuysKept DEF EndInv
<1>6. CASE MgmtStopNotify
  <2>1. mgmt = "stopNotify" /\ mgmt' \in {"await", "stop"} /\ next \in Chefs /\ Notify(next)
        /\ UNCHANGED <<orders, stop, futures, size, pending, queue, guy, raced>>
    BY <1>6 DEF MgmtStopNotify, chefVars, deliveryVars, Types, MgmtTypes
  <2>2. SameStage
    BY <2>1 DEF SameStage, Closing, Poisoned
  <2> QED
    BY <2>1, <2>2, EndStill
<1>7. CASE MgmtPoison
  <2>1. /\ mgmt = "await" /\ mgmt' = "awaitGuys" /\ queue' = queue \o Poisons /\ \A c \in Chefs : chef[c] = "done"
        /\ UNCHANGED <<orders, stop, futures, size, pending, guy, chef, raced>>
    BY <1>7 DEF MgmtPoison, chefVars
  <2>2. EndMgmt' /\ EndChefs'
    BY <2>1 DEF EndInv, EndMgmt, EndChefs, Closing
  <2>3. /\ queue \in Seq(Orders \cup {Poison}) /\ Poisons \in Seq(Orders \cup {Poison})
        /\ \A i \in 1..Len(Poisons) : Poisons[i] = Poison
    <3>1. Cardinality(Guys) \in Nat
      BY OrdersAssumption, FS_CardinalityType
    <3> QED
      BY <3>1 DEF Poisons, Types, OrderTypes
  <2>4. Poison \notin Range(queue) /\ \A g \in Guys : guy[g] # "done"
    BY <2>1 DEF EndInv, EndGuys, Poisoned
  <2>5. \A i \in 1..Len(queue) : queue[i] # Poison
    BY <2>3, <2>4, RangeEquality
  <2>6. /\ Len(queue) \in Nat /\ Len(Poisons) \in Nat /\ Len(queue \o Poisons) = Len(queue) + Len(Poisons)
        /\ \A i \in 1..(Len(queue) + Len(Poisons)) :
              (queue \o Poisons)[i] = IF i <= Len(queue) THEN queue[i] ELSE Poisons[i - Len(queue)]
    BY <2>3, ConcatProperties
  <2>7. \A i \in 1..(Len(queue) + Len(Poisons)) : (queue \o Poisons)[i] = Poison <=> i > Len(queue)
    BY <2>3, <2>5, <2>6
  <2>8. \A i, j \in 1..Len(queue') : i < j /\ queue'[i] = Poison => queue'[j] = Poison
    BY <2>1, <2>6, <2>7
  <2>9. EndGuys'
    BY <2>1, <2>4, <2>8 DEF EndGuys, Poisoned
  <2> QED
    BY <2>2, <2>9 DEF EndInv
<1>8. CASE MgmtEnd
  <2>1. /\ mgmt = "awaitGuys" /\ mgmt' = "ended" /\ \A g \in Guys : guy[g] = "done"
        /\ UNCHANGED <<orders, stop, futures, size, pending, queue, guy, chef, raced>>
    BY <1>8 DEF MgmtEnd, chefVars, deliveryVars
  <2> QED
    BY <2>1 DEF EndInv, EndMgmt, EndChefs, EndGuys, Closing, Poisoned
<1> QED
  BY <1>1, <1>2, <1>3, <1>4, <1>5, <1>6, <1>7, <1>8 DEF Mgmt

LEMMA ChefEndInv ==
  ASSUME Types, EndInv, NEW c \in Chefs, Chef(c)
  PROVE  EndInv'
<1>0. /\ chef \in [Chefs -> {"loop", "polling", "look", "deduct", "ring", "ringNotify", "wait", "done", "dead"}]
      /\ pending \in [Chefs -> Seq(Orders)] /\ futures \in [Chefs -> Seq(Orders)] /\ size \in [Chefs -> Nat]
  BY DEF Types, ChefTypes
<1>1. CASE ChefLoop(c)
  <2>1. /\ UNCHANGED <<mgmt, orders, stop, futures, size, pending, queue, guy, raced>>
        /\ \A d \in Chefs \ {c} : chef'[d] = chef[d]
        /\ chef[c] = "loop" /\ (chef'[c] = "done" => stop[c] /\ futures[c] = <<>> /\ size[c] = 0)
    BY <1>0, <1>1 DEF ChefLoop, mgmtVars, chefVars, deliveryVars
  <2>2. SameStage
    BY <2>1 DEF SameStage
  <2>3. EndChefs'
    BY <2>1 DEF EndInv, EndChefs
  <2> QED
    BY <2>1, <2>2, <2>3, EndMgmtKept, EndGuysKept DEF EndInv
<1>2. CASE ChefPoll(c)
  <2>1. /\ UNCHANGED <<mgmt, orders, stop, queue, guy, raced>> /\ chef[c] = "polling" /\ pending[c] # <<>>
        /\ chef' = [chef EXCEPT ![c] = "look"] /\ size' = [size EXCEPT ![c] = @ - 1]
        /\ pending' = [pending EXCEPT ![c] = Tail(@)]
        /\ futures' = [futures EXCEPT ![c] = Append(@, Head(pending[c]))]
    BY <1>2 DEF ChefPoll, deliveryVars
  <2>2. /\ chef'[c] = "look" /\ size'[c] = size[c] - 1 /\ pending'[c] = Tail(pending[c])
        /\ \A d \in Chefs \ {c} : /\ chef'[d] = chef[d] /\ size'[d] = size[d] /\ pending'[d] = pending[d]
                                  /\ futures'[d] = futures[d]
    BY <1>0, <2>1
  <2>3. Len(Tail(pending[c])) = Len(pending[c]) - 1
    BY <1>0, <2>1
  <2>4. SameStage
    BY <2>1 DEF SameStage
  <2>5. EndChefs'
    BY <2>1, <2>2, <2>3 DEF EndInv, EndChefs
  <2> QED
    BY <2>1, <2>4, <2>5, EndMgmtKept, EndGuysKept DEF EndInv
<1>3. CASE ChefDies(c) \/ ChefLook(c) \/ ChefRing(c) \/ ChefRingNotify(c)
  <2>1. UNCHANGED <<orders, stop, futures, size, pending, queue, guy, raced>>
    BY <1>3 DEF ChefDies, ChefLook, ChefRing, ChefRingNotify, mgmtVars, chefVars, deliveryVars
  <2>2. chef[c] # "done" /\ chef'[c] # "done" /\ \A d \in Chefs \ {c} : chef'[d] = chef[d]
    <3>1. CASE ChefLook(c)
      BY <1>0, <3>1 DEF ChefLook
    <3>2. CASE ChefDies(c) \/ ChefRing(c) \/ ChefRingNotify(c)
      BY <1>0, <3>2 DEF ChefDies, ChefRing, ChefRingNotify
    <3> QED
      BY <1>3, <3>1, <3>2
  <2>3. mgmt' = mgmt \/ (mgmt = "wait" /\ mgmt' = "loop")
    BY <1>3 DEF ChefDies, ChefLook, ChefRing, ChefRingNotify, mgmtVars
  <2>4. SameStage
    BY <2>3 DEF SameStage, Closing, Poisoned
  <2>5. \A d \in Chefs : chef[d] = "done" <=> chef'[d] = "done"
    BY <2>2
  <2> QED
    BY <2>1, <2>4, <2>5, EndMgmtKept, EndChefsKept, EndGuysKept DEF EndInv
<1>4. CASE ChefDeduct(c)
  <2> DEFINE o == futures[c][look[c]]
  <2>1. o \in Orders /\ look[c] <= Len(futures[c])
    <3>1. chef[c] = "deduct" /\ look[c] \in Nat \ {0} /\ look[c] <= Len(futures[c]) /\ futures[c] \in Seq(Orders)
      BY <1>4 DEF ChefDeduct, Types, ChefTypes
    <3> QED
      BY <3>1
  <2>2. /\ UNCHANGED <<mgmt, orders, stop, size, pending, guy>> /\ chef[c] = "deduct"
        /\ chef' = [chef EXCEPT ![c] = "look"] /\ queue' = Append(queue, o) /\ (raced => raced')
        /\ \A d \in Chefs \ {c} : futures'[d] = futures[d]
    BY <1>0, <1>4 DEF ChefDeduct, mgmtVars
  <2> HIDE DEF o
  <2>3. SameStage
    BY <2>2 DEF SameStage
  <2>4. chef'[c] = "look" /\ \A d \in Chefs \ {c} : chef'[d] = chef[d]
    BY <1>0, <2>2
  <2>5. EndChefs'
    BY <2>2, <2>4 DEF EndInv, EndChefs
  <2>6. mgmt \notin Poisoned
    BY <2>2 DEF EndInv, EndChefs
  <2>7. Poison \notin Range(queue) /\ \A g \in Guys : guy[g] # "done"
    BY <2>6 DEF EndInv, EndGuys
  <2>8. o # Poison /\ queue \in Seq(Orders \cup {Poison})
    BY <2>1, PoisonIsNone DEF Types, OrderTypes
  <2>9. Range(queue') = Range(queue) \cup {o} /\ queue' \in Seq(Orders \cup {Poison})
    <3>1. o \in Orders \cup {Poison}
      BY <2>1
    <3>2. \A x : x \in Range(Append(queue, o)) <=> x \in Range(queue) \/ x = o
      BY <2>8, <3>1, DistinctAppend
    <3> QED
      BY <2>2, <2>8, <3>1, <3>2
  <2>10. \A i \in 1..Len(queue') : queue'[i] # Poison
    BY <2>7, <2>8, <2>9, RangeEquality
  <2>11. EndGuys'
    BY <2>2, <2>6, <2>7, <2>8, <2>9, <2>10 DEF EndGuys, Poisoned
  <2> QED
    BY <2>2, <2>3, <2>5, <2>11, EndMgmtKept DEF EndInv
<1> QED
  BY <1>1, <1>2, <1>3, <1>4 DEF Chef

LEMMA GuyEndInv ==
  ASSUME Types, EndInv, NEW g \in Guys, GuyTake(g) \/ GuyDeliver(g)
  PROVE  EndInv'
<1>1. /\ UNCHANGED <<mgmt, orders, stop, futures, size, pending, chef, raced>>
      /\ queue \in Seq(Orders \cup {Poison}) /\ guy \in [Guys -> Orders \cup {"take", "done"}]
  BY DEF GuyTake, GuyDeliver, mgmtVars, chefVars, Types, OrderTypes
<1>2. SameStage
  BY <1>1 DEF SameStage
<1>3. EndMgmt' /\ EndChefs'
  BY <1>1, <1>2, EndMgmtKept, EndChefsKept
<1>4. CASE GuyTake(g)
  <2>1. /\ guy[g] = "take" /\ queue # <<>> /\ queue' = Tail(queue)
        /\ guy' = [guy EXCEPT ![g] = IF Head(queue) = Poison THEN "done" ELSE Head(queue)]
    BY <1>4 DEF GuyTake
  <2>2. /\ Len(queue) \in Nat \ {0} /\ Head(queue) = queue[1] /\ Len(queue') = Len(queue) - 1
        /\ \A i \in 1..(Len(queue) - 1) : queue'[i] = queue[i + 1] /\ i + 1 \in 2..Len(queue)
        /\ Head(queue) \in Orders \cup {Poison} /\ queue' \in Seq(Orders \cup {Poison})
    BY <1>1, <2>1
  <2>3. /\ \A h \in Guys \ {g} : guy'[h] = guy[h]
        /\ guy'[g] = "done" <=> Head(queue) = Poison
    BY <1>1, <2>1, <2>2, PoisonIsNone
  <2>4. \A x \in Range(queue') : \E i \in 2..Len(queue) : x = queue[i]
    BY <2>2, RangeEquality
  <2>5. \A i \in 1..Len(queue) : queue[i] \in Range(queue)
    BY <1>1, RangeEquality
  <2>6. Range(queue') \subseteq Range(queue)
    BY <2>2, <2>4, <2>5
  <2>7. mgmt \notin Poisoned => guy'[g] # "done"
    BY <2>2, <2>3, <2>5 DEF EndInv, EndGuys
  <2>8. guy'[g] = "done" => Range(queue') \subseteq {Poison}
    BY <2>2, <2>3, <2>4 DEF EndInv, EndGuys
  <2>9. \A i, j \in 1..Len(queue') : i < j /\ queue'[i] = Poison => queue'[j] = Poison
    BY <2>2 DEF EndInv, EndGuys
  <2>10. mgmt # "ended"
    BY <2>1 DEF EndInv, EndGuys
  <2>11. EndGuys'
    BY <1>1, <2>3, <2>6, <2>7, <2>8, <2>9, <2>10 DEF EndInv, EndGuys
  <2> QED
    BY <1>3, <2>11 DEF EndInv
<1>5. CASE GuyDeliver(g)
  <2>1. UNCHANGED queue /\ guy[g] \in Orders /\ guy' = [guy EXCEPT ![g] = "take"]
    BY <1>5 DEF GuyDeliver
  <2>2. guy[g] # "done" /\ guy'[g] = "take" /\ \A h \in Guys \ {g} : guy'[h] = guy[h]
    BY <1>1, <2>1, PoisonIsNone
  <2>3. EndGuys'
    BY <1>1, <2>1, <2>2 DEF EndInv, EndGuys
  <2> QED
    BY <1>3, <2>3 DEF EndInv
<1> QED
  BY <1>4, <1>5

LEMMA InitEnd == Init => EndInv
<1> SUFFICES ASSUME Init PROVE EndInv
  OBVIOUS
<1>1. mgmt = "loop" /\ queue = <<>> /\ mgmt \notin Closing /\ mgmt \notin Poisoned
  BY DEF Init, Closing, Poisoned
<1>2. EndMgmt
  BY <1>1 DEF Init, EndMgmt
<1>3. EndChefs
  BY <1>1 DEF Init, EndChefs
<1>4. EndGuys
  <2>1. Range(queue) = {} /\ Len(queue) = 0 /\ \A g \in Guys : guy[g] = "take"
    BY <1>1 DEF Init, Range
  <2> QED
    BY <1>1, <2>1 DEF EndGuys
<1> QED
  BY <1>2, <1>3, <1>4 DEF EndInv

LEMMA NextEnd == Types /\ EndInv /\ [Next]_vars => EndInv'
<1> SUFFICES ASSUME Types, EndInv, [Next]_vars PROVE EndInv'
  OBVIOUS
<1>1. CASE UNCHANGED vars
  <2>1. SameStage
    BY <1>1 DEF vars, mgmtVars, SameStage
  <2> QED
    BY <1>1, <2>1, EndStill DEF vars, mgmtVars, chefVars, deliveryVars
<1>2. CASE Cooks \/ Spurious
  <2>1. /\ UNCHANGED <<orders, stop, futures, size, pending, queue, guy, raced>>
        /\ UNCHANGED chef \/ \E c \in Chefs : Notify(c)
        /\ mgmt' = mgmt \/ (mgmt = "wait" /\ mgmt' = "loop")
    BY <1>2 DEF Cooks, Cook, CookWholeOrder, FutureDone, Spurious, mgmtVars, chefVars, deliveryVars
  <2>2. SameStage
    BY <2>1 DEF SameStage, Closing, Poisoned
  <2> QED
    BY <2>1, <2>2, EndStill
<1>3. CASE Delivery
  BY <1>3, GuyEndInv DEF Delivery
<1> QED
  BY <1>1, <1>2, <1>3, MgmtEndInv, ChefEndInv DEF Next, Ended

LEMMA EndAlways == Spec => []EndInv
BY InitEnd, NextEnd, TypesAlways, PTL DEF Spec

(* When the restaurant has closed, every order has been delivered, unless an  *)
(* update was lost in a race: the latch of the chefs comes before the poison, *)
(* and the poison behind every order (Management.java, RunnableDeliveryPerson.java). *)
THEOREM RestaurantAllDelivered == Spec => []AllDelivered
<1>1. ASSUME Types, OnceInv, EndInv PROVE AllDelivered
  <2> SUFFICES ASSUME mgmt = "ended", ~raced, NEW o \in Orders PROVE o \in delivered
    BY <1>1 DEF AllDelivered, Types, OrderTypes
  <2>1. PICK k, w : Has(k, w, o)
    BY <1>1 DEF OnceInv, Kept
  <2>2. PICK g \in Guys : guy[g] = "done"
    BY <1>1, OrdersAssumption DEF EndInv, EndGuys
  <2>3. Range(Rest) = {}
    BY <1>1 DEF Rest, EndInv, EndMgmt, Closing, Range
  <2>4. o \notin Range(queue)
    BY <1>1, <2>2, PoisonIsNone DEF EndInv, EndGuys
  <2>5. ASSUME NEW c \in Chefs PROVE o \notin Range(pending[c]) /\ o \notin Range(futures[c])
    <3>1. futures[c] = <<>> /\ pending[c] \in Seq(Orders) /\ Len(pending[c]) = 0
      BY <1>1 DEF EndInv, EndChefs, Poisoned, Types, ChefTypes
    <3>2. pending[c] = <<>>
      BY <3>1
    <3> QED
      BY <3>1, <3>2 DEF Range
  <2>6. \A h \in Guys : guy[h] # o
    BY <1>1, PoisonIsNone DEF EndInv, EndGuys
  <2> QED
    BY <2>1, <2>3, <2>4, <2>5, <2>6 DEF Has
<1> QED
  BY <1>1, TypesAlways, OnceAlways, EndAlways, PTL

-----------------------------------------------------------------------------
(* The bell. *)
BellTypes ==
  /\ next \in Chefs
  /\ pressure = [c \in Chefs |-> pressure[c]]
  /\ reduced \in [Chefs -> BOOLEAN]
  /\ chef \in [Chefs -> {"loop", "polling", "look", "deduct", "ring", "ringNotify",
                         "wait", "done", "dead"}]

(* The order the management is about to hand out fits chef c. *)
Fits(c) == Difficulty[Head(orders)] <= Endurance[c] - pressure[c]

(* Chef c has reduced its pressure and is on its way to the bell. *)
WillRing(c) == reduced[c] /\ chef[c] \in {"look", "deduct", "ring"}

(* The chefs the management has passed since it reset the bell. *)
Scanned(c) == mgmt = "bell" \/ (mgmt = "scan" /\ c < next)

(* A chef that has been passed fits only since then: the bell has been rung,  *)
(* or the chef is about to ring it.                                          *)
ScannedRing == \A c \in Chefs : Scanned(c) /\ Fits(c) => bell \/ WillRing(c)

(* Every scan starts with the first chef. *)
ScanStarts == mgmt \in {"loop", "bell", "wait"} => next = 1

IInv == BellTypes /\ ScannedRing /\ ScanStarts /\ BellNotMissed

-----------------------------------------------------------------------------
(* What the invariant depends on, besides the place of the management. *)
bellVars == <<next, pressure, reduced, chef, orders, bell>>

(* A step of a chef that leaves the pressures alone and, if the chef was on   *)
(* its way to the bell, keeps it so or rings.                                *)
LEMMA ChefMoves ==
  ASSUME IInv, NEW c \in Chefs, UNCHANGED <<next, pressure, orders, mgmt>>, BellTypes',
         \A d \in Chefs \ {c} : reduced'[d] = reduced[d] /\ chef'[d] = chef[d],
         bell => bell',
         WillRing(c) => WillRing(c)' \/ (bell' /\ reduced'[c] /\ chef'[c] = "ringNotify"),
         chef[c] = "ringNotify" => mgmt # "wait"
  PROVE  IInv'
<1>1. \A d \in Chefs : Fits(d)' <=> Fits(d)
  BY DEF Fits
<1>2. ScannedRing'
  BY <1>1 DEF IInv, ScannedRing, Scanned, WillRing
<1>3. BellNotMissed'
  BY <1>1 DEF IInv, BellNotMissed, WillRing, Fits
<1> QED
  BY <1>2, <1>3 DEF IInv, ScanStarts

(* notifyAll on a chef's monitor makes a waiting chef go on. *)
LEMMA NotifyKept ==
  ASSUME IInv, NEW c \in Chefs, Notify(c), UNCHANGED <<next, pressure, reduced, orders, bell, mgmt>>
  PROVE  IInv'
<1>1. BellTypes' /\ \A d \in Chefs \ {c} : chef'[d] = chef[d]
  BY DEF IInv, BellTypes, Notify
<1>2. chef[c] # "wait" => chef'[c] = chef[c]
  BY DEF IInv, BellTypes, Notify
<1> QED
  BY <1>1, <1>2 DEF IInv, ScannedRing, Scanned, Fits, WillRing, ScanStarts, BellNotMissed

LEMMA MgmtStep ==
  ASSUME IInv, Mgmt
  PROVE  IInv'
<1> USE DEF IInv
<1>1. CASE MgmtLoop
  <2>1. next = 1 /\ next' = next /\ mgmt' \in {"scan", "stop"}
    BY <1>1 DEF MgmtLoop, ScanStarts, mgmtVars
  <2>2. \A c \in Chefs : ~Scanned(c)'
    BY <2>1, ChefNumbers DEF Scanned
  <2> QED
    BY <1>1, <2>1, <2>2 DEF MgmtLoop, BellTypes, ScannedRing, ScanStarts, BellNotMissed, chefVars
<1>2. CASE MgmtAsk
  <2>1. UNCHANGED <<pressure, reduced, chef, orders, bell>> /\ mgmt = "scan"
    BY <1>2 DEF MgmtAsk, chefVars
  <2>2. CASE Fits(next)
    BY <1>2, <2>1, <2>2 DEF MgmtAsk, Fits, BellTypes, ScannedRing, Scanned, ScanStarts, BellNotMissed
  <2>3. CASE ~Fits(next)
    <3>1. IF next = NChefs THEN mgmt' = "bell" /\ next' = 1 ELSE next' = next + 1 /\ mgmt' = "scan"
      BY <1>2, <2>1, <2>3 DEF MgmtAsk, Fits
    <3>2. BellTypes'
      BY <2>1, <3>1, ChefNumbers DEF BellTypes
    <3>3. \A c \in Chefs : Scanned(c)' => Scanned(c) \/ c = next
      BY <2>1, <3>1, ChefNumbers DEF Scanned, BellTypes
    <3>4. ScannedRing'
      BY <2>1, <2>3, <3>3 DEF ScannedRing, Fits, WillRing
    <3> QED
      BY <3>1, <3>2, <3>4 DEF ScanStarts, BellNotMissed
  <2> QED
    BY <2>2, <2>3
<1>3. CASE MgmtTake \/ MgmtAdd
  BY <1>3 DEF MgmtTake, MgmtAdd, BellTypes, ScannedRing, Scanned, ScanStarts, BellNotMissed, chefVars
<1>4. CASE MgmtNotify
  BY <1>4, ChefNumbers DEF MgmtNotify, Notify, BellTypes, ScannedRing, Scanned, ScanStarts, BellNotMissed, chefVars
<1>5. CASE MgmtBell
  <2>1. next = 1 /\ UNCHANGED bellVars /\ mgmt = "bell" /\ mgmt' = IF bell THEN "loop" ELSE "wait"
    BY <1>5 DEF MgmtBell, ScanStarts, bellVars, chefVars
  <2> QED
    BY <2>1 DEF bellVars, BellTypes, ScannedRing, Scanned, Fits, WillRing, ScanStarts, BellNotMissed
<1>6. CASE MgmtStop \/ MgmtPoison \/ MgmtEnd
  BY <1>6 DEF MgmtStop, MgmtPoison, MgmtEnd, BellTypes, ScannedRing, Scanned, ScanStarts, BellNotMissed, chefVars
<1>7. CASE MgmtStopNotify
  <2>1. next' \in Chefs /\ mgmt' \in {"await", "stop"}
    BY <1>7, ChefNumbers DEF MgmtStopNotify, BellTypes
  <2> QED
    BY <1>7, <2>1 DEF MgmtStopNotify, Notify, BellTypes, ScannedRing, Scanned, ScanStarts, BellNotMissed, chefVars
<1> QED
  BY <1>1, <1>2, <1>3, <1>4, <1>5, <1>6, <1>7 DEF Mgmt

LEMMA ChefStep ==
  ASSUME IInv, NEW c \in Chefs, Chef(c)
  PROVE  IInv'
<1>1. CASE ChefLoop(c) \/ ChefPoll(c) \/ ChefDies(c)
  <2>1. BellTypes'
    BY <1>1 DEF ChefLoop, ChefPoll, ChefDies, IInv, BellTypes, mgmtVars, chefVars
  <2> QED
    BY <1>1, <2>1, ChefMoves DEF ChefLoop, ChefPoll, ChefDies, IInv, BellTypes, WillRing, mgmtVars, chefVars
<1>2. CASE ChefLook(c)
  <2>1. BellTypes' /\ UNCHANGED <<next, pressure, orders, mgmt, reduced, bell>> /\ chef[c] = "look"
    BY <1>2 DEF ChefLook, IInv, BellTypes, mgmtVars
  <2>2. (\A d \in Chefs \ {c} : chef'[d] = chef[d]) /\ (reduced[c] => chef'[c] \in {"look", "deduct", "ring"})
    BY <1>2 DEF ChefLook, IInv, BellTypes
  <2> QED
    BY <2>1, <2>2, ChefMoves DEF WillRing
<1>3. CASE ChefDeduct(c)
  <2>1. /\ UNCHANGED <<next, orders, mgmt, bell>> /\ reduced'[c] /\ chef'[c] = "look"
        /\ \A d \in Chefs \ {c} : /\ reduced'[d] = reduced[d] /\ chef'[d] = chef[d]
                                  /\ pressure'[d] = pressure[d]
    BY <1>3 DEF ChefDeduct, IInv, BellTypes, mgmtVars
  <2>2. BellTypes'
    BY <1>3 DEF ChefDeduct, IInv, BellTypes, mgmtVars
  <2>3. ScannedRing'
    BY <2>1 DEF IInv, ScannedRing, Scanned, Fits, WillRing
  <2>4. BellNotMissed'
    BY <2>1 DEF IInv, BellNotMissed
  <2> QED
    BY <2>1, <2>2, <2>3, <2>4 DEF IInv, ScanStarts
<1>4. CASE ChefRing(c)
  <2>1. BellTypes'
    BY <1>4 DEF ChefRing, IInv, BellTypes, mgmtVars, chefVars
  <2> QED
    BY <1>4, <2>1, ChefMoves DEF ChefRing, IInv, BellTypes, WillRing, mgmtVars, chefVars
<1>5. CASE ChefRingNotify(c)
  <2>1. /\ BellTypes' /\ UNCHANGED <<next, pressure, orders, bell>> /\ chef[c] = "ringNotify"
        /\ mgmt' = (IF mgmt = "wait" THEN "loop" ELSE mgmt)
        /\ \A d \in Chefs \ {c} : reduced'[d] = reduced[d] /\ chef'[d] = chef[d]
    BY <1>5 DEF ChefRingNotify, IInv, BellTypes
  <2> QED
    BY <2>1 DEF IInv, ScannedRing, Scanned, Fits, WillRing, ScanStarts, BellNotMissed
<1> QED
  BY <1>1, <1>2, <1>3, <1>4, <1>5 DEF Chef

(* Cooks and delivery persons do no more than notify a chef. *)
LEMMA OthersStep ==
  ASSUME IInv, Cooks \/ Delivery
  PROVE  IInv'
<1>1. ASSUME NEW o \in Orders, CookWholeOrder(o) PROVE IInv'
  BY <1>1, NotifyKept DEF CookWholeOrder, mgmtVars, chefVars
<1>2. ASSUME UNCHANGED bellVars, UNCHANGED mgmt PROVE IInv'
  BY <1>2 DEF bellVars, IInv, BellTypes, ScannedRing, Scanned, Fits, WillRing, ScanStarts, BellNotMissed
<1>3. ASSUME NEW o \in Orders, FutureDone(o) PROVE IInv'
  BY <1>2, <1>3 DEF FutureDone, mgmtVars, chefVars, bellVars
<1>4. ASSUME NEW d \in Dishes, Cook(d) PROVE IInv'
  BY <1>2, <1>4 DEF Cook, mgmtVars, chefVars, bellVars
<1>5. ASSUME NEW g \in Guys, GuyTake(g) \/ GuyDeliver(g) PROVE IInv'
  BY <1>2, <1>5 DEF GuyTake, GuyDeliver, mgmtVars, chefVars, bellVars
<1> QED
  BY <1>1, <1>3, <1>4, <1>5 DEF Cooks, Delivery

(* A wait() that returns by itself. *)
LEMMA SpuriousStep ==
  ASSUME IInv, Spurious
  PROVE  IInv'
<1>1. CASE mgmt = "wait" /\ mgmt' = "loop" /\ UNCHANGED chef
  BY <1>1 DEF Spurious, IInv, BellTypes, ScannedRing, Scanned, ScanStarts, BellNotMissed, chefVars
<1>2. CASE \E c \in Chefs : chef[c] = "wait" /\ Notify(c) /\ UNCHANGED mgmt
  BY <1>2, NotifyKept DEF Spurious, chefVars
<1> QED
  BY <1>1, <1>2 DEF Spurious

LEMMA InitIInv == Init => IInv
<1> SUFFICES ASSUME Init PROVE IInv
  OBVIOUS
<1>1. BellTypes
  BY ChefNumbers DEF Init, BellTypes
<1> QED
  BY <1>1 DEF Init, IInv, ScannedRing, Scanned, ScanStarts, BellNotMissed

LEMMA NextIInv == IInv /\ [Next]_vars => IInv'
<1> SUFFICES ASSUME IInv, [Next]_vars PROVE IInv'
  OBVIOUS
<1>1. CASE UNCHANGED vars
  BY <1>1 DEF vars, mgmtVars, chefVars, IInv, BellTypes, ScannedRing, Scanned, Fits, WillRing, ScanStarts,
     BellNotMissed
<1> QED
  BY <1>1, MgmtStep, ChefStep, OthersStep, SpuriousStep DEF Next, Ended

(* The management does not sleep while a chef could take the next order,      *)
(* unless that chef is about to ring the bell: the bell it resets before it   *)
(* asks and tests before it waits (Management.java) misses no reduction of a  *)
(* pressure that comes in between.                                           *)
THEOREM RestaurantBellNotMissed == Spec => []BellNotMissed
<1>1. IInv => BellNotMissed
  BY DEF IInv
<1> QED
  BY <1>1, InitIInv, NextIInv, PTL DEF Spec
=============================================================================
