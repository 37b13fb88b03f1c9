---------------------------- MODULE MCRestaurant ----------------------------
(* Two chefs, three orders with four dishes that share two tools. *)
EXTENDS Restaurant

CONSTANTS o1, o2, o3
MCOrderList == <<o1, o2, o3>>
MCDifficulty == (o1 :> 1) @@ (o2 :> 1) @@ (o3 :> 2)
MCDishes == 1..4
MCDishesOf == (o1 :> {1, 2}) @@ (o2 :> {3}) @@ (o3 :> {4})
MCQuantity == <<1, 2>>
MCNeed == << <<1, 2>>, <<1, 1>>, <<0, 1>>, <<0, 0>> >>
MCEndurance == <<2, 1>>
=============================================================================
