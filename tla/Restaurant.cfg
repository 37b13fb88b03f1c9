SPECIFICATION Spec
CONSTANTS
  o1 = o1
  o2 = o2
  o3 = o3
  OrderList <- MCOrderList
  Difficulty <- MCDifficulty
  Dishes <- MCDishes
  DishesOf <- MCDishesOf
  NTools = 2
  Quantity <- MCQuantity
  Need <- MCNeed
  Endurance <- MCEndurance
  Guys = {g1}
  Poison = Poison
INVARIANTS
  TypeOK
  OrderOnce
  BellNotMissed
  AllDelivered
  CooksGoOn
PROPERTY Closes
CHECK_DEADLOCK FALSE
