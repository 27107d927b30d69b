SPECIFICATION Spec
CONSTANTS
  alice = alice
  bob = bob
  b1 = b1
  b2 = b2
  m1 = m1
  m2 = m2
  w1 = w1
  w2 = w2
  NoUser = NoUser
  NoOrder = NoOrder
  Nobody = Nobody
  Users = {alice}
  OrderIds = {1, 2}
  Configs = {1, 2, 3}
  Stock = {1, 2}
  StartCredit = 1
  Instances = {"bot"}
  Handlers = {b1, b2}
  Looped = {"mini"}
  Offered = {"bank"}
  OnceNamed = {1, 2}
  Deltas <- MCDeltas
  Price = 1
  CodePercent = 0
  CodeValue = 1
  CodeActive = FALSE
  MaxUses = 1
  MaxQty = 2
  MaxCredit = 1
  MaxFailures = 0
  InstOf <- MCInstOf
SYMMETRY BotSymmetry
PROPERTIES SaleIsAtomic
CHECK_DEADLOCK FALSE
