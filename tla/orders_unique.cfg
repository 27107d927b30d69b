SPECIFICATION Spec
CONSTANTS
  alice = alice
  bob = bob
  b1 = b1
  b2 = b2
  m1 = m1
  m2 = m2
  w1 = w1
  w2 = w2
  NoUser = NoUser
  NoOrder = NoOrder
  Nobody = Nobody
  Users = {alice}
  OrderIds = {1, 2}
  Configs = {1, 2}
  Stock = {1, 2}
  StartCredit = 2
  Instances = {"bot", "web"}
  Handlers = {b1, w1}
  Looped = {"mini"}
  Offered = {"bank"}
  OnceNamed = {1, 2}
  Deltas <- MCNoDeltas
  Price = 2
  CodePercent = 0
  CodeValue = 1
  CodeActive = FALSE
  MaxUses = 1
  MaxQty = 1
  MaxCredit = 2
  MaxFailures = 0
  InstOf <- MCInstOf
INVARIANTS ConfigUnique
CHECK_DEADLOCK FALSE
