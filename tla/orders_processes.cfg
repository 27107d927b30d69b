SPECIFICATION Spec
CONSTANTS
  alice = alice
  bob = bob
  b1 = b1
  b2 = b2
  m1 = m1
  m2 = m2
  w1 = w1
  w2 = w2
  NoUser = NoUser
  NoOrder = NoOrder
  Nobody = Nobody
  Users = {alice}
  OrderIds = {1, 2}
  Configs = {1}
  Stock = {1}
  StartCredit = 1
  Instances = {"bot", "mini"}
  Handlers = {b1, m1}
  Looped = {"mini"}
  Offered = {"bank", "custom"}
  OnceNamed = {1}
  Deltas <- MCNoDeltas
  Price = 1
  CodePercent = 0
  CodeValue = 1
  CodeActive = TRUE
  MaxUses = 1
  MaxQty = 1
  MaxCredit = 2
  MaxFailures = 1
  InstOf <- MCInstOf
INVARIANTS TypeOK NothingLost RejectedRefunded NoStrandedConfig
PROPERTIES GiftsAreKnown BuildsAreKnown
CHECK_DEADLOCK FALSE
