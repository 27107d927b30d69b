SPECIFICATION FairSpec
CONSTANTS
  h1 = h1
  h2 = h2
  ann = ann
  ben = ben
  cat = cat
  Nobody = Nobody
  None = None
  Threads = {h1, h2}
  Users = {ann, ben, cat}
  Inviters = {ann}
  Price = 10
  Values <- MCValues
  MaxChanges = 1
  MaxFailures = 1
  Initial <- MCInitial
  Bonus = 0
INVARIANTS CommissionExact CommissionCap FreeConfigOnce
PROPERTIES Converges CallsEnd
CHECK_DEADLOCK FALSE
