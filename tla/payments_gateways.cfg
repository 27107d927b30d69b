SPECIFICATION FairSpec
CONSTANTS
  t1 = t1
  o1 = o1
  o2 = o2
  o3 = o3
  i1 = i1
  i2 = i2
  m1 = m1
  m2 = m2
  b1 = b1
  NoInvoice = NoInvoice
  NoRef = NoRef
  Refs = {t1, o1, o2}
  KindOf <- MCKindOf
  Invoices = {i1}
  Gateways = {"aban", "own", "plisio"}
  VerifyEnabled = FALSE
  Handlers = {m1, b1}
  InstOf <- MCInstOf
  MaxVerdicts = 0
  MaxFailures = 1
INVARIANTS GivesWhatIsDue GrantedOnce
PROPERTIES CompletedStays PaidIsSettled
CHECK_DEADLOCK FALSE
