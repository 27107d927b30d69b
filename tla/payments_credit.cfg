SPECIFICATION Spec
CONSTANTS
  t1 = t1
  o1 = o1
  o2 = o2
  o3 = o3
  i1 = i1
  i2 = i2
  m1 = m1
  m2 = m2
  b1 = b1
  NoInvoice = NoInvoice
  NoRef = NoRef
  Refs = {t1}
  KindOf <- MCKindOf
  Invoices = {i1, i2}
  Gateways = {"own"}
  VerifyEnabled = TRUE
  Handlers = {m1, m2, b1}
  InstOf <- MCInstOf
  MaxVerdicts = 1
  MaxFailures = 0
SYMMETRY Symmetry
INVARIANTS CreditsAreBacked
CHECK_DEADLOCK FALSE
