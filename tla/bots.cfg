SPECIFICATION BotsSpec
CONSTANTS
  t1 = t1
  t2 = t2
  a1 = a1
  Main = Main
  Tokens = {t1, t2}
  Names <- MCNames
  NameOf <- MCNameOf
  BotAdmins = {a1}
  MaxRows = 2
  MaxChanges = 1
  MaxMishaps = 1
PROPERTIES BotsConverge PurgesSettle StraysAreKnown
CHECK_DEADLOCK FALSE
