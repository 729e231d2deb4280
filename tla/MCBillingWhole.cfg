SPECIFICATION Spec
CONSTANTS
  Tenants = {t1}
  Requests = {q1}
  Usages = {q1}
  Callers = {c1, c2}
  Keys = {k1}
  Amounts = {1, 2}
  Expiries = {1, 2}
  Overrides = {TRUE, FALSE}
  Lookback = 0
  Lookahead = 0
  Funds = 0
  MaxNow = 1
  MaxVersion = 4
SYMMETRY Symm
CHECK_DEADLOCK FALSE
PROPERTIES MovesOncePerKey NoStaleWrite SettledForGood
