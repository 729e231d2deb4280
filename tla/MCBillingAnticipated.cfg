SPECIFICATION ReservationSpec
CONSTANTS
  Tenants = {t1}
  Requests = {q1, q2}
  Usages = {q1, q2}
  Callers = {c1, c2}
  Keys = {k1, k2}
  Amounts = {1}
  Expiries = {1}
  Overrides = {FALSE}
  Lookback = 0
  Lookahead = 1
  Funds = 3
  MaxNow = 0
  MaxVersion = 6
SYMMETRY Symm
CHECK_DEADLOCK FALSE
INVARIANT NeverExceedsReservation
