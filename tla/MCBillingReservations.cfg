SPECIFICATION ReservationSpec
CONSTANTS
  Tenants = {t1}
  Requests = {q1, q2}
  Usages = {q1, q2}
  Callers = {c1, c2}
  Keys = {k1, k2}
  Amounts = {1, 2}
  Expiries = {1}
  Overrides = {FALSE}
  Lookback = 0
  Lookahead = 0
  Funds = 3
  MaxNow = 0
  MaxVersion = 5
SYMMETRY Symm
CHECK_DEADLOCK FALSE
INVARIANTS LedgerMatchesReservations NothingStranded BooksBalance
PROPERTY ImplementsCreditHolds
