SPECIFICATION Spec
CONSTANTS
  Objects = {o1}
  Uploads = {u1, u2}
  ObjectOf <- SameObject
  Sources = {1, 2}
  RankOf <- Rank
  Clients = {d1}
  UploadTicks = 1
  Deadlines = {2, 3}
  Verdicts = {"clean", "infected"}
  MaxNow = 2
SYMMETRY Symm
CHECK_DEADLOCK FALSE
INVARIANTS HistoryAddsUp GrantsAreJustified
PROPERTY KeptAsPromised
