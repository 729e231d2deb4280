SPECIFICATION FairSpec
CONSTANTS
  Owners = {"notification-dispatcher"}
  LeaseTicks = 1
  MaxWait = 2
  Notifications = {n1}
  Templates = {"welcome"}
  TemplateOf <- SameTemplate
  Recipients = {"subject"}
  RecipientOf <- SameRecipient
  Workers = {w1, w2, w3}
  Limits = {2, 3}
  MaxTemplate = 2
CHECK_DEADLOCK FALSE
INVARIANTS InStep HistoryTellsOutcome
PROPERTIES ResolvedForGood EventuallyResolved
