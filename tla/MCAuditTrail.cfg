SPECIFICATION TrailFairSpec
CONSTANTS
  Owners = {"dispatcher"}
  LeaseTicks = 1
  MaxWait = 1
  Records = {i1,i2}
  Workers = {w1,w2}
  OwnerOf <- SharedOwner
  MaxAttempts = 2
  MaxRefusals = 1

  Tenants = {"t1"}
  Contents = {"a", "b"}
  Sources <- TwoSources
  EventOf <- Repeated
  MaxLength = 2
  Callers = {}
  Policies = {}
  MaxVersion = 0
  MaxDamage = 0
  MaxCheckpoints = 0
  MaxExports = 0
CHECK_DEADLOCK FALSE
INVARIANTS AcceptedWasPublished OneClaimant AuditedExactlyOnce TriesBounded
PROPERTIES TerminalForGood ResolvedOrStuck
