SPECIFICATION AuditSpec
CONSTANTS
  Tenants = {"t1"}
  Contents = {a, b}
  Sources <- TwoSources
  Callers = {c1}
  Policies = {"p"}
  MaxLength = 3
  MaxVersion = 1
  MaxDamage = 2
  MaxCheckpoints = 1
  MaxExports = 1
SYMMETRY Symm
CHECK_DEADLOCK FALSE
INVARIANTS StreamsVerify CheckpointsTell ExportsVerify RecordedOnce
