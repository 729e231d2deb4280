SPECIFICATION FairSpec
CONSTANTS
  t1 = t1
  t2 = t2
  q1 = q1
  q2 = q2
  e1 = e1
  e2 = e2
  e3 = e3
  prompt = prompt
  other = other
  Tenants = {t1}
  Requests = {q1}
  Executions = {e1, e2, e3}
  Persistent = {e1, e3}
  RequestOf <- SharedRequest
  InputOf <- MixedInput
  Funds = 4
  MaxNow = 2
  MaxCalls = 1
  Results = {"short", "long"}
  Failures = {"unavailable", "unsafe"}
  ChargeAt <- Prices
  Amounts = {1, 2}
  Estimate = 2
  Ttl = 2
  MaxVersion = 9
CHECK_DEADLOCK FALSE
INVARIANTS ChargeMatchesOutcome EventsTellOutcomes
PROPERTIES FirstAnswerStays ResultsCaptured FailuresReleased
