SPECIFICATION FairSpec
CONSTANTS
  t1 = t1
  t2 = t2
  q1 = q1
  q2 = q2
  e1 = e1
  e2 = e2
  e3 = e3
  prompt = prompt
  other = other
  Tenants = {t1}
  Requests = {q1}
  Executions = {e1}
  Persistent = {e1}
  RequestOf <- SharedRequest
  InputOf <- SameInput
  Funds = 3
  MaxNow = 0
  MaxCalls = 1
  Results = {"short"}
  Failures = {"unavailable"}
  ChargeAt <- Prices
  Amounts = {1, 2}
  Estimate = 2
  Ttl = 1
  MaxVersion = 9
CHECK_DEADLOCK FALSE
PROPERTY ResultsCaptured
