SPECIFICATION FairSpec
CONSTANTS
  e1 = e1
  e2 = e2
  e3 = e3
  Executions = {e1, e2, e3}
  Providers = {"primary", "secondary"}
  RouteOf <- Routes
  MaxAttempts = 2
  Threshold = 2
  ResetTicks = 2
CHECK_DEADLOCK FALSE
PROPERTIES OpenUntilReset CoolsDown ExecutionsEnd
