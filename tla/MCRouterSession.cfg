SPECIFICATION Spec
CONSTANTS
  modelled = modelled  live = live  Token = Token
  refresh = refresh  set_pair = set_pair  plan_call = plan_call
  Pools = {modelled, live}
  Exact = {modelled}
  Roving = {modelled}
  Funded = {live}
  Routes = {{modelled, live}}
  Tasks = {refresh, set_pair, plan_call}
  Kind <- MCKind
  MaxBlock = 2
  Lag = 1
  CATCH_UP_TRIES = 1
  MaxFaults = 1
  MaxCalls = 4
INVARIANTS
  QuotedAtThePin
  RefreshTells
  PlanIsWhatRan
  AgreedMeansApproved
CHECK_DEADLOCK FALSE
