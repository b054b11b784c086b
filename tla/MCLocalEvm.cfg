SPECIFICATION Spec
CONSTANTS
  pool = pool  oracle = oracle  other = other
  rate = rate  fee = fee  round_id = round_id  answer = answer  hash = hash
  Accounts = {pool, oracle, other}
  Slots = {rate, fee, round_id, answer}
  Blocks = {}
  Home <- MCHome
  Funded = {pool}
  Cached = {other}
  Fatal = {fee, round_id}
  Stages <- MCStages
  FILL_ROUNDS = 8
  MaxFills = 2
INVARIANTS
  CompleteMeansRead
  OnlyTheRefusedAreUnreadable
CHECK_DEADLOCK FALSE
