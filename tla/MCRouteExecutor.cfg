SPECIFICATION Spec
CONSTANTS
  A = A  B = B  C = C  E = E  ab = ab  ac = ac  cb = cb  weth = weth
  alice = alice  bob = bob
  NATIVE = E  Router = Router  NoCall = NoCall  NoSlot = NoSlot
  Token <- MCToken
  Pool <- MCPool
  User = {alice, bob}
  Calls <- MCCalls
  Endowment <- MCEndowment
  FeeOnTransfer = {}
  RoundsDown = {}
  MAX_SLOTS = 3
  BPS = 10
  MaxPay = 2
  MaxTxs = 2
  MaxGift = 1
INVARIANTS
  CallerIsPaidInFull
PROPERTY
  ExecutesTheWalk
CHECK_DEADLOCK FALSE
