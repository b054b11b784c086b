SPECIFICATION Spec
CONSTANTS
  A = A  B = B  C = C  D = D  E = E  ab = ab  ac = ac  bc = bc  bd = bd  cd = cd
  alice = alice  bob = bob  NaN = NaN  NOBODY = NOBODY
  NATIVE = E
  Router = Router  NoToken = NoToken  NoCall = NoCall
  Token <- MCToken
  Pool <- MCPool
  User = {alice, bob}
  Coins <- MCCoins
  ShareToken <- None
  Underlying <- None
  ONE = 1000
  SHARE_ONE = 1000  MAX_RATE = 100000  MAX_LEGS = 8  MAX_TOKENS = 8
  FEE_SHARE = 5  FLOOR = 1  VOLATILE_FLOOR = 250
  Calls <- MCCalls
  Endowment <- MCEndowment
  FeeOnTransfer = {}
  RoundsDown = {}
  TakesForNothing = {}
  MaxPay = 5
  MaxTxs = 1
  MaxGift = 1
INVARIANTS
  GuaranteeKept
  NothingStranded
CHECK_DEADLOCK FALSE
