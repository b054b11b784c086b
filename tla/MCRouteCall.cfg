SPECIFICATION EncodingSpec
CONSTANTS
  A = A  B = B  S = S  W = W  E = E  x = x  w = w  d = d  alice = alice  bob = bob
  NATIVE = E  NoToken = NoToken  NaN = NaN  NOBODY = NOBODY
  Token <- MCToken
  Pool <- MCPool
  Coins <- MCCoins
  ShareToken <- NoGetters
  Underlying <- NoGetters
  ONE = 30
  SHARE_ONE = 100  MAX_RATE = 100000  MAX_LEGS = 8  MAX_TOKENS = 8
  FEE_SHARE = 5  FLOOR = 1  VOLATILE_FLOOR = 25
  Amounts <- SmallAmounts
  Pieces = {0, 1, 2, 3, 5, 7, 8, 10, 12, 16, 31, 47, 95}
  Shares = {0, 1, 2, 5, 13, 40, 99, 100}
  BISECTIONS = 6
  Drops <- SomeDrops
  Totals = {0, 7, 30}
INVARIANTS
  QuoteClearsItsBound
  NoLooserThanGranted
  FractionsAreTheSplit
  CallMeansTheRoute
  BudgetIsSpentOnce
CHECK_DEADLOCK FALSE
