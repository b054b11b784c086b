SPECIFICATION Spec
CONSTANTS
  A = A  B = B  W = W  E = E  p = p  q = q  r = r  alice = alice  bob = bob
  NATIVE = E
  Router = Router  NoToken = NoToken  NoCall = NoCall
  Token <- MCToken
  Pool <- MCPool
  User = {alice, bob}
  Coins <- MCCoins
  ShareToken <- MCShareToken
  Underlying <- MCUnderlying
  ONE = 4
  Calls <- MCCalls
  Endowment <- MCEndowment
  FeeOnTransfer = {}
  RoundsDown = {W}
  TakesForNothing = {}
  MaxPay = 2
  MaxTxs = 2
  MaxGift = 1
INVARIANTS
  RouterKeepsNothing
  AnswerIsWhatTheLegsEarned
  ReceiverIsPaid
PROPERTIES
  NoAllowanceOverwritten
CHECK_DEADLOCK FALSE
