SPECIFICATION ExactSpec
CONSTANTS
  x = x  y = y  z = z  nil = nil  vault = vault
  NoSlot = NoSlot
  MAX_SLOTS = 4
  BPS = 10
  MAX_ROUTES = 3
  MAX_ALL_LEGS = 4
  GasLegs = 4
  MaxFaults = 2
  MaxRefusals = 1
  Pool <- MCPool
  Pays <- MCPays
  ModelSets <- MCModelSets
  Requests <- MCRequests
INVARIANTS
  QuotedAlone
  SplitIsOrderFree
  QuotedAsItPays
PROPERTY
  EveryFigureStands
CHECK_DEADLOCK FALSE
