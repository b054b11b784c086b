CONSTANTS
    a = a
    b = b
    e = e
    v = v
    c = c
    g = g
    A = A
    B = B
    C = C
    Weights = {1, 20}
    Node <- MCNode
    Token <- MCToken
    NodeOf <- MCNodeOf
    Canonical <- MCCanonical
    Alias = {e}
    Rate <- MCRate
    Arcs = 9
    TokenIn <- MCTokenIn
    TokenOut <- MCTokenOut
    PoolOf <- MCPoolOf
    Advanceable <- MCAdvanceable
    Flows <- MCFlows
    Caps <- MCCaps
    Queries <- MCQueries
    BPS = 10
    DUST_SHARE = 10
    Unit = 1200
SPECIFICATION RealizeSpec
INVARIANTS
    FlowStaysARoute
    NoLegIsWasted
    LegsAreInOrder
    EverythingArrives
    CapsTakeNoRemainder
PROPERTY EveryFlowRealizes
CHECK_DEADLOCK FALSE
