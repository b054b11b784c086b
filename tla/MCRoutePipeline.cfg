CONSTANTS
    c0 = c0
    wide = wide
    swap = swap
    chain2 = chain2
    refit = refit
    Ballot = {c0, wide}
    Base = c0
    Direct = {swap}
    TwoStep = {chain2}
    Refit = refit
    Shapes <- MCShapes
    MaxOut = 12
    Outs = {0, 9, 11}
    Float <- MCFloat
    LEG_GAS = 1
    TIE_PARTS = 6
    MARGIN = 1
    SCOUT_CANDIDATES = 3
    MAX_SLOTS = 6
    MaxLegs = 4
    None = None
SPECIFICATION Spec
INVARIANTS
    PublishedIsWhatWasQuoted
    PublishedFits
    NeverBelowDirect
    WinnerIsTheRankings
PROPERTY TuningNeverCosts
CHECK_DEADLOCK FALSE
