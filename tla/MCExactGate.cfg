CONSTANTS
    plain = plain
    reported = reported
    byRate = byRate
    small = small
    large = large
    dust = dust
    funded = funded
    Pools = 4
    Offered <- MCOffered
    Unread <- MCUnread
    Rated = byRate
    Size <- MCSize
    MathsVersions = {1, 2}
    Agrees <- MCAgrees
    Balances = {dust, funded}
    Quotes <- MCQuotes
    MASS_REFUSAL_FLOOR = 2
    MASS_REFUSAL_SHARE = 40
    MaxFaults = 2
    MaxChanges = 1
SPECIFICATION Spec
INVARIANTS
    ModelsReproduce
    WhatReproducesIsModelled
CHECK_DEADLOCK FALSE
