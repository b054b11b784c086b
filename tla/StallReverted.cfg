CONSTANTS
    Calls = 5
    Poisons = {{}, {4}}
    Reverts = {2}
    DEFAULT_BATCH = 3
    BATCH_FLOOR = 2
    BATCH_LADDER <- MCLadder
    Caps = {1, 2, 4}
    Workers = {w1, w2}
    ATTEMPTS = 2
    MaxFaults = 2
    Runs = 2
    Sweeps = 2
SPECIFICATION Spec
INVARIANTS
    DroppedReadsMissing
CHECK_DEADLOCK FALSE
