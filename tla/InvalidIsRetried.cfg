SPECIFICATION SummarySpec
CONSTANTS
    WindowCount = 1
    Sources = {s1}
    Slots = {r1}
    NoSlot = NoSlot
    MaxPages = 1
    MaxRuns = 1
    MaxTurns = 1
    MaxFaults = 0
PROPERTY
    InvalidIsRetried
CHECK_DEADLOCK FALSE
