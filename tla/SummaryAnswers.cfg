SPECIFICATION SummarySpec
CONSTANTS
    WindowCount = 2
    Sources = {s1, s2}
    Slots = {r1}
    NoSlot = NoSlot
    MaxPages = 1
    MaxRuns = 1
    MaxTurns = 1
    MaxFaults = 1
PROPERTIES
    DispatchEnds
    SavedIsShown
CHECK_DEADLOCK FALSE
