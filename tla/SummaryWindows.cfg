SPECIFICATION SummarySafety
CONSTANTS
    WindowCount = 1
    Sources = {s1}
    Slots = {r1, r2}
    NoSlot = NoSlot
    MaxPages = 2
    MaxRuns = 2
    MaxTurns = 2
    MaxFaults = 1
SYMMETRY SlotSymmetry
INVARIANTS
    DispatchOnce
    PaidIsCharged
    WindowsTrackOperations
PROPERTY
    SummariesFinal
CHECK_DEADLOCK FALSE
