CONSTANTS
    Lines <- MixedLines
    NoText = NoText
    Dates <- TwoDays
    Today = "today"
    PickedRows <- Far
    MaxSaves = 1
    MaxShown = 2
SPECIFICATION CSpec
INVARIANTS ShownIsKept TextIsOwn
CHECK_DEADLOCK FALSE
