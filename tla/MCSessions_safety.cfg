SPECIFICATION Spec
CONSTANTS
    c1 = c1
    c2 = c2
    Conn = {c1, c2}
    ann = ann
    Char = {ann}
    NoChar = NoChar
    InboxCap = 2
    PushCap = 1
    MaxVersion = 2
    MaxFaults = 1
    MaxCrashes = 1
SYMMETRY Symmetry
INVARIANTS
    TypeOK
    OneRecordPerDeparture
    ProgressKept
    ShutdownLosesNothing
