SPECIFICATION FairSpec
CONSTANTS
    c1 = c1
    c2 = c2
    Conn = {c1, c2}
    ann = ann
    Char = {ann}
    NoChar = NoChar
    InboxCap = 2
    PushCap = 1
    MaxVersion = 1
    MaxFaults = 0
    MaxCrashes = 0
PROPERTIES
    LoginsAnswered
    ClosedPlayersLeave
    ShutdownCompletes
