CONSTANTS
    Dim = 2
    Extent = 3
    Surface = 7
    Deep = 15
    MaxNodes = 8
    MaxDist = 2
    MaxThings = 3
    MaxFrame = 60
    HalfBytes = 2
    Rounds = 8
    SealedSize = 48
    MostCounted = 6
    Paths <- MCPaths
    Views <- MCViews
    Maps <- MCMaps
    Mails <- MCMails
    Letters <- MCLetters
    Orders <- Orderly
    Logins <- MCLogins
    Strips <- MCStrips
    Looks <- MCLooks
    Blows <- MCBlows
    Shots <- MCShots
    Dinners <- MCDinners
    Days <- MCDays
SPECIFICATION Spec
CHECK_DEADLOCK FALSE
INVARIANTS PathsLead SightIsMutual MapsLoad MessagesArrive RulesHold
PROPERTIES SearchEnds
