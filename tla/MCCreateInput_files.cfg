SPECIFICATION Spec
CONSTANTS
    Files <- AllFiles
    EditedFiles <- Histories
    Clouds <- AllClouds
    FlagSets <- AllFlags
    Passwords = {"p1", "p2"}
    MaxCalls = 2
    MaxEdits = 2
    MaxCuts = 1
CHECK_DEADLOCK FALSE
INVARIANTS CredentialsKept StoredWins RerunAccepted
