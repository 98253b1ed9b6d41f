SPECIFICATION Spec
CONSTANTS
    Files <- HelmFiles
    EditedFiles <- HelmFiles
    Clouds <- OneCloud
    FlagSets <- NoFlags
    Passwords = {"p1"}
    MaxCalls = 2
    MaxEdits = 1
    MaxCuts = 0
CHECK_DEADLOCK FALSE
INVARIANT HelmCredentialsKept
