SPECIFICATION MCHookSpec
CONSTANTS
    Names <- MCNames
    None = None
    Bad = Bad
    Settings <- MCSettings
    MaxChanges = 4
    MaxEdits = 2
    Manifests = {"m1", "m2", "m3"}
    Nobody = Nobody
    Commands <- MCCommands
    Origins = {o1}
    MaxRuns = 2
    MaxShells = 2
INVARIANTS PromptHolds ExecTrue AppliedIsAllowed ApprovalsHold
