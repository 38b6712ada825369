SPECIFICATION MCHookSpec
CONSTANTS
    Names <- MCNames
    None = None
    Bad = Bad
    Settings <- MCSettings
    MaxChanges = 3
    MaxEdits = 0
    Manifests = {"m1", "m2", "m3"}
    Nobody = Nobody
    Commands <- MCCommands
    Origins = {o1}
    MaxRuns = 0
    MaxShells = 1
INVARIANT DenyHolds
