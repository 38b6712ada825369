SPECIFICATION MCHookSpec
CONSTANTS
    Names <- MCNames
    None = None
    Bad = Bad
    Settings <- MCSettings
    MaxChanges = 0
    MaxEdits = 0
    Manifests = {"m1", "m2", "m3"}
    Nobody = Nobody
    Commands <- MCCommands
    Origins = {o1}
    MaxRuns = 2
    MaxShells = 1
INVARIANT NeverAskedTwice
