SPECIFICATION InstallSpec
CONSTANTS
    Packages <- MCPackages
    None = none
    none = none
    Lists <- MCLists
INVARIANTS
    InstallTypeOK
    WaitsEnd
    ClosuresWhole
    ReportTrue
PROPERTY
    RunEnds
CHECK_DEADLOCK FALSE
