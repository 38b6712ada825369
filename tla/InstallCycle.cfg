SPECIFICATION InstallSpec
CONSTANTS
    Packages <- MCPackages
    None = none
    none = none
    Lists <- SharedLists
INVARIANT
    CycleIsReal
CHECK_DEADLOCK FALSE
