SPECIFICATION Spec
CONSTANTS
    Paths <- MCPaths
    Class <- MCClass
    Closure <- MCClosure
    Big <- MCBig
    Settings <- PassSettings
    p1 = p1
    p2 = p2
    home = home
    proj = proj
    Procs = {p1, p2}
    NoProc = NoProc
    Profiles = {home, proj}
    Projects = {proj}
    System = {"app"}
INVARIANTS
    StoreHolds
    GcCollects
    CommandsGoOn
CHECK_DEADLOCK FALSE
