SPECIFICATION NetworkSpec
CONSTANTS
    None = None
    NoLogin = NoLogin
    Nothing = Nothing
    Bad = Bad
    Damaged = Damaged
    c1 = c1
    c2 = c2
    p1 = p1
    p2 = p2
    hub = hub
    api = api
    lab = lab
    berg = berg
    mine = mine
    cdn = cdn
    here = here
    u1 = u1
    u2 = u2
    x = x
    y = y
    j1 = j1
    j2 = j2
    Commands = {c1, c2}
    Packages = {p1, p2}
    Wants <- MCWants
    Hosts <- MCHosts
    Released <- MCReleased
    Drafts = {2}
    FirstSize = 1
    PageSize = 1
    MaxReleases = 3
    MaxHost = 3
    MaxFailures = 1
    Names <- MCNames
    Locals = {here}
    Resolves <- MCResolves
    Within <- MCWithin
    Policies <- MCPolicies
    Trusts <- MCTrusts
    APIHost = api
    WebHost = hub
    GitLabHost = lab
    CodebergHost = berg
    MaxRedirects = 3
    Sites = {u1, u2}
    Contents = {x, y}
    Jobs = {j1, j2}
    Calls <- MCCalls
    First = x
    MaxTicks = 3
    MaxChanges = 2
    MaxOwn = 3
    MaxNightlies = 2
    Misplaced = {3}
    Exposed = {i1, i2}
    System = {i2}
    Gone = Gone
SYMMETRY NetworkSymmetry
INVARIANTS AnswersHold LookupTrue RequestsKept GivenHolds SelfHolds
CHECK_DEADLOCK FALSE
