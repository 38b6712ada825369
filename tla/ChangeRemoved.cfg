SPECIFICATION ChangeSpec
CONSTANTS
    dotfile = dotfile
    copied = copied
    font = font
    dock = dock
    s1 = s1
    Targets = {dock}
    Kind <- MCKind
    Sources = {s1}
    UserFiles = {}
    UserLinks = {}
    Nothing = Nothing
    Partial = Partial
    Contents <- MCContents
    MaxGen = 2
    Texts = {text1}
    NoFile = NoFile
    NoGen = NoGen
    NoPending = NoPending
    System = {}
    Commands = {"sync"}
    Failing = {"crash"}
    MaxFaults = 1
    MaxEdits = 0
INVARIANT ExposedIsPlaced
