SPECIFICATION ChangeSpec
CONSTANTS
    dotfile = dotfile
    copied = copied
    font = font
    dock = dock
    s1 = s1
    Targets = {dotfile, copied, dock}
    Kind <- MCKind
    Sources = {s1, s2}
    UserFiles = {mine}
    UserLinks = {}
    Nothing = Nothing
    Partial = Partial
    Contents <- FewContents
    MaxGen = 2
    Texts = {text1}
    NoFile = NoFile
    NoGen = NoGen
    NoPending = NoPending
    System = {}
    Commands = {"sync", "rollback", "gc"}
    Failing <- AllSteps
    MaxFaults = 1
    MaxEdits = 1
INVARIANTS StateMatches OwnKept PriorIsOwn
PROPERTY UserFileStays
