SPECIFICATION FairChangeSpec
CONSTANTS
    dotfile = dotfile
    copied = copied
    font = font
    dock = dock
    s1 = s1
    Targets = {font, dock}
    Kind <- MCKind
    Sources = {s1}
    UserFiles = {}
    UserLinks = {}
    Nothing = Nothing
    Partial = Partial
    Contents <- MCContents
    MaxGen = 2
    Texts = {text1}
    NoFile = NoFile
    NoGen = NoGen
    NoPending = NoPending
    System = {font}
    Commands = {"adopt", "sync", "rollback", "gc"}
    Failing <- AllSteps
    MaxFaults = 2
    MaxEdits = 0
PROPERTIES SystemScopeKept AdoptionUndone ChangesEnd
