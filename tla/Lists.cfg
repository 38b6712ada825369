SPECIFICATION UserSpec
CONSTANTS
    own = own
    b = b
    c = c
    d = d
    k1 = k1
    k2 = k2
    Own = own
    Absent = Absent
    Machines <- MCMachines
    Worlds <- MCWorlds
    Docs <- MCDocs
    Entries <- MCEntries
    Pkgs = {"p", "q"}
    Ages <- MCAges
    Longest = 2047
    Edits = 2
    Firsts <- MCFirsts
    Settings <- MCSettings
    Ciphers = {k1, k2}
    Nil = Nil
INVARIANTS IncludesTaken ListsMerged EntriesKept FilesHold
CHECK_DEADLOCK FALSE
