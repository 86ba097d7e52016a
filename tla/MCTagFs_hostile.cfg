CONSTANTS
    f1 = f1  f2 = f2  x = x  y = y
    Files = {f1}
    Tags = {x, y}
    OtherNames = {other}
    Dirs <- MCDirsNested
    Handles = {h1}
    MaxStructs = 3
    MaxRef = 3
    Db <- MCDb
    Closed = Closed  Dir = Dir  NoDentry = NoDentry
    CacheEntries = TRUE
    StrayHandles = TRUE
    MovesDirs = TRUE
SPECIFICATION Spec
INVARIANTS TypeOK FileTagsAllocated EntriesSound RequestsKeepWord

VIEW MCView
