CONSTANTS
    f1 = f1  f2 = f2  x = x  y = y
    Files = {f1, f2}
    Tags = {x, y}
    OtherNames = {other}
    Dirs <- MCDirs
    Handles = {h1}
    MaxStructs = 2
    MaxRef = 4
    Db <- MCDb
    Closed = Closed  Dir = Dir  NoDentry = NoDentry
    CacheEntries = FALSE
    StrayHandles = FALSE
    MovesDirs = FALSE
SPECIFICATION Spec
INVARIANTS UnlinkThroughSeveralTagsKeepsThem

VIEW MCView
