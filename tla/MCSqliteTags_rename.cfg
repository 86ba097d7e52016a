CONSTANTS
    f1 = f1  f2 = f2  gone = gone  x = x  y = y
    Files = {f1, f2}
    Tags = {x, y}
    Sql <- MCSql
    Db <- MCNoDb
    MaxIds = 3
    MovedDirs = {y}
    Dirs <- MCDirs
    Handles = {h1}
    NoTag = NoTag
SPECIFICATION Spec
INVARIANTS RenameMoves
