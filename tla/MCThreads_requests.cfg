CONSTANTS
    f1 = f1  f2 = f2
    Threads = {p, q}
    Files = {f1, f2}
    DbFiles = {f1}
    MaxStructs = 3
    MaxCopies = 2
    MaxRef = 9
    MaxRequests = 4
SPECIFICATION Spec
INVARIANTS TypeOK FileTagsAllocated FreedOnlyAfterRace AgreeWithoutRace
PROPERTIES EveryRequestEnds
