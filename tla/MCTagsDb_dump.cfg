CONSTANTS
    f1 = f1  f2 = f2  x = x  y = y  h = h  b = b
    Files = {f1, f2}
    Tags = {x, y, h, b}
    ReadFile <- MCReadFile
    ReadTag <- MCReadTag
    Cut = cut
    NoFile = nofile
    Text <- MCText
    Chunk = 2
    MaxChanges = 2
SPECIFICATION Spec
INVARIANTS TypeOK DumpReadsBack TornSaveOnlyLoses ReadsWholeText
