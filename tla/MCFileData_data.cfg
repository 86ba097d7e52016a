CONSTANTS
    a = a  b = b
    Fronts = {"fuse", "sqlite", "lowlevel"}
    Threads = {t1, t2}
    Handles = {h1, h2}
    Names = {tags, f}
    TagFile = tags
    Inodes <- MCInodes
    Values = {a, b}
    Dump <- MCDump
    Given <- MCGiven
    MaxLen = 2
    MaxCalls = 7
SPECIFICATION Spec
INVARIANTS TypeOK DatabaseKept
PROPERTIES ReadsAnswer WritesLand
SYMMETRY Same
CHECK_DEADLOCK FALSE
