CONSTANTS
    a = a  b = b
    Fronts = {"lowlevel"}
    Threads = {t1, t2}
    Handles = {h1, h2}
    Names = {tags, f}
    TagFile = tags
    Inodes <- MCInodes
    Values = {a, b}
    Dump <- MCDump
    Given <- MCGiven
    MaxLen = 2
    MaxCalls = 5
SPECIFICATION Spec
PROPERTIES ReadsContent
SYMMETRY Same
CHECK_DEADLOCK FALSE
