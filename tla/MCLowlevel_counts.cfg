CONSTANTS
    f1 = f1  f2 = f2  x = x  y = y
    Files = {f1, f2}
    TagFile = f1
    Later = {f2}
    Tags = {x, y}
    Db <- MCDb
    Nums = {1, 2, 3, 4, 5}
    FileNum <- MCFileNum
    W = 4
    MaxKnown = 2
    MaxDepth = 2
    Requests = {"open", "link", "mkdir", "rmdir", "mknod", "unlink", "rename", "readdir", "ioctl"}
SPECIFICATION Spec
SYMMETRY MCSymmetry
VIEW MCView
INVARIANTS TypeOK KernelInodesExist NoInodeLeaks IndexesAgree
PROPERTIES ImplementsRelation
