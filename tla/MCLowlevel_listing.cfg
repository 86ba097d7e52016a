CONSTANTS
    f1 = f1  f2 = f2  x = x  y = y
    Files = {f1, f2}
    TagFile = f1
    Later = {}
    Tags = {x, y}
    Db <- MCDb2
    Nums = {1, 2, 3, 4, 5}
    FileNum <- MCFileNum
    W = 4
    MaxKnown = 2
    MaxDepth = 2
    Requests = {"readdir"}
SPECIFICATION Spec
INVARIANTS ListingAnswers
