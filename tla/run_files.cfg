SPECIFICATION Spec
CONSTANTS
    i1 = i1  i2 = i2  i3 = i3  i4 = i4  i5 = i5
    Uses = {"facts", "mail", "task"}
    Inode = {i1, i2, i3, i4, i5}
    NoFile = NoFile
    Empty = Empty
    Torn = Torn
    Writers = 3
    Key = {1, 2}
    LineSize <- MCLineSize
    Cap = 2
    MaxRuns = 1
    None = None
    Messages = 3
    Threads = 2
    Limit = 1
    Resumes = 1
    MaxAtWork = 2
    MaxUnread = 1
CHECK_DEADLOCK FALSE
INVARIANTS
    TypeOK
    FactsReachWorkers
    ListingIsWhole
    PagesMissNothing
    MetaSettles
PROPERTY TailEnds
