SPECIFICATION Spec
CONSTANTS
    i1 = i1  i2 = i2  i3 = i3  i4 = i4  i5 = i5
    Uses = {"task"}
    Inode = {i1, i2, i3, i4, i5}
    NoFile = NoFile
    Empty = Empty
    Torn = Torn
    Writers = 0
    Key = {1, 2}
    LineSize <- MCLineSize
    Cap = 2
    MaxRuns = 0
    None = None
    Messages = 0
    Threads = 2
    Limit = 1
    Resumes = 2
    MaxAtWork = 2
    MaxUnread = 0
CHECK_DEADLOCK FALSE
INVARIANT ReadersSeeWholeMeta
