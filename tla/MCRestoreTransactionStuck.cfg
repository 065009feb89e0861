CONSTANTS
    N = 2
    d = d
    top = top
    c1 = c1
    c2 = c2
    Dirs <- MCDirs
    DirOf <- FlatDirOf
    TopDir <- top
    Content <- MCContent
    Absent = Absent
SPECIFICATION KillSpec
INVARIANTS
    RefusalLeavesPrior
