CONSTANTS
    N = 3
    d = d
    top = top
    c1 = c1
    c2 = c2
    Dirs <- MCDirs
    DirOf <- MCDirOf
    TopDir <- top
    Content <- MCContent
    Absent = Absent
SPECIFICATION FairSpec
INVARIANTS
    OriginalsSurvive
    RefusedWhereUndone
PROPERTIES
    ImplementsInterruptibleInstall
    StuckOnlyInUndo
    LeftoverIsResolved
