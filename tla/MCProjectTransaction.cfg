\* A directory in a directory, a file in the inner one and a file in the root.
CONSTANTS
    N = 4
    Dirs <- TreeDirs
    Parent <- TreeParent
    c1 = c1
    c2 = c2
    Content <- MCContent
    Absent = Absent
SPECIFICATION FairSpec
INVARIANTS
    BackupsUntilRestored
    CommittedIsWhole
    RefusalIsHarmless
PROPERTIES
    ImplementsAtomicInstall
    LeftoverIsResolved
