SPECIFICATION Spec
CONSTANTS
    a = a
    b = b
    c1 = c1
    c2 = c2
    Nodes = {a, b}
    Contents = {c1, c2}
    Refused = {c2}
    Names = {n1}
    n1 = n1
    Link = Link
    Absent = Absent
    Torn = Torn
    None = None
    MaxGenerations = 1
    MaxChanges = 2
    MaxFaults = 1
INVARIANTS
    ArchiveAccountsForAll
    NothingHalfRestored
    OneGenerationRestored
PROPERTIES
    InterruptedRestoreIsUndone
