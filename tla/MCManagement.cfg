CONSTANTS
    Clients = {p, q}
    Keys = {k, l}
    Values = {v, w}
    k = k
    l = l
    v = v
    w = w
    Asked <- MCAsked
    None = None
    Mixed = Mixed
SPECIFICATION FairSpec
INVARIANTS
    GateExclusive
PROPERTIES
    ActsOnWhatIsThere
    ChangesAreRecorded
    SucceededIsTrue
    GetsItsTurn
