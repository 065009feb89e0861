CONSTANTS
    a = a
    b = b
    c = c
    i = i
    j = j
    d1 = d1
    d2 = d2
    Services = {a, b, c}
    Image <- MCImage
    Digest = {d1, d2}
    None = None
SPECIFICATION FairSpec
INVARIANTS
    LockConsistent
    UnselectedKept
PROPERTIES
    AnswerIsTrue
    FailureKeepsBaseline
    UpdateEnds
