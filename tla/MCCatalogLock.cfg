SPECIFICATION Spec
CONSTANTS
    u1 = u1
    u2 = u2
    r1 = r1
    r2 = r2
    unsigned = unsigned
    Main = Main
    Embedded = Embedded
    Tampered = Tampered
    Local = Local
    None = None
    Others = {o1}
    Catalogs <- MCCatalogs
    Urls = {u1, u2}
    Refs = {r1, r2, unsigned}
    Acceptable = {r1, r2}
    ImageOf <- MCOwnImage
    Slots = 2
    MaxTree = 2
    MaxEdits = 2
    MaxFaults = 1
INVARIANTS
    TypeOK
    OnlyVerified
    LockIsOfItsSource
PROPERTIES
    RunsWhatIsLocked
    PinsKept
    RunsWhatIsConfigured
