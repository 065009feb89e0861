CONSTANTS
    Names <- MCNames
    Missing = Missing
    Catalogs <- MCCatalogs
    Configs <- MCConfigs
SPECIFICATION Spec
INVARIANTS
    Closed
    Needed
    OrderSound
    OrderCanonical
    CycleFound
CHECK_DEADLOCK FALSE
