SPECIFICATION MirrorSpec
CONSTANTS
    p1 = p1
    a = a
    b = b
    ClientIds = {p1}
    Texts = {a, b}
    MaxArray = 2
    MaxSeq = 2
    MaxVersion = 1
SYMMETRY TextSymmetry
INVARIANTS
    IdsAreUnique
PROPERTIES
    UpdateMirrorsPi
    RowsKeepTheirIds
    SlotIsNotStolen
    StartedTurnsAreKept
CHECK_DEADLOCK FALSE
