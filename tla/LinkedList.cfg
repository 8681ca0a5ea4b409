SPECIFICATION Spec
CONSTANTS
    Cells = {c1, c2, c3, c4}
    NULL = NULL
    Data = {x, y}
SYMMETRY MCSymmetry
INVARIANTS
    TypeOK
    NoLostNode
    ReaderSeesOnlyWholeNodes
    ReaderCountsSnapshot
    FindsFirst
PROPERTIES
    IsList
