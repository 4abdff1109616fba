SPECIFICATION Spec
CONSTANTS
    Tools = {t1, t2, t3, t4}
    Paths = {p1, p2}
    Progs <- MCProgs
    Legacy <- MCLegacy
SYMMETRY Symmetry
INVARIANTS
    TypeOK
    AttachHolds
    DetachWorks
    NobodyHidden
CHECK_DEADLOCK FALSE
