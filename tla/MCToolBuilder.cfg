SPECIFICATION Spec
CONSTANTS
    Proposals = {p1, p2}
    Editors = {a1, a2}
    Requested <- MCRequested
    Entered <- MCEntered
SYMMETRY Symmetry
INVARIANTS
    BuiltIsSound
    ConvertedHasTool
CHECK_DEADLOCK FALSE
