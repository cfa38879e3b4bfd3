CONSTANTS
    Collections = {general, hr}
    General = general
    Groups = {g1}
    Members = {u1}
    Owners = {o1}
    Keys = {k1}
    Docs = {d1}
    Editors = {e1, e2}
    Readers = {q1}
    None = None
SPECIFICATION Spec
SYMMETRY Symmetry
INVARIANTS NothingDangles OnlyEmptyDeleted LastListHolds ScopeWasVisible IInv
