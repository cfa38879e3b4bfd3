CONSTANTS
    Docs = {d1}
    FileDocs = {d1}
    Collections = {general, c1}
    General = general
    Workers = {w1}
    Requests = {r1, r2}
    Tasks = {t1, t2}
    Batches = {b1, b2, b3}
    MaxRetries = 1
    None = None
SPECIFICATION Spec
SYMMETRY Symmetry
INVARIANTS NoOrphanChunks IInv StoredWhileListed LedgerExact ChangesGetBumped
CHECK_DEADLOCK FALSE
