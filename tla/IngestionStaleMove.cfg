CONSTANTS
    Docs = {d1}
    FileDocs = {d1}
    Collections = {general, c1}
    General = general
    Workers = {w1}
    Requests = {r1}
    Tasks = {t1, t2}
    Batches = {b1, b2, b3}
    MaxRetries = 0
    None = None
SPECIFICATION Spec
INVARIANTS ChunksAlwaysFollow
CHECK_DEADLOCK FALSE
