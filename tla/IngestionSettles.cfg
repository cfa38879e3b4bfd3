CONSTANTS
    Docs = {d1}
    FileDocs = {}
    Collections = {general}
    General = general
    Workers = {w1, w2}
    Requests = {r1}
    Tasks = {t1, t2}
    Batches = {b1, b2, b3}
    MaxRetries = 0
    None = None
SPECIFICATION FairSpec
PROPERTIES Settles
CHECK_DEADLOCK FALSE
