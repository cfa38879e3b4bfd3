\* Syncs and ingests of one page on two workers, with one mishap.
SPECIFICATION Spec
CONSTANTS
    Workers = {w1, w2}
    Docs = {d1, d2}
    MaxVersion = 2
    MaxRetries = 1
    MaxQueued = 1
    MaxMishaps = 1
    None = None
CONSTRAINT Repairable
INVARIANTS
    LabelCovered
PROPERTIES
    CatchesUp
