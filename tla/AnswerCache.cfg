SPECIFICATION Spec
CONSTANTS
    r1 = r1
    r2 = r2
    hr = hr
    General = General
    None = None
    Collections = {General, hr}
    Rows = {r1, r2}
    Coll <- CollOf
    Scopes <- Callers
    Questions = {question}
    Queries = {q1, q2}
    Changes = {c1}
    MaxVersion = 2
    MaxEntries = 1
    Faults = {"version", "bump", "restart"}
SYMMETRY Symmetry
INVARIANTS FreshAnswers AnswersWithinScope IInv
