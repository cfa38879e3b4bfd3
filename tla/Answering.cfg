\* Two callers, a visitor and a chain of two providers.
SPECIFICATION Spec
CONSTANTS
    Req = {r1, r2, r3}
    Owners = {u1, u2}
    Visitor = "visitor"
    Configured <- MCConfigured
    Available = {"openai", "ollama"}
    Numbers = {"1", "9"}
    Cited = {"1"}
    Words = {}
    MaxPending = 2
    MaxDelta = 2
    Work = 9
    None = None
SYMMETRY Symmetry
CONSTRAINT ShortTexts
INVARIANTS
    TypeOK
    StreamedAsWhole
    AnswerOfOneProvider
    TurnsKeptPrivate
CHECK_DEADLOCK FALSE
