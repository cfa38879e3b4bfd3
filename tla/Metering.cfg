\* The plan of one workspace, its limits and its payments.
CONSTANTS
    Req = {r1, r2}
    Hooks = {h1, h2}
    Plans = {"starter", "pro"}
    MaxEvents = 3
    None = None
    Slots = {c1, c2}
    Visitors = {v}
    Rate <- MCRate
    Tokens <- MCTokens
    Storage <- MCStorage
    DocRate = 3
    IpRate = 1
    Window = 2
    Cost = 1
    Size = 1
    MaxTime = 3
    Work = 4
SYMMETRY Symmetry
SPECIFICATION Spec
INVARIANTS
    TypeOK
    WindowBound
    UsageBounded
    EventsApplyOnce
    PlanIsPaid
CHECK_DEADLOCK FALSE
