CONSTANTS
    p1 = p1
    p2 = p2
    u1 = u1
    MaxIterations = 1
    MaxTries = 20
    Projector = {p1}
    NoEnd = NoEnd
    NoRequest = NoRequest
    User = {u1}
    MaxAsks = 1
    MaxMishaps = 0
    MaxRestarts = 0

SPECIFICATION FairSpec

PROPERTY TerminalStays

CHECK_DEADLOCK FALSE
