CONSTANTS
    p1 = p1
    p2 = p2
    u1 = u1
    MaxIterations = 1
    MaxTries = 2
    Projector = {p1}
    NoEnd = NoEnd
    NoRequest = NoRequest
    User = {u1}
    MaxAsks = 2
    MaxMishaps = 1
    MaxRestarts = 0

SPECIFICATION FairSpec

INVARIANT AwaitsItsItem

PROPERTIES
    ImplementsLoopCycle
    LoopMovesOn

\* A loop that ended rests.
CHECK_DEADLOCK FALSE
