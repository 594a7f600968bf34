CONSTANTS
    p1 = p1
    p2 = p2
    u1 = u1
    MaxIterations = 0
    MaxTries = 1
    Projector = {p1, p2}
    NoEnd = NoEnd
    NoRequest = NoRequest
    User = {u1}
    MaxAsks = 1
    MaxMishaps = 1
    MaxRestarts = 1

SPECIFICATION Spec

SYMMETRY ConsumerSymmetry

INVARIANTS
    AppliedOnce
    OneStageAtATime

\* A loop that ended rests.
CHECK_DEADLOCK FALSE
