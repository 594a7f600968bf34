CONSTANTS
    e1 = e1  e2 = e2  t1 = t1  r1 = r1
    w1 = w1  w2 = w2  p1 = p1  p2 = p2
    Event = {e1, e2}
    NoEvent = NoEvent
    Run = {r1}
    NoRun = NoRun
    ItemOf <- MCItemOf
    RunOf <- OneRun
    Histories <- FinishedOrRecovered
    Spoken = {e1, e2}
    Worker = {w1, w2}
    Projector = {p1, p2}
    MaxAttempts = 2
    MaxSlow <- MCMaxSlow
    MaxCrashes = 1

SPECIFICATION FairSpec

INVARIANTS
    EffectsOnce
    DeliveredInOrder

PROPERTIES
    ImplementsDelivery
    FactsArrive

CHECK_DEADLOCK FALSE
