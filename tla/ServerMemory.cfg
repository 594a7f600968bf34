SPECIFICATION MemorySpec

CONSTANTS
    r1 = r1
    p1 = p1
    up1 = up1
    up2 = up2
    c1 = c1
    c2 = c2
    u1 = u1
    w1 = w1
    w2 = w2
    Runtime = {r1}
    Ping = {p1}
    Update = {up1, up2}
    RuntimeOf <- MCRuntimeOf
    MaxProcesses = 2
    MaxFaults = 1
    Client = {c1, c2}
    Sender = {s1}
    UserOf <- MCUserOf
    HomeOf <- MCHomeOf
    Event <- MCEvent
    Capacity = 1
    Lively = {c1}
    Pong = 0
    None = None

INVARIANTS
    RequestsAreExclusive
    FanOutIsSound

PROPERTY SlowAreRemoved

\* Everything that is bounded comes to its end.
CHECK_DEADLOCK FALSE
