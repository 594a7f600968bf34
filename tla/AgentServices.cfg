SPECIFICATION ServicesSpec

CONSTANTS
    a = a
    b = b
    r1 = r1
    r2 = r2
    i1 = i1
    i2 = i2
    x = x
    y = y
    u1 = u1
    d1 = d1
    Agent = {a, b}
    Request = {q1, q2}
    Off <- MCOff
    Naming <- MCNaming
    Person = Person
    Everyone = Everyone
    None = None
    MaxRequests = 3
    MaxComments = 2
    PoolAgent = {a}
    Runtime = {r1, r2}
    Item = {i1, i2}
    AgentOf <- MCAgentOf
    IssueOf <- MCIssueOf
    Rank <- MCRank
    Staged = {i2}
    Enforcing = {r1}
    Limit = {1}
    MaxAttempts <- MCMaxAttempts
    MaxEdits = 1
    Planner = {1, 2}
    Plan <- MCPlan
    MaxNodes = 3
    MaxTouches = 1
    Url = {u1}
    BareOf <- MCBareOf
    RepoItem = {i1, i2}
    MaxCommits = 1
    MaxCheckouts = 2
    MaxCrashes = 1
    Daemons = 3
    Legacy = 1
    MaxCommands = 2

INVARIANTS
    QueueAnswersTheIssue
    CapacityKept
    StatusTellsTheWork
    
    CheckoutsServe
    DaemonIsOne

\* Everything that is bounded comes to its end.
CHECK_DEADLOCK FALSE
