SPECIFICATION FairSpec

CONSTANTS
    t1 = t1  t2 = t2
    i1 = i1
    a1 = a1  a2 = a2
    r1 = r1  r2 = r2
    Task = {t1, t2}
    Issue = {i1}
    Agent = {a1, a2}
    Runtime = {r1, r2}
    IssueOf <- MCIssueOf
    AgentOf <- MCAgentOf
    RuntimeOf <- MCRuntimeOf
    MaxRetries = 2
    MaxCheckpoints <- OneReports

INVARIANTS
    ActiveRunConsistent
    SerialWithinIssue
    FactsTellTheStory
    ResumesFromNewestCheckpoint

PROPERTIES
    EndsAreFinal
    ImplementsWorkItem
    EveryItemSettles

CHECK_DEADLOCK FALSE
