CONSTANTS
    r1 = r1
    r2 = r2
    t1 = t1
    Runtime = {r1, r2}
    Item = {t1}
    RuntimeOf <- MCRuntimeOf
    MaxRetries <- MCMaxRetries
    NoRuntime = NoRuntime
    NoRequest = NoRequest
    LookupsFail = TRUE
    MaxProcesses = 2
    MaxFaults = 2

SPECIFICATION FairSpec

INVARIANT AnsweredMeansAdopted

PROPERTIES
    WorkIsNotTakenBack
    OfflineIsNoticed

\* The bounds end the story.
CHECK_DEADLOCK FALSE
