SPECIFICATION ServicesSpec

CONSTANTS
    hu = hu
    hv = hv
    w1 = w1
    u1 = u1
    u2 = u2
    a1 = a1
    r1 = r1
    r2 = r2
    e1 = e1
    e2 = e2
    todo = todo
    done = done
    Account = {u1, u2}
    Workspace = {hu, hv, w1}
    HomeOf <- MCHomeOf
    Call = {1, 2}
    MaxCalls = 4
    Skill = {"s1", "s2"}
    SkillPath = {"p"}
    Edit = {e1, e2}
    Assign = {"a1", "a2"}
    MaxTouchups = 1
    Project = {"p1", "p2"}
    BoardIssue = {"b1", "b2"}
    PathOf <- MCPathOf
    Slug = {"s1", "s2"}
    BoardCalls = 4
    User = {u1, u2}
    AgentId = {a1}
    Request = {r1, r2}
    Draft <- MCDraft
    Patch <- MCPatch
    Naming <- MCNaming
    Acting = {u1, a1}
    Fickle = {u2}
    Everyone = Everyone
    None = None
    MaxEvents = 3
    Tab = {"t"}
    Notice = {"n1"}
    MaxDrops = 2
    MaxFailures = 1
    MaxUses = 1

SYMMETRY Alike

INVARIANTS
    OwnerRemains
    LibraryIsWhole
    IssueIsTold
    TabsCatchUp

PROPERTIES
    LoginsAreServed
    IssuesStay

\* Everything that is bounded comes to its end.
CHECK_DEADLOCK FALSE
