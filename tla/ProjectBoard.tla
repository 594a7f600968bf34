------------------------------ MODULE ProjectBoard ------------------------------
(***************************************************************************)
(* Projects, their milestones and the issues in them                       *)
(* (internal/handler/projects.go, pkg/db/generated/projects.sql.go,        *)
(* migration 044).                                                         *)
(*                                                                         *)
(* A request first looks whether the project is one of the workspace of    *)
(* its path, may look at a second row, and then writes in one statement;   *)
(* nothing is locked in between.                                           *)
(***************************************************************************)
EXTENDS Naturals, FiniteSets

CONSTANTS
    Project,         \* the projects that can be created
    BoardIssue,      \* the issues
    PathOf,          \* [Project \union BoardIssue -> the workspace it belongs to]
    Slug,            \* the slugs of projects, unique in a workspace
    BoardCalls       \* bound: the requests, numbered as they come

Path == {PathOf[x] : x \in Project \union BoardIssue}
NoRow == "no row"
NoProject == [slug |-> NoRow, deadline |-> FALSE]

ASSUME BoardAssumption == NoRow \notin Project \union Slug /\ BoardCalls \in Nat

BoardCall == 1 .. BoardCalls

VARIABLES
    project,         \* [Project -> its row: slug and whether it has a deadline; or NoProject]
    milestone,       \* milestones: [of, by, status]; "by" is the request that made it
    issueProject,    \* [BoardIssue -> a project or NoRow]
    boardCall,       \* [BoardCall -> the request]
    moved            \* history: the removals whose issue was assigned after they looked

boardVars == <<project, milestone, issueProject, boardCall, moved>>

BoardInit ==
    /\ project = [p \in Project |-> NoProject]
    /\ milestone = {}
    /\ issueProject = [i \in BoardIssue |-> NoRow]
    /\ boardCall = [c \in BoardCall |-> [at |-> "new"]]
    /\ moved = {}

Live(p) == project[p] # NoProject
SlugIsTaken(w, s, p) ==
    \E q \in Project \ {p} : Live(q) /\ PathOf[q] = w /\ project[q].slug = s

Ended(c) == boardCall' = [boardCall EXCEPT ![c] = [at |-> "ended"]]
Comes(c) == boardCall[c].at = "new" /\ \A d \in 1 .. c - 1 : boardCall[d].at # "new"
AskedFor(c, op) == boardCall[c].at = "checked" /\ boardCall[c].op = op
Found(c, i) == boardCall[c].at = "found" /\ boardCall[c].issue = i

-----------------------------------------------------------------------------
CreateProject(c, p, s) ==
    /\ Comes(c) /\ ~Live(p)
    /\ project' = IF SlugIsTaken(PathOf[p], s, p) THEN project
                  ELSE [project EXCEPT ![p] = [slug |-> s, deadline |-> FALSE]]
    /\ Ended(c)
    /\ UNCHANGED <<milestone, issueProject, moved>>

\* requireProject, for a request of the workspace w.
RequireProject(c, w, p, op) ==
    /\ Comes(c)
    /\ IF Live(p) /\ PathOf[p] = w
       THEN boardCall' = [boardCall EXCEPT ![c] = [at |-> "checked", path |-> w, of |-> p, op |-> op]]
       ELSE Ended(c)
    /\ UNCHANGED <<project, milestone, issueProject, moved>>

\* What is not given stays; an empty deadline is not given either (COALESCE).
Updated(row, s, dated) == [slug |-> s, deadline |-> row.deadline \/ dated]

UpdateProject(c, s, dated) ==
    LET p == boardCall[c].of
    IN  /\ AskedFor(c, "update")
        /\ project' = IF ~Live(p) \/ SlugIsTaken(boardCall[c].path, s, p) THEN project
                      ELSE [project EXCEPT ![p] = Updated(@, s, dated)]
        /\ Ended(c)
        /\ UNCHANGED <<milestone, issueProject, moved>>

\* Its milestones go, its issues stay without a project.
DeleteProject(c) ==
    LET p == boardCall[c].of
    IN  /\ AskedFor(c, "delete")
        /\ project' = [project EXCEPT ![p] = NoProject]
        /\ milestone' = {m \in milestone : m.of # p}
        /\ issueProject' = [i \in BoardIssue |->
               IF issueProject[i] = p THEN NoRow ELSE issueProject[i]]
        /\ Ended(c)
        /\ UNCHANGED moved

\* Only an issue of the workspace; the foreign key refuses a project that is gone.
AssignIssueToProject(c, i) ==
    /\ AskedFor(c, "assign")
    /\ IF PathOf[i] = boardCall[c].path /\ Live(boardCall[c].of)
       THEN /\ issueProject' = [issueProject EXCEPT ![i] = boardCall[c].of]
            /\ moved' = moved \union {d \in BoardCall : Found(d, i)}
       ELSE UNCHANGED <<issueProject, moved>>
    /\ Ended(c)
    /\ UNCHANGED <<project, milestone>>

\* Mutant: every issue of the workspace can be removed.
InWorkspace(c, i) == PathOf[i] = boardCall[c].path
InProject(c, i) == PathOf[i] = boardCall[c].path /\ issueProject[i] = boardCall[c].of

\* "remove": the issue is read ...
LooksForIssue(c, i) ==
    /\ AskedFor(c, "remove")
    /\ IF InProject(c, i)
       THEN boardCall' = [boardCall EXCEPT ![c] =
                [at |-> "found", of |-> boardCall[c].of, issue |-> i]]
       ELSE Ended(c)
    /\ UNCHANGED <<project, milestone, issueProject, moved>>

\* ... and taken from whatever project it is in then.
RemoveIssueFromProject(c, i) ==
    /\ Found(c, i)
    /\ issueProject' = [issueProject EXCEPT ![i] = NoRow]
    /\ Ended(c)
    /\ UNCHANGED <<project, milestone, moved>>

NewMilestone(p, c) == [of |-> p, by |-> c, status |-> "active"]

CreateMilestone(c) ==
    /\ AskedFor(c, "plan")
    /\ milestone' = IF Live(boardCall[c].of)
                    THEN milestone \union {NewMilestone(boardCall[c].of, c)}
                    ELSE milestone
    /\ Ended(c)
    /\ UNCHANGED <<project, issueProject, moved>>

\* The milestones of the project are listed, then the row is written by its id; a status
\* the table does not know is refused.
UpdateMilestone(c, m, status) ==
    /\ AskedFor(c, "mark") /\ m \in milestone
    /\ milestone' = IF m.of = boardCall[c].of
                    THEN (milestone \ {m}) \union {[m EXCEPT !.status = status]} ELSE milestone
    /\ Ended(c)
    /\ UNCHANGED <<project, issueProject, moved>>

BoardNext ==
    \E c \in BoardCall :
        \/ \E p \in Project :
              \/ \E s \in Slug : CreateProject(c, p, s)
              \/ \E w \in Path, op \in {"update", "delete", "assign", "remove", "plan", "mark"} :
                    RequireProject(c, w, p, op)
        \/ \E s \in Slug, dated \in BOOLEAN : UpdateProject(c, s, dated)
        \/ DeleteProject(c) \/ CreateMilestone(c)
        \/ \E i \in BoardIssue :
              AssignIssueToProject(c, i) \/ LooksForIssue(c, i) \/ RemoveIssueFromProject(c, i)
        \/ \E m \in milestone, status \in {"completed", "archived"} : UpdateMilestone(c, m, status)

BoardSpec == BoardInit /\ [][BoardNext]_boardVars

-----------------------------------------------------------------------------
\* projects.go AssignOrRemoveIssue, "issue not found in project": an issue is only ever put
\* into a project of its own workspace that exists, whose issues ListIssuesByProject shows
\* without asking for the workspace; and it leaves a project only when that is deleted, or
\* when its removal from it was asked for, or when it was moved there while it was being
\* removed from another one.
IssuesStay ==
    [][\A i \in BoardIssue : issueProject'[i] # issueProject[i] =>
          LET from == issueProject[i]
              to == issueProject'[i]
          IN  IF to # NoRow THEN project'[to] # NoProject /\ PathOf[to] = PathOf[i]
              ELSE \/ project'[from] = NoProject
                   \/ \E c \in BoardCall : /\ Found(c, i) /\ boardCall'[c].at = "ended"
                                           /\ boardCall[c].of = from \/ c \in moved
      ]_boardVars
=============================================================================
