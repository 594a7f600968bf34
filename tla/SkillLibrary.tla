------------------------------ MODULE SkillLibrary ------------------------------
(***************************************************************************)
(* The skills of a workspace, their files, and the skills of an agent      *)
(* (internal/handler/skill.go, pkg/db/generated/skill.sql.go).             *)
(*                                                                         *)
(* A skill is named by its name, which is unique; its content and each     *)
(* file are known by the request that wrote them.  Requests that write     *)
(* several rows do it in a transaction under READ COMMITTED: a statement   *)
(* sees what was committed before it began, and waits for rows another     *)
(* transaction has written.                                                *)
(***************************************************************************)
EXTENDS Naturals, FiniteSets

CONSTANTS
    Skill,           \* names of skills
    SkillPath,       \* paths of supporting files
    Edit,            \* requests that create, import or replace a skill
    Assign,          \* requests that set the skills of the agent
    MaxTouchups      \* bound: single files written or deleted, skills deleted

ASSUME LibraryAssumption == MaxTouchups \in Nat /\ Edit \cap {"none", "earlier", "alone"} = {}

VARIABLES
    skill,           \* [Skill -> the request that wrote its content, or "none"]; at first
                     \* every skill is there, without files
    skillFile,       \* rows of skill_file: [skill, path, by]
    agentSkill,      \* the skills of the agent
    edit,            \* [Edit -> the request]
    assign,          \* [Assign -> the request; "done" for the last that committed, with what
                     \* it asked for less the skills deleted since]
    crossed,         \* history: requests for the agent that overlapped another one
    touchups

libraryVars == <<skill, skillFile, agentSkill, edit, assign, crossed, touchups>>

LibraryInit ==
    /\ skill = [s \in Skill |-> "earlier"]
    /\ skillFile = {} /\ agentSkill = {}
    /\ edit = [e \in Edit |-> [at |-> "new"]]
    /\ assign = [a \in Assign |-> [at |-> "new"]]
    /\ crossed = {} /\ touchups = 0

FilesOf(s) == {f \in skillFile : f.skill = s}
Written(s, paths, e) == {[skill |-> s, path |-> p, by |-> e] : p \in paths}

\* Mutant: the row of the skill is not written first.
HoldsNothing(e) == {}
\* The skill whose row a transaction has written and so holds.
Holds(e) == IF edit[e].at \in {"clearing", "filling", "committing"} THEN {edit[e].skill} ELSE {}
Held(s) == \E e \in Edit : s \in Holds(e)

-----------------------------------------------------------------------------
(* Creating.                                                               *)

\* CreateSkill: the skill and its files are seen together, or not at all; a name that is
\* taken is refused.
Creates(e, s, paths) ==
    IF skill[s] = "none"
    THEN /\ skill' = [skill EXCEPT ![s] = e]
         /\ skillFile' = skillFile \union Written(s, paths, e)
    ELSE UNCHANGED <<skill, skillFile>>

CreateSkill(e, s, paths) ==
    /\ edit[e].at = "new"
    /\ Creates(e, s, paths)
    /\ edit' = [edit EXCEPT ![e] = [at |-> "ended"]]
    /\ UNCHANGED <<agentSkill, assign, crossed, touchups>>

\* ImportSkill lists the files at the source and downloads them one by one, before its
\* transaction; a file that fails is left out, and so is SKILL.md of ClawHub.
ImportSkill(e, s, listed) ==
    /\ edit[e].at = "new"
    /\ edit' = [edit EXCEPT ![e] = [at |-> "fetching", skill |-> s, left |-> listed, got |-> {}]]
    /\ UNCHANGED <<skill, skillFile, agentSkill, assign, crossed, touchups>>

FetchFile(e, p, ok) ==
    /\ edit[e].at = "fetching" /\ p \in edit[e].left
    /\ edit' = [edit EXCEPT ![e].left = @ \ {p}, ![e].got = IF ok THEN @ \union {p} ELSE @]
    /\ UNCHANGED <<skill, skillFile, agentSkill, assign, crossed, touchups>>

ImportEnds(e) ==
    /\ edit[e].at = "fetching" /\ edit[e].left = {}
    /\ Creates(e, edit[e].skill, edit[e].got)
    /\ edit' = [edit EXCEPT ![e] = [at |-> "ended"]]
    /\ UNCHANGED <<agentSkill, assign, crossed, touchups>>

-----------------------------------------------------------------------------
(* UpdateSkill with new content and new files.                             *)

\* UPDATE skill waits for a transaction that holds the row.
UpdateSkill(e, s, paths) ==
    /\ edit[e].at = "new" /\ ~Held(s)
    /\ edit' = [edit EXCEPT ![e] = IF skill[s] = "none" THEN [at |-> "ended"]
           ELSE [at |-> "clearing", skill |-> s, paths |-> paths, gone |-> {}]]
    /\ UNCHANGED <<skill, skillFile, agentSkill, assign, crossed, touchups>>

DeleteSkillFilesBySkill(e) ==
    /\ edit[e].at = "clearing"
    /\ edit' = [edit EXCEPT ![e].at = "filling", ![e].gone = FilesOf(edit[e].skill)]
    /\ UNCHANGED <<skill, skillFile, agentSkill, assign, crossed, touchups>>

\* The upserts; then the commit shows it all.
UpsertSkillFiles(e) ==
    /\ edit[e].at = "filling"
    /\ edit' = [edit EXCEPT ![e].at = "committing"]
    /\ UNCHANGED <<skill, skillFile, agentSkill, assign, crossed, touchups>>

CommitSkill(e) ==
    LET s == edit[e].skill
        over == {f \in FilesOf(s) : f.path \in edit[e].paths}
    IN  /\ edit[e].at = "committing"
        /\ skill' = [skill EXCEPT ![s] = e]
        /\ skillFile' = (skillFile \ (edit[e].gone \union over)) \union Written(s, edit[e].paths, e)
        /\ edit' = [edit EXCEPT ![e] = [at |-> "ended"]]
        /\ UNCHANGED <<agentSkill, assign, crossed, touchups>>

\* A statement fails or the client goes away: the transaction is rolled back.
EditFails(e) ==
    /\ edit[e].at \in {"fetching", "clearing", "filling", "committing"}
    /\ edit' = [edit EXCEPT ![e] = [at |-> "ended"]]
    /\ UNCHANGED <<skill, skillFile, agentSkill, assign, crossed, touchups>>

AtWork == {a \in Assign : assign[a].at = "adding"}

-----------------------------------------------------------------------------
(* Single rows.                                                            *)

\* A transaction that has written the path holds it.
PathHeld(s, p) == \E e \in Edit :
    /\ edit[e].at = "committing" /\ edit[e].skill = s
    /\ p \in edit[e].paths \union {f.path : f \in edit[e].gone}

UpsertSkillFile(s, p) ==
    /\ skill[s] # "none" /\ ~PathHeld(s, p) /\ touchups < MaxTouchups
    /\ touchups' = touchups + 1
    /\ skillFile' = {f \in skillFile : ~(f.skill = s /\ f.path = p)} \union Written(s, {p}, "alone")
    /\ UNCHANGED <<skill, agentSkill, edit, assign, crossed>>

DeleteSkillFile(f) ==
    /\ f \in skillFile /\ ~PathHeld(f.skill, f.path) /\ touchups < MaxTouchups
    /\ touchups' = touchups + 1
    /\ skillFile' = skillFile \ {f}
    /\ UNCHANGED <<skill, agentSkill, edit, assign, crossed>>

\* The files and the skills of agents go with it.
DeleteSkill(s) ==
    /\ skill[s] # "none" /\ ~Held(s) /\ touchups < MaxTouchups
    /\ \A a \in AtWork : s \notin assign[a].added \union assign[a].removed
    /\ touchups' = touchups + 1
    /\ skill' = [skill EXCEPT ![s] = "none"]
    /\ skillFile' = skillFile \ FilesOf(s)
    /\ agentSkill' = agentSkill \ {s}
    /\ assign' = [a \in Assign |-> IF assign[a].at = "done"
                                   THEN [assign[a] EXCEPT !.asked = @ \ {s}] ELSE assign[a]]
    /\ UNCHANGED <<edit, crossed>>

-----------------------------------------------------------------------------
(* SetAgentSkills: removes all and adds what is asked for, in a            *)
(* transaction.                                                            *)

\* Mutant: what the agent has is left.
RemovesNothing == {}
\* RemoveAllAgentSkills deletes the rows it sees.
RemoveAllAgentSkills == agentSkill

\* It waits for a transaction that deletes one of the same rows.
SetAgentSkills(a, asked) ==
    /\ assign[a].at = "new"
    /\ \A b \in AtWork : assign[b].removed \cap agentSkill = {}
    /\ assign' = [assign EXCEPT ![a] =
           [at |-> "adding", asked |-> asked, removed |-> RemoveAllAgentSkills, added |-> {}]]
    /\ crossed' = IF AtWork = {} THEN crossed ELSE crossed \union AtWork \union {a}
    /\ UNCHANGED <<skill, skillFile, agentSkill, edit, touchups>>

\* A row another transaction has added is waited for; a skill that is not there fails all.
AddAgentSkill(a, s) ==
    /\ assign[a].at = "adding" /\ s \in assign[a].asked \ assign[a].added
    /\ \A b \in AtWork \ {a} : s \notin assign[b].added \union assign[b].removed
    /\ assign' = IF skill[s] = "none"
                 THEN [assign EXCEPT ![a] = [at |-> "failed"]]
                 ELSE [assign EXCEPT ![a].added = @ \union {s}]
    /\ UNCHANGED <<skill, skillFile, agentSkill, edit, crossed, touchups>>

CommitAgentSkills(a) ==
    /\ assign[a].at = "adding" /\ assign[a].added = assign[a].asked
    /\ agentSkill' = (agentSkill \ assign[a].removed) \union assign[a].added
    /\ assign' = [b \in Assign |->
           IF b = a THEN [at |-> "done", asked |-> assign[a].asked]
           ELSE IF assign[b].at = "done" THEN [at |-> "over"] ELSE assign[b]]
    /\ UNCHANGED <<skill, skillFile, edit, crossed, touchups>>

AssignFails(a) ==
    /\ assign[a].at = "adding"
    /\ assign' = [assign EXCEPT ![a] = [at |-> "failed"]]
    /\ UNCHANGED <<skill, skillFile, agentSkill, edit, crossed, touchups>>

LibraryNext ==
    \/ \E e \in Edit :
          \/ \E s \in Skill, paths \in SUBSET SkillPath :
                CreateSkill(e, s, paths) \/ ImportSkill(e, s, paths) \/ UpdateSkill(e, s, paths)
          \/ \E p \in SkillPath, ok \in BOOLEAN : FetchFile(e, p, ok)
          \/ ImportEnds(e) \/ DeleteSkillFilesBySkill(e) \/ UpsertSkillFiles(e)
          \/ CommitSkill(e) \/ EditFails(e)
    \/ \E s \in Skill : DeleteSkill(s) \/ \E p \in SkillPath : UpsertSkillFile(s, p)
    \/ \E f \in skillFile : DeleteSkillFile(f)
    \/ \E a \in Assign :
          \/ \E asked \in SUBSET Skill : SetAgentSkills(a, asked)
          \/ \E s \in Skill : AddAgentSkill(a, s)
          \/ CommitAgentSkills(a) \/ AssignFails(a)

LibrarySpec == LibraryInit /\ [][LibraryNext]_libraryVars

-----------------------------------------------------------------------------
\* skill.go UpdateSkill, "replace all files": the content and the files of a skill come
\* from one request, but for files that were written singly: requests that replace it at
\* the same time never leave a mixture, for the row of the skill is written first.
SkillIsWhole ==
    \A f \in skillFile : f.by \in {skill[f.skill], "alone"}

\* skill.go SetAgentSkills: what the agent has is what the last request asked for and
\* nothing else, but for the skills deleted since, and for what requests that ran at the
\* same time asked for.
AgentHasWhatWasAsked ==
    \A a \in Assign : assign[a].at = "done" /\ a \notin crossed =>
        agentSkill = assign[a].asked

\* What a request replaces it replaces as a whole, in a skill and for an agent.
LibraryIsWhole == SkillIsWhole /\ AgentHasWhatWasAsked
=============================================================================
