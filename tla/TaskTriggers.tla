---------------------------- MODULE TaskTriggers ----------------------------
(***************************************************************************)
(* What makes an agent work on an issue: assigning the issue, commenting   *)
(* on it and mentioning an agent (server/internal/handler/issue.go,        *)
(* comment.go, agent.go and the enqueueing half of service/task.go).       *)
(*                                                                         *)
(* One issue.  A request is served in several statements without a         *)
(* transaction around them, so the requests of different users interleave  *)
(* between "read the issue", "write it", "cancel its items", "ask whether  *)
(* an item is pending" and "insert one".  The queue is reduced to what the *)
(* handlers can tell apart: the agent of the one pending (queued or        *)
(* dispatched) item the unique index allows, and the agent at work.        *)
(***************************************************************************)
EXTENDS Naturals, Sequences, FiniteSets

CONSTANTS Agent,        \* the agents of the workspace
          Request,      \* the requests that may be in flight at once
          Off,          \* pairs <<agent, trigger>> switched off in the agent's configuration
          Naming,       \* the sets of names a comment may mention
          Person,       \* any human member, as author, assignee or mentioned
          Everyone,     \* the mention @all
          None,
          MaxRequests,  \* bound: requests ever begun
          MaxComments   \* bound: comments ever posted

ASSUME Distinct == /\ {Person, Everyone, None} \cap Agent = {}
                   /\ Cardinality({Person, Everyone, None}) = 3
                   /\ Naming \subseteq SUBSET (Agent \cup {Person, Everyone})

VARIABLES exists,    \* the issue row is there
          assignee,  \* its assignee
          lastAssigned, \* the one it was last assigned to, also after it is unassigned
          closed,    \* its status is done or cancelled
          archived,  \* the archived agents
          comments,  \* the comments, as records [author, names, parent]
          pending,   \* the agent of the queued or dispatched item
          working,   \* the agent whose item is running
          req,       \* the requests in flight
          begun,     \* how many requests were begun
          raced,     \* two requests were in flight together
          owed       \* per agent, the newest comment that asked for it and
                     \* that it has not started a run since
issue == <<exists, assignee, lastAssigned, closed>>
queue == <<pending, working>>
triggersVars == <<exists, assignee, lastAssigned, closed, archived, comments, pending,
                  working, req, begun, raced, owed>>

Unserved == [at |-> "idle", snap |-> None, to |-> None, shut |-> FALSE, c |-> 0,
         names |-> {}]
(* A trigger that is not configured counts as on. *)
HasTriggerEnabled(a, trigger) == <<a, trigger>> \notin Off
Enabled(a, trigger) == a \in Agent \ archived /\ HasTriggerEnabled(a, trigger)

(***************************************************************************)
(* The queries on the queue.                                               *)
(***************************************************************************)
HasActiveTaskForIssue == pending # None \/ working # None   \* mutant
HasPendingTaskForIssue == pending # None
HasPendingTaskForIssueAndAgent(a) == pending = a
CreateAgentTask(a) ==             \* idx_one_pending_task_per_issue refuses a second
    pending' = IF exists /\ pending = None THEN a ELSE pending

CancelAgentTasks(S) ==            \* every active item of the agents S
    /\ pending' = IF pending \in S THEN None ELSE pending
    /\ working' = IF working \in S THEN None ELSE working
    /\ owed' = [a \in Agent |-> IF a \in S THEN 0 ELSE owed[a]]

TriggersInit == /\ exists = FALSE /\ assignee = None /\ lastAssigned = None
        /\ closed = FALSE /\ archived = {}
        /\ comments = <<>>
        /\ pending = None /\ working = None
        /\ req = [r \in Request |-> Unserved] /\ begun = 0 /\ raced = FALSE
        /\ owed = [a \in Agent |-> 0]

Admits(r, state) ==
    /\ req[r] = Unserved /\ begun < MaxRequests
    /\ begun' = begun + 1
    /\ raced' = (raced \/ \E q \in Request \ {r} : req[q] # Unserved)
    /\ req' = [req EXCEPT ![r] = state]
Goes(r, state) == req' = [req EXCEPT ![r] = state] /\ UNCHANGED <<begun, raced>>

(* canAssignAgent: an archived agent cannot be assigned. *)
MayAssign(to) == to \in {None, Person} \cup (Agent \ archived)

InsertIssue(to) == exists' = TRUE /\ assignee' = to /\ lastAssigned' = to /\ UNCHANGED closed

(* CreateIssue: the row is committed, then the trigger of its assignee. *)
CreateIssue(r, to) ==
    /\ ~exists /\ begun = 0 /\ MayAssign(to)
    /\ InsertIssue(to)
    /\ Admits(r, [Unserved EXCEPT !.at = "trigger", !.to = to])
    /\ UNCHANGED <<archived, comments, queue, owed>>

(* UpdateIssue reads the row.  "same" stands for a body without assignee:  *)
(* the assignee read here is then written back.  The status, when given,   *)
(* becomes "shut".  BatchUpdateIssues takes the same steps for each of its *)
(* issues.                                                                 *)
LoadForUpdate(r, to, shut) ==
    /\ exists
    /\ to # "same" => MayAssign(to)
    /\ Admits(r, [Unserved EXCEPT !.at = "write", !.snap = assignee, !.shut = shut,
                              !.to = IF to = "same" THEN assignee ELSE to])
    /\ UNCHANGED <<issue, archived, comments, queue, owed>>

(* The UPDATE and assigneeChanged, judged against the row read before.  An *)
(* explicit null unassigns the issue, and is no change of the assignee: the *)
(* items stay.                                                             *)
AssigneeChanged(s) == s.to # None /\ s.to # s.snap
WriteIssue(r) ==
    /\ req[r].at = "write"
    /\ IF exists
       THEN /\ assignee' = req[r].to /\ closed' = req[r].shut
            /\ lastAssigned' = IF req[r].to = None THEN lastAssigned ELSE req[r].to
       ELSE UNCHANGED <<assignee, lastAssigned, closed>>
    /\ Goes(r, IF exists /\ AssigneeChanged(req[r])
               THEN [req[r] EXCEPT !.at = "cancel"] ELSE Unserved)
    /\ UNCHANGED <<exists, archived, comments, queue, owed>>

CancelRunningForIssue(r) ==                                  \* mutant
    /\ req[r].at \in {"cancel", "cancelToDelete"}
    /\ working' = None
    /\ Goes(r, [req[r] EXCEPT !.at = IF @ = "cancel" THEN "trigger" ELSE "delete"])
    /\ UNCHANGED <<issue, archived, comments, pending, owed>>
(* CancelTasksForIssue: every active item of the issue. *)
CancelTasksForIssue(r) ==
    /\ req[r].at \in {"cancel", "cancelToDelete"}
    /\ CancelAgentTasks(Agent)
    /\ Goes(r, [req[r] EXCEPT !.at = IF @ = "cancel" THEN "trigger" ELSE "delete"])
    /\ UNCHANGED <<issue, archived, comments>>

(* shouldEnqueueAgentTask and the agent read of EnqueueTaskForIssue. *)
ShouldEnqueueAgentTask(r) ==
    /\ req[r].at = "trigger"
    /\ Goes(r, IF Enabled(req[r].to, "on_assign")
               THEN [req[r] EXCEPT !.at = "insert"] ELSE Unserved)
    /\ UNCHANGED <<issue, archived, comments, queue, owed>>

EnqueueTaskForIssue(r) ==
    /\ req[r].at = "insert"
    /\ CreateAgentTask(req[r].to)
    /\ Goes(r, Unserved)
    /\ UNCHANGED <<issue, archived, comments, working, owed>>

(***************************************************************************)
(* Comments.                                                               *)
(***************************************************************************)
LoadForComment(r) ==
    /\ exists
    /\ Admits(r, [Unserved EXCEPT !.at = "post", !.snap = assignee, !.shut = closed])
    /\ UNCHANGED <<issue, archived, comments, queue, owed>>

(* The agents to mention: those the comment and its parent name, except    *)
(* the author and the assignee.                                            *)
Parent(c) == comments[c].parent
Named(c) == comments[c].names \cup
            (IF Parent(c) = 0 THEN {} ELSE comments[Parent(c)].names)
ToMention(c, snap) == ((Named(c) \cap Agent) \ {comments[c].author}) \ {snap}

PostComment(r, author, names, parent) ==
    /\ req[r].at = "post" /\ Len(comments) < MaxComments
    /\ author = Person \/ author = working  \* an agent comments while it works
    /\ IF exists
       THEN /\ comments' = Append(comments, [author |-> author, names |-> names,
                                             parent |-> parent])
            /\ Goes(r, [req[r] EXCEPT !.at = "ask", !.c = Len(comments) + 1])
       ELSE Goes(r, Unserved) /\ UNCHANGED comments
    /\ UNCHANGED <<issue, archived, queue, owed>>

CommentMentionsOthersButNotAssignee(c, snap) ==
    LET names == comments[c].names
    IN  names # {} /\ (Everyone \in names \/ snap \notin names)
IsReplyToMemberThread(c, snap) ==
    /\ Parent(c) # 0 /\ comments[Parent(c)].author = Person
    /\ snap \notin Named(c)

(* Everything the on_comment trigger asks except for a pending item.  The  *)
(* issue is the row read when the request began.                           *)
AsksTheAssignee(r) ==
    LET c == req[r].c  snap == req[r].snap
    IN  /\ comments[c].author = Person
        /\ ~req[r].shut /\ Enabled(snap, "on_comment")
        /\ ~CommentMentionsOthersButNotAssignee(c, snap)
        /\ ~IsReplyToMemberThread(c, snap)

(* After the assignee, the agents to mention; nothing is left to do with none. *)
Mentioning(r, todo) ==
    IF todo = {} THEN Unserved
    ELSE [req[r] EXCEPT !.at = "mention", !.to = None, !.names = todo]
FirstMentions(r) == Mentioning(r, ToMention(req[r].c, req[r].snap))

(* shouldEnqueueOnComment: a pending item makes the comment wait for it.   *)
(* From here on the comment is owed a run of the assignee, unless the slot *)
(* of the issue is held by an item of another agent.                       *)
ShouldEnqueueOnComment(r) ==
    /\ req[r].at = "ask"
    /\ Goes(r, IF AsksTheAssignee(r) /\ ~HasPendingTaskForIssue
               THEN [req[r] EXCEPT !.at = "answer", !.to = req[r].snap]
               ELSE FirstMentions(r))
    /\ owed' = IF AsksTheAssignee(r) /\ pending \in {None, req[r].snap}
               THEN [owed EXCEPT ![req[r].snap] = req[r].c] ELSE owed
    /\ UNCHANGED <<issue, archived, comments, queue>>

EnqueueOnComment(r) ==
    /\ req[r].at = "answer"
    /\ CreateAgentTask(req[r].to)
    /\ owed' = IF pending' = req[r].to THEN owed ELSE [owed EXCEPT ![req[r].to] = 0]
    /\ Goes(r, FirstMentions(r))
    /\ UNCHANGED <<issue, archived, comments, working>>

(* enqueueMentionedAgentTasks, one agent at a time in any order. *)
AskMentioned(r, a) ==
    /\ req[r].at = "mention" /\ a \in req[r].names
    /\ Goes(r, IF Enabled(a, "on_mention") /\ ~HasPendingTaskForIssueAndAgent(a)
               THEN [req[r] EXCEPT !.at = "insertMention", !.to = a,
                                   !.names = @ \ {a}]
               ELSE Mentioning(r, req[r].names \ {a}))
    /\ UNCHANGED <<issue, archived, comments, queue, owed>>

EnqueueTaskForMention(r) ==
    /\ req[r].at = "insertMention"
    /\ CreateAgentTask(req[r].to)
    /\ Goes(r, Mentioning(r, req[r].names))
    /\ UNCHANGED <<issue, archived, comments, working, owed>>

(***************************************************************************)
(* Deleting the issue, archiving and restoring an agent.                   *)
(***************************************************************************)
(* BatchDeleteIssues does for each of its issues what DeleteIssue does. *)
LoadForDelete(r) ==
    /\ exists
    /\ Admits(r, [Unserved EXCEPT !.at = "cancelToDelete"])
    /\ UNCHANGED <<issue, archived, comments, queue, owed>>

DeleteIssue(r) ==                       \* the items go with the issue
    /\ req[r].at = "delete"
    /\ exists' = FALSE /\ CancelAgentTasks(Agent)
    /\ Goes(r, Unserved)
    /\ UNCHANGED <<assignee, lastAssigned, closed, archived, comments>>

ArchiveAgent(r, a) ==
    /\ a \notin archived
    /\ archived' = archived \cup {a}
    /\ Admits(r, [Unserved EXCEPT !.at = "cancelAgent", !.to = a])
    /\ UNCHANGED <<issue, comments, queue, owed>>

CancelTasksForAgent(r) ==
    /\ req[r].at = "cancelAgent"
    /\ CancelAgentTasks({req[r].to})
    /\ Goes(r, Unserved)
    /\ UNCHANGED <<issue, archived, comments>>

RestoreAgent(r, a) ==
    /\ a \in archived
    /\ archived' = archived \ {a}
    /\ Admits(r, Unserved)
    /\ UNCHANGED <<issue, comments, queue, owed>>

(***************************************************************************)
(* The queue's own steps: the claim serializes the items of the issue, an  *)
(* agent reads the comments once its item runs, and the item ends.         *)
(***************************************************************************)
StartRun ==
    /\ pending # None /\ working = None
    /\ working' = pending /\ pending' = None
    /\ owed' = [owed EXCEPT ![pending] = 0]
    /\ UNCHANGED <<issue, archived, comments, req, begun, raced>>

EndRun ==
    /\ working # None
    /\ working' = None
    /\ UNCHANGED <<issue, archived, comments, pending, req, begun, raced, owed>>

Users(r) ==
    \/ \E to \in Agent \cup {Person, None} : CreateIssue(r, to)
    \/ \E to \in Agent \cup {Person, None, "same"}, shut \in BOOLEAN :
          LoadForUpdate(r, to, shut)
    \/ LoadForComment(r)
    \/ LoadForDelete(r)
    \/ \E a \in Agent : ArchiveAgent(r, a) \/ RestoreAgent(r, a)
Serving(r) ==
    \/ WriteIssue(r) \/ CancelTasksForIssue(r)
    \/ ShouldEnqueueAgentTask(r) \/ EnqueueTaskForIssue(r)
    \/ \E author \in {Person, working} \ {None}, names \in Naming,
          parent \in 0 .. Len(comments) : PostComment(r, author, names, parent)
    \/ ShouldEnqueueOnComment(r) \/ EnqueueOnComment(r)
    \/ \E a \in Agent : AskMentioned(r, a)
    \/ EnqueueTaskForMention(r)
    \/ DeleteIssue(r) \/ CancelTasksForAgent(r)
TriggersNext == (\E r \in Request : Users(r) \/ Serving(r)) \/ StartRun \/ EndRun

TriggersSpec == TriggersInit /\ [][TriggersNext]_triggersVars

-----------------------------------------------------------------------------
States == {"idle", "write", "cancel", "cancelToDelete", "trigger", "insert",
           "post", "ask", "answer", "mention", "insertMention", "delete",
           "cancelAgent"}
TriggersTypeOK ==
    /\ exists \in BOOLEAN /\ closed \in BOOLEAN /\ raced \in BOOLEAN
    /\ {assignee, lastAssigned} \subseteq Agent \cup {Person, None}
    /\ archived \subseteq Agent
    /\ \A c \in 1 .. Len(comments) :
          comments[c] \in [author : Agent \cup {Person}, names : Naming,
                           parent : 0 .. c - 1]
    /\ pending \in Agent \cup {None} /\ working \in Agent \cup {None}
    /\ req \in [Request -> [at : States, snap : Agent \cup {Person, None},
                            to : Agent \cup {Person, None}, shut : BOOLEAN,
                            c : 0 .. MaxComments,
                            names : SUBSET (Agent \cup {Person, Everyone})]]
    /\ begun \in 0 .. MaxRequests
    /\ owed \in [Agent -> 0 .. MaxComments]

(* The coalescing queue loses no comment: whatever requests, claims and    *)
(* ends interleave, a comment that asks for the assignee is followed by an *)
(* item of that agent that starts after the comment was written, unless    *)
(* the items were cancelled or another agent held the slot of the issue.   *)
CommentsAreHeard ==
    \A a \in Agent : owed[a] > 0 =>
        pending = a \/ \E r \in Request : req[r].at = "answer" /\ req[r].to = a

(* Once the requests are served, and if no two of them were ever in flight *)
(* together, the pending item belongs to the one the issue was last        *)
(* assigned to, whose item an unassignment leaves, or to an agent some     *)
(* comment named, is not an archived agent's, and is of an existing issue. *)
AllServed == \A r \in Request : req[r] = Unserved
MentionedEver == UNION {comments[c].names : c \in 1 .. Len(comments)}
SettledQueue ==
    AllServed /\ ~raced /\ pending # None =>
        /\ exists /\ pending \notin archived
        /\ pending \in {lastAssigned} \cup MentionedEver

(* The queue is what comments and assignments made of it.                  *)
QueueAnswersTheIssue == CommentsAreHeard /\ SettledQueue

=============================================================================
