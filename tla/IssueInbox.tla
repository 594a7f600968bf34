----------------------------- MODULE IssueInbox -----------------------------
(***************************************************************************)
(* What becomes of an event of an issue: the subscriber, activity and      *)
(* notification listeners of server/cmd/server, in that order, within the  *)
(* request that publishes it.                                              *)
(*                                                                         *)
(* One issue.  Each statement of a listener is a step of its own, so two   *)
(* requests, or a request and a subscription, come in between each other.  *)
(* Only the fields the listeners treat differently are kept: the assignee, *)
(* the status and who the description mentions.                            *)
(***************************************************************************)
EXTENDS Naturals, Sequences, FiniteSets

CONSTANTS User, AgentId,   \* members of the workspace, and its agents
          Request,         \* the goroutines that serve requests
          Everyone, None,  \* the @all mention; no assignee
          Draft,           \* bound: the issues created, [assignee, status, named]
          Patch,           \* bound: the updates sent, [by, field, value, batch]
          Naming,          \* bound: the sets of mentions in a comment
          Acting, Fickle,  \* bound: who creates and comments, and who unsubscribes
          MaxEvents        \* bound: events published; nobody comes or goes after the last

ASSUME NamingAssumption == Naming \subseteq SUBSET (User \cup AgentId \cup {Everyone})
ASSUME InboxAssumption ==
    /\ None \notin User \cup AgentId
    /\ Acting \subseteq User \cup AgentId /\ Fickle \subseteq User \cup AgentId
    /\ \A p \in Patch : /\ p.by \in User \cup AgentId /\ p.batch \in BOOLEAN
                        /\ p.field \in {"assignee", "status", "named"}

VARIABLES issue,        \* the row: [assignee, status, named]
          creator, subscribers,
          activities,   \* activity_log: [action, event, from, to]
          inbox,        \* inbox_item: [to, type, event]
          req,          \* per request: [at, event, k, todo, left]
          history,      \* the row after each event, oldest first
          settled,      \* the events all of whose listeners are through
          following,    \* members involved so far who have not unsubscribed
          raced         \* an update wrote over a row that it had not read
vars == <<issue, creator, subscribers, activities, inbox,
          req, history, settled, following, raced>>
ghosts == <<history, settled, following, raced>>

Who == User \cup AgentId
NoIssue == [assignee |-> None, status |-> None, named |-> {}]
NoEvent == [kind |-> "none", actor |-> None, n |-> 0, fields |-> {}, batch |-> FALSE,
            new |-> NoIssue, prev |-> NoIssue, names |-> {}, about |-> None,
            before |-> {}]
Idle == [at |-> "idle", event |-> NoEvent, k |-> 1, todo |-> {}, left |-> {}]

Init == /\ issue = NoIssue /\ creator = None /\ subscribers = {}
        /\ activities = {} /\ inbox = {}
        /\ req = [r \in Request |-> Idle]
        /\ history = <<>> /\ settled = {} /\ following = {} /\ raced = FALSE

-----------------------------------------------------------------------------
(***************************************************************************)
(* What an event asks for.                                                 *)
(***************************************************************************)
\* An assignee that is sent as null is written, and counts as no change.  The
\* description counts as changed whenever it is sent, but not in a batch, whose
\* event says nothing of it.
Changed(e, f) ==
    /\ f \in e.fields
    /\ CASE f = "named" -> ~e.batch
         [] f = "assignee" -> e.new[f] # None /\ e.new[f] # e.prev[f]
         [] OTHER -> e.new[f] # e.prev[f]
\* The event of a batch does not carry the row as it was.
Carried(e) == IF e.batch THEN NoIssue ELSE e.prev
NewlyNamed(e) == IF Changed(e, "named") THEN e.new.named \ e.prev.named ELSE {}

\* Mutant: a commenter is not subscribed.
SubscribesAssignees(e) ==
    CASE e.kind = "created" -> {creator, e.new.assignee} \cup e.new.named
      [] e.kind = "updated" ->
            (IF Changed(e, "assignee") THEN {e.new.assignee} ELSE {}) \cup NewlyNamed(e)
      [] OTHER -> {}
\* registerSubscriberListeners: @all is no user, and its insert is refused.
Subscribes(e) ==
    CASE e.kind = "created" -> {creator, e.new.assignee} \cup e.new.named
      [] e.kind = "updated" ->
            (IF Changed(e, "assignee") THEN {e.new.assignee} ELSE {}) \cup NewlyNamed(e)
      [] e.kind = "comment" -> {e.actor}
      [] OTHER -> {}

\* registerActivityListeners
Records(e) ==
    CASE e.kind = "created" -> <<"created">>
      [] e.kind = "updated" ->
            (IF Changed(e, "status") THEN <<"status">> ELSE <<>>)
            \o (IF Changed(e, "assignee") THEN <<"assignee">> ELSE <<>>)
            \o (IF Changed(e, "named") THEN <<"named">> ELSE <<>>)
      [] OTHER -> <<>>

\* notifyDirect, notifyMentionedMembers and notifySubscribers
Direct(type, to) == <<[type |-> type, to |-> to, skip |-> {}, watchers |-> FALSE]>>
Mentioned(names, skip) ==
    <<[type |-> "mentioned", skip |-> skip, watchers |-> FALSE,
       to |-> IF Everyone \in names THEN User ELSE names \cap User]>>
Watchers(type, skip) ==
    <<[type |-> type, to |-> {}, skip |-> skip, watchers |-> TRUE]>>

CreatedNotices(e) ==
    Direct("issue_assigned", {e.new.assignee})
    \o Mentioned(e.new.named, {e.new.assignee})
\* Mutant: every mention of the new description is told again.
UpdatedNoticesOfAll(e) == Mentioned(e.new.named, {})
UpdatedNotices(e) ==
    (IF Changed(e, "assignee")
     THEN Direct("issue_assigned", {e.new.assignee})
          \o Direct("unassigned", {Carried(e).assignee} \cap User)
          \o Watchers("assignee_changed", {Carried(e).assignee, e.new.assignee})
     ELSE <<>>)
    \o (IF Changed(e, "status") THEN Watchers("status_changed", {}) ELSE <<>>)
    \o Mentioned(NewlyNamed(e), {})
CommentNotices(e) == Watchers("new_comment", {}) \o Mentioned(e.names, {})
ReactionNotices(e) == Direct("reaction_added", {e.about})
\* registerNotificationListeners
Notices(e) ==
    CASE e.kind = "created" -> CreatedNotices(e)
      [] e.kind = "updated" -> UpdatedNotices(e)
      [] e.kind = "comment" -> CommentNotices(e)
      [] e.kind = "reaction" -> ReactionNotices(e)

-----------------------------------------------------------------------------
(***************************************************************************)
(* The requests that publish.                                              *)
(***************************************************************************)
\* A listener that has nothing left to do makes way for the next.
Onward(q) ==
    LET recording == IF Records(q.event) = <<>> THEN "address" ELSE "record"
    IN  CASE q.at = "subscribe" /\ q.todo = {} -> [q EXCEPT !.at = recording]
          [] q.at = "record" /\ q.k > Len(Records(q.event)) ->
                [q EXCEPT !.at = "address", !.k = 1]
          [] q.at = "deliver" /\ q.todo = {} -> [q EXCEPT !.at = "address", !.k = @ + 1]
          [] OTHER -> q

Publish(r, e, row) ==
    LET full == [e EXCEPT !.n = Len(history) + 1, !.before = following]
    IN  /\ history' = Append(history, row)
        /\ req' = [req EXCEPT ![r] = Onward([Idle EXCEPT
                      !.at = "subscribe", !.event = full,
                      !.todo = Subscribes(full) \cap Who])]
May(r) == req[r].at = "idle" /\ Len(history) < MaxEvents

CreateIssue(r, actor, draft) ==
    /\ May(r) /\ creator = None
    /\ issue' = draft
    /\ creator' = actor
    /\ history' = Append(history, issue')
    /\ req' = [req EXCEPT ![r] =
         [Idle EXCEPT !.at = "subscribe",
                      !.event = [NoEvent EXCEPT !.kind = "created", !.actor = actor,
                                                !.n = 1, !.new = issue'],
                      !.todo = ({actor, draft.assignee} \cup draft.named) \cap Who]]
    /\ UNCHANGED <<subscribers, activities, inbox, settled, following, raced>>

\* UpdateIssue, and BatchUpdateIssues for each issue it names, read the row and
\* write it in a later statement.
LoadIssue(r, p) ==
    /\ May(r) /\ creator # None
    /\ req' = [req EXCEPT ![r] =
         [Idle EXCEPT !.at = "write",
                      !.event = [NoEvent EXCEPT !.kind = "updated", !.actor = p.by,
                                 !.fields = {p.field}, !.batch = p.batch,
                                 !.new[p.field] = p.value, !.prev = issue]]]
    /\ UNCHANGED <<issue, creator, subscribers, activities, inbox, ghosts>>

\* An assignee that was not sent is written as it was read; the other columns
\* keep what they have.
Merged(e) == [assignee |-> IF "assignee" \in e.fields THEN e.new.assignee
                           ELSE e.prev.assignee,
              status |-> IF "status" \in e.fields THEN e.new.status ELSE issue.status,
              named |-> IF "named" \in e.fields THEN e.new.named ELSE issue.named]

\* Mutant: the row is compared with what it has become.
UpdateIssueForgetting(r) ==
    /\ req[r].at = "write" /\ Len(history) < MaxEvents
    /\ issue' = Merged(req[r].event)
    /\ Publish(r, [req[r].event EXCEPT !.new = issue', !.prev = issue'], issue')
    /\ raced' = (raced \/ issue # req[r].event.prev)
    /\ UNCHANGED <<creator, subscribers, activities, inbox, settled, following>>

UpdateIssue(r) ==
    /\ req[r].at = "write" /\ Len(history) < MaxEvents
    /\ issue' = Merged(req[r].event)
    /\ Publish(r, [req[r].event EXCEPT !.new = issue'], issue')
    /\ raced' = (raced \/ issue # req[r].event.prev)
    /\ UNCHANGED <<creator, subscribers, activities, inbox, settled, following>>

CreateComment(r, actor, names) ==
    /\ May(r) /\ creator # None
    /\ Publish(r, [NoEvent EXCEPT !.kind = "comment", !.actor = actor, !.names = names],
               issue)
    /\ UNCHANGED <<issue, creator, subscribers, activities, inbox, settled, following,
                   raced>>

\* A reaction that is there already is returned, and told again.
AddIssueReaction(r, actor) ==
    /\ May(r) /\ creator # None
    /\ Publish(r, [NoEvent EXCEPT !.kind = "reaction", !.actor = actor,
                                  !.about = creator], issue)
    /\ UNCHANGED <<issue, creator, subscribers, activities, inbox, settled, following,
                   raced>>

\* On a comment, here one whose own listeners are through.
AddReaction(r, actor, author) ==
    /\ May(r) /\ \E e \in settled : e.kind = "comment" /\ e.actor = author
    /\ Publish(r, [NoEvent EXCEPT !.kind = "reaction", !.actor = actor,
                                  !.about = author], issue)
    /\ UNCHANGED <<issue, creator, subscribers, activities, inbox, settled, following,
                   raced>>

-----------------------------------------------------------------------------
(***************************************************************************)
(* The listeners, one statement at a time.                                 *)
(***************************************************************************)
AddIssueSubscriber(u) == subscribers' = subscribers \cup {u}

AddSubscriber(r, u) ==
    /\ req[r].at = "subscribe" /\ u \in req[r].todo
    /\ AddIssueSubscriber(u)
    /\ req' = [req EXCEPT ![r] = Onward([req[r] EXCEPT !.todo = @ \ {u}])]
    /\ UNCHANGED <<issue, creator, activities, inbox, ghosts>>

Activity(e, action) ==
    [action |-> action, event |-> e.n,
     from |-> IF action = "created" THEN None ELSE Carried(e)[action],
     to |-> IF action = "created" THEN None ELSE e.new[action]]

CreateActivity(r) ==
    LET e == req[r].event
    IN  /\ req[r].at = "record"
        /\ activities' = activities \cup {Activity(e, Records(e)[req[r].k])}
        /\ req' = [req EXCEPT ![r] = Onward([req[r] EXCEPT !.k = @ + 1])]
        /\ UNCHANGED <<issue, creator, subscribers, inbox, ghosts>>

\* Who a notice is for: subscribers are listed now; an actor is never told.
ListRecipients(r) ==
    LET e == req[r].event  k == req[r].k
        to(notice) == (IF notice.watchers THEN subscribers \cap User ELSE notice.to)
                      \ (notice.skip \cup {e.actor, None})
    IN  /\ req[r].at = "address" /\ k <= Len(Notices(e))
        /\ req' = [req EXCEPT ![r] = Onward([req[r] EXCEPT !.at = "deliver",
                                                           !.todo = to(Notices(e)[k])])]
        /\ UNCHANGED <<issue, creator, subscribers, activities, inbox, ghosts>>

InboxItem(e, notice, u) == [to |-> u, type |-> notice.type, event |-> e.n]

CreateInboxItem(r, u) ==
    LET e == req[r].event
    IN  /\ req[r].at = "deliver" /\ u \in req[r].todo
        /\ inbox' = inbox \cup {InboxItem(e, Notices(e)[req[r].k], u)}
        /\ req' = [req EXCEPT ![r] = Onward([req[r] EXCEPT !.todo = @ \ {u}])]
        /\ UNCHANGED <<issue, creator, subscribers, activities, ghosts>>

\* The members an event involves, told from the rows.  An update that works on a row it read
\* earlier involves nobody whom it read there: one it puts back is not subscribed again.
\* A batch involves nobody whom its description mentions.
Before(e) == IF e.n > 1 THEN history[e.n - 1] ELSE NoIssue
Involved(e) ==
    User \cap
      CASE e.kind = "comment" -> {e.actor}
        [] e.kind = "created" -> {creator, e.new.assignee} \cup e.new.named
        [] e.kind = "updated" ->
              ({history[e.n].assignee} \ {Before(e).assignee, e.prev.assignee})
              \cup (IF e.batch THEN {}
                    ELSE history[e.n].named \ (Before(e).named \cup e.prev.named))
        [] OTHER -> {}

Finish(r) ==
    LET e == req[r].event
    IN  /\ req[r].at = "address" /\ req[r].k > Len(Notices(e))
        /\ settled' = settled \cup {[kind |-> e.kind, actor |-> e.actor, n |-> e.n,
                                     batch |-> e.batch, before |-> e.before \ req[r].left]}
        /\ following' = following \cup (Involved(e) \ req[r].left)
        /\ req' = [req EXCEPT ![r] = Idle]
        /\ UNCHANGED <<issue, creator, subscribers, activities, inbox, history, raced>>

-----------------------------------------------------------------------------
(***************************************************************************)
(* Members and agents are subscribed and unsubscribed.                     *)
(***************************************************************************)
SubscribeToIssue(u) ==
    /\ creator # None /\ u \notin subscribers /\ Len(history) < MaxEvents
    /\ AddIssueSubscriber(u) /\ following' = following \cup ({u} \cap User)
    /\ UNCHANGED <<issue, creator, activities, inbox, req, history, settled, raced>>

UnsubscribeFromIssue(u) ==
    /\ u \in subscribers /\ Len(history) < MaxEvents
    /\ subscribers' = subscribers \ {u} /\ following' = following \ {u}
    /\ req' = [r \in Request |-> IF req[r].at = "idle" THEN req[r]
                                 ELSE [req[r] EXCEPT !.left = @ \cup {u}]]
    /\ UNCHANGED <<issue, creator, activities, inbox, history, settled, raced>>

-----------------------------------------------------------------------------
Asking(r) ==
    \/ \E p \in Patch : LoadIssue(r, p)
    \/ \E actor \in Acting :
        \/ \E draft \in Draft : CreateIssue(r, actor, draft)
        \/ \E names \in Naming : CreateComment(r, actor, names)
        \/ AddIssueReaction(r, actor)
        \/ \E author \in Who : AddReaction(r, actor, author)
Listening(r) ==
    \/ UpdateIssue(r) \/ CreateActivity(r) \/ ListRecipients(r) \/ Finish(r)
    \/ \E u \in Who : AddSubscriber(r, u) \/ CreateInboxItem(r, u)
Next == \/ \E r \in Request : Asking(r) \/ Listening(r)
        \/ \E u \in Fickle : SubscribeToIssue(u) \/ UnsubscribeFromIssue(u)

Spec == Init /\ [][Next]_vars

-----------------------------------------------------------------------------
\* Whoever created the issue, was assigned to it, was mentioned in it or
\* commented on it (but for one whom an update only put back as it had read the
\* row before, and one whom a batch mentions), and has not unsubscribed, is told
\* of every later comment but their own, whatever else goes on meanwhile.
FollowersAreTold ==
    \A e \in settled : e.kind = "comment" =>
        \A u \in e.before \ {e.actor} :
            [to |-> u, type |-> "new_comment", event |-> e.n] \in inbox

\* Unless an update wrote over a row it had not read, a mention is told when it
\* appears in the description, and not again when the text is edited; a batch
\* tells no mention at all.
MentionsToldOnce ==
    ~raced => \A e \in settled : e.kind = "updated" =>
        LET new == history[e.n].named \ history[e.n - 1].named
            to == IF e.batch THEN {} ELSE IF Everyone \in new THEN User ELSE new \cap User
        IN  {i.to : i \in {i \in inbox : i.event = e.n /\ i.type = "mentioned"}}
              = to \ {e.actor}

\* Likewise, the activities of an update are what changed from the row before it
\* to its own, with two gaps: an unassignment is in no activity, and those of a
\* batch do not say what was there before.
LogReplays ==
    ~raced => \A e \in settled : e.kind = "updated" =>
        \A f \in {"assignee", "status"} :
            LET was == history[e.n - 1][f]  is == history[e.n][f]
                logged == was # is /\ (f = "assignee" => is # None)
            IN  {[from |-> a.from, to |-> a.to] :
                    a \in {a \in activities : a.event = e.n /\ a.action = f}}
                  = IF logged THEN {[from |-> IF e.batch THEN None ELSE was, to |-> is]}
                    ELSE {}

\* What happens to an issue is told, to the members it is for, as it happened.
IssueIsTold == FollowersAreTold /\ MentionsToldOnce /\ LogReplays
=============================================================================
