--------------------------- MODULE WorkspaceAccess ---------------------------
(***************************************************************************)
(* Who is a member of which workspace: the membership requests             *)
(* (internal/handler/workspace.go) behind the middleware that reads the    *)
(* requester's role (internal/middleware/workspace.go), and the sign-in    *)
(* that makes a user and a first workspace (internal/handler/auth.go)      *)
(* under the policy of internal/service/access_policy.go.                  *)
(*                                                                         *)
(* Every read and write is a statement of its own, a transaction one step. *)
(* All e-mail addresses are of one domain; codes, tokens, names and        *)
(* settings are left out.                                                  *)
(***************************************************************************)
EXTENDS Naturals, FiniteSets

CONSTANTS
    Account, Workspace,
    HomeOf,          \* [Account -> Workspace]: the slug of a default workspace holds the
                     \* id of its user
    Call,            \* requests the server handles at once
    MaxCalls         \* bound: requests

ASSUME AccessAssumption ==
    /\ HomeOf \in [Account -> Workspace]
    /\ \A u, v \in Account : HomeOf[u] = HomeOf[v] => u = v
    /\ MaxCalls \in Nat

Role == {"owner", "admin", "member"}

VARIABLES
    policy,          \* the environment, read once when the server starts
    users,           \* rows of "user"
    live,            \* rows of workspace
    member,          \* rows of member: the role of a user in a workspace, or "none"
    claimed,         \* workspaces that claim the domain
    call,            \* the requests: where each is and what it has read
    overtaken,       \* history: workspaces where a row was written by a request that had
                     \* judged by memberships another one changed since
    removed,         \* history: users that lost a membership
    calls

accessVars == <<policy, users, live, member, claimed, call, overtaken, removed, calls>>

Done == [at |-> "done"]

AccessInit ==
    /\ policy \in [signupDisabled : BOOLEAN, creationDisabled : BOOLEAN]
    /\ users = {} /\ live = {} /\ claimed = {} /\ overtaken = {} /\ removed = {}
    /\ member = [w \in Workspace |-> [u \in Account |-> "none"]]
    /\ call = [q \in Call |-> Done]
    /\ calls = 0

-----------------------------------------------------------------------------
Owners(w) == {u \in Account : member[w][u] = "owner"}
ListWorkspaces(u) == {w \in Workspace : member[w][u] # "none"}

Arrives(q, first) ==
    /\ call[q] = Done /\ calls < MaxCalls
    /\ calls' = calls + 1
    /\ call' = [call EXCEPT ![q] = first]
Moves(q, at) == call' = [call EXCEPT ![q].at = at]
Returns(q) == call' = [call EXCEPT ![q] = Done]

Open(r, w) == r.at \in {"counting", "writing"} /\ r.ws = w

\* The others that have judged a membership of w find it changed; the row that one
\* of them means is gone when u was removed.
Seen(r, w, u, role) ==
    IF ~Open(r, w) THEN r
    ELSE [r EXCEPT !.behind = @ \/ r.at = "writing",
                   !.gone = @ \/ (role = "none" /\ r.target = u)]

\* The inserts; a row that is there stays.
AddUser(u) == users' = users \union {u}
AddMember(w, u, role) ==
    member' = IF member[w][u] = "none" THEN [member EXCEPT ![w][u] = role] ELSE member

\* defaultWorkspaceSlug carries a part of the user's id: nobody else asks for it.
Homes == {HomeOf[u] : u \in Account}

-----------------------------------------------------------------------------
(* Changing, removing and leaving a membership: to is a role, or "none".   *)

\* The middleware, and the row of the target: role is the requester's, old the
\* target's. Only the owner rules are left to judge.
UpdateMember(q, w, by, target, to) ==
    /\ member[w][by] \in {"owner", "admin"} /\ member[w][target] # "none"
    /\ "owner" \in {member[w][target], to} => member[w][by] = "owner"
    /\ Arrives(q, [at |-> IF member[w][target] = "owner" /\ to # "owner"
                          THEN "counting" ELSE "writing",
                   ws |-> w, target |-> target, to |-> to, behind |-> FALSE, gone |-> FALSE])
    /\ UNCHANGED <<policy, users, live, member, claimed, overtaken, removed>>

LeaveWorkspace(q, w, u) ==
    /\ member[w][u] # "none"
    /\ Arrives(q, [at |-> IF member[w][u] = "owner" THEN "counting" ELSE "writing",
                   ws |-> w, target |-> u, to |-> "none", behind |-> FALSE, gone |-> FALSE])
    /\ UNCHANGED <<policy, users, live, member, claimed, overtaken, removed>>

\* Mutant: the last owner may go as well.
CountsNothing(q) ==
    /\ call[q].at = "counting"
    /\ Moves(q, "writing")
    /\ UNCHANGED <<policy, users, live, member, claimed, overtaken, removed, calls>>

\* The owner rule asks for at least one other owner.
CountsOwners(q) ==
    /\ call[q].at = "counting"
    /\ IF Cardinality(Owners(call[q].ws)) <= 1 THEN Returns(q) ELSE Moves(q, "writing")
    /\ UNCHANGED <<policy, users, live, member, claimed, overtaken, removed, calls>>

\* The row is named by its id.
WritesMember(q) ==
    LET r == call[q]
    IN  /\ r.at = "writing"
        /\ IF r.gone
           THEN Returns(q) /\ UNCHANGED <<member, overtaken, removed>>
           ELSE /\ member' = [member EXCEPT ![r.ws][r.target] = r.to]
                /\ call' = [p \in Call |->
                       IF p = q THEN Done ELSE Seen(call[p], r.ws, r.target, r.to)]
                /\ overtaken' = IF r.behind THEN overtaken \union {r.ws} ELSE overtaken
                /\ removed' = IF r.to = "none" THEN removed \union {r.target} ELSE removed
        /\ UNCHANGED <<policy, users, live, claimed, calls>>

\* CreateMember provisions a user that has not signed up; an existing member is a
\* conflict.
CreateMember(w, by, u, role) ==
    /\ member[w][by] \in {"owner", "admin"} /\ calls < MaxCalls
    /\ role = "owner" => member[w][by] = "owner"
    /\ AddUser(u)
    /\ AddMember(w, u, role)
    /\ calls' = calls + 1
    /\ UNCHANGED <<policy, live, claimed, call, overtaken, removed>>

-----------------------------------------------------------------------------
(* Workspaces.                                                             *)

CreateWorkspace(w, u) ==
    /\ ~policy.creationDisabled /\ calls < MaxCalls
    /\ u \in users /\ w \notin live \union Homes
    /\ live' = live \union {w}
    /\ AddMember(w, u, "owner")
    /\ calls' = calls + 1
    /\ UNCHANGED <<policy, users, claimed, call, overtaken, removed>>

\* The memberships go with their workspace.
DeleteWorkspace(w, by) ==
    /\ member[w][by] = "owner" /\ calls < MaxCalls
    /\ live' = live \ {w} /\ claimed' = claimed \ {w} /\ overtaken' = overtaken \ {w}
    /\ removed' = removed \union {u \in Account : member[w][u] # "none"}
    /\ member' = [member EXCEPT ![w] = [u \in Account |-> "none"]]
    /\ call' = [q \in Call |->
          IF Open(call[q], w) THEN [call[q] EXCEPT !.gone = TRUE] ELSE call[q]]
    /\ calls' = calls + 1
    /\ UNCHANGED <<policy, users>>

SetSSOConfig(w, by, claims) ==
    /\ member[w][by] \in {"owner", "admin"} /\ calls < MaxCalls
    /\ claimed' = IF claims THEN claimed \union {w} ELSE claimed \ {w}
    /\ calls' = calls + 1
    /\ UNCHANGED <<policy, users, live, member, call, overtaken, removed>>

-----------------------------------------------------------------------------
(* Signing in with an accepted code.                                       *)

At(q, at) == call[q].at = at
SignInEnds(q, well) == call' = [call EXCEPT ![q].at = IF well THEN "served" ELSE "failed"]

\* checkSignupAccess, before the code is looked at and used up.
CheckSignupAccess(u) ==
    \/ u \in users
    \/ ~policy.signupDisabled /\ (policy.creationDisabled => claimed # {})

VerifyCode(q, u) ==
    /\ CheckSignupAccess(u)
    /\ Arrives(q, [at |-> "finding", user |-> u])
    /\ UNCHANGED <<policy, users, live, member, claimed, overtaken, removed>>

FindUser(q) ==
    /\ At(q, "finding")
    /\ Moves(q, IF call[q].user \in users THEN "joining" ELSE "creating")
    /\ UNCHANGED <<policy, users, live, member, claimed, overtaken, removed, calls>>

CreateUser(q) ==
    /\ At(q, "creating")
    /\ IF call[q].user \in users THEN SignInEnds(q, FALSE) ELSE Moves(q, "joining")
    /\ AddUser(call[q].user)
    /\ UNCHANGED <<policy, live, member, claimed, overtaken, removed, calls>>

\* Best effort: one of the workspaces that claim the domain.
JoinsClaimed(q) ==
    /\ At(q, "joining")
    /\ Moves(q, "looking")
    /\ \/ claimed = {} /\ UNCHANGED member
       \/ \E w \in claimed : AddMember(w, call[q].user, "member")
    /\ UNCHANGED <<policy, users, live, claimed, overtaken, removed, calls>>

\* ensureUserWorkspace looks before and in its transaction.
Looks(q) ==
    /\ At(q, "looking") \/ At(q, "again")
    /\ IF ListWorkspaces(call[q].user) # {} THEN SignInEnds(q, TRUE)
       ELSE IF policy.creationDisabled THEN SignInEnds(q, FALSE)
       ELSE Moves(q, IF At(q, "looking") THEN "again" ELSE "home")
    /\ UNCHANGED <<policy, users, live, member, claimed, overtaken, removed, calls>>

\* Mutant: a slug that is taken fails the sign-in at once.
CreatesHomeOrFails(q) ==
    LET u == call[q].user
    IN  /\ At(q, "home")
        /\ IF HomeOf[u] \in live
           THEN SignInEnds(q, FALSE) /\ UNCHANGED <<live, member>>
           ELSE /\ live' = live \union {HomeOf[u]}
                /\ AddMember(HomeOf[u], u, "owner")
                /\ SignInEnds(q, TRUE)
        /\ UNCHANGED <<policy, users, claimed, overtaken, removed, calls>>

\* The slug is unique: whoever comes second looks for the workspace of the first.
CreatesHome(q) ==
    LET u == call[q].user
    IN  /\ At(q, "home")
        /\ IF HomeOf[u] \in live
           THEN Moves(q, "taken") /\ UNCHANGED <<live, member>>
           ELSE /\ live' = live \union {HomeOf[u]}
                /\ AddMember(HomeOf[u], u, "owner")
                /\ SignInEnds(q, TRUE)
        /\ UNCHANGED <<policy, users, claimed, overtaken, removed, calls>>

SlugTaken(q) ==
    /\ At(q, "taken")
    /\ SignInEnds(q, ListWorkspaces(call[q].user) # {})
    /\ UNCHANGED <<policy, users, live, member, claimed, overtaken, removed, calls>>

Replies(q) ==
    /\ At(q, "served") \/ At(q, "failed")
    /\ Returns(q)
    /\ UNCHANGED <<policy, users, live, member, claimed, overtaken, removed, calls>>

-----------------------------------------------------------------------------
AccessNext ==
    \/ \E w \in Workspace, u \in Account :
          \/ CreateWorkspace(w, u) \/ DeleteWorkspace(w, u)
          \/ \E claims \in BOOLEAN : SetSSOConfig(w, u, claims)
          \/ \E q \in Call : LeaveWorkspace(q, w, u)
          \/ \E v \in Account, role \in Role : CreateMember(w, u, v, role)
          \/ \E q \in Call, v \in Account, to \in Role \union {"none"} :
                UpdateMember(q, w, u, v, to)
    \/ \E q \in Call :
          \/ CountsOwners(q) \/ WritesMember(q) \/ FindUser(q) \/ CreateUser(q)
          \/ JoinsClaimed(q) \/ Looks(q) \/ CreatesHome(q) \/ SlugTaken(q) \/ Replies(q)
          \/ \E u \in Account : VerifyCode(q, u)

AccessSpec == AccessInit /\ [][AccessNext]_accessVars

-----------------------------------------------------------------------------
\* workspace.go "workspace must have at least one owner": the owners are counted in
\* one statement and the row is written in another, the role that was judged read
\* before both. A workspace keeps an owner as long as no request writes a membership
\* that another one changed since it judged.
OwnerRemains == \A w \in live \ overtaken : Owners(w) # {}

\* Whoever signs in for the first time, also twice at once, gets a workspace and a
\* token: a sign-in whose code was used up fails only where another request made the
\* user at that moment, where creation is disabled and the user belongs nowhere, or
\* for a user who was in a workspace before and lost it.
LoginsAreServed == [][
    \A q \in Call : call'[q].at = "failed" /\ call[q].at # "failed" =>
        LET u == call[q].user
        IN  \/ At(q, "creating")
            \/ policy.creationDisabled /\ ListWorkspaces(u) = {}
            \/ u \in removed]_accessVars
=============================================================================
