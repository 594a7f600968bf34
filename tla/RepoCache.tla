------------------------------- MODULE RepoCache -------------------------------
(***************************************************************************)
(* The bare clones a daemon keeps of the repositories of a workspace, and  *)
(* the worktrees its agents check out of them                              *)
(* (internal/daemon/repocache/cache.go, the /repo/checkout request of      *)
(* internal/daemon/health.go, the directories of                           *)
(* internal/daemon/execenv/execenv.go).                                    *)
(*                                                                         *)
(* git itself is external; what it does with the arguments the code gives  *)
(* it is in the operators GitFetch and WorktreeAdd.  Sync holds the lock   *)
(* of the cache; a checkout takes no lock.                                 *)
(***************************************************************************)
EXTENDS Naturals, FiniteSets

CONSTANTS
    Url,             \* the repositories of the workspace
    BareOf,          \* [Url -> a directory of the cache]: the last part of the URL
    RepoItem,        \* an item names its directory and, with the agent, its branch
    MaxCommits,      \* bound: commits to main of an origin
    MaxCheckouts,    \* bound: checkouts
    MaxCrashes       \* bound: deaths of the daemon

ASSUME CacheAssumption ==
    /\ MaxCommits \in Nat /\ MaxCheckouts \in Nat /\ MaxCrashes \in Nat

Bare == {BareOf[u] : u \in Url}

VARIABLES
    origin,          \* of a Url: the commits of main and the branches agents pushed
    bare,            \* the clones: where they come from, main, the branches and the
                     \* worktrees git has registered
    disk,            \* worktrees on disk: [dir, url]
    work,            \* [RepoItem -> the directory its Run works in, or "none"]
    sync,            \* what Sync is doing
    checkout,        \* [RepoItem -> the request of its agent]
    last,            \* history: how the last checkout that ended went
    checkouts, crashes

cacheVars == <<origin, bare, disk, work, sync, checkout, last, checkouts, crashes>>

Clone(at, u) == [at |-> at, of |-> u, main |-> 0, configured |-> FALSE,
                 branches |-> {}, worktrees |-> {}]
NoClone == Clone("none", "none")
Idle == [at |-> "idle"]

CacheInit ==
    /\ origin = [u \in Url |-> [main |-> 0, branches |-> {}]]
    /\ bare = [d \in Bare |-> NoClone]
    /\ disk = {}
    /\ work = [i \in RepoItem |-> "none"]
    /\ sync = Idle
    /\ checkout = [i \in RepoItem |-> Idle]
    /\ last = Idle
    /\ checkouts = 0 /\ crashes = 0

-----------------------------------------------------------------------------
(* git.                                                                    *)

Registered(d) == bare[d].worktrees
\* A branch that is checked out somewhere, also where the directory is gone.
CheckedOut(d) == {t.branch : t \in Registered(d)}

\* Everything is refused when one branch of origin is checked out; without the refspec
\* nothing is updated.
Refused(d) == bare[d].configured /\ CheckedOut(d) \cap origin[bare[d].of].branches # {}
GitFetch(d) ==
    IF bare[d].at # "ready" \/ ~bare[d].configured \/ Refused(d) THEN bare
    ELSE [bare EXCEPT ![d].main = origin[bare[d].of].main,
                      ![d].branches = @ \union origin[bare[d].of].branches]

\* worktree add -b makes the branch first and keeps it when the rest fails.
WorktreeAdd(d, u, dir, branch, asked) ==
    IF bare[d].at = "partial" THEN [says |-> "invalid reference", to |-> bare, disk |-> disk]
    ELSE IF branch \in bare[d].branches
         THEN [says |-> "already exists", to |-> bare, disk |-> disk]
    ELSE LET made == [bare EXCEPT ![d].branches = @ \union {branch}]
             path == [dir |-> dir, url |-> u]
         IN  IF path \in disk THEN [says |-> "already exists", to |-> made, disk |-> disk]
             ELSE IF \E t \in Registered(d) : t.dir = dir /\ t.url = u
             THEN [says |-> "already registered", to |-> made, disk |-> disk]
             ELSE [says |-> "ok", disk |-> disk \union {path},
                   to |-> [made EXCEPT ![d].worktrees = @ \union
                       {[dir |-> dir, url |-> u, branch |-> branch,
                         base |-> bare[d].main, asked |-> asked]}]]

-----------------------------------------------------------------------------
(* Sync, for one repository at a time.                                     *)

SyncStarts(u, reached) ==
    LET d == BareOf[u]
    IN  /\ sync = Idle
        /\ IF bare[d] # NoClone                      \* isBareRepo: a HEAD is there
           THEN bare' = (IF reached THEN GitFetch(d) ELSE bare) /\ UNCHANGED sync
           ELSE /\ bare' = [bare EXCEPT ![d] = Clone("partial", u)]
                /\ sync' = [at |-> "cloning", dir |-> d]
        /\ UNCHANGED <<origin, disk, work, checkout, last, checkouts, crashes>>

\* A clone that fails is removed.
CloneEnds(ok) ==
    /\ sync.at = "cloning"
    /\ IF ok
       THEN /\ LET o == origin[bare[sync.dir].of]
               IN  bare' = [bare EXCEPT ![sync.dir].at = "ready",
                       ![sync.dir].main = o.main, ![sync.dir].branches = o.branches]
            /\ sync' = [sync EXCEPT !.at = "configuring"]
       ELSE /\ bare' = [bare EXCEPT ![sync.dir] = NoClone]
            /\ sync' = Idle
    /\ UNCHANGED <<origin, disk, work, checkout, last, checkouts, crashes>>

\* The refspec that makes a fetch update the branches.
Configures ==
    /\ sync.at = "configuring"
    /\ bare' = [bare EXCEPT ![sync.dir].configured = TRUE]
    /\ sync' = Idle
    /\ UNCHANGED <<origin, disk, work, checkout, last, checkouts, crashes>>

-----------------------------------------------------------------------------
(* A checkout.                                                             *)

Asks(i, u) ==
    /\ work[i] # "none" /\ checkout[i] = Idle /\ checkouts < MaxCheckouts
    /\ checkouts' = checkouts + 1
    /\ IF bare[BareOf[u]] = NoClone                  \* Lookup
       THEN /\ last' = [at |-> "failed", why |-> "not cached"]
            /\ UNCHANGED checkout
       ELSE /\ checkout' = [checkout EXCEPT ![i] =
                   [at |-> "fetching", url |-> u, dir |-> work[i], asked |-> origin[u].main]]
            /\ UNCHANGED last
    /\ UNCHANGED <<origin, bare, disk, work, sync, crashes>>

\* Mutant: the cached state is taken as it is.
FetchesNothing(i, reached) ==
    /\ checkout[i].at = "fetching"
    /\ checkout' = [checkout EXCEPT ![i].at = "adding"]
    /\ UNCHANGED <<origin, bare, disk, work, sync, last, checkouts, crashes>>

\* A fetch that fails is only logged; nothing is asked of what is checked out when the
\* origin was not reached, or the clone has no refspec (yet).
Fetches(i, reached) ==
    /\ checkout[i].at = "fetching"
    /\ bare' = IF reached THEN GitFetch(BareOf[checkout[i].url]) ELSE bare
    /\ checkout' = [checkout EXCEPT ![i].at = "adding", 
                   ![i].asked = IF reached /\ bare[BareOf[checkout[i].url]].configured THEN @ ELSE 0]
    /\ UNCHANGED <<origin, disk, work, sync, last, checkouts, crashes>>

Branch(i, at) == IF at = "adding" THEN <<i, 0>> ELSE <<i, checkouts>>

\* Mutant: a name that is taken is not tried with another suffix.
AgainNever(at, says) == FALSE
Again(at, says) == at = "adding" /\ says = "already exists"

\* createWorktree tries a second name once when git says "already exists".
Adds(i) ==
    LET c == checkout[i]
        d == BareOf[c.url]
        was == \E t \in Registered(d) : t.dir = c.dir /\ t.url = c.url
        r == WorktreeAdd(d, c.url, c.dir, Branch(i, c.at), c.asked)
    IN  /\ c.at \in {"adding", "again"} /\ bare[d] # NoClone
        /\ bare' = r.to /\ disk' = r.disk
        /\ IF Again(c.at, r.says)
           THEN checkout' = [checkout EXCEPT ![i].at = "again"] /\ UNCHANGED last
           ELSE /\ checkout' = [checkout EXCEPT ![i] = Idle]
                /\ last' = IF r.says = "ok" THEN Idle
                           ELSE [at |-> "failed",
                                 why |-> IF was THEN "used before" ELSE r.says]
        /\ UNCHANGED <<origin, work, sync, checkouts, crashes>>

\* The clone was given up meanwhile.
FindsNoClone(i) ==
    /\ checkout[i].at \in {"adding", "again", "fetching"} 
    /\ bare[BareOf[checkout[i].url]] = NoClone
    /\ checkout' = [checkout EXCEPT ![i] = Idle]
    /\ last' = [at |-> "failed", why |-> "not cached"]
    /\ UNCHANGED <<origin, bare, disk, work, sync, checkouts, crashes>>

-----------------------------------------------------------------------------
(* Around it.                                                              *)

\* Prepare makes the directory of the item anew.
Prepares(i) ==
    /\ work[i] = "none"
    /\ work' = [work EXCEPT ![i] = i]
    /\ disk' = {p \in disk : p.dir # i}
    /\ UNCHANGED <<origin, bare, sync, checkout, last, checkouts, crashes>>

\* Reuse takes the directory an item of the same agent and issue worked in.
Reuses(i, dir) ==
    /\ work[i] = "none" /\ \E p \in disk : p.dir = dir
    /\ work' = [work EXCEPT ![i] = dir]
    /\ UNCHANGED <<origin, bare, disk, sync, checkout, last, checkouts, crashes>>

RunEnds(i) ==
    /\ work[i] # "none"
    /\ work' = [work EXCEPT ![i] = "none"]
    /\ UNCHANGED <<origin, bare, disk, sync, checkout, last, checkouts, crashes>>

\* The agent pushes the branch it works on.
Pushes(i) ==
    /\ \E d \in Bare : \E t \in Registered(d) :
          /\ t.dir = work[i] /\ [dir |-> t.dir, url |-> t.url] \in disk
          /\ origin' = [origin EXCEPT ![bare[d].of].branches = @ \union {t.branch}]
    /\ UNCHANGED <<bare, disk, work, sync, checkout, last, checkouts, crashes>>

Commits(u) ==
    /\ origin[u].main < MaxCommits
    /\ origin' = [origin EXCEPT ![u].main = @ + 1]
    /\ UNCHANGED <<bare, disk, work, sync, checkout, last, checkouts, crashes>>

\* The daemon dies, with its git commands and its agents; files stay.
DaemonDies ==
    /\ crashes < MaxCrashes
    /\ crashes' = crashes + 1
    /\ sync' = Idle
    /\ work' = [i \in RepoItem |-> "none"]
    /\ checkout' = [i \in RepoItem |-> Idle]
    /\ UNCHANGED <<origin, bare, disk, last, checkouts>>

CacheNext ==
    \/ \E u \in Url : Commits(u) \/ \E reached \in BOOLEAN : SyncStarts(u, reached)
    \/ \E ok \in BOOLEAN : CloneEnds(ok)
    \/ Configures \/ DaemonDies
    \/ \E i \in RepoItem : \/ \E u \in Url : Asks(i, u)
                       \/ \E dir \in RepoItem : Reuses(i, dir)
                       \/ \E reached \in BOOLEAN : Fetches(i, reached)
                       \/ Adds(i) \/ FindsNoClone(i)
                       \/ Prepares(i) \/ RunEnds(i) \/ Pushes(i)

CacheSpec == CacheInit /\ [][CacheNext]_cacheVars

-----------------------------------------------------------------------------
\* cache.go:187 "looks up the bare cache for a repo, fetches latest, and creates a git
\* worktree": a worktree starts from what main of its repository was when the checkout
\* was asked for, or newer, when the origin was reached and the clone was configured,
\* unless a branch that is checked out was pushed to the origin, since when git refuses
\* every fetch of that clone.
CheckoutsAreFresh ==
    \A d \in Bare :
        \A t \in Registered(d) : t.url = bare[d].of =>
            t.base >= t.asked \/ CheckedOut(d) \cap origin[bare[d].of].branches # {}

\* A checkout fails only where the clone is not there in full, or where the repository
\* was checked out into that directory before: the branches that earlier attempts of the
\* item left behind do not stop it.
CheckoutsSucceed ==
    last.at = "failed" => last.why \in {"not cached", "invalid reference", "used before"}

\* A checkout serves its item: it comes about, and starts from the newest main.
CheckoutsServe == CheckoutsAreFresh /\ CheckoutsSucceed
=============================================================================
