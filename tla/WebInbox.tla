-------------------------------- MODULE WebInbox --------------------------------
(***************************************************************************)
(* The inbox of a user as the web application shows it                     *)
(* (server: internal/handler/inbox.go, pkg/db/generated/inbox.sql.go,      *)
(* cmd/server/listeners.go; web: features/inbox/store.ts,                  *)
(* features/realtime/use-realtime-sync.ts, shared/api/ws-client.ts,        *)
(* features/workspace/store.ts, inbox/page.tsx).                           *)
(*                                                                         *)
(* A tab shows what it fetched, what its socket told it since, and what    *)
(* the user did in it, before the server knows.  Only inbox:new concerns   *)
(* it: the other inbox events tell what the user did and are skipped.      *)
(***************************************************************************)
EXTENDS Naturals, FiniteSets

CONSTANTS
    Tab,             \* tabs of one user
    Notice,          \* the inbox items that can be created for the user
    MaxDrops,        \* bound: sockets that break
    MaxFailures,     \* bound: requests that fail
    MaxUses          \* bound: what the user does; also names the requests

ASSUME WebAssumption == MaxDrops \in Nat /\ MaxFailures \in Nat /\ MaxUses \in Nat

VARIABLES
    row,             \* [Notice -> "none", "unread", "read" or "archived"]: the rows
    unpublished,          \* rows whose inbox:new is not published yet
    store,           \* [Tab -> [Notice -> the same]]: the items of the store
    link,            \* [Tab -> "none", "accepted", "registered" or "broken"]
    open, before,    \* tabs that saw the socket open, and those that ever did
    inFlight,        \* [Tab -> the inbox:new events on the socket]
    fetches,         \* [Tab -> fetches of the list: [n, rows]; rows is Sent at first]
    uses,            \* requests of the user: [tab, n, op, of, at]
    excused,         \* history: [Tab -> items that were taken away by an older answer, whose
                     \* event found no socket, or that a failed fetch left out]
    drops, failures, used

webVars == <<row, unpublished, store, link, open, before, inFlight, fetches, uses, excused,
             drops, failures, used>>

Sent == [i \in Notice |-> "asked"]
Empty == [i \in Notice |-> "none"]
Present == {i \in Notice : row[i] \in {"unread", "read"}}
Listed == [i \in Notice |-> IF i \in Present THEN row[i] ELSE "none"]   \* ListInboxItems

\* A page that was opened: hydrateWorkspace asks for the list while the socket connects.
WebInit ==
    /\ row = Empty /\ unpublished = {}
    /\ store = [t \in Tab |-> Empty]
    /\ link = [t \in Tab |-> "none"] /\ open = {} /\ before = {}
    /\ inFlight = [t \in Tab |-> {}]
    /\ fetches = [t \in Tab |-> {[n |-> 0, rows |-> Sent]}]
    /\ uses = {}
    /\ excused = [t \in Tab |-> {}]
    /\ drops = 0 /\ failures = 0 /\ used = 0

\* A number no fetch of the tab has.
Fresh(t) == CHOOSE n \in 0 .. Cardinality(fetches[t]) : \A f \in fetches[t] : f.n # n
WithFetch(t) == [fetches EXCEPT ![t] = @ \union {[n |-> Fresh(t), rows |-> Sent]}]

-----------------------------------------------------------------------------
(* The server.                                                             *)

CreateNotice(i) ==
    /\ row[i] = "none"
    /\ row' = [row EXCEPT ![i] = "unread"]
    /\ unpublished' = unpublished \union {i}
    /\ UNCHANGED <<store, link, open, before, inFlight, fetches, uses, excused, drops, failures, used>>

\* Before the first connection is made, an event is missed that the page's fetch is too
\* early for; between the upgrade and the registration also one that a reconnect's is.
Overlooks(t) == \/ link[t] = "accepted"
                \/ t \notin before /\ \A f \in fetches[t] : f.rows # Sent

PublishInboxNew(i) ==
    /\ i \in unpublished
    /\ unpublished' = unpublished \ {i}
    /\ inFlight' = [t \in Tab |-> IF link[t] = "registered" THEN inFlight[t] \union {i} ELSE inFlight[t]]
    /\ excused' = [t \in Tab |-> IF Overlooks(t) THEN excused[t] \union {i} ELSE excused[t]]
    /\ UNCHANGED <<row, store, link, open, before, fetches, uses, drops, failures, used>>

-----------------------------------------------------------------------------
(* The socket of a tab.                                                    *)

Upgrades(t) ==
    /\ link[t] = "none"
    /\ link' = [link EXCEPT ![t] = "accepted"]
    /\ UNCHANGED <<row, unpublished, store, open, before, inFlight, fetches, uses, excused, drops, failures, used>>

Registers(t) ==
    /\ link[t] = "accepted"
    /\ link' = [link EXCEPT ![t] = "registered"]
    /\ UNCHANGED <<row, unpublished, store, open, before, inFlight, fetches, uses, excused, drops, failures, used>>

\* Mutant: what was missed meanwhile is not asked for.
AsksNothing(t) == fetches
Reconnects(t) == IF t \in before THEN WithFetch(t) ELSE fetches

\* onopen; a reconnect fetches everything again.
Opens(t) ==
    /\ link[t] # "none" /\ t \notin open
    /\ open' = open \union {t}
    /\ before' = before \union {t}
    /\ fetches' = Reconnects(t)
    /\ UNCHANGED <<row, unpublished, store, link, inFlight, uses, excused, drops, failures, used>>

\* The server, or the network, gives the connection up; the tab sees it later.
Breaks(t) ==
    /\ link[t] \in {"accepted", "registered"} /\ drops < MaxDrops
    /\ link' = [link EXCEPT ![t] = "broken"]
    /\ drops' = drops + 1
    /\ UNCHANGED <<row, unpublished, store, open, before, inFlight, fetches, uses, excused, failures, used>>
Closes(t) ==
    /\ link[t] = "broken"
    /\ link' = [link EXCEPT ![t] = "none"]
    /\ open' = open \ {t} /\ inFlight' = [inFlight EXCEPT ![t] = {}]
    /\ UNCHANGED <<row, unpublished, store, before, fetches, uses, excused, drops, failures, used>>

\* addItem: unless the store has it.
AddItem(t, i) ==
    /\ t \in open /\ i \in inFlight[t]
    /\ inFlight' = [inFlight EXCEPT ![t] = @ \ {i}]
    /\ store' = [store EXCEPT ![t][i] = IF @ = "none" THEN "unread" ELSE @]
    /\ UNCHANGED <<row, unpublished, link, open, before, fetches, uses, excused, drops, failures, used>>

-----------------------------------------------------------------------------
(* fetch of the store.                                                     *)

ListInbox(t, f) ==
    /\ f \in fetches[t] /\ f.rows = Sent
    /\ fetches' = [fetches EXCEPT ![t] = (@ \ {f}) \union {[f EXCEPT !.rows = Listed]}]
    /\ UNCHANGED <<row, unpublished, store, link, open, before, inFlight, uses, excused, drops, failures, used>>

\* The answer replaces the items, however old it is.
SetItems(t, f) ==
    /\ f \in fetches[t] /\ f.rows # Sent
    /\ fetches' = [fetches EXCEPT ![t] = @ \ {f}]
    /\ store' = [store EXCEPT ![t] = f.rows]
    /\ excused' = [excused EXCEPT ![t] =
           {i \in @ : f.rows[i] = "none"} \union
           {i \in Notice : store[t][i] # "none" /\ f.rows[i] = "none"}]
    /\ UNCHANGED <<row, unpublished, link, open, before, inFlight, uses, drops, failures, used>>

FetchFails(t, f) ==
    /\ f \in fetches[t] /\ failures < MaxFailures
    /\ failures' = failures + 1
    /\ fetches' = [fetches EXCEPT ![t] = @ \ {f}]
    /\ excused' = [excused EXCEPT ![t] = @ \union {i \in Notice : row[i] # store[t][i]}]
    /\ UNCHANGED <<row, unpublished, store, link, open, before, inFlight, uses, drops, used>>

-----------------------------------------------------------------------------
(* What the user does.                                                     *)

\* What an operation makes of an item: on the server, and in the store.
Becomes(op, of, s, i) ==
    CASE op = "markRead" /\ of = i /\ s = "unread"              -> "read"
      [] op = "archive" /\ of = i /\ s # "none"                 -> "archived"
      [] op = "markAllRead" /\ s = "unread"                     -> "read"
      [] op = "archiveAll" /\ s \in {"unread", "read"}          -> "archived"
      [] op = "archiveAllRead" /\ s = "read"                    -> "archived"
      [] OTHER                                                  -> s
Applied(op, of, items) == [i \in Notice |-> Becomes(op, of, items[i], i)]
Anyone == CHOOSE i \in Notice : TRUE

\* Archiving one item waits for the server, the others show at once.
AtOnce(op) == op # "archive"

Uses(t, op, i) ==
    /\ used < MaxUses
    /\ CASE op = "markRead" -> store[t][i] = "unread"
         [] op = "archive"  -> store[t][i] \in {"unread", "read"}
         [] OTHER           -> i = Anyone
    /\ used' = used + 1
    /\ uses' = uses \union {[tab |-> t, n |-> used, op |-> op, of |-> i, at |-> "sent"]}
    /\ store' = IF AtOnce(op) THEN [store EXCEPT ![t] = Applied(op, i, @)] ELSE store
    /\ UNCHANGED <<row, unpublished, link, open, before, inFlight, fetches, excused, drops, failures>>

Performs(u) ==
    /\ u \in uses /\ u.at = "sent"
    /\ row' = Applied(u.op, u.of, row)
    /\ uses' = (uses \ {u}) \union {[u EXCEPT !.at = "performed"]}
    /\ UNCHANGED <<unpublished, store, link, open, before, inFlight, fetches, excused, drops, failures, used>>

Succeeds(u) ==
    /\ u \in uses /\ u.at = "performed"
    /\ uses' = uses \ {u}
    /\ store' = IF AtOnce(u.op) THEN store ELSE [store EXCEPT ![u.tab] = Applied(u.op, u.of, @)]
    /\ UNCHANGED <<row, unpublished, link, open, before, inFlight, fetches, excused, drops, failures, used>>

\* A request fails, before or after it was performed: the store asks for the truth.
Fails(u) ==
    /\ u \in uses /\ failures < MaxFailures
    /\ failures' = failures + 1
    /\ uses' = uses \ {u}
    /\ fetches' = IF AtOnce(u.op) THEN WithFetch(u.tab) ELSE fetches
    /\ UNCHANGED <<row, unpublished, store, link, open, before, inFlight, excused, drops, used>>

\* Items of completed issues are archived without a word to the store, which fetches.
ArchiveCompleted(t, of) ==
    /\ used < MaxUses /\ of # {}
    /\ used' = used + 1
    /\ row' = [i \in Notice |-> IF i \in of /\ i \in Present THEN "archived" ELSE row[i]]
    /\ fetches' = WithFetch(t)
    /\ UNCHANGED <<unpublished, store, link, open, before, inFlight, uses, excused, drops, failures>>

WebNext ==
    \/ \E i \in Notice : CreateNotice(i) \/ PublishInboxNew(i)
    \/ \E t \in Tab :
          \/ Upgrades(t) \/ Registers(t) \/ Opens(t) \/ Breaks(t) \/ Closes(t)
          \/ \E i \in Notice : AddItem(t, i)
          \/ \E f \in fetches[t] : ListInbox(t, f) \/ SetItems(t, f) \/ FetchFails(t, f)
          \/ \E op \in {"markRead", "archive", "markAllRead", "archiveAll", "archiveAllRead"},
                i \in Notice : Uses(t, op, i)
          \/ \E of \in SUBSET Notice : ArchiveCompleted(t, of)
    \/ \E u \in uses : Performs(u) \/ Succeeds(u) \/ Fails(u)

WebSpec == WebInit /\ [][WebNext]_webVars

-----------------------------------------------------------------------------
\* The tab is connected and nothing is on its way to it.
AtEase(t) ==
    /\ t \in open /\ link[t] = "registered" /\ inFlight[t] = {} /\ fetches[t] = {}
    /\ unpublished = {} /\ \A u \in uses : u.tab # t

\* use-realtime-sync.ts:175 "Reconnect -> refetch all data to recover missed events" and
\* page.tsx:250 "Rollback: refetch to get server truth": a tab at rest has every item of
\* the inbox, also those that were created while its socket was down, and shows none as
\* read or archived that the server has unread; but for the items that are excused.
TabsCatchUp ==
    \A t \in Tab : AtEase(t) =>
        \A i \in Present \ excused[t] :
            /\ store[t][i] # "none"
            /\ row[i] = "unread" => store[t][i] = "unread"
=============================================================================
