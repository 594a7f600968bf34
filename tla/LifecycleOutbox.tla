--------------------------- MODULE LifecycleOutbox ---------------------------
(***************************************************************************)
(* Delivery of the facts in lifecycle_outbox: the core worker of           *)
(* internal/service/lifecycle_outbox.go, the task-derived projector of     *)
(* internal/service/task_derived_projector.go, and the SQL statements of   *)
(* pkg/db/queries/lifecycle_outbox.sql that both go through.               *)
(*                                                                         *)
(* The core worker takes no transaction around an event: it claims it for  *)
(* a lease, writes the execution trace, the comment and the metric in      *)
(* statements of their own, and acknowledges it by the lease's token.      *)
(* Between any two statements its process may stop, its lease may end and  *)
(* another server's worker may claim the event.  The derived projector     *)
(* does everything for one event in one transaction.                       *)
(*                                                                         *)
(* There is no clock: a lease may end and a backoff may be over at any     *)
(* moment.  A claim is the only statement that writes lock_token, and it   *)
(* adds one to attempts, so the attempt number stands for the token.       *)
(***************************************************************************)
EXTENDS Naturals, FiniteSets

CONSTANTS
    Event,           \* rows that may be appended to lifecycle_outbox
    NoEvent,
    Run, NoRun,
    ItemOf,          \* Event -> work_item_id
    RunOf,           \* Event -> run_id; NoRun is NULL
    Histories,       \* the event types the events may have: functions Event -> event_type
    Spoken,          \* events whose Run or item left an output or an error text
    Worker,          \* core workers, one per server process
    Projector,       \* task-derived projectors, one per server process
    MaxAttempts,     \* attempts before an event is dead-lettered; 20 in the code
    MaxSlow,         \* bound: [Event -> Nat], claims after which workers keep their lease
    MaxCrashes       \* bound: processes that stop in the middle of an event

FactType == {"run.started", "run.checkpointed", "run.completed", "run.failed",
             "run.retry_scheduled", "run.cancelled", "work_item.rejected"}

ASSUME EventAssumption ==
    /\ NoRun \notin Run
    /\ RunOf \in [Event -> Run \union {NoRun}]
    /\ Histories \subseteq [Event -> FactType]
    /\ Spoken \subseteq Event
    /\ MaxAttempts \in Nat \ {0} /\ MaxSlow \in [Event -> Nat] /\ MaxCrashes \in Nat
    /\ IsFiniteSet(Event) /\ NoEvent \notin Event

VARIABLES
    type,            \* event_type
    state,           \* "absent", "open" (appended, not committed), "pending",
                     \* "processed" or "dead"
    stamp,           \* created_at: the start of the appending transaction
    rank,            \* the event's place in the order of the commits
    attempts,        \* attempts
    lock,            \* lock_token; 0 is NULL
    fresh,           \* locked_at is less than 30 s ago
    waiting,         \* available_at is in the future
    work,            \* what each core worker is doing
    trace,           \* execution_traces.status of each Run; "none" without a row
    comments,        \* comment rows with this lifecycle_event_id
    metrics,         \* agent_task_metrics rows with this run_id
    looking,         \* the event each derived projector has read and not yet settled
    receipt,         \* lifecycle_event_receipt of the consumer task-derived
    activities,      \* activity_log rows with this lifecycle_event_id
    inbox,           \* inbox_item rows of one recipient with this lifecycle_event_id
    tries,           \* lifecycle_event_delivery.attempts of task-derived
    paused,          \* its available_at is in the future
    dropped,         \* its dead_lettered_at is set
    crashes          \* counts towards MaxCrashes

outboxVars == <<type, state, stamp, rank, attempts, lock, fresh, waiting>>
rowVars == <<trace, comments, metrics>>
derivedVars == <<looking, receipt, activities, inbox, tries, paused, dropped>>
vars == <<outboxVars, work, rowVars, derivedVars, crashes>>

-----------------------------------------------------------------------------
(* What the projection of an event has to do. *)

Settled(e) == state[e] \in {"processed", "dead"}

Committed(e) == state[e] \in {"pending", "processed", "dead"}

CommentDue(e) ==
    /\ type[e] \in {"run.completed", "run.failed", "work_item.rejected"}
    /\ e \in Spoken

MetricDue(e) ==
    /\ type[e] \in {"run.completed", "run.failed", "run.retry_scheduled", "run.cancelled"}
    /\ RunOf[e] # NoRun

\* projectTrace: the status the event gives its Run's trace, "" if it gives none.
TraceEndOf(e) ==
    CASE type[e] = "run.completed" -> "completed"
      [] type[e] \in {"run.failed", "run.retry_scheduled"} -> "failed"
      [] type[e] = "run.cancelled" -> "aborted"
      [] OTHER -> ""

\* The steps of project, in its order, those that have nothing to do left out.
StepAfterComment(e) == IF MetricDue(e) THEN "metric" ELSE "ack"
StepAfterTrace(e) == IF CommentDue(e) THEN "comment" ELSE StepAfterComment(e)
FirstStep(e) == IF RunOf[e] # NoRun THEN "trace" ELSE StepAfterTrace(e)

ProjectingStep == {"trace", "end", "comment", "metric"}
Step == ProjectingStep \union {"ack", "release"}

Idle == [event |-> NoEvent, token |-> 0, step |-> "idle"]

Busy == [event : Event, token : Nat \ {0}, step : Step]

Goto(w, s) == work' = [work EXCEPT ![w] = [@ EXCEPT !.step = s]]

\* INSERT ... ON CONFLICT DO UPDATE: at most one row for the key.
Upserted(count) == IF count = 0 THEN 1 ELSE count

-----------------------------------------------------------------------------
Init ==
    /\ type \in Histories
    /\ state = [e \in Event |-> "absent"]
    /\ stamp = [e \in Event |-> 0]
    /\ rank = [e \in Event |-> 0]
    /\ attempts = [e \in Event |-> 0]
    /\ lock = [e \in Event |-> 0]
    /\ fresh = [e \in Event |-> FALSE]
    /\ waiting = [e \in Event |-> FALSE]
    /\ work = [w \in Worker |-> Idle]
    /\ trace = [r \in Run |-> "none"]
    /\ comments = [e \in Event |-> 0]
    /\ metrics = [r \in Run |-> 0]
    /\ looking = [p \in Projector |-> NoEvent]
    /\ receipt = [e \in Event |-> FALSE]
    /\ activities = [e \in Event |-> 0]
    /\ inbox = [e \in Event |-> 0]
    /\ tries = [e \in Event |-> 0]
    /\ paused = [e \in Event |-> FALSE]
    /\ dropped = [e \in Event |-> FALSE]
    /\ crashes = 0

(* The producers: created_at is now(), the start of the transaction, while *)
(* the row lock on the item makes the commits the order of the transitions. *)

Begin(e) ==
    /\ state[e] = "absent"
    /\ state' = [state EXCEPT ![e] = "open"]
    /\ stamp' = [stamp EXCEPT ![e] = 1 + Cardinality({f \in Event : state[f] # "absent"})]
    /\ UNCHANGED <<type, rank, attempts, lock, fresh, waiting, work, rowVars, derivedVars, crashes>>

Commit(e) ==
    /\ state[e] = "open"
    /\ state' = [state EXCEPT ![e] = "pending"]
    /\ rank' = [rank EXCEPT ![e] = 1 + Cardinality({f \in Event : Committed(f)})]
    /\ UNCHANGED <<type, stamp, attempts, lock, fresh, waiting, work, rowVars, derivedVars, crashes>>

-----------------------------------------------------------------------------
(* The core worker. *)

\* Mutant: the order within the item is not looked at.
ClaimableInAnyOrder(e) ==
    /\ state[e] = "pending"
    /\ ~waiting[e]
    /\ lock[e] = 0 \/ ~fresh[e]

\* The WHERE of ClaimLifecycleOutboxEvent.
Claimable(e) ==
    /\ state[e] = "pending"
    /\ ~waiting[e]
    /\ lock[e] = 0 \/ ~fresh[e]
    /\ \A f \in Event :
          ItemOf[f] = ItemOf[e] /\ stamp[f] < stamp[e] => state[f] # "pending"

\* Mutant: the token is drawn only when there is none.
ClaimKeepsToken(w, e) ==
    /\ work[w] = Idle
    /\ Claimable(e)
    /\ attempts' = [attempts EXCEPT ![e] = @ + 1]
    /\ lock' = [lock EXCEPT ![e] = IF @ = 0 THEN attempts[e] + 1 ELSE @]
    /\ fresh' = [fresh EXCEPT ![e] = TRUE]
    /\ work' = [work EXCEPT ![w] =
                  [event |-> e, token |-> lock'[e], step |-> FirstStep(e)]]
    /\ UNCHANGED <<type, state, stamp, rank, waiting, rowVars, derivedVars, crashes>>

\* SKIP LOCKED passes over a row that another claim is taking, so any claimable
\* event, not only the oldest, may be the one.
Claim(w, e) ==
    /\ work[w] = Idle
    /\ Claimable(e)
    /\ attempts' = [attempts EXCEPT ![e] = @ + 1]
    /\ lock' = [lock EXCEPT ![e] = attempts[e] + 1]
    /\ fresh' = [fresh EXCEPT ![e] = TRUE]
    /\ work' = [work EXCEPT ![w] =
                  [event |-> e, token |-> attempts[e] + 1, step |-> FirstStep(e)]]
    /\ UNCHANGED <<type, state, stamp, rank, waiting, rowVars, derivedVars, crashes>>

At(w, s) == work[w].step = s

\* StartTrace: the trace of the Run, created if it has none.  Its status as
\* read here decides whether it will be ended.
OpenTrace(w) ==
    LET e == work[w].event
        r == RunOf[e]
        seen == IF trace[r] = "none" THEN "running" ELSE trace[r]
    IN  /\ At(w, "trace")
        /\ trace' = [trace EXCEPT ![r] = seen]
        /\ Goto(w, IF TraceEndOf(e) \in {"", seen} THEN StepAfterTrace(e) ELSE "end")
        /\ UNCHANGED <<outboxVars, comments, metrics, derivedVars, crashes>>

\* EndTrace: fails when another worker has ended the trace since.
EndTrace(w) ==
    LET e == work[w].event
        r == RunOf[e]
    IN  /\ At(w, "end")
        /\ IF trace[r] = "running"
           THEN /\ trace' = [trace EXCEPT ![r] = TraceEndOf(e)]
                /\ Goto(w, StepAfterTrace(e))
           ELSE /\ Goto(w, "release")
                /\ UNCHANGED trace
        /\ UNCHANGED <<outboxVars, comments, metrics, derivedVars, crashes>>

\* createLifecycleComment
WriteComment(w) ==
    LET e == work[w].event
    IN  /\ At(w, "comment")
        /\ comments' = [comments EXCEPT ![e] = Upserted(@)]
        /\ Goto(w, StepAfterComment(e))
        /\ UNCHANGED <<outboxVars, trace, metrics, derivedVars, crashes>>

\* projectMetric
InsertMetric(r) == metrics' = [metrics EXCEPT ![r] = Upserted(@)]

WriteMetric(w) ==
    /\ At(w, "metric")
    /\ InsertMetric(RunOf[work[w].event])
    /\ Goto(w, "ack")
    /\ UNCHANGED <<outboxVars, trace, comments, derivedVars, crashes>>

\* Any statement of the projection may fail, the loading of the item and the
\* issue included; an unsupported version or type fails every time.
ProjectionFails(w) ==
    /\ \/ work[w].step \in ProjectingStep
       \/ work[w] # Idle /\ work[w].step = FirstStep(work[w].event)
    /\ Goto(w, "release")
    /\ UNCHANGED <<outboxVars, rowVars, derivedVars, crashes>>

\* The row is still under the worker's own lease.
Holds(w) ==
    LET e == work[w].event
    IN  e # NoEvent /\ lock[e] = work[w].token /\ state[e] # "processed"

\* Mutant: the acknowledgement is not fenced.
AckUnfenced(w) ==
    LET e == work[w].event
    IN  /\ At(w, "ack")
        /\ state' = [state EXCEPT ![e] = "processed"]
        /\ lock' = [lock EXCEPT ![e] = 0]
        /\ work' = [work EXCEPT ![w] = Idle]
        /\ UNCHANGED <<type, stamp, rank, attempts, fresh, waiting, rowVars, derivedVars, crashes>>

\* MarkLifecycleOutboxEventProcessed: no row is updated when the lease is lost.
Ack(w) ==
    LET e == work[w].event
    IN  /\ At(w, "ack")
        /\ IF Holds(w)
           THEN /\ state' = [state EXCEPT ![e] = "processed"]
                /\ lock' = [lock EXCEPT ![e] = 0]
           ELSE UNCHANGED <<state, lock>>
        /\ work' = [work EXCEPT ![w] = Idle]
        /\ UNCHANGED <<type, stamp, rank, attempts, fresh, waiting, rowVars, derivedVars, crashes>>

\* ReleaseLifecycleOutboxEvent: back off, or give up on the event.
Release(w) ==
    LET e == work[w].event
    IN  /\ work[w].step = "release"
        /\ IF Holds(w)
           THEN /\ lock' = [lock EXCEPT ![e] = 0]
                /\ waiting' = [waiting EXCEPT ![e] = TRUE]
                /\ state' = [state EXCEPT ![e] =
                               IF attempts[e] >= MaxAttempts THEN "dead" ELSE "pending"]
           ELSE UNCHANGED <<lock, waiting, state>>
        /\ work' = [work EXCEPT ![w] = Idle]
        /\ UNCHANGED <<type, stamp, rank, attempts, fresh, rowVars, derivedVars, crashes>>

\* The worker's process stops, or its release or acknowledgement is lost.
Crash(w) ==
    /\ work[w] # Idle
    /\ crashes < MaxCrashes
    /\ crashes' = crashes + 1
    /\ work' = [work EXCEPT ![w] = Idle]
    /\ UNCHANGED <<outboxVars, rowVars, derivedVars>>

\* 30 s are over: for a lease nobody holds any more, or for a slow holder.
LeaseEnds(e) ==
    /\ lock[e] # 0
    /\ fresh[e]
    /\ \/ \A w \in Worker : ~(work[w].event = e /\ work[w].token = lock[e])
       \/ attempts[e] < MaxSlow[e]
    /\ fresh' = [fresh EXCEPT ![e] = FALSE]
    /\ UNCHANGED <<type, state, stamp, rank, attempts, lock, waiting, work, rowVars, derivedVars, crashes>>

BackoffEnds(e) ==
    /\ waiting[e]
    /\ waiting' = [waiting EXCEPT ![e] = FALSE]
    /\ UNCHANGED <<type, state, stamp, rank, attempts, lock, fresh, work, rowVars, derivedVars, crashes>>

-----------------------------------------------------------------------------
(* The task-derived projector. *)

DerivedType == {"run.completed", "run.failed", "work_item.rejected"}

\* Mutant: an event that failed once is not offered again.
DerivableOnce(e) ==
    type[e] \in DerivedType /\ state[e] = "processed" /\ ~receipt[e] /\ tries[e] = 0

\* The WHERE of ClaimTaskDerivedLifecycleEvent.
Derivable(e) ==
    type[e] \in DerivedType /\ state[e] = "processed" /\ ~receipt[e] /\ ~paused[e] /\ ~dropped[e]

\* The claim reads a snapshot and then locks the row.  The lock of another
\* projector's transaction leaves the row as it is, so one whose snapshot is
\* older than that commit takes the event a second time.
DerivedClaim(p, e) ==
    /\ looking[p] = NoEvent
    /\ Derivable(e)
    /\ looking' = [looking EXCEPT ![p] = e]
    /\ UNCHANGED <<outboxVars, work, rowVars, receipt, activities, inbox, tries, paused, dropped, crashes>>

\* A failure always reaches the inbox; a completion only through its comment.
InboxDue(e) == type[e] # "run.completed" \/ comments[e] > 0
CreateInboxItem(e) == inbox' = [inbox EXCEPT ![e] = IF InboxDue(e) THEN Upserted(@) ELSE @]
CreateActivity(e) == activities' = [activities EXCEPT ![e] = Upserted(@)]

\* apply, the receipt and the commit.
DerivedApply(p) ==
    LET e == looking[p]
    IN  /\ e # NoEvent
        /\ CreateActivity(e)
        /\ CreateInboxItem(e)
        /\ receipt' = [receipt EXCEPT ![e] = TRUE]
        /\ looking' = [looking EXCEPT ![p] = NoEvent]
        /\ UNCHANGED <<outboxVars, work, rowVars, tries, paused, dropped, crashes>>

\* The transaction rolls back and RecordTaskDerivedLifecycleFailure is committed
\* on its own.
DerivedFails(p) ==
    LET e == looking[p]
    IN  /\ e # NoEvent
        /\ tries' = [tries EXCEPT ![e] = @ + 1]
        /\ paused' = [paused EXCEPT ![e] = TRUE]
        /\ dropped' = [dropped EXCEPT ![e] = tries[e] + 1 >= MaxAttempts]
        /\ looking' = [looking EXCEPT ![p] = NoEvent]
        /\ UNCHANGED <<outboxVars, work, rowVars, receipt, activities, inbox, crashes>>

DerivedCrash(p) ==
    /\ looking[p] # NoEvent
    /\ crashes < MaxCrashes
    /\ crashes' = crashes + 1
    /\ looking' = [looking EXCEPT ![p] = NoEvent]
    /\ UNCHANGED <<outboxVars, work, rowVars, receipt, activities, inbox, tries, paused, dropped>>

DerivedBackoffEnds(e) ==
    /\ paused[e]
    /\ paused' = [paused EXCEPT ![e] = FALSE]
    /\ UNCHANGED <<outboxVars, work, rowVars, looking, receipt, activities, inbox, tries, dropped, crashes>>

-----------------------------------------------------------------------------
Project(w) ==
    \/ OpenTrace(w)
    \/ EndTrace(w)
    \/ WriteComment(w)
    \/ WriteMetric(w)
    \/ ProjectionFails(w)
    \/ Ack(w)
    \/ Release(w)

Derive(p) ==
    \/ DerivedApply(p)
    \/ DerivedFails(p)

Next ==
    \/ \E e \in Event : Begin(e)
    \/ \E e \in Event : Commit(e)
    \/ \E w \in Worker, e \in Event : Claim(w, e)
    \/ \E w \in Worker : Project(w)
    \/ \E w \in Worker : Crash(w)
    \/ \E e \in Event : LeaseEnds(e)
    \/ \E e \in Event : BackoffEnds(e)
    \/ \E p \in Projector, e \in Event : DerivedClaim(p, e)
    \/ \E p \in Projector : Derive(p)
    \/ \E p \in Projector : DerivedCrash(p)
    \/ \E e \in Event : DerivedBackoffEnds(e)

Spec == Init /\ [][Next]_vars

\* Both consumers poll for ever and every call they make returns; time passes;
\* an open transaction ends.  Statements may fail as often as they like.
Fairness ==
    /\ \A e \in Event : WF_vars(Commit(e)) /\ WF_vars(LeaseEnds(e))
                        /\ WF_vars(BackoffEnds(e)) /\ WF_vars(DerivedBackoffEnds(e))
    /\ \A w \in Worker : WF_vars(\E e \in Event : Claim(w, e)) /\ WF_vars(Project(w))
    /\ \A p \in Projector : WF_vars(\E e \in Event : DerivedClaim(p, e)) /\ WF_vars(Derive(p))

FairSpec == Spec /\ Fairness

-----------------------------------------------------------------------------
(* What delivery promises. *)

EventState == {"absent", "open", "pending", "processed", "dead"}

TypeOK ==
    /\ type \in Histories
    /\ state \in [Event -> EventState]
    /\ stamp \in [Event -> Nat]
    /\ rank \in [Event -> Nat]
    /\ attempts \in [Event -> Nat]
    /\ lock \in [Event -> Nat]
    /\ fresh \in [Event -> BOOLEAN]
    /\ waiting \in [Event -> BOOLEAN]
    /\ work \in [Worker -> Busy \union {Idle}]
    /\ trace \in [Run -> {"none", "running", "completed", "failed", "aborted"}]
    /\ comments \in [Event -> Nat]
    /\ metrics \in [Run -> Nat]
    /\ looking \in [Projector -> Event \union {NoEvent}]
    /\ receipt \in [Event -> BOOLEAN]
    /\ activities \in [Event -> Nat]
    /\ inbox \in [Event -> Nat]
    /\ tries \in [Event -> Nat]
    /\ paused \in [Event -> BOOLEAN]
    /\ dropped \in [Event -> BOOLEAN]
    /\ crashes \in Nat

\* lifecycle_outbox.go:24 "Each database projection is idempotent": whatever
\* crashes, lost leases and replays happen, an event has at most one comment
\* and a Run at most one metric; once the event is acknowledged they are there,
\* and the Run's trace has ended as the event says.
ProjectedOnce ==
    /\ \A e \in Event : comments[e] <= (IF CommentDue(e) THEN 1 ELSE 0)
    /\ \A r \in Run : metrics[r] <= 1
    /\ \A e \in Event : state[e] = "processed" =>
          /\ CommentDue(e) => comments[e] = 1
          /\ MetricDue(e) => metrics[RunOf[e]] = 1
          /\ RunOf[e] # NoRun => trace[RunOf[e]] # "none"
          /\ RunOf[e] # NoRun /\ TraceEndOf(e) # "" => trace[RunOf[e]] = TraceEndOf(e)

\* A lease is the worker's own: of two workers on one event only the newer
\* one's token matches, and a settled event matches none, so that a worker that
\* lost its lease can neither acknowledge nor release.
OneHolder ==
    \A v, w \in Worker :
        Holds(v) => /\ state[work[v].event] = "pending"
                    /\ Holds(w) /\ work[w].event = work[v].event => v = w

\* A fact is not projected for ever: only a crash or a lost lease can make an
\* attempt more than MaxAttempts allows, one each.
AttemptsBounded ==
    \A e \in Event : attempts[e] <= MaxAttempts + MaxSlow[e] + crashes

\* Activity, inbox items and receipt are committed together and once, after
\* the core acknowledgement; a completion that has a comment has told the inbox
\* of it.
DerivedOnce ==
    \A e \in Event :
        /\ activities[e] = (IF receipt[e] THEN 1 ELSE 0)
        /\ receipt[e] => state[e] = "processed"
        /\ inbox[e] = (IF receipt[e] /\ InboxDue(e) THEN 1 ELSE 0)

\* Facts that created_at and the commits put in the same order.
InOrder(e, f) ==
    /\ ItemOf[e] = ItemOf[f] /\ Committed(e) /\ Committed(f)
    /\ rank[e] < rank[f] /\ stamp[e] < stamp[f]

\* lifecycle_outbox.sql:13: an item's facts are delivered in the order of the
\* transitions they record, one after the other, unless the transaction of the
\* later transition was opened first and waited for the other's row lock: then
\* created_at tells the wrong order.
DeliveredInOrder ==
    \A e, f \in Event : InOrder(e, f) => (state[f] = "processed" => Settled(e))

\* Dead-lettered; or acknowledged, and if it is the end of a Run, in activity and inbox or
\* given up there.
Arrived(e) ==
    \/ state[e] = "dead"
    \/ state[e] = "processed" /\ (type[e] \in DerivedType => receipt[e] \/ dropped[e])

\* Every committed fact arrives in the end, also behind an earlier fact of its item whose
\* projection fails every time.
FactsArrive == \A e \in Event : state[e] = "pending" ~> Arrived(e)

\* Crashes, lost leases and replays notwithstanding, one worker at a time holds a fact,
\* attempts at it are bounded, and each of its effects is there once.
EffectsOnce == OneHolder /\ AttemptsBounded /\ ProjectedOnce /\ DerivedOnce

-----------------------------------------------------------------------------
(* Seen by those who read its rows, delivery is the abstract FactDelivery. *)

StatusOf(e) ==
    CASE state[e] \in {"absent", "open"} -> "untold"
      [] state[e] = "pending" -> "told"
      [] state[e] = "processed" -> "delivered"
      [] OTHER -> "abandoned"

OwedBy(e) ==
    [comment |-> CommentDue(e), metric |-> MetricDue(e), ends |-> {TraceEndOf(e)} \ {""},
     activity |-> type[e] \in DerivedType,
     inbox |-> type[e] # "run.completed" \/ CommentDue(e)]

Delivery == INSTANCE FactDelivery WITH
    Fact <- Event,
    owed <- [e \in Event |-> OwedBy(e)],
    status <- [e \in Event |-> StatusOf(e)],
    before <- {p \in Event \X Event : InOrder(p[1], p[2])}

\* Every statement of a worker or a projector writes at most one of the rows a fact owes,
\* in the order FactDelivery allows, or changes nothing a reader sees, whatever crashes,
\* lost leases and repeated projections come between.
ImplementsDelivery == Delivery!Spec
=============================================================================
