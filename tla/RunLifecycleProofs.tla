------------------------- MODULE RunLifecycleProofs -------------------------
(***************************************************************************)
(* Theorems about RunLifecycle for any number of items, issues, agents and *)
(* runtimes and any retry budget.                                          *)
(*                                                                         *)
(* The argument has three layers.  Types are preserved by each action.     *)
(* Then every step, bulk statements included, is seen item by item: it     *)
(* leaves an item alone or moves it in one of ten ways (LifecycleMoves).   *)
(* Each invariant is then preserved because each of the ten moves          *)
(* preserves it for the item that moves: the active Runs (RunInv), the     *)
(* abstract item (WorkItem), what the outbox tells of an item (StoryInv)   *)
(* and the session it resumes from.                                        *)
(***************************************************************************)
EXTENDS RunLifecycle, SequenceTheorems, TLAPS

\* Appending keeps a sequence's type and its old elements.
LEMMA AppendFacts ==
    ASSUME NEW S, NEW s \in Seq(S), NEW e \in S
    PROVE  /\ Append(s, e) \in Seq(S)
           /\ Len(Append(s, e)) = Len(s) + 1
           /\ Append(s, e)[Len(s) + 1] = e
           /\ \A i \in 1..Len(s) : Append(s, e)[i] = s[i]
OBVIOUS

\* A new fact is a fact.
LEMMA FactIsFact ==
    ASSUME NEW n \in Nat, NEW type \in FactType
    PROVE  [type |-> type, run |-> n] \in Fact
BY DEF Fact

\* appendEvent keeps the outbox well typed.
LEMMA TellType ==
    ASSUME TypeOK, NEW t \in Task, NEW n \in Nat, NEW type \in FactType,
           Tell(t, n, type)
    PROVE  facts' \in [Task -> Seq(Fact)]
<1>1. Append(facts[t], [type |-> type, run |-> n]) \in Seq(Fact)
  BY FactIsFact, AppendFacts DEF TypeOK
<1> QED BY <1>1 DEF TypeOK, Tell

\* So do the emitted_events of a bulk statement.
LEMMA TellAllType ==
    ASSUME TypeOK, NEW S \in SUBSET Task, NEW type \in FactType, TellAll(S, type)
    PROVE  facts' \in [Task -> Seq(Fact)]
<1>1. \A t \in Task : Append(facts[t], [type |-> type, run |-> active[t]]) \in Seq(Fact)
  <2> TAKE t \in Task
  <2> QED BY FactIsFact, AppendFacts DEF TypeOK
<1> QED BY <1>1 DEF TypeOK, TellAll

\* Closing a Run keeps the item's list of Runs well typed.
LEMMA ClosedType ==
    ASSUME TypeOK, NEW t \in Task, NEW n, NEW outcome \in RunStatus
    PROVE  Closed(t, n, outcome) \in Seq(RunStatus)
<1>1. CASE n \in 1..Len(runs[t])
  BY <1>1, ExceptSeq DEF TypeOK, Closed
<1>2. CASE n \notin 1..Len(runs[t])
  BY <1>2 DEF TypeOK, Closed
<1> QED BY <1>1, <1>2

LEMMA LeaveRunType ==
    ASSUME TypeOK, NEW t \in Task, NEW n \in 1..Len(runs[t]),
           NEW outcome \in RunStatus, NEW next \in TaskStatus, NEW type \in FactType,
           LeaveRun(t, n, outcome, next, type)
    PROVE  /\ status' \in [Task -> TaskStatus]
           /\ active' \in [Task -> Nat]
           /\ runs' \in [Task -> Seq(RunStatus)]
           /\ facts' \in [Task -> Seq(Fact)]
<1>1. [runs[t] EXCEPT ![n] = outcome] \in Seq(RunStatus)
  BY ExceptSeq DEF TypeOK
<1>2. runs' \in [Task -> Seq(RunStatus)]
  BY <1>1 DEF TypeOK, LeaveRun
<1>3. n \in Nat
  BY DEF TypeOK
<1>4. facts' \in [Task -> Seq(Fact)]
  BY <1>3, TellType DEF LeaveRun
<1> QED BY <1>2, <1>4 DEF TypeOK, LeaveRun, NoRun

LEMMA FinishAllType ==
    ASSUME TypeOK, NEW S \in SUBSET Task,
           NEW outcome \in RunStatus, NEW type \in FactType,
           FinishAll(S, outcome, type)
    PROVE  /\ status' \in [Task -> TaskStatus]
           /\ active' \in [Task -> Nat]
           /\ runs' \in [Task -> Seq(RunStatus)]
           /\ facts' \in [Task -> Seq(Fact)]
<1>1. runs' \in [Task -> Seq(RunStatus)]
  BY ClosedType DEF TypeOK, FinishAll
<1>2. facts' \in [Task -> Seq(Fact)]
  BY TellAllType DEF FinishAll
<1>3. outcome \in TaskStatus
  BY DEF TaskStatus
<1> QED BY <1>1, <1>2, <1>3 DEF TypeOK, FinishAll, SetAll, NoRun

LEMMA RecoverType ==
    ASSUME TypeOK, NEW r \in Runtime, Recover(r)
    PROVE  TypeOK'
<1>1. Orphans(r) \subseteq Task /\ Requeued(r) \subseteq Task
  BY DEF Orphans, Requeued
<1>2. status' \in [Task -> TaskStatus]
  BY DEF TypeOK, Recover, RecoveredStatus, TaskStatus, RunStatus
<1>3. runs' \in [Task -> Seq(RunStatus)]
  <2>1. \A t \in Task : Closed(t, InterruptedRun(t), "failed") \in Seq(RunStatus)
    BY ClosedType DEF RunStatus
  <2> QED BY <2>1 DEF TypeOK, Recover
<1>4. active' \in [Task -> Nat] /\ wentOffline' \in [Task -> BOOLEAN]
  BY DEF TypeOK, Recover, SetAll, NoRun
<1>5. retries' \in [Task -> 0..MaxRetries]
  BY RetriesAssumption DEF TypeOK, Recover, Requeued
<1>6. facts' \in [Task -> Seq(Fact)]
  <2>1. \A t \in Task : InterruptedRun(t) \in Nat
    BY LenProperties DEF TypeOK, InterruptedRun
  <2>2. \A t \in Task :
          /\ Append(facts[t], [type |-> "run.retry_scheduled", run |-> InterruptedRun(t)])
                \in Seq(Fact)
          /\ Append(facts[t], [type |-> "run.failed", run |-> InterruptedRun(t)])
                \in Seq(Fact)
    <3> TAKE t \in Task
    <3>1. "run.retry_scheduled" \in FactType /\ "run.failed" \in FactType
      BY DEF FactType, ClosingFact
    <3> QED BY <2>1, <3>1, FactIsFact, AppendFacts DEF TypeOK
  <2> QED BY <2>2 DEF TypeOK, Recover, RecoveryFacts
<1> QED BY <1>2, <1>3, <1>4, <1>5, <1>6 DEF TypeOK, Recover

\* Every step keeps the types.
LEMMA TypeStep ==
    ASSUME TypeOK, [Next]_vars
    PROVE  TypeOK'
<1> USE DEF TypeOK
<1>1. ASSUME NEW t \in Task, Enqueue(t) PROVE TypeOK'
  BY <1>1 DEF Enqueue, TaskStatus
<1>2. ASSUME NEW t \in Task, Claim(t) PROVE TypeOK'
  <2>1. Append(runs[t], "dispatched") \in Seq(RunStatus)
    BY AppendFacts DEF RunStatus
  <2>2. Len(runs[t]) + 1 \in Nat
    BY LenProperties
  <2> QED BY <1>2, <2>1, <2>2 DEF Claim, TaskStatus, RunStatus
<1>3. ASSUME NEW t \in Task, Reject(t) PROVE TypeOK'
  <2>1. facts' \in [Task -> Seq(Fact)]
    <3>1. NoRun \in Nat /\ "work_item.rejected" \in FactType
      BY DEF NoRun, FactType
    <3> QED BY <1>3, <3>1, TellType DEF Reject
  <2> QED BY <1>3, <2>1 DEF Reject, TaskStatus, RunStatus
<1>4. ASSUME NEW t \in Task, NEW n \in 1..Len(runs[t]), Start(t, n) PROVE TypeOK'
  <2>1. facts' \in [Task -> Seq(Fact)]
    <3>1. n \in Nat /\ "run.started" \in FactType
      BY DEF FactType
    <3> QED BY <1>4, <3>1, TellType DEF Start
  <2>2. [runs[t] EXCEPT ![n] = "running"] \in Seq(RunStatus)
    <3>1. "running" \in RunStatus
      BY DEF RunStatus
    <3> QED BY <3>1, ExceptSeq
  <2> QED BY <1>4, <2>1, <2>2 DEF Start, TaskStatus, RunStatus
<1>5. ASSUME NEW t \in Task, NEW n \in 1..Len(runs[t]), Checkpoint(t, n) PROVE TypeOK'
  <2>1. n \in Nat /\ "run.checkpointed" \in FactType
    BY DEF FactType
  <2>2. facts' \in [Task -> Seq(Fact)]
    BY <1>5, <2>1, TellType DEF Checkpoint
  <2> QED BY <1>5, <2>1, <2>2 DEF Checkpoint
<1>6. ASSUME NEW t \in Task, NEW n \in 1..Len(runs[t]), Complete(t, n) PROVE TypeOK'
  <2>1. LeaveRun(t, n, "completed", "completed", "run.completed")
    BY <1>6 DEF Complete
  <2>2. "completed" \in RunStatus /\ "completed" \in TaskStatus /\ "run.completed" \in FactType
    BY DEF RunStatus, TaskStatus, FactType, ClosingFact
  <2>3. n \in Nat /\ NoRun \in Nat
    BY DEF NoRun
  <2>4. session' \in [Task -> Nat]
    BY <1>6, <2>3 DEF Complete
  <2> QED BY <1>6, <2>1, <2>2, <2>4, LeaveRunType DEF Complete
<1>7. ASSUME NEW t \in Task, NEW n \in 1..Len(runs[t]), Fail(t, n) PROVE TypeOK'
  <2>1. LeaveRun(t, n, "failed", "failed", "run.failed")
    BY <1>7 DEF Fail
  <2>2. "failed" \in RunStatus /\ "failed" \in TaskStatus /\ "run.failed" \in FactType
    BY DEF RunStatus, TaskStatus, FactType, ClosingFact
  <2> QED BY <1>7, <2>1, <2>2, LeaveRunType DEF Fail
<1>8. ASSUME NEW t \in Task, NEW n \in 1..Len(runs[t]), RetryActive(t, n) PROVE TypeOK'
  <2>1. LeaveRun(t, n, "failed", "queued", "run.retry_scheduled")
    BY <1>8 DEF RetryActive
  <2>2. "failed" \in RunStatus /\ "queued" \in TaskStatus /\ "run.retry_scheduled" \in FactType
    BY DEF RunStatus, TaskStatus, FactType, ClosingFact
  <2>3. retries' \in [Task -> 0..MaxRetries]
    BY <1>8, RetriesAssumption DEF RetryActive
  <2> QED BY <1>8, <2>1, <2>2, <2>3, LeaveRunType DEF RetryActive
<1>9. ASSUME NEW S \in SUBSET Task, CancelAll(S) PROVE TypeOK'
  <2>1. "cancelled" \in RunStatus /\ "run.cancelled" \in FactType
    BY DEF RunStatus, FactType, ClosingFact
  <2> QED BY <1>9, <2>1, FinishAllType DEF CancelAll
<1>10. ASSUME NEW S \in SUBSET Task, FinishAll(S, "failed", "run.failed"),
              NEW b \in BOOLEAN, wentOffline' = SetAll(wentOffline, S, b),
              UNCHANGED <<retries, session>>
       PROVE  TypeOK'
  <2>1. "failed" \in RunStatus /\ "run.failed" \in FactType
    BY DEF RunStatus, FactType, ClosingFact
  <2> QED BY <1>10, <2>1, FinishAllType DEF SetAll
<1>11. ASSUME NEW t \in Task, Cancel(t) PROVE TypeOK'
  BY <1>9, <1>11 DEF Cancel, Open
<1>12. ASSUME NEW i \in Issue, CancelForIssue(i) PROVE TypeOK'
  BY <1>9, <1>12 DEF CancelForIssue, Open
<1>13. ASSUME NEW a \in Agent, CancelForAgent(a) PROVE TypeOK'
  BY <1>9, <1>13 DEF CancelForAgent, Open
<1>14. ASSUME NEW S \in SUBSET Task, FailStale(S) PROVE TypeOK'
  BY <1>10, <1>14 DEF FailStale
<1>15. ASSUME NEW R \in SUBSET Runtime, FailOffline(R) PROVE TypeOK'
  BY <1>10, <1>15 DEF FailOffline
<1>16. CASE UNCHANGED vars
  BY <1>16 DEF vars
<1> QED
  BY <1>1, <1>2, <1>3, <1>4, <1>5, <1>6, <1>7, <1>8, <1>11, <1>12, <1>13,
     <1>14, <1>15, <1>16, RecoverType DEF Next, Callback

\* The types hold of every behaviour.
THEOREM TypeSafety == Spec => []TypeOK
<1>1. Init => TypeOK
  BY RetriesAssumption, EmptySeq DEF Init, TypeOK, TaskStatus, NoRun
<1>2. TypeOK /\ [Next]_vars => TypeOK'
  BY TypeStep
<1> QED BY <1>1, <1>2, PTL DEF Spec

-----------------------------------------------------------------------------
(* What a step can do to one item.  The operators below only name the cases *)
(* of the proofs; LifecycleMoves shows that there are no others.            *)

Told(t, type, n) == facts'[t] = Append(facts[t], [type |-> type, run |-> n])

Unmoved(t) ==
    /\ status'[t] = status[t] /\ active'[t] = active[t]
    /\ retries'[t] = retries[t] /\ wentOffline'[t] = wentOffline[t]
    /\ session'[t] = session[t] /\ runs'[t] = runs[t] /\ facts'[t] = facts[t]

Arrives(t) ==
    /\ status[t] = "absent" /\ status'[t] = "queued"
    /\ active'[t] = active[t] /\ retries'[t] = retries[t]
    /\ wentOffline'[t] = wentOffline[t] /\ session'[t] = session[t]
    /\ runs'[t] = runs[t] /\ facts'[t] = facts[t]

Refused(t) ==
    /\ status[t] = "queued" /\ status'[t] = "failed" /\ wentOffline'[t] = FALSE
    /\ active'[t] = active[t] /\ retries'[t] = retries[t]
    /\ session'[t] = session[t] /\ runs'[t] = runs[t]
    /\ Told(t, "work_item.rejected", NoRun)

Starts(t) ==
    /\ status[t] = "dispatched" /\ status'[t] = "running"
    /\ runs'[t] = [runs[t] EXCEPT ![active[t]] = "running"]
    /\ active'[t] = active[t] /\ retries'[t] = retries[t]
    /\ wentOffline'[t] = wentOffline[t] /\ session'[t] = session[t]
    /\ Told(t, "run.started", active[t])

Saves(t) ==
    /\ status[t] = "running" /\ session'[t] = active[t]
    /\ status'[t] = status[t] /\ active'[t] = active[t]
    /\ retries'[t] = retries[t] /\ wentOffline'[t] = wentOffline[t]
    /\ runs'[t] = runs[t]
    /\ Told(t, "run.checkpointed", active[t])

Leaves(t, outcome, next, type) ==
    /\ status[t] \in ActiveStatus /\ status'[t] = next /\ active'[t] = NoRun
    /\ runs'[t] = [runs[t] EXCEPT ![active[t]] = outcome]
    /\ wentOffline'[t] \in BOOLEAN
    /\ wentOffline'[t] => next = "failed" \/ wentOffline[t]
    /\ Told(t, type, active[t])

Ends(t) ==
    /\ retries'[t] = retries[t]
    /\ \/ Leaves(t, "completed", "completed", "run.completed")
       \/ session'[t] = session[t] /\ Leaves(t, "failed", "failed", "run.failed")
       \/ session'[t] = session[t] /\ Leaves(t, "cancelled", "cancelled", "run.cancelled")

Requeues(t) ==
    /\ retries[t] < MaxRetries /\ retries'[t] = retries[t] + 1
    /\ wentOffline'[t] = FALSE /\ session'[t] = session[t]
    /\ Leaves(t, "failed", "queued", "run.retry_scheduled")

Withdrawn(t) ==
    /\ status[t] = "queued" /\ status'[t] = "cancelled" /\ active'[t] = active[t]
    /\ retries'[t] = retries[t] /\ wentOffline'[t] = wentOffline[t]
    /\ session'[t] = session[t] /\ runs'[t] = runs[t]
    /\ Told(t, "run.cancelled", NoRun)

Revived(t) ==
    /\ status[t] = "failed" /\ wentOffline[t] /\ wentOffline'[t] = FALSE
    /\ active'[t] = active[t] /\ session'[t] = session[t] /\ runs'[t] = runs[t]
    /\ \/ /\ retries[t] < MaxRetries /\ retries'[t] = retries[t] + 1
          /\ status'[t] = "queued"
          /\ Told(t, "run.retry_scheduled", Len(runs[t]))
       \/ /\ ~(retries[t] < MaxRetries) /\ retries'[t] = retries[t]
          /\ status'[t] = "failed" /\ facts'[t] = facts[t]

Moves(t) ==
    \/ Unmoved(t) \/ Arrives(t) \/ Claim(t) \/ Refused(t) \/ Starts(t) \/ Saves(t)
    \/ Ends(t) \/ Requeues(t) \/ Withdrawn(t) \/ Revived(t)

\* A bulk statement that ends S moves each item of S, and no other.
LEMMA FinishAllMoves ==
    ASSUME TypeOK, ActiveRunConsistent, NEW S \in SUBSET Task, NEW t \in Task,
           NEW outcome \in RunStatus, NEW type, FinishAll(S, outcome, type)
    PROVE  /\ t \in S /\ status[t] \in ActiveStatus =>
                  /\ status'[t] = outcome /\ active'[t] = NoRun
                  /\ runs'[t] = [runs[t] EXCEPT ![active[t]] = outcome]
                  /\ Told(t, type, active[t])
           /\ t \in S /\ status[t] \notin ActiveStatus =>
                  /\ status'[t] = outcome /\ active'[t] = active[t]
                  /\ runs'[t] = runs[t]
                  /\ Told(t, type, NoRun)
           /\ t \notin S =>
                  /\ status'[t] = status[t] /\ active'[t] = active[t]
                  /\ runs'[t] = runs[t] /\ facts'[t] = facts[t]
<1> USE DEF FinishAll, SetAll, TellAll, Told, NoRun
<1>1. CASE t \in S /\ status[t] \in ActiveStatus
  <2>1. active[t] \in 1..Len(runs[t]) /\ runs[t][active[t]] \in ActiveStatus
    BY <1>1, LenProperties DEF TypeOK, ActiveRunConsistent
  <2>2. Closed(t, active[t], outcome) = [runs[t] EXCEPT ![active[t]] = outcome]
    BY <2>1 DEF Closed
  <2> QED BY <1>1, <2>2 DEF TypeOK, ActiveStatus
<1>2. CASE t \in S /\ status[t] \notin ActiveStatus
  <2>1. active[t] = NoRun
    BY <1>2 DEF ActiveRunConsistent
  <2>2. Closed(t, active[t], outcome) = runs[t]
    BY <2>1 DEF Closed
  <2> QED BY <1>2, <2>1, <2>2 DEF TypeOK, ActiveStatus
<1>3. CASE t \notin S
  BY <1>3 DEF TypeOK
<1> QED BY <1>1, <1>2, <1>3

\* So does a recovery.
LEMMA RecoverMoves ==
    ASSUME TypeOK, ActiveRunConsistent, NEW r \in Runtime, NEW t \in Task, Recover(r)
    PROVE  Moves(t)
<1> USE DEF Recover, SetAll, Told, NoRun, TypeOK
<1>1. CASE t \in Orphans(r) /\ status[t] \in ActiveStatus
  <2>1. active[t] # NoRun /\ active[t] \in 1..Len(runs[t]) /\ runs[t][active[t]] \in ActiveStatus
    BY <1>1, LenProperties DEF ActiveRunConsistent
  <2>2. InterruptedRun(t) = active[t]
    BY <2>1 DEF InterruptedRun
  <2>3. Closed(t, InterruptedRun(t), "failed") = [runs[t] EXCEPT ![active[t]] = "failed"]
    BY <2>1, <2>2 DEF Closed
  <2>4. runs'[t] = [runs[t] EXCEPT ![active[t]] = "failed"]
    BY <1>1, <2>3
  <2>5. CASE retries[t] < MaxRetries
    <3>1. Leaves(t, "failed", "queued", "run.retry_scheduled")
      BY <1>1, <2>2, <2>4, <2>5 DEF Leaves, Requeued, RecoveredStatus, RecoveryFacts
    <3> QED BY <1>1, <2>5, <3>1 DEF Moves, Requeues, Requeued
  <2>6. CASE ~(retries[t] < MaxRetries)
    <3>1. Leaves(t, "failed", "failed", "run.failed")
      BY <1>1, <2>2, <2>4, <2>6 DEF Leaves, Requeued, RecoveredStatus, RecoveryFacts
    <3> QED BY <1>1, <2>6, <3>1 DEF Moves, Ends, Requeued
  <2> QED BY <2>5, <2>6
<1>2. CASE t \in Orphans(r) /\ status[t] \notin ActiveStatus
  <2>1. status[t] = "failed" /\ wentOffline[t] /\ active[t] = NoRun
    BY <1>2 DEF Orphans, ActiveRunConsistent
  <2>2. InterruptedRun(t) = Len(runs[t])
    BY <2>1 DEF InterruptedRun
  <2>3. Closed(t, InterruptedRun(t), "failed") = runs[t]
    <3>1. Len(runs[t]) \in Nat
      BY LenProperties
    <3>2. \A n \in 1..Len(runs[t]) : runs[t][n] \notin ActiveStatus
      BY <2>1 DEF ActiveRunConsistent
    <3> QED BY <2>2, <3>1, <3>2 DEF Closed
  <2> QED BY <1>2, <2>1, <2>2, <2>3
          DEF Moves, Revived, Requeued, RecoveredStatus, RecoveryFacts, ActiveStatus
<1>3. CASE t \notin Orphans(r)
  BY <1>3 DEF Moves, Unmoved, Requeued, RecoveredStatus, RecoveryFacts
<1> QED BY <1>1, <1>2, <1>3

\* Every step leaves each item alone or moves it in one of the ten ways.
LEMMA LifecycleMoves ==
    ASSUME TypeOK, ActiveRunConsistent, [Next]_vars, NEW t \in Task
    PROVE  Moves(t)
<1> USE DEF TypeOK
<1>1. ASSUME NEW u \in Task, Enqueue(u) PROVE Moves(t)
  BY <1>1 DEF Enqueue, Moves, Arrives, Unmoved
<1>2. ASSUME NEW u \in Task, Claim(u) PROVE Moves(t)
  <2>1. CASE u = t
    BY <1>2, <2>1 DEF Moves
  <2>2. CASE u # t
    BY <1>2, <2>2 DEF Claim, Moves, Unmoved
  <2> QED BY <2>1, <2>2
<1>3. ASSUME NEW u \in Task, Reject(u) PROVE Moves(t)
  BY <1>3 DEF Reject, Tell, Told, Moves, Refused, Unmoved
<1>4. ASSUME NEW u \in Task, NEW n \in 1..Len(runs[u]), Start(u, n) PROVE Moves(t)
  BY <1>4 DEF Start, Owns, Tell, Told, Moves, Starts, Unmoved
<1>5. ASSUME NEW u \in Task, NEW n \in 1..Len(runs[u]), Checkpoint(u, n) PROVE Moves(t)
  BY <1>5 DEF Checkpoint, Owns, Tell, Told, Moves, Saves, Unmoved
<1>6. ASSUME NEW u \in Task, NEW n \in 1..Len(runs[u]), Complete(u, n) PROVE Moves(t)
  <2>1. CASE u = t
    <3>1. Leaves(t, "completed", "completed", "run.completed")
      BY <1>6, <2>1 DEF Complete, Owns, LeaveRun, Tell, Told, Leaves, ActiveStatus
    <3> QED BY <1>6, <3>1 DEF Complete, Moves, Ends
  <2>2. CASE u # t
    BY <1>6, <2>2 DEF Complete, LeaveRun, Tell, Moves, Unmoved
  <2> QED BY <2>1, <2>2
<1>7. ASSUME NEW u \in Task, NEW n \in 1..Len(runs[u]), Fail(u, n) PROVE Moves(t)
  <2>1. CASE u = t
    <3>1. Leaves(t, "failed", "failed", "run.failed")
      BY <1>7, <2>1 DEF Fail, Owns, LeaveRun, Tell, Told, Leaves, ActiveStatus
    <3> QED BY <1>7, <3>1 DEF Fail, Moves, Ends
  <2>2. CASE u # t
    BY <1>7, <2>2 DEF Fail, LeaveRun, Tell, Moves, Unmoved
  <2> QED BY <2>1, <2>2
<1>8. ASSUME NEW u \in Task, NEW n \in 1..Len(runs[u]), RetryActive(u, n) PROVE Moves(t)
  <2>1. CASE u = t
    <3>1. Leaves(t, "failed", "queued", "run.retry_scheduled")
      BY <1>8, <2>1 DEF RetryActive, Owns, LeaveRun, Tell, Told, Leaves, ActiveStatus
    <3> QED BY <1>8, <2>1, <3>1 DEF RetryActive, Moves, Requeues
  <2>2. CASE u # t
    BY <1>8, <2>2 DEF RetryActive, LeaveRun, Tell, Moves, Unmoved
  <2> QED BY <2>1, <2>2
<1>9. ASSUME NEW S \in SUBSET Task, \A u \in S : status[u] \in OpenStatus, CancelAll(S)
      PROVE  Moves(t)
  <2>1. "cancelled" \in RunStatus /\ FinishAll(S, "cancelled", "run.cancelled")
    BY <1>9 DEF RunStatus, CancelAll
  <2>2. CASE t \in S /\ status[t] \in ActiveStatus
    <3>1. /\ status'[t] = "cancelled" /\ active'[t] = NoRun
          /\ runs'[t] = [runs[t] EXCEPT ![active[t]] = "cancelled"]
          /\ Told(t, "run.cancelled", active[t])
      BY <2>1, <2>2, FinishAllMoves
    <3>2. Leaves(t, "cancelled", "cancelled", "run.cancelled")
      BY <1>9, <2>2, <3>1 DEF CancelAll, Leaves
    <3> QED BY <1>9, <3>2 DEF CancelAll, Moves, Ends
  <2>3. CASE t \in S /\ status[t] \notin ActiveStatus
    <3>1. /\ status'[t] = "cancelled" /\ active'[t] = active[t]
          /\ runs'[t] = runs[t] /\ Told(t, "run.cancelled", NoRun)
      BY <2>1, <2>3, FinishAllMoves
    <3>2. status[t] = "queued"
      BY <1>9, <2>3 DEF OpenStatus, ActiveStatus
    <3> QED BY <1>9, <3>1, <3>2 DEF CancelAll, Moves, Withdrawn
  <2>4. CASE t \notin S
    BY <1>9, <2>1, <2>4, FinishAllMoves DEF CancelAll, Moves, Unmoved
  <2> QED BY <2>2, <2>3, <2>4
<1>10. ASSUME NEW S \in SUBSET Task, \A u \in S : status[u] \in ActiveStatus,
              FinishAll(S, "failed", "run.failed"),
              NEW b \in BOOLEAN, wentOffline' = SetAll(wentOffline, S, b),
              UNCHANGED <<retries, session>>
       PROVE  Moves(t)
  <2>1. "failed" \in RunStatus
    BY DEF RunStatus
  <2>2. CASE t \in S
    <3>1. /\ status'[t] = "failed" /\ active'[t] = NoRun
          /\ runs'[t] = [runs[t] EXCEPT ![active[t]] = "failed"]
          /\ Told(t, "run.failed", active[t])
      BY <1>10, <2>1, <2>2, FinishAllMoves
    <3>2. Leaves(t, "failed", "failed", "run.failed")
      BY <1>10, <2>2, <3>1 DEF Leaves, SetAll
    <3> QED BY <1>10, <3>2 DEF Moves, Ends
  <2>3. CASE t \notin S
    BY <1>10, <2>1, <2>3, FinishAllMoves DEF Moves, Unmoved, SetAll
  <2> QED BY <2>2, <2>3
<1>11. ASSUME NEW u \in Task, Cancel(u) PROVE Moves(t)
  BY <1>9, <1>11 DEF Cancel, Open
<1>12. ASSUME NEW i \in Issue, CancelForIssue(i) PROVE Moves(t)
  BY <1>9, <1>12 DEF CancelForIssue, Open
<1>13. ASSUME NEW a \in Agent, CancelForAgent(a) PROVE Moves(t)
  BY <1>9, <1>13 DEF CancelForAgent, Open
<1>14. ASSUME NEW S \in SUBSET Task, FailStale(S) PROVE Moves(t)
  BY <1>10, <1>14 DEF FailStale
<1>15. ASSUME NEW R \in SUBSET Runtime, FailOffline(R) PROVE Moves(t)
  BY <1>10, <1>15 DEF FailOffline
<1>16. CASE UNCHANGED vars
  BY <1>16 DEF vars, Moves, Unmoved
<1> QED
  BY <1>1, <1>2, <1>3, <1>4, <1>5, <1>6, <1>7, <1>8, <1>11, <1>12, <1>13,
     <1>14, <1>15, <1>16, RecoverMoves DEF Next, Callback

\* What an item that leaves its Run leaves behind.
LEMMA RunsAfterLeaving ==
    ASSUME TypeOK, ActiveRunConsistent, NEW t \in Task, status[t] \in ActiveStatus,
           NEW outcome \in RunStatus, runs'[t] = [runs[t] EXCEPT ![active[t]] = outcome]
    PROVE  /\ Len(runs[t]) \in Nat /\ Len(runs[t]) > 0
           /\ active[t] = Len(runs[t])
           /\ Len(runs'[t]) = Len(runs[t])
           /\ runs'[t][Len(runs[t])] = outcome
           /\ \A n \in 1..Len(runs[t]) :
                 n # Len(runs[t]) => /\ runs'[t][n] = runs[t][n]
                                     /\ runs[t][n] \notin ActiveStatus
<1>1. runs[t] \in Seq(RunStatus) /\ Len(runs[t]) \in Nat
  BY LenProperties DEF TypeOK
<1>2. active[t] # NoRun /\ active[t] \in Nat /\ active[t] = Len(runs[t])
  BY DEF TypeOK, ActiveRunConsistent
<1>3. active[t] \in 1..Len(runs[t])
  BY <1>1, <1>2 DEF NoRun
<1>4. \A n \in 1..Len(runs[t]) : n # Len(runs[t]) => runs[t][n] \notin ActiveStatus
  BY <1>2 DEF ActiveRunConsistent
<1> QED BY <1>1, <1>2, <1>3, <1>4, ExceptSeq

\* What an item that is claimed has gained.
LEMMA RunsAfterClaim ==
    ASSUME TypeOK, NEW t \in Task, Claim(t)
    PROVE  /\ Len(runs[t]) \in Nat
           /\ runs'[t] = Append(runs[t], "dispatched")
           /\ Len(runs'[t]) = Len(runs[t]) + 1
           /\ runs'[t][Len(runs[t]) + 1] = "dispatched"
           /\ \A n \in 1..Len(runs[t]) : runs'[t][n] = runs[t][n]
           /\ status[t] = "queued" /\ status'[t] = "dispatched"
           /\ active'[t] = Len(runs[t]) + 1
           /\ retries'[t] = retries[t] /\ wentOffline'[t] = wentOffline[t]
           /\ session'[t] = session[t] /\ facts'[t] = facts[t]
<1>1. runs[t] \in Seq(RunStatus) /\ "dispatched" \in RunStatus
  BY DEF TypeOK, RunStatus
<1> QED BY <1>1, LenProperties, AppendFacts DEF TypeOK, Claim

-----------------------------------------------------------------------------
(* The inductive invariant.  ActiveRunConsistent needs nothing but types;   *)
(* RetryBudget needs it, to know that an item that leaves its Run leaves    *)
(* the newest one; SerialWithinIssue stands on the guard of Claim.          *)

RunInv ==
    /\ TypeOK
    /\ ActiveRunConsistent
    /\ SerialWithinIssue
    /\ RetryBudget

LEMMA ActiveRunConsistentStep ==
    ASSUME TypeOK, ActiveRunConsistent, [Next]_vars
    PROVE  ActiveRunConsistent'
<1> SUFFICES ASSUME NEW t \in Task
             PROVE  /\ active'[t] # NoRun <=> status'[t] \in ActiveStatus
                    /\ active'[t] # NoRun => /\ active'[t] = Len(runs'[t])
                                             /\ runs'[t][active'[t]] = status'[t]
                    /\ \A n \in 1..Len(runs'[t]) :
                          runs'[t][n] \in ActiveStatus => n = active'[t]
  BY DEF ActiveRunConsistent
<1> USE DEF NoRun
<1>1. /\ active[t] # NoRun <=> status[t] \in ActiveStatus
      /\ active[t] # NoRun => /\ active[t] = Len(runs[t])
                              /\ runs[t][active[t]] = status[t]
      /\ \A n \in 1..Len(runs[t]) : runs[t][n] \in ActiveStatus => n = active[t]
  BY DEF ActiveRunConsistent
<1>2. CASE Unmoved(t) \/ Arrives(t) \/ Refused(t) \/ Saves(t) \/ Withdrawn(t) \/ Revived(t)
  BY <1>1, <1>2
     DEF Unmoved, Arrives, Refused, Saves, Withdrawn, Revived, ActiveStatus
<1>3. CASE Claim(t)
  <2>1. active[t] = NoRun
    BY <1>1, <1>3, RunsAfterClaim DEF ActiveStatus
  <2>2. \A n \in 1..Len(runs[t]) : runs[t][n] \notin ActiveStatus
    BY <1>1, <2>1
  <2> QED BY <1>3, <2>2, RunsAfterClaim, SMTT(60) DEF ActiveStatus
<1>4. CASE Starts(t)
  <2>1. status[t] \in ActiveStatus /\ "running" \in RunStatus
    BY <1>4 DEF Starts, ActiveStatus, RunStatus
  <2> QED BY <1>4, <2>1, RunsAfterLeaving DEF Starts, ActiveStatus
<1>5. ASSUME NEW outcome \in {"completed", "failed", "cancelled"},
             NEW next \in {"completed", "failed", "cancelled", "queued"}, NEW type,
             Leaves(t, outcome, next, type)
      PROVE  /\ active'[t] = NoRun /\ status'[t] \notin ActiveStatus
             /\ \A n \in 1..Len(runs'[t]) : runs'[t][n] \notin ActiveStatus
  <2>1. outcome \in RunStatus /\ outcome \notin ActiveStatus /\ next \notin ActiveStatus
    BY DEF RunStatus, ActiveStatus
  <2> QED BY <1>5, <2>1, RunsAfterLeaving DEF Leaves
<1>6. CASE Ends(t) \/ Requeues(t)
  BY <1>5, <1>6 DEF Ends, Requeues
<1> QED BY <1>2, <1>3, <1>4, <1>6, LifecycleMoves DEF Moves

LEMMA RetryBudgetStep ==
    ASSUME TypeOK, TypeOK', ActiveRunConsistent, RetryBudget, [Next]_vars
    PROVE  RetryBudget'
<1> DEFINE Budget(st, len, paid, offline) ==
        /\ len <= paid + 1
        /\ paid <= len
        /\ st = "queued" => len = paid
        /\ st \in ActiveStatus \union {"completed"} => len = paid + 1
        /\ offline => st = "failed" /\ len = paid + 1
<1> SUFFICES ASSUME NEW t \in Task
             PROVE  /\ Budget(status'[t], Len(runs'[t]), retries'[t], wentOffline'[t])
                    /\ status'[t] = "absent" => runs'[t] = <<>> /\ facts'[t] = <<>>
  BY DEF RetryBudget
<1>1. /\ Budget(status[t], Len(runs[t]), retries[t], wentOffline[t])
      /\ status[t] = "absent" => runs[t] = <<>> /\ facts[t] = <<>>
  BY DEF RetryBudget
<1>2. /\ Len(runs[t]) \in Nat /\ retries[t] \in Nat /\ Len(<<>>) = 0
      /\ wentOffline[t] \in BOOLEAN
  BY RetriesAssumption, LenProperties DEF TypeOK
<1>3. CASE Unmoved(t) \/ Arrives(t) \/ Refused(t) \/ Saves(t) \/ Withdrawn(t) \/ Revived(t)
  BY <1>1, <1>2, <1>3
     DEF Unmoved, Arrives, Refused, Saves, Withdrawn, Revived, ActiveStatus
<1>4. CASE Claim(t)
  BY <1>1, <1>2, <1>4, RunsAfterClaim DEF ActiveStatus
<1>5. CASE Starts(t)
  <2>1. status[t] \in ActiveStatus /\ "running" \in RunStatus
    BY <1>5 DEF Starts, ActiveStatus, RunStatus
  <2> QED BY <1>1, <1>2, <1>5, <2>1, RunsAfterLeaving DEF Starts, ActiveStatus
<1>6. ASSUME NEW outcome \in {"completed", "failed", "cancelled"}, NEW next, NEW type,
             Leaves(t, outcome, next, type)
      PROVE  /\ Len(runs'[t]) = Len(runs[t]) /\ Len(runs[t]) = retries[t] + 1
             /\ ~wentOffline[t]
  <2>1. outcome \in RunStatus
    BY DEF RunStatus
  <2> QED BY <1>1, <1>2, <1>6, <2>1, RunsAfterLeaving DEF Leaves, ActiveStatus
<1>7. CASE Ends(t)
  <2>1. Len(runs'[t]) = Len(runs[t]) /\ Len(runs[t]) = retries[t] + 1 /\ ~wentOffline[t]
    BY <1>6, <1>7 DEF Ends
  <2> QED BY <1>2, <1>7, <2>1 DEF Ends, Leaves, ActiveStatus
<1>8. CASE Requeues(t)
  <2>1. Len(runs'[t]) = Len(runs[t]) /\ Len(runs[t]) = retries[t] + 1
    BY <1>6, <1>8 DEF Requeues
  <2> QED BY <1>2, <1>8, <2>1 DEF Requeues, Leaves, ActiveStatus
<1> QED BY <1>3, <1>4, <1>5, <1>7, <1>8, LifecycleMoves DEF Moves

LEMMA SerialWithinIssueStep ==
    ASSUME TypeOK, ActiveRunConsistent, SerialWithinIssue, [Next]_vars
    PROVE  SerialWithinIssue'
<1>1. \A t \in Task :
        status'[t] \in ActiveStatus => status[t] \in ActiveStatus \/ Claim(t)
  <2> TAKE t \in Task
  <2> QED BY LifecycleMoves
          DEF Moves, Unmoved, Arrives, Refused, Starts, Saves, Ends, Requeues, Leaves,
              Withdrawn, Revived, ActiveStatus
<1>2. \A t, u \in Task :
        Claim(t) /\ t # u /\ IssueOf[t] = IssueOf[u] => status'[u] \notin ActiveStatus
  BY DEF Claim, TypeOK
<1> QED BY <1>1, <1>2 DEF SerialWithinIssue

LEMMA RunInvInductive ==
    /\ Init => RunInv
    /\ RunInv /\ [Next]_vars => RunInv'
<1>1. Init => RunInv
  <2> SUFFICES ASSUME Init PROVE RunInv
    OBVIOUS
  <2>1. TypeOK
    BY RetriesAssumption, EmptySeq DEF Init, TypeOK, TaskStatus, NoRun
  <2> QED BY <2>1, EmptySeq
          DEF Init, RunInv, ActiveRunConsistent, SerialWithinIssue, RetryBudget,
              ActiveStatus, NoRun
<1>2. RunInv /\ [Next]_vars => RunInv'
  BY TypeStep, ActiveRunConsistentStep, RetryBudgetStep, SerialWithinIssueStep DEF RunInv
<1> QED BY <1>1, <1>2

THEOREM RunInvariant == Spec => []RunInv
BY RunInvInductive, PTL DEF Spec

\* No claim, callback, sweep or recovery, in any order, leaves a Run open behind
\* an item that has moved on.
THEOREM ActiveRunConsistency == Spec => []ActiveRunConsistent
BY RunInvariant, PTL DEF RunInv

\* An issue is worked on by one attempt at a time.
THEOREM SerialExecution == Spec => []SerialWithinIssue
BY RunInvariant, PTL DEF RunInv

\* An item gets at most MaxRetries + 1 attempts.
THEOREM BoundedAttempts == Spec => []RetryBudget
BY RunInvariant, PTL DEF RunInv

\* A closed Run and a settled item stay as they are, whatever arrives late.
THEOREM Finality == Spec => EndsAreFinal
<1> DEFINE Final ==
        \A t \in Task :
          /\ Len(runs'[t]) >= Len(runs[t])
          /\ \A n \in 1..Len(runs[t]) :
                runs[t][n] \notin ActiveStatus => runs'[t][n] = runs[t][n]
          /\ \/ status[t] \in {"completed", "cancelled"}
             \/ status[t] = "failed" /\ ~wentOffline[t]
             => status'[t] = status[t]
<1>1. RunInv /\ [Next]_vars => Final
  <2> SUFFICES ASSUME RunInv, [Next]_vars, NEW t \in Task
               PROVE  /\ Len(runs'[t]) >= Len(runs[t])
                      /\ \A n \in 1..Len(runs[t]) :
                            runs[t][n] \notin ActiveStatus => runs'[t][n] = runs[t][n]
                      /\ \/ status[t] \in {"completed", "cancelled"}
                         \/ status[t] = "failed" /\ ~wentOffline[t]
                         => status'[t] = status[t]
    OBVIOUS
  <2> USE DEF RunInv
  <2>1. Len(runs[t]) \in Nat
    BY LenProperties DEF TypeOK
  <2>2. CASE Unmoved(t) \/ Arrives(t) \/ Refused(t) \/ Saves(t) \/ Withdrawn(t) \/ Revived(t)
    BY <2>1, <2>2 DEF Unmoved, Arrives, Refused, Saves, Withdrawn, Revived
  <2>3. CASE Claim(t)
    BY <2>1, <2>3, RunsAfterClaim
  <2>4. ASSUME NEW outcome \in RunStatus, status[t] \in ActiveStatus,
               runs'[t] = [runs[t] EXCEPT ![active[t]] = outcome]
        PROVE  /\ Len(runs'[t]) = Len(runs[t])
               /\ \A n \in 1..Len(runs[t]) :
                     runs[t][n] \notin ActiveStatus => runs'[t][n] = runs[t][n]
    <3>1. runs[t][Len(runs[t])] \in ActiveStatus
      BY <2>4, RunsAfterLeaving DEF ActiveRunConsistent
    <3> QED BY <2>4, <3>1, RunsAfterLeaving
  <2>5. CASE Starts(t)
    <3>1. "running" \in RunStatus /\ status[t] \in ActiveStatus
      BY <2>5 DEF RunStatus, Starts, ActiveStatus
    <3> QED BY <2>1, <2>4, <2>5, <3>1 DEF Starts
  <2>6. CASE Ends(t) \/ Requeues(t)
    <3>1. status[t] \in ActiveStatus
      BY <2>6 DEF Ends, Requeues, Leaves
    <3>2. \E outcome \in RunStatus : runs'[t] = [runs[t] EXCEPT ![active[t]] = outcome]
      <4>1. "completed" \in RunStatus /\ "failed" \in RunStatus /\ "cancelled" \in RunStatus
        BY DEF RunStatus
      <4> QED BY <2>6, <4>1 DEF Ends, Requeues, Leaves
    <3> QED BY <2>1, <2>4, <3>1, <3>2 DEF ActiveStatus
  <2> QED BY <2>2, <2>3, <2>5, <2>6, LifecycleMoves DEF Moves
<1>2. RunInv /\ [Next]_vars => [Final]_vars
  BY <1>1
<1> QED BY <1>2, RunInvariant, PTL DEF Spec, EndsAreFinal

-----------------------------------------------------------------------------
(* The outbox.  A reader that sees only the facts is never misled.          *)

\* The last element of a sequence that grew is the one appended.
LEMMA LastFact ==
    ASSUME TypeOK, NEW t \in Task, NEW n \in Nat, NEW type \in FactType, Told(t, type, n)
    PROVE  /\ Len(facts[t]) \in Nat /\ Len(facts'[t]) = Len(facts[t]) + 1
           /\ facts'[t] # <<>>
           /\ facts'[t][Len(facts'[t])] = [type |-> type, run |-> n]
           /\ \A k \in 1..Len(facts[t]) : facts'[t][k] = facts[t][k]
<1> DEFINE fact == [type |-> type, run |-> n]
<1>1. facts[t] \in Seq(Fact) /\ fact \in Fact
  BY FactIsFact DEF TypeOK
<1>2. /\ Len(Append(facts[t], fact)) = Len(facts[t]) + 1
      /\ Append(facts[t], fact)[Len(facts[t]) + 1] = fact
      /\ \A k \in 1..Len(facts[t]) : Append(facts[t], fact)[k] = facts[t][k]
  BY <1>1, AppendFacts
<1>3. facts'[t] = Append(facts[t], fact)
  BY DEF Told
<1>4. Len(facts[t]) \in Nat /\ Len(<<>>) = 0
  BY <1>1, LenProperties
<1> QED BY <1>2, <1>3, <1>4

\* What a reader believes after one more fact.
LEMMA BelievedAfter ==
    ASSUME TypeOK, NEW t \in Task, NEW n \in Nat, NEW type \in FactType, Told(t, type, n)
    PROVE  Believed(t)' = StatusAfter(type)
<1>1. facts'[t] # <<>> /\ facts'[t][Len(facts'[t])] = [type |-> type, run |-> n]
  BY LastFact
<1>2. facts'[t][Len(facts'[t])].type = type
  BY <1>1
<1> QED BY <1>1, <1>2 DEF Believed, StatusAfter

LEMMA OutboxTellsStatusStep ==
    ASSUME RunInv, OutboxTellsStatus, [Next]_vars
    PROVE  OutboxTellsStatus'
<1> USE DEF RunInv
<1> SUFFICES ASSUME NEW t \in Task PROVE status'[t] \in Believed(t)'
  BY DEF OutboxTellsStatus
<1>1. status[t] \in Believed(t) /\ active[t] \in Nat /\ NoRun \in Nat /\ Len(runs[t]) \in Nat
  BY LenProperties DEF OutboxTellsStatus, TypeOK, NoRun
<1>2. ASSUME facts'[t] = facts[t],
             \/ status'[t] = status[t]
             \/ status[t] = "absent" /\ status'[t] = "queued"
             \/ status[t] = "queued" /\ status'[t] = "dispatched"
      PROVE  status'[t] \in Believed(t)'
  <2>1. Believed(t)' = Believed(t)
    BY <1>2 DEF Believed, StatusAfter
  <2>2. CASE facts[t] = <<>>
    BY <1>1, <1>2, <2>1, <2>2 DEF Believed
  <2>3. CASE facts[t] # <<>>
    <3>1. status[t] # "absent"
      BY <2>3 DEF RetryBudget
    <3>2. facts[t] \in Seq(Fact) /\ Len(facts[t]) \in 1..Len(facts[t])
      BY <2>3, LenProperties, EmptySeq DEF TypeOK
    <3>3. facts[t][Len(facts[t])].type \in FactType
      <4>1. facts[t][Len(facts[t])] \in Fact
        BY <3>2, ElementOfSeq
      <4> QED BY <4>1 DEF Fact
    <3>4. ASSUME NEW type \in FactType, "queued" \in StatusAfter(type)
          PROVE  "dispatched" \in StatusAfter(type)
      BY <3>4 DEF StatusAfter, FactType, ClosingFact
    <3> QED BY <1>1, <1>2, <2>1, <2>3, <3>1, <3>3, <3>4 DEF Believed
  <2> QED BY <2>2, <2>3
<1>3. CASE Unmoved(t) \/ Arrives(t)
  BY <1>2, <1>3 DEF Unmoved, Arrives
<1>4. CASE Claim(t)
  BY <1>2, <1>4, RunsAfterClaim
<1>5. ASSUME NEW type \in FactType, NEW n \in Nat, Told(t, type, n),
             status'[t] \in StatusAfter(type)
      PROVE  status'[t] \in Believed(t)'
  BY <1>5, BelievedAfter
<1>6. /\ "failed" \in StatusAfter("work_item.rejected")
      /\ "running" \in StatusAfter("run.started")
      /\ "running" \in StatusAfter("run.checkpointed")
      /\ "completed" \in StatusAfter("run.completed")
      /\ "failed" \in StatusAfter("run.failed")
      /\ "cancelled" \in StatusAfter("run.cancelled")
      /\ "queued" \in StatusAfter("run.retry_scheduled")
  BY DEF StatusAfter
<1>7. {"work_item.rejected", "run.started", "run.checkpointed", "run.completed",
       "run.failed", "run.cancelled", "run.retry_scheduled"} \subseteq FactType
  BY DEF FactType, ClosingFact
<1>8. CASE Refused(t) \/ Starts(t) \/ Saves(t) \/ Withdrawn(t)
  BY <1>1, <1>5, <1>6, <1>7, <1>8 DEF Refused, Starts, Saves, Withdrawn
<1>9. CASE Ends(t) \/ Requeues(t)
  BY <1>1, <1>5, <1>6, <1>7, <1>9 DEF Ends, Requeues, Leaves
<1>10. CASE Revived(t)
  BY <1>1, <1>2, <1>5, <1>6, <1>7, <1>10 DEF Revived
<1> QED BY <1>3, <1>4, <1>8, <1>9, <1>10, LifecycleMoves DEF Moves

\* The last fact of an item is its status, for every reader of the outbox.
THEOREM OutboxFaithful == Spec => []OutboxTellsStatus
<1>1. Init => OutboxTellsStatus
  BY DEF Init, OutboxTellsStatus, Believed
<1>2. RunInv /\ OutboxTellsStatus /\ [Next]_vars => OutboxTellsStatus'
  BY OutboxTellsStatusStep
<1> QED BY <1>1, <1>2, RunInvariant, PTL DEF Spec

-----------------------------------------------------------------------------
(* Refinement: the lifecycle implements the abstract WorkItem machine.      *)

phaseOfItem == [t \in Task |-> PhaseOf(status[t])]
attemptsOfItem == [t \in Task |-> Len(runs[t])]

\* Only a claim begins an attempt.
LEMMA AttemptsKept ==
    ASSUME RunInv, [Next]_vars, \A t \in Task : ~Claim(t)
    PROVE  attemptsOfItem' = attemptsOfItem
<1> SUFFICES ASSUME NEW t \in Task PROVE Len(runs'[t]) = Len(runs[t])
  BY DEF attemptsOfItem
<1> USE DEF RunInv
<1>1. CASE runs'[t] = runs[t]
  BY <1>1
<1>2. ASSUME NEW outcome \in RunStatus, status[t] \in ActiveStatus,
             runs'[t] = [runs[t] EXCEPT ![active[t]] = outcome]
      PROVE  Len(runs'[t]) = Len(runs[t])
  BY <1>2, RunsAfterLeaving
<1>3. {"running", "completed", "failed", "cancelled"} \subseteq RunStatus
  BY DEF RunStatus
<1>4. CASE Starts(t)
  BY <1>2, <1>3, <1>4 DEF Starts, ActiveStatus
<1>5. CASE Ends(t) \/ Requeues(t)
  BY <1>2, <1>3, <1>5 DEF Ends, Requeues, Leaves
<1> QED BY <1>1, <1>4, <1>5, LifecycleMoves
        DEF Moves, Unmoved, Arrives, Refused, Saves, Withdrawn, Revived

\* The phases after a statement that writes st for the items of S.
LEMMA PhasesAfter ==
    ASSUME TypeOK, NEW S \in SUBSET Task, NEW st,
           status' = [t \in Task |-> IF t \in S THEN st ELSE status[t]]
    PROVE  phaseOfItem' = [t \in Task |-> IF t \in S THEN PhaseOf(st) ELSE phaseOfItem[t]]
<1>1. phaseOfItem' = [t \in Task |-> PhaseOf(status'[t])]
  BY DEF phaseOfItem
<1>2. \A t \in Task : PhaseOf(status'[t]) = IF t \in S THEN PhaseOf(st) ELSE phaseOfItem[t]
  BY DEF phaseOfItem
<1> QED BY <1>1, <1>2

\* The phase of each status.
LEMMA PhaseValues ==
    /\ PhaseOf("absent") = "unknown" /\ PhaseOf("queued") = "waiting"
    /\ PhaseOf("dispatched") = "working" /\ PhaseOf("running") = "working"
    /\ PhaseOf("completed") = "succeeded" /\ PhaseOf("failed") = "failed"
    /\ PhaseOf("cancelled") = "cancelled"
BY DEF PhaseOf, ActiveStatus

\* Items of Q are requeued, the others of F fail, no other item changes.
Interrupts(Q, F) ==
    /\ \A t \in Q : /\ status[t] \in ActiveStatus \/ (status[t] = "failed" /\ wentOffline[t])
                    /\ retries[t] < MaxRetries
    /\ \A t \in F : status[t] \in OpenStatus \union {"failed"}
    /\ \A t \in Task : status'[t] = IF t \in Q THEN "queued"
                                    ELSE IF t \in F THEN "failed" ELSE status[t]

\* A step that is no claim leaves no item newly dispatched.
LEMMA NoClaim ==
    ASSUME TypeOK, NEW t \in Task,
           status'[t] = "dispatched" => status[t] = "dispatched"
    PROVE  ~Claim(t)
BY DEF Claim, TypeOK

LEMMA RefinementStep ==
    ASSUME RunInv, [Next]_vars
    PROVE  [WI!ItemNext]_(WI!itemVars)
<1> USE DEF RunInv
<1> DEFINE ph == phaseOfItem
           at == attemptsOfItem
<1>0. status \in [Task -> TaskStatus] /\ status' \in [Task -> TaskStatus]
  BY TypeStep DEF TypeOK
<1>a. \A t \in Task : at[t] = Len(runs[t]) /\ ph[t] = PhaseOf(status[t])
  BY DEF phaseOfItem, attemptsOfItem
<1>b. ph \in [Task -> {PhaseOf(st) : st \in TaskStatus}]
  BY <1>0 DEF phaseOfItem
<1>c. ASSUME NEW t \in Task, NEW st, status' = [status EXCEPT ![t] = st]
      PROVE  ph' = [ph EXCEPT ![t] = PhaseOf(st)]
  <2>1. status' = [u \in Task |-> IF u \in {t} THEN st ELSE status[u]]
    BY <1>0, <1>c
  <2>2. ph' = [u \in Task |-> IF u \in {t} THEN PhaseOf(st) ELSE ph[u]]
    BY <2>1, PhasesAfter
  <2> QED BY <1>b, <2>2
<1>1. ASSUME NEW t \in Task, Enqueue(t) PROVE WI!Submit(t)
  <2>1. ph' = [ph EXCEPT ![t] = "waiting"] /\ ph[t] = "unknown"
    <3>1. status' = [status EXCEPT ![t] = "queued"] /\ status[t] = "absent"
      BY <1>1 DEF Enqueue
    <3>2. ph' = [ph EXCEPT ![t] = PhaseOf("queued")]
      BY <1>c, <3>1
    <3>3. ph[t] = PhaseOf("absent")
      BY <1>a, <3>1
    <3> QED BY ONLY <3>2, <3>3, PhaseValues
  <2>2. at' = at
    BY <1>1 DEF Enqueue, attemptsOfItem
  <2> QED BY <2>1, <2>2 DEF WI!Submit, phaseOfItem, attemptsOfItem
<1>2. ASSUME NEW t \in Task, Claim(t) PROVE WI!Begin(t)
  <2>1. ph' = [ph EXCEPT ![t] = "working"] /\ ph[t] = "waiting"
    <3>1. status' = [status EXCEPT ![t] = "dispatched"] /\ status[t] = "queued"
      BY <1>2 DEF Claim
    <3>2. ph' = [ph EXCEPT ![t] = PhaseOf("dispatched")]
      BY <1>c, <3>1
    <3>3. ph[t] = PhaseOf("queued")
      BY <1>a, <3>1
    <3> QED BY ONLY <3>2, <3>3, PhaseValues
  <2>2. at' = [at EXCEPT ![t] = @ + 1]
    <3>1. at' = [u \in Task |-> Len(runs'[u])]
      BY DEF attemptsOfItem
    <3>2. \A u \in Task : Len(runs'[u]) = IF u = t THEN at[t] + 1 ELSE at[u]
      <4>1. \A u \in Task : u # t => runs'[u] = runs[u]
        BY <1>2 DEF Claim, TypeOK
      <4> QED BY <1>a, <1>2, <4>1, RunsAfterClaim
    <3>3. at = [u \in Task |-> at[u]]
      BY DEF attemptsOfItem
    <3> HIDE DEF at
    <3> QED BY <3>1, <3>2, <3>3
  <2>3. at[t] < MaxRetries + 1
    BY <1>a, <1>2, RetriesAssumption, RunsAfterClaim DEF RetryBudget, TypeOK
  <2>4. \A u \in Task : IssueOf[u] = IssueOf[t] => ph[u] # "working"
    BY <1>0, <1>a, <1>2 DEF Claim, PhaseOf, ActiveStatus, TaskStatus, RunStatus
  <2> QED BY <2>1, <2>2, <2>3, <2>4 DEF WI!Begin, phaseOfItem, attemptsOfItem
<1>3. ASSUME NEW Q \in SUBSET Task, NEW F \in SUBSET Task, Interrupts(Q, F)
      PROVE  WI!ItemNext
  <2>1. at' = at
    <3>1. \A t \in Task : status'[t] = "dispatched" => status[t] = "dispatched"
      BY <1>0, <1>3 DEF Interrupts
    <3> QED BY <3>1, NoClaim, AttemptsKept
  <2>2. ph' = [t \in Task |-> IF t \in Q THEN "waiting"
                              ELSE IF t \in F THEN "failed" ELSE ph[t]]
    <3>1. ph' = [t \in Task |-> PhaseOf(status'[t])]
      BY DEF phaseOfItem
    <3>2. \A t \in Task :
             PhaseOf(status'[t]) = IF t \in Q THEN "waiting"
                                   ELSE IF t \in F THEN "failed" ELSE ph[t]
      BY <1>a, <1>3, PhaseValues DEF Interrupts
    <3> HIDE DEF ph
    <3> QED BY <3>1, <3>2
  <2>3. \A t \in Q : ph[t] \in {"working", "failed"} /\ at[t] < MaxRetries + 1
    <3> TAKE t \in Q
    <3>1. Len(runs[t]) = retries[t] + 1 /\ retries[t] \in Nat
      BY <1>3, RetriesAssumption DEF Interrupts, RetryBudget, TypeOK
    <3> QED BY <1>a, <1>3, <3>1, RetriesAssumption DEF Interrupts, PhaseOf, ActiveStatus
  <2>4. \A t \in F : ph[t] \in {"waiting", "working", "failed"}
    BY <1>a, <1>3 DEF Interrupts, PhaseOf, ActiveStatus, OpenStatus
  <2>5. WI!Interrupt(Q, F)
    BY <2>1, <2>2, <2>3, <2>4 DEF WI!Interrupt, phaseOfItem, attemptsOfItem
  <2> QED BY <2>5 DEF WI!ItemNext
<1>4. ASSUME NEW t \in Task, Reject(t) PROVE WI!ItemNext
  <2>1. Interrupts({}, {t})
    BY <1>0, <1>4 DEF Reject, Interrupts, OpenStatus
  <2> QED BY <1>3, <2>1
<1>5. ASSUME \A u \in Task : PhaseOf(status'[u]) = PhaseOf(status[u]),
             \A u \in Task : status'[u] = "dispatched" => status[u] = "dispatched"
      PROVE  UNCHANGED WI!itemVars
  <2>1. at' = at
    BY <1>5, NoClaim, AttemptsKept
  <2>2. ph' = ph
    BY <1>5 DEF phaseOfItem
  <2> QED BY <2>1, <2>2 DEF WI!itemVars, phaseOfItem, attemptsOfItem
<1>6. ASSUME NEW t \in Task, NEW n \in 1..Len(runs[t]), Start(t, n)
      PROVE  UNCHANGED WI!itemVars
  <2>1. status[t] = "dispatched" /\ status' = [status EXCEPT ![t] = "running"]
    BY <1>6 DEF Start, Owns
  <2> QED BY <1>0, <1>5, <2>1, PhaseValues
<1>7. ASSUME NEW t \in Task, NEW n \in 1..Len(runs[t]), Checkpoint(t, n)
      PROVE  UNCHANGED WI!itemVars
  BY <1>5, <1>7 DEF Checkpoint
<1>8. ASSUME NEW t \in Task, NEW n \in 1..Len(runs[t]), Complete(t, n) PROVE WI!Succeed(t)
  <2>1. status[t] = "running" /\ status' = [status EXCEPT ![t] = "completed"]
    BY <1>8 DEF Complete, Owns, LeaveRun
  <2>2. ph' = [ph EXCEPT ![t] = "succeeded"] /\ ph[t] = "working"
    <3>1. ph' = [ph EXCEPT ![t] = PhaseOf("completed")]
      BY <1>c, <2>1
    <3>2. ph[t] = PhaseOf("running")
      BY <1>a, <2>1
    <3> QED BY <3>1, <3>2, PhaseValues
  <2>3. at' = at
    BY <1>0, <2>1, NoClaim, AttemptsKept
  <2> QED BY <2>2, <2>3 DEF WI!Succeed, phaseOfItem, attemptsOfItem
<1>9. ASSUME NEW t \in Task, NEW n \in 1..Len(runs[t]), Fail(t, n) PROVE WI!ItemNext
  <2>1. Interrupts({}, {t})
    BY <1>0, <1>9 DEF Fail, Owns, LeaveRun, Interrupts, OpenStatus, ActiveStatus
  <2> QED BY <1>3, <2>1
<1>10. ASSUME NEW t \in Task, NEW n \in 1..Len(runs[t]), RetryActive(t, n) PROVE WI!ItemNext
  <2>1. Interrupts({t}, {})
    BY <1>0, <1>10 DEF RetryActive, Owns, LeaveRun, Interrupts
  <2> QED BY <1>3, <2>1
<1>11. ASSUME NEW S \in SUBSET Task, \A u \in S : status[u] \in OpenStatus, CancelAll(S)
       PROVE  WI!ItemNext
  <2>1. status' = [u \in Task |-> IF u \in S THEN "cancelled" ELSE status[u]]
    BY <1>11 DEF CancelAll, FinishAll, SetAll
  <2>2. ph' = [u \in Task |-> IF u \in S THEN "cancelled" ELSE ph[u]]
    <3>1. ph' = [u \in Task |-> IF u \in S THEN PhaseOf("cancelled") ELSE ph[u]]
      BY <2>1, PhasesAfter
    <3> QED BY <3>1, PhaseValues
  <2>3. \A u \in S : ph[u] \in {"waiting", "working"}
    BY <1>a, <1>11, PhaseValues DEF OpenStatus
  <2>4. at' = at
    BY <1>0, <2>1, NoClaim, AttemptsKept
  <2>5. WI!Withdraw(S)
    BY <2>2, <2>3, <2>4 DEF WI!Withdraw, phaseOfItem, attemptsOfItem
  <2> QED BY <2>5 DEF WI!ItemNext
<1>12. ASSUME NEW S \in SUBSET Task, \A u \in S : status[u] \in ActiveStatus,
              FinishAll(S, "failed", "run.failed")
       PROVE  WI!ItemNext
  <2>1. Interrupts({}, S)
    BY <1>12 DEF FinishAll, SetAll, Interrupts, OpenStatus, ActiveStatus
  <2> QED BY <1>3, <2>1
<1>13. ASSUME NEW r \in Runtime, Recover(r) PROVE WI!ItemNext
  <2>1. Requeued(r) \in SUBSET Task /\ Orphans(r) \in SUBSET Task
    BY DEF Requeued, Orphans
  <2>2. \A t \in Requeued(r) :
           /\ status[t] \in ActiveStatus \/ (status[t] = "failed" /\ wentOffline[t])
           /\ retries[t] < MaxRetries
    BY DEF Requeued, Orphans
  <2>3. \A t \in Orphans(r) : status[t] \in OpenStatus \union {"failed"}
    BY DEF Orphans, OpenStatus, ActiveStatus
  <2>4. \A t \in Task : status'[t] = IF t \in Requeued(r) THEN "queued"
                                     ELSE IF t \in Orphans(r) THEN "failed" ELSE status[t]
    BY <1>13 DEF Recover, RecoveredStatus
  <2>5. Interrupts(Requeued(r), Orphans(r))
    BY <2>2, <2>3, <2>4 DEF Interrupts
  <2> QED BY <1>3, <2>1, <2>5
<1>14. ASSUME NEW t \in Task, Cancel(t) PROVE WI!ItemNext
  BY <1>11, <1>14 DEF Cancel, Open
<1>15. ASSUME NEW i \in Issue, CancelForIssue(i) PROVE WI!ItemNext
  BY <1>11, <1>15 DEF CancelForIssue, Open
<1>16. ASSUME NEW a \in Agent, CancelForAgent(a) PROVE WI!ItemNext
  BY <1>11, <1>16 DEF CancelForAgent, Open
<1>17. ASSUME NEW S \in SUBSET Task, FailStale(S) PROVE WI!ItemNext
  BY <1>12, <1>17 DEF FailStale
<1>18. ASSUME NEW R \in SUBSET Runtime, FailOffline(R) PROVE WI!ItemNext
  BY <1>12, <1>18 DEF FailOffline
<1>19. CASE UNCHANGED vars
  BY <1>5, <1>19 DEF vars
<1> QED
  BY <1>1, <1>2, <1>4, <1>6, <1>7, <1>8, <1>9, <1>10, <1>13, <1>14, <1>15, <1>16,
     <1>17, <1>18, <1>19 DEF Next, Callback, WI!ItemNext

\* Whoever relies on WorkItem alone (one attempt at a time on an issue, a
\* settled item comes back only as a paid retry) may rely on the lifecycle.
THEOREM LifecycleImplementsWorkItem == Spec => ImplementsWorkItem
<1>1. Init => WI!ItemInit
  <2> SUFFICES ASSUME Init PROVE WI!ItemInit
    OBVIOUS
  <2>1. \A t \in Task : PhaseOf(status[t]) = "unknown" /\ Len(runs[t]) = 0
    BY PhaseValues DEF Init
  <2> QED BY <2>1 DEF WI!ItemInit
<1>2. RunInv /\ [Next]_vars => [WI!ItemNext]_(WI!itemVars)
  BY RefinementStep
<1> QED BY <1>1, <1>2, RunInvariant, PTL DEF Spec, ImplementsWorkItem, WI!ItemSpec

-----------------------------------------------------------------------------
(* What the outbox tells of an item.                                        *)

\* What the story of an item needs besides itself to be kept by every step: no
\* fact is about a Run that is still to come, and an item that the offline sweep
\* failed has one closing fact of its newest Run, a failure.
ItemStory(t) ==
    /\ \A k \in DOMAIN facts[t] : facts[t][k].run <= Len(runs[t])
    /\ OneStory(t)
    /\ InOrder(t)
    /\ wentOffline[t] => /\ Len(runs[t]) > 0
                         /\ runs[t][Len(runs[t])] = "failed"
                         /\ ClosedBy(t, Len(runs[t]), {"run.failed"})

StoryInv == \A t \in Task : ItemStory(t)

\* The facts of an item are numbered from 1.
LEMMA FactsDomain ==
    ASSUME TypeOK, NEW t \in Task
    PROVE  /\ Len(facts[t]) \in Nat /\ DOMAIN facts[t] = 1..Len(facts[t])
           /\ \A k \in DOMAIN facts[t] : facts[t][k].run \in Nat /\ facts[t][k].type \in FactType
           /\ Len(runs[t]) \in Nat
<1>1. facts[t] \in Seq(Fact) /\ runs[t] \in Seq(RunStatus)
  BY DEF TypeOK
<1>2. Len(facts[t]) \in Nat /\ DOMAIN facts[t] = 1..Len(facts[t]) /\ Len(runs[t]) \in Nat
  BY <1>1, LenProperties
<1>3. \A k \in 1..Len(facts[t]) : facts[t][k] \in Fact
  BY <1>1, ElementOfSeq
<1> QED BY <1>2, <1>3 DEF Fact

\* One more fact: the others stay, and it is the last.
LEMMA ToldDomain ==
    ASSUME TypeOK, NEW t \in Task, NEW n \in Nat, NEW type \in FactType, Told(t, type, n)
    PROVE  /\ DOMAIN facts[t] = 1..Len(facts[t]) /\ Len(facts[t]) \in Nat
           /\ DOMAIN facts'[t] = 1..(Len(facts[t]) + 1)
           /\ \A k \in 1..Len(facts[t]) : facts'[t][k] = facts[t][k]
           /\ facts'[t][Len(facts[t]) + 1].run = n
           /\ facts'[t][Len(facts[t]) + 1].type = type
<1>1. [type |-> type, run |-> n] \in Fact
  BY FactIsFact
<1>2. facts'[t] \in Seq(Fact)
  BY <1>1, AppendFacts DEF Told, TypeOK
<1>3. DOMAIN facts'[t] = 1..Len(facts'[t])
  BY <1>2, LenProperties
<1>4. /\ Len(facts[t]) \in Nat /\ Len(facts'[t]) = Len(facts[t]) + 1
      /\ facts'[t][Len(facts'[t])] = [type |-> type, run |-> n]
      /\ \A k \in 1..Len(facts[t]) : facts'[t][k] = facts[t][k]
  BY LastFact
<1>5. facts'[t][Len(facts[t]) + 1] = [type |-> type, run |-> n]
  BY ONLY <1>4
<1>6. facts'[t][Len(facts[t]) + 1].run = n /\ facts'[t][Len(facts[t]) + 1].type = type
  BY ONLY <1>5
<1>7. DOMAIN facts[t] = 1..Len(facts[t])
  BY FactsDomain
<1> QED BY ONLY <1>3, <1>4, <1>6, <1>7

\* The closing facts of the Runs it is not about stay; it joins those of the Run
\* it is about when it closes it.
LEMMA ToldCloses ==
    ASSUME TypeOK, NEW t \in Task, NEW n \in Nat, NEW type \in FactType, Told(t, type, n),
           NEW m
    PROVE  Closing(t, m)' = Closing(t, m) \union
               (IF m = n /\ type \in ClosingFact THEN {Len(facts[t]) + 1} ELSE {})
<1> DEFINE last == Len(facts[t]) + 1
<1>1. /\ DOMAIN facts[t] = 1..Len(facts[t]) /\ Len(facts[t]) \in Nat
      /\ DOMAIN facts'[t] = 1..last
      /\ \A k \in 1..Len(facts[t]) : facts'[t][k] = facts[t][k]
      /\ facts'[t][last].run = n /\ facts'[t][last].type = type
  BY ToldDomain
<1>2. 1..last = 1..Len(facts[t]) \union {last}
  BY <1>1
<1> QED BY <1>1, <1>2 DEF Closing

\* A closing fact joins those of its own Run.
LEMMA ToldClosesItsRun ==
    ASSUME TypeOK, NEW t \in Task, NEW n \in Nat, NEW type \in ClosingFact, Told(t, type, n)
    PROVE  Closing(t, n)' = Closing(t, n) \union {Len(facts[t]) + 1}
<1>1. type \in FactType
  BY DEF FactType
<1>2. Closing(t, n)' = Closing(t, n) \union
         (IF n = n /\ type \in ClosingFact THEN {Len(facts[t]) + 1} ELSE {})
  BY <1>1, ToldCloses
<1> QED BY <1>2

\* A Run whose closing facts stay as they are keeps its story.
LEMMA ClosedByKept ==
    ASSUME TypeOK, NEW t \in Task, NEW n \in Nat, NEW type \in FactType, Told(t, type, n),
           NEW m, Closing(t, m)' = Closing(t, m), NEW types
    PROVE  /\ ClosedBy(t, m, types) => ClosedBy(t, m, types)'
           /\ Reopened(t, m) => Reopened(t, m)'
<1>1. /\ DOMAIN facts[t] \subseteq DOMAIN facts'[t]
      /\ \A k \in DOMAIN facts[t] : facts'[t][k] = facts[t][k]
  BY ToldDomain
<1> QED BY <1>1 DEF ClosedBy, Reopened

\* A fact of no Run, or of the newest one, keeps the order, where the newest is
\* not closed yet or is reopened.
LEMMA ToldInOrder ==
    ASSUME TypeOK, NEW t \in Task, NEW n \in Nat, NEW type \in FactType, Told(t, type, n),
           InOrder(t), \A k \in DOMAIN facts[t] : facts[t][k].run <= Len(runs[t]),
           n = NoRun \/ n = Len(runs[t]),
           n # NoRun => \A k \in Closing(t, n) :
                           facts[t][k].type = "run.failed" /\ type = "run.retry_scheduled"
    PROVE  InOrder(t)'
<1> DEFINE last == Len(facts[t]) + 1
<1>1. /\ DOMAIN facts[t] = 1..Len(facts[t]) /\ Len(facts[t]) \in Nat
      /\ DOMAIN facts'[t] = 1..last
      /\ \A k \in 1..Len(facts[t]) : facts'[t][k] = facts[t][k]
      /\ facts'[t][last].run = n /\ facts'[t][last].type = type
  BY ToldDomain
<1> SUFFICES ASSUME NEW j \in 1..last, NEW k \in 1..last, j < k,
                    facts'[t][j].run # NoRun, facts'[t][k].run # NoRun
             PROVE  /\ facts'[t][j].run <= facts'[t][k].run
                    /\ facts'[t][j].run = facts'[t][k].run /\ facts'[t][j].type \in ClosingFact =>
                          /\ facts'[t][j].type = "run.failed"
                          /\ facts'[t][k].type = "run.retry_scheduled"
  BY <1>1 DEF InOrder
<1>2. j \in 1..Len(facts[t]) /\ facts'[t][j] = facts[t][j]
  BY <1>1
<1>3. CASE k = last
  <2>1. n # NoRun /\ n = Len(runs[t])
    BY <1>1, <1>3
  <2>2. facts[t][j].run = n /\ facts[t][j].type \in ClosingFact =>
           facts[t][j].type = "run.failed" /\ type = "run.retry_scheduled"
    BY <1>1, <1>2, <2>1 DEF Closing
  <2>3. facts[t][j].run <= Len(runs[t])
    BY <1>1, <1>2
  <2>4. facts'[t][k].run = n /\ facts'[t][k].type = type /\ facts'[t][j] = facts[t][j]
    BY <1>1, <1>2, <1>3
  <2> QED BY ONLY <2>1, <2>2, <2>3, <2>4
<1>4. CASE k # last
  <2>1. k \in 1..Len(facts[t]) /\ facts'[t][k] = facts[t][k]
    BY <1>1, <1>4
  <2>2. facts'[t][j] = facts[t][j] /\ j \in DOMAIN facts[t] /\ k \in DOMAIN facts[t]
    BY <1>1, <1>2, <2>1
  <2> QED BY <2>1, <2>2 DEF InOrder
<1> QED BY <1>3, <1>4

\* Items that are not failed were not failed by the offline sweep.
LEMMA NotOffline ==
    ASSUME RunInv, NEW t \in Task, status[t] # "failed"
    PROVE  wentOffline[t] = FALSE
BY DEF RunInv, RetryBudget, TypeOK

-----------------------------------------------------------------------------
(* What each kind of move does to the story of its item.                    *)

\* No fact, and no Run that changes.
LEMMA StoryKept ==
    ASSUME NEW t \in Task, ItemStory(t), facts'[t] = facts[t], runs'[t] = runs[t],
           wentOffline'[t] = wentOffline[t] \/ wentOffline'[t] = FALSE
    PROVE  ItemStory(t)'
<1>1. /\ \A n : Closing(t, n)' = Closing(t, n)
      /\ \A n, types : ClosedBy(t, n, types)' = ClosedBy(t, n, types)
      /\ \A n : Reopened(t, n)' = Reopened(t, n)
      /\ InOrder(t)' = InOrder(t)
  BY DEF ClosedBy, Reopened, Closing, InOrder
<1>2. OneStory(t)'
  BY <1>1 DEF ItemStory, OneStory
<1> QED BY <1>1, <1>2 DEF ItemStory

\* A new Run is open, and nothing is told of it.
LEMMA ClaimStory ==
    ASSUME RunInv, NEW t \in Task, ItemStory(t), Claim(t)
    PROVE  ItemStory(t)'
<1> DEFINE L == Len(runs[t])
<1>1. /\ L \in Nat /\ Len(runs'[t]) = L + 1 /\ runs'[t][L + 1] = "dispatched"
      /\ \A n \in 1..L : runs'[t][n] = runs[t][n]
      /\ facts'[t] = facts[t] /\ wentOffline'[t] = wentOffline[t] /\ status[t] = "queued"
  BY RunsAfterClaim DEF RunInv
<1>2. wentOffline'[t] = FALSE
  BY <1>1, NotOffline
<1>3. /\ \A n : Closing(t, n)' = Closing(t, n)
      /\ \A n, types : ClosedBy(t, n, types)' = ClosedBy(t, n, types)
      /\ \A n : Reopened(t, n)' = Reopened(t, n)
      /\ InOrder(t)' = InOrder(t)
  BY <1>1 DEF ClosedBy, Reopened, Closing, InOrder
<1>4. \A k \in DOMAIN facts[t] : facts[t][k].run \in Nat /\ facts[t][k].run <= L
  BY FactsDomain DEF RunInv, ItemStory
<1>5. Closing(t, L + 1) = {}
  BY <1>1, <1>4 DEF Closing
<1>6. OneStory(t)'
  <2> SUFFICES ASSUME NEW n \in 1..(L + 1)
               PROVE  /\ runs'[t][n] \in ActiveStatus => Closing(t, n) = {}
                      /\ runs'[t][n] = "completed" => ClosedBy(t, n, {"run.completed"})
                      /\ runs'[t][n] = "cancelled" => ClosedBy(t, n, {"run.cancelled"})
                      /\ runs'[t][n] = "failed" =>
                            \/ ClosedBy(t, n, {"run.failed", "run.retry_scheduled"})
                            \/ Reopened(t, n)
    BY <1>1, <1>3 DEF OneStory
  <2>1. CASE n = L + 1
    BY <1>1, <1>5, <2>1
  <2>2. CASE n # L + 1
    <3>1. n \in 1..L /\ runs'[t][n] = runs[t][n]
      BY <1>1, <2>2
    <3> QED BY <3>1 DEF ItemStory, OneStory
  <2> QED BY <2>1, <2>2
<1>7. \A k \in DOMAIN facts'[t] : facts'[t][k].run <= Len(runs'[t])
  BY <1>1, <1>4
<1> QED BY <1>2, <1>3, <1>6, <1>7 DEF ItemStory

\* A fact that closes no Run: about no Run at all, or about one that is open.
LEMMA NewsStory ==
    ASSUME RunInv, NEW t \in Task, ItemStory(t), NEW n \in Nat, NEW type \in FactType,
           Told(t, type, n), wentOffline'[t] = FALSE,
           Len(runs'[t]) = Len(runs[t]),
           \A m \in 1..Len(runs[t]) :
              runs'[t][m] = runs[t][m] \/ {runs[t][m], runs'[t][m]} \subseteq ActiveStatus,
           \/ n = NoRun
           \/ /\ n = Len(runs[t]) /\ n > 0 /\ runs[t][n] \in ActiveStatus
              /\ type \notin ClosingFact
    PROVE  ItemStory(t)'
<1>0. TypeOK
  BY DEF RunInv
<1>1. \A m \in 1..Len(runs[t]) : Closing(t, m)' = Closing(t, m)
  <2> TAKE m \in 1..Len(runs[t])
  <2>1. ~(m = n /\ type \in ClosingFact)
    BY FactsDomain, <1>0 DEF NoRun
  <2> QED BY <1>0, <2>1, ToldCloses, ZenonT(60)
<1>2. \A m \in 1..Len(runs[t]) :
        /\ \A types : ClosedBy(t, m, types) => ClosedBy(t, m, types)'
        /\ Reopened(t, m) => Reopened(t, m)'
  BY <1>0, <1>1, ClosedByKept
<1>3. OneStory(t)'
  <2> SUFFICES ASSUME NEW m \in 1..Len(runs[t])
               PROVE  /\ runs'[t][m] \in ActiveStatus => Closing(t, m)' = {}
                      /\ runs'[t][m] = "completed" => ClosedBy(t, m, {"run.completed"})'
                      /\ runs'[t][m] = "cancelled" => ClosedBy(t, m, {"run.cancelled"})'
                      /\ runs'[t][m] = "failed" =>
                            \/ ClosedBy(t, m, {"run.failed", "run.retry_scheduled"})'
                            \/ Reopened(t, m)'
    BY DEF OneStory
  <2>1. /\ runs[t][m] \in ActiveStatus => Closing(t, m) = {}
        /\ runs[t][m] = "completed" => ClosedBy(t, m, {"run.completed"})
        /\ runs[t][m] = "cancelled" => ClosedBy(t, m, {"run.cancelled"})
        /\ runs[t][m] = "failed" =>
              ClosedBy(t, m, {"run.failed", "run.retry_scheduled"}) \/ Reopened(t, m)
    BY DEF ItemStory, OneStory
  <2>2. CASE runs'[t][m] = runs[t][m]
    BY <1>1, <1>2, <2>1, <2>2
  <2>3. CASE {runs[t][m], runs'[t][m]} \subseteq ActiveStatus
    BY <1>1, <2>1, <2>3 DEF ActiveStatus
  <2> QED BY <2>2, <2>3
<1>4. InOrder(t)'
  <2>1. n # NoRun => Closing(t, n) = {}
    BY FactsDomain, <1>0 DEF ItemStory, OneStory
  <2> QED BY <1>0, <2>1, ToldInOrder DEF ItemStory
<1>5. \A k \in DOMAIN facts'[t] : facts'[t][k].run <= Len(runs'[t])
  <2>1. n <= Len(runs[t]) /\ Len(runs[t]) \in Nat
    BY FactsDomain, <1>0 DEF NoRun
  <2>2. /\ DOMAIN facts[t] = 1..Len(facts[t]) /\ Len(facts[t]) \in Nat
        /\ DOMAIN facts'[t] = 1..(Len(facts[t]) + 1)
        /\ \A k \in 1..Len(facts[t]) : facts'[t][k] = facts[t][k]
        /\ facts'[t][Len(facts[t]) + 1].run = n
    BY <1>0, ToldDomain
  <2>3. \A k \in 1..Len(facts[t]) : facts[t][k].run <= Len(runs[t])
    BY <2>2 DEF ItemStory
  <2>4. Len(runs'[t]) = Len(runs[t])
    OBVIOUS
  <2> QED BY ONLY <2>1, <2>2, <2>3, <2>4
<1> QED BY <1>3, <1>4, <1>5 DEF ItemStory

\* The end of the newest Run: it was open, and it gets its one closing fact.
LEMMA EndStory ==
    ASSUME RunInv, NEW t \in Task, ItemStory(t),
           NEW outcome \in {"completed", "failed", "cancelled"}, NEW next, NEW type,
           Leaves(t, outcome, next, type),
           \/ outcome = "completed" /\ type = "run.completed"
           \/ outcome = "cancelled" /\ type = "run.cancelled"
           \/ outcome = "failed" /\ type \in {"run.failed", "run.retry_scheduled"},
           wentOffline'[t] => outcome = "failed" /\ type = "run.failed"
    PROVE  ItemStory(t)'
<1> DEFINE last == Len(facts[t]) + 1
<1>n. PICK L : L = Len(runs[t])
  OBVIOUS
<1>0. TypeOK /\ ActiveRunConsistent /\ status[t] \in ActiveStatus /\ outcome \in RunStatus
  BY DEF RunInv, Leaves, RunStatus
<1>1. /\ L \in Nat /\ L > 0 /\ active[t] = L /\ Len(runs'[t]) = L /\ runs'[t][L] = outcome
      /\ \A n \in 1..L : n # L => runs'[t][n] = runs[t][n]
  BY <1>n, <1>0, RunsAfterLeaving DEF Leaves
<1>2. runs[t][L] \in ActiveStatus
  BY <1>0, <1>1 DEF ActiveRunConsistent, NoRun
<1>3. L \in Nat /\ type \in FactType /\ type \in ClosingFact /\ Told(t, type, L)
  BY <1>1 DEF Leaves, FactType, ClosingFact
<1>4. Closing(t, L) = {}
  BY <1>n, <1>1, <1>2 DEF ItemStory, OneStory
<1>5. Closing(t, L)' = {last}
  <2>1. Closing(t, L)' = Closing(t, L) \union {last}
    BY <1>0, <1>3, ToldClosesItsRun
  <2> QED BY <1>4, <2>1
<1>6. ClosedBy(t, L, {type})'
  <2>1. /\ DOMAIN facts'[t] = 1..last /\ Len(facts[t]) \in Nat /\ facts'[t][last].type = type
    BY <1>0, <1>3, ToldDomain
  <2>2. last \in DOMAIN facts'[t]
    BY <2>1
  <2> QED BY <1>5, <2>1, <2>2 DEF ClosedBy
<1>7. \A m \in 1..L : m # L =>
        /\ \A types : ClosedBy(t, m, types) => ClosedBy(t, m, types)'
        /\ Reopened(t, m) => Reopened(t, m)'
        /\ Closing(t, m)' = Closing(t, m)
  <2> TAKE m \in 1..L
  <2> HAVE m # L
  <2>1. Closing(t, m)' = Closing(t, m)
    <3>1. Closing(t, m)' = Closing(t, m) \union
             (IF m = L /\ type \in ClosingFact THEN {last} ELSE {})
      BY <1>0, <1>3, ToldCloses
    <3> QED BY <3>1
  <2> QED BY <1>0, <1>3, <2>1, ClosedByKept
<1>8. ClosedBy(t, L, {type})' =>
        /\ type = "run.completed" => ClosedBy(t, L, {"run.completed"})'
        /\ type = "run.cancelled" => ClosedBy(t, L, {"run.cancelled"})'
        /\ type = "run.failed" => ClosedBy(t, L, {"run.failed"})'
        /\ type \in {"run.failed", "run.retry_scheduled"} =>
              ClosedBy(t, L, {"run.failed", "run.retry_scheduled"})'
  BY DEF ClosedBy
<1>9. OneStory(t)'
  <2> SUFFICES ASSUME NEW m \in 1..L
               PROVE  /\ runs'[t][m] \in ActiveStatus => Closing(t, m)' = {}
                      /\ runs'[t][m] = "completed" => ClosedBy(t, m, {"run.completed"})'
                      /\ runs'[t][m] = "cancelled" => ClosedBy(t, m, {"run.cancelled"})'
                      /\ runs'[t][m] = "failed" =>
                            \/ ClosedBy(t, m, {"run.failed", "run.retry_scheduled"})'
                            \/ Reopened(t, m)'
    BY <1>1 DEF OneStory
  <2>1. CASE m = L
    BY <1>1, <1>6, <1>8, <2>1 DEF ActiveStatus
  <2>2. CASE m # L
    <3>1. /\ runs[t][m] \in ActiveStatus => Closing(t, m) = {}
          /\ runs[t][m] = "completed" => ClosedBy(t, m, {"run.completed"})
          /\ runs[t][m] = "cancelled" => ClosedBy(t, m, {"run.cancelled"})
          /\ runs[t][m] = "failed" =>
                ClosedBy(t, m, {"run.failed", "run.retry_scheduled"}) \/ Reopened(t, m)
      BY <1>n DEF ItemStory, OneStory
    <3>2. runs'[t][m] = runs[t][m]
      BY <1>1, <2>2
    <3> QED BY <1>7, <2>2, <3>1, <3>2
  <2> QED BY <2>1, <2>2
<1>10. InOrder(t)'
  BY <1>n, <1>0, <1>3, <1>4, ToldInOrder DEF ItemStory
<1>11. \A k \in DOMAIN facts'[t] : facts'[t][k].run <= Len(runs'[t])
  <2>1. /\ DOMAIN facts[t] = 1..Len(facts[t]) /\ Len(facts[t]) \in Nat
        /\ DOMAIN facts'[t] = 1..last
        /\ \A k \in 1..Len(facts[t]) : facts'[t][k] = facts[t][k]
        /\ facts'[t][last].run = L
    BY <1>0, <1>3, ToldDomain
  <2>2. \A k \in DOMAIN facts[t] : facts[t][k].run <= L
    BY <1>n DEF ItemStory
  <2>3. \A k \in 1..last : k = last \/ k \in 1..Len(facts[t])
    BY <2>1
  <2> QED BY ONLY <1>1, <2>1, <2>2, <2>3
<1>12. wentOffline'[t] => /\ Len(runs'[t]) > 0
                          /\ runs'[t][Len(runs'[t])] = "failed"
                          /\ ClosedBy(t, L, {"run.failed"})'
  BY <1>1, <1>6, <1>8
<1>13. ClosedBy(t, L, {"run.failed"})' => ClosedBy(t, Len(runs[t]), {"run.failed"})'
  BY <1>1 DEF ClosedBy
<1> QED BY <1>n, <1>1, <1>9, <1>10, <1>11, <1>12, <1>13 DEF ItemStory

\* An item that the offline sweep failed is requeued after all: the failure of its
\* newest Run, told once, is followed by the news.
LEMMA ReviveStory ==
    ASSUME RunInv, NEW t \in Task, ItemStory(t), wentOffline[t], wentOffline'[t] = FALSE,
           runs'[t] = runs[t], Told(t, "run.retry_scheduled", Len(runs[t]))
    PROVE  ItemStory(t)'
<1> DEFINE last == Len(facts[t]) + 1
           type == "run.retry_scheduled"
<1>n. PICK L : L = Len(runs[t])
  OBVIOUS
<1>0. TypeOK /\ L \in Nat
  BY <1>n, FactsDomain DEF RunInv
<1>1. type \in FactType /\ type \in ClosingFact
  BY DEF FactType, ClosingFact
<1>2. L > 0 /\ runs[t][L] = "failed" /\ ClosedBy(t, L, {"run.failed"})
  BY <1>n DEF ItemStory
<1>3. PICK j \in DOMAIN facts[t] : Closing(t, L) = {j} /\ facts[t][j].type = "run.failed"
  BY <1>2 DEF ClosedBy
<1>4. /\ DOMAIN facts[t] = 1..Len(facts[t]) /\ Len(facts[t]) \in Nat
      /\ DOMAIN facts'[t] = 1..last
      /\ \A k \in 1..Len(facts[t]) : facts'[t][k] = facts[t][k]
      /\ facts'[t][last].run = L /\ facts'[t][last].type = type
  BY <1>n, <1>0, <1>1, ToldDomain
<1>5. Closing(t, L)' = {j, last}
  <2>1. Closing(t, L)' = Closing(t, L) \union {last}
    BY <1>n, <1>0, <1>1, ToldCloses
  <2> QED BY <1>3, <2>1
<1>6. Reopened(t, L)'
  <2>1. j \in DOMAIN facts'[t] /\ last \in DOMAIN facts'[t] /\ j < last
    BY <1>3, <1>4
  <2>2. facts'[t][j].type = "run.failed"
    BY <1>3, <1>4
  <2> QED BY <1>4, <1>5, <2>1, <2>2 DEF Reopened
<1>7. \A m \in 1..L : m # L =>
        /\ \A types : ClosedBy(t, m, types) => ClosedBy(t, m, types)'
        /\ Reopened(t, m) => Reopened(t, m)'
        /\ Closing(t, m)' = Closing(t, m)
  <2> TAKE m \in 1..L
  <2> HAVE m # L
  <2>1. Closing(t, m)' = Closing(t, m)
    <3>1. Closing(t, m)' = Closing(t, m) \union
             (IF m = L /\ type \in ClosingFact THEN {last} ELSE {})
      BY <1>n, <1>0, <1>1, ToldCloses
    <3> QED BY <3>1
  <2> QED BY <1>0, <1>1, <2>1, <1>n, ClosedByKept
<1>8. OneStory(t)'
  <2> SUFFICES ASSUME NEW m \in 1..L
               PROVE  /\ runs[t][m] \in ActiveStatus => Closing(t, m)' = {}
                      /\ runs[t][m] = "completed" => ClosedBy(t, m, {"run.completed"})'
                      /\ runs[t][m] = "cancelled" => ClosedBy(t, m, {"run.cancelled"})'
                      /\ runs[t][m] = "failed" =>
                            \/ ClosedBy(t, m, {"run.failed", "run.retry_scheduled"})'
                            \/ Reopened(t, m)'
    BY <1>n DEF OneStory
  <2>1. CASE m = L
    BY <1>2, <1>6, <2>1 DEF ActiveStatus
  <2>2. CASE m # L
    <3>1. /\ runs[t][m] \in ActiveStatus => Closing(t, m) = {}
          /\ runs[t][m] = "completed" => ClosedBy(t, m, {"run.completed"})
          /\ runs[t][m] = "cancelled" => ClosedBy(t, m, {"run.cancelled"})
          /\ runs[t][m] = "failed" =>
                ClosedBy(t, m, {"run.failed", "run.retry_scheduled"}) \/ Reopened(t, m)
      BY <1>n DEF ItemStory, OneStory
    <3> QED BY <1>7, <2>2, <3>1
  <2> QED BY <2>1, <2>2
<1>9. InOrder(t)'
  <2>1. \A k \in Closing(t, L) : facts[t][k].type = "run.failed"
    BY <1>3
  <2> QED BY <1>n, <1>0, <1>1, <2>1, ToldInOrder DEF ItemStory
<1>10. \A k \in DOMAIN facts'[t] : facts'[t][k].run <= Len(runs'[t])
  BY <1>n, <1>0, <1>4, SMTT(60) DEF ItemStory
<1> QED BY <1>8, <1>9, <1>10 DEF ItemStory

-----------------------------------------------------------------------------
(* The story of every item is kept by every step.                           *)

LEMMA ItemStoryStep ==
    ASSUME RunInv, StoryInv, [Next]_vars, NEW t \in Task
    PROVE  ItemStory(t)'
<1>0. TypeOK /\ ActiveRunConsistent /\ ItemStory(t)
  BY DEF RunInv, StoryInv
<1>1. {"work_item.rejected", "run.started", "run.checkpointed", "run.cancelled"} \subseteq FactType
      /\ {"run.started", "run.checkpointed"} \intersect ClosingFact = {}
      /\ NoRun \in Nat /\ active[t] \in Nat
  BY <1>0 DEF FactType, ClosingFact, NoRun, TypeOK
<1>2. CASE Unmoved(t) \/ Arrives(t)
  BY <1>0, <1>2, StoryKept DEF Unmoved, Arrives
<1>3. CASE Claim(t)
  BY <1>0, <1>3, ClaimStory
<1>4. CASE Refused(t)
  BY <1>0, <1>1, <1>4, NewsStory DEF Refused
<1>5. CASE Withdrawn(t)
  <2>1. wentOffline'[t] = FALSE
    BY <1>5, NotOffline DEF Withdrawn
  <2> QED BY <1>0, <1>1, <1>5, <2>1, NewsStory DEF Withdrawn
<1>6. CASE Starts(t) \/ Saves(t)
  <2>1. status[t] \in ActiveStatus /\ "running" \in RunStatus /\ "running" \in ActiveStatus
    BY <1>6 DEF Starts, Saves, ActiveStatus, RunStatus
  <2>2. active[t] = Len(runs[t]) /\ active[t] > 0 /\ runs[t][active[t]] \in ActiveStatus
    BY <1>0, <1>1, <2>1 DEF ActiveRunConsistent, NoRun
  <2>3. wentOffline'[t] = FALSE
    <3>1. wentOffline'[t] = wentOffline[t] /\ status[t] # "failed"
      BY <1>6, <2>1 DEF Starts, Saves, ActiveStatus
    <3> QED BY <3>1, NotOffline
  <2>4. /\ Len(runs'[t]) = Len(runs[t])
        /\ \A m \in 1..Len(runs[t]) :
              runs'[t][m] = runs[t][m] \/ {runs[t][m], runs'[t][m]} \subseteq ActiveStatus
    <3>1. CASE Starts(t)
      <4>1. runs'[t] = [runs[t] EXCEPT ![active[t]] = "running"]
        BY <3>1 DEF Starts
      <4> QED BY <1>0, <2>1, <2>2, <4>1, RunsAfterLeaving
    <3>2. CASE Saves(t)
      BY <3>2 DEF Saves
    <3> QED BY <1>6, <3>1, <3>2
  <2>5. CASE Starts(t)
    BY <1>0, <1>1, <2>2, <2>3, <2>4, <2>5, NewsStory DEF Starts
  <2>6. CASE Saves(t)
    BY <1>0, <1>1, <2>2, <2>3, <2>4, <2>6, NewsStory DEF Saves
  <2> QED BY <1>6, <2>5, <2>6
<1>7. CASE Ends(t)
  <2>1. ASSUME NEW next, NEW outcome, NEW type, Leaves(t, outcome, next, type),
               next \in {"completed", "cancelled"}
        PROVE  wentOffline'[t] = FALSE
    <3>1. status[t] # "failed" /\ wentOffline'[t] \in BOOLEAN
          /\ (wentOffline'[t] => wentOffline[t])
      BY <2>1 DEF Leaves, ActiveStatus
    <3>2. wentOffline[t] = FALSE
      BY <3>1, NotOffline
    <3> QED BY <3>1, <3>2
  <2>2. CASE Leaves(t, "completed", "completed", "run.completed")
    <3>1. wentOffline'[t] = FALSE
      BY <2>1, <2>2
    <3> QED BY <1>0, <2>2, <3>1, EndStory
  <2>3. CASE Leaves(t, "failed", "failed", "run.failed")
    BY <1>0, <2>3, EndStory
  <2>4. CASE Leaves(t, "cancelled", "cancelled", "run.cancelled")
    <3>1. wentOffline'[t] = FALSE
      BY <2>1, <2>4
    <3> QED BY <1>0, <2>4, <3>1, EndStory
  <2> QED BY <1>7, <2>2, <2>3, <2>4 DEF Ends
<1>8. CASE Requeues(t)
  BY <1>0, <1>8, EndStory DEF Requeues
<1>9. CASE Revived(t)
  BY <1>0, <1>9, StoryKept, ReviveStory DEF Revived
<1> QED BY <1>0, <1>2, <1>3, <1>4, <1>5, <1>6, <1>7, <1>8, <1>9, LifecycleMoves DEF Moves

\* The facts of an item tell of each Run once, in the order of the attempts, and
\* end where the item is, through every claim, callback, sweep and recovery.
THEOREM OutboxTellsTheStory == Spec => []FactsTellTheStory
<1>1. Init => StoryInv
  <2> SUFFICES ASSUME Init, NEW t \in Task PROVE ItemStory(t)
    BY DEF StoryInv
  <2>1. facts[t] = <<>> /\ runs[t] = <<>> /\ wentOffline[t] = FALSE
    BY DEF Init
  <2>2. DOMAIN facts[t] = {} /\ Len(runs[t]) = 0
    BY <2>1, EmptySeq
  <2> QED BY <2>1, <2>2 DEF ItemStory, OneStory, InOrder
<1>2. RunInv /\ StoryInv /\ [Next]_vars => StoryInv'
  BY ItemStoryStep DEF StoryInv
<1>3. StoryInv => OneStoryPerRun /\ FactsInAttemptOrder
  BY DEF StoryInv, ItemStory, OneStoryPerRun, FactsInAttemptOrder
<1> QED BY <1>1, <1>2, <1>3, RunInvariant, OutboxFaithful, PTL DEF Spec, FactsTellTheStory

-----------------------------------------------------------------------------
(* The session an item resumes from.                                        *)

\* A fact of another type leaves the checkpoints of the item as they are.
LEMMA CheckpointsKept ==
    ASSUME TypeOK, NEW t \in Task, NEW n \in Nat, NEW type \in FactType, Told(t, type, n),
           type # "run.checkpointed"
    PROVE  /\ CheckpointFacts(t)' = CheckpointFacts(t)
           /\ \A k \in CheckpointFacts(t) : facts'[t][k] = facts[t][k]
<1> DEFINE last == Len(facts[t]) + 1
<1>1. /\ DOMAIN facts[t] = 1..Len(facts[t]) /\ Len(facts[t]) \in Nat
      /\ DOMAIN facts'[t] = 1..last
      /\ \A k \in 1..Len(facts[t]) : facts'[t][k] = facts[t][k]
      /\ facts'[t][last].type = type
  BY ToldDomain
<1>2. 1..last = 1..Len(facts[t]) \union {last}
  BY <1>1
<1> QED BY <1>1, <1>2 DEF CheckpointFacts

\* An item that keeps its session, and is told nothing of a checkpoint, resumes
\* from where it did.
LEMMA SessionKept ==
    ASSUME TypeOK, NEW t \in Task, Resumes(t), session'[t] = session[t],
           status[t] # "completed",
           \/ facts'[t] = facts[t]
           \/ \E n \in Nat, type \in FactType :
                 Told(t, type, n) /\ type # "run.checkpointed"
    PROVE  Resumes(t)'
<1>1. CheckpointFacts(t)' = CheckpointFacts(t)
      /\ \A k \in CheckpointFacts(t) : facts'[t][k] = facts[t][k]
  <2>1. CASE facts'[t] = facts[t]
    BY <2>1 DEF CheckpointFacts
  <2>2. CASE facts'[t] # facts[t]
    BY <2>2, CheckpointsKept
  <2> QED BY <2>1, <2>2
<1> QED BY <1>1 DEF Resumes

\* Every step keeps the resume point of every item.
LEMMA ResumesStep ==
    ASSUME RunInv, ResumesFromNewestCheckpoint, [Next]_vars, NEW t \in Task
    PROVE  Resumes(t)'
<1>0. TypeOK /\ Resumes(t) /\ active[t] \in Nat /\ Len(runs[t]) \in Nat /\ NoRun \in Nat
  BY FactsDomain DEF RunInv, ResumesFromNewestCheckpoint, TypeOK, NoRun
<1>1. {"work_item.rejected", "run.started", "run.failed", "run.cancelled",
       "run.retry_scheduled"} \subseteq FactType
  BY DEF FactType, ClosingFact
<1>2. CASE Unmoved(t)
  <2>1. CASE status[t] = "completed"
    BY <1>2, <2>1 DEF Unmoved, Resumes
  <2>2. CASE status[t] # "completed"
    BY <1>0, <1>2, <2>2, SessionKept DEF Unmoved
  <2> QED BY <2>1, <2>2
<1>3. CASE Arrives(t)
  BY <1>0, <1>3, SessionKept DEF Arrives
<1>4. CASE Claim(t)
  BY <1>0, <1>4, RunsAfterClaim, SessionKept
<1>5. CASE Refused(t) \/ Starts(t) \/ Withdrawn(t)
  BY <1>0, <1>1, <1>5, SessionKept DEF Refused, Starts, Withdrawn
<1>6. CASE Saves(t)
  <2> DEFINE last == Len(facts[t]) + 1
  <2>1. "run.checkpointed" \in FactType
    BY DEF FactType
  <2>2. /\ DOMAIN facts[t] = 1..Len(facts[t]) /\ Len(facts[t]) \in Nat
        /\ DOMAIN facts'[t] = 1..last
        /\ facts'[t][last].run = active[t] /\ facts'[t][last].type = "run.checkpointed"
    BY <1>0, <1>6, <2>1, ToldDomain DEF Saves
  <2>3. last \in CheckpointFacts(t)' /\ \A j \in CheckpointFacts(t)' : j <= last
    BY <2>2 DEF CheckpointFacts
  <2>4. session'[t] = facts'[t][last].run
    BY <1>6, <2>2 DEF Saves
  <2> QED BY <2>3, <2>4 DEF Resumes
<1>7. CASE Ends(t)
  <2>1. CASE Leaves(t, "completed", "completed", "run.completed")
    BY <2>1 DEF Leaves, Resumes
  <2>2. ASSUME NEW outcome, NEW next, NEW type \in {"run.failed", "run.cancelled"},
               session'[t] = session[t], Leaves(t, outcome, next, type)
        PROVE  Resumes(t)'
    BY <1>0, <1>1, <2>2, SessionKept DEF Leaves, ActiveStatus
  <2> QED BY <1>7, <2>1, <2>2 DEF Ends
<1>8. CASE Requeues(t)
  BY <1>0, <1>1, <1>8, SessionKept DEF Requeues, Leaves, ActiveStatus
<1>9. CASE Revived(t)
  BY <1>0, <1>1, <1>9, SessionKept DEF Revived
<1>10. Moves(t)
  BY LifecycleMoves DEF RunInv
<1> QED BY <1>2, <1>3, <1>4, <1>5, <1>6, <1>7, <1>8, <1>9, <1>10 DEF Moves

\* No failure, retry, recovery or late callback loses the newest checkpoint of an
\* item that has not completed.
THEOREM ResumePointKept == Spec => []ResumesFromNewestCheckpoint
<1>1. Init => ResumesFromNewestCheckpoint
  <2> SUFFICES ASSUME Init, NEW t \in Task PROVE Resumes(t)
    BY DEF ResumesFromNewestCheckpoint
  <2>1. facts[t] = <<>> /\ session[t] = NoRun
    BY DEF Init
  <2>2. CheckpointFacts(t) = {}
    BY <2>1, EmptySeq DEF CheckpointFacts
  <2> QED BY <2>1, <2>2 DEF Resumes
<1>2. RunInv /\ ResumesFromNewestCheckpoint /\ [Next]_vars => ResumesFromNewestCheckpoint'
  BY ResumesStep DEF ResumesFromNewestCheckpoint
<1> QED BY <1>1, <1>2, RunInvariant, PTL DEF Spec
=============================================================================
