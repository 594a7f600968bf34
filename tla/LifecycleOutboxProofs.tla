------------------------- MODULE LifecycleOutboxProofs -------------------------
(***************************************************************************)
(* Theorems about LifecycleOutbox for any number of facts, Runs, workers   *)
(* and projectors, any histories and any attempt limit: one worker holds a *)
(* fact, attempts at it are bounded, each of its effects is there once,    *)
(* the facts of an item are delivered in order, and readers of the rows    *)
(* see FactDelivery.                                                       *)
(*                                                                         *)
(* A worker writes nothing in a transaction, so the argument follows what  *)
(* it has done by the step it is at (RowsInv), what its token is worth     *)
(* (LeaseInv) and what a lost lease costs (AttemptInv).  The projector's   *)
(* rows rest on the rows of the worker (DerivedInv), and the order on what *)
(* a claim looked at (OrderInv).                                           *)
(***************************************************************************)
EXTENDS LifecycleOutbox, FiniteSetTheorems, TLAPS

TraceStatus == {"none", "running", "completed", "failed", "aborted"}
TraceEnd == {"completed", "failed", "aborted"}

\* A projection that goes on keeps its event and its token.
LEMMA Advance ==
    ASSUME TypeOK, NEW w \in Worker, NEW s \in Step, work[w].step \in Step, Goto(w, s)
    PROVE  /\ work[w] \in Busy /\ work[w] # Idle
           /\ work' \in [Worker -> Busy \union {Idle}]
           /\ work'[w].event = work[w].event /\ work'[w].token = work[w].token
           /\ work'[w].step = s
           /\ \A v \in Worker : v # w => work'[v] = work[v]
<1>1. Idle.step \notin Step
  BY DEF Idle, Step, ProjectingStep
<1>2. work[w] \in Busy /\ work[w] # Idle
  BY <1>1 DEF TypeOK
<1>3. [work[w] EXCEPT !.step = s] \in Busy
  BY <1>2 DEF Busy
<1>4. /\ [work[w] EXCEPT !.step = s].event = work[w].event
      /\ [work[w] EXCEPT !.step = s].token = work[w].token
      /\ [work[w] EXCEPT !.step = s].step = s
  BY <1>2 DEF Busy
<1>5. work' = [work EXCEPT ![w] = [work[w] EXCEPT !.step = s]]
  BY DEF Goto
<1> QED BY <1>2, <1>3, <1>4, <1>5 DEF TypeOK

\* The steps a projection can go to.
LEMMA StepsAre ==
    ASSUME NEW e
    PROVE  /\ StepAfterComment(e) \in {"metric", "ack"}
           /\ StepAfterTrace(e) \in {"comment", "metric", "ack"}
           /\ FirstStep(e) \in {"trace", "comment", "metric", "ack"}
           /\ {"trace", "end", "comment", "metric", "ack", "release"} = Step
           /\ TraceEndOf(e) \in TraceEnd \union {""}
BY DEF StepAfterComment, StepAfterTrace, FirstStep, Step, ProjectingStep, TraceEndOf, TraceEnd

-----------------------------------------------------------------------------
(* What a worker has done is told by the step it is at.                     *)

TraceTold(e) ==
    RunOf[e] # NoRun =>
        /\ trace[RunOf[e]] # "none"
        /\ TraceEndOf(e) # "" => trace[RunOf[e]] = TraceEndOf(e)

CommentTold(e) == CommentDue(e) => comments[e] = 1

MetricTold(e) == MetricDue(e) => metrics[RunOf[e]] = 1

Reached(w) ==
    LET e == work[w].event
        s == work[w].step
    IN  /\ s = "trace" => RunOf[e] # NoRun
        /\ s = "end" => RunOf[e] # NoRun /\ TraceEndOf(e) # "" /\ trace[RunOf[e]] # "none"
        /\ s \in {"comment", "metric", "ack"} => TraceTold(e)
        /\ s = "comment" => CommentDue(e)
        /\ s \in {"metric", "ack"} => CommentTold(e)
        /\ s = "metric" => MetricDue(e)
        /\ s = "ack" => MetricTold(e)

RowsInv ==
    /\ \A w \in Worker : Reached(w)
    /\ \A e \in Event : comments[e] <= (IF CommentDue(e) THEN 1 ELSE 0)
    /\ \A r \in Run : metrics[r] <= 1
    /\ \A e \in Event :
          state[e] = "processed" => TraceTold(e) /\ CommentTold(e) /\ MetricTold(e)

\* Every step keeps the types.
LEMMA TypeStep ==
    ASSUME TypeOK, RowsInv, [Next]_vars
    PROVE  TypeOK'
<1> USE EventAssumption DEF TypeOK, outboxVars, rowVars, derivedVars
<1>1. ASSUME NEW e \in Event, Begin(e) PROVE TypeOK'
  <2>1. IsFiniteSet({f \in Event : state[f] # "absent"})
    BY FS_Subset
  <2>2. Cardinality({f \in Event : state[f] # "absent"}) \in Nat
    BY <2>1, FS_CardinalityType
  <2> QED BY <1>1, <2>2 DEF Begin, EventState
<1>2. ASSUME NEW e \in Event, Commit(e) PROVE TypeOK'
  <2>1. IsFiniteSet({f \in Event : Committed(f)})
    BY FS_Subset
  <2>2. Cardinality({f \in Event : Committed(f)}) \in Nat
    BY <2>1, FS_CardinalityType
  <2> QED BY <1>2, <2>2 DEF Commit, EventState
<1>3. ASSUME NEW w \in Worker, NEW e \in Event, Claim(w, e) PROVE TypeOK'
  <2>1. attempts[e] + 1 \in Nat \ {0} /\ FirstStep(e) \in Step
    <3>1. FirstStep(e) \in Step
      BY ONLY StepsAre
    <3> QED BY <3>1
  <2>2. [event |-> e, token |-> attempts[e] + 1, step |-> FirstStep(e)] \in Busy
    BY <2>1 DEF Busy
  <2> QED BY <1>3, <2>1, <2>2 DEF Claim
<1>4. ASSUME NEW w \in Worker, OpenTrace(w) PROVE TypeOK'
  <2>1. PICK s \in Step : Goto(w, s)
    BY <1>4, StepsAre DEF OpenTrace
  <2>2. work[w].step \in Step
    BY <1>4 DEF OpenTrace, At, Step, ProjectingStep
  <2>3. work' \in [Worker -> Busy \union {Idle}]
    BY <2>1, <2>2, Advance
  <2> QED BY <1>4, <2>3 DEF OpenTrace
<1>5. ASSUME NEW w \in Worker, EndTrace(w) PROVE TypeOK'
  <2>1. PICK s \in Step : Goto(w, s)
    BY <1>5, StepsAre DEF EndTrace
  <2>2. work[w].step \in Step /\ TraceEndOf(work[w].event) # ""
    BY <1>5 DEF EndTrace, At, Step, ProjectingStep, RowsInv, Reached
  <2>3. work' \in [Worker -> Busy \union {Idle}]
    BY <2>1, <2>2, Advance
  <2>4. TraceEndOf(work[w].event) \in TraceEnd
    BY <2>2, StepsAre
  <2> QED BY <1>5, <2>3, <2>4 DEF EndTrace, TraceEnd
<1>6. ASSUME NEW w \in Worker, WriteComment(w) PROVE TypeOK'
  <2>1. PICK s \in Step : Goto(w, s)
    BY <1>6, StepsAre DEF WriteComment
  <2>2. work[w].step \in Step
    BY <1>6 DEF WriteComment, At, Step, ProjectingStep
  <2>3. work' \in [Worker -> Busy \union {Idle}] /\ work[w] \in Busy
    BY <2>1, <2>2, Advance
  <2> QED BY <1>6, <2>3 DEF WriteComment, Upserted, Busy
<1>7. ASSUME NEW w \in Worker, WriteMetric(w) PROVE TypeOK'
  <2>1. Goto(w, "ack") /\ "ack" \in Step
    BY <1>7, StepsAre DEF WriteMetric
  <2>2. work[w].step \in Step
    BY <1>7 DEF WriteMetric, At, Step, ProjectingStep
  <2>3. work' \in [Worker -> Busy \union {Idle}]
    BY <2>1, <2>2, Advance
  <2> QED BY <1>7, <2>3 DEF WriteMetric, InsertMetric, Upserted
<1>8. ASSUME NEW w \in Worker, ProjectionFails(w) PROVE TypeOK'
  <2>1. Goto(w, "release") /\ "release" \in Step
    BY <1>8, StepsAre DEF ProjectionFails
  <2>2. work[w].step \in Step
    <3>1. work[w].step \in ProjectingStep \/ work[w].step = FirstStep(work[w].event)
      BY <1>8 DEF ProjectionFails
    <3>2. FirstStep(work[w].event) \in Step
      BY ONLY StepsAre
    <3> QED BY <3>1, <3>2 DEF Step
  <2>3. work' \in [Worker -> Busy \union {Idle}]
    BY <2>1, <2>2, Advance
  <2> QED BY <1>8, <2>3 DEF ProjectionFails
<1>9. ASSUME NEW w \in Worker, Ack(w) PROVE TypeOK'
  BY <1>9 DEF Ack, EventState
<1>10. ASSUME NEW w \in Worker, Release(w) PROVE TypeOK'
  <2>1. state' \in [Event -> EventState] /\ lock' \in [Event -> Nat]
        /\ waiting' \in [Event -> BOOLEAN]
    <3>1. CASE Holds(w)
      <4>1. PICK s \in EventState : state' = [state EXCEPT ![work[w].event] = s]
        <5>1. (IF attempts[work[w].event] >= MaxAttempts THEN "dead" ELSE "pending")
                 \in EventState
          BY DEF EventState
        <5> QED BY <1>10, <3>1, <5>1 DEF Release
      <4>2. state' \in [Event -> EventState]
        BY <4>1
      <4>3. lock' \in [Event -> Nat] /\ waiting' \in [Event -> BOOLEAN]
        <5>1. /\ lock' = [lock EXCEPT ![work[w].event] = 0]
              /\ waiting' = [waiting EXCEPT ![work[w].event] = TRUE]
          BY <1>10, <3>1 DEF Release
        <5> QED BY <5>1
      <4> QED BY <4>2, <4>3
    <3>2. CASE ~Holds(w)
      BY <1>10, <3>2 DEF Release
    <3> QED BY <3>1, <3>2
  <2>2. work' \in [Worker -> Busy \union {Idle}]
    BY <1>10 DEF Release
  <2> QED BY <1>10, <2>1, <2>2 DEF Release
<1>11. ASSUME NEW w \in Worker, Crash(w) PROVE TypeOK'
  BY <1>11 DEF Crash
<1>12. ASSUME NEW e \in Event, LeaseEnds(e) \/ BackoffEnds(e) \/ DerivedBackoffEnds(e)
       PROVE  TypeOK'
  BY <1>12, ZenonT(60) DEF LeaseEnds, BackoffEnds, DerivedBackoffEnds
<1>13. ASSUME NEW p \in Projector, NEW e \in Event, DerivedClaim(p, e) PROVE TypeOK'
  BY <1>13 DEF DerivedClaim
<1>14. ASSUME NEW p \in Projector, DerivedApply(p) PROVE TypeOK'
  BY <1>14 DEF DerivedApply, CreateInboxItem, CreateActivity, Upserted
<1>15. ASSUME NEW p \in Projector, DerivedFails(p) \/ DerivedCrash(p) PROVE TypeOK'
  <2>1. CASE DerivedFails(p)
    <3>1. (tries[looking[p]] + 1 >= MaxAttempts) \in BOOLEAN
      OBVIOUS
    <3>2. dropped' \in [Event -> BOOLEAN]
      BY <2>1, <3>1 DEF DerivedFails
    <3>3. tries' \in [Event -> Nat] /\ paused' \in [Event -> BOOLEAN]
          /\ looking' \in [Projector -> Event \union {NoEvent}]
      BY <2>1 DEF DerivedFails
    <3> QED BY <2>1, <3>2, <3>3 DEF DerivedFails
  <2>2. CASE DerivedCrash(p)
    BY <2>2 DEF DerivedCrash
  <2> QED BY <1>15, <2>1, <2>2
<1>16. CASE UNCHANGED vars
  BY <1>16 DEF vars
<1> QED
  BY <1>1, <1>2, <1>3, <1>4, <1>5, <1>6, <1>7, <1>8, <1>9, <1>10, <1>11, <1>12, <1>13,
     <1>14, <1>15, <1>16 DEF Next, Project, Derive
-----------------------------------------------------------------------------
(* The rows of the core worker.                                             *)

\* The statements of a projection, none of which touches the outbox.
Projects(w) ==
    OpenTrace(w) \/ EndTrace(w) \/ WriteComment(w) \/ WriteMetric(w) \/ ProjectionFails(w)

\* No step takes back what a row says: a trace that began does not go, one that
\* ended keeps its end, and no comment or metric is removed.
RowsGrow ==
    /\ \A r \in Run : /\ trace[r] # "none" => trace'[r] # "none"
                      /\ trace[r] \in TraceEnd => trace'[r] = trace[r]
                      /\ metrics[r] = 1 => metrics'[r] = 1
    /\ \A e \in Event : comments[e] = 1 => comments'[e] = 1
    /\ type' = type

LEMMA RowsGrowStep ==
    ASSUME TypeOK, RowsInv, [Next]_vars
    PROVE  RowsGrow
<1> USE DEF RowsGrow, TypeOK, outboxVars, rowVars, derivedVars
<1>1. ASSUME NEW w \in Worker, OpenTrace(w) PROVE RowsGrow
  <2>1. \A r \in Run : trace[r] # "none" => trace'[r] = trace[r]
    BY <1>1 DEF OpenTrace
  <2>2. UNCHANGED <<type, comments, metrics>>
    BY <1>1 DEF OpenTrace
  <2> QED BY <2>1, <2>2 DEF TraceEnd
<1>2. ASSUME NEW w \in Worker, EndTrace(w) PROVE RowsGrow
  <2>1. TraceEndOf(work[w].event) \in TraceEnd
    BY <1>2, StepsAre DEF EndTrace, At, RowsInv, Reached
  <2> QED BY <1>2, <2>1 DEF EndTrace, TraceEnd
<1>3. ASSUME NEW w \in Worker, WriteComment(w) PROVE RowsGrow
  BY <1>3 DEF WriteComment, Upserted
<1>4. ASSUME NEW w \in Worker, WriteMetric(w) PROVE RowsGrow
  BY <1>4 DEF WriteMetric, InsertMetric, Upserted
<1>5. CASE UNCHANGED <<type, rowVars>>
  BY <1>5
<1>6. \/ \E w \in Worker : OpenTrace(w) \/ EndTrace(w) \/ WriteComment(w) \/ WriteMetric(w)
      \/ UNCHANGED <<type, rowVars>>
  BY DEF Next, Project, Derive, ProjectionFails, Begin, Commit, Claim, Ack, Release, Crash,
         LeaseEnds, BackoffEnds, DerivedClaim, DerivedApply, DerivedFails, DerivedCrash,
         DerivedBackoffEnds, vars
<1> QED BY <1>1, <1>2, <1>3, <1>4, <1>5, <1>6

\* What was told stays told.
LEMMA ToldStays ==
    ASSUME TypeOK, RowsGrow, NEW e \in Event
    PROVE  /\ TraceTold(e) => TraceTold(e)'
           /\ CommentTold(e) => CommentTold(e)'
           /\ MetricTold(e) => MetricTold(e)'
           /\ CommentDue(e)' = CommentDue(e) /\ MetricDue(e)' = MetricDue(e)
           /\ TraceEndOf(e)' = TraceEndOf(e)
<1>1. RunOf[e] \in Run \union {NoRun}
  BY EventAssumption
<1>2. /\ CommentDue(e)' = CommentDue(e) /\ MetricDue(e)' = MetricDue(e)
      /\ TraceEndOf(e)' = TraceEndOf(e)
  BY DEF RowsGrow, CommentDue, MetricDue, TraceEndOf
<1>3. TraceTold(e) => TraceTold(e)'
  <2>1. TraceEndOf(e) \in TraceEnd \union {""}
    BY StepsAre
  <2> QED BY <1>1, <1>2, <2>1 DEF RowsGrow, TraceTold
<1>4. MetricTold(e) => MetricTold(e)'
  <2>1. MetricDue(e) => RunOf[e] # NoRun
    BY DEF MetricDue
  <2> QED BY <1>1, <1>2, <2>1 DEF RowsGrow, MetricTold
<1>5. CommentTold(e) => CommentTold(e)'
  BY <1>2 DEF RowsGrow, CommentTold
<1> QED BY <1>2, <1>3, <1>4, <1>5

\* A worker that stays where it is has still reached it.
LEMMA ReachedStays ==
    ASSUME TypeOK, RowsGrow, NEW w \in Worker, Reached(w), work'[w] = work[w]
    PROVE  Reached(w)'
<1>1. CASE work[w] = Idle
  BY <1>1 DEF Reached, Idle
<1>2. CASE work[w] # Idle
  <2>1. work[w].event \in Event
    BY <1>2 DEF TypeOK, Busy
  <2>2. RunOf[work[w].event] \in Run \union {NoRun}
    BY <2>1, EventAssumption
  <2>3. RunOf[work[w].event] # NoRun /\ trace[RunOf[work[w].event]] # "none"
           => trace'[RunOf[work[w].event]] # "none"
    BY <2>2 DEF RowsGrow
  <2> DEFINE e == work[w].event
             s == work[w].step
  <2>4. PICK d \in Event : d = e
    BY <2>1
  <2>5. /\ TraceTold(d) => TraceTold(d)'
        /\ CommentTold(d) => CommentTold(d)'
        /\ MetricTold(d) => MetricTold(d)'
        /\ CommentDue(d)' = CommentDue(d) /\ MetricDue(d)' = MetricDue(d)
        /\ TraceEndOf(d)' = TraceEndOf(d)
    BY ToldStays
  <2>6. work'[w].event = d /\ work'[w].step = s
    BY <2>4
  <2> QED BY <2>3, <2>4, <2>5, <2>6 DEF Reached
<1> QED BY <1>1, <1>2

\* Where a projection goes after the trace, and after the comment, is told by what
\* the event has to do.
LEMMA AfterTrace ==
    ASSUME NEW e \in Event
    PROVE  /\ StepAfterComment(e) = "metric" => MetricDue(e)
           /\ StepAfterComment(e) = "ack" => MetricTold(e)
           /\ StepAfterTrace(e) = "comment" => CommentDue(e)
           /\ StepAfterTrace(e) # "comment" =>
                 StepAfterTrace(e) = StepAfterComment(e) /\ CommentTold(e)
           /\ FirstStep(e) = "trace" => RunOf[e] # NoRun
           /\ FirstStep(e) # "trace" => FirstStep(e) = StepAfterTrace(e) /\ TraceTold(e)
BY DEF StepAfterComment, StepAfterTrace, FirstStep, MetricTold, CommentTold, TraceTold
\* A worker that goes on has reached where it goes.
LEMMA ReachedAdvances ==
    ASSUME TypeOK, RowsInv, RowsGrow, NEW w \in Worker, NEW e \in Event,
           work[w].event = e, work'[w].event = e,
           NEW s, work'[w].step = s,
           \/ s = "release"
           \/ s = "end" /\ RunOf[e] # NoRun /\ TraceEndOf(e) # "" /\ trace'[RunOf[e]] # "none"
           \/ s = StepAfterTrace(e) /\ TraceTold(e)'
           \/ s = StepAfterComment(e) /\ TraceTold(e)' /\ CommentTold(e)'
           \/ s = "ack" /\ TraceTold(e)' /\ CommentTold(e)' /\ MetricTold(e)'
    PROVE  Reached(w)'
<1>1. /\ CommentTold(e) => CommentTold(e)'
      /\ MetricTold(e) => MetricTold(e)'
      /\ CommentDue(e)' = CommentDue(e) /\ MetricDue(e)' = MetricDue(e)
      /\ TraceEndOf(e)' = TraceEndOf(e)
  BY ToldStays
<1>2. StepAfterComment(e) \in {"metric", "ack"} /\ StepAfterTrace(e) \in {"comment", "metric", "ack"}
  BY StepsAre
<1>3. Reached(w)' =
        /\ s = "trace" => RunOf[e] # NoRun
        /\ s = "end" => RunOf[e] # NoRun /\ TraceEndOf(e)' # "" /\ trace'[RunOf[e]] # "none"
        /\ s \in {"comment", "metric", "ack"} => TraceTold(e)'
        /\ s = "comment" => CommentDue(e)'
        /\ s \in {"metric", "ack"} => CommentTold(e)'
        /\ s = "metric" => MetricDue(e)'
        /\ s = "ack" => MetricTold(e)'
  BY DEF Reached
<1>4. CASE s = "release"
  BY <1>3, <1>4
<1>5. CASE s = "end" /\ RunOf[e] # NoRun /\ TraceEndOf(e) # "" /\ trace'[RunOf[e]] # "none"
  BY <1>1, <1>3, <1>5
<1>6. CASE s = StepAfterComment(e) /\ TraceTold(e)' /\ CommentTold(e)'
  BY <1>1, <1>2, <1>3, <1>6, AfterTrace
<1>7. CASE s = StepAfterTrace(e) /\ TraceTold(e)'
  <2>1. CASE s = "comment"
    BY <1>1, <1>3, <1>7, <2>1, AfterTrace
  <2>2. CASE s # "comment"
    BY <1>1, <1>6, <1>7, <2>2, AfterTrace
  <2> QED BY <2>1, <2>2
<1>8. CASE s = "ack" /\ TraceTold(e)' /\ CommentTold(e)' /\ MetricTold(e)'
  BY <1>3, <1>8
<1> QED BY <1>4, <1>5, <1>6, <1>7, <1>8

\* Every step of a projection: the worker has reached where it goes.
LEMMA ReachedStep ==
    ASSUME TypeOK, RowsInv, RowsGrow, NEW w \in Worker, Projects(w)
    PROVE  Reached(w)'
<1> DEFINE d == work[w].event
<1>0. work[w] # Idle /\ work[w] \in Busy /\ d \in Event
  <2>1. work[w].step \in Step
    BY StepsAre DEF Projects, OpenTrace, EndTrace, WriteComment, WriteMetric, ProjectionFails,
                    At, Step, ProjectingStep
  <2>2. "idle" \notin Step
    BY DEF Step, ProjectingStep
  <2>3. work[w] # Idle
    BY <2>1, <2>2 DEF Idle
  <2> QED BY <2>3 DEF TypeOK, Busy
<1>1. PICK e \in Event : e = d
  BY <1>0
<1>2. RunOf[e] \in Run \union {NoRun} /\ Reached(w)
  BY EventAssumption DEF RowsInv
<1>3. ASSUME NEW s, Goto(w, s)
      PROVE  work'[w].event = e /\ work'[w].step = s
  <2>1. work' = [work EXCEPT ![w] = [work[w] EXCEPT !.step = s]]
    BY <1>3 DEF Goto
  <2>2. [work[w] EXCEPT !.step = s].event = e /\ [work[w] EXCEPT !.step = s].step = s
    BY <1>0, <1>1 DEF Busy
  <2> QED BY <2>1, <2>2 DEF TypeOK
<1>4. ASSUME TraceTold(e) PROVE TraceTold(e)'
  BY <1>4, ToldStays
<1>5. ASSUME CommentTold(e) PROVE CommentTold(e)'
  BY <1>5, ToldStays
<1>6. TraceEndOf(e)' = TraceEndOf(e) /\ CommentDue(e)' = CommentDue(e)
      /\ MetricDue(e)' = MetricDue(e)
  BY ToldStays
<1>7. CASE OpenTrace(w)
  <2> DEFINE seen == IF trace[RunOf[e]] = "none" THEN "running" ELSE trace[RunOf[e]]
  <2>1. RunOf[e] # NoRun /\ RunOf[e] \in Run
    BY <1>1, <1>2, <1>7 DEF OpenTrace, At, Reached
  <2>2. trace'[RunOf[e]] = seen /\ seen # "none"
    BY <1>1, <1>7, <2>1 DEF OpenTrace, TypeOK
  <2>3. CASE TraceEndOf(e) \in {"", seen}
    <3>1. TraceTold(e)'
      BY <1>6, <2>1, <2>2, <2>3 DEF TraceTold
    <3>2. Goto(w, StepAfterTrace(e))
      BY <1>1, <1>7, <2>3 DEF OpenTrace
    <3>3. work'[w].event = e /\ work'[w].step = StepAfterTrace(e)
      BY <1>3, <3>2
    <3> QED BY <1>1, <3>1, <3>3, ReachedAdvances
  <2>4. CASE TraceEndOf(e) \notin {"", seen}
    <3>1. Goto(w, "end")
      BY <1>1, <1>7, <2>4 DEF OpenTrace
    <3>2. work'[w].event = e /\ work'[w].step = "end"
      BY <1>3, <3>1
    <3>3. TraceEndOf(e) # "" /\ trace'[RunOf[e]] # "none"
      BY <2>2, <2>4
    <3> QED BY <1>1, <2>1, <3>2, <3>3, ReachedAdvances
  <2> QED BY <2>3, <2>4
<1>8. CASE EndTrace(w)
  <2>1. RunOf[e] \in Run /\ RunOf[e] # NoRun
    BY <1>1, <1>2, <1>8 DEF EndTrace, At, Reached
  <2>2. CASE trace[RunOf[e]] = "running"
    <3>1. trace'[RunOf[e]] = TraceEndOf(e) /\ Goto(w, StepAfterTrace(e))
      BY <1>1, <1>8, <2>1, <2>2 DEF EndTrace, TypeOK
    <3>2. TraceTold(e)'
      <4>1. TraceEndOf(e) # "none"
        BY StepsAre DEF TraceEnd
      <4> QED BY <1>6, <3>1, <4>1 DEF TraceTold
    <3>3. work'[w].event = e /\ work'[w].step = StepAfterTrace(e)
      BY <1>3, <3>1
    <3> QED BY <1>1, <3>2, <3>3, ReachedAdvances
  <2>3. CASE trace[RunOf[e]] # "running"
    <3>1. Goto(w, "release")
      BY <1>1, <1>8, <2>3 DEF EndTrace
    <3>2. work'[w].event = e /\ work'[w].step = "release"
      BY <1>3, <3>1
    <3> QED BY <1>1, <3>2, ReachedAdvances
  <2> QED BY <2>2, <2>3
<1>9. CASE WriteComment(w)
  <2>1. comments[e] \in Nat /\ comments[e] <= 1 /\ TraceTold(e)
    BY <1>1, <1>2, <1>9 DEF WriteComment, At, Reached, RowsInv, TypeOK
  <2>2. comments'[e] = 1
    BY <1>1, <1>9, <2>1 DEF WriteComment, Upserted, TypeOK
  <2>3. CommentTold(e)'
    BY <2>2 DEF CommentTold
  <2>4. work'[w].event = e /\ work'[w].step = StepAfterComment(e)
    BY <1>1, <1>3, <1>9 DEF WriteComment
  <2> QED BY <1>1, <1>4, <2>1, <2>3, <2>4, ReachedAdvances
<1>10. CASE WriteMetric(w)
  <2>1. MetricDue(e) /\ TraceTold(e) /\ CommentTold(e)
    BY <1>1, <1>2, <1>10 DEF WriteMetric, At, Reached
  <2>2. RunOf[e] \in Run
    BY <1>2, <2>1 DEF MetricDue
  <2>3. metrics[RunOf[e]] \in Nat /\ metrics[RunOf[e]] <= 1
    BY <2>2 DEF RowsInv, TypeOK
  <2>4. metrics'[RunOf[e]] = 1
    BY <1>1, <1>10, <2>2, <2>3 DEF WriteMetric, InsertMetric, Upserted, TypeOK
  <2>5. MetricTold(e)'
    BY <2>4 DEF MetricTold
  <2>6. work'[w].event = e /\ work'[w].step = "ack"
    BY <1>3, <1>10 DEF WriteMetric
  <2> QED BY <1>1, <1>4, <1>5, <2>1, <2>5, <2>6, ReachedAdvances
<1>11. CASE ProjectionFails(w)
  <2>1. work'[w].event = e /\ work'[w].step = "release"
    BY <1>3, <1>11 DEF ProjectionFails
  <2> QED BY <1>1, <2>1, ReachedAdvances
<1> QED BY <1>7, <1>8, <1>9, <1>10, <1>11 DEF Projects
\* What a step can do to one worker.
LEMMA WorkMoves ==
    ASSUME TypeOK, [Next]_vars, NEW v \in Worker
    PROVE  \/ work'[v] = work[v]
           \/ Projects(v)
           \/ work'[v] = Idle
           \/ \E e \in Event : Claim(v, e)
<1> USE DEF TypeOK
<1>1. ASSUME NEW w \in Worker, NEW e \in Event, Claim(w, e), w # v
      PROVE  work'[v] = work[v]
  BY <1>1 DEF Claim
<1>2. ASSUME NEW w \in Worker, Projects(w), w # v
      PROVE  work'[v] = work[v]
  BY <1>2 DEF Projects, OpenTrace, EndTrace, WriteComment, WriteMetric, ProjectionFails, Goto
<1>3. ASSUME NEW w \in Worker, Ack(w) \/ Release(w) \/ Crash(w)
      PROVE  work'[v] = IF w = v THEN Idle ELSE work[v]
  BY <1>3 DEF Ack, Release, Crash
<1>4. CASE UNCHANGED work
  BY <1>4
<1>5. \/ \E w \in Worker, e \in Event : Claim(w, e)
      \/ \E w \in Worker : Projects(w) \/ Ack(w) \/ Release(w) \/ Crash(w)
      \/ UNCHANGED work
  BY DEF Next, Project, Projects, Derive, Begin, Commit, LeaseEnds, BackoffEnds, DerivedClaim,
         DerivedApply, DerivedFails, DerivedCrash, DerivedBackoffEnds, vars
<1> QED BY <1>1, <1>2, <1>3, <1>4, <1>5

\* An event becomes processed only by the acknowledgement of a worker that holds it.
LEMMA ProcessedByAck ==
    ASSUME TypeOK, [Next]_vars, NEW e \in Event, state'[e] = "processed", state[e] # "processed"
    PROVE  \E w \in Worker : Ack(w) /\ Holds(w) /\ work[w].event = e
<1> USE DEF TypeOK
<1>1. ASSUME NEW w \in Worker, Ack(w) PROVE Holds(w) /\ work[w].event = e
  BY <1>1 DEF Ack
<1>2. ASSUME NEW w \in Worker, Release(w) PROVE FALSE
  <2>1. Holds(w) /\ work[w].event = e
    BY <1>2 DEF Release
  <2>2. state'[e] = IF attempts[e] >= MaxAttempts THEN "dead" ELSE "pending"
    BY <1>2, <2>1 DEF Release
  <2> QED BY <2>2
<1>3. ASSUME NEW f \in Event, Begin(f) \/ Commit(f) PROVE FALSE
  BY <1>3 DEF Begin, Commit
<1>4. \/ \E w \in Worker : Ack(w) \/ Release(w)
      \/ \E f \in Event : Begin(f) \/ Commit(f)
      \/ UNCHANGED state
  BY DEF Next, Project, Derive, Claim, OpenTrace, EndTrace, WriteComment, WriteMetric,
         ProjectionFails, Crash, LeaseEnds, BackoffEnds, DerivedClaim, DerivedApply, DerivedFails,
         DerivedCrash, DerivedBackoffEnds, vars, outboxVars
<1> QED BY <1>1, <1>2, <1>3, <1>4

LEMMA RowsInvStep ==
    ASSUME TypeOK, RowsInv, [Next]_vars
    PROVE  RowsInv'
<1>0. RowsGrow
  BY RowsGrowStep
<1>1. ASSUME NEW v \in Worker PROVE Reached(v)'
  <2>1. CASE work'[v] = work[v]
    BY <1>0, <2>1, ReachedStays DEF RowsInv
  <2>2. CASE Projects(v)
    BY <1>0, <2>2, ReachedStep
  <2>3. CASE work'[v] = Idle
    BY <2>3 DEF Reached, Idle
  <2>4. ASSUME NEW e \in Event, Claim(v, e) PROVE Reached(v)'
    <3>1. work'[v] = [event |-> e, token |-> attempts[e] + 1, step |-> FirstStep(e)]
      BY <2>4 DEF Claim, TypeOK
    <3>2. work'[v].event = e /\ work'[v].step = FirstStep(e)
      BY <3>1
    <3>3. UNCHANGED <<type, trace, comments, metrics>>
      BY <2>4 DEF Claim, rowVars
    <3>4. /\ CommentDue(e)' = CommentDue(e) /\ MetricDue(e)' = MetricDue(e)
          /\ TraceTold(e)' = TraceTold(e) /\ CommentTold(e)' = CommentTold(e)
          /\ MetricTold(e)' = MetricTold(e)
      BY <3>3 DEF CommentDue, MetricDue, TraceTold, CommentTold, MetricTold, TraceEndOf
    <3>5. FirstStep(e) \in {"trace", "comment", "metric", "ack"}
      BY StepsAre
    <3>6. /\ FirstStep(e) = "trace" => RunOf[e] # NoRun
          /\ FirstStep(e) \in {"comment", "metric", "ack"} => TraceTold(e)
          /\ FirstStep(e) = "comment" => CommentDue(e)
          /\ FirstStep(e) \in {"metric", "ack"} => CommentTold(e)
          /\ FirstStep(e) = "metric" => MetricDue(e)
          /\ FirstStep(e) = "ack" => MetricTold(e)
      BY AfterTrace
    <3> QED BY <3>2, <3>4, <3>5, <3>6 DEF Reached
  <2> QED BY <2>1, <2>2, <2>3, <2>4, WorkMoves
<1>2. ASSUME NEW e \in Event
      PROVE  comments'[e] <= (IF CommentDue(e)' THEN 1 ELSE 0)
  <2>0. CommentDue(e)' = CommentDue(e) /\ comments[e] <= (IF CommentDue(e) THEN 1 ELSE 0)
    BY <1>0, ToldStays DEF RowsInv
  <2>1. ASSUME NEW w \in Worker, WriteComment(w)
        PROVE  comments'[e] <= (IF CommentDue(e) THEN 1 ELSE 0)
    <3>1. CommentDue(work[w].event)
      BY <2>1 DEF WriteComment, At, RowsInv, Reached
    <3>2. comments'[e] = IF e = work[w].event THEN Upserted(comments[e]) ELSE comments[e]
      BY <2>1 DEF WriteComment, TypeOK
    <3> QED BY <2>0, <3>1, <3>2 DEF Upserted, TypeOK
  <2>2. (\E w \in Worker : WriteComment(w)) \/ UNCHANGED comments
    BY DEF Next, Project, Derive, OpenTrace, EndTrace, WriteMetric, ProjectionFails, Begin,
           Commit, Claim, Ack, Release, Crash, LeaseEnds, BackoffEnds, DerivedClaim, DerivedApply,
           DerivedFails, DerivedCrash, DerivedBackoffEnds, vars, rowVars
  <2> QED BY <2>0, <2>1, <2>2
<1>3. ASSUME NEW r \in Run PROVE metrics'[r] <= 1
  <2>1. ASSUME NEW w \in Worker, WriteMetric(w) PROVE metrics'[r] <= 1
    BY <2>1 DEF WriteMetric, InsertMetric, Upserted, TypeOK, RowsInv
  <2>2. (\E w \in Worker : WriteMetric(w)) \/ UNCHANGED metrics
    BY DEF Next, Project, Derive, OpenTrace, EndTrace, WriteComment, ProjectionFails, Begin,
           Commit, Claim, Ack, Release, Crash, LeaseEnds, BackoffEnds, DerivedClaim, DerivedApply,
           DerivedFails, DerivedCrash, DerivedBackoffEnds, vars, rowVars
  <2> QED BY <2>1, <2>2 DEF RowsInv
<1>4. ASSUME NEW e \in Event, state'[e] = "processed"
      PROVE  TraceTold(e)' /\ CommentTold(e)' /\ MetricTold(e)'
  <2>1. TraceTold(e) /\ CommentTold(e) /\ MetricTold(e)
    <3>1. CASE state[e] = "processed"
      BY <3>1 DEF RowsInv
    <3>2. CASE state[e] # "processed"
      <4>1. PICK w \in Worker : Ack(w) /\ Holds(w) /\ work[w].event = e
        BY <1>4, <3>2, ProcessedByAck
      <4> QED BY <4>1 DEF Ack, At, RowsInv, Reached
    <3> QED BY <3>1, <3>2
  <2> QED BY <1>0, <2>1, ToldStays
<1> QED BY <1>1, <1>2, <1>3, <1>4 DEF RowsInv

LEMMA RowsTell == RowsInv => ProjectedOnce
BY DEF RowsInv, ProjectedOnce, TraceTold, CommentTold, MetricTold
-----------------------------------------------------------------------------
(* Tokens: each claim of an event draws a new one, so only the newest can    *)
(* match the row.                                                            *)

AtWork(w) == work[w] # Idle

LeaseInv ==
    /\ \A e \in Event : /\ lock[e] <= attempts[e]
                        /\ lock[e] # 0 => state[e] = "pending"
                        /\ state[e] \in {"absent", "open"} => attempts[e] = 0
    /\ \A w \in Worker : AtWork(w) => work[w].token <= attempts[work[w].event]
    /\ \A v, w \in Worker :
          v # w /\ AtWork(v) /\ AtWork(w) /\ work[v].event = work[w].event
             => work[v].token # work[w].token

\* A worker at work has an event and a token.
LEMMA WorkerAtWork ==
    ASSUME TypeOK, NEW w \in Worker
    PROVE  /\ AtWork(w) => work[w].event \in Event /\ work[w].token \in Nat \ {0}
           /\ AtWork(w) <=> work[w].event # NoEvent
<1>1. work[w] \in Busy \union {Idle}
  BY DEF TypeOK
<1>2. Idle.event = NoEvent
  BY DEF Idle
<1> QED BY <1>1, <1>2, EventAssumption DEF AtWork, Busy

\* A projection keeps them.
LEMMA ProjectsKeeps ==
    ASSUME TypeOK, NEW w \in Worker, Projects(w)
    PROVE  /\ AtWork(w)
           /\ work'[w].event = work[w].event /\ work'[w].token = work[w].token
           /\ UNCHANGED <<outboxVars, derivedVars, crashes>>
           /\ \A v \in Worker : v # w => work'[v] = work[v]
<1>1. work[w].step \in Step
  BY StepsAre DEF Projects, OpenTrace, EndTrace, WriteComment, WriteMetric, ProjectionFails,
                  At, Step, ProjectingStep
<1>2. PICK s \in Step : Goto(w, s)
  BY StepsAre DEF Projects, OpenTrace, EndTrace, WriteComment, WriteMetric, ProjectionFails
<1>3. UNCHANGED <<outboxVars, derivedVars, crashes>>
  BY DEF Projects, OpenTrace, EndTrace, WriteComment, WriteMetric, ProjectionFails
<1> QED BY <1>1, <1>2, <1>3, Advance DEF AtWork

\* What a step can do to the row of one event.
Begins(e) == state[e] = "absent" /\ state'[e] = "open" /\ lock'[e] = lock[e]
             /\ attempts'[e] = attempts[e]

Commits(e) == Commit(e) /\ state[e] = "open" /\ state'[e] = "pending"
              /\ lock'[e] = lock[e] /\ attempts'[e] = attempts[e]

IsClaimed(e) ==
    /\ state[e] = "pending" /\ state'[e] = "pending"
    /\ attempts'[e] = attempts[e] + 1 /\ lock'[e] = attempts[e] + 1
    /\ fresh'[e] = TRUE
    /\ lock[e] = 0 \/ ~fresh[e]

IsLetGo(e) ==
    /\ lock[e] # 0 /\ lock'[e] = 0 /\ attempts'[e] = attempts[e]
    /\ \/ state'[e] \in {"processed", "dead"}
       \/ state'[e] = "pending" /\ attempts[e] < MaxAttempts

Stays(e) == state'[e] = state[e] /\ lock'[e] = lock[e] /\ attempts'[e] = attempts[e]

LEMMA RowMoves ==
    ASSUME TypeOK, [Next]_vars, NEW e \in Event
    PROVE  Begins(e) \/ Commits(e) \/ IsClaimed(e) \/ IsLetGo(e) \/ Stays(e)
<1> USE EventAssumption DEF TypeOK
<1>1. ASSUME NEW f \in Event, Begin(f) PROVE Begins(e) \/ Stays(e)
  BY <1>1 DEF Begin, Begins, Stays
<1>2. ASSUME NEW f \in Event, Commit(f) PROVE Commits(e) \/ Stays(e)
  BY <1>2 DEF Commit, Commits, Stays
<1>3. ASSUME NEW w \in Worker, NEW f \in Event, Claim(w, f) PROVE IsClaimed(e) \/ Stays(e)
  BY <1>3 DEF Claim, Claimable, IsClaimed, Stays
<1>4. ASSUME NEW w \in Worker, Ack(w) PROVE IsLetGo(e) \/ Stays(e)
  <2>1. CASE Holds(w) /\ work[w].event = e
    <3>1. lock[e] # 0
      BY <2>1, WorkerAtWork DEF Holds
    <3> QED BY <1>4, <2>1, <3>1 DEF Ack, IsLetGo
  <2>2. CASE ~(Holds(w) /\ work[w].event = e)
    BY <1>4, <2>2 DEF Ack, Stays
  <2> QED BY <2>1, <2>2
<1>5. ASSUME NEW w \in Worker, Release(w) PROVE IsLetGo(e) \/ Stays(e)
  <2>1. CASE Holds(w) /\ work[w].event = e
    <3>1. lock[e] # 0
      BY <2>1, WorkerAtWork DEF Holds
    <3>2. lock'[e] = 0 /\ attempts' = attempts
      BY <1>5, <2>1 DEF Release
    <3>3. state'[e] = IF attempts[e] >= MaxAttempts THEN "dead" ELSE "pending"
      BY <1>5, <2>1 DEF Release
    <3>4. attempts[e] \in Nat /\ MaxAttempts \in Nat
      OBVIOUS
    <3> QED BY ONLY <3>1, <3>2, <3>3, <3>4 DEF IsLetGo
  <2>2. CASE ~(Holds(w) /\ work[w].event = e)
    <3>1. state'[e] = state[e] /\ lock'[e] = lock[e] /\ attempts' = attempts
      <4>1. CASE Holds(w)
        <5>1. work[w].event # e
          BY <2>2, <4>1
        <5>2. /\ attempts' = attempts
              /\ lock' = [lock EXCEPT ![work[w].event] = 0]
              /\ \E s : state' = [state EXCEPT ![work[w].event] = s]
          BY <1>5, <4>1 DEF Release
        <5> QED BY <5>1, <5>2
      <4>2. CASE ~Holds(w)
        BY <1>5, <4>2 DEF Release
      <4> QED BY <4>1, <4>2
    <3> QED BY <3>1 DEF Stays
  <2> QED BY <2>1, <2>2
<1>6. CASE UNCHANGED <<state, lock, attempts>>
  BY <1>6 DEF Stays
<1>7. \/ \E f \in Event : Begin(f) \/ Commit(f)
      \/ \E w \in Worker, f \in Event : Claim(w, f)
      \/ \E w \in Worker : Ack(w) \/ Release(w)
      \/ UNCHANGED <<state, lock, attempts>>
  BY DEF Next, Project, Derive, OpenTrace, EndTrace, WriteComment, WriteMetric,
         ProjectionFails, Crash, LeaseEnds, BackoffEnds, DerivedClaim, DerivedApply, DerivedFails,
         DerivedCrash, DerivedBackoffEnds, vars, outboxVars
<1> QED BY <1>1, <1>2, <1>3, <1>4, <1>5, <1>6, <1>7

LEMMA LeaseInvStep ==
    ASSUME TypeOK, TypeOK', LeaseInv, [Next]_vars
    PROVE  LeaseInv'
<1>1. \A e \in Event : attempts[e] \in Nat /\ attempts'[e] \in Nat
                       /\ lock[e] \in Nat /\ attempts[e] <= attempts'[e]
  <2> TAKE e \in Event
  <2>1. attempts[e] \in Nat /\ attempts'[e] \in Nat /\ lock[e] \in Nat
    BY DEF TypeOK
  <2>2. attempts'[e] \in {attempts[e], attempts[e] + 1}
    BY RowMoves DEF Begins, Commits, IsClaimed, IsLetGo, Stays
  <2> QED BY <2>1, <2>2
<1>2. ASSUME NEW e \in Event
      PROVE  /\ lock'[e] <= attempts'[e]
             /\ lock'[e] # 0 => state'[e] = "pending"
             /\ state'[e] \in {"absent", "open"} => attempts'[e] = 0
  <2>1. /\ lock[e] <= attempts[e]
        /\ lock[e] # 0 => state[e] = "pending"
        /\ state[e] \in {"absent", "open"} => attempts[e] = 0
    BY DEF LeaseInv
  <2>2. attempts[e] \in Nat /\ lock[e] \in Nat /\ 0 \notin {attempts[e] + 1}
    BY <1>1
  <2>3. CASE Begins(e) \/ Commits(e)
    BY <2>1, <2>3 DEF Begins, Commits
  <2>4. CASE IsClaimed(e)
    BY <2>2, <2>4 DEF IsClaimed
  <2>5. CASE IsLetGo(e)
    <3>1. state'[e] \notin {"absent", "open"}
      BY <2>5 DEF IsLetGo
    <3> QED BY <2>2, <2>5, <3>1 DEF IsLetGo
  <2>6. CASE Stays(e)
    BY <2>1, <2>6 DEF Stays
  <2> QED BY <2>3, <2>4, <2>5, <2>6, RowMoves
\* A worker at work was at work on the same lease, or has just claimed the event.
<1>3. ASSUME NEW v \in Worker, work'[v] # Idle
      PROVE  \/ /\ AtWork(v) /\ work'[v].event = work[v].event
                /\ work'[v].token = work[v].token
             \/ \E e \in Event : Claim(v, e)
  BY <1>3, WorkMoves, ProjectsKeeps DEF AtWork
<1>4. ASSUME NEW v \in Worker, NEW e \in Event, Claim(v, e)
      PROVE  /\ work'[v].event = e /\ work'[v].token = attempts[e] + 1
             /\ attempts'[e] = attempts[e] + 1
             /\ \A w \in Worker : w # v => work'[w] = work[w]
  <2>1. work'[v] = [event |-> e, token |-> attempts[e] + 1, step |-> FirstStep(e)]
    BY <1>4 DEF Claim, TypeOK
  <2> QED BY <1>4, <2>1 DEF Claim, TypeOK
<1>5. ASSUME NEW w \in Worker, work'[w] # Idle
      PROVE  work'[w].token <= attempts'[work'[w].event]
  <2>1. CASE \E e \in Event : Claim(w, e)
    BY <1>1, <1>4, <2>1
  <2>2. CASE AtWork(w) /\ work'[w].event = work[w].event /\ work'[w].token = work[w].token
    <3>1. work[w].event \in Event /\ work[w].token \in Nat
      BY <2>2, WorkerAtWork
    <3>2. work[w].token <= attempts[work[w].event]
      BY <2>2 DEF LeaseInv
    <3> QED BY <1>1, <2>2, <3>1, <3>2
  <2> QED BY <1>3, <1>5, <2>1, <2>2
<1>6. ASSUME NEW v \in Worker, NEW w \in Worker, v # w, work'[v] # Idle, work'[w] # Idle,
             work'[v].event = work'[w].event
      PROVE  work'[v].token # work'[w].token
  <2>1. ASSUME NEW x \in Worker, NEW y \in Worker, x # y, NEW e \in Event, Claim(x, e),
               work'[y] # Idle, work'[x].event = work'[y].event
        PROVE  work'[x].token # work'[y].token
    <3>1. work'[y] = work[y] /\ AtWork(y) /\ work[y].event = e
      BY <1>4, <2>1 DEF AtWork
    <3>2. work[y].token <= attempts[e] /\ work[y].token \in Nat
      BY <3>1, WorkerAtWork DEF LeaseInv
    <3> QED BY <1>1, <1>4, <2>1, <3>1, <3>2
  <2>2. CASE (\E e \in Event : Claim(v, e)) \/ (\E e \in Event : Claim(w, e))
    BY <1>6, <2>1, <2>2
  <2>3. CASE ~((\E e \in Event : Claim(v, e)) \/ (\E e \in Event : Claim(w, e)))
    <3>1. /\ AtWork(v) /\ work'[v].event = work[v].event /\ work'[v].token = work[v].token
          /\ AtWork(w) /\ work'[w].event = work[w].event /\ work'[w].token = work[w].token
      BY <1>3, <1>6, <2>3
    <3> QED BY <1>6, <3>1 DEF LeaseInv
  <2> QED BY <2>2, <2>3
<1> QED BY <1>2, <1>5, <1>6 DEF LeaseInv, AtWork

LEMMA LeaseIsOwn == TypeOK /\ LeaseInv => OneHolder
<1> SUFFICES ASSUME TypeOK, LeaseInv, NEW v \in Worker, NEW w \in Worker, Holds(v)
             PROVE  /\ state[work[v].event] = "pending"
                    /\ Holds(w) /\ work[w].event = work[v].event => v = w
  BY DEF OneHolder
<1>1. ASSUME NEW x \in Worker, Holds(x)
      PROVE  /\ AtWork(x) /\ work[x].event \in Event /\ work[x].token # 0
             /\ lock[work[x].event] = work[x].token
  BY <1>1, WorkerAtWork DEF Holds
<1>2. state[work[v].event] = "pending"
  BY <1>1 DEF LeaseInv
<1>3. ASSUME Holds(w), work[w].event = work[v].event PROVE v = w
  BY <1>1, <1>3 DEF LeaseInv
<1> QED BY <1>2, <1>3
-----------------------------------------------------------------------------
(* Attempts.  A released event has attempts left; one whose lease was lost   *)
(* has been given up early (at most MaxSlow times) or cost a crash.          *)

Limit(e) == MaxAttempts + MaxSlow[e]

Held(e) == \E w \in Worker : AtWork(w) /\ work[w].event = e /\ work[w].token = lock[e]

AttemptInv ==
    \A e \in Event :
        /\ attempts[e] <= Limit(e) + crashes
        /\ state[e] = "pending" /\ lock[e] = 0 => attempts[e] < MaxAttempts
        /\ lock[e] # 0 /\ (~fresh[e] \/ ~Held(e)) => attempts[e] < Limit(e) + crashes

\* A lease that stands is still held, unless its process crashed.
LEMMA HeldStays ==
    ASSUME TypeOK, LeaseInv, [Next]_vars, NEW e \in Event, lock[e] # 0, Held(e),
           Stays(e), crashes' = crashes
    PROVE  Held(e)'
<1>1. PICK w \in Worker : AtWork(w) /\ work[w].event = e /\ work[w].token = lock[e]
  BY DEF Held
<1>2. CASE work'[w] = work[w]
  BY <1>1, <1>2 DEF Held, AtWork, Stays
<1>3. CASE Projects(w)
  <2>1. work'[w].event = e /\ work'[w].token = lock'[e] /\ e # NoEvent
    BY <1>1, <1>3, ProjectsKeeps, EventAssumption DEF Stays
  <2>2. work'[w] # Idle
    BY <2>1 DEF Idle
  <2> QED BY <2>1, <2>2 DEF Held, AtWork
<1>4. CASE \E f \in Event : Claim(w, f)
  BY <1>1, <1>4 DEF Claim, AtWork
<1>5. CASE work'[w] = Idle /\ work'[w] # work[w] /\ ~Projects(w)
  <2>1. Holds(w)
    <3>1. state[e] = "pending" /\ e # NoEvent
      BY EventAssumption DEF LeaseInv
    <3> QED BY <1>1, <3>1 DEF Holds
  <2>2. ASSUME NEW v \in Worker, Ack(v) \/ Release(v), v = w PROVE FALSE
    <3>1. lock'[e] = 0
      BY <1>1, <2>1, <2>2 DEF Ack, Release, TypeOK
    <3> QED BY <3>1 DEF Stays
  <2>3. ASSUME NEW v \in Worker, Crash(v) PROVE FALSE
    <3>1. crashes' = crashes + 1 /\ crashes \in Nat
      BY <2>3 DEF Crash, TypeOK
    <3> QED BY <3>1
  <2>4. ASSUME NEW v \in Worker, v # w,
               Projects(v) \/ Ack(v) \/ Release(v) \/ \E f \in Event : Claim(v, f)
        PROVE  work'[w] = work[w]
    BY <2>4, ProjectsKeeps DEF Ack, Release, Claim, TypeOK
  <2>5. \/ \E v \in Worker : Projects(v) \/ Ack(v) \/ Release(v) \/ Crash(v)
                             \/ \E f \in Event : Claim(v, f)
        \/ UNCHANGED work
    BY DEF Next, Project, Projects, Derive, Begin, Commit, LeaseEnds, BackoffEnds, DerivedClaim,
           DerivedApply, DerivedFails, DerivedCrash, DerivedBackoffEnds, vars
  <2> QED BY <1>4, <1>5, <2>2, <2>3, <2>4, <2>5
<1> QED BY <1>2, <1>3, <1>4, <1>5, WorkMoves

\* What a step that leaves the row of an event alone does to its lease.
LEMMA FreshMoves ==
    ASSUME TypeOK, [Next]_vars, NEW e \in Event, Stays(e), lock[e] # 0
    PROVE  /\ crashes' = crashes \/ crashes' = crashes + 1
           /\ \/ fresh'[e] = fresh[e]
              \/ fresh'[e] = TRUE
              \/ /\ crashes' = crashes /\ fresh[e]
                 /\ ~Held(e) \/ attempts[e] < MaxSlow[e]
<1> USE DEF TypeOK
<1>1. ASSUME NEW f \in Event, LeaseEnds(f)
      PROVE  /\ crashes' = crashes
             /\ fresh'[e] = fresh[e] \/ (fresh[e] /\ (~Held(e) \/ attempts[e] < MaxSlow[e]))
  BY <1>1 DEF LeaseEnds, Held
<1>2. ASSUME NEW w \in Worker, NEW f \in Event, Claim(w, f)
      PROVE  crashes' = crashes /\ (fresh'[e] = fresh[e] \/ fresh'[e] = TRUE)
  BY <1>2 DEF Claim
<1>3. (crashes' = crashes \/ crashes' = crashes + 1)
      /\ \/ \E f \in Event : LeaseEnds(f)
         \/ \E w \in Worker, f \in Event : Claim(w, f)
         \/ UNCHANGED fresh
  BY DEF Next, Project, Derive, OpenTrace, EndTrace, WriteComment, WriteMetric, ProjectionFails,
         Begin, Commit, Claim, Ack, Release, Crash, LeaseEnds, BackoffEnds, DerivedClaim,
         DerivedApply, DerivedFails, DerivedCrash, DerivedBackoffEnds, vars, outboxVars
<1> QED BY <1>1, <1>2, <1>3

\* A claim is heard by its worker, and costs nothing else.
LEMMA ClaimHeld ==
    ASSUME TypeOK, TypeOK', LeaseInv', [Next]_vars, NEW e \in Event, IsClaimed(e)
    PROVE  Held(e)' /\ crashes' = crashes
<1>1. attempts'[e] # attempts[e]
  BY DEF IsClaimed, TypeOK
<1>2. PICK w \in Worker, f \in Event : Claim(w, f)
  <2>1. (\E w \in Worker, f \in Event : Claim(w, f)) \/ UNCHANGED attempts
    BY DEF Next, Project, Derive, OpenTrace, EndTrace, WriteComment, WriteMetric,
           ProjectionFails, Begin, Commit, Ack, Release, Crash, LeaseEnds, BackoffEnds,
           DerivedClaim, DerivedApply, DerivedFails, DerivedCrash, DerivedBackoffEnds, vars,
           outboxVars
  <2> QED BY <1>1, <2>1
<1>3. f = e
  BY <1>1, <1>2 DEF Claim, TypeOK
<1>4. work'[w] = [event |-> e, token |-> attempts[e] + 1, step |-> FirstStep(e)]
  BY <1>2, <1>3 DEF Claim, TypeOK
<1>5. work'[w].event = e /\ work'[w].token = lock'[e]
  BY <1>4 DEF IsClaimed
<1>6. work'[w] # Idle
  BY <1>5, EventAssumption DEF Idle
<1> QED BY <1>2, <1>5, <1>6 DEF Held, AtWork, Claim

LEMMA AttemptInvStep ==
    ASSUME TypeOK, TypeOK', LeaseInv, LeaseInv', AttemptInv, [Next]_vars
    PROVE  AttemptInv'
<1> SUFFICES ASSUME NEW e \in Event
             PROVE  /\ attempts'[e] <= Limit(e) + crashes'
                    /\ state'[e] = "pending" /\ lock'[e] = 0 => attempts'[e] < MaxAttempts
                    /\ lock'[e] # 0 /\ (~fresh'[e] \/ ~Held(e)') =>
                          attempts'[e] < Limit(e) + crashes'
  BY DEF AttemptInv, Limit
<1>1. /\ attempts[e] \in Nat /\ lock[e] \in Nat /\ crashes \in Nat
      /\ MaxAttempts \in Nat /\ MaxSlow[e] \in Nat /\ Limit(e) = MaxAttempts + MaxSlow[e]
      /\ MaxAttempts > 0 /\ fresh[e] \in BOOLEAN
  BY EventAssumption DEF TypeOK, Limit
<1>2. /\ attempts[e] <= Limit(e) + crashes
      /\ state[e] = "pending" /\ lock[e] = 0 => attempts[e] < MaxAttempts
      /\ lock[e] # 0 /\ (~fresh[e] \/ ~Held(e)) => attempts[e] < Limit(e) + crashes
  BY DEF AttemptInv
<1>3. crashes' = crashes \/ crashes' = crashes + 1
  BY DEF Next, Project, Derive, OpenTrace, EndTrace, WriteComment, WriteMetric, ProjectionFails,
         Begin, Commit, Claim, Ack, Release, Crash, LeaseEnds, BackoffEnds, DerivedClaim,
         DerivedApply, DerivedFails, DerivedCrash, DerivedBackoffEnds, vars
<1>4. CASE Begins(e) \/ Commits(e)
  <2>1. attempts[e] = 0 /\ lock[e] = 0
    BY <1>1, <1>4 DEF Begins, Commits, LeaseInv
  <2>2. attempts'[e] = 0 /\ lock'[e] = 0
    BY <1>4, <2>1 DEF Begins, Commits
  <2> QED BY <1>1, <1>3, <2>2
<1>5. CASE IsClaimed(e)
  <2>1. Held(e)' /\ crashes' = crashes
    BY <1>5, ClaimHeld
  <2>2. attempts[e] < Limit(e) + crashes
    BY <1>1, <1>2, <1>5 DEF IsClaimed
  <2> QED BY <1>1, <1>5, <2>1, <2>2 DEF IsClaimed
<1>6. CASE IsLetGo(e)
  BY <1>1, <1>2, <1>3, <1>6 DEF IsLetGo
<1>7. CASE Stays(e) /\ lock[e] = 0
  BY <1>1, <1>2, <1>3, <1>7 DEF Stays
<1>8. CASE Stays(e) /\ lock[e] # 0 /\ crashes' = crashes + 1
  BY <1>1, <1>2, <1>8 DEF Stays
<1>9. CASE Stays(e) /\ lock[e] # 0 /\ crashes' = crashes
  <2>1. Held(e) => Held(e)'
    BY <1>9, HeldStays
  <2>2. \/ fresh'[e] = fresh[e]
        \/ fresh'[e] = TRUE
        \/ fresh[e] /\ (~Held(e) \/ attempts[e] < MaxSlow[e])
    BY <1>9, FreshMoves
  <2> QED BY <1>1, <1>2, <1>9, <2>1, <2>2 DEF Stays
<1> QED BY <1>3, <1>4, <1>5, <1>6, <1>7, <1>8, <1>9, RowMoves

LEMMA AttemptsAreBounded == AttemptInv => AttemptsBounded
BY DEF AttemptInv, AttemptsBounded, Limit
\* An event that is settled stays as it is, and had been claimed.
SettledInv == \A e \in Event : Settled(e) => attempts[e] > 0

LEMMA SettledStays ==
    ASSUME TypeOK, LeaseInv, [Next]_vars, NEW e \in Event, Settled(e)
    PROVE  state'[e] = state[e]
<1>1. lock[e] = 0 /\ state[e] \notin {"absent", "open", "pending"}
  BY DEF LeaseInv, Settled, TypeOK
<1> QED BY <1>1, RowMoves DEF Begins, Commits, IsClaimed, IsLetGo, Stays

LEMMA SettledInvStep ==
    ASSUME TypeOK, LeaseInv, SettledInv, [Next]_vars
    PROVE  SettledInv'
<1> SUFFICES ASSUME NEW e \in Event, state'[e] \in {"processed", "dead"}
             PROVE  attempts'[e] > 0
  BY DEF SettledInv, Settled
<1>1. attempts[e] \in Nat /\ lock[e] \in Nat /\ lock[e] <= attempts[e]
  BY DEF TypeOK, LeaseInv
<1>2. CASE IsLetGo(e)
  BY <1>1, <1>2 DEF IsLetGo
<1>3. CASE Stays(e)
  BY <1>1, <1>3 DEF Stays, SettledInv, Settled
<1> QED BY <1>2, <1>3, RowMoves DEF Begins, Commits, IsClaimed

-----------------------------------------------------------------------------
(* The rows of the derived projector.                                       *)

LookingInv ==
    \A p \in Projector :
        looking[p] # NoEvent => state[looking[p]] = "processed" /\ type[looking[p]] \in DerivedType

DerivedInv == LookingInv /\ DerivedOnce

LEMMA DerivedInvStep ==
    ASSUME TypeOK, LeaseInv, RowsInv, RowsInv', DerivedInv, [Next]_vars
    PROVE  DerivedInv'
<1>1. \A e \in Event : state[e] = "processed" => state'[e] = "processed"
  BY SettledStays DEF Settled
<1>2. ASSUME NEW p \in Projector, looking'[p] # NoEvent
      PROVE  state'[looking'[p]] = "processed" /\ type'[looking'[p]] \in DerivedType
  <2>0. type' = type
    BY RowsGrowStep DEF RowsGrow
  <2>1. ASSUME NEW q \in Projector, NEW e \in Event, DerivedClaim(q, e), looking'[p] # looking[p]
        PROVE  looking'[p] = e /\ state[e] = "processed" /\ type[e] \in DerivedType
    BY <2>1 DEF DerivedClaim, Derivable, TypeOK
  <2>2. ASSUME NEW q \in Projector, DerivedApply(q) \/ DerivedFails(q) \/ DerivedCrash(q)
        PROVE  looking'[p] = looking[p]
    BY <1>2, <2>2 DEF DerivedApply, CreateInboxItem, CreateActivity, DerivedFails, DerivedCrash, TypeOK
  <2>3. \/ \E q \in Projector, e \in Event : DerivedClaim(q, e)
        \/ \E q \in Projector : DerivedApply(q) \/ DerivedFails(q) \/ DerivedCrash(q)
        \/ looking' = looking
    BY DEF Next, Project, Derive, OpenTrace, EndTrace, WriteComment, WriteMetric,
           ProjectionFails, Begin, Commit, Claim, Ack, Release, Crash, LeaseEnds, BackoffEnds,
           DerivedBackoffEnds, vars, derivedVars
  <2>4. CASE looking'[p] = looking[p]
    <3>1. looking[p] \in Event
      BY <1>2, <2>4 DEF TypeOK
    <3> QED BY <1>1, <1>2, <2>0, <2>4, <3>1 DEF DerivedInv, LookingInv
  <2>5. CASE looking'[p] # looking[p]
    <3>1. PICK q \in Projector, e \in Event : DerivedClaim(q, e)
      BY <2>2, <2>3, <2>5
    <3> QED BY <1>1, <2>0, <2>1, <2>5, <3>1
  <2> QED BY <2>4, <2>5
<1>3. ASSUME NEW e \in Event, state[e] = "processed"
      PROVE  InboxDue(e)' = InboxDue(e)
  <2>1. RowsGrow
    BY RowsGrowStep
  <2>2. CommentTold(e) /\ comments[e] \in Nat
        /\ comments[e] <= (IF CommentDue(e) THEN 1 ELSE 0)
        /\ (comments'[e] <= (IF CommentDue(e)' THEN 1 ELSE 0))
        /\ CommentDue(e)' = CommentDue(e)
    BY <1>3, <2>1, ToldStays DEF RowsInv, TypeOK
  <2>3. comments'[e] \in Nat
    BY TypeStep DEF TypeOK
  <2>4. comments'[e] > 0 <=> comments[e] > 0
    <3>1. CASE CommentDue(e)
      BY <2>1, <2>2, <2>3, <3>1 DEF CommentTold, RowsGrow
    <3>2. CASE ~CommentDue(e)
      BY <2>2, <2>3, <3>2
    <3> QED BY <3>1, <3>2
  <2> QED BY <2>1, <2>4 DEF InboxDue, RowsGrow
<1>4. ASSUME NEW e \in Event
      PROVE  /\ activities'[e] = (IF receipt'[e] THEN 1 ELSE 0)
             /\ receipt'[e] => state'[e] = "processed"
             /\ inbox'[e] = (IF receipt'[e] /\ InboxDue(e)' THEN 1 ELSE 0)
  <2>0. /\ activities[e] = (IF receipt[e] THEN 1 ELSE 0)
        /\ receipt[e] => state[e] = "processed"
        /\ inbox[e] = (IF receipt[e] /\ InboxDue(e) THEN 1 ELSE 0)
    BY DEF DerivedInv, DerivedOnce
  <2>1. ASSUME NEW p \in Projector, DerivedApply(p), looking[p] = e
        PROVE  /\ activities'[e] = 1 /\ receipt'[e] = TRUE
               /\ inbox'[e] = (IF InboxDue(e) THEN 1 ELSE 0)
               /\ state[e] = "processed"
    <3>1. state[e] = "processed"
      BY <2>1 DEF DerivedInv, LookingInv, DerivedApply, CreateInboxItem, CreateActivity
    <3>2. activities'[e] = Upserted(activities[e]) /\ receipt'[e] = TRUE
          /\ inbox'[e] = IF InboxDue(e) THEN Upserted(inbox[e]) ELSE inbox[e]
      BY <2>1 DEF DerivedApply, CreateInboxItem, CreateActivity, TypeOK
    <3> QED BY <2>0, <3>1, <3>2 DEF Upserted
  <2>2. ASSUME NEW p \in Projector, DerivedApply(p), looking[p] # e
        PROVE  activities'[e] = activities[e] /\ receipt'[e] = receipt[e] /\ inbox'[e] = inbox[e]
    BY <2>2 DEF DerivedApply, CreateInboxItem, CreateActivity, TypeOK
  <2>3. (\E p \in Projector : DerivedApply(p)) \/ UNCHANGED <<activities, receipt, inbox>>
    BY DEF Next, Project, Derive, OpenTrace, EndTrace, WriteComment, WriteMetric,
           ProjectionFails, Begin, Commit, Claim, Ack, Release, Crash, LeaseEnds, BackoffEnds,
           DerivedClaim, DerivedFails, DerivedCrash, DerivedBackoffEnds, vars, derivedVars
  <2>4. CASE \E p \in Projector : DerivedApply(p) /\ looking[p] = e
    BY <1>1, <1>3, <2>1, <2>4
  <2>5. CASE ~(\E p \in Projector : DerivedApply(p) /\ looking[p] = e)
    <3>1. activities'[e] = activities[e] /\ receipt'[e] = receipt[e] /\ inbox'[e] = inbox[e]
      BY <2>2, <2>3, <2>5
    <3> QED BY <1>1, <1>3, <2>0, <3>1
  <2> QED BY <2>4, <2>5
<1> QED BY <1>2, <1>4 DEF DerivedInv, LookingInv, DerivedOnce

-----------------------------------------------------------------------------
(* The order of delivery.                                                   *)

CommittedEvents == {f \in Event : Committed(f)}

OrderInv ==
    /\ \A f \in Event : Committed(f) => rank[f] <= Cardinality(CommittedEvents)
    /\ \A e, f \in Event :
          (/\ ItemOf[e] = ItemOf[f] /\ Committed(e) /\ Committed(f)
           /\ rank[e] < rank[f] /\ stamp[e] < stamp[f] /\ attempts[f] > 0)
             => Settled(e)

\* Only a commit commits, it commits one event, and gives it the highest rank.
LEMMA CommitMoves ==
    ASSUME TypeOK, LeaseInv, [Next]_vars, OrderInv
    PROVE  \/ \E e \in Event :
                 /\ Commit(e) /\ attempts[e] = 0
                 /\ Cardinality(CommittedEvents)' = Cardinality(CommittedEvents) + 1
                 /\ rank' = [rank EXCEPT ![e] = Cardinality(CommittedEvents) + 1]
                 /\ \A f \in Event : Committed(f)' <=> Committed(f) \/ f = e
                 /\ stamp' = stamp /\ attempts' = attempts
           \/ /\ rank' = rank
              /\ CommittedEvents' = CommittedEvents
              /\ \A f \in Event : Committed(f)' <=> Committed(f)
<1>1. IsFiniteSet(CommittedEvents)
  BY FS_Subset, EventAssumption DEF CommittedEvents
<1>2. ASSUME NEW e \in Event, Commit(e)
      PROVE  /\ attempts[e] = 0
             /\ Cardinality(CommittedEvents)' = Cardinality(CommittedEvents) + 1
             /\ rank' = [rank EXCEPT ![e] = Cardinality(CommittedEvents) + 1]
             /\ \A f \in Event : Committed(f)' <=> Committed(f) \/ f = e
             /\ stamp' = stamp /\ attempts' = attempts
  <2>1. \A f \in Event : Committed(f)' <=> Committed(f) \/ f = e
    BY <1>2 DEF Commit, Committed, TypeOK
  <2>2. CommittedEvents' = CommittedEvents \union {e} /\ e \notin CommittedEvents
    BY <1>2, <2>1 DEF CommittedEvents, Commit, Committed
  <2>3. Cardinality(CommittedEvents \union {e}) = Cardinality(CommittedEvents) + 1
    BY <1>1, <2>2, FS_AddElement
  <2>4. Cardinality(CommittedEvents') = Cardinality(CommittedEvents) + 1
    BY <2>2, <2>3
  <2>5. Cardinality(CommittedEvents) \in Nat
    BY <1>1, FS_CardinalityType
  <2>6. rank' = [rank EXCEPT ![e] = 1 + Cardinality(CommittedEvents)]
    BY <1>2 DEF Commit, CommittedEvents
  <2>7. attempts[e] = 0 /\ stamp' = stamp /\ attempts' = attempts
    BY <1>2 DEF Commit, LeaseInv
  <2>8. Cardinality(CommittedEvents)' = Cardinality(CommittedEvents) + 1
    BY ONLY <2>4
  <2>9. rank' = [rank EXCEPT ![e] = Cardinality(CommittedEvents) + 1]
    <3>1. 1 + Cardinality(CommittedEvents) = Cardinality(CommittedEvents) + 1
      BY ONLY <2>5
    <3> QED BY ONLY <2>6, <3>1
  <2> QED BY ONLY <1>2, <2>1, <2>7, <2>8, <2>9
<1>3. ASSUME ~(\E e \in Event : Commit(e))
      PROVE  rank' = rank /\ \A f \in Event : Committed(f)' <=> Committed(f)
  <2>1. rank' = rank
    BY <1>3 DEF Next, Project, Derive, OpenTrace, EndTrace, WriteComment, WriteMetric,
                ProjectionFails, Begin, Claim, Ack, Release, Crash, LeaseEnds, BackoffEnds,
                DerivedClaim, DerivedApply, DerivedFails, DerivedCrash, DerivedBackoffEnds, vars,
                outboxVars
  <2>2. ASSUME NEW f \in Event PROVE Committed(f)' <=> Committed(f)
    <3>1. lock[f] # 0 => state[f] = "pending"
      BY DEF LeaseInv
    <3> QED BY <1>3, <3>1, RowMoves
            DEF Begins, Commits, IsClaimed, IsLetGo, Stays, Committed
  <2> QED BY <2>1, <2>2
<1>4. (\A f \in Event : Committed(f)' <=> Committed(f)) => CommittedEvents' = CommittedEvents
  BY DEF CommittedEvents
<1> QED BY <1>2, <1>3, <1>4

LEMMA OrderInvStep ==
    ASSUME TypeOK, TypeOK', LeaseInv, OrderInv, [Next]_vars
    PROVE  OrderInv'
<1>0. Cardinality(CommittedEvents) \in Nat
  BY FS_Subset, FS_CardinalityType, EventAssumption DEF CommittedEvents
<1>1. ASSUME NEW f \in Event, Committed(f)'
      PROVE  rank'[f] <= Cardinality(CommittedEvents)'
  <2>1. rank[f] \in Nat /\ (Committed(f) => rank[f] <= Cardinality(CommittedEvents))
    BY DEF TypeOK, OrderInv
  <2>2. ASSUME NEW e \in Event, rank' = [rank EXCEPT ![e] = Cardinality(CommittedEvents) + 1]
        PROVE  rank'[f] = IF f = e THEN Cardinality(CommittedEvents) + 1 ELSE rank[f]
    BY <2>2 DEF TypeOK
  <2>3. CommittedEvents' = CommittedEvents =>
           Cardinality(CommittedEvents)' = Cardinality(CommittedEvents)
    OBVIOUS
  <2> QED BY <1>0, <1>1, <2>1, <2>2, <2>3, CommitMoves
\* The stamp of an event that is committed stands.
<1>2. ASSUME NEW f \in Event, Committed(f) PROVE stamp'[f] = stamp[f]
  <2>1. ASSUME NEW e \in Event, Begin(e) PROVE stamp'[f] = stamp[f]
    BY <1>2, <2>1 DEF Begin, Committed, TypeOK
  <2>2. (\E e \in Event : Begin(e)) \/ stamp' = stamp
    BY DEF Next, Project, Derive, OpenTrace, EndTrace, WriteComment, WriteMetric,
           ProjectionFails, Commit, Claim, Ack, Release, Crash, LeaseEnds, BackoffEnds,
           DerivedClaim, DerivedApply, DerivedFails, DerivedCrash, DerivedBackoffEnds, vars,
           outboxVars
  <2> QED BY <2>1, <2>2
<1>3. ASSUME NEW e \in Event, NEW f \in Event, ItemOf[e] = ItemOf[f],
             Committed(e)', Committed(f)', rank'[e] < rank'[f], stamp'[e] < stamp'[f],
             attempts'[f] > 0
      PROVE  Settled(e)'
  <2>1. CASE Committed(e) /\ Committed(f) /\ rank'[e] = rank[e] /\ rank'[f] = rank[f]
    <3>1. stamp[e] < stamp[f] /\ rank[e] < rank[f]
      BY <1>2, <1>3, <2>1
    <3>2. CASE attempts[f] > 0
      <4>1. Settled(e)
        BY <1>3, <2>1, <3>1, <3>2 DEF OrderInv
      <4> QED BY <4>1, SettledStays DEF Settled
    <3>3. CASE ~(attempts[f] > 0)
      <4>1. IsClaimed(f)
        <5>1. attempts[f] \in Nat /\ attempts'[f] # attempts[f]
          BY <1>3, <3>3 DEF TypeOK
        <5> QED BY <5>1, RowMoves DEF Begins, Commits, IsLetGo, Stays
      <4>2. PICK w \in Worker, g \in Event : Claim(w, g)
        <5>1. (\E w \in Worker, g \in Event : Claim(w, g)) \/ attempts' = attempts
          BY DEF Next, Project, Derive, OpenTrace, EndTrace, WriteComment, WriteMetric,
                 ProjectionFails, Begin, Commit, Ack, Release, Crash, LeaseEnds, BackoffEnds,
                 DerivedClaim, DerivedApply, DerivedFails, DerivedCrash, DerivedBackoffEnds,
                 vars, outboxVars
        <5> QED BY <1>3, <3>3, <5>1
      <4>3. g = f
        BY <1>3, <3>3, <4>2 DEF Claim, TypeOK
      <4>4. state[e] # "pending" /\ state' = state
        BY <1>3, <3>1, <4>2, <4>3 DEF Claim, Claimable
      <4> QED BY <2>1, <4>4 DEF Committed, Settled
    <3> QED BY <3>2, <3>3
  <2>2. ASSUME NEW g \in Event, Commit(g), attempts[g] = 0,
               rank' = [rank EXCEPT ![g] = Cardinality(CommittedEvents) + 1],
               \A h \in Event : Committed(h)' <=> Committed(h) \/ h = g,
               attempts' = attempts, e = g \/ f = g
        PROVE  FALSE
    <3>1. f # g
      BY <1>3, <2>2
    <3>2. e = g /\ Committed(f)
      BY <1>3, <2>2, <3>1
    <3>3. rank'[e] = Cardinality(CommittedEvents) + 1 /\ rank'[f] = rank[f]
      BY <2>2, <3>1, <3>2 DEF TypeOK
    <3>4. rank[f] <= Cardinality(CommittedEvents) /\ rank[f] \in Nat
      BY <3>2 DEF OrderInv, TypeOK
    <3> QED BY <1>0, <1>3, <3>3, <3>4
  <2>3. ASSUME NEW g \in Event, e # g, f # g,
               rank' = [rank EXCEPT ![g] = Cardinality(CommittedEvents) + 1],
               \A h \in Event : Committed(h)' <=> Committed(h) \/ h = g
        PROVE  Committed(e) /\ Committed(f) /\ rank'[e] = rank[e] /\ rank'[f] = rank[f]
    BY <1>3, <2>3 DEF TypeOK
  <2> QED BY <1>3, <2>1, <2>2, <2>3, CommitMoves
<1>4. \A f \in Event : Committed(f)' => rank'[f] <= Cardinality(CommittedEvents)'
  BY ONLY <1>1
<1> QED BY ONLY <1>3, <1>4 DEF OrderInv

-----------------------------------------------------------------------------
OutboxInv ==
    /\ TypeOK /\ RowsInv /\ LeaseInv /\ AttemptInv /\ SettledInv /\ DerivedInv /\ OrderInv

LEMMA OutboxInit == Init => OutboxInv
<1> SUFFICES ASSUME Init PROVE OutboxInv
  OBVIOUS
<1> USE EventAssumption DEF Init
<1>1. TypeOK
  BY DEF TypeOK, EventState
<1>2. \A w \in Worker : work[w] = Idle
  OBVIOUS
<1>3. RowsInv
  <2>1. \A w \in Worker : work[w].step = "idle"
    BY <1>2 DEF Idle
  <2>2. \A w \in Worker : Reached(w)
    BY <2>1 DEF Reached
  <2>3. \A e \in Event : comments[e] <= (IF CommentDue(e) THEN 1 ELSE 0)
    <3> TAKE e \in Event
    <3>1. comments[e] = 0
      OBVIOUS
    <3> QED BY ONLY <3>1
  <2>4. \A r \in Run : metrics[r] <= 1
    <3> TAKE r \in Run
    <3>1. metrics[r] = 0
      OBVIOUS
    <3> QED BY ONLY <3>1
  <2>5. \A e \in Event : state[e] # "processed"
    OBVIOUS
  <2> QED BY ONLY <2>2, <2>3, <2>4, <2>5 DEF RowsInv
<1>4. LeaseInv
  BY <1>2 DEF LeaseInv, AtWork
<1>5. AttemptInv
  BY DEF AttemptInv, Limit
<1>6. SettledInv /\ DerivedInv
  BY DEF SettledInv, Settled, DerivedInv, LookingInv, DerivedOnce
<1>7. OrderInv
  <2>1. \A e \in Event : state[e] = "absent"
    OBVIOUS
  <2>2. \A e \in Event : ~Committed(e)
    BY ONLY <2>1 DEF Committed
  <2> QED BY ONLY <2>2 DEF OrderInv
<1> QED BY <1>1, <1>3, <1>4, <1>5, <1>6, <1>7 DEF OutboxInv

THEOREM OutboxInvariant == Spec => []OutboxInv
<1>1. OutboxInv /\ [Next]_vars => OutboxInv'
  <2> SUFFICES ASSUME OutboxInv, [Next]_vars PROVE OutboxInv'
    OBVIOUS
  <2>1. TypeOK' /\ RowsInv'
    BY TypeStep, RowsInvStep DEF OutboxInv
  <2>2. LeaseInv' /\ SettledInv'
    BY <2>1, LeaseInvStep, SettledInvStep DEF OutboxInv
  <2>3. AttemptInv' /\ DerivedInv' /\ OrderInv'
    BY <2>1, <2>2, AttemptInvStep, DerivedInvStep, OrderInvStep DEF OutboxInv
  <2> QED BY <2>1, <2>2, <2>3 DEF OutboxInv
<1> QED BY <1>1, OutboxInit, PTL DEF Spec

\* lifecycle_outbox.go:24 "Each database projection is idempotent", for any number of
\* workers that crash, lose their leases and repeat each other's work: one holds a
\* fact, the attempts at it are bounded, and each of its effects is there once.
THEOREM EachEffectOnce == Spec => []EffectsOnce
<1>1. OutboxInv => EffectsOnce
  BY LeaseIsOwn, AttemptsAreBounded, RowsTell DEF OutboxInv, EffectsOnce, DerivedInv
<1> QED BY <1>1, OutboxInvariant, PTL

\* The facts of an item are delivered in the order in which they were committed,
\* where their transactions did not overlap.
THEOREM DeliveryInOrder == Spec => []DeliveredInOrder
<1>1. OutboxInv => DeliveredInOrder
  <2> SUFFICES ASSUME OutboxInv, NEW e \in Event, NEW f \in Event,
                      ItemOf[e] = ItemOf[f], Committed(e), Committed(f),
                      rank[e] < rank[f], stamp[e] < stamp[f], state[f] = "processed"
               PROVE  Settled(e)
    BY DEF DeliveredInOrder, InOrder
  <2>1. attempts[f] > 0
    BY DEF OutboxInv, SettledInv, Settled
  <2> QED BY <2>1 DEF OutboxInv, OrderInv
<1> QED BY <1>1, OutboxInvariant, PTL

-----------------------------------------------------------------------------
(* Delivery, seen from outside.                                             *)

Owes == [e \in Event |-> OwedBy(e)]
Status == [e \in Event |-> StatusOf(e)]
Order == {p \in Event \X Event : InOrder(p[1], p[2])}

\* What a fact owes is told by its type, which never changes.
LEMMA OwesStays ==
    ASSUME type' = type
    PROVE  Owes' = Owes
BY DEF Owes, OwedBy, CommentDue, MetricDue, TraceEndOf

\* Only a commit adds to the order of the facts.
LEMMA OrderStays ==
    ASSUME TypeOK, LeaseInv, OrderInv, [Next]_vars, ~(\E e \in Event : Commit(e))
    PROVE  Order' = Order
<1>1. rank' = rank /\ \A f \in Event : Committed(f)' <=> Committed(f)
  BY CommitMoves
<1>2. ASSUME NEW f \in Event, Committed(f) PROVE stamp'[f] = stamp[f]
  <2>1. ASSUME NEW e \in Event, Begin(e) PROVE stamp'[f] = stamp[f]
    <3>1. e # f
      BY <1>2, <2>1 DEF Begin, Committed
    <3> QED BY <2>1, <3>1 DEF Begin, TypeOK
  <2>2. (\E e \in Event : Begin(e)) \/ stamp' = stamp
    BY DEF Next, Project, Derive, OpenTrace, EndTrace, WriteComment, WriteMetric,
           ProjectionFails, Commit, Claim, Ack, Release, Crash, LeaseEnds, BackoffEnds,
           DerivedClaim, DerivedApply, DerivedFails, DerivedCrash, DerivedBackoffEnds, vars,
           outboxVars
  <2> QED BY <2>1, <2>2
<1>3. \A e, f \in Event : InOrder(e, f)' <=> InOrder(e, f)
  BY <1>1, <1>2 DEF InOrder
<1> QED BY <1>3 DEF Order

\* What the abstract specification sees of a step that writes no state and no row.
LEMMA NothingSeen ==
    ASSUME Owes' = Owes, Status' = Status, Order' = Order,
           UNCHANGED <<trace, comments, metrics, activities, inbox>>
    PROVE  UNCHANGED Delivery!vars
BY DEF Delivery!vars, Delivery!rowVars, Owes, Status, Order

LEMMA StatusStays ==
    ASSUME state' = state
    PROVE  Status' = Status
BY DEF Status, StatusOf

\* A commit tells a fact; the facts known to come before it were told.
LEMMA CommitTells ==
    ASSUME OutboxInv, [Next]_vars, NEW e \in Event, Commit(e)
    PROVE  Delivery!Tell(e)
<1> USE DEF OutboxInv
<1>0. UNCHANGED <<type, stamp, trace, comments, metrics, activities, inbox>>
  BY DEF Commit, rowVars, derivedVars
<1>1. /\ Cardinality(CommittedEvents) \in Nat
      /\ rank'[e] = Cardinality(CommittedEvents) + 1
      /\ \A f \in Event : f # e => rank'[f] = rank[f]
      /\ \A f \in Event : Committed(f)' <=> Committed(f) \/ f = e
  <2>1. Cardinality(CommittedEvents) \in Nat
    BY FS_Subset, FS_CardinalityType, EventAssumption DEF CommittedEvents
  <2>2. rank' = [rank EXCEPT ![e] = 1 + Cardinality(CommittedEvents)]
    BY DEF Commit, CommittedEvents
  <2>3. \A f \in Event : Committed(f)' <=> Committed(f) \/ f = e
    BY DEF Commit, Committed, TypeOK
  <2> QED BY <2>1, <2>2, <2>3 DEF TypeOK
<1>2. ~Committed(e) /\ \A f \in Event : Committed(f) => rank[f] <= Cardinality(CommittedEvents)
  BY DEF Commit, Committed, OrderInv
<1>3. rank \in [Event -> Nat] /\ stamp \in [Event -> Nat]
  BY DEF TypeOK
<1> DEFINE earlier == {d \in Event : InOrder(d, e)'}
<1>4. ASSUME NEW d \in Event, NEW f \in Event
      PROVE  InOrder(d, f)' <=> InOrder(d, f) \/ (f = e /\ d \in earlier)
  <2>1. CASE f = e
    BY <1>2, <2>1 DEF InOrder
  <2>2. CASE f # e /\ d = e
    <3>1. ~InOrder(d, f)
      BY <1>2, <2>2 DEF InOrder
    <3>2. Committed(f)' => rank'[f] < rank'[e]
      BY <1>1, <1>2, <1>3, <2>2
    <3>3. rank'[f] \in Nat /\ rank'[e] \in Nat
      BY <1>1, <1>3, <2>2
    <3>4. ~InOrder(d, f)'
      BY <2>2, <3>2, <3>3 DEF InOrder
    <3> QED BY <2>2, <3>1, <3>4
  <2>3. CASE f # e /\ d # e
    BY <1>0, <1>1, <2>3 DEF InOrder
  <2> QED BY <2>1, <2>2, <2>3
<1>5. Order' = Order \union (earlier \X {e})
  BY <1>4 DEF Order
<1>6. earlier \subseteq {d \in Event : ItemOf[d] = ItemOf[e] /\ Status[d] # "untold"}
  <2> SUFFICES ASSUME NEW d \in Event, InOrder(d, e)'
               PROVE  ItemOf[d] = ItemOf[e] /\ Status[d] # "untold"
    OBVIOUS
  <2>1. Committed(d)' /\ rank'[d] < rank'[e] /\ ItemOf[d] = ItemOf[e]
    BY DEF InOrder
  <2>2. d # e
    BY <1>1, <2>1
  <2>3. Committed(d)
    BY <1>1, <2>1, <2>2
  <2> QED BY <2>1, <2>3 DEF Status, StatusOf, Committed
<1>7. Status[e] = "untold" /\ Status' = [Status EXCEPT ![e] = "told"]
  BY DEF Commit, Status, StatusOf, TypeOK
<1>8. Owes' = Owes
  BY <1>0, OwesStays
<1> HIDE DEF earlier
<1>9. \E E \in SUBSET {d \in Event : ItemOf[d] = ItemOf[e] /\ Status[d] # "untold"} :
         Order' = Order \union (E \X {e})
  BY <1>5, <1>6
<1> QED BY <1>0, <1>7, <1>8, <1>9
        DEF Delivery!Tell, Delivery!rowVars, Owes, Status, Order

LEMMA WhatIsOwed ==
    ASSUME NEW e \in Event
    PROVE  /\ Owes[e].comment = CommentDue(e) /\ Owes[e].metric = MetricDue(e)
           /\ Owes[e].ends = {TraceEndOf(e)} \ {""}
           /\ Owes[e].activity = (type[e] \in DerivedType)
           /\ Owes[e].inbox = (type[e] # "run.completed" \/ CommentDue(e))
BY DEF Owes, OwedBy

\* A worker writes about a fact that was told, and finds all the rows of one that was
\* delivered written.
LEMMA WorkerWrites ==
    ASSUME OutboxInv, NEW w \in Worker, work[w].step \in Step
    PROVE  /\ work[w].event \in Event
           /\ \/ Status[work[w].event] \in {"told", "abandoned"}
              \/ /\ TraceTold(work[w].event) /\ CommentTold(work[w].event)
                 /\ MetricTold(work[w].event)
<1> DEFINE e == work[w].event
<1>1. AtWork(w)
  <2>1. Idle.step \notin Step
    BY DEF Idle, Step, ProjectingStep
  <2> QED BY <2>1 DEF AtWork
<1>2. e \in Event /\ work[w].token \in Nat \ {0} /\ work[w].token <= attempts[e]
  BY <1>1, WorkerAtWork DEF OutboxInv, LeaseInv
<1>3. attempts[e] # 0
  BY <1>2 DEF OutboxInv, TypeOK
<1>4. state[e] \notin {"absent", "open"}
  BY <1>2, <1>3 DEF OutboxInv, LeaseInv
<1>5. CASE state[e] = "processed"
  BY <1>2, <1>5 DEF OutboxInv, RowsInv
<1>6. CASE state[e] # "processed"
  BY <1>2, <1>4, <1>6 DEF Status, StatusOf
<1> QED BY <1>2, <1>5, <1>6

\* Each statement of a projection writes one row that the fact owes, or finds it written.
LEMMA ProjectionWrites ==
    ASSUME OutboxInv, [Next]_vars, NEW w \in Worker, Projects(w)
    PROVE  (\E f \in Event : Delivery!BeginTrace(f) \/ Delivery!FinishTrace(f)
                             \/ Delivery!Comment(f) \/ Delivery!Measure(f))
           \/ UNCHANGED Delivery!vars
<1> DEFINE e == work[w].event
<1>1. TypeOK /\ LeaseInv /\ OrderInv /\ RowsInv /\ Reached(w)
  BY DEF OutboxInv, RowsInv
<1>2. work[w].step \in Step
  BY StepsAre DEF Projects, OpenTrace, EndTrace, WriteComment, WriteMetric, ProjectionFails,
                  At, Step, ProjectingStep
<1>3. /\ e \in Event
      /\ \/ Status[e] \in {"told", "abandoned"}
         \/ TraceTold(e) /\ CommentTold(e) /\ MetricTold(e)
  BY <1>2, WorkerWrites
<1>4. UNCHANGED <<outboxVars, derivedVars>>
  BY <1>1, ProjectsKeeps
<1>5. UNCHANGED <<type, state, activities, inbox>>
  BY <1>4 DEF outboxVars, derivedVars
<1>6. Owes' = Owes /\ Status' = Status
  BY <1>5, OwesStays, StatusStays
<1>7. Order' = Order
  <2>1. \A f \in Event : ~Commit(f)
    BY <1>1, <1>5 DEF Commit, TypeOK
  <2> QED BY <1>1, <2>1, OrderStays
<1>8. RunOf[e] \in Run \union {NoRun}
  BY <1>3, EventAssumption
<1>9. Status[e] \in {"told", "abandoned"} => Delivery!Writing(e)
  BY <1>6, <1>7 DEF Delivery!Writing, Owes, Status, Order
<1>10. CASE OpenTrace(w)
  <2>1. /\ RunOf[e] # NoRun /\ RunOf[e] \in Run
        /\ UNCHANGED <<comments, metrics>>
    BY <1>1, <1>8, <1>10 DEF OpenTrace, At, Reached
  <2>2. CASE trace[RunOf[e]] = "none"
    <3>1. trace' = [trace EXCEPT ![RunOf[e]] = "running"]
      BY <1>10, <2>2 DEF OpenTrace
    <3>2. Status[e] \in {"told", "abandoned"}
      BY <1>3, <2>1, <2>2 DEF TraceTold
    <3>3. Delivery!BeginTrace(e)
      BY <1>5, <1>9, <2>1, <2>2, <3>1, <3>2 DEF Delivery!BeginTrace
    <3> QED BY <1>3, <3>3
  <2>3. CASE trace[RunOf[e]] # "none"
    <3>1. trace' = trace
      BY <1>1, <1>10, <2>1, <2>3 DEF OpenTrace, TypeOK
    <3> QED BY <1>5, <1>6, <1>7, <2>1, <3>1, NothingSeen
  <2> QED BY <2>2, <2>3
<1>11. CASE EndTrace(w)
  <2>1. /\ RunOf[e] # NoRun /\ RunOf[e] \in Run /\ TraceEndOf(e) # ""
        /\ UNCHANGED <<comments, metrics>>
    BY <1>1, <1>8, <1>11 DEF EndTrace, At, Reached
  <2>2. CASE trace[RunOf[e]] = "running"
    <3>1. trace' = [trace EXCEPT ![RunOf[e]] = TraceEndOf(e)]
      BY <1>11, <2>2 DEF EndTrace
    <3>2. TraceEndOf(e) # "running"
      BY <2>1, StepsAre DEF TraceEnd
    <3>3. Status[e] \in {"told", "abandoned"}
      BY <1>3, <2>1, <2>2, <3>2 DEF TraceTold
    <3>4. TraceEndOf(e) \in Owes[e].ends
      BY <1>3, <2>1, WhatIsOwed
    <3>5. Delivery!FinishTrace(e)
      BY <1>5, <1>9, <2>1, <2>2, <3>1, <3>3, <3>4 DEF Delivery!FinishTrace, Owes
    <3> QED BY <1>3, <3>5
  <2>3. CASE trace[RunOf[e]] # "running"
    <3>1. trace' = trace
      BY <1>11, <2>3 DEF EndTrace
    <3> QED BY <1>5, <1>6, <1>7, <2>1, <3>1, NothingSeen
  <2> QED BY <2>2, <2>3
<1>12. CASE WriteComment(w)
  <2>1. /\ CommentDue(e) /\ comments[e] \in Nat /\ comments[e] <= 1
        /\ UNCHANGED <<trace, metrics>>
    BY <1>1, <1>3, <1>12 DEF WriteComment, At, Reached, RowsInv, TypeOK
  <2>2. comments' = [comments EXCEPT ![e] = Upserted(comments[e])]
    BY <1>12 DEF WriteComment
  <2>3. CASE comments[e] = 0
    <3>1. comments' = [comments EXCEPT ![e] = 1]
      BY <2>2, <2>3 DEF Upserted
    <3>2. Status[e] \in {"told", "abandoned"}
      BY <1>3, <2>1, <2>3 DEF CommentTold
    <3>3. Owes[e].comment
      BY <1>3, <2>1, WhatIsOwed
    <3>4. Delivery!Comment(e)
      BY <1>5, <1>9, <2>1, <2>3, <3>1, <3>2, <3>3 DEF Delivery!Comment, Owes
    <3> QED BY <1>3, <3>4
  <2>4. CASE comments[e] # 0
    <3>1. comments' = comments
      BY <1>1, <2>2, <2>4 DEF Upserted, TypeOK
    <3> QED BY <1>5, <1>6, <1>7, <2>1, <3>1, NothingSeen
  <2> QED BY <2>3, <2>4
<1>13. CASE WriteMetric(w)
  <2>1. /\ MetricDue(e) /\ RunOf[e] \in Run
        /\ UNCHANGED <<trace, comments>>
    BY <1>1, <1>8, <1>13 DEF WriteMetric, At, Reached, MetricDue
  <2>2. metrics' = [metrics EXCEPT ![RunOf[e]] = Upserted(metrics[RunOf[e]])]
    BY <1>13 DEF WriteMetric, InsertMetric
  <2>3. CASE metrics[RunOf[e]] = 0
    <3>1. metrics' = [metrics EXCEPT ![RunOf[e]] = 1]
      BY <2>2, <2>3 DEF Upserted
    <3>2. Status[e] \in {"told", "abandoned"}
      BY <1>3, <2>1, <2>3 DEF MetricTold
    <3>3. Owes[e].metric
      BY <1>3, <2>1, WhatIsOwed
    <3>4. Delivery!Measure(e)
      BY <1>5, <1>9, <2>1, <2>3, <3>1, <3>2, <3>3 DEF Delivery!Measure, Owes
    <3> QED BY <1>3, <3>4
  <2>4. CASE metrics[RunOf[e]] # 0
    <3>1. metrics' = metrics
      BY <1>1, <2>2, <2>4 DEF Upserted, TypeOK
    <3> QED BY <1>5, <1>6, <1>7, <2>1, <3>1, NothingSeen
  <2> QED BY <2>3, <2>4
<1>14. CASE ProjectionFails(w)
  <2>1. UNCHANGED <<trace, comments, metrics>>
    BY <1>14 DEF ProjectionFails, rowVars
  <2> QED BY <1>5, <1>6, <1>7, <2>1, NothingSeen
<1> QED BY <1>10, <1>11, <1>12, <1>13, <1>14 DEF Projects

\* An acknowledgement under the worker's own lease delivers the fact.
LEMMA AckDelivers ==
    ASSUME OutboxInv, OutboxInv', [Next]_vars, NEW w \in Worker, Ack(w)
    PROVE  (\E f \in Event : Delivery!Deliver(f)) \/ UNCHANGED Delivery!vars
<1> DEFINE e == work[w].event
<1>1. TypeOK /\ LeaseInv /\ OrderInv /\ RowsInv /\ Reached(w)
  BY DEF OutboxInv, RowsInv
<1>2. UNCHANGED <<type, trace, comments, metrics, activities, inbox>>
  BY DEF Ack, rowVars, derivedVars
<1>3. Owes' = Owes
  BY <1>2, OwesStays
<1>4. CASE ~Holds(w)
  <2>1. state' = state
    BY <1>4 DEF Ack
  <2>2. \A f \in Event : ~Commit(f)
    BY <1>1, <2>1 DEF Commit, TypeOK
  <2>3. Status' = Status /\ Order' = Order
    BY <1>1, <2>1, <2>2, StatusStays, OrderStays
  <2> QED BY <1>2, <1>3, <2>3, NothingSeen
<1>5. CASE Holds(w)
  <2>1. state' = [state EXCEPT ![e] = "processed"]
    BY <1>5 DEF Ack
  <2>2. e \in Event /\ state[e] = "pending"
    <3>1. e \in Event
      BY <1>1, <1>5, WorkerAtWork DEF Holds
    <3>2. OneHolder
      BY <1>1, LeaseIsOwn
    <3> QED BY <1>5, <3>1, <3>2 DEF OneHolder
  <2>3. \A f \in Event : ~Commit(f)
    BY <1>1, <2>1, <2>2 DEF Commit, TypeOK
  <2>4. Order' = Order
    BY <1>1, <2>3, OrderStays
  <2>5. Status[e] = "told" /\ Status' = [Status EXCEPT ![e] = "delivered"]
    BY <1>1, <2>1, <2>2 DEF Status, StatusOf, TypeOK
  <2>6. TraceTold(e) /\ CommentTold(e) /\ MetricTold(e)
    BY <1>1 DEF Ack, At, Reached
  <2>7. /\ Owes[e].comment => comments[e] = 1
        /\ Owes[e].metric => metrics[RunOf[e]] = 1
        /\ RunOf[e] # NoRun => /\ trace[RunOf[e]] # "none"
                               /\ Owes[e].ends # {} => trace[RunOf[e]] \in Owes[e].ends
    <3>1. RunOf[e] # NoRun => /\ trace[RunOf[e]] # "none"
                              /\ Owes[e].ends # {} => trace[RunOf[e]] \in Owes[e].ends
      BY <2>2, <2>6, WhatIsOwed, Zenon DEF TraceTold
    <3>2. Owes[e].comment => comments[e] = 1
      BY <2>2, <2>6, WhatIsOwed DEF CommentTold
    <3>3. Owes[e].metric => metrics[RunOf[e]] = 1
      BY <2>2, <2>6, WhatIsOwed DEF MetricTold
    <3> QED BY <3>1, <3>2, <3>3
  <2>8. ASSUME NEW d \in Event, <<d, e>> \in Order
        PROVE  Status[d] \in {"delivered", "abandoned"}
    <3>1. InOrder(d, e)
      BY <2>2, <2>8 DEF Order
    <3>2. attempts[e] > 0
      <4>1. attempts'[e] > 0
        BY <1>1, <2>1, <2>2 DEF OutboxInv, SettledInv, Settled, TypeOK
      <4> QED BY <4>1 DEF Ack
    <3>3. Settled(d)
      BY <1>1, <2>2, <3>1, <3>2 DEF InOrder, OrderInv
    <3> QED BY <3>3 DEF Status, StatusOf, Settled
  <2>9. Delivery!Deliver(e)
    BY <1>2, <1>3, <2>4, <2>5, <2>7, <2>8
       DEF Delivery!Deliver, Delivery!rowVars, Owes, Status, Order
  <2> QED BY <2>2, <2>9
<1> QED BY <1>4, <1>5

\* A release gives the fact up, or leaves it as it was.
LEMMA ReleaseGivesUp ==
    ASSUME OutboxInv, [Next]_vars, NEW w \in Worker, Release(w)
    PROVE  (\E f \in Event : Delivery!GiveUp(f)) \/ UNCHANGED Delivery!vars
<1> DEFINE e == work[w].event
<1>1. TypeOK /\ LeaseInv /\ OrderInv
  BY DEF OutboxInv
<1>2. UNCHANGED <<type, trace, comments, metrics, activities, inbox>>
  BY DEF Release, rowVars, derivedVars
<1>3. Owes' = Owes
  BY <1>2, OwesStays
<1>4. Order' = Order
  <2>1. \A f \in Event : ~Commit(f)
    <3>1. rank' = rank
      BY DEF Release
    <3>2. ASSUME NEW f \in Event, Commit(f) PROVE FALSE
      <4>1. work' = work /\ work'[w] = Idle
        BY <1>1, <3>2 DEF Commit, Release, TypeOK
      <4>2. work[w].step = "release" /\ Idle.step = "idle"
        BY DEF Release, Idle
      <4> QED BY <4>1, <4>2
    <3> QED BY <3>2
  <2> QED BY <1>1, <2>1, OrderStays
<1>5. CASE state' = state
  <2>1. Status' = Status
    BY <1>5, StatusStays
  <2> QED BY <1>2, <1>3, <1>4, <2>1, NothingSeen
<1>6. CASE state' # state
  <2>1. Holds(w)
    BY <1>6 DEF Release
  <2>2. e \in Event /\ state[e] = "pending"
    <3>1. e \in Event
      BY <1>1, <2>1, WorkerAtWork DEF Holds
    <3>2. OneHolder
      BY <1>1, LeaseIsOwn
    <3> QED BY <2>1, <3>1, <3>2 DEF OneHolder
  <2>3. state' = [state EXCEPT ![e] = "dead"]
    <3>1. \/ state' = [state EXCEPT ![e] = "dead"]
          \/ state' = [state EXCEPT ![e] = "pending"]
      BY <2>1 DEF Release
    <3>2. state' # [state EXCEPT ![e] = "pending"]
      BY <1>1, <1>6, <2>2 DEF TypeOK
    <3> QED BY <3>1, <3>2
  <2>4. Status[e] = "told" /\ Status' = [Status EXCEPT ![e] = "abandoned"]
    BY <1>1, <2>2, <2>3 DEF Status, StatusOf, TypeOK
  <2>5. Delivery!GiveUp(e)
    BY <1>2, <1>3, <1>4, <2>4
       DEF Delivery!GiveUp, Delivery!rowVars, Owes, Status, Order
  <2> QED BY <2>2, <2>5
<1> QED BY <1>5, <1>6

\* A projector writes activity and inbox item of a delivered fact together; when another
\* one was first, it changes nothing.
LEMMA ApplyNotifies ==
    ASSUME OutboxInv, OutboxInv', [Next]_vars, NEW p \in Projector, DerivedApply(p)
    PROVE  (\E f \in Event : Delivery!Notify(f)) \/ UNCHANGED Delivery!vars
<1> DEFINE e == looking[p]
<1>1. TypeOK /\ LeaseInv /\ OrderInv /\ RowsInv /\ DerivedInv
  BY DEF OutboxInv
<1>2. e \in Event /\ state[e] = "processed"
  BY <1>1 DEF DerivedApply, DerivedInv, LookingInv, TypeOK
<1>3. UNCHANGED <<type, state, trace, comments, metrics>>
  BY DEF DerivedApply, outboxVars, rowVars
<1>4. Owes' = Owes /\ Status' = Status
  BY <1>3, OwesStays, StatusStays
<1>5. Order' = Order
  <2>1. \A f \in Event : ~Commit(f)
    BY <1>1, <1>3 DEF Commit, TypeOK
  <2> QED BY <1>1, <2>1, OrderStays
<1>6. /\ activities' = [activities EXCEPT ![e] = Upserted(activities[e])]
      /\ inbox' = [inbox EXCEPT ![e] = IF InboxDue(e) THEN Upserted(inbox[e]) ELSE inbox[e]]
  BY DEF DerivedApply, CreateActivity, CreateInboxItem
<1>7. /\ activities[e] = (IF receipt[e] THEN 1 ELSE 0)
      /\ inbox[e] = (IF receipt[e] /\ InboxDue(e) THEN 1 ELSE 0)
      /\ activities \in [Event -> Nat] /\ inbox \in [Event -> Nat]
  BY <1>1, <1>2 DEF DerivedInv, DerivedOnce, TypeOK
<1>8. CASE receipt[e]
  <2>1. activities' = activities /\ inbox' = inbox
    BY <1>2, <1>6, <1>7, <1>8 DEF Upserted
  <2> QED BY <1>3, <1>4, <1>5, <2>1, NothingSeen
<1>9. CASE ~receipt[e]
  <2>1. InboxDue(e) <=> Owes[e].inbox
    <3>1. comments[e] \in Nat /\ comments[e] <= (IF CommentDue(e) THEN 1 ELSE 0)
      BY <1>1, <1>2 DEF RowsInv, TypeOK
    <3>2. CommentDue(e) => comments[e] = 1
      BY <1>1, <1>2 DEF RowsInv, CommentTold
    <3>3. comments[e] > 0 <=> CommentDue(e)
      BY <3>1, <3>2
    <3> QED BY <1>2, <3>3, WhatIsOwed DEF InboxDue
  <2>2. /\ activities[e] = 0 /\ activities' = [activities EXCEPT ![e] = 1]
        /\ inbox' = [inbox EXCEPT ![e] = IF Owes[e].inbox THEN 1 ELSE 0]
    BY <1>2, <1>6, <1>7, <1>9, <2>1 DEF Upserted
  <2>3. Owes[e].activity
    BY <1>1, <1>2, WhatIsOwed DEF DerivedInv, LookingInv, DerivedApply
  <2>4. Status[e] = "delivered"
    BY <1>2 DEF Status, StatusOf
  <2>5. Delivery!Notify(e)
    BY <1>3, <1>4, <1>5, <2>2, <2>3, <2>4
       DEF Delivery!Notify, Owes, Status, Order
  <2> QED BY <1>2, <2>5
<1> QED BY <1>8, <1>9

LEMMA DeliveryStep ==
    ASSUME OutboxInv, OutboxInv', [Next]_vars
    PROVE  [Delivery!Next]_(Delivery!vars)
<1>0. TypeOK /\ LeaseInv /\ OrderInv
  BY DEF OutboxInv
<1>1. ASSUME NEW e \in Event, Begin(e) PROVE UNCHANGED Delivery!vars
  <2>1. UNCHANGED <<type, trace, comments, metrics, activities, inbox>>
    BY <1>1 DEF Begin, rowVars, derivedVars
  <2>2. Status' = Status
    BY <1>0, <1>1 DEF Begin, Status, StatusOf, TypeOK
  <2>3. \A f \in Event : ~Commit(f)
    BY <1>0, <1>1 DEF Begin, Commit, TypeOK
  <2> QED BY <1>0, <2>1, <2>2, <2>3, OwesStays, OrderStays, NothingSeen
<1>2. ASSUME UNCHANGED <<type, state, trace, comments, metrics, activities, inbox>>
      PROVE  UNCHANGED Delivery!vars
  <2>1. \A f \in Event : ~Commit(f)
    BY <1>0, <1>2 DEF Commit, TypeOK
  <2>2. Order' = Order
    BY <1>0, <2>1, OrderStays
  <2> QED BY <1>2, <2>2, OwesStays, StatusStays, NothingSeen
<1>3. \/ \E e \in Event : Begin(e) \/ Commit(e)
      \/ \E w \in Worker : Projects(w) \/ Ack(w) \/ Release(w)
      \/ \E p \in Projector : DerivedApply(p)
      \/ UNCHANGED <<type, state, trace, comments, metrics, activities, inbox>>
  BY DEF Next, Project, Projects, Derive, Claim, Crash, LeaseEnds, BackoffEnds, DerivedClaim,
         DerivedFails, DerivedCrash, DerivedBackoffEnds, vars, outboxVars, rowVars, derivedVars
<1>4. ASSUME NEW e \in Event, Commit(e) PROVE Delivery!Next
  BY <1>4, CommitTells DEF Delivery!Next
<1>5. ASSUME NEW w \in Worker, Projects(w) \/ Ack(w) \/ Release(w)
      PROVE  [Delivery!Next]_(Delivery!vars)
  BY <1>5, ProjectionWrites, AckDelivers, ReleaseGivesUp DEF Delivery!Next
<1>6. ASSUME NEW p \in Projector, DerivedApply(p)
      PROVE  [Delivery!Next]_(Delivery!vars)
  BY <1>6, ApplyNotifies DEF Delivery!Next
<1> QED BY <1>1, <1>2, <1>3, <1>4, <1>5, <1>6

LEMMA DeliveryInit == Init => Delivery!Init
<1> SUFFICES ASSUME Init PROVE Delivery!Init
  OBVIOUS
<1>1. Owes \in [Event -> Delivery!Owed]
  <2> SUFFICES ASSUME NEW e \in Event PROVE OwedBy(e) \in Delivery!Owed
    BY DEF Owes
  <2>1. CommentDue(e) \in BOOLEAN /\ MetricDue(e) \in BOOLEAN
    BY DEF CommentDue, MetricDue
  <2>2. {TraceEndOf(e)} \ {""} \in SUBSET TraceEnd
    BY StepsAre, Zenon
  <2> DEFINE ends == {TraceEndOf(e)} \ {""}
  <2>3. OwedBy(e) = [comment |-> CommentDue(e), metric |-> MetricDue(e), ends |-> ends,
                     activity |-> type[e] \in DerivedType,
                     inbox |-> type[e] # "run.completed" \/ CommentDue(e)]
    BY Zenon DEF OwedBy
  <2>4. ends \in SUBSET TraceEnd
    BY <2>2
  <2> HIDE DEF ends
  <2> QED BY <2>1, <2>3, <2>4 DEF Delivery!Owed, Delivery!TraceEnd, TraceEnd
<1>2. \A e \in Event : state[e] = "absent"
  BY DEF Init
<1>3. Status = [e \in Event |-> "untold"]
  BY <1>2 DEF Status, StatusOf
<1>4. Order = {}
  BY <1>2 DEF Order, InOrder, Committed
<1>5. /\ trace = [r \in Run |-> "none"] /\ comments = [f \in Event |-> 0]
      /\ metrics = [r \in Run |-> 0] /\ activities = [f \in Event |-> 0]
      /\ inbox = [f \in Event |-> 0]
  BY DEF Init
<1> QED BY <1>1, <1>3, <1>4, <1>5 DEF Delivery!Init, Owes, Status, Order

\* Readers of the rows see FactDelivery: a fact told once it is committed, each row it owes
\* written once, by whichever worker comes first, its delivery when all are there and not
\* before the facts it comes after, then activity and inbox together
\* (lifecycle_outbox.go:87, task_derived_projector.go:87).
THEOREM OutboxImplementsDelivery == Spec => ImplementsDelivery
<1>1. OutboxInv /\ OutboxInv' /\ [Next]_vars => [Delivery!Next]_(Delivery!vars)
  BY DeliveryStep
<1> QED BY <1>1, DeliveryInit, OutboxInvariant, PTL
        DEF Spec, ImplementsDelivery, Delivery!Spec
=============================================================================
