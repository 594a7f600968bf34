------------------------ MODULE EngineeringLoopProofs ------------------------
(***************************************************************************)
(* What an Engineering Loop promises, for every number of iterations,      *)
(* tries, consumers, users, requests, mishaps and restarts: it goes through*)
(* the cycle of LoopCycle, users' requests included; it waits for its      *)
(* newest item while it runs, unless a request has just put it back at a   *)
(* stage it had left; and as long as no request did, it applies the end of *)
(* an item once and gives work to one agent at a time.                     *)
(***************************************************************************)
EXTENDS EngineeringLoop, SequenceTheorems, TLAPS

\* The row, and the requests that have read it: only a request that put the loop back
\* where it was not can leave it without a stage.
RowInv ==
    /\ loop.status = "pending" => loop = Row("pending", NoStage, 0) /\ items = <<>>
    /\ Shown /\ override # "standing" => loop.stage \in Stage
    /\ loop.status = "paused" => asks > 0
    /\ \A u \in User : request[u] # NoRequest =>
          request[u].status \in {"paused", "running", "cancelled"} /\ asks > 0

\* AwaitsItsItem, also of a paused loop: it may be resumed.
WaitInv ==
    Shown /\ override # "standing" =>
        \E i \in 1..Len(items) :
            /\ StageItem(i)
            /\ items[i].moved = 0
            /\ items[i].ignored => asks > 0

\* An item that no sweep has taken for lost ends once, and what ended has not moved
\* the loop while its end is still to be delivered.
EndInv ==
    /\ \A i \in 1..Len(items) :
          /\ items[i].status = "offline" => items[i].lost
          /\ InFlight(i) /\ ~items[i].lost => items[i].moved = 0
    /\ \A e \in ends : ~items[e.item].lost =>
          ~e.late /\ items[e.item].status = "over" /\ items[e.item].moved = 0
    /\ \A p \in Projector : looking[p] # NoEnd /\ ~items[looking[p].item].lost =>
          ~looking[p].late /\ items[looking[p].item].status = "over"

\* Of the items that no sweep has taken for lost: those that work or whose end is
\* still to be delivered, and the claims on an end that another consumer settled.
Told(i)   == \E e \in ends : e.item = i
AtWork(i) == ~items[i].lost /\ (InFlight(i) \/ Told(i))
Stale(p)  == /\ looking[p] # NoEnd /\ ~items[looking[p].item].lost
             /\ \A e \in ends : ~SameEnd(e, looking[p])

\* Until an item taken for lost moves the loop, one item at most is at work, for the
\* current stage, and a stale claim finds the loop elsewhere or waiting for nobody.
OneAtWork ==
    \A i, j \in 1..Len(items) : AtWork(i) /\ AtWork(j) => i = j
WorkIsCurrent ==
    \A i \in 1..Len(items) : AtWork(i) /\ Shown => items[i].stage = loop.stage
StaleIsHarmless ==
    \A p \in Projector : Stale(p) =>
        /\ \A e \in ends : items[e.item].lost
        /\ \A q \in Projector : Stale(q) => looking[q].item = looking[p].item
        /\ Shown /\ items[looking[p].item].stage = loop.stage =>
              items[looking[p].item].moved = 0 /\ \A i \in 1..Len(items) : ~AtWork(i)
MovedOnce == \A i \in 1..Len(items) : items[i].moved <= 1

OneInv == ~LostMoved /\ override = "none" => OneAtWork /\ WorkIsCurrent /\ StaleIsHarmless /\ MovedOnce

LoopInv == TypeOK /\ RowInv /\ WaitInv /\ EndInv /\ OneInv

-----------------------------------------------------------------------------
(* The sequence of items.                                                  *)

\* Writing one item keeps the others.
LEMMA ItemWritten ==
    ASSUME NEW seq \in Seq(Item), NEW i \in 1..Len(seq), NEW x \in Item,
           NEW new, new = [seq EXCEPT ![i] = x]
    PROVE  /\ new \in Seq(Item) /\ Len(new) = Len(seq)
           /\ \A j \in 1..Len(seq) : new[j] = IF j = i THEN x ELSE seq[j]
<1>1. new \in Seq(Item)
  BY ExceptSeq
<1>2. Len(new) = Len(seq)
  BY ExceptSeq
<1> QED BY <1>1, <1>2

\* A new item comes last.
LEMMA ItemAdded ==
    ASSUME NEW seq \in Seq(Item), NEW x \in Item, NEW new, new = Append(seq, x)
    PROVE  /\ new \in Seq(Item) /\ Len(new) = Len(seq) + 1
           /\ new[Len(seq) + 1] = x
           /\ \A j \in 1..Len(seq) : new[j] = seq[j]
  BY AppendProperties

LEMMA ItemsAreItems ==
    ASSUME NEW seq \in Seq(Item)
    PROVE  Len(seq) \in Nat /\ \A i \in 1..Len(seq) : seq[i] \in Item
  BY ElementOfSeq, LenProperties

\* The status of one item changes.
LEMMA StatusWritten ==
    ASSUME TypeOK, NEW i \in 1..Len(items), NEW s \in ItemStatus, SetItem(i, s)
    PROVE  /\ items' \in Seq(Item) /\ Len(items') = Len(items)
           /\ \A j \in 1..Len(items) :
                 items'[j] = IF j = i THEN [items[i] EXCEPT !.status = s] ELSE items[j]
<1> DEFINE x == [items[i] EXCEPT !.status = s]
<1>1. items \in Seq(Item)
  BY DEF TypeOK
<1>2. x \in Item
  BY <1>1, ItemsAreItems DEF Item
<1>3. items' = [items EXCEPT ![i] = x]
  BY DEF SetItem
<1> QED BY <1>1, <1>2, <1>3, ItemWritten

\* A sweep takes an item for lost.
LEMMA LossWritten ==
    ASSUME TypeOK, NEW i \in 1..Len(items), NEW s \in ItemStatus,
           items' = [items EXCEPT ![i].status = s, ![i].lost = TRUE]
    PROVE  /\ items' \in Seq(Item) /\ Len(items') = Len(items)
           /\ \A j \in 1..Len(items) :
                 items'[j] = IF j = i THEN [items[i] EXCEPT !.status = s, !.lost = TRUE]
                             ELSE items[j]
<1> DEFINE x == [items[i] EXCEPT !.status = s, !.lost = TRUE]
<1>1. items \in Seq(Item)
  BY DEF TypeOK
<1>2. items[i] \in Item /\ x \in Item
  BY <1>1, ItemsAreItems DEF Item
<1>3. items' = [items EXCEPT ![i] = x]
  BY <1>1, LenProperties
<1>4. \A y \in Item : items' = [items EXCEPT ![i] = y] =>
         /\ items' \in Seq(Item) /\ Len(items') = Len(items)
         /\ \A j \in 1..Len(items) : items'[j] = IF j = i THEN y ELSE items[j]
  <2>1. i \in 1..Len(items)
    OBVIOUS
  <2> QED BY ONLY <1>1, <2>1, ItemWritten
<1> QED BY ONLY <1>2, <1>3, <1>4

\* What MarkItem makes of the item of a fact.
Marked(x, moved) == [x EXCEPT !.moved = IF moved THEN @ + 1 ELSE @,
                              !.ignored = @ \/ ~moved]

LEMMA ItemMarked ==
    ASSUME TypeOK, NEW e \in End, NEW moved \in BOOLEAN
    PROVE  LET seq == MarkItem(e, items, moved)
           IN  /\ seq \in Seq(Item) /\ Len(seq) = Len(items)
               /\ \A j \in 1..Len(items) :
                     seq[j] = IF j = e.item THEN Marked(items[j], moved) ELSE items[j]
<1> DEFINE i == e.item
           x == Marked(items[i], moved)
           seq == MarkItem(e, items, moved)
<1>1. items \in Seq(Item) /\ i \in 1..Len(items)
  BY DEF TypeOK, End
<1>2. items[i] \in Item
  BY <1>1, ItemsAreItems
<1>3. x \in Item
  <2>1. \A m \in Nat, b \in BOOLEAN : [items[i] EXCEPT !.moved = m, !.ignored = b] \in Item
    BY <1>2 DEF Item
  <2>2. (IF moved THEN items[i].moved + 1 ELSE items[i].moved) \in Nat
    BY <1>2 DEF Item
  <2>3. (items[i].ignored \/ ~moved) \in BOOLEAN
    OBVIOUS
  <2> QED BY <2>1, <2>2, <2>3 DEF Marked
<1>4. seq = [items EXCEPT ![i] = x]
  BY <1>1, LenProperties DEF MarkItem, Marked
<1> QED BY <1>1, <1>3, <1>4, ItemWritten

\* A new item of a stage, behind the others.
LEMMA TaskCreated ==
    ASSUME NEW seq \in Seq(Item), NEW stage \in Stage, NEW n, CreateTask(seq, stage, n)
    PROVE  /\ items' \in Seq(Item) /\ Len(items') = Len(seq) + 1
           /\ items'[Len(seq) + 1] = NewItem(stage)
           /\ \A j \in 1..Len(seq) : items'[j] = seq[j]
<1>1. NewItem(stage) \in Item
  BY DEF NewItem, Item, ItemStatus
<1> QED BY <1>1, ItemAdded DEF CreateTask

-----------------------------------------------------------------------------
(* Types.                                                                  *)

LEMMA EndsKeepType ==
    ASSUME TypeOK, Len(items') \in Nat, Len(items) <= Len(items')
    PROVE  End \subseteq End'
<1>1. Len(items) \in Nat
  BY ItemsAreItems DEF TypeOK
<1> QED BY <1>1 DEF End

\* The variables that hold no items, ends or claims.
LEMMA ScalarsKeepType ==
    ASSUME TypeOK, [Next]_vars
    PROVE  /\ creating' \in BOOLEAN /\ side' \in BOOLEAN /\ agentOK' \in BOOLEAN
           /\ server' \in {"starting", "up"}
           /\ mishaps' \in Nat /\ asks' \in Nat /\ restarts' \in Nat
           /\ request' \in [User -> LoopRow \union {NoRequest}]
           /\ override' \in {"none", "standing", "past"}
<1>a. /\ creating \in BOOLEAN /\ side \in BOOLEAN /\ agentOK \in BOOLEAN
      /\ server \in {"starting", "up"}
      /\ mishaps \in Nat /\ asks \in Nat /\ restarts \in Nat
      /\ loop \in LoopRow /\ request \in [User -> LoopRow \union {NoRequest}]
      /\ override \in {"none", "standing", "past"}
  BY DEF TypeOK
<1>1. CASE StartLoop BY <1>a, <1>1 DEF StartLoop, envVars, userVars
<1>2. CASE StartFails BY <1>a, <1>2 DEF StartFails, envVars, userVars
<1>3. ASSUME NEW i \in 1..Len(items),
             \/ Claim(i) \/ Finish(i) \/ Requeue(i) \/ FailOffline(i) \/ Recover(i) \/ Withdraw(i)
      PROVE  /\ UNCHANGED <<side, agentOK, creating, server, restarts, request, override, asks>>
             /\ mishaps' = mishaps \/ Mishap
  <2>1. CASE Claim(i) \/ Requeue(i) \/ Recover(i)
    BY <2>1 DEF Claim, Requeue, Recover, envVars, userVars, serverVars
  <2>2. CASE Finish(i)
    BY <2>2 DEF Finish, Complete, Fail, Reject, envVars, userVars, serverVars
  <2>3. CASE FailOffline(i) \/ Withdraw(i)
    BY <2>3 DEF FailOffline, Withdraw, userVars, serverVars
  <2> QED BY <1>3, <2>1, <2>2, <2>3
<1>4. CASE \E i \in 1..Len(items) :
             \/ Claim(i) \/ Finish(i) \/ Requeue(i) \/ FailOffline(i) \/ Recover(i) \/ Withdraw(i)
  BY <1>a, <1>3, <1>4 DEF Mishap
<1>5. CASE SideItem
  <2>1. UNCHANGED <<agentOK, creating, server, restarts, request, override, asks>> /\ side' \in BOOLEAN
    BY <1>5 DEF SideItem, userVars, serverVars
  <2>2. mishaps' = mishaps \/ Mishap
    BY <1>5 DEF SideItem
  <2> QED BY <1>a, <2>1, <2>2 DEF Mishap
<1>6. CASE AgentGoes
  <2>1. UNCHANGED <<side, creating, server, restarts, request, override, asks>> /\ agentOK' \in BOOLEAN
    BY <1>6 DEF AgentGoes, userVars, serverVars
  <2>2. mishaps' = mishaps \/ Mishap
    BY <1>6 DEF AgentGoes
  <2> QED BY <1>a, <2>1, <2>2 DEF Mishap
<1>7. CASE \E p \in Projector, e \in ends : LoopClaim(p, e)
  BY <1>a, <1>7 DEF LoopClaim, envVars, userVars
<1>8. CASE \E p \in Projector : Consume(p)
  BY <1>a, <1>8 DEF Consume, LoopApply, LoopApplyFails, Overtaken, envVars, userVars
<1>9. CASE Restart
  <2>1. UNCHANGED <<side, agentOK, mishaps, override, asks>> /\ creating' \in BOOLEAN
        /\ request' \in [User -> LoopRow \union {NoRequest}]
    BY <1>9 DEF Restart, envVars
  <2>2. server' = "starting" /\ restarts' = restarts + 1
    BY <1>9 DEF Restart
  <2> QED BY <1>a, <2>1, <2>2
<1>10. CASE Restore BY <1>a, <1>10 DEF Restore, RestoreOne, Overtaken, envVars
<1>11. ASSUME NEW u \in User, NEW target \in {"paused", "running", "cancelled"},
              AskRead(u, target)
       PROVE  /\ UNCHANGED <<side, agentOK, mishaps, creating, server, restarts, override>>
              /\ asks' \in Nat /\ request' \in [User -> LoopRow \union {NoRequest}]
  <2>1. [loop EXCEPT !.status = target] \in LoopRow
    BY <1>a DEF LoopRow, LoopStatus
  <2> QED BY <1>a, <1>11, <2>1 DEF AskRead, envVars, serverVars
<1>12. ASSUME NEW u \in User, AskWrite(u)
       PROVE  /\ UNCHANGED <<side, agentOK, mishaps, creating, server, restarts, asks>>
              /\ request' \in [User -> LoopRow \union {NoRequest}]
              /\ override' \in {"none", "standing", "past"}
  BY <1>a, <1>12 DEF AskWrite, envVars, serverVars
<1>13. CASE UNCHANGED vars BY <1>a, <1>13 DEF vars, envVars, userVars, serverVars
<1>14. CASE \/ \E u \in User, target \in {"paused", "running", "cancelled"} : AskRead(u, target)
             \/ \E v \in User : AskWrite(v)
  BY <1>a, <1>11, <1>12, <1>14
<1> QED BY <1>1, <1>2, <1>4, <1>5, <1>6, <1>7, <1>8, <1>9, <1>10, <1>13, <1>14 DEF Next

\* What a consumer may decide about the end of an item of the current stage.
LEMMA DecisionFacts ==
    ASSUME TypeOK, NEW e \in End, loop.stage \in Stage, NEW d, d = Decision(e)
    PROVE  /\ d \in {"develop", "review", "fix", "done", "failed"}
           /\ d = "develop" => loop.stage = "plan"
           /\ d = "review" => loop.stage \in {"develop", "fix"}
           /\ d = "fix" => loop.stage = "review" /\ loop.iteration < MaxIterations
           /\ d = "done" => loop.stage = "review"
<1>1. loop.stage \in Stage /\ loop.iteration \in Nat
  BY DEF TypeOK, LoopRow
<1>2. e.approved \in BOOLEAN
  BY DEF End
<1>3. CASE e.type # "run.completed"
  BY <1>3 DEF Decision
<1>4. CASE e.type = "run.completed"
  <2>1. d = Decide(e.approved)
    BY <1>4 DEF Decision
  <2> QED BY <1>1, <1>2, <2>1, LoopAssumption DEF Decide, Stage
<1> QED BY <1>3, <1>4

\* How a decision is applied, with the items pointwise: n is 1 where an item was added.
LEMMA Applied ==
    ASSUME TypeOK, NEW e \in End, loop.stage \in Stage,
           NEW d, d = Decision(e), ApplyDecision(e, d)
    PROVE  /\ items' \in Seq(Item)
           /\ \A j \in 1..Len(items) :
                 items'[j] = IF j = e.item THEN Marked(items[j], TRUE) ELSE items[j]
           /\ loop' \in LoopRow
           /\ \/ /\ loop'.status \in {"done", "failed"} /\ Len(items') = Len(items)
                 /\ loop'.status = "done" => loop.stage = "review"
                 /\ \/ loop'.stage = NoStage /\ loop'.iteration = 0
                    \/ /\ loop'.status = "failed"
                       /\ loop'.stage = loop.stage /\ loop'.iteration = loop.iteration
              \/ /\ loop'.status = "running" /\ loop'.stage = d /\ d \in Stage
                 /\ loop'.iteration = IF d = "fix" THEN loop.iteration + 1 ELSE loop.iteration
                 /\ Len(items') = Len(items) + 1
                 /\ items'[Len(items) + 1] = NewItem(d)
<1> DEFINE seq == MarkItem(e, items, TRUE)
<1>1. /\ seq \in Seq(Item) /\ Len(seq) = Len(items)
      /\ \A j \in 1..Len(items) :
            seq[j] = IF j = e.item THEN Marked(items[j], TRUE) ELSE items[j]
  BY ItemMarked
<1>2. loop.iteration \in 0..MaxIterations /\ loop.stage \in Stage \union {NoStage}
  BY DEF TypeOK, LoopRow
<1>3. CASE d \in {"done", "failed"} /\ loop' = Row(d, NoStage, 0) /\ items' = seq
  <2>1. /\ loop' \in LoopRow /\ loop'.status = d
        /\ loop'.stage = NoStage /\ loop'.iteration = 0
    BY <1>3, LoopAssumption DEF Row, LoopRow, LoopStatus
  <2> QED BY <1>1, <1>3, <2>1, DecisionFacts
<1>4. CASE loop' = Row("failed", loop.stage, loop.iteration) /\ items' = seq
  <2>1. /\ loop' \in LoopRow /\ loop'.status = "failed"
        /\ loop'.stage = loop.stage /\ loop'.iteration = loop.iteration
    BY <1>2, <1>4 DEF Row, LoopRow, LoopStatus
  <2> QED BY <1>1, <1>4, <2>1
<1>5. CASE /\ d \in Stage
           /\ CreateTask(seq, d, IF d = "fix" THEN loop.iteration + 1 ELSE loop.iteration)
  <2>1. loop' = Row("running", d, IF d = "fix" THEN loop.iteration + 1 ELSE loop.iteration)
    BY <1>5 DEF CreateTask
  <2>2. (IF d = "fix" THEN loop.iteration + 1 ELSE loop.iteration) \in 0..MaxIterations
    BY <1>2, DecisionFacts, LoopAssumption
  <2>3. loop' \in LoopRow
    BY <1>5, <2>1, <2>2 DEF Row, LoopRow, LoopStatus
  <2>4. /\ items' \in Seq(Item) /\ Len(items') = Len(seq) + 1
        /\ items'[Len(seq) + 1] = NewItem(d)
        /\ \A j \in 1..Len(seq) : items'[j] = seq[j]
    BY <1>1, <1>5, TaskCreated
  <2> QED BY <1>1, <1>5, <2>1, <2>3, <2>4 DEF Row
<1> QED BY <1>3, <1>4, <1>5 DEF ApplyDecision

\* What is left of the loop where its decision is applied.
LEMMA AppliedLoop ==
    ASSUME TypeOK, NEW e \in End, loop.stage \in Stage, ApplyDecision(e, Decision(e))
    PROVE  \/ /\ loop'.status \in {"done", "failed"}
              /\ loop'.status = "done" => loop.stage = "review"
              /\ \/ loop'.stage = NoStage /\ loop'.iteration = 0
                 \/ /\ loop'.status = "failed"
                    /\ loop'.stage = loop.stage /\ loop'.iteration = loop.iteration
           \/ /\ loop'.status = "running" /\ loop'.stage = Decision(e) /\ Decision(e) \in Stage
              /\ loop'.iteration = IF Decision(e) = "fix" THEN loop.iteration + 1
                                   ELSE loop.iteration
<1> DEFINE d == Decision(e)
<1>1. d = Decision(e) /\ ApplyDecision(e, d)
  OBVIOUS
<1> HIDE DEF d
<1>2. \/ /\ loop'.status \in {"done", "failed"}
         /\ loop'.status = "done" => loop.stage = "review"
         /\ \/ loop'.stage = NoStage /\ loop'.iteration = 0
            \/ /\ loop'.status = "failed"
               /\ loop'.stage = loop.stage /\ loop'.iteration = loop.iteration
      \/ /\ loop'.status = "running" /\ loop'.stage = d /\ d \in Stage
         /\ loop'.iteration = IF d = "fix" THEN loop.iteration + 1 ELSE loop.iteration
  BY <1>1, Applied
<1> QED BY <1>1, <1>2

\* How a running loop is restored.
LEMMA RestoredLoop ==
    ASSUME TypeOK, RestoreOne
    PROVE  \/ UNCHANGED <<loop, items, override>>
           \/ /\ loop.status = "running" /\ loop' \in LoopRow /\ loop'.status = "failed"
              /\ \/ loop'.stage = NoStage /\ loop'.iteration = 0
                 \/ loop'.stage = loop.stage /\ loop'.iteration = loop.iteration
              /\ UNCHANGED items
           \/ /\ Abandoned /\ loop.status = "running" /\ loop' = loop /\ loop.stage \in Stage
              /\ items' \in Seq(Item) /\ Len(items') = Len(items) + 1
              /\ items'[Len(items) + 1] = NewItem(loop.stage)
              /\ \A j \in 1..Len(items) : items'[j] = items[j]
<1>1. loop \in LoopRow /\ items \in Seq(Item)
  BY DEF TypeOK
<1>2. CASE (Stageless \/ Abandoned) /\ (FailInvalid \/ TimeOut)
  <2>1. loop.status = "running"
    BY <1>2 DEF Stageless, Abandoned, Restored
  <2>2. /\ loop' \in LoopRow /\ loop'.status = "failed" /\ UNCHANGED items
        /\ \/ loop'.stage = NoStage /\ loop'.iteration = 0
           \/ loop'.stage = loop.stage /\ loop'.iteration = loop.iteration
    BY <1>1, <1>2, LoopAssumption DEF FailInvalid, TimeOut, Row, LoopRow, LoopStatus
  <2> QED BY <2>1, <2>2
<1>3. CASE Abandoned /\ CreateTask(items, loop.stage, loop.iteration)
  <2>1. loop.status = "running" /\ loop.stage # NoStage
    BY <1>3 DEF Abandoned, Restored
  <2>2. loop.stage \in Stage
    BY <1>1, <2>1 DEF LoopRow
  <2>3. loop' = loop
    BY <1>1, <1>3, <2>1 DEF CreateTask, Row, LoopRow
  <2>4. /\ items' \in Seq(Item) /\ Len(items') = Len(items) + 1
        /\ items'[Len(items) + 1] = NewItem(loop.stage)
        /\ \A j \in 1..Len(items) : items'[j] = items[j]
    BY <1>1, <1>3, <2>2, TaskCreated
  <2> QED BY <1>3, <2>1, <2>2, <2>3, <2>4
<1> QED BY <1>2, <1>3 DEF RestoreOne

LEMMA TypeStep ==
    ASSUME TypeOK, RowInv, [Next]_vars
    PROVE  TypeOK'
<1> DEFINE Claims == End \union {NoEnd}
           Kept == /\ loop' \in LoopRow
                   /\ items' \in Seq(Item) /\ Len(items) <= Len(items')
                   /\ ends' \subseteq End
                   /\ looking' \in [Projector -> Claims]
<1>a. /\ loop \in LoopRow /\ items \in Seq(Item) /\ ends \subseteq End
      /\ looking \in [Projector -> Claims] /\ Len(items) \in Nat
  BY ItemsAreItems DEF TypeOK
<1>b. ASSUME items' \in Seq(Item), Len(items) <= Len(items')
      PROVE  End \subseteq End'
  BY <1>a, <1>b, EndsKeepType, LenProperties
<1>c. ASSUME items' = items PROVE End' = End
  BY <1>c DEF End
<1>d. ASSUME NEW i \in 1..Len(items), NEW type \in EndType, NEW approved \in BOOLEAN,
             Tell(i, type, approved)
      PROVE  ends' \subseteq End
  <2>1. items[i].lost \in BOOLEAN
    BY <1>a, ItemsAreItems DEF Item
  <2>2. [item |-> i, late |-> items[i].lost, type |-> type, approved |-> approved,
         tries |-> 0] \in End
    BY <1>d, <2>1 DEF End
  <2> QED BY <1>a, <1>d, <2>2 DEF Tell
<1>e. Kept
  <2>1. CASE StartLoop
    <3>1. loop' = Row("running", "plan", 0) /\ UNCHANGED <<ends, looking>>
      BY <2>1 DEF StartLoop, CreateTask
    <3>2. items' \in Seq(Item) /\ Len(items') = Len(items) + 1
      BY <1>a, <2>1, TaskCreated DEF StartLoop, Stage
    <3> QED BY <1>a, <3>1, <3>2, LoopAssumption DEF Row, LoopRow, LoopStatus, Stage
  <2>2. CASE StartFails BY <1>a, <2>2 DEF StartFails
  <2>3. ASSUME NEW i \in 1..Len(items),
               \/ Claim(i) \/ Finish(i) \/ Requeue(i) \/ FailOffline(i) \/ Recover(i) \/ Withdraw(i)
        PROVE  Kept
    <3>1. UNCHANGED <<loop, looking>>
      BY <2>3 DEF Claim, Finish, Complete, Fail, Reject, Requeue, FailOffline, Recover, Withdraw,
                  userVars, serverVars
    <3>2. items' \in Seq(Item) /\ Len(items') = Len(items)
      <4>1. CASE \E s \in ItemStatus : SetItem(i, s)
        BY <4>1, StatusWritten
      <4>2. CASE FailOffline(i)
        <5>1. PICK s \in ItemStatus : items' = [items EXCEPT ![i].status = s, ![i].lost = TRUE]
          BY <4>2 DEF FailOffline, ItemStatus
        <5> QED BY <5>1, LossWritten
      <4> QED BY <2>3, <4>1, <4>2 DEF Claim, Finish, Complete, Fail, Reject, Requeue, Recover,
                                      Withdraw, ItemStatus
    <3>3. ends' \subseteq End
      <4>1. CASE UNCHANGED ends BY <1>a, <4>1
      <4>2. CASE \E type \in EndType, approved \in BOOLEAN : Tell(i, type, approved)
        BY <1>d, <4>2
      <4>3. ASSUME NEW approved \in BOOLEAN, Complete(i, approved)
            PROVE  \E type \in EndType, b \in BOOLEAN : Tell(i, type, b)
        BY <4>3 DEF Complete, EndType
      <4> QED BY <2>3, <4>1, <4>2, <4>3 DEF Claim, Finish, Fail, Reject, Requeue,
                                            FailOffline, Recover, Withdraw, EndType
    <3> QED BY <1>a, <3>1, <3>2, <3>3
  <2>4. CASE \E i \in 1..Len(items) :
               \/ Claim(i) \/ Finish(i) \/ Requeue(i) \/ FailOffline(i) \/ Recover(i) \/ Withdraw(i)
    BY <2>3, <2>4
  <2>5. CASE SideItem \/ AgentGoes \/ UNCHANGED vars
    BY <1>a, <2>5 DEF SideItem, AgentGoes, vars, userVars, serverVars
  <2>6. ASSUME NEW p \in Projector, NEW e \in ends, LoopClaim(p, e) PROVE Kept
    BY <1>a, <2>6 DEF LoopClaim
  <2>7. ASSUME NEW p \in Projector, LoopApplyFails(p) PROVE Kept
    <3>1. \A f \in End : [f EXCEPT !.tries = @ + 1] \in End
      BY DEF End
    <3>2. ends' \subseteq End
      BY <1>a, <2>7, <3>1 DEF LoopApplyFails
    <3> QED BY <1>a, <2>7, <3>2 DEF LoopApplyFails
  <2>8. ASSUME NEW p \in Projector, LoopApply(p) PROVE Kept
    <3> DEFINE e == looking[p]
    <3>1. e \in End /\ ends' \subseteq End /\ looking' \in [Projector -> Claims]
      BY <1>a, <2>8 DEF LoopApply
    <3>2. CASE Awaits(items[e.item].stage)
      <4>1. loop.stage \in Stage /\ ApplyDecision(e, Decision(e))
        <5>1. loop.stage = items[e.item].stage /\ ApplyDecision(e, Decision(e))
          BY <2>8, <3>2 DEF LoopApply, Awaits
        <5>2. items[e.item].stage \in Stage
          BY <1>a, <3>1, ItemsAreItems DEF End, Item
        <5> QED BY <5>1, <5>2
      <4>2. loop' \in LoopRow /\ items' \in Seq(Item) /\ Len(items) <= Len(items')
        <5> HIDE DEF e
        <5>1. e \in End
          BY <3>1
        <5>2. /\ loop' \in LoopRow /\ items' \in Seq(Item)
              /\ Len(items') = Len(items) \/ Len(items') = Len(items) + 1
          BY <4>1, <5>1, Applied
        <5> QED BY <1>a, <5>2
      <4> QED BY <3>1, <4>2
    <3>3. CASE ~Awaits(items[e.item].stage)
      <4>1. items' = MarkItem(e, items, FALSE) /\ UNCHANGED loop
        BY <2>8, <3>3 DEF LoopApply
      <4>2. MarkItem(e, items, FALSE) \in Seq(Item) /\ Len(MarkItem(e, items, FALSE)) = Len(items)
        <5> HIDE DEF e
        <5>1. e \in End
          BY <3>1
        <5> QED BY <5>1, ItemMarked
      <4>3. items' \in Seq(Item) /\ Len(items') = Len(items)
        BY <4>1, <4>2
      <4>4. loop' \in LoopRow
        BY <1>a, <4>1
      <4>5. Len(items) <= Len(items')
        BY <1>a, <4>3
      <4> QED BY <3>1, <4>3, <4>4, <4>5
    <3> QED BY <3>2, <3>3
  <2>9. CASE Restart
    BY <1>a, <2>9 DEF Restart
  <2>10. CASE Restore
    BY <1>a, <2>10, RestoredLoop DEF Restore
  <2>11. CASE \E u \in User, target \in {"paused", "running", "cancelled"} : AskRead(u, target)
    BY <1>a, <2>11 DEF AskRead, serverVars
  <2>12. CASE \E u \in User : AskWrite(u)
    <3>1. loop' \in LoopRow
      BY <2>12 DEF AskWrite, TypeOK
    <3> QED BY <1>a, <2>12, <3>1 DEF AskWrite, serverVars
  <2> QED BY <2>1, <2>2, <2>4, <2>5, <2>6, <2>7, <2>8, <2>9, <2>10, <2>11, <2>12 DEF Next, Consume
<1> QED BY <1>b, <1>e, ScalarsKeepType DEF TypeOK

-----------------------------------------------------------------------------
(* The row.                                                                *)

\* The steps of one item.
ItemStep(i) ==
    Claim(i) \/ Finish(i) \/ Requeue(i) \/ FailOffline(i) \/ Recover(i) \/ Withdraw(i)

LEMMA ItemStepKeeps ==
    ASSUME NEW i, ItemStep(i)
    PROVE  UNCHANGED <<loop, looking, creating, server, request, override, asks>>
  BY DEF ItemStep, Claim, Finish, Complete, Fail, Reject, Requeue, FailOffline, Recover,
         Withdraw, userVars, serverVars

\* What the consumer applies to the loop, and what it leaves.
Applies(e) ==
    /\ loop.status = "running" /\ loop.stage = items[e.item].stage /\ loop.stage \in Stage
    /\ ApplyDecision(e, Decision(e))
    /\ \A j \in 1..Len(items) :
          items'[j] = IF j = e.item THEN Marked(items[j], TRUE) ELSE items[j]

PassesOver(e) ==
    /\ ~(loop.status = "running" /\ loop.stage = items[e.item].stage)
    /\ loop' = loop /\ override' = override /\ Len(items') = Len(items)
    /\ \A j \in 1..Len(items) :
          items'[j] = IF j = e.item THEN Marked(items[j], FALSE) ELSE items[j]

LEMMA ApplyFacts ==
    ASSUME TypeOK, NEW p \in Projector, LoopApply(p), NEW e, e = looking[p]
    PROVE  /\ e # NoEnd /\ e \in End
           /\ ends' = {f \in ends : ~SameEnd(e, f)}
           /\ looking' = [looking EXCEPT ![p] = NoEnd]
           /\ UNCHANGED <<request, creating, server, asks>>
           /\ items' \in Seq(Item)
           /\ Applies(e) \/ PassesOver(e)
<1>1. e # NoEnd /\ e \in End
  BY DEF LoopApply, TypeOK
<1>2. CASE Awaits(items[e.item].stage)
  <2>1. loop.status = "running" /\ loop.stage = items[e.item].stage
    BY <1>2 DEF Awaits
  <2>2. ApplyDecision(e, Decision(e))
    BY <1>2 DEF LoopApply
  <2>3. loop.stage \in Stage
    BY <1>1, <2>1, ItemsAreItems DEF TypeOK, End, Item
  <2>4. /\ items' \in Seq(Item)
        /\ \A j \in 1..Len(items) :
              items'[j] = IF j = e.item THEN Marked(items[j], TRUE) ELSE items[j]
    BY <1>1, <2>2, <2>3, Applied
  <2> QED BY <1>1, <2>1, <2>2, <2>3, <2>4 DEF LoopApply, Applies
<1>3. CASE ~Awaits(items[e.item].stage)
  <2>1. items' = MarkItem(e, items, FALSE) /\ UNCHANGED <<loop, override>>
    BY <1>3 DEF LoopApply
  <2>2. /\ items' \in Seq(Item) /\ Len(items') = Len(items)
        /\ \A j \in 1..Len(items) :
              items'[j] = IF j = e.item THEN Marked(items[j], FALSE) ELSE items[j]
    BY <1>1, <2>1, ItemMarked
  <2> QED BY <1>1, <1>3, <2>1, <2>2 DEF LoopApply, Awaits, PassesOver
<1> QED BY <1>2, <1>3

LEMMA RowStep ==
    ASSUME TypeOK, RowInv, [Next]_vars
    PROVE  RowInv'
<1> DEFINE Asked == \A u \in User : request'[u] # NoRequest =>
                      request'[u].status \in {"paused", "running", "cancelled"} /\ asks' > 0
<1> USE DEF RowInv
<1>a. asks \in Nat /\ loop \in LoopRow /\ Len(items) \in Nat
  BY ItemsAreItems DEF TypeOK
<1>b. loop.status = "pending" => 1..Len(items) = {}
  BY EmptySeq
<1>c. ASSUME UNCHANGED <<loop, items, request, override, asks>> PROVE RowInv'
  BY <1>c DEF Shown
<1>1. CASE StartLoop
  <2>1. UNCHANGED <<request, asks>>
    BY <1>1 DEF StartLoop, userVars
  <2>2. loop' = Row("running", "plan", 0)
    BY <1>1 DEF StartLoop, CreateTask
  <2> QED BY <2>1, <2>2 DEF Row, Shown, Stage
<1>2. CASE StartFails BY <1>2, <1>c DEF StartFails, userVars
<1>3. ASSUME NEW i \in 1..Len(items), ItemStep(i) PROVE RowInv'
  <2>1. loop.status # "pending"
    BY <1>b, <1>3
  <2> QED BY <1>3, <2>1, ItemStepKeeps DEF Shown
<1>4. CASE SideItem \/ AgentGoes \/ UNCHANGED vars
  BY <1>4, <1>c DEF SideItem, AgentGoes, vars, userVars, serverVars
<1>5. ASSUME NEW p \in Projector, NEW e \in ends, LoopClaim(p, e) PROVE RowInv'
  BY <1>5, <1>c DEF LoopClaim, userVars
<1>6. ASSUME NEW p \in Projector, LoopApplyFails(p) PROVE RowInv'
  BY <1>6, <1>c DEF LoopApplyFails, userVars
<1>7. ASSUME NEW p \in Projector, LoopApply(p) PROVE RowInv'
  <2> DEFINE e == looking[p]
  <2>1. UNCHANGED <<request, asks>> /\ e \in End
    BY <1>7, ApplyFacts
  <2>2. CASE PassesOver(e)
    <3>1. loop.status # "pending"
      BY <1>b, <2>1 DEF End
    <3> QED BY <2>1, <2>2, <3>1 DEF Shown, PassesOver
  <2>3. CASE Applies(e)
    <3>1. loop.stage \in Stage /\ ApplyDecision(e, Decision(e))
      BY <2>3 DEF Applies
    <3>2. \/ loop'.status \in {"done", "failed"}
          \/ loop'.status = "running" /\ loop'.stage \in Stage
      BY <2>1, <3>1, AppliedLoop
    <3> QED BY <2>1, <3>2 DEF Shown
  <2> QED BY <1>7, <2>2, <2>3, ApplyFacts
<1>8. CASE Restart
  <2>1. UNCHANGED <<loop, items, override, asks>> /\ Asked
    BY <1>8 DEF Restart
  <2> QED BY <2>1 DEF Shown
<1>9. CASE Restore
  <2>1. UNCHANGED <<request, asks>> /\ RestoreOne
    BY <1>9 DEF Restore
  <2> QED BY <2>1, RestoredLoop DEF Shown
<1>10. ASSUME NEW u \in User, NEW target \in {"paused", "running", "cancelled"},
              AskRead(u, target)
       PROVE  RowInv'
  <2>1. /\ UNCHANGED <<loop, items, override>> /\ asks' = asks + 1
        /\ request' = [request EXCEPT ![u] = [loop EXCEPT !.status = target]]
    BY <1>10 DEF AskRead
  <2>2. [loop EXCEPT !.status = target].status = target
    BY <1>a DEF LoopRow
  <2>3. Asked
    BY <1>a, <2>1, <2>2 DEF TypeOK
  <2>4. asks' > 0
    BY <1>a, <2>1
  <2> QED BY <2>1, <2>3, <2>4 DEF Shown
<1>11. ASSUME NEW u \in User, AskWrite(u) PROVE RowInv'
  <2>1. /\ loop' = request[u] /\ request[u] # NoRequest /\ UNCHANGED <<items, asks>>
        /\ request' = [request EXCEPT ![u] = NoRequest]
        /\ override' = IF Overrides(u) THEN "standing" ELSE override
    BY <1>11 DEF AskWrite
  <2>2. loop'.status \in {"paused", "running", "cancelled"} /\ asks > 0
    BY <2>1
  <2>3. Asked
    BY <2>1 DEF TypeOK
  <2>4. Shown' /\ override' # "standing" => loop'.stage \in Stage
    BY <2>1, <2>2 DEF Overrides, Shown
  <2> QED BY <2>1, <2>2, <2>3, <2>4
<1> QED BY <1>1, <1>2, <1>3, <1>4, <1>5, <1>6, <1>7, <1>8, <1>9, <1>10, <1>11
        DEF Next, Consume, ItemStep

-----------------------------------------------------------------------------
(* The cycle.                                                              *)

\* Every write of the row, and every reading of it by a request, is a step of the cycle.
LEMMA CycleStep ==
    ASSUME TypeOK, RowInv, [Next]_vars
    PROVE  [Cycle!Next]_(Cycle!vars)
<1> USE DEF Cycle!vars
<1>a. loop \in LoopRow
  BY DEF TypeOK
<1>b. ASSUME UNCHANGED <<loop, request>> PROVE UNCHANGED Cycle!vars
  BY <1>b
<1>1. CASE StartLoop
  <2>1. loop = Row("pending", NoStage, 0)
    BY <1>1 DEF StartLoop, RowInv
  <2>2. loop' = Row("running", "plan", 0) /\ request' = request
    BY <1>1 DEF StartLoop, CreateTask, userVars
  <2>3. Cycle!Start
    BY <2>1, <2>2 DEF Cycle!Start, Row
  <2> QED BY <2>3 DEF Cycle!Next
<1>2. ASSUME NEW p \in Projector, LoopApply(p) PROVE Cycle!Next \/ UNCHANGED Cycle!vars
  <2> DEFINE e == looking[p]
  <2>1. request' = request /\ e \in End /\ (Applies(e) \/ PassesOver(e))
    BY <1>2, ApplyFacts
  <2>2. CASE PassesOver(e)
    BY <1>b, <2>1, <2>2 DEF PassesOver
  <2>3. CASE Applies(e)
    <3>1. loop.status = "running" /\ ApplyDecision(e, Decision(e)) /\ loop.stage \in Stage
      BY <2>3 DEF Applies
    <3>2. \/ /\ loop'.status \in {"done", "failed"}
             /\ loop'.status = "done" => loop.stage = "review"
             /\ \/ loop'.stage = NoStage /\ loop'.iteration = 0
                \/ /\ loop'.status = "failed"
                   /\ loop'.stage = loop.stage /\ loop'.iteration = loop.iteration
          \/ /\ loop'.status = "running" /\ loop'.stage = Decision(e) /\ Decision(e) \in Stage
             /\ loop'.iteration = IF Decision(e) = "fix" THEN loop.iteration + 1
                                  ELSE loop.iteration
      BY <2>1, <3>1, AppliedLoop
    <3>3. CASE loop'.status \in {"done", "failed"}
      BY <2>1, <3>1, <3>2, <3>3 DEF Cycle!Next, Cycle!Finish
    <3>4. CASE loop'.status = "running"
      <4>1. /\ Decision(e) = "develop" => loop.stage = "plan"
            /\ Decision(e) = "review" => loop.stage \in {"develop", "fix"}
            /\ Decision(e) = "fix" => loop.stage = "review" /\ loop.iteration < MaxIterations
            /\ Decision(e) \in {"develop", "review", "fix", "done", "failed"}
        BY <2>1, <3>1, DecisionFacts
      <4>2. Decision(e) \in {"develop", "review", "fix"}
        BY <3>2, <3>4, <4>1 DEF Stage
      <4>3. Cycle!Advance
        BY <2>1, <3>1, <3>2, <3>4, <4>1, <4>2 DEF Cycle!Advance
      <4> QED BY <4>3 DEF Cycle!Next
    <3> QED BY <3>2, <3>3, <3>4
  <2> QED BY <2>1, <2>2, <2>3
<1>3. CASE Restore
  <2>1. request' = request /\ RestoreOne
    BY <1>3 DEF Restore
  <2>2. CASE loop' = loop
    BY <1>b, <2>1, <2>2
  <2>3. CASE /\ loop.status = "running" /\ loop'.status = "failed"
             /\ \/ loop'.stage = NoStage /\ loop'.iteration = 0
                \/ loop'.stage = loop.stage /\ loop'.iteration = loop.iteration
    BY <2>1, <2>3 DEF Cycle!Next, Cycle!Finish
  <2> QED BY <2>1, <2>2, <2>3, RestoredLoop
<1>4. ASSUME NEW u \in User, AskWrite(u) PROVE Cycle!Next
  <2>1. Cycle!Answer(u)
    BY <1>4 DEF AskWrite, Cycle!Answer
  <2> QED BY <2>1 DEF Cycle!Next
<1>5. ASSUME NEW u \in User, NEW target \in {"paused", "running", "cancelled"},
             AskRead(u, target)
      PROVE  Cycle!Next
  <2>1. [loop EXCEPT !.status = target] =
           [status |-> target, stage |-> loop.stage, iteration |-> loop.iteration]
    BY <1>a DEF LoopRow
  <2>2. Cycle!Ask(u)
    BY <1>5, <2>1 DEF AskRead, Cycle!Ask
  <2> QED BY <2>2 DEF Cycle!Next
<1>6. CASE Restart
  BY <1>6 DEF Restart, Cycle!Next, Cycle!Forget
<1>7. CASE /\ ~StartLoop /\ ~Restore /\ ~Restart
           /\ \A p \in Projector : ~LoopApply(p)
           /\ \A u \in User : ~AskWrite(u)
           /\ \A u \in User, target \in {"paused", "running", "cancelled"} : ~AskRead(u, target)
  <2>1. ASSUME NEW i, ItemStep(i) PROVE UNCHANGED <<loop, request>>
    BY <2>1, ItemStepKeeps
  <2>2. UNCHANGED <<loop, request>>
    BY <1>7, <2>1 DEF Next, vars, ItemStep, StartFails, SideItem, AgentGoes, LoopClaim, Consume,
                      LoopApplyFails, userVars, serverVars
  <2> QED BY <1>b, <2>2
<1> QED BY <1>1, <1>2, <1>3, <1>4, <1>5, <1>6, <1>7

LEMMA TypeAtFirst ==
    ASSUME Init
    PROVE  TypeOK /\ RowInv
<1>1. loop \in LoopRow
  BY LoopAssumption DEF Init, Row, LoopRow, LoopStatus
<1>2. items \in Seq(Item)
  BY EmptySeq DEF Init
<1>3. TypeOK
  BY <1>1, <1>2 DEF Init, TypeOK
<1> QED BY <1>3 DEF Init, RowInv, Row, Shown

\* The loop goes through plan, develop, review and fix, pays each rejected review with
\* an iteration and completes with an approved review only; a user's request writes
\* what it read, with no lock (handler/loop.go, transitionLoopStatus), and puts the loop
\* nowhere the cycle had not led: EngineeringLoop implements LoopCycle (coordinator.go).
THEOREM LoopGoesThroughItsCycle == Spec => ImplementsLoopCycle
<1>1. Init => TypeOK /\ RowInv
  BY TypeAtFirst
<1>2. Init => Cycle!Init
  BY DEF Init, Cycle!Init, Row
<1>3. TypeOK /\ RowInv /\ [Next]_vars => TypeOK' /\ RowInv'
  BY TypeStep, RowStep
<1>4. TypeOK /\ RowInv /\ [Next]_vars => [Cycle!Next]_(Cycle!vars)
  BY CycleStep
<1> QED BY <1>1, <1>2, <1>3, <1>4, PTL DEF Spec, ImplementsLoopCycle, Cycle!Spec

-----------------------------------------------------------------------------
(* The items.                                                              *)

\* A step of item i moves it between the queue and its agent, or tells its end.
Works(i) ==
    /\ ends' = ends /\ items'[i].lost = items[i].lost
    /\ \/ InFlight(i) /\ items'[i].status \in {"waiting", "running", "over"}
       \/ items[i].status = "offline" /\ items'[i].status = "waiting"

Finishes(i) ==
    /\ StaleClaimsSettle /\ InFlight(i)
    /\ \E type \in EndType, approved \in BOOLEAN : Tell(i, type, approved)
    /\ \/ items'[i].status = "over" /\ items'[i].lost = items[i].lost
       \/ items'[i].status \in {"over", "offline"} /\ items'[i].lost

LEMMA ItemStepFacts ==
    ASSUME TypeOK, NEW i \in 1..Len(items), ItemStep(i)
    PROVE  /\ items' \in Seq(Item) /\ Len(items') = Len(items)
           /\ \A j \in 1..Len(items) : j # i => items'[j] = items[j]
           /\ items'[i].stage = items[i].stage
           /\ items'[i].moved = items[i].moved /\ items'[i].ignored = items[i].ignored
           /\ Works(i) \/ Finishes(i)
<1>a. items[i] \in Item
  BY ItemsAreItems DEF TypeOK
<1>b. ASSUME NEW s \in ItemStatus, SetItem(i, s)
      PROVE  /\ items' \in Seq(Item) /\ Len(items') = Len(items)
             /\ \A j \in 1..Len(items) : j # i => items'[j] = items[j]
             /\ items'[i].stage = items[i].stage /\ items'[i].moved = items[i].moved
             /\ items'[i].ignored = items[i].ignored /\ items'[i].lost = items[i].lost
             /\ items'[i].status = s
  <2>1. /\ items' \in Seq(Item) /\ Len(items') = Len(items)
        /\ \A j \in 1..Len(items) :
              items'[j] = IF j = i THEN [items[i] EXCEPT !.status = s] ELSE items[j]
    BY <1>b, StatusWritten
  <2> QED BY <1>a, <2>1 DEF Item
<1>1. CASE Claim(i) \/ Requeue(i) \/ Recover(i) \/ Withdraw(i)
  <2>1. PICK s \in ItemStatus :
           /\ SetItem(i, s) /\ ends' = ends
           /\ \/ InFlight(i) /\ s \in {"waiting", "running", "over"}
              \/ items[i].status = "offline" /\ s = "waiting"
    BY <1>1 DEF Claim, Requeue, Recover, Withdraw, InFlight, ItemStatus
  <2> QED BY <1>b, <2>1 DEF Works
<1>2. CASE Finish(i)
  <2>1. /\ SetItem(i, "over") /\ StaleClaimsSettle /\ InFlight(i)
        /\ \E type \in EndType, approved \in BOOLEAN : Tell(i, type, approved)
    BY <1>2 DEF Finish, Complete, Fail, Reject, InFlight, EndType
  <2>2. "over" \in ItemStatus
    BY DEF ItemStatus
  <2>3. items'[i].status = "over" /\ items'[i].lost = items[i].lost
    BY <1>b, <2>1, <2>2
  <2>4. Finishes(i)
    BY <2>1, <2>3 DEF Finishes
  <2> QED BY <1>b, <2>1, <2>2, <2>4
<1>3. CASE FailOffline(i)
  <2>1. PICK s \in ItemStatus :
           /\ s \in {"over", "offline"}
           /\ items' = [items EXCEPT ![i].status = s, ![i].lost = TRUE]
    BY <1>3 DEF FailOffline, ItemStatus
  <2>2. /\ items' \in Seq(Item) /\ Len(items') = Len(items)
        /\ \A j \in 1..Len(items) :
              items'[j] = IF j = i THEN [items[i] EXCEPT !.status = s, !.lost = TRUE]
                          ELSE items[j]
    BY <2>1, LossWritten
  <2>3. /\ items'[i].stage = items[i].stage /\ items'[i].moved = items[i].moved
        /\ items'[i].ignored = items[i].ignored
        /\ items'[i].status = s /\ items'[i].lost
    BY <1>a, <2>2 DEF Item
  <2>4. /\ StaleClaimsSettle /\ InFlight(i)
        /\ \E type \in EndType, approved \in BOOLEAN : Tell(i, type, approved)
    BY <1>3 DEF FailOffline, EndType
  <2>5. items'[i].status \in {"over", "offline"}
    <3>1. s \in {"over", "offline"}
      BY <2>1
    <3> QED BY <2>3, <3>1
  <2>6. Finishes(i)
    BY <2>3, <2>4, <2>5 DEF Finishes
  <2> QED BY <2>2, <2>3, <2>6
<1> QED BY <1>1, <1>2, <1>3 DEF ItemStep

\* A step that adds an item to a loop without items, or for a stage nobody works on.
Adds(stage) ==
    /\ UNCHANGED <<ends, asks>>
    /\ items' \in Seq(Item) /\ Len(items') = Len(items) + 1
    /\ items'[Len(items) + 1] = NewItem(stage)
    /\ \A j \in 1..Len(items) : items'[j] = items[j]
    /\ stage \in Stage /\ loop'.stage = stage /\ loop'.status = "running"

LEMMA StartAdds ==
    ASSUME TypeOK, RowInv, StartLoop
    PROVE  Adds("plan") /\ Len(items) = 0 /\ UNCHANGED looking
<1>1. items = <<>> /\ Len(items) = 0
  BY DEF StartLoop, RowInv
<1>2. CreateTask(items, "plan", 0) /\ UNCHANGED <<ends, asks, looking>>
  BY DEF StartLoop, userVars
<1>3. "plan" \in Stage /\ items \in Seq(Item)
  BY DEF Stage, TypeOK
<1>4. /\ items' \in Seq(Item) /\ Len(items') = Len(items) + 1
      /\ items'[Len(items) + 1] = NewItem("plan")
      /\ \A j \in 1..Len(items) : items'[j] = items[j]
  BY <1>2, <1>3, TaskCreated
<1> QED BY <1>1, <1>2, <1>3, <1>4 DEF Adds, CreateTask, Row

\* What the restore does to loop and items.
LEMMA RestoreFacts ==
    ASSUME TypeOK, Restore
    PROVE  /\ UNCHANGED <<ends, looking, asks>> /\ \A p \in Projector : looking[p] = NoEnd
           /\ \/ UNCHANGED <<loop, items, override>>
              \/ items' = items /\ loop'.status = "failed"
              \/ Abandoned /\ Adds(loop.stage)
<1>1. /\ UNCHANGED <<ends, looking, asks>> /\ \A p \in Projector : looking[p] = NoEnd
      /\ RestoreOne
  BY DEF Restore
<1>2. ASSUME Abandoned, loop.status = "running", loop' = loop, loop.stage \in Stage,
             items' \in Seq(Item), Len(items') = Len(items) + 1,
             items'[Len(items) + 1] = NewItem(loop.stage),
             \A j \in 1..Len(items) : items'[j] = items[j]
      PROVE  Adds(loop.stage)
  BY <1>1, <1>2 DEF Adds
<1> QED BY <1>1, <1>2, RestoredLoop

\* The consumer moves the loop on to another item or ends it, or passes the fact over.
MovesOn(e) ==
    /\ loop.status = "running" /\ loop.stage = items[e.item].stage
    /\ \A j \in 1..Len(items) :
          items'[j] = IF j = e.item THEN Marked(items[j], TRUE) ELSE items[j]
    /\ \/ loop'.status \in {"done", "failed"} /\ Len(items') = Len(items)
       \/ /\ loop'.status = "running" /\ loop'.stage # loop.stage
          /\ Len(items') = Len(items) + 1
          /\ items'[Len(items) + 1] = NewItem(loop'.stage)

LEMMA ApplyCases ==
    ASSUME TypeOK, NEW p \in Projector, LoopApply(p), NEW e, e = looking[p]
    PROVE  /\ e # NoEnd /\ e \in End
           /\ ends' = {f \in ends : ~SameEnd(e, f)}
           /\ looking' = [looking EXCEPT ![p] = NoEnd]
           /\ asks' = asks /\ items' \in Seq(Item) /\ Len(items) \in Nat
           /\ MovesOn(e) \/ PassesOver(e)
<1>1. e \in End /\ Len(items) \in Nat
  BY ApplyFacts, ItemsAreItems DEF TypeOK
<1>2. /\ e # NoEnd /\ ends' = {f \in ends : ~SameEnd(e, f)}
      /\ looking' = [looking EXCEPT ![p] = NoEnd]
      /\ asks' = asks /\ items' \in Seq(Item)
  BY ApplyFacts
<1>3. CASE Applies(e)
  <2>1. /\ loop.status = "running" /\ loop.stage = items[e.item].stage
        /\ ApplyDecision(e, Decision(e)) /\ loop.stage \in Stage
        /\ \A j \in 1..Len(items) :
              items'[j] = IF j = e.item THEN Marked(items[j], TRUE) ELSE items[j]
    BY <1>3 DEF Applies
  <2>2. \/ loop'.status \in {"done", "failed"} /\ Len(items') = Len(items)
        \/ /\ loop'.status = "running" /\ loop'.stage = Decision(e) /\ Decision(e) \in Stage
           /\ Len(items') = Len(items) + 1
           /\ items'[Len(items) + 1] = NewItem(Decision(e))
    BY <1>1, <2>1, Applied
  <2>3. Decision(e) \in Stage => Decision(e) # loop.stage
    BY <1>1, <2>1, DecisionFacts DEF Stage
  <2>4. MovesOn(e)
    BY <2>1, <2>2, <2>3 DEF MovesOn
  <2> QED BY <1>1, <1>2, <2>4
<1>4. CASE PassesOver(e)
  BY <1>1, <1>2, <1>4
<1> QED BY <1>3, <1>4, ApplyFacts

\* Steps that leave the loop, its items and their ends: a consumer may claim an end or
\* lose its claim, and a user may ask.
Rests ==
    /\ UNCHANGED <<loop, items, ends, override>> /\ asks <= asks'
    /\ \A p \in Projector : looking'[p] = looking[p] \/ looking'[p] \in ends \union {NoEnd}

LEMMA StepCases ==
    ASSUME TypeOK, [Next]_vars
    PROVE  \/ StartLoop
           \/ \E i \in 1..Len(items) : ItemStep(i)
           \/ Rests
           \/ \E p \in Projector : LoopApplyFails(p)
           \/ \E p \in Projector : LoopApply(p)
           \/ Restore
           \/ \E u \in User : AskWrite(u)
<1>a. asks \in Nat /\ looking \in [Projector -> End \union {NoEnd}]
  BY DEF TypeOK
<1>1. CASE StartFails \/ SideItem \/ AgentGoes \/ UNCHANGED vars
  <2>1. UNCHANGED <<loop, items, ends, override, asks, looking>>
    BY <1>1 DEF StartFails, SideItem, AgentGoes, vars, userVars, serverVars
  <2> QED BY <1>a, <2>1 DEF Rests
<1>2. ASSUME NEW p \in Projector, NEW e \in ends, LoopClaim(p, e) PROVE Rests
  BY <1>a, <1>2 DEF LoopClaim, Rests, userVars
<1>3. CASE Restart
  BY <1>a, <1>3 DEF Restart, Rests
<1>4. ASSUME NEW u \in User, NEW target \in {"paused", "running", "cancelled"},
             AskRead(u, target)
      PROVE  Rests
  BY <1>a, <1>4 DEF AskRead, Rests, serverVars
<1> QED BY <1>1, <1>2, <1>3, <1>4 DEF Next, Consume, ItemStep

\* A failed delivery is counted, and nothing else.
LEMMA FailsFacts ==
    ASSUME TypeOK, NEW p \in Projector, LoopApplyFails(p)
    PROVE  /\ UNCHANGED <<loop, items, override, asks>>
           /\ \A q \in Projector : looking'[q] = IF q = p THEN NoEnd ELSE looking[q]
           /\ \A f \in ends' : \E e \in ends : SameEnd(e, f)
           /\ \A e \in ends : \E f \in ends' : SameEnd(e, f)
<1>1. looking' = [looking EXCEPT ![p] = NoEnd] /\ looking \in [Projector -> End \union {NoEnd}]
  BY DEF LoopApplyFails, TypeOK
<1>2. /\ \A f \in ends' : \E e \in ends : SameEnd(e, f)
      /\ \A e \in ends : \E f \in ends' : SameEnd(e, f)
  <2> DEFINE New(f) == IF SameEnd(looking[p], f) THEN [f EXCEPT !.tries = @ + 1] ELSE f
  <2>1. ends' = {New(f) : f \in ends}
    BY DEF LoopApplyFails
  <2>2. \A f \in ends : SameEnd(f, New(f))
    <3>1. \A f \in End : SameEnd(f, [f EXCEPT !.tries = @ + 1]) /\ SameEnd(f, f)
      BY DEF End, SameEnd
    <3> QED BY <3>1 DEF TypeOK
  <2> HIDE DEF New
  <2> QED BY <2>1, <2>2
<1> QED BY <1>1, <1>2 DEF LoopApplyFails, userVars

\* A user's write, unless it puts the loop where it was not, ends the loop or changes
\* its status alone.
LEMMA AskWriteFacts ==
    ASSUME TypeOK, RowInv, NEW u \in User, AskWrite(u)
    PROVE  /\ UNCHANGED <<items, ends, looking, asks>>
           /\ \/ override' = "standing"
              \/ override' = override /\ (Shown' => Shown /\ loop'.stage = loop.stage)
<1>1. /\ UNCHANGED <<items, ends, looking, asks>> /\ loop' = request[u]
      /\ override' = IF Overrides(u) THEN "standing" ELSE override
  BY DEF AskWrite, serverVars
<1>2. ~Overrides(u) => (Shown' => Shown /\ loop'.stage = loop.stage)
  BY <1>1 DEF Overrides, Shown
<1> QED BY <1>1, <1>2

\* No step undoes that a request put the loop where it was not.
LEMMA OverrideStays ==
    ASSUME TypeOK, [Next]_vars, override' = "none"
    PROVE  override = "none"
<1>1. CASE Restore
  BY <1>1 DEF Restore, RestoreOne, Overtaken
<1>2. ASSUME NEW p \in Projector, LoopApply(p) PROVE override = "none"
  BY <1>2 DEF LoopApply, Overtaken
<1>3. ASSUME NEW u \in User, AskWrite(u) PROVE override = "none"
  BY <1>3 DEF AskWrite
<1>4. ASSUME NEW i \in 1..Len(items), ItemStep(i) PROVE override = "none"
  BY <1>4, ItemStepKeeps
<1>5. CASE StartLoop
  BY <1>5 DEF StartLoop, userVars
<1>6. CASE Rests \/ \E p \in Projector : LoopApplyFails(p)
  BY <1>6, FailsFacts DEF Rests
<1> QED BY <1>1, <1>2, <1>3, <1>4, <1>5, <1>6, StepCases

-----------------------------------------------------------------------------
(* A loop waits for its newest item.                                       *)

LEMMA NewestIsAwaited ==
    ASSUME Len(items) \in Nat, Len(items') = Len(items) + 1,
           items'[Len(items) + 1] = NewItem(loop'.stage)
    PROVE  WaitInv'
<1>1. PICK n \in Nat : n = Len(items) + 1
  OBVIOUS
<1>2. n \in 1..Len(items') /\ Len(items') = n
  BY <1>1
<1>3. items'[n].stage = loop'.stage /\ items'[n].moved = 0 /\ ~items'[n].ignored
  BY <1>1 DEF NewItem
<1>4. StageItem(n)'
  BY <1>1, <1>2, <1>3 DEF StageItem
<1> QED BY <1>2, <1>3, <1>4 DEF WaitInv

LEMMA AddedIsAwaited ==
    ASSUME TypeOK, NEW stage, Adds(stage)
    PROVE  WaitInv'
<1>1. Len(items) \in Nat
  BY ItemsAreItems DEF TypeOK
<1>2. Len(items') = Len(items) + 1 /\ items'[Len(items) + 1] = NewItem(loop'.stage)
  BY DEF Adds
<1> QED BY <1>1, <1>2, NewestIsAwaited

\* The row and what is awaited of the items stay.
LEMMA WaitKept ==
    ASSUME TypeOK, RowInv, WaitInv, asks <= asks', asks' \in Nat,
           Shown' /\ override' # "standing" =>
              Shown /\ override # "standing" /\ loop'.stage = loop.stage,
           Len(items') = Len(items),
           \A j \in 1..Len(items) :
              items'[j].stage = items[j].stage /\ items'[j].moved = items[j].moved,
           \A j \in 1..Len(items) : items'[j].ignored =>
              items[j].ignored \/ asks > 0 \/ loop.stage # items[j].stage
    PROVE  WaitInv'
<1> SUFFICES ASSUME Shown', override' # "standing" PROVE WaitInv'
  BY DEF WaitInv
<1>1. Len(items) \in Nat /\ asks \in Nat
  BY ItemsAreItems DEF TypeOK
<1>2. PICK i \in 1..Len(items) :
         StageItem(i) /\ items[i].moved = 0 /\ (items[i].ignored => asks > 0)
  BY DEF WaitInv
<1>3. StageItem(i)'
  BY <1>1, <1>2 DEF StageItem
<1>4. items'[i].moved = 0 /\ i \in 1..Len(items')
  BY <1>2
<1>5. items'[i].ignored => asks' > 0
  <2>1. loop.stage = items[i].stage
    BY <1>2 DEF StageItem
  <2> QED BY <1>1, <1>2, <2>1
<1> QED BY <1>3, <1>4, <1>5 DEF WaitInv

LEMMA WaitStep ==
    ASSUME TypeOK, TypeOK', RowInv, WaitInv, [Next]_vars
    PROVE  WaitInv'
<1>a. asks \in Nat /\ asks' \in Nat /\ Len(items) \in Nat
  BY ItemsAreItems DEF TypeOK
<1>1. CASE StartLoop
  BY <1>1, StartAdds, AddedIsAwaited
<1>2. ASSUME NEW i \in 1..Len(items), ItemStep(i) PROVE WaitInv'
  <2>1. UNCHANGED <<loop, override, asks>>
    BY <1>2, ItemStepKeeps
  <2>2. /\ Len(items') = Len(items)
        /\ \A j \in 1..Len(items) :
              /\ items'[j].stage = items[j].stage /\ items'[j].moved = items[j].moved
              /\ items'[j].ignored = items[j].ignored
    BY <1>2, ItemStepFacts
  <2> QED BY <1>a, <2>1, <2>2, WaitKept DEF Shown
<1>3. CASE Rests
  BY <1>a, <1>3, WaitKept DEF Rests, Shown
<1>4. ASSUME NEW p \in Projector, LoopApplyFails(p) PROVE WaitInv'
  <2>1. UNCHANGED <<loop, items, override, asks>>
    BY <1>4, FailsFacts
  <2> QED BY <1>a, <2>1, WaitKept DEF Shown
<1>5. ASSUME NEW p \in Projector, LoopApply(p) PROVE WaitInv'
  <2> PICK e : e = looking[p]
    OBVIOUS
  <2>1. asks' = asks /\ e \in End
    BY <1>5, ApplyCases
  <2>2. CASE loop'.status \in {"done", "failed"}
    BY <2>2 DEF WaitInv, Shown
  <2>3. CASE /\ loop'.status = "running" /\ Len(items') = Len(items) + 1
             /\ items'[Len(items) + 1] = NewItem(loop'.stage)
    BY <1>a, <2>3, NewestIsAwaited
  <2>4. CASE PassesOver(e)
    <3>1. \A x \in Item : /\ Marked(x, FALSE).stage = x.stage
                          /\ Marked(x, FALSE).moved = x.moved
      BY DEF Item, Marked
    <3>2. \A j \in 1..Len(items) :
             /\ items'[j].stage = items[j].stage /\ items'[j].moved = items[j].moved
             /\ j # e.item => items'[j].ignored = items[j].ignored
      BY <2>4, <3>1, ItemsAreItems DEF TypeOK, PassesOver
    <3>3. CASE Shown
      <4>1. asks > 0 \/ loop.stage # items[e.item].stage
        BY <2>4, <3>3 DEF RowInv, Shown, PassesOver
      <4>2. \A j \in 1..Len(items) : items'[j].ignored =>
               items[j].ignored \/ asks > 0 \/ loop.stage # items[j].stage
        BY <3>2, <4>1
      <4> QED BY <1>a, <2>1, <2>4, <3>2, <4>2, WaitKept DEF Shown, PassesOver
    <3>4. CASE ~Shown
      BY <2>4, <3>4 DEF WaitInv, Shown, PassesOver
    <3> QED BY <3>3, <3>4
  <2>5. MovesOn(e) \/ PassesOver(e)
    BY <1>5, ApplyCases
  <2> QED BY <2>2, <2>3, <2>4, <2>5 DEF MovesOn
<1>6. CASE Restore
  <2>1. CASE UNCHANGED <<loop, items, override>>
    <3>1. asks' = asks
      BY <1>6, RestoreFacts
    <3> QED BY <1>a, <2>1, <3>1, WaitKept DEF Shown
  <2>2. CASE loop'.status = "failed"
    BY <2>2 DEF WaitInv, Shown
  <2>3. CASE Adds(loop.stage)
    BY <2>3, AddedIsAwaited
  <2> QED BY <1>6, <2>1, <2>2, <2>3, RestoreFacts
<1>7. ASSUME NEW u \in User, AskWrite(u) PROVE WaitInv'
  <2>1. CASE override' = "standing"
    BY <2>1 DEF WaitInv
  <2>2. CASE override' = override /\ (Shown' => Shown /\ loop'.stage = loop.stage)
    <3>1. UNCHANGED <<items, asks>>
      BY <1>7, AskWriteFacts
    <3> QED BY <1>a, <2>2, <3>1, WaitKept
  <2> QED BY <1>7, <2>1, <2>2, AskWriteFacts
<1> QED BY <1>1, <1>2, <1>3, <1>4, <1>5, <1>6, <1>7, StepCases

-----------------------------------------------------------------------------
(* An item that no sweep has taken for lost ends once.                     *)

\* Ends and claims speak of items of the loop.
LEMMA EndsHaveItems ==
    ASSUME TypeOK
    PROVE  /\ \A e \in ends : e \in End /\ e.item \in 1..Len(items)
           /\ \A p \in Projector : looking[p] # NoEnd =>
                 looking[p] \in End /\ looking[p].item \in 1..Len(items)
  BY DEF TypeOK, End

\* Where ends and items stay, a claim on one of the ends keeps the invariant.
LEMMA EndKept ==
    ASSUME EndInv, UNCHANGED <<items, ends>>,
           \A p \in Projector : looking'[p] = looking[p] \/ looking'[p] \in ends \union {NoEnd}
    PROVE  EndInv'
  BY DEF EndInv, InFlight

LEMMA AddedHasNoEnd ==
    ASSUME TypeOK, EndInv, UNCHANGED <<ends, looking>>, Len(items') = Len(items) + 1,
           NEW stage, items'[Len(items) + 1] = NewItem(stage),
           \A j \in 1..Len(items) : items'[j] = items[j]
    PROVE  EndInv'
<1>1. PICK n \in Nat : n = Len(items)
  BY ItemsAreItems DEF TypeOK
<1>2. 1..Len(items') = 1..n \union {n + 1}
  BY <1>1
<1>3. \A i \in 1..Len(items') :
         /\ items'[i].status = "offline" => items'[i].lost
         /\ items'[i].status \in {"waiting", "running"} /\ ~items'[i].lost => items'[i].moved = 0
  BY <1>1, <1>2 DEF EndInv, InFlight, NewItem
<1>4. /\ \A e \in ends : items'[e.item] = items[e.item]
      /\ \A p \in Projector : looking[p] # NoEnd => items'[looking[p].item] = items[looking[p].item]
  BY EndsHaveItems
<1> QED BY <1>3, <1>4 DEF EndInv, InFlight

LEMMA FinishTells ==
    ASSUME NEW i, Finishes(i)
    PROVE  \E t : ends' = ends \union {t} /\ t.item = i /\ t.late = items[i].lost
<1>1. PICK type \in EndType, approved \in BOOLEAN : Tell(i, type, approved)
  BY DEF Finishes
<1> DEFINE t == [item |-> i, late |-> items[i].lost, type |-> type, approved |-> approved,
                 tries |-> 0]
<1>2. t.item = i /\ t.late = items[i].lost
  OBVIOUS
<1>3. ends' = ends \union {t}
  BY <1>1 DEF Tell
<1> HIDE DEF t
<1> QED BY <1>2, <1>3

LEMMA EndStep ==
    ASSUME TypeOK, TypeOK', RowInv, EndInv, [Next]_vars
    PROVE  EndInv'
<1>1. CASE StartLoop
  <2>1. Adds("plan") /\ UNCHANGED looking
    BY <1>1, StartAdds
  <2> QED BY <2>1, AddedHasNoEnd DEF Adds
<1>2. ASSUME NEW i \in 1..Len(items), ItemStep(i) PROVE EndInv'
  <2>1. /\ Len(items') = Len(items) /\ looking' = looking
        /\ \A j \in 1..Len(items) : j # i => items'[j] = items[j]
        /\ items'[i].moved = items[i].moved
    BY <1>2, ItemStepFacts, ItemStepKeeps
  <2>2. ~items[i].lost /\ items[i].status # "over" =>
           /\ \A e \in ends : e.item # i
           /\ \A p \in Projector : looking[p] # NoEnd => looking[p].item # i
    BY DEF EndInv
  <2>3. CASE Works(i)
    <3>1. items[i].status # "over"
      BY <2>3 DEF Works, InFlight
    <3>2. /\ items'[i].status = "offline" => items'[i].lost
          /\ items'[i].status \in {"waiting", "running"} /\ ~items'[i].lost =>
                items'[i].moved = 0
      BY <2>1, <2>3 DEF Works, EndInv, InFlight
    <3>3. ends' = ends /\ items'[i].lost = items[i].lost
      BY <2>3 DEF Works
    <3> QED BY <2>1, <2>2, <3>1, <3>2, <3>3, EndsHaveItems DEF EndInv, InFlight
  <2>4. CASE Finishes(i)
    <3>1. InFlight(i) /\ items[i].status # "over"
      BY <2>4 DEF Finishes, InFlight
    <3>2. /\ items'[i].status = "offline" => items'[i].lost
          /\ items'[i].status \in {"over", "offline"}
          /\ ~items'[i].lost => /\ items'[i].status = "over" /\ ~items[i].lost
                                /\ items[i].moved = 0
      BY <2>1, <2>4, <3>1 DEF Finishes, EndInv
    <3>3. PICK t : ends' = ends \union {t} /\ t.item = i /\ t.late = items[i].lost
      BY <2>4, FinishTells
    <3>4. /\ \A j \in 1..Len(items') :
                /\ items'[j].status = "offline" => items'[j].lost
                /\ items'[j].status \in {"waiting", "running"} /\ ~items'[j].lost =>
                      items'[j].moved = 0
      BY <2>1, <3>2 DEF EndInv, InFlight
    <3>5. \A e \in ends' : ~items'[e.item].lost =>
             ~e.late /\ items'[e.item].status = "over" /\ items'[e.item].moved = 0
      <4>1. ~items'[t.item].lost =>
               ~t.late /\ items'[t.item].status = "over" /\ items'[t.item].moved = 0
        BY <2>1, <3>2, <3>3
      <4>2. ASSUME NEW e \in ends, ~items'[e.item].lost
            PROVE  ~e.late /\ items'[e.item].status = "over" /\ items'[e.item].moved = 0
        <5>1. e.item # i
          BY <2>2, <3>1, <3>2, <4>2
        <5> QED BY <2>1, <4>2, <5>1, EndsHaveItems DEF EndInv
      <4> QED BY <3>3, <4>1, <4>2
    <3>6. \A p \in Projector : looking'[p] # NoEnd /\ ~items'[looking'[p].item].lost =>
             ~looking'[p].late /\ items'[looking'[p].item].status = "over"
      BY <2>1, <2>2, <3>1, <3>2, EndsHaveItems DEF EndInv
    <3> QED BY <3>4, <3>5, <3>6 DEF EndInv, InFlight
  <2> QED BY <1>2, <2>3, <2>4, ItemStepFacts
<1>3. CASE Rests
  BY <1>3, EndKept DEF Rests
<1>4. ASSUME NEW p \in Projector, LoopApplyFails(p) PROVE EndInv'
  <2>1. /\ items' = items
        /\ \A q \in Projector : looking'[q] = IF q = p THEN NoEnd ELSE looking[q]
        /\ \A f \in ends' : \E e \in ends : SameEnd(e, f)
    BY <1>4, FailsFacts
  <2> QED BY <2>1 DEF EndInv, InFlight, SameEnd
<1>5. ASSUME NEW p \in Projector, LoopApply(p) PROVE EndInv'
  <2> PICK e : e = looking[p]
    OBVIOUS
  <2>1. /\ e # NoEnd /\ e \in End /\ e.item \in 1..Len(items)
        /\ ends' = {f \in ends : ~SameEnd(e, f)}
        /\ Len(items) \in Nat
        /\ \A q \in Projector : looking'[q] = IF q = p THEN NoEnd ELSE looking[q]
    <3>1. looking \in [Projector -> End \union {NoEnd}] /\ looking' = [looking EXCEPT ![p] = NoEnd]
      BY <1>5, ApplyCases DEF TypeOK
    <3> QED BY <1>5, <3>1, ApplyCases, EndsHaveItems
  <2>2. \A x \in Item, b \in BOOLEAN :
           Marked(x, b).status = x.status /\ Marked(x, b).lost = x.lost
    BY DEF Item, Marked
  <2>3. MovesOn(e) \/ PassesOver(e)
    BY <1>5, ApplyCases
  <2>4. /\ \A j \in 1..Len(items) : items'[j].status = items[j].status /\ items'[j].lost = items[j].lost
        /\ \A j \in 1..Len(items) : j # e.item => items'[j] = items[j]
    BY <2>1, <2>2, <2>3, ItemsAreItems, ZenonT(60) DEF TypeOK, MovesOn, PassesOver
  <2>5. \/ Len(items') = Len(items)
        \/ Len(items') = Len(items) + 1 /\ items'[Len(items) + 1] = NewItem(loop'.stage)
    BY <2>3 DEF MovesOn, PassesOver
  <2>6. ~items[e.item].lost => ~e.late /\ items[e.item].status = "over"
    BY <2>1 DEF EndInv
  <2>7. \A j \in 1..Len(items') :
           /\ items'[j].status = "offline" => items'[j].lost
           /\ items'[j].status \in {"waiting", "running"} /\ ~items'[j].lost => items'[j].moved = 0
    <3>1. ASSUME NEW j \in 1..Len(items)
          PROVE  /\ items'[j].status = "offline" => items'[j].lost
                 /\ items'[j].status \in {"waiting", "running"} /\ ~items'[j].lost =>
                       items'[j].moved = 0
      BY <2>4, <2>6 DEF EndInv, InFlight
    <3>2. \A j \in 1..Len(items') : j \in 1..Len(items) \/ items'[j] = NewItem(loop'.stage)
      BY <2>1, <2>5
    <3> QED BY <3>1, <3>2 DEF NewItem
  <2>8. ASSUME NEW f \in ends', ~items'[f.item].lost
        PROVE  ~f.late /\ items'[f.item].status = "over" /\ items'[f.item].moved = 0
    <3>1. f \in ends /\ ~SameEnd(e, f) /\ f.item \in 1..Len(items)
      BY <2>1, EndsHaveItems
    <3>2. ~items[f.item].lost /\ ~f.late /\ items[f.item].status = "over"
          /\ items[f.item].moved = 0
      BY <2>4, <2>8, <3>1 DEF EndInv
    <3>3. f.item # e.item
      <4>1. f.late \in BOOLEAN /\ e.late \in BOOLEAN
        BY <2>1, <3>1, EndsHaveItems DEF End
      <4> QED BY <2>6, <3>1, <3>2, <4>1 DEF SameEnd
    <3> QED BY <2>4, <3>1, <3>2, <3>3
  <2>9. \A q \in Projector : looking'[q] # NoEnd /\ ~items'[looking'[q].item].lost =>
           ~looking'[q].late /\ items'[looking'[q].item].status = "over"
    BY <2>1, <2>4, EndsHaveItems DEF EndInv
  <2> QED BY <2>7, <2>8, <2>9 DEF EndInv, InFlight
<1>6. CASE Restore
  <2>1. UNCHANGED <<ends, looking>>
    BY <1>6, RestoreFacts
  <2>2. CASE items' = items
    BY <2>1, <2>2, EndKept
  <2>3. CASE Adds(loop.stage)
    BY <2>1, <2>3, AddedHasNoEnd DEF Adds
  <2> QED BY <1>6, <2>2, <2>3, RestoreFacts
<1>7. ASSUME NEW u \in User, AskWrite(u) PROVE EndInv'
  BY <1>7, AskWriteFacts, EndKept
<1> QED BY <1>1, <1>2, <1>3, <1>4, <1>5, <1>6, <1>7, StepCases

-----------------------------------------------------------------------------
(* One item at a time.                                                     *)

\* What is taken for lost stays so, and what moved the loop has moved it.
LEMMA LossStays ==
    ASSUME TypeOK, TypeOK', RowInv, [Next]_vars
    PROVE  /\ 1..Len(items) \subseteq 1..Len(items')
           /\ \A j \in 1..Len(items) :
                 (items[j].lost => items'[j].lost) /\ items'[j].moved >= items[j].moved
<1>a. /\ Len(items) \in Nat /\ Len(items') \in Nat
      /\ \A j \in 1..Len(items) : items[j] \in Item /\ items[j].moved \in Nat
  BY ItemsAreItems DEF TypeOK, Item
<1> DEFINE Same == items' = items
           More == /\ Len(items') = Len(items) + 1
                   /\ \A j \in 1..Len(items) : items'[j] = items[j]
<1>1. CASE Same \/ More
  BY <1>a, <1>1
<1>2. ASSUME NEW i \in 1..Len(items), ItemStep(i)
      PROVE  /\ Len(items') = Len(items)
             /\ \A j \in 1..Len(items) :
                   (items[j].lost => items'[j].lost) /\ items'[j].moved = items[j].moved
  <2>1. /\ Len(items') = Len(items) /\ \A j \in 1..Len(items) : j # i => items'[j] = items[j]
        /\ items'[i].moved = items[i].moved /\ (Works(i) \/ Finishes(i))
    BY <1>2, ItemStepFacts
  <2>2. items[i].lost => items'[i].lost
    BY <2>1 DEF Works, Finishes
  <2> QED BY <2>1, <2>2
<1>3. ASSUME NEW p \in Projector, LoopApply(p)
      PROVE  /\ Len(items') = Len(items) \/ Len(items') = Len(items) + 1
             /\ \A j \in 1..Len(items) :
                   (items[j].lost => items'[j].lost) /\ items'[j].moved >= items[j].moved
  <2> PICK e : e = looking[p]
    OBVIOUS
  <2>1. \A x \in Item, b \in BOOLEAN :
           Marked(x, b).lost = x.lost /\ Marked(x, b).moved = IF b THEN x.moved + 1 ELSE x.moved
    BY DEF Item, Marked
  <2>2. MovesOn(e) \/ PassesOver(e)
    BY <1>3, ApplyCases
  <2>3. Len(items') = Len(items) \/ Len(items') = Len(items) + 1
    BY <2>2 DEF MovesOn, PassesOver
  <2>4. \A j \in 1..Len(items) : \/ items'[j] = items[j]
                                 \/ items'[j] = Marked(items[j], TRUE)
                                 \/ items'[j] = Marked(items[j], FALSE)
    BY <2>2 DEF MovesOn, PassesOver
  <2>5. ASSUME NEW j \in 1..Len(items) PROVE items'[j].moved >= items[j].moved
    <3>1. /\ Marked(items[j], TRUE).moved = items[j].moved + 1
          /\ Marked(items[j], FALSE).moved = items[j].moved
      BY <1>a, <2>1
    <3>2. items[j].moved \in Nat
      BY <1>a
    <3>3. items'[j].moved = items[j].moved \/ items'[j].moved = items[j].moved + 1
      BY <2>4, <3>1
    <3> QED BY ONLY <3>2, <3>3
  <2>6. \A j \in 1..Len(items) : items[j].lost => items'[j].lost
    BY <1>a, <2>1, <2>4
  <2> QED BY <2>3, <2>5, <2>6
<1>4. CASE StartLoop \/ Restore
  BY <1>1, <1>4, StartAdds, RestoreFacts DEF Adds
<1>5. CASE Rests \/ (\E u \in User : AskWrite(u)) \/ \E p \in Projector : LoopApplyFails(p)
  BY <1>1, <1>5, FailsFacts, AskWriteFacts DEF Rests
<1>6. CASE \E i \in 1..Len(items) : ItemStep(i)
  BY <1>a, <1>2, <1>6
<1>7. CASE \E p \in Projector : LoopApply(p)
  BY <1>a, <1>3, <1>7
<1> QED BY <1>4, <1>5, <1>6, <1>7, StepCases

\* The four together, where no item taken for lost has moved the loop.
OneWorks == OneAtWork /\ WorkIsCurrent /\ StaleIsHarmless /\ MovedOnce

\* Steps that give work to nobody and leave no claim behind.
LEMMA OneKept ==
    ASSUME TypeOK, OneWorks, Len(items') = Len(items), Shown' => Shown /\ loop'.stage = loop.stage,
           \A j \in 1..Len(items) :
              items'[j].stage = items[j].stage /\ items'[j].moved = items[j].moved,
           \A j \in 1..Len(items) : AtWork(j)' => AtWork(j),
           \A p \in Projector : Stale(p)' => Stale(p) /\ looking'[p] = looking[p],
           (\A e \in ends : items[e.item].lost) => \A e \in ends' : items'[e.item].lost
    PROVE  OneWorks'
<1>1. OneAtWork' /\ WorkIsCurrent' /\ MovedOnce'
  BY DEF OneWorks, OneAtWork, WorkIsCurrent, MovedOnce
<1>2. ASSUME NEW p \in Projector, Stale(p)'
      PROVE  /\ \A e \in ends' : items'[e.item].lost
             /\ \A q \in Projector : Stale(q)' => looking'[q].item = looking'[p].item
             /\ Shown' /\ items'[looking'[p].item].stage = loop'.stage =>
                   /\ items'[looking'[p].item].moved = 0
                   /\ \A i \in 1..Len(items') : ~AtWork(i)'
  <2>1. Stale(p) /\ looking'[p] = looking[p]
    BY <1>2
  <2>2. looking[p].item \in 1..Len(items)
    BY <2>1, EndsHaveItems DEF Stale
  <2>3. \A e \in ends' : items'[e.item].lost
    BY <2>1 DEF OneWorks, StaleIsHarmless
  <2>4. \A q \in Projector : Stale(q)' => looking'[q].item = looking'[p].item
    BY <2>1 DEF OneWorks, StaleIsHarmless
  <2>5. ASSUME Shown', items'[looking'[p].item].stage = loop'.stage
        PROVE  /\ items'[looking'[p].item].moved = 0
               /\ \A i \in 1..Len(items') : ~AtWork(i)'
    <3>1. items[looking[p].item].moved = 0 /\ \A i \in 1..Len(items) : ~AtWork(i)
      BY <2>1, <2>2, <2>5 DEF OneWorks, StaleIsHarmless
    <3> QED BY <2>1, <2>2, <3>1
  <2> QED BY <2>3, <2>4, <2>5
<1> QED BY <1>1, <1>2 DEF OneWorks, StaleIsHarmless

\* A new item where nobody was at work and no consumer has claimed an end.
LEMMA OneAdded ==
    ASSUME TypeOK, MovedOnce, NEW stage, Adds(stage),
           \A i \in 1..Len(items) : ~AtWork(i),
           \A p \in Projector : looking'[p] = NoEnd
    PROVE  OneWorks'
<1>1. PICK n \in Nat : n = Len(items)
  BY ItemsAreItems DEF TypeOK
<1>2. 1..Len(items') = 1..n \union {n + 1}
  BY <1>1 DEF Adds
<1>3. \A i \in 1..Len(items') : AtWork(i)' => i = n + 1
  <2>1. \A i \in 1..n : AtWork(i)' => AtWork(i)
    BY <1>1 DEF Adds, AtWork, InFlight, Told
  <2> QED BY <1>1, <1>2, <2>1
<1>4. items'[n + 1].stage = loop'.stage /\ items'[n + 1].moved = 0
  BY <1>1 DEF Adds, NewItem
<1>5. OneAtWork' /\ WorkIsCurrent'
  BY <1>3, <1>4 DEF OneAtWork, WorkIsCurrent
<1>6. MovedOnce'
  BY <1>1, <1>2, <1>4 DEF MovedOnce, Adds
<1>7. \A p \in Projector : ~Stale(p)'
  BY DEF Stale
<1> QED BY <1>5, <1>6, <1>7 DEF OneWorks, StaleIsHarmless

\* Mutual ends.
LEMMA SameEndIsMutual ==
    \A e, f, g : SameEnd(e, f) => SameEnd(f, e) /\ (SameEnd(f, g) => SameEnd(e, g))
  BY DEF SameEnd

LEMMA OneStepOfItem ==
    ASSUME TypeOK, RowInv, EndInv, OneWorks, NEW i \in 1..Len(items), ItemStep(i)
    PROVE  OneWorks'
<1>1. /\ Len(items') = Len(items)
      /\ \A j \in 1..Len(items) : j # i => items'[j] = items[j]
      /\ items'[i].stage = items[i].stage /\ items'[i].moved = items[i].moved
      /\ Works(i) \/ Finishes(i)
      /\ loop' = loop /\ looking' = looking
  BY ItemStepFacts, ItemStepKeeps
<1>2. \A j \in 1..Len(items) :
         items'[j].stage = items[j].stage /\ items'[j].moved = items[j].moved
  BY <1>1
<1>3. CASE Works(i)
  <2>1. ends' = ends /\ items'[i].lost = items[i].lost
    BY <1>3 DEF Works
  <2>2. ~items[i].lost => InFlight(i)
    BY <1>3 DEF Works, EndInv
  <2>3. \A j \in 1..Len(items) : AtWork(j)' => AtWork(j)
    BY <1>1, <2>1, <2>2 DEF AtWork, InFlight, Told
  <2>4. \A j \in 1..Len(items) : items'[j].lost = items[j].lost
    BY <1>1, <2>1
  <2>5. \A p \in Projector : Stale(p)' => Stale(p) /\ looking'[p] = looking[p]
    BY <1>1, <2>1, <2>4, EndsHaveItems DEF Stale
  <2>6. (\A e \in ends : items[e.item].lost) => \A e \in ends' : items'[e.item].lost
    BY <2>1, <2>4, EndsHaveItems
  <2> QED BY <1>1, <1>2, <2>3, <2>5, <2>6, OneKept DEF Shown
<1>4. CASE Finishes(i)
  <2>1. InFlight(i) /\ StaleClaimsSettle
    BY <1>4 DEF Finishes
  <2>2. PICK t : ends' = ends \union {t} /\ t.item = i
    BY <1>4, FinishTells
  <2>3. items[i].lost => items'[i].lost
    BY <1>4 DEF Finishes
  <2>4. \A j \in 1..Len(items) : AtWork(j)' => AtWork(j)
    BY <1>1, <2>1, <2>2, <2>3 DEF AtWork, InFlight, Told
  <2>5. \A p \in Projector : ~Stale(p)'
    BY <1>1, <2>1, <2>2, SameEndIsMutual DEF Stale, StaleClaimsSettle
  <2>6. OneAtWork' /\ WorkIsCurrent' /\ MovedOnce'
    BY <1>1, <1>2, <2>4 DEF OneWorks, OneAtWork, WorkIsCurrent, MovedOnce, Shown
  <2> QED BY <2>5, <2>6 DEF OneWorks, StaleIsHarmless
<1> QED BY <1>1, <1>3, <1>4

LEMMA OneStepOfApply ==
    ASSUME TypeOK, RowInv, EndInv, OneWorks, ~LostMoved', NEW p \in Projector, LoopApply(p)
    PROVE  OneWorks'
<1> PICK e : e = looking[p]
  OBVIOUS
<1> PICK n : n = Len(items)
  OBVIOUS
<1>1. /\ e # NoEnd /\ e \in End /\ e.item \in 1..n /\ n \in Nat
      /\ ends' = {f \in ends : ~SameEnd(e, f)}
      /\ \A q \in Projector : looking'[q] = IF q = p THEN NoEnd ELSE looking[q]
  <2>1. looking \in [Projector -> End \union {NoEnd}] /\ looking' = [looking EXCEPT ![p] = NoEnd]
    BY ApplyCases DEF TypeOK
  <2> QED BY <2>1, ApplyCases, EndsHaveItems
<1>2. MovesOn(e) \/ PassesOver(e)
  BY ApplyCases
<1>3. \A x \in Item, b \in BOOLEAN :
         /\ Marked(x, b).status = x.status /\ Marked(x, b).lost = x.lost
         /\ Marked(x, b).stage = x.stage
         /\ Marked(x, b).moved = IF b THEN x.moved + 1 ELSE x.moved
  BY DEF Item, Marked
<1>4. \A j \in 1..n : items[j] \in Item /\ items[j].moved \in Nat
  BY ItemsAreItems DEF TypeOK, Item
<1>5. /\ \A j \in 1..n : /\ items'[j].status = items[j].status
                         /\ items'[j].lost = items[j].lost
                         /\ items'[j].stage = items[j].stage
      /\ \A j \in 1..n : j # e.item => items'[j] = items[j]
  <2>1. \A j \in 1..n : \/ items'[j] = items[j]
                        \/ items'[j] = Marked(items[j], TRUE)
                        \/ items'[j] = Marked(items[j], FALSE)
    BY <1>2 DEF MovesOn, PassesOver
  <2>2. \A j \in 1..n : j # e.item => items'[j] = items[j]
    BY <1>2 DEF MovesOn, PassesOver
  <2>3. ASSUME NEW j \in 1..n
        PROVE  /\ items'[j].status = items[j].status
               /\ items'[j].lost = items[j].lost
               /\ items'[j].stage = items[j].stage
    <3>1. \A b \in BOOLEAN : /\ Marked(items[j], b).status = items[j].status
                             /\ Marked(items[j], b).lost = items[j].lost
                             /\ Marked(items[j], b).stage = items[j].stage
      BY <1>3, <1>4
    <3> QED BY <2>1, <3>1
  <2> QED BY <2>2, <2>3
<1>6. MovesOn(e) => items'[e.item].moved = items[e.item].moved + 1
  <2>1. MovesOn(e) => items'[e.item] = Marked(items[e.item], TRUE)
    BY <1>1 DEF MovesOn
  <2>2. Marked(items[e.item], TRUE).moved = items[e.item].moved + 1
    BY <1>1, <1>3, <1>4
  <2> QED BY <2>1, <2>2
<1>7. PassesOver(e) => Len(items') = n /\ \A j \in 1..n : items'[j].moved = items[j].moved
  BY <1>3, <1>4 DEF PassesOver
<1>8. \A j \in 1..n : AtWork(j)' => AtWork(j)
  BY <1>1, <1>5 DEF AtWork, InFlight, Told
<1>9. \A f \in ends' : f \in ends /\ f.item \in 1..n /\ ~SameEnd(e, f)
  BY <1>1, EndsHaveItems
<1>10. CASE items[e.item].lost
  <2>1. PassesOver(e)
    <3>1. SUFFICES ASSUME MovesOn(e) PROVE FALSE
      BY <1>2
    <3>2. items'[e.item].lost /\ items'[e.item].moved > 0
      BY <1>1, <1>4, <1>5, <1>6, <1>10, <3>1
    <3>3. e.item \in 1..Len(items')
      BY <1>1, <3>1 DEF MovesOn
    <3> QED BY <3>2, <3>3 DEF LostMoved
  <2>2. ASSUME NEW q \in Projector, Stale(q)' PROVE Stale(q) /\ looking'[q] = looking[q]
    <3>1. looking'[q] = looking[q] /\ looking[q] # NoEnd
      BY <1>1, <2>2 DEF Stale
    <3>2. ~items[looking[q].item].lost
      BY <1>5, <2>2, <3>1, EndsHaveItems DEF Stale
    <3>3. \A f \in ends : ~SameEnd(f, looking[q])
      BY <1>1, <1>10, <2>2, <3>1, <3>2 DEF Stale, SameEnd
    <3> QED BY <3>1, <3>2, <3>3 DEF Stale
  <2>3. (\A f \in ends : items[f.item].lost) => \A f \in ends' : items'[f.item].lost
    BY <1>5, <1>9
  <2>4. loop' = loop
    BY <2>1 DEF PassesOver
  <2> QED BY <1>5, <1>7, <1>8, <2>1, <2>2, <2>3, <2>4, OneKept DEF Shown
<1>11. CASE ~items[e.item].lost
  <2>1. ~e.late /\ items[e.item].status = "over"
    BY <1>1, <1>11 DEF EndInv
  <2>2. \A f \in ends' : ~items[f.item].lost => f.item # e.item
    <3>1. ASSUME NEW f \in ends', ~items[f.item].lost PROVE ~f.late
      BY <1>9, <3>1 DEF EndInv
    <3>2. \A f \in ends' : f.late \in BOOLEAN /\ e.late \in BOOLEAN
      BY <1>1, <1>9, EndsHaveItems DEF End
    <3> QED BY <1>9, <2>1, <3>1, <3>2 DEF SameEnd
  <2>3. ~Stale(p) => \E f \in ends : f.item = e.item
    BY <1>1, <1>11 DEF Stale, SameEnd
  <2>4. \A f \in ends' : items[f.item].lost
    <3>1. CASE Stale(p)
      BY <1>9, <3>1 DEF OneWorks, StaleIsHarmless
    <3>2. CASE ~Stale(p)
      <4>1. AtWork(e.item)
        BY <1>11, <2>3, <3>2 DEF AtWork, Told
      <4>2. \A f \in ends' : ~items[f.item].lost => AtWork(f.item)
        BY <1>9 DEF AtWork, Told
      <4> QED BY <1>1, <1>9, <2>2, <4>1, <4>2 DEF OneWorks, OneAtWork
    <3> QED BY <3>1, <3>2
  <2>5. ASSUME NEW q \in Projector, Stale(q)'
        PROVE  looking'[q] = looking[q] /\ looking[q].item = e.item
    <3>1. looking'[q] = looking[q] /\ looking[q] # NoEnd
      BY <1>1, <2>5 DEF Stale
    <3>2. ~items[looking[q].item].lost
      BY <1>5, <2>5, <3>1, EndsHaveItems DEF Stale
    <3>3. CASE Stale(q)
      <4>1. \A f \in ends : items[f.item].lost
        BY <3>3 DEF OneWorks, StaleIsHarmless
      <4>2. Stale(p)
        BY <1>11, <2>3, <4>1
      <4> QED BY <3>1, <3>3, <4>2 DEF OneWorks, StaleIsHarmless
    <3>4. CASE ~Stale(q)
      <4>1. PICK f \in ends : SameEnd(f, looking[q])
        BY <3>1, <3>2, <3>4 DEF Stale
      <4>2. f \notin ends'
        BY <2>5, <3>1, <4>1 DEF Stale
      <4>3. SameEnd(e, f)
        BY <1>1, <4>2
      <4> QED BY <3>1, <4>1, <4>3 DEF SameEnd
    <3> QED BY <3>3, <3>4
  <2>6. ASSUME Shown, items[e.item].stage = loop.stage
        PROVE  items[e.item].moved = 0 /\ \A j \in 1..n : ~AtWork(j)'
    <3>1. CASE Stale(p)
      BY <1>8, <2>6, <3>1 DEF OneWorks, StaleIsHarmless
    <3>2. CASE ~Stale(p)
      <4>1. AtWork(e.item)
        BY <1>11, <2>3, <3>2 DEF AtWork, Told
      <4>2. items[e.item].moved = 0
        BY <1>11, <2>3, <3>2 DEF EndInv
      <4>3. ~AtWork(e.item)'
        BY <1>1, <1>5, <1>11, <2>1, <2>4 DEF AtWork, InFlight, Told
      <4> QED BY <1>1, <1>8, <4>1, <4>2, <4>3 DEF OneWorks, OneAtWork
    <3> QED BY <3>1, <3>2
  <2>7. \A f \in ends' : items'[f.item].lost
    BY <1>5, <1>9, <2>4
  <2>8. CASE MovesOn(e)
    <3>1. items[e.item].moved = 0 /\ \A j \in 1..n : ~AtWork(j)'
      BY <2>6, <2>8 DEF MovesOn, Shown
    <3>2. \A j \in 1..Len(items') : j \in 1..n \/ (j = n + 1 /\ items'[j] = NewItem(loop'.stage))
      BY <1>1, <2>8 DEF MovesOn
    <3>3. OneAtWork' /\ WorkIsCurrent'
      BY <3>1, <3>2 DEF OneAtWork, WorkIsCurrent, NewItem
    <3>4. MovedOnce'
      <4>1. items'[e.item].moved = 1
        BY <1>6, <2>8, <3>1
      <4>2. \A j \in 1..n : items'[j].moved <= 1
        BY <1>5, <4>1 DEF OneWorks, MovedOnce
      <4>3. NewItem(loop'.stage).moved <= 1
        BY DEF NewItem
      <4> QED BY <3>2, <4>2, <4>3 DEF MovedOnce
    <3>5. ~(Shown' /\ items'[e.item].stage = loop'.stage)
      BY <1>1, <1>5, <2>8 DEF MovesOn, Shown
    <3>6. StaleIsHarmless'
      BY <2>5, <2>7, <3>5 DEF StaleIsHarmless
    <3> QED BY <3>3, <3>4, <3>6 DEF OneWorks
  <2>9. CASE PassesOver(e)
    <3>1. Len(items') = n /\ loop' = loop /\ \A j \in 1..n : items'[j].moved = items[j].moved
      BY <1>7, <2>9 DEF PassesOver
    <3>2. OneAtWork' /\ WorkIsCurrent' /\ MovedOnce'
      BY <1>5, <1>8, <3>1 DEF OneWorks, OneAtWork, WorkIsCurrent, MovedOnce, Shown
    <3>3. Shown' /\ items'[e.item].stage = loop'.stage =>
             items'[e.item].moved = 0 /\ \A j \in 1..n : ~AtWork(j)'
      BY <1>1, <1>5, <2>6, <3>1 DEF Shown
    <3>4. StaleIsHarmless'
      BY <2>5, <2>7, <3>1, <3>3 DEF StaleIsHarmless
    <3> QED BY <3>2, <3>4 DEF OneWorks
  <2> QED BY <1>2, <2>8, <2>9
<1> QED BY <1>10, <1>11

LEMMA OneStep ==
    ASSUME TypeOK, TypeOK', RowInv, EndInv, OneInv, [Next]_vars
    PROVE  OneInv'
<1> SUFFICES ASSUME ~LostMoved', override' = "none" PROVE OneWorks'
  BY DEF OneInv, OneWorks
<1>a. OneWorks
  <2>1. ~LostMoved
    <3>1. SUFFICES ASSUME NEW j \in 1..Len(items), items[j].lost, items[j].moved > 0 PROVE FALSE
      BY DEF LostMoved
    <3>2. items[j].moved \in Nat /\ items'[j].moved \in Nat
      BY LossStays, ItemsAreItems DEF TypeOK, Item
    <3>3. j \in 1..Len(items') /\ items'[j].lost /\ items'[j].moved > 0
      BY <3>1, <3>2, LossStays
    <3> QED BY <3>3 DEF LostMoved
  <2> QED BY <2>1, OverrideStays DEF OneInv, OneWorks
<1>b. ASSUME UNCHANGED <<items, ends, looking>>, Shown' => Shown /\ loop'.stage = loop.stage
      PROVE  OneWorks'
  <2>1. \A i \in 1..Len(items) : AtWork(i)' => AtWork(i)
    BY <1>b DEF AtWork, InFlight, Told
  <2>2. \A p \in Projector : Stale(p)' => Stale(p) /\ looking'[p] = looking[p]
    BY <1>b DEF Stale
  <2> QED BY <1>a, <1>b, <2>1, <2>2, OneKept
<1>1. CASE StartLoop
  <2>1. Adds("plan") /\ Len(items) = 0 /\ UNCHANGED looking
    BY <1>1, StartAdds
  <2>2. \A p \in Projector : looking'[p] = NoEnd
    BY <2>1, EndsHaveItems
  <2> QED BY <1>a, <2>1, <2>2, OneAdded DEF OneWorks
<1>2. ASSUME NEW i \in 1..Len(items), ItemStep(i) PROVE OneWorks'
  BY <1>a, <1>2, OneStepOfItem
<1>3. CASE Rests
  <2>1. UNCHANGED <<loop, items, ends>>
    BY <1>3 DEF Rests
  <2>2. \A i \in 1..Len(items) : AtWork(i)' => AtWork(i)
    BY <2>1 DEF AtWork, InFlight, Told
  <2>3. \A p \in Projector : Stale(p)' => Stale(p) /\ looking'[p] = looking[p]
    BY <1>3 DEF Stale, Rests, SameEnd
  <2> QED BY <1>a, <2>1, <2>2, <2>3, OneKept DEF Shown
<1>4. ASSUME NEW p \in Projector, LoopApplyFails(p) PROVE OneWorks'
  <2>1. /\ UNCHANGED <<loop, items>>
        /\ \A q \in Projector : looking'[q] = IF q = p THEN NoEnd ELSE looking[q]
        /\ \A f \in ends' : \E e \in ends : SameEnd(e, f)
        /\ \A e \in ends : \E f \in ends' : SameEnd(e, f)
    BY <1>4, FailsFacts
  <2>2. \A i \in 1..Len(items) : AtWork(i)' => AtWork(i)
    BY <2>1 DEF AtWork, InFlight, Told, SameEnd
  <2>3. \A q \in Projector : Stale(q)' => Stale(q) /\ looking'[q] = looking[q]
    BY <2>1, SameEndIsMutual DEF Stale
  <2>4. (\A e \in ends : items[e.item].lost) => \A e \in ends' : items'[e.item].lost
    BY <2>1 DEF SameEnd
  <2> QED BY <1>a, <2>1, <2>2, <2>3, <2>4, OneKept DEF Shown
<1>5. ASSUME NEW p \in Projector, LoopApply(p) PROVE OneWorks'
  BY <1>a, <1>5, OneStepOfApply
<1>6. CASE Restore
  <2>1. UNCHANGED <<ends, looking>> /\ \A p \in Projector : looking'[p] = NoEnd
    BY <1>6, RestoreFacts
  <2>2. CASE UNCHANGED <<loop, items, override>>
    BY <1>b, <2>1, <2>2 DEF Shown
  <2>3. CASE items' = items /\ loop'.status = "failed"
    BY <1>b, <2>1, <2>3 DEF Shown
  <2>4. CASE Abandoned /\ Adds(loop.stage)
    <3>1. Shown /\ ~HasInFlightTask(loop.stage) /\ ~HasPendingEvent(loop.stage)
      BY <2>4 DEF Abandoned, Restored, Shown
    <3>2. \A i \in 1..Len(items) : ~AtWork(i)
      <4>1. SUFFICES ASSUME NEW i \in 1..Len(items), AtWork(i) PROVE FALSE
        OBVIOUS
      <4>2. items[i].stage = loop.stage
        BY <1>a, <3>1, <4>1 DEF OneWorks, WorkIsCurrent
      <4> QED BY <3>1, <4>1, <4>2 DEF AtWork, Told, HasInFlightTask, HasPendingEvent
    <3> QED BY <1>a, <2>1, <2>4, <3>2, OneAdded DEF OneWorks
  <2> QED BY <1>6, <2>2, <2>3, <2>4, RestoreFacts
<1>7. ASSUME NEW u \in User, AskWrite(u) PROVE OneWorks'
  BY <1>b, <1>7, AskWriteFacts
<1> QED BY <1>1, <1>2, <1>3, <1>4, <1>5, <1>6, <1>7, StepCases

-----------------------------------------------------------------------------
(* What holds of every reachable state.                                    *)

\* The inductive invariant.
THEOREM LoopInvariant == Spec => []LoopInv
<1>1. Init => LoopInv
  <2> SUFFICES ASSUME Init PROVE LoopInv
    OBVIOUS
  <2>1. TypeOK /\ RowInv
    BY TypeAtFirst
  <2>2. Len(items) = 0 /\ ends = {} /\ ~Shown /\ \A p \in Projector : looking[p] = NoEnd
    BY EmptySeq DEF Init, Shown, Row
  <2>3. WaitInv /\ EndInv /\ OneInv
    BY <2>2 DEF WaitInv, EndInv, OneInv, OneAtWork, WorkIsCurrent, StaleIsHarmless, MovedOnce,
                Stale
  <2> QED BY <2>1, <2>3 DEF LoopInv
<1>2. LoopInv /\ [Next]_vars => LoopInv'
  BY TypeStep, RowStep, WaitStep, EndStep, OneStep DEF LoopInv
<1> QED BY <1>1, <1>2, PTL DEF Spec

\* An item moves the loop at most once, whatever is claimed twice or delivered again,
\* unless one taken for lost came back and moved it or a request put the loop back at a
\* stage it had left (lifecycle_projector.go:74).
THEOREM ItemsMoveTheLoopOnce == Spec => []AppliedOnce
<1>1. LoopInv => AppliedOnce
  BY DEF LoopInv, OneInv, MovedOnce, AppliedOnce
<1> QED BY <1>1, LoopInvariant, PTL

\* A running loop waits for its newest item: the consumer has not used its end up,
\* except while a user had the loop paused, and until the coordinator has moved a loop
\* that a request put back (coordinator.go, decideNextStage).
THEOREM LoopWaitsForItsItem == Spec => []AwaitsItsItem
<1>1. LoopInv => AwaitsItsItem
  BY DEF LoopInv, WaitInv, AwaitsItsItem, Shown
<1> QED BY <1>1, LoopInvariant, PTL

\* Of the items that no sweep has taken for lost one at most is in flight: neither the
\* consumer nor the restore gives work to two agents, where no request puts the loop back
\* (coordinator.go, restoreOne).
THEOREM OneAgentAtATime == Spec => []OneStageAtATime
<1>1. LoopInv => OneStageAtATime
  BY DEF LoopInv, OneInv, OneAtWork, AtWork, OneStageAtATime
<1> QED BY <1>1, LoopInvariant, PTL
=============================================================================
