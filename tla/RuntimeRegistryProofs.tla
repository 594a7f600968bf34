------------------------- MODULE RuntimeRegistryProofs -------------------------
(***************************************************************************)
(* Theorems about RuntimeRegistry for any runtimes, items and budgets.     *)
(*                                                                         *)
(* The instance_id in a row tells who may recover.  Two facts about it are *)
(* inductive.  While an item is held by the present process, the row of    *)
(* its runtime names that process and no request of another is under way   *)
(* (Held).  And, as long as nothing failed, a row that names the present   *)
(* process has no orphan, unless the recovery of that row is the very next *)
(* statement of the request (Adopted).                                     *)
(***************************************************************************)
EXTENDS RuntimeRegistry, TLAPS

\* A request under way comes from this or an earlier process, works on a runtime it
\* still has to do, and has stored its instance_id in those that are done.
RequestShape ==
    request # NoRequest =>
        /\ request.instance \in 1..process
        /\ request.step # "lookup" => request.at \in request.todo
        /\ \A r \in Runtime \ request.todo : row[r].instance = request.instance
        /\ request.step = "recover" => row[request.at].instance = request.instance

\* No row and no item names a process that is still to come, and an item exists only
\* where a row exists.
PastProcesses ==
    /\ alive => process > 0
    /\ \A r \in Runtime : row[r].instance \in 0..process
    /\ \A i \in Item : items[i].worker \in 0..process
    /\ \A i \in Item : row[RuntimeOf[i]].instance = 0 => items[i].status = "none"

\* A process that holds the answer to its registration is named by every row.
KnownShape ==
    known => /\ alive
             /\ request = NoRequest
             /\ \A r \in Runtime : row[r].instance = process

\* The item is held, or was held until the sweep, by the present process.
HeldNow(i) == items[i].status \in {"active", "offline"} /\ items[i].worker = process

Held ==
    \A i \in Item : HeldNow(i) =>
        /\ row[RuntimeOf[i]].instance = process
        /\ request # NoRequest =>
              /\ request.instance = process
              /\ request.step # "lookup" /\ request.at = RuntimeOf[i] => ~request.recover

\* The request of the present process will recover runtime r in its next statement.
RecoversNext(r) ==
    /\ request # NoRequest
    /\ request.step = "recover" /\ request.at = r /\ request.recover

Adopted(r) == \A i \in Item : RuntimeOf[i] = r => ~Orphan(i)

\* A row that names the present process is adopted, and so is a runtime that the
\* request has decided not to recover.
AdoptedRows ==
    alive /\ faults = 0 =>
        /\ \A r \in Runtime :
              row[r].instance = process => Adopted(r) \/ RecoversNext(r)
        /\ request # NoRequest =>
              (request.instance = process /\ request.step # "lookup" /\ ~request.recover
                  => Adopted(request.at))

IInv == TypeOK /\ RequestShape /\ PastProcesses /\ KnownShape /\ Held /\ AdoptedRows

-----------------------------------------------------------------------------
RowType == [instance : 0..MaxProcesses, online : BOOLEAN, fresh : BOOLEAN]

ItemType == [status : ItemStatus, worker : 0..MaxProcesses, retries : Nat]

LEMMA TypeInit == Init => TypeOK
<1> SUFFICES ASSUME Init PROVE TypeOK
  OBVIOUS
<1> USE RegistryAssumption DEF Init
<1>1. row \in [Runtime -> RowType]
  BY DEF RowType
<1>2. items \in [Item -> ItemType]
  BY DEF ItemType, ItemStatus
<1>3. \A i \in Item : items[i].retries <= MaxRetries[i]
  OBVIOUS
<1>4. sweep \in Sweep
  BY DEF Sweep
<1>5. process \in 0..MaxProcesses /\ faults \in 0..MaxFaults
  OBVIOUS
<1>6. alive \in BOOLEAN /\ known \in BOOLEAN /\ request \in Request \union {NoRequest}
  OBVIOUS
<1> QED BY <1>1, <1>2, <1>3, <1>4, <1>5, <1>6, Zenon DEF TypeOK, RowType, ItemType

LEMMA TypeStep ==
    ASSUME TypeOK, [Next]_vars
    PROVE  TypeOK'
<1> USE RegistryAssumption DEF TypeOK, daemonVars
<1>1. CASE StartProcess
  BY <1>1 DEF StartProcess
<1>2. CASE Die
  BY <1>2 DEF Die
<1>3. ASSUME NEW gone \in SUBSET Runtime, Stop(gone) PROVE TypeOK'
  BY <1>3 DEF Stop
<1>4. CASE Unwatch
  BY <1>4 DEF Unwatch
<1>5. ASSUME NEW r \in Runtime, Heartbeat(r) PROVE TypeOK'
  BY <1>5 DEF Heartbeat
<1>6. CASE Register
  <2>1. request' \in Request
    BY <1>6 DEF Register, Request
  <2> QED BY <1>6, <2>1 DEF Register
<1>7. ASSUME NEW r \in Runtime, Lookup(r) PROVE TypeOK'
  <2>1. request' \in Request
    BY <1>7 DEF Lookup, Request, NewInstance
  <2> QED BY <1>7, <2>1 DEF Lookup
<1>8. ASSUME NEW r \in Runtime, LookupFails(r) PROVE TypeOK'
  <2>1. request' \in Request
    BY <1>8 DEF LookupFails, Request
  <2> QED BY <1>8, <2>1 DEF LookupFails, Fault
<1>9. ASSUME NEW r \in Runtime, Upsert(r) PROVE TypeOK'
  <2>1. request' \in Request
    BY <1>9 DEF Upsert, Request
  <2>2. row' \in [Runtime -> RowType]
    BY <1>9 DEF Upsert, Request, RowType
  <2> QED BY <1>9, <2>1, <2>2 DEF Upsert, RowType
<1>10. ASSUME NEW r \in Runtime, RecoverTasks(r) PROVE TypeOK'
  <2>1. ASSUME NEW i \in Item
        PROVE  Requeued(i) \in ItemType /\ Requeued(i).retries <= MaxRetries[i]
    <3>1. items[i] \in ItemType /\ MaxRetries[i] \in Nat /\ items[i].retries \in Nat
      BY DEF ItemType
    <3>2. CASE items[i].retries < MaxRetries[i]
      <4>1. Requeued(i) = [items[i] EXCEPT !.status = "queued",
                                           !.retries = items[i].retries + 1]
        BY <3>2 DEF Requeued
      <4>2. items[i].retries + 1 \in Nat /\ items[i].retries + 1 <= MaxRetries[i]
        BY <3>1, <3>2
      <4>3. Requeued(i).retries = items[i].retries + 1
        BY <3>1, <4>1 DEF ItemType
      <4>4. Requeued(i) \in ItemType
        BY <3>1, <4>1, <4>2 DEF ItemType, ItemStatus
      <4> QED BY <4>2, <4>3, <4>4
    <3>3. CASE ~(items[i].retries < MaxRetries[i])
      BY <3>1, <3>3 DEF Requeued, ItemStatus, ItemType
    <3> QED BY <3>2, <3>3
  <2>2. request' \in Request
    BY <1>10 DEF RecoverTasks, Request
  <2>3. items' \in [Item -> ItemType]
    BY <1>10, <2>1 DEF RecoverTasks, ItemType
  <2>4. \A i \in Item : items'[i].retries <= MaxRetries[i]
    BY <1>10, <2>1 DEF RecoverTasks
  <2> QED BY <1>10, <2>2, <2>3, <2>4 DEF RecoverTasks, ItemType
<1>11. CASE Answer
  BY <1>11 DEF Answer
<1>12. CASE RequestFails
  BY <1>12 DEF RequestFails, Fault
<1>13. CASE SweepFails
  BY <1>13 DEF SweepFails, Fault, Sweep
<1>14. CASE ServerCrash
  BY <1>14 DEF ServerCrash, Fault, Sweep
<1>15. ASSUME NEW r \in Runtime, Silence(r) PROVE TypeOK'
  BY <1>15 DEF Silence
<1>16. CASE MarkStale
  <2>1. row' \in [Runtime -> RowType]
    BY <1>16 DEF MarkStale, RowType
  <2>2. sweep' \in Sweep
    BY <1>16 DEF MarkStale, Sweep
  <2> QED BY <1>16, <2>1, <2>2 DEF MarkStale, RowType
<1>17. CASE FailTasks
  <2>1. items' \in [Item -> ItemType] /\ \A i \in Item : items'[i].retries = items[i].retries
    BY <1>17 DEF FailTasks, ItemType, ItemStatus
  <2>2. sweep' \in Sweep
    BY <1>17 DEF FailTasks, Sweep
  <2> QED BY <1>17, <2>1, <2>2 DEF FailTasks, ItemType
<1>18. ASSUME NEW i \in Item, Enqueue(i) PROVE TypeOK'
  BY <1>18 DEF Enqueue, ItemStatus
<1>19. ASSUME NEW i \in Item, Claim(i) PROVE TypeOK'
  BY <1>19 DEF Claim, ItemStatus
<1>20. ASSUME NEW i \in Item, End(i) PROVE TypeOK'
  BY <1>20 DEF End, ItemStatus
<1>21. CASE UNCHANGED vars
  BY <1>21 DEF vars
<1> QED BY <1>1, <1>2, <1>3, <1>4, <1>5, <1>6, <1>7, <1>8, <1>9, <1>10, <1>11,
           <1>12, <1>13, <1>14, <1>15, <1>16, <1>17, <1>18, <1>19, <1>20, <1>21 DEF Next

\* The state is always well typed: no item is requeued beyond its budget.
THEOREM TypeSafety == Spec => []TypeOK
<1> QED BY TypeInit, TypeStep, PTL DEF Spec
-----------------------------------------------------------------------------
LEMMA InvInit == Init => IInv
<1> SUFFICES ASSUME Init PROVE IInv
  OBVIOUS
<1>1. TypeOK
  BY TypeInit
<1>2. RequestShape /\ KnownShape
  BY DEF Init, RequestShape, KnownShape
<1>3. PastProcesses /\ Held
  BY RegistryAssumption DEF Init, PastProcesses, Held, HeldNow
<1>4. AdoptedRows
  BY DEF Init, AdoptedRows
<1> QED BY <1>1, <1>2, <1>3, <1>4 DEF IInv

LEMMA RequestStep ==
    ASSUME IInv, [Next]_vars
    PROVE  RequestShape'
<1> USE RegistryAssumption DEF IInv, TypeOK, Request, RequestShape, PastProcesses, KnownShape, daemonVars
<1>1. CASE StartProcess
  BY <1>1 DEF StartProcess
<1>2. CASE Die
  BY <1>2 DEF Die
<1>3. ASSUME NEW gone \in SUBSET Runtime, Stop(gone) PROVE RequestShape'
  BY <1>3 DEF Stop
<1>4. CASE Unwatch
  BY <1>4 DEF Unwatch
<1>5. ASSUME NEW r \in Runtime, Heartbeat(r) PROVE RequestShape'
  BY <1>5 DEF Heartbeat
<1>6. CASE Register
  BY <1>6 DEF Register, Unregistered
<1>7. ASSUME NEW r \in Runtime, Lookup(r) PROVE RequestShape'
  BY <1>7 DEF Lookup
<1>8. ASSUME NEW r \in Runtime, LookupFails(r) PROVE RequestShape'
  BY <1>8 DEF LookupFails, Fault
<1>9. ASSUME NEW r \in Runtime, Upsert(r) PROVE RequestShape'
  BY <1>9 DEF Upsert
<1>10. ASSUME NEW r \in Runtime, RecoverTasks(r) PROVE RequestShape'
  BY <1>10 DEF RecoverTasks
<1>11. CASE Answer
  BY <1>11 DEF Answer
<1>12. CASE RequestFails
  BY <1>12 DEF RequestFails
<1>13. ASSUME NEW r \in Runtime, Silence(r) PROVE RequestShape'
  BY <1>13 DEF Silence
<1>14. CASE MarkStale
  BY <1>14 DEF MarkStale
<1>15. CASE FailTasks
  BY <1>15 DEF FailTasks
<1>16. CASE SweepFails
  BY <1>16 DEF SweepFails, Fault
<1>17. CASE ServerCrash
  BY <1>17 DEF ServerCrash
<1>18. ASSUME NEW i \in Item, Enqueue(i) PROVE RequestShape'
  BY <1>18 DEF Enqueue
<1>19. ASSUME NEW i \in Item, Claim(i) PROVE RequestShape'
  BY <1>19 DEF Claim
<1>20. ASSUME NEW i \in Item, End(i) PROVE RequestShape'
  BY <1>20 DEF End
<1>21. CASE UNCHANGED vars
  BY <1>21 DEF vars
<1> QED BY <1>1, <1>2, <1>3, <1>4, <1>5, <1>6, <1>7, <1>8, <1>9, <1>10, <1>11,
           <1>12, <1>13, <1>14, <1>15, <1>16, <1>17, <1>18, <1>19, <1>20, <1>21 DEF Next

LEMMA PastStep ==
    ASSUME IInv, [Next]_vars
    PROVE  PastProcesses'
<1> USE RegistryAssumption DEF IInv, TypeOK, Request, RequestShape, PastProcesses, KnownShape, daemonVars
<1>1. CASE StartProcess
  BY <1>1 DEF StartProcess
<1>2. CASE Die
  BY <1>2 DEF Die
<1>3. ASSUME NEW gone \in SUBSET Runtime, Stop(gone) PROVE PastProcesses'
  BY <1>3 DEF Stop
<1>4. CASE Unwatch
  BY <1>4 DEF Unwatch
<1>5. ASSUME NEW r \in Runtime, Heartbeat(r) PROVE PastProcesses'
  BY <1>5 DEF Heartbeat
<1>6. CASE Register
  BY <1>6 DEF Register, Unregistered
<1>7. ASSUME NEW r \in Runtime, Lookup(r) PROVE PastProcesses'
  BY <1>7 DEF Lookup
<1>8. ASSUME NEW r \in Runtime, LookupFails(r) PROVE PastProcesses'
  BY <1>8 DEF LookupFails, Fault
<1>9. ASSUME NEW r \in Runtime, Upsert(r) PROVE PastProcesses'
  BY <1>9 DEF Upsert
<1>10. ASSUME NEW r \in Runtime, RecoverTasks(r) PROVE PastProcesses'
  <2>1. \A i \in Item : Requeued(i).worker = items[i].worker
    BY DEF Requeued
  <2>2. \A i \in Item : items'[i].worker = items[i].worker
    BY <1>10, <2>1 DEF RecoverTasks
  <2>3. \A i \in Item : items[i].status = "none" => items'[i] = items[i]
    BY <1>10 DEF RecoverTasks, Orphans
  <2> QED BY <1>10, <2>2, <2>3 DEF RecoverTasks
<1>11. CASE Answer
  BY <1>11 DEF Answer
<1>12. CASE RequestFails
  BY <1>12 DEF RequestFails, Fault
<1>13. ASSUME NEW r \in Runtime, Silence(r) PROVE PastProcesses'
  BY <1>13 DEF Silence
<1>14. CASE MarkStale
  BY <1>14 DEF MarkStale
<1>15. CASE FailTasks
  BY <1>15 DEF FailTasks, Lost
<1>16. CASE SweepFails
  BY <1>16 DEF SweepFails, Fault
<1>17. CASE ServerCrash
  BY <1>17 DEF ServerCrash
<1>18. ASSUME NEW i \in Item, Enqueue(i) PROVE PastProcesses'
  BY <1>18 DEF Enqueue
<1>19. ASSUME NEW i \in Item, Claim(i) PROVE PastProcesses'
  BY <1>19 DEF Claim
<1>20. ASSUME NEW i \in Item, End(i) PROVE PastProcesses'
  BY <1>20 DEF End
<1>21. CASE UNCHANGED vars
  BY <1>21 DEF vars
<1> QED BY <1>1, <1>2, <1>3, <1>4, <1>5, <1>6, <1>7, <1>8, <1>9, <1>10, <1>11,
           <1>12, <1>13, <1>14, <1>15, <1>16, <1>17, <1>18, <1>19, <1>20, <1>21 DEF Next

LEMMA KnownStep ==
    ASSUME IInv, [Next]_vars
    PROVE  KnownShape'
<1> USE RegistryAssumption DEF IInv, TypeOK, Request, RequestShape, PastProcesses, KnownShape, daemonVars
<1>1. CASE StartProcess
  BY <1>1 DEF StartProcess
<1>2. CASE Die
  BY <1>2 DEF Die
<1>3. ASSUME NEW gone \in SUBSET Runtime, Stop(gone) PROVE KnownShape'
  BY <1>3 DEF Stop
<1>4. CASE Unwatch
  BY <1>4 DEF Unwatch
<1>5. ASSUME NEW r \in Runtime, Heartbeat(r) PROVE KnownShape'
  BY <1>5 DEF Heartbeat
<1>6. CASE Register
  BY <1>6 DEF Register, Unregistered
<1>7. ASSUME NEW r \in Runtime, Lookup(r) PROVE KnownShape'
  BY <1>7 DEF Lookup
<1>8. ASSUME NEW r \in Runtime, LookupFails(r) PROVE KnownShape'
  BY <1>8 DEF LookupFails, Fault
<1>9. ASSUME NEW r \in Runtime, Upsert(r) PROVE KnownShape'
  BY <1>9 DEF Upsert
<1>10. ASSUME NEW r \in Runtime, RecoverTasks(r) PROVE KnownShape'
  BY <1>10 DEF RecoverTasks
<1>11. CASE Answer
  BY <1>11 DEF Answer
<1>12. CASE RequestFails
  BY <1>12 DEF RequestFails
<1>13. ASSUME NEW r \in Runtime, Silence(r) PROVE KnownShape'
  BY <1>13 DEF Silence
<1>14. CASE MarkStale
  BY <1>14 DEF MarkStale
<1>15. CASE FailTasks
  BY <1>15 DEF FailTasks
<1>16. CASE SweepFails
  BY <1>16 DEF SweepFails, Fault
<1>17. CASE ServerCrash
  BY <1>17 DEF ServerCrash
<1>18. ASSUME NEW i \in Item, Enqueue(i) PROVE KnownShape'
  BY <1>18 DEF Enqueue
<1>19. ASSUME NEW i \in Item, Claim(i) PROVE KnownShape'
  BY <1>19 DEF Claim
<1>20. ASSUME NEW i \in Item, End(i) PROVE KnownShape'
  BY <1>20 DEF End
<1>21. CASE UNCHANGED vars
  BY <1>21 DEF vars
<1> QED BY <1>1, <1>2, <1>3, <1>4, <1>5, <1>6, <1>7, <1>8, <1>9, <1>10, <1>11,
           <1>12, <1>13, <1>14, <1>15, <1>16, <1>17, <1>18, <1>19, <1>20, <1>21 DEF Next

LEMMA HeldStep ==
    ASSUME IInv, [Next]_vars
    PROVE  Held'
<1> USE RegistryAssumption DEF IInv, TypeOK, Request, RequestShape, PastProcesses, KnownShape, Held, HeldNow, daemonVars
<1>1. CASE StartProcess
  BY <1>1 DEF StartProcess
<1>2. CASE Die
  BY <1>2 DEF Die
<1>3. ASSUME NEW gone \in SUBSET Runtime, Stop(gone) PROVE Held'
  BY <1>3 DEF Stop
<1>4. CASE Unwatch
  BY <1>4 DEF Unwatch
<1>5. ASSUME NEW r \in Runtime, Heartbeat(r) PROVE Held'
  BY <1>5 DEF Heartbeat
<1>6. CASE Register
  BY <1>6 DEF Register, Unregistered
<1>7. ASSUME NEW r \in Runtime, Lookup(r) PROVE Held'
  BY <1>7 DEF Lookup, NewInstance
<1>8. ASSUME NEW r \in Runtime, LookupFails(r) PROVE Held'
  BY <1>8 DEF LookupFails, Fault
<1>9. ASSUME NEW r \in Runtime, Upsert(r) PROVE Held'
  BY <1>9 DEF Upsert
<1>10. ASSUME NEW r \in Runtime, RecoverTasks(r) PROVE Held'
  <2>1. ASSUME NEW i \in Item, HeldNow(i)' PROVE HeldNow(i)
    <3>1. items'[i] = items[i] \/ items'[i] = Requeued(i)
      BY <1>10 DEF RecoverTasks
    <3>2. Requeued(i).status \in {"queued", "over"}
      BY DEF Requeued
    <3>3. process' = process
      BY <1>10 DEF RecoverTasks
    <3> QED BY <2>1, <3>1, <3>2, <3>3
  <2>2. UNCHANGED <<row, process>>
    BY <1>10 DEF RecoverTasks
  <2>3. /\ request # NoRequest
        /\ request'.instance = request.instance /\ request'.step = "lookup"
    BY <1>10 DEF RecoverTasks
  <2> QED BY <2>1, <2>2, <2>3
<1>11. CASE Answer
  BY <1>11 DEF Answer
<1>12. CASE RequestFails
  BY <1>12 DEF RequestFails
<1>13. ASSUME NEW r \in Runtime, Silence(r) PROVE Held'
  BY <1>13 DEF Silence
<1>14. CASE MarkStale
  BY <1>14 DEF MarkStale
<1>15. CASE FailTasks
  BY <1>15 DEF FailTasks, Lost
<1>16. CASE SweepFails
  BY <1>16 DEF SweepFails, Fault
<1>17. CASE ServerCrash
  BY <1>17 DEF ServerCrash
<1>18. ASSUME NEW i \in Item, Enqueue(i) PROVE Held'
  BY <1>18 DEF Enqueue
<1>19. ASSUME NEW i \in Item, Claim(i) PROVE Held'
  BY <1>19 DEF Claim
<1>20. ASSUME NEW i \in Item, End(i) PROVE Held'
  BY <1>20 DEF End
<1>21. CASE UNCHANGED vars
  BY <1>21 DEF vars
<1> QED BY <1>1, <1>2, <1>3, <1>4, <1>5, <1>6, <1>7, <1>8, <1>9, <1>10, <1>11,
           <1>12, <1>13, <1>14, <1>15, <1>16, <1>17, <1>18, <1>19, <1>20, <1>21 DEF Next

LEMMA AdoptedStep ==
    ASSUME IInv, [Next]_vars
    PROVE  AdoptedRows'
<1> USE RegistryAssumption DEF IInv, TypeOK, Request, RequestShape, PastProcesses, KnownShape, AdoptedRows, Adopted, Orphan, RecoversNext, daemonVars
<1>1. CASE StartProcess
  BY <1>1 DEF StartProcess
<1>2. CASE Die
  BY <1>2 DEF Die
<1>3. ASSUME NEW gone \in SUBSET Runtime, Stop(gone) PROVE AdoptedRows'
  BY <1>3 DEF Stop
<1>4. CASE Unwatch
  BY <1>4 DEF Unwatch
<1>5. ASSUME NEW r \in Runtime, Heartbeat(r) PROVE AdoptedRows'
  BY <1>5 DEF Heartbeat
<1>6. CASE Register
  BY <1>6 DEF Register, Unregistered
<1>7. ASSUME NEW r \in Runtime, Lookup(r) PROVE AdoptedRows'
  BY <1>7 DEF Lookup, NewInstance
<1>8. ASSUME NEW r \in Runtime, LookupFails(r) PROVE AdoptedRows'
  BY <1>8 DEF LookupFails, Fault
<1>9. ASSUME NEW r \in Runtime, Upsert(r) PROVE AdoptedRows'
  <2> SUFFICES ASSUME alive, faults = 0
               PROVE  /\ \A s \in Runtime :
                            row'[s].instance = process => Adopted(s) \/ RecoversNext(s)'
                      /\ request.instance = process /\ ~request.recover => Adopted(r)
    BY <1>9 DEF Upsert
  <2>1. request.instance = process /\ ~request.recover => Adopted(r)
    BY <1>9 DEF Upsert
  <2>2. ASSUME row'[r].instance = process PROVE Adopted(r) \/ RecoversNext(r)'
    <3>1. request.instance = process
      BY <1>9, <2>2 DEF Upsert
    <3>2. ASSUME request.recover PROVE RecoversNext(r)'
      <4>1. request \in Request /\ request' = [request EXCEPT !.step = "recover"]
        BY <1>9 DEF Upsert
      <4>2. request'.step = "recover" /\ request'.at = r /\ request'.recover
        BY <1>9, <3>2, <4>1 DEF Upsert
      <4>3. request' # NoRequest
        BY <4>1
      <4> QED BY <4>2, <4>3
    <3> QED BY <2>1, <3>1, <3>2
  <2>3. ASSUME NEW s \in Runtime \ {r}, row'[s].instance = process PROVE Adopted(s)
    BY <1>9, <2>3 DEF Upsert
  <2> QED BY <2>1, <2>2, <2>3
<1>10. ASSUME NEW r \in Runtime, RecoverTasks(r) PROVE AdoptedRows'
  <2> SUFFICES ASSUME alive, faults = 0,
                      NEW i \in Item, row[RuntimeOf[i]].instance = process
               PROVE  ~Orphan(i)'
    BY <1>10 DEF RecoverTasks
  <2>1. CASE RuntimeOf[i] = r /\ request.recover
    <3>1. CASE i \in Orphans(r)
      <4>1. items'[i] = Requeued(i)
        BY <1>10, <2>1, <3>1 DEF RecoverTasks
      <4>2. Requeued(i).status \in {"queued", "over"}
        BY DEF Requeued
      <4> QED BY <4>1, <4>2
    <3>2. CASE i \notin Orphans(r)
      BY <1>10, <2>1, <3>2 DEF RecoverTasks, Orphans
    <3> QED BY <3>1, <3>2
  <2>2. CASE ~(RuntimeOf[i] = r /\ request.recover)
    <3>1. items'[i] = items[i]
      BY <1>10, <2>2 DEF RecoverTasks, Orphans
    <3>2. ~Orphan(i)
      BY <1>10, <2>2 DEF RecoverTasks
    <3> QED BY <1>10, <3>1, <3>2 DEF RecoverTasks
  <2> QED BY <2>1, <2>2
<1>11. CASE Answer
  BY <1>11 DEF Answer
<1>12. CASE RequestFails
  BY <1>12 DEF RequestFails, Fault
<1>13. ASSUME NEW r \in Runtime, Silence(r) PROVE AdoptedRows'
  BY <1>13 DEF Silence
<1>14. CASE MarkStale
  BY <1>14 DEF MarkStale
<1>15. CASE FailTasks
  BY <1>15 DEF FailTasks, Lost
<1>16. CASE SweepFails
  BY <1>16 DEF SweepFails, Fault
<1>17. CASE ServerCrash
  BY <1>17 DEF ServerCrash, Fault
<1>18. ASSUME NEW i \in Item, Enqueue(i) PROVE AdoptedRows'
  BY <1>18 DEF Enqueue
<1>19. ASSUME NEW i \in Item, Claim(i) PROVE AdoptedRows'
  BY <1>19 DEF Claim
<1>20. ASSUME NEW i \in Item, End(i) PROVE AdoptedRows'
  BY <1>20 DEF End
<1>21. CASE UNCHANGED vars
  BY <1>21 DEF vars
<1> QED BY <1>1, <1>2, <1>3, <1>4, <1>5, <1>6, <1>7, <1>8, <1>9, <1>10, <1>11,
           <1>12, <1>13, <1>14, <1>15, <1>16, <1>17, <1>18, <1>19, <1>20, <1>21 DEF Next

\* The inductive invariant holds.
THEOREM RegistryInvariant == Spec => []IInv
<1>1. Init => IInv
  BY InvInit
<1>2. IInv /\ [Next]_vars => IInv'
  BY TypeStep, RequestStep, PastStep, KnownStep, HeldStep, AdoptedStep DEF IInv
<1> QED BY <1>1, <1>2, PTL DEF Spec

\* handler/daemon.go:140: no registration, first or repeated, puts an item back in the
\* queue that the present process works on.
THEOREM LiveWorkStays == Spec => WorkIsNotTakenBack
<1>1. ASSUME IInv, [Next]_vars, NEW i \in Item,
             items[i].status \in {"active", "offline"}, items[i].worker = process, alive
      PROVE  items'[i].status # "queued"
  <2> USE <1>1 DEF IInv, TypeOK, daemonVars
  <2>1. ASSUME NEW r \in Runtime, RecoverTasks(r) PROVE items'[i].status # "queued"
    <3>1. RuntimeOf[i] = r => ~request.recover
      BY <2>1 DEF RecoverTasks, Held, HeldNow
    <3>2. items'[i] = items[i]
      BY <2>1, <3>1 DEF RecoverTasks, Orphans
    <3> QED BY <3>2
  <2>2. ASSUME NEW j \in Item, Enqueue(j) \/ Claim(j) \/ End(j)
        PROVE  items'[i].status # "queued"
    BY <2>2 DEF Enqueue, Claim, End
  <2>3. CASE FailTasks
    BY <2>3 DEF FailTasks
  <2>4. CASE items' = items
    BY <2>4
  <2> QED BY <2>1, <2>2, <2>3, <2>4 DEF Next, vars, StartProcess, Die, Stop, Unwatch,
             Heartbeat, Register, Lookup, LookupFails, Upsert, Answer, RequestFails, Silence,
             MarkStale, SweepFails, ServerCrash
<1>2. IInv /\ [Next]_vars =>
        [\A i \in Item :
            items[i].status \in {"active", "offline"} /\ items[i].worker = process /\ alive
                => items'[i].status # "queued"]_vars
  BY <1>1
<1> QED BY <1>2, RegistryInvariant, PTL DEF Spec, WorkIsNotTakenBack

\* A registration that is answered without a failure on the way has adopted every item
\* of the earlier processes.
THEOREM FirstTryAdopts == Spec => []AnsweredMeansAdopted
<1>1. IInv => AnsweredMeansAdopted
  BY RegistryAssumption
     DEF IInv, TypeOK, KnownShape, AdoptedRows, Adopted, RecoversNext, AnsweredMeansAdopted
<1> QED BY <1>1, RegistryInvariant, PTL
=============================================================================
