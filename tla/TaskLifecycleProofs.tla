------------------------ MODULE TaskLifecycleProofs ------------------------
(* What a crash leaves of a task is its record and its trace.  Proofs about   *)
(* TaskLifecycle, for any tasks, capacity and bounds, and about TraceExport,  *)
(* for any observations, destinations and bounds.                             *)
EXTENDS TaskLifecycle, TraceExport, SequenceTheorems, TLAPS

(***************************************************************************)
(* Refinement: a step of the program writes at most one transition of one  *)
(* record.  No invariant is needed: the guards of Transition are those of  *)
(* the record.                                                             *)
(***************************************************************************)

LEMMA RecordStep ==
    ASSUME [Next]_vars
    PROVE  [Record!RecordNext]_(Record!recordVars)
<1> USE DEF Record!recordVars, recordVars, reaperVars, processVars, poolVars
<1>1. ASSUME NEW t \in Tasks, ApiStep(t)
      PROVE  [Record!RecordNext]_(Record!recordVars)
  <2>1. CASE Create(t)
    BY <1>1, <2>1 DEF Create, Transition, Record!RecordNext, Record!Created, Record!Become
  <2>2. CASE RefuseFail(t)
    BY <1>1, <2>2 DEF RefuseFail, Fail, Refused, Transition, Live, Record!RecordNext,
                      Record!Failed, Record!Become, Record!Causes
  <2>3. CASE Reserve(t) \/ Enqueue(t) \/ Refuse(t) \/ RefuseLog(t)
    BY <2>3 DEF Reserve, Enqueue, Refuse, RefuseLog
  <2>. QED  BY <1>1, <2>1, <2>2, <2>3 DEF ApiStep
<1>2. ASSUME NEW t \in Tasks, WorkerStep(t)
      PROVE  [Record!RecordNext]_(Record!recordVars)
  <2>1. CASE RunStart(t)
    BY <1>2, <2>1 DEF RunStart, Refused, Transition, Record!RecordNext, Record!Started,
                      Record!Become
  <2>2. CASE RunSucceed(t)
    BY <1>2, <2>2 DEF RunSucceed, Refused, Transition, Record!RecordNext, Record!Succeeded,
                      Record!Become
  <2>3. CASE RunFail(t)
    BY <1>2, <2>3 DEF RunFail, Fail, Refused, Transition, Live, Record!RecordNext,
                      Record!Failed, Record!Become, Record!Causes
  <2>4. CASE \/ TakeTask(t) \/ RunWork(t) \/ RunCapture(t) \/ RunRaise(t)
             \/ ReadStatus(t) \/ Release(t)
    BY <2>4 DEF TakeTask, RunWork, RunCapture, RunRaise, ReadStatus, Release
  <2>. QED  BY <1>2, <2>1, <2>2, <2>3, <2>4 DEF WorkerStep
<1>3. ASSUME NEW t \in Tasks, ReapFail(t)
      PROVE  [Record!RecordNext]_(Record!recordVars)
  BY <1>3 DEF ReapFail, Fail, Refused, Transition, Live, Record!RecordNext, Record!Failed,
              Record!Become, Record!Causes
<1>4. ASSUME NEW t \in Tasks, Age(t) \/ ReapLog(t)
      PROVE  [Record!RecordNext]_(Record!recordVars)
  BY <1>4 DEF Age, ReapLog
<1>5. CASE Scan \/ ReapDone \/ Crash \/ Restart
  BY <1>5 DEF Scan, ReapDone, Crash, Restart
<1>6. CASE UNCHANGED vars
  BY <1>6 DEF vars
<1>. QED  BY <1>1, <1>2, <1>3, <1>4, <1>5, <1>6 DEF Next, ReaperStep

\* Whatever the API, the workers, the reaper and crashes do to the records,
\* each of them follows the state machine of Task (task/task_model.py).
THEOREM RecordImplemented == Spec => ImplementsRecord
<1>1. Init => Record!RecordInit
  BY DEF Init, Record!RecordInit
<1>2. [Next]_vars => [Record!RecordNext]_(Record!recordVars)
  BY RecordStep
<1>. QED  BY <1>1, <1>2, PTL DEF Spec, ImplementsRecord, Record!RecordSpec

(***************************************************************************)
(* Safety.  The properties are not inductive: a step of one actor keeps    *)
(* them only because of where the other actors can be.  The strengthening  *)
(* ties the place of a task in the pool to the place of its request, and   *)
(* the place of its request and of its run to its record.                  *)
(***************************************************************************)

\* The part of TypeOK that the steps need.
RecordsTyped ==
    /\ status \in [Tasks -> Statuses]
    /\ cause \in [Tasks -> {"none", "run", "stale", "rejected"}]
    /\ recovery \in [Tasks -> SUBSET {"stale_recovery", "rejected"}]
    /\ api \in [Tasks -> ApiStates]
    /\ run \in [Tasks -> RunStates]
    /\ waiting \in Seq(Tasks)
    /\ {remembered, reserved, active, served, suspects} \subseteq SUBSET Tasks
    /\ reaped \in Tasks \cup {NoTask}
    /\ crashes \in Nat

\* Only a task whose request was accepted is in the queue, being run or served.
PoolFollowsApi ==
    /\ \A t \in reserved : api[t] = "reserved"
    /\ \A i \in 1..Len(waiting) : api[waiting[i]] = "accepted"
    /\ \A t \in active \cup served : api[t] = "accepted"
    /\ \A t \in Tasks : run[t] # "none" => t \in active

\* What the record of a task says at each place of its request, of its run and
\* of the reaper.
RecordFollowsActors ==
    \A t \in Tasks :
        /\ status[t] = "absent" => api[t] = "idle"
        /\ cause[t] # "none" => status[t] = "FAILED"
        /\ api[t] \in {"logging", "refused"} => cause[t] = "rejected"
        /\ api[t] = "refused" => "rejected" \in recovery[t]
        /\ run[t] = "capture" => status[t] = "SUCCESS"
        /\ run[t] = "done" => status[t] \in {"SUCCESS", "FAILED"}
        /\ reaped = t => cause[t] = "stale"

IInv ==
    /\ RecordsTyped
    /\ PoolFollowsApi
    /\ RecordFollowsActors
    /\ RecoveryTellsTruth
    /\ ServedIsTerminal
    /\ MemoryOnlyFromSuccess

LEMMA InvInit == Init => IInv
BY LifecycleAssumption
   DEF Init, IInv, RecordsTyped, PoolFollowsApi, RecordFollowsActors, RecoveryTellsTruth,
       ServedIsTerminal, MemoryOnlyFromSuccess, Pool!PoolInit, Statuses, ApiStates, RunStates

\* The steps that write a status, or find the transition refused, keep the types.
LEMMA RecordStepTyped ==
    ASSUME NEW t \in Tasks
    PROVE  /\ RecordsTyped
           /\ RefuseFail(t) \/ RunStart(t) \/ RunSucceed(t) \/ RunFail(t) \/ ReapFail(t)
           => RecordsTyped'
<1>. SUFFICES ASSUME RecordsTyped,
                     RefuseFail(t) \/ RunStart(t) \/ RunSucceed(t) \/ RunFail(t) \/ ReapFail(t)
              PROVE  RecordsTyped'
  OBVIOUS
<1>. USE DEF RecordsTyped, Statuses, poolVars, processVars
<1>1. CASE RefuseFail(t)
  <2>1. CASE Api(t, "refusing", "logging") /\ Fail(t, "rejected")
    BY <1>1, <2>1 DEF RefuseFail, Api, Fail, Transition, ApiStates, reaperVars
  <2>2. CASE Api(t, "refusing", "error") /\ Refused(t, Live)
    BY <1>1, <2>2 DEF RefuseFail, Api, Refused, ApiStates, reaperVars
  <2>. QED  BY <1>1, <2>1, <2>2 DEF RefuseFail
<1>2. CASE RunStart(t)
  BY <1>2 DEF RunStart, Worker, Refused, Transition, RunStates, reaperVars
<1>3. CASE RunSucceed(t)
  BY <1>3 DEF RunSucceed, Worker, Refused, Transition, RunStates, reaperVars
<1>4. CASE RunFail(t)
  BY <1>4 DEF RunFail, Worker, Fail, Refused, Transition, RunStates, reaperVars
<1>5. CASE ReapFail(t)
  BY <1>5 DEF ReapFail, Fail, Refused, Transition
<1>. QED  BY <1>1, <1>2, <1>3, <1>4, <1>5

LEMMA InvStep == IInv /\ [Next]_vars => IInv'
<1> SUFFICES ASSUME IInv, [Next]_vars
             PROVE  IInv'
  OBVIOUS
<1> USE LifecycleAssumption
    DEF IInv, RecordsTyped, PoolFollowsApi, RecordFollowsActors, RecoveryTellsTruth,
        ServedIsTerminal, MemoryOnlyFromSuccess, Statuses, ApiStates, RunStates,
        poolVars, recordVars, reaperVars, processVars
<1>1. ASSUME NEW t \in Tasks, Create(t)
      PROVE  IInv'
  BY <1>1 DEF Create, Api, Transition
<1>2. ASSUME NEW t \in Tasks, Reserve(t)
      PROVE  IInv'
  BY <1>2 DEF Reserve, Api, Pool!Reserve, Pool!Queued
<1>3. ASSUME NEW t \in Tasks, Enqueue(t)
      PROVE  IInv'
  <2>1. RecordsTyped'
    BY <1>3 DEF Enqueue, Api, Pool!Enqueue
  <2>2. PoolFollowsApi'
    BY <1>3 DEF Enqueue, Api, Pool!Enqueue
  <2>3. RecordFollowsActors'
    BY <1>3 DEF Enqueue, Api, Pool!Enqueue
  <2>4. RecoveryTellsTruth'
    BY <1>3 DEF Enqueue, Api, Pool!Enqueue
  <2>5. (ServedIsTerminal /\ MemoryOnlyFromSuccess)'
    BY <1>3 DEF Enqueue, Api, Pool!Enqueue
  <2>. QED  BY <2>1, <2>2, <2>3, <2>4, <2>5
<1>4. ASSUME NEW t \in Tasks, Refuse(t)
      PROVE  IInv'
  BY <1>4 DEF Refuse, Api
<1>5. ASSUME NEW t \in Tasks, RefuseFail(t)
      PROVE  IInv'
  <2>1. RecordsTyped'
    BY <1>5, RecordStepTyped
  <2>2. PoolFollowsApi'
    BY <1>5 DEF RefuseFail, Api, Fail, Refused, Transition, Live
  <2>3. RecordFollowsActors'
    BY <1>5 DEF RefuseFail, Api, Fail, Refused, Transition, Live
  <2>4. RecoveryTellsTruth'
    BY <1>5 DEF RefuseFail, Api, Fail, Refused, Transition, Live
  <2>5. (ServedIsTerminal /\ MemoryOnlyFromSuccess)'
    BY <1>5 DEF RefuseFail, Api, Fail, Refused, Transition, Live
  <2>. QED  BY <2>1, <2>2, <2>3, <2>4, <2>5
<1>6. ASSUME NEW t \in Tasks, RefuseLog(t)
      PROVE  IInv'
  BY <1>6 DEF RefuseLog, Api, Logs
<1>7. ASSUME NEW t \in Tasks, TakeTask(t)
      PROVE  IInv'
  BY <1>7 DEF TakeTask, Worker, Pool!Take
<1>8. ASSUME NEW t \in Tasks, RunStart(t)
      PROVE  IInv'
  <2>1. RecordsTyped'
    BY <1>8, RecordStepTyped
  <2>2. PoolFollowsApi'
    BY <1>8 DEF RunStart, Worker, Refused, Transition
  <2>3. RecordFollowsActors'
    BY <1>8 DEF RunStart, Worker, Refused, Transition
  <2>4. RecoveryTellsTruth'
    BY <1>8 DEF RunStart, Worker, Refused, Transition
  <2>5. (ServedIsTerminal /\ MemoryOnlyFromSuccess)'
    BY <1>8 DEF RunStart, Worker, Refused, Transition
  <2>. QED  BY <2>1, <2>2, <2>3, <2>4, <2>5
<1>9. ASSUME NEW t \in Tasks, RunWork(t)
      PROVE  IInv'
  BY <1>9 DEF RunWork, Worker
<1>10. ASSUME NEW t \in Tasks, RunSucceed(t)
      PROVE  IInv'
  <2>1. RecordsTyped'
    BY <1>10, RecordStepTyped
  <2>2. PoolFollowsApi'
    BY <1>10 DEF RunSucceed, Worker, Refused, Transition
  <2>3. RecordFollowsActors'
    BY <1>10 DEF RunSucceed, Worker, Refused, Transition
  <2>4. RecoveryTellsTruth'
    BY <1>10 DEF RunSucceed, Worker, Refused, Transition
  <2>5. (ServedIsTerminal /\ MemoryOnlyFromSuccess)'
    BY <1>10 DEF RunSucceed, Worker, Refused, Transition
  <2>. QED  BY <2>1, <2>2, <2>3, <2>4, <2>5
<1>11. ASSUME NEW t \in Tasks, RunCapture(t)
      PROVE  IInv'
  BY <1>11 DEF RunCapture, Worker
<1>12. ASSUME NEW t \in Tasks, RunRaise(t)
      PROVE  IInv'
  BY <1>12 DEF RunRaise, Worker
<1>13. ASSUME NEW t \in Tasks, ReadStatus(t)
      PROVE  IInv'
  BY <1>13 DEF ReadStatus, Worker, Live
<1>14. ASSUME NEW t \in Tasks, RunFail(t)
      PROVE  IInv'
  <2>1. RecordsTyped'
    BY <1>14, RecordStepTyped
  <2>2. PoolFollowsApi'
    BY <1>14 DEF RunFail, Worker, Fail, Refused, Transition, Live
  <2>3. RecordFollowsActors'
    BY <1>14 DEF RunFail, Worker, Fail, Refused, Transition, Live
  <2>4. RecoveryTellsTruth'
    BY <1>14 DEF RunFail, Worker, Fail, Refused, Transition, Live
  <2>5. (ServedIsTerminal /\ MemoryOnlyFromSuccess)'
    BY <1>14 DEF RunFail, Worker, Fail, Refused, Transition, Live
  <2>. QED  BY <2>1, <2>2, <2>3, <2>4, <2>5
<1>15. ASSUME NEW t \in Tasks, Release(t)
      PROVE  IInv'
  BY <1>15 DEF Release, Worker, Pool!Release
<1>16. ASSUME NEW t \in Tasks, Age(t)
      PROVE  IInv'
  BY <1>16 DEF Age, Live
<1>17. ASSUME NEW t \in Tasks, ReapFail(t)
      PROVE  IInv'
  <2>1. RecordsTyped'
    BY <1>17, RecordStepTyped
  <2>2. PoolFollowsApi'
    BY <1>17 DEF ReapFail, Fail, Refused, Transition, Live
  <2>3. RecordFollowsActors'
    BY <1>17 DEF ReapFail, Fail, Refused, Transition, Live
  <2>4. RecoveryTellsTruth'
    BY <1>17 DEF ReapFail, Fail, Refused, Transition, Live
  <2>5. (ServedIsTerminal /\ MemoryOnlyFromSuccess)'
    BY <1>17 DEF ReapFail, Fail, Refused, Transition, Live
  <2>. QED  BY <2>1, <2>2, <2>3, <2>4, <2>5
<1>18. ASSUME NEW t \in Tasks, ReapLog(t)
      PROVE  IInv'
  BY <1>18 DEF ReapLog, Logs
<1>19. CASE Scan
  BY <1>19 DEF Scan
<1>20. CASE ReapDone
  BY <1>20 DEF ReapDone
<1>21. CASE Crash
  <2>1. RecordsTyped'
    BY <1>21 DEF Crash
  <2>2. PoolFollowsApi'
    BY <1>21 DEF Crash
  <2>3. RecordFollowsActors'
    BY <1>21 DEF Crash
  <2>4. RecoveryTellsTruth'
    BY <1>21 DEF Crash
  <2>5. (ServedIsTerminal /\ MemoryOnlyFromSuccess)'
    BY <1>21 DEF Crash
  <2>. QED  BY <2>1, <2>2, <2>3, <2>4, <2>5
<1>22. CASE Restart
  BY <1>22 DEF Restart
<1>23. CASE UNCHANGED vars
  BY <1>23 DEF vars
<1>. QED
  BY <1>1, <1>2, <1>3, <1>4, <1>5, <1>6, <1>7, <1>8, <1>9, <1>10, <1>11, <1>12, <1>13, <1>14, <1>15, <1>16, <1>17, <1>18, <1>19, <1>20, <1>21, <1>22, <1>23
     DEF Next, ApiStep, WorkerStep, ReaperStep

LEMMA Invariance == Spec => []IInv
BY InvInit, InvStep, PTL DEF Spec

\* The rest of TypeOK: time, progress, the process and its crashes.
ProcessTyped ==
    /\ stale \in [Tasks -> BOOLEAN]
    /\ work \in [Tasks -> 0..MaxWork]
    /\ mode \in {"down", "recovering", "serving"}
    /\ scanning \in BOOLEAN
    /\ crashes \in 0..MaxCrashes

LEMMA ProcessStep == ProcessTyped /\ [Next]_vars => ProcessTyped'
<1> SUFFICES ASSUME ProcessTyped, [Next]_vars
             PROVE  ProcessTyped'
  OBVIOUS
<1> USE LifecycleAssumption DEF ProcessTyped, poolVars, recordVars, reaperVars, processVars
<1>1. ASSUME NEW t \in Tasks, ApiStep(t)
      PROVE  ProcessTyped'
  BY <1>1 DEF ApiStep, Create, Reserve, Enqueue, Refuse, RefuseFail, RefuseLog, Api, Fail, Refused, Transition
<1>2. ASSUME NEW t \in Tasks, WorkerStep(t)
      PROVE  ProcessTyped'
  <2>1. CASE RunWork(t)
    BY <2>1 DEF RunWork
  <2>2. CASE ~RunWork(t)
    BY <1>2, <2>2 DEF WorkerStep, TakeTask, RunStart, RunSucceed, RunCapture, RunRaise, ReadStatus,
       RunFail, Release, Worker, Fail, Refused, Transition
  <2>. QED  BY <2>1, <2>2
<1>3. CASE ReaperStep \/ \E t \in Tasks : Age(t)
  BY <1>3 DEF ReaperStep, Scan, ReapFail, ReapLog, ReapDone, Age, Fail, Refused, Transition
<1>4. CASE Crash \/ Restart
  <2>1. UNCHANGED <<stale, work>> /\ mode' \in {"down", "recovering", "serving"} /\ scanning' \in BOOLEAN
    BY <1>4 DEF Crash, Restart
  <2>2. crashes' \in 0..MaxCrashes
    BY <1>4 DEF Crash, Restart
  <2>. QED  BY <2>1, <2>2
<1>5. CASE UNCHANGED vars
  BY <1>5 DEF vars
<1>. QED  BY <1>1, <1>2, <1>3, <1>4, <1>5 DEF Next

\* Every variable of records, requests, runs, pool, reaper and process has its
\* type, whatever the order of their steps.
THEOREM TypeCorrect == Spec => []TypeOK
<1>1. Init => ProcessTyped
  <2> SUFFICES ASSUME Init
               PROVE  ProcessTyped
    OBVIOUS
  <2>1. stale \in [Tasks -> BOOLEAN] /\ scanning \in BOOLEAN
    BY DEF Init
  <2>2. work \in [Tasks -> 0..MaxWork] /\ crashes \in 0..MaxCrashes
    BY LifecycleAssumption DEF Init
  <2>. QED  BY <2>1, <2>2 DEF Init, ProcessTyped
<1>2. Spec => []ProcessTyped
  BY <1>1, ProcessStep, PTL DEF Spec
<1>3. IInv /\ ProcessTyped => TypeOK
  BY DEF IInv, RecordsTyped, ProcessTyped, TypeOK, Pool!PoolTypeOK
<1>. QED  BY <1>2, <1>3, Invariance, PTL

\* A task answered with 429 never runs and says why (api/app.py).
THEOREM RefusedStaysOut == Spec => []RefusedNeverRuns
<1>1. IInv => RefusedNeverRuns
  <2> SUFFICES ASSUME IInv, NEW t \in Tasks, api[t] \in {"refusing", "logging", "refused"}
               PROVE  /\ t \notin reserved \cup Pool!Queued \cup active \cup served
                      /\ run[t] = "none"
                      /\ api[t] = "refused" => /\ status[t] = "FAILED"
                                               /\ cause[t] = "rejected"
                                               /\ "rejected" \in recovery[t]
    BY DEF RefusedNeverRuns
  <2>1. t \notin reserved \cup Pool!Queued \cup active \cup served
    BY DEF IInv, PoolFollowsApi, Pool!Queued
  <2>2. run[t] = "none"
    BY <2>1 DEF IInv, PoolFollowsApi
  <2>3. api[t] = "refused" => /\ status[t] = "FAILED"
                              /\ cause[t] = "rejected"
                              /\ "rejected" \in recovery[t]
    BY DEF IInv, RecordFollowsActors
  <2>. QED  BY <2>1, <2>2, <2>3
<1>. QED  BY <1>1, Invariance, PTL

\* Recovery events are true, and complete while the process has not crashed
\* (task/task_manager.py, recover_stale_tasks).
THEOREM RecoveryEventsTrue == Spec => []RecoveryTellsTruth
BY Invariance, PTL DEF IInv

\* The worker and the reaper may race to end a task: when the worker is done
\* the record is terminal (agent/orchestrator.py, _run_task).
THEOREM ServedTasksAreTerminal == Spec => []ServedIsTerminal
BY Invariance, PTL DEF IInv

\* No memory of a task that did not succeed (memory/service.py, capture).
THEOREM MemoryIsOfSuccess == Spec => []MemoryOnlyFromSuccess
BY Invariance, PTL DEF IInv

-----------------------------------------------------------------------------
(* The trace: the invariant                                                 *)

\* ExportTypeOK in two parts: what the worker changes, and what the exporter
\* and the operator change.
WorkerTyped ==
    /\ parent \in [Obs -> Obs \cup {None}]
    /\ open \in SUBSET Obs
    /\ log \in Seq(Obs)
    /\ stack \in Seq(Obs)
    /\ unreadable \in SUBSET Referenced
    /\ faults \in 0..MaxFaults

ExporterTyped ==
    /\ receipts \in [Obs -> Receipt]
    /\ bound \in Dests \cup {None}
    /\ dest \in Dests
    /\ phase \in {"idle", "scan", "net", "save"}
    /\ mem \in [Obs -> Receipt]
    /\ todo \in Seq(Obs)
    /\ remote \in [Obs -> [Dests -> Nat]]
    /\ sends \in [Obs -> Nat]
    /\ resolves \in [Obs -> 0..MaxResolves]
    /\ vouched \in SUBSET Obs

\* The operations the worker is in are open, each once; what has ended is not
\* open and has no open child.
TreeIsSound ==
    /\ \A i \in 1..Len(stack) : stack[i] \in open
    /\ \A i, j \in 1..Len(stack) : stack[i] = stack[j] => i = j
    /\ \A o \in Ended : o \notin open /\ \A c \in open : parent[c] # o

\* The attempts a receipt may have.
AttemptsAreSound(copy) ==
    \A o \in Obs : /\ copy[o].status = "none" => copy[o].attempts = 0
                   /\ copy[o].status = "retry" => copy[o].attempts < MaxAttempts
                   /\ copy[o].status = "exhausted" => copy[o].attempts >= MaxAttempts

InRequest(o) == phase \in {"net", "save"} /\ todo # <<>> /\ Next1 = o

\* Where the thread's copy of the receipts may differ from the disk, and to
\* which project it sends.
PassIsSound ==
    /\ \A i \in 1..Len(todo) : todo[i] \in Ended
    /\ phase \in {"net", "save"} =>
           todo # <<>> /\ bound = dest /\ receipts[Next1].status = "sending"
    /\ phase # "idle" => bound \in {None, dest}
    /\ phase \in {"scan", "net"} => mem = receipts
    /\ phase = "save" =>
           /\ \A o \in Obs \ {Next1} : mem[o] = receipts[o]
           /\ mem[Next1].attempts = receipts[Next1].attempts
           /\ mem[Next1].status \in Settled \cup {"retry"}

\* No request of the present decision may have been delivered yet.
Undelivered(o) ==
    \/ receipts[o].status \in {"none", "retry"}
    \/ phase = "net" /\ InRequest(o)
    \/ phase = "save" /\ InRequest(o) /\ mem[o].status = "retry"

\* Copies, against the decisions of the operator.
DeliveriesAreCounted ==
    \A o \in Obs, d \in Dests :
        remote[o][d] <= resolves[o] + (IF Undelivered(o) THEN 0 ELSE 1)

\* Requests, against the decisions of the operator and the attempts on disk.
Spent(o) == sends[o] + (IF phase = "net" /\ InRequest(o) THEN 1 ELSE 0)
Budget(o) ==
    MaxAttempts * resolves[o]
    + (IF receipts[o].status = "rejected" THEN MaxAttempts ELSE receipts[o].attempts)
BudgetKept == \A o \in Obs : Spent(o) <= Budget(o)

\* What a receipt, saved or about to be, says about the service.
ReceiptsAreTrue ==
    /\ AcceptedWasReceived
    /\ phase = "save" /\ mem[Next1].status = "accepted" => Copies(Next1) # {}

OnlyEndedAreSent == \A o \in Obs : Copies(o) # {} => o \in Ended

ExportInv ==
    /\ WorkerTyped /\ ExporterTyped
    /\ TreeIsSound
    /\ AttemptsAreSound(receipts) /\ AttemptsAreSound(mem)
    /\ PassIsSound
    /\ DeliveriesAreCounted
    /\ BudgetKept
    /\ ReceiptsAreTrue
    /\ OneProject
    /\ OnlyEndedAreSent

-----------------------------------------------------------------------------
(* Lemmas about the operators                                               *)

\* The event of an operation that ends is added to those of the others.
LEMMA EndedAppend ==
    ASSUME log \in Seq(Obs), NEW o \in Obs, log' = Append(log, o)
    PROVE  Ended' = Ended \cup {o} /\ log' \in Seq(Obs)
<1>1. Len(log') = Len(log) + 1 /\ log'[Len(log) + 1] = o
  OBVIOUS
<1>2. \A i \in 1..Len(log) : log'[i] = log[i]
  OBVIOUS
<1>. QED  BY <1>1, <1>2 DEF Ended

\* What is left of a sequence without its first element.
LEMMA TailOf ==
    ASSUME NEW s \in Seq(Obs), s # <<>>
    PROVE  /\ Head(s) \in Obs /\ Head(s) = s[1] /\ 1 \in 1..Len(s)
           /\ Tail(s) \in Seq(Obs)
           /\ \A i \in 1..Len(Tail(s)) : i + 1 \in 1..Len(s) /\ Tail(s)[i] = s[i + 1]
OBVIOUS

\* What is left of a sequence without its last element.
LEMMA FrontOf ==
    ASSUME NEW s \in Seq(Obs), s # <<>>
    PROVE  /\ s[Len(s)] \in Obs /\ Len(s) \in 1..Len(s)
           /\ SubSeq(s, 1, Len(s) - 1) \in Seq(Obs)
           /\ Len(SubSeq(s, 1, Len(s) - 1)) = Len(s) - 1
           /\ \A i \in 1..Len(s) - 1 : i \in 1..Len(s) /\ i # Len(s)
                                       /\ SubSeq(s, 1, Len(s) - 1)[i] = s[i]
<1>1. Len(s) \in Nat \ {0} /\ \A i \in 1..Len(s) : s[i] \in Obs
  OBVIOUS
<1> DEFINE n == Len(s) - 1
<1>2. n \in Nat /\ Len(s) = n + 1
  BY <1>1
<1>3. \A i \in 1..n : s[i] \in Obs
  BY <1>1, <1>2
<1> HIDE DEF n
<1>4. /\ SubSeq(s, 1, n) \in Seq(Obs)
      /\ Len(SubSeq(s, 1, n)) = IF 1 <= n THEN n - 1 + 1 ELSE 0
      /\ \A i \in 1..n - 1 + 1 : SubSeq(s, 1, n)[i] = s[1 + i - 1]
  BY <1>2, <1>3, SubSeqProperties
<1>5. Len(SubSeq(s, 1, n)) = n /\ \A i \in 1..n : SubSeq(s, 1, n)[i] = s[i]
  BY <1>2, <1>4
<1>6. s[Len(s)] \in Obs /\ Len(s) \in 1..Len(s) /\ \A i \in 1..n : i \in 1..Len(s) /\ i # Len(s)
  BY <1>1, <1>2
<1>. QED  BY <1>4, <1>5, <1>6 DEF n

\* The thread sets the status of the receipt it works on.
LEMMA WithStatus ==
    ASSUME mem \in [Obs -> Receipt], Next1 \in Obs, NEW s \in ReceiptStatuses
    PROVE  /\ With(s) \in [Obs -> Receipt]
           /\ With(s)[Next1].status = s
           /\ With(s)[Next1].attempts = mem[Next1].attempts
           /\ \A o \in Obs \ {Next1} : With(s)[o] = mem[o]
BY DEF With, Receipt

\* What a span may have cost so far, and after one more decision.
LEMMA BudgetBounds ==
    ASSUME ExporterTyped, NEW o \in Obs
    PROVE  /\ Spent(o) \in Nat /\ Budget(o) \in Nat
           /\ MaxAttempts * resolves[o] \in Nat
           /\ MaxAttempts * (resolves[o] + 1) = MaxAttempts * resolves[o] + MaxAttempts
           /\ Budget(o) <= MaxAttempts * (resolves[o] + 1)
<1>1. /\ resolves[o] \in Nat /\ MaxAttempts \in Nat /\ sends[o] \in Nat
      /\ receipts[o].attempts \in 0..MaxAttempts
  BY ExportAssumption DEF ExporterTyped, Receipt
<1>2. MaxAttempts * resolves[o] \in Nat
  BY <1>1
<1>3. MaxAttempts * (resolves[o] + 1) = MaxAttempts * resolves[o] + MaxAttempts
  BY <1>1
<1>. QED  BY <1>1, <1>2, <1>3 DEF Spent, Budget

-----------------------------------------------------------------------------
(* The initial states                                                       *)

LEMMA ExportInvInit == ExportInit => ExportInv
<1> SUFFICES ASSUME ExportInit
             PROVE  ExportInv
  OBVIOUS
<1> USE ExportAssumption DEF ExportInit
<1>1. Ended = {}
  BY DEF Ended
<1>2. WorkerTyped /\ ExporterTyped
  BY DEF WorkerTyped, ExporterTyped, Receipt, NoReceipt, ReceiptStatuses
<1>3. TreeIsSound
  BY <1>1 DEF TreeIsSound
<1>4. AttemptsAreSound(receipts) /\ AttemptsAreSound(mem)
  BY DEF AttemptsAreSound, NoReceipt
<1>5. PassIsSound
  BY DEF PassIsSound
<1>6. DeliveriesAreCounted
  BY DEF DeliveriesAreCounted
<1>7. BudgetKept
  <2>1. \A o \in Obs : sends[o] = 0 /\ resolves[o] = 0 /\ receipts[o].attempts = 0
                       /\ receipts[o].status = "none" /\ phase # "net"
    BY DEF NoReceipt
  <2>2. MaxAttempts * 0 = 0
    OBVIOUS
  <2>. QED  BY <2>1, <2>2 DEF BudgetKept, Spent, Budget
<1>8. \A o \in Obs : Copies(o) = {}
  BY DEF Copies
<1>9. ReceiptsAreTrue
  BY DEF ReceiptsAreTrue, AcceptedWasReceived, NoReceipt
<1>. QED
  BY <1>2, <1>3, <1>4, <1>5, <1>6, <1>7, <1>8, <1>9 DEF ExportInv, OneProject, OnlyEndedAreSent

-----------------------------------------------------------------------------
(* Every step preserves it                                                  *)

\* What the worker does leaves the exporter alone.
LEMMA WorkerKeepsExporter ==
    ASSUME ExportInv, UNCHANGED <<thread, disk, dest, world, operator>>, Ended \subseteq Ended',
           WorkerTyped', TreeIsSound'
    PROVE  ExportInv'
<1> USE DEF thread, disk, world, operator
<1>1. ExporterTyped'
  BY DEF ExportInv, ExporterTyped
<1>2. (AttemptsAreSound(receipts) /\ AttemptsAreSound(mem))'
  BY DEF ExportInv, AttemptsAreSound
<1>3. PassIsSound'
  BY DEF ExportInv, PassIsSound, Next1
<1>4. DeliveriesAreCounted'
  BY DEF ExportInv, DeliveriesAreCounted, Undelivered, InRequest, Next1
<1>5. BudgetKept'
  BY DEF ExportInv, BudgetKept, Spent, Budget, InRequest, Next1
<1>6. \A o \in Obs : Copies(o)' = Copies(o)
  BY DEF Copies
<1>7. ReceiptsAreTrue'
  BY DEF ExportInv, ReceiptsAreTrue, AcceptedWasReceived, Copies, Next1
<1>8. OneProject' /\ OnlyEndedAreSent'
  BY <1>6 DEF ExportInv, OneProject, OnlyEndedAreSent
<1>. QED  BY <1>1, <1>2, <1>3, <1>4, <1>5, <1>7, <1>8 DEF ExportInv

\* The operation the worker is in, and the stack below it.
LEMMA CurrentIsOpen ==
    ASSUME WorkerTyped, TreeIsSound, stack # <<>>
    PROVE  /\ Current \in Obs /\ Current \in open /\ Current \notin Ended
           /\ LET below == SubSeq(stack, 1, Len(stack) - 1)
              IN  /\ below \in Seq(Obs) /\ Len(below) = Len(stack) - 1
                  /\ \A i \in 1..Len(below) :
                        i \in 1..Len(stack) /\ below[i] = stack[i] /\ stack[i] # Current
<1> USE DEF WorkerTyped
<1>1. Current \in Obs /\ Len(stack) \in 1..Len(stack) /\ Len(stack) \in Nat
  BY FrontOf DEF Current
<1>2. Current \in open
  BY <1>1 DEF TreeIsSound, Current
<1>3. Current \notin Ended
  BY <1>2 DEF TreeIsSound
<1>4. \A i \in 1..Len(stack) : i # Len(stack) => stack[i] # Current
  BY <1>1 DEF TreeIsSound, Current
<1>. QED  BY <1>1, <1>2, <1>3, <1>4, FrontOf

LEMMA StartStep ==
    ASSUME ExportInv, NEW o \in Obs, StartOp(o)
    PROVE  ExportInv'
<1>1. WorkerTyped /\ TreeIsSound /\ stack # <<>>
  BY DEF ExportInv, StartOp
<1>2. Current \in Obs /\ Current \in open /\ Current \notin Ended
  BY <1>1, CurrentIsOpen
<1>3. /\ o \notin open /\ o \notin Ended /\ open' = open \cup {o}
      /\ parent' = [parent EXCEPT ![o] = Current]
      /\ stack' = Append(stack, o)
      /\ UNCHANGED <<log, unreadable, faults>>
  BY DEF StartOp
<1>4. Ended' = Ended
  BY <1>3 DEF Ended
<1>5. stack' \in Seq(Obs) /\ Len(stack') = Len(stack) + 1 /\ stack'[Len(stack) + 1] = o
      /\ Len(stack) \in Nat /\ \A i \in 1..Len(stack) : stack'[i] = stack[i]
  BY <1>1, <1>3 DEF WorkerTyped
<1>6. WorkerTyped'
  BY <1>1, <1>2, <1>3, <1>5 DEF WorkerTyped
<1>7. TreeIsSound'
  <2>1. \A i \in 1..Len(stack') : i \in 1..Len(stack) \/ i = Len(stack) + 1
    BY <1>5
  <2>2. \A i \in 1..Len(stack') : stack'[i] \in open'
    BY <1>1, <1>3, <1>5, <2>1 DEF TreeIsSound
  <2>3. \A i, j \in 1..Len(stack') : stack'[i] = stack'[j] => i = j
    BY <1>1, <1>3, <1>5, <2>1 DEF TreeIsSound
  <2>4. ASSUME NEW e \in Ended, NEW c \in open'
        PROVE  e \notin open' /\ parent'[c] # e
    BY <1>1, <1>2, <1>3 DEF TreeIsSound, WorkerTyped
  <2>5. \A e \in Ended : e \notin open'
    BY <1>1, <1>3 DEF TreeIsSound
  <2>. QED  BY <1>4, <2>2, <2>3, <2>4, <2>5 DEF TreeIsSound
<1>. QED  BY <1>4, <1>6, <1>7, WorkerKeepsExporter DEF StartOp

LEMMA EndStep ==
    ASSUME ExportInv, EndOp
    PROVE  ExportInv'
<1>1. WorkerTyped /\ TreeIsSound /\ stack # <<>>
  BY DEF ExportInv, EndOp
<1>2. /\ Current \in Obs /\ Current \in open
      /\ stack' \in Seq(Obs) /\ Len(stack') = Len(stack) - 1
      /\ \A i \in 1..Len(stack') : i \in 1..Len(stack) /\ stack'[i] = stack[i] /\ stack[i] # Current
  BY <1>1, CurrentIsOpen DEF EndOp
<1>3. UNCHANGED <<parent, unreadable>>
  BY DEF EndOp
<1>4. \A i, j \in 1..Len(stack') : stack'[i] = stack'[j] => i = j
  BY <1>1, <1>2 DEF TreeIsSound
<1>5. CASE ~ChildrenOpen(Current) /\ log' = Append(log, Current) /\ open' = open \ {Current} /\ UNCHANGED faults
  <2>1. Ended' = Ended \cup {Current} /\ log' \in Seq(Obs)
    BY <1>1, <1>2, <1>5, EndedAppend DEF WorkerTyped
  <2>2. WorkerTyped'
    BY <1>1, <1>2, <1>3, <1>5, <2>1 DEF WorkerTyped
  <2>3. TreeIsSound'
    <3>1. \A c \in open : parent[c] # Current
      BY <1>5 DEF ChildrenOpen
    <3>2. \A e \in Ended' : e \notin open' /\ \A c \in open' : parent'[c] # e
      BY <1>1, <1>3, <1>5, <2>1, <3>1 DEF TreeIsSound
    <3>3. \A i \in 1..Len(stack') : stack'[i] \in open'
      BY <1>1, <1>2, <1>5 DEF TreeIsSound
    <3>. QED  BY <1>4, <3>2, <3>3 DEF TreeIsSound
  <2>. QED  BY <2>1, <2>2, <2>3, WorkerKeepsExporter DEF EndOp
<1>6. CASE UNCHANGED <<log, open>> /\ (UNCHANGED faults \/ Fault)
  <2>1. Ended' = Ended
    BY <1>6 DEF Ended
  <2>2. faults' \in 0..MaxFaults
    BY <1>1, <1>6, ExportAssumption DEF WorkerTyped, Fault
  <2>3. WorkerTyped'
    BY <1>1, <1>2, <1>3, <1>6, <2>2 DEF WorkerTyped
  <2>4. \A i \in 1..Len(stack') : stack'[i] \in open'
    BY <1>1, <1>2, <1>6 DEF TreeIsSound
  <2>5. TreeIsSound'
    BY <1>1, <1>3, <1>4, <1>6, <2>1, <2>4 DEF TreeIsSound
  <2>. QED  BY <2>1, <2>3, <2>5, WorkerKeepsExporter DEF EndOp
<1>. QED  BY <1>5, <1>6 DEF EndOp

LEMMA CorruptStep ==
    ASSUME ExportInv, NEW o \in Obs, NEW part \in {"input", "output"}, Corrupt(o, part)
    PROVE  ExportInv'
<1>1. Ended' = Ended
  BY DEF Corrupt, Ended
<1>2. WorkerTyped'
  BY ExportAssumption DEF ExportInv, WorkerTyped, Corrupt, Fault
<1>3. TreeIsSound'
  BY <1>1 DEF ExportInv, Corrupt, TreeIsSound
<1>. QED  BY <1>1, <1>2, <1>3, WorkerKeepsExporter DEF Corrupt

\* What the exporter does leaves the worker alone.
LEMMA ExporterKeepsWorker ==
    ASSUME ExportInv, UNCHANGED local, UNCHANGED faults \/ Fault
    PROVE  WorkerTyped' /\ TreeIsSound' /\ Ended' = Ended
<1>1. Ended' = Ended
  BY DEF local, Ended
<1>2. WorkerTyped'
  BY ExportAssumption DEF ExportInv, WorkerTyped, Fault, local
<1>. QED  BY <1>1, <1>2 DEF ExportInv, TreeIsSound, local

\* A pass that ends at any point, normally, by an exception or with the
\* process, leaves what is on disk and what has been sent.
LEMMA EndPassStep ==
    ASSUME ExportInv, EndPass, UNCHANGED <<disk, world, operator>>, dest' \in Dests,
           WorkerTyped', TreeIsSound', Ended' = Ended
    PROVE  ExportInv'
<1> USE DEF EndPass, disk, world, operator
<1>1. phase' = "idle" /\ mem' = [o \in Obs |-> NoReceipt] /\ todo' = <<>>
  BY DEF EndPass
<1>2. ExporterTyped'
  BY <1>1, ExportAssumption DEF ExportInv, ExporterTyped, Receipt, NoReceipt, ReceiptStatuses
<1>3. (AttemptsAreSound(receipts) /\ AttemptsAreSound(mem))'
  BY <1>1 DEF ExportInv, AttemptsAreSound, NoReceipt
<1>4. PassIsSound'
  BY <1>1 DEF PassIsSound
<1>5. \A o \in Obs : Undelivered(o)' => Undelivered(o)
  BY <1>1 DEF Undelivered, InRequest
<1>6. DeliveriesAreCounted'
  BY <1>5 DEF ExportInv, DeliveriesAreCounted, ExporterTyped
<1>7. BudgetKept'
  <2>1. ASSUME NEW o \in Obs
        PROVE  Spent(o)' <= Spent(o) /\ Budget(o)' = Budget(o) /\ Spent(o)' \in Nat
    BY <1>1 DEF Spent, Budget, ExportInv, ExporterTyped
  <2>. QED  BY <2>1, BudgetBounds DEF ExportInv, BudgetKept
<1>8. \A o \in Obs : Copies(o)' = Copies(o)
  BY DEF Copies
<1>9. ReceiptsAreTrue' /\ OneProject' /\ OnlyEndedAreSent'
  BY <1>1, <1>8 DEF ExportInv, ReceiptsAreTrue, AcceptedWasReceived, OneProject, OnlyEndedAreSent
<1>. QED  BY <1>2, <1>3, <1>4, <1>6, <1>7, <1>9 DEF ExportInv

\* The thread goes past an observation that needs nothing from it now.
LEMMA SkipStep ==
    ASSUME ExportInv, phase = "scan", todo # <<>>, todo' = Tail(todo),
           UNCHANGED <<local, disk, dest, phase, mem, world, operator, faults>>
    PROVE  ExportInv'
<1> USE DEF disk, world, operator
<1>1. WorkerTyped' /\ TreeIsSound' /\ Ended' = Ended
  BY ExporterKeepsWorker
<1>2. /\ todo' \in Seq(Obs)
      /\ \A i \in 1..Len(todo') : i + 1 \in 1..Len(todo) /\ todo'[i] = todo[i + 1]
  BY TailOf DEF ExportInv, ExporterTyped
<1>3. ExporterTyped'
  BY <1>2 DEF ExportInv, ExporterTyped
<1>4. (AttemptsAreSound(receipts) /\ AttemptsAreSound(mem))'
  BY DEF ExportInv, AttemptsAreSound
<1>5. PassIsSound'
  BY <1>1, <1>2 DEF ExportInv, PassIsSound
<1>6. DeliveriesAreCounted'
  BY DEF ExportInv, DeliveriesAreCounted, Undelivered, InRequest
<1>7. BudgetKept'
  BY DEF ExportInv, BudgetKept, Spent, Budget
<1>8. \A o \in Obs : Copies(o)' = Copies(o)
  BY DEF Copies
<1>9. ReceiptsAreTrue' /\ OneProject' /\ OnlyEndedAreSent'
  BY <1>1, <1>8 DEF ExportInv, ReceiptsAreTrue, AcceptedWasReceived, OneProject, OnlyEndedAreSent
<1>. QED  BY <1>1, <1>3, <1>4, <1>5, <1>6, <1>7, <1>9 DEF ExportInv

\* The observation the thread is at.
LEMMA NextIsEnded ==
    ASSUME ExporterTyped, PassIsSound, todo # <<>>
    PROVE  /\ Next1 \in Obs /\ Next1 \in Ended
           /\ Tail(todo) \in Seq(Obs)
           /\ \A i \in 1..Len(Tail(todo)) : Tail(todo)[i] \in Ended
<1>1. Next1 = todo[1] /\ Next1 \in Obs /\ 1 \in 1..Len(todo)
  BY TailOf DEF Next1, ExporterTyped
<1>. QED  BY <1>1, TailOf DEF PassIsSound, ExporterTyped

\* A receipt that no request is under way for is changed and saved; what the
\* new one says is either of the past or asks for a decision.
LEMMA SettleStep ==
    ASSUME ExportInv, phase = "scan", todo # <<>>, NEW r \in Receipt,
           \/ r.status = "uncertain" /\ r.attempts = mem[Next1].attempts
              /\ mem[Next1].status = "sending"
           \/ r.status = "rejected",
           mem' = [mem EXCEPT ![Next1] = r], Save(mem'), todo' = Tail(todo),
           UNCHANGED <<phase, faults, local, dest, world, operator>>
    PROVE  ExportInv'
<1> USE DEF world, operator
<1>1. WorkerTyped' /\ TreeIsSound' /\ Ended' = Ended
  BY ExporterKeepsWorker
<1>2. /\ Next1 \in Obs /\ Next1 \in Ended /\ Tail(todo) \in Seq(Obs)
      /\ \A i \in 1..Len(Tail(todo)) : Tail(todo)[i] \in Ended
  BY NextIsEnded DEF ExportInv
<1>3. /\ receipts' = mem' /\ bound' = dest /\ bound \in {None, dest} /\ mem = receipts
      /\ mem'[Next1] = r /\ \A o \in Obs \ {Next1} : mem'[o] = receipts[o]
      /\ mem' \in [Obs -> Receipt]
  BY <1>2 DEF Save, ExportInv, PassIsSound, ExporterTyped
<1>4. ExporterTyped'
  BY <1>2, <1>3 DEF ExportInv, ExporterTyped
<1>5. (AttemptsAreSound(receipts) /\ AttemptsAreSound(mem))'
  BY <1>3 DEF ExportInv, AttemptsAreSound
<1>6. PassIsSound'
  BY <1>1, <1>2, <1>3 DEF PassIsSound
<1>7. DeliveriesAreCounted'
  <2>1. \A o \in Obs : Undelivered(o)' => Undelivered(o)
    BY <1>2, <1>3 DEF Undelivered, InRequest
  <2>. QED  BY <2>1 DEF ExportInv, DeliveriesAreCounted, ExporterTyped
<1>8. BudgetKept'
  <2>1. ASSUME NEW o \in Obs
        PROVE  Spent(o)' = Spent(o)
    BY DEF Spent
  <2>2. ASSUME NEW o \in Obs
        PROVE  Budget(o) <= Budget(o)' /\ Budget(o)' \in Nat
    <3>1. MaxAttempts \in Nat /\ MaxAttempts * resolves[o] \in Nat /\ receipts[o].attempts \in 0..MaxAttempts
          /\ UNCHANGED resolves
      BY ExportAssumption, BudgetBounds DEF ExportInv, ExporterTyped, Receipt
    <3>2. CASE o # Next1
      BY <1>3, <3>1, <3>2 DEF Budget
    <3>3. CASE o = Next1 /\ r.status = "rejected"
      BY <1>3, <3>1, <3>3 DEF Budget
    <3>4. CASE o = Next1 /\ r.status # "rejected"
      BY <1>3, <3>1, <3>4 DEF Budget
    <3>. QED  BY <3>2, <3>3, <3>4
  <2>. QED  BY <2>1, <2>2, BudgetBounds DEF ExportInv, BudgetKept
<1>9. \A o \in Obs : Copies(o)' = Copies(o)
  BY DEF Copies
<1>10. ReceiptsAreTrue'
  BY <1>2, <1>3, <1>9 DEF ExportInv, ReceiptsAreTrue, AcceptedWasReceived
<1>11. OneProject'
  BY <1>3, <1>9, ExportAssumption DEF ExportInv, OneProject, Copies
<1>12. OnlyEndedAreSent'
  BY <1>1, <1>9 DEF ExportInv, OnlyEndedAreSent
<1>. QED  BY <1>1, <1>4, <1>5, <1>6, <1>7, <1>8, <1>10, <1>11, <1>12 DEF ExportInv

\* The intent of a request is saved: the attempt is counted before it is made.
LEMMA IntentStep ==
    ASSUME ExportInv, ToSend, mem' = [mem EXCEPT ![Next1] = [status |-> "sending", attempts |-> @.attempts + 1]],
           Save(mem'), phase' = "net",
           UNCHANGED <<todo, faults, local, dest, world, operator>>
    PROVE  ExportInv'
<1> USE DEF world, operator
<1>1. WorkerTyped' /\ TreeIsSound' /\ Ended' = Ended
  BY ExporterKeepsWorker
<1>2. todo # <<>> /\ phase = "scan" /\ Next1 \in Obs /\ Next1' = Next1
  BY NextIsEnded DEF ExportInv, ToSend, Next1
<1>3. /\ mem = receipts /\ receipts[Next1].status \in {"none", "retry"}
      /\ receipts[Next1].attempts \in 0..MaxAttempts /\ receipts[Next1].attempts < MaxAttempts
      /\ bound \in {None, dest}
  <2>1. mem = receipts /\ bound \in {None, dest} /\ receipts[Next1].status \in {"none", "retry"}
    BY <1>2 DEF ToSend, ExportInv, PassIsSound
  <2>2. receipts[Next1].attempts \in 0..MaxAttempts
    BY <1>2 DEF ExportInv, ExporterTyped, Receipt
  <2>3. receipts[Next1].attempts < MaxAttempts
    BY <1>2, <2>1, ExportAssumption DEF ExportInv, AttemptsAreSound
  <2>. QED  BY <2>1, <2>2, <2>3
<1> DEFINE r == [status |-> "sending", attempts |-> receipts[Next1].attempts + 1]
<1>4. r \in Receipt
  BY <1>3, ExportAssumption DEF Receipt, ReceiptStatuses
<1>5. /\ receipts' = mem' /\ bound' = dest
      /\ mem'[Next1] = r /\ \A o \in Obs \ {Next1} : mem'[o] = receipts[o]
      /\ mem' \in [Obs -> Receipt]
  BY <1>2, <1>3, <1>4 DEF Save, ExportInv, ExporterTyped
<1>6. r.status = "sending" /\ r.attempts = receipts[Next1].attempts + 1
  OBVIOUS
<1> HIDE DEF r
<1>7. ExporterTyped'
  BY <1>5 DEF ExportInv, ExporterTyped
<1>8. (AttemptsAreSound(receipts) /\ AttemptsAreSound(mem))'
  BY <1>5, <1>6 DEF ExportInv, AttemptsAreSound
<1>9. PassIsSound'
  BY <1>1, <1>2, <1>5, <1>6 DEF ExportInv, PassIsSound
<1>10. DeliveriesAreCounted'
  <2>1. \A o \in Obs : Undelivered(o)' => Undelivered(o)
    BY <1>2, <1>3, <1>5, <1>6 DEF Undelivered, InRequest
  <2>. QED  BY <2>1 DEF ExportInv, DeliveriesAreCounted, ExporterTyped
<1>11. BudgetKept'
  <2>1. SUFFICES ASSUME NEW o \in Obs
                 PROVE  Spent(o)' <= Budget(o)'
    BY DEF BudgetKept
  <2>2. Spent(o) <= Budget(o) /\ Spent(o) = sends[o] /\ sends[o] \in Nat
    BY <1>2 DEF ExportInv, BudgetKept, Spent, ExporterTyped
  <2>3. MaxAttempts * resolves[o] \in Nat /\ UNCHANGED <<resolves, sends>>
    BY BudgetBounds DEF ExportInv
  <2>4. CASE o = Next1
    <3>1. Spent(o)' = Spent(o) + 1
      BY <1>2, <2>2, <2>4 DEF Spent, InRequest
    <3>2. Budget(o)' = Budget(o) + 1 /\ Budget(o) \in Nat
      BY <1>3, <1>5, <1>6, <2>3, <2>4 DEF Budget
    <3>. QED  BY <2>2, <3>1, <3>2
  <2>5. CASE o # Next1
    <3>1. Spent(o)' = Spent(o)
      BY <1>2, <2>2, <2>5 DEF Spent, InRequest
    <3>2. Budget(o)' = Budget(o)
      BY <1>5, <2>3, <2>5 DEF Budget
    <3>. QED  BY <2>2, <3>1, <3>2
  <2>. QED  BY <2>4, <2>5
<1>12. \A o \in Obs : Copies(o)' = Copies(o)
  BY DEF Copies
<1>13. ReceiptsAreTrue'
  BY <1>2, <1>5, <1>6, <1>12 DEF ExportInv, ReceiptsAreTrue, AcceptedWasReceived
<1>14. OneProject'
  BY <1>3, <1>5, <1>12, ExportAssumption DEF ExportInv, OneProject, Copies
<1>15. OnlyEndedAreSent'
  BY <1>1, <1>12 DEF ExportInv, OnlyEndedAreSent
<1>. QED  BY <1>1, <1>7, <1>8, <1>9, <1>10, <1>11, <1>13, <1>14, <1>15 DEF ExportInv

\* A request and what the thread makes of its answer.  Only an answer that is
\* certain not to come from the project leads to a retry.
LEMMA RequestStep ==
    ASSUME ExportInv, NEW delivered \in BOOLEAN, NEW s \in Settled \cup {"retry"},
           Request(delivered), mem' = With(s),
           s = "accepted" => delivered,
           s = "retry" => ~delivered /\ mem[Next1].attempts < MaxAttempts,
           s = "exhausted" => mem[Next1].attempts >= MaxAttempts
    PROVE  ExportInv'
<1> USE DEF disk, operator
<1>1. WorkerTyped' /\ TreeIsSound' /\ Ended' = Ended
  BY ExporterKeepsWorker DEF Request
<1>2. /\ phase = "net" /\ phase' = "save" /\ Next1' = Next1
      /\ sends' = [sends EXCEPT ![Next1] = @ + 1]
      /\ UNCHANGED <<receipts, bound, dest, todo, resolves, vouched>>
  BY DEF Request, Next1
<1>3. todo # <<>> /\ bound = dest /\ receipts[Next1].status = "sending" /\ mem = receipts
  BY <1>2 DEF ExportInv, PassIsSound
<1>4. Next1 \in Obs /\ Next1 \in Ended
  BY <1>3, NextIsEnded DEF ExportInv
<1>5. /\ mem' \in [Obs -> Receipt] /\ mem'[Next1].status = s
      /\ mem'[Next1].attempts = mem[Next1].attempts
      /\ \A o \in Obs \ {Next1} : mem'[o] = mem[o]
  <2>1. s \in ReceiptStatuses
    BY DEF ReceiptStatuses, Settled
  <2>. QED  BY <1>4, <2>1, WithStatus DEF ExportInv, ExporterTyped
<1>6. /\ remote' \in [Obs -> [Dests -> Nat]]
      /\ \A o \in Obs, d \in Dests :
            /\ remote'[o][d] = IF delivered /\ o = Next1 /\ d = dest
                               THEN remote[o][d] + 1 ELSE remote[o][d]
            /\ remote[o][d] \in Nat
  <2>1. dest \in Dests /\ remote \in [Obs -> [Dests -> Nat]]
    BY DEF ExportInv, ExporterTyped
  <2>2. CASE delivered
    <3>1. remote' = [remote EXCEPT ![Next1][dest] = @ + 1]
      BY <2>2 DEF Request
    <3>. QED  BY <1>4, <2>1, <2>2, <3>1
  <2>3. CASE ~delivered
    <3>1. remote' = remote
      BY <2>3 DEF Request
    <3>. QED  BY <2>1, <2>3, <3>1
  <2>. QED  BY <2>2, <2>3
<1>7. ExporterTyped'
  <2>1. sends' \in [Obs -> Nat]
    BY <1>2, <1>4 DEF ExportInv, ExporterTyped
  <2>. QED  BY <1>2, <1>5, <1>6, <2>1 DEF ExportInv, ExporterTyped
<1>8. (AttemptsAreSound(receipts) /\ AttemptsAreSound(mem))'
  BY <1>2, <1>5 DEF ExportInv, AttemptsAreSound, Settled
<1>9. PassIsSound'
  BY <1>1, <1>2, <1>3, <1>5 DEF ExportInv, PassIsSound
<1>10. DeliveriesAreCounted'
  <2>1. SUFFICES ASSUME NEW o \in Obs, NEW d \in Dests
                 PROVE  remote'[o][d] <= resolves[o] + (IF Undelivered(o)' THEN 0 ELSE 1)
    BY <1>2 DEF DeliveriesAreCounted
  <2>2. resolves[o] \in Nat /\ remote[o][d] <= resolves[o] + (IF Undelivered(o) THEN 0 ELSE 1)
    BY ExportAssumption DEF ExportInv, DeliveriesAreCounted, ExporterTyped
  <2>3. CASE o # Next1
    <3>1. Undelivered(o)' => Undelivered(o)
      BY <1>2, <2>3 DEF Undelivered, InRequest
    <3>. QED  BY <1>6, <2>2, <2>3, <3>1
  <2>4. CASE o = Next1
    <3>1. Undelivered(o)
      BY <1>2, <1>3, <2>4 DEF Undelivered, InRequest
    <3>2. Undelivered(o)' => s = "retry"
      BY <1>2, <1>3, <1>5, <2>4 DEF Undelivered, InRequest
    <3>3. remote[o][d] <= resolves[o] /\ remote[o][d] \in Nat
      BY <1>6, <2>2, <3>1
    <3>4. remote'[o][d] <= remote[o][d] + (IF delivered THEN 1 ELSE 0)
      BY <1>6
    <3>5. CASE delivered
      BY <1>6, <2>2, <3>2, <3>3, <3>4, <3>5
    <3>6. CASE ~delivered
      BY <1>6, <2>2, <3>3, <3>6
    <3>. QED  BY <3>5, <3>6
  <2>. QED  BY <2>3, <2>4
<1>11. BudgetKept'
  <2>1. SUFFICES ASSUME NEW o \in Obs
                 PROVE  Spent(o)' <= Budget(o)'
    BY DEF BudgetKept
  <2>2. Spent(o) <= Budget(o) /\ sends[o] \in Nat
    BY DEF ExportInv, BudgetKept, ExporterTyped
  <2>3. Budget(o)' = Budget(o)
    BY <1>2 DEF Budget
  <2>4. Spent(o)' = Spent(o)
    <3>1. Spent(o)' = sends'[o]
      BY <1>2, <1>7 DEF Spent, ExporterTyped
    <3>2. CASE o = Next1
      BY <1>2, <1>3, <1>4, <2>2, <3>1, <3>2 DEF Spent, InRequest, ExportInv, ExporterTyped
    <3>3. CASE o # Next1
      BY <1>2, <1>4, <2>2, <3>1, <3>3 DEF Spent, InRequest, ExportInv, ExporterTyped
    <3>. QED  BY <3>2, <3>3
  <2>. QED  BY <2>2, <2>3, <2>4
<1>12. /\ \A o \in Obs : Copies(o) \subseteq Copies(o)' /\ Copies(o)' \subseteq Copies(o) \cup {dest}
       /\ \A o \in Obs \ {Next1} : Copies(o)' = Copies(o)
       /\ delivered => Copies(Next1)' # {}
  <2>1. dest \in Dests
    BY DEF ExportInv, ExporterTyped
  <2>2. delivered => remote'[Next1][dest] > 0
    BY <1>4, <1>6, <2>1
  <2>3. ASSUME NEW o \in Obs
        PROVE  /\ Copies(o) \subseteq Copies(o)' /\ Copies(o)' \subseteq Copies(o) \cup {dest}
               /\ o # Next1 => Copies(o)' = Copies(o)
    BY <1>6 DEF Copies
  <2>. QED  BY <1>2, <1>4, <2>1, <2>2, <2>3 DEF Copies
<1>13. ReceiptsAreTrue'
  <2>1. AcceptedWasReceived'
    BY <1>2, <1>12 DEF ExportInv, ReceiptsAreTrue, AcceptedWasReceived
  <2>2. mem'[Next1].status = "accepted" => Copies(Next1)' # {}
    BY <1>5, <1>12
  <2>. QED  BY <1>2, <2>1, <2>2 DEF ReceiptsAreTrue, Copies
<1>14. OneProject'
  BY <1>2, <1>3, <1>12 DEF ExportInv, OneProject
<1>15. OnlyEndedAreSent'
  BY <1>1, <1>4, <1>12 DEF ExportInv, OnlyEndedAreSent
<1>. QED  BY <1>1, <1>7, <1>8, <1>9, <1>10, <1>11, <1>13, <1>14, <1>15 DEF ExportInv

\* The outcome is saved; only then is the receipt on disk the thread's.
LEMMA OutcomeStep ==
    ASSUME ExportInv, phase = "save", Save(mem), phase' = "scan", todo' = Tail(todo),
           UNCHANGED <<mem, faults, local, dest, world, operator>>
    PROVE  ExportInv'
<1> USE DEF world, operator
<1>1. WorkerTyped' /\ TreeIsSound' /\ Ended' = Ended
  BY ExporterKeepsWorker
<1>2. /\ todo # <<>> /\ bound = dest /\ receipts[Next1].status = "sending"
      /\ \A o \in Obs \ {Next1} : mem[o] = receipts[o]
      /\ mem[Next1].attempts = receipts[Next1].attempts
      /\ receipts' = mem /\ bound' = dest
  BY DEF ExportInv, PassIsSound, Save
<1>3. /\ Next1 \in Obs /\ Next1 \in Ended /\ Tail(todo) \in Seq(Obs)
      /\ \A i \in 1..Len(Tail(todo)) : Tail(todo)[i] \in Ended
  BY <1>2, NextIsEnded DEF ExportInv
<1>4. ExporterTyped'
  BY <1>2, <1>3 DEF ExportInv, ExporterTyped
<1>5. (AttemptsAreSound(receipts) /\ AttemptsAreSound(mem))'
  BY <1>2 DEF ExportInv, AttemptsAreSound
<1>6. PassIsSound'
  BY <1>1, <1>2, <1>3 DEF PassIsSound
<1>7. mem[Next1].status \in Settled \cup {"retry"}
  BY DEF ExportInv, PassIsSound
<1>8. DeliveriesAreCounted'
  <2>1. \A o \in Obs : Undelivered(o)' => Undelivered(o)
    BY <1>2, <1>3, <1>7 DEF Undelivered, InRequest, Settled
  <2>. QED  BY <2>1 DEF ExportInv, DeliveriesAreCounted, ExporterTyped
<1>9. BudgetKept'
  <2>1. SUFFICES ASSUME NEW o \in Obs
                 PROVE  Spent(o)' <= Budget(o)'
    BY DEF BudgetKept
  <2>2. Spent(o)' = Spent(o)
    BY DEF Spent
  <2>3. Budget(o) <= Budget(o)' /\ Budget(o)' \in Nat
    <3>1. MaxAttempts \in Nat /\ MaxAttempts * resolves[o] \in Nat /\ receipts[o].attempts \in 0..MaxAttempts
          /\ UNCHANGED resolves
      BY ExportAssumption, BudgetBounds DEF ExportInv, ExporterTyped, Receipt
    <3>2. receipts'[o].attempts = receipts[o].attempts
          /\ (receipts[o].status = "rejected" => receipts'[o].status = "rejected")
      BY <1>2
    <3>. QED  BY <3>1, <3>2 DEF Budget
  <2>. QED  BY <2>2, <2>3, BudgetBounds DEF ExportInv, BudgetKept
<1>10. \A o \in Obs : Copies(o)' = Copies(o)
  BY DEF Copies
<1>11. ReceiptsAreTrue'
  BY <1>2, <1>10 DEF ExportInv, ReceiptsAreTrue, AcceptedWasReceived
<1>12. OneProject' /\ OnlyEndedAreSent'
  BY <1>1, <1>2, <1>10 DEF ExportInv, OneProject, OnlyEndedAreSent
<1>. QED  BY <1>1, <1>4, <1>5, <1>6, <1>8, <1>9, <1>11, <1>12 DEF ExportInv

\* The operator decides: one more delivery and one more budget.
LEMMA ResolveStep ==
    ASSUME ExportInv, NEW x \in Obs, NEW decision \in {"retry", "accepted"}, Resolve(x, decision)
    PROVE  ExportInv'
<1> USE DEF thread, world
<1>1. WorkerTyped' /\ TreeIsSound' /\ Ended' = Ended
  BY ExporterKeepsWorker DEF Resolve
<1> DEFINE r == [status |-> decision, attempts |-> 0]
<1>2. r \in Receipt /\ r.status = decision /\ r.attempts = 0
  BY ExportAssumption DEF Receipt, ReceiptStatuses
<1>3. /\ receipts' = [receipts EXCEPT ![x] = r]
      /\ phase = "idle" /\ resolves' = [resolves EXCEPT ![x] = @ + 1] /\ resolves[x] < MaxResolves
      /\ UNCHANGED <<phase, mem, todo, bound, dest, remote, sends>>
      /\ vouched' = IF decision = "accepted" THEN vouched \cup {x} ELSE vouched
  BY DEF Resolve
<1> HIDE DEF r
<1>4. \A o \in Obs : /\ receipts'[o] = IF o = x THEN r ELSE receipts[o]
                     /\ resolves'[o] = IF o = x THEN resolves[o] + 1 ELSE resolves[o]
  BY <1>3 DEF ExportInv, ExporterTyped
<1>5. ExporterTyped'
  <2>1. resolves' \in [Obs -> 0..MaxResolves]
    BY <1>3, ExportAssumption DEF ExportInv, ExporterTyped
  <2>2. receipts' \in [Obs -> Receipt]
    BY <1>2, <1>3 DEF ExportInv, ExporterTyped
  <2>. QED  BY <1>3, <2>1, <2>2 DEF ExportInv, ExporterTyped
<1>6. (AttemptsAreSound(receipts) /\ AttemptsAreSound(mem))'
  BY <1>2, <1>3, <1>4, ExportAssumption DEF ExportInv, AttemptsAreSound
<1>7. PassIsSound'
  BY <1>1, <1>3 DEF ExportInv, PassIsSound
<1>8. DeliveriesAreCounted'
  <2>1. SUFFICES ASSUME NEW o \in Obs, NEW d \in Dests
                 PROVE  remote[o][d] <= resolves'[o] + (IF Undelivered(o)' THEN 0 ELSE 1)
    BY <1>3 DEF DeliveriesAreCounted
  <2>2. resolves[o] \in Nat /\ remote[o][d] \in Nat
        /\ remote[o][d] <= resolves[o] + (IF Undelivered(o) THEN 0 ELSE 1)
    BY ExportAssumption DEF ExportInv, DeliveriesAreCounted, ExporterTyped
  <2>3. CASE o = x
    BY <1>4, <2>2, <2>3
  <2>4. CASE o # x
    <3>1. Undelivered(o)' => Undelivered(o)
      BY <1>3, <1>4, <2>4 DEF Undelivered, InRequest
    <3>. QED  BY <1>4, <2>2, <2>4, <3>1
  <2>. QED  BY <2>3, <2>4
<1>9. BudgetKept'
  <2>1. SUFFICES ASSUME NEW o \in Obs
                 PROVE  Spent(o)' <= Budget(o)'
    BY DEF BudgetKept
  <2>2. Spent(o)' = Spent(o) /\ Spent(o) <= Budget(o)
    BY <1>3 DEF Spent, ExportInv, BudgetKept
  <2>3. CASE o = x
    <3>1. Budget(o) <= MaxAttempts * (resolves[o] + 1) /\ MaxAttempts * (resolves[o] + 1) \in Nat
          /\ Spent(o) \in Nat /\ Budget(o) \in Nat /\ MaxAttempts \in Nat
      BY BudgetBounds, ExportAssumption DEF ExportInv
    <3>2. Budget(o)' = MaxAttempts * (resolves[o] + 1)
      <4>1. Budget(o)' = MaxAttempts * (resolves[o] + 1)
                         + (IF receipts'[o].status = "rejected" THEN MaxAttempts ELSE receipts'[o].attempts)
        BY <1>4, <2>3 DEF Budget
      <4>2. receipts'[o].status # "rejected" /\ receipts'[o].attempts = 0
        BY <1>2, <1>4, <2>3
      <4>. QED  BY <3>1, <4>1, <4>2
    <3>. QED  BY <2>2, <3>1, <3>2
  <2>4. CASE o # x
    <3>1. Budget(o)' = Budget(o)
      BY <1>4, <2>4 DEF Budget
    <3>. QED  BY <2>2, <3>1
  <2>. QED  BY <2>3, <2>4
<1>10. \A o \in Obs : Copies(o)' = Copies(o)
  BY <1>3 DEF Copies
<1>11. ReceiptsAreTrue'
  BY <1>2, <1>3, <1>4, <1>10 DEF ExportInv, ReceiptsAreTrue, AcceptedWasReceived
<1>12. OneProject' /\ OnlyEndedAreSent'
  BY <1>1, <1>3, <1>10 DEF ExportInv, OneProject, OnlyEndedAreSent
<1>. QED  BY <1>1, <1>5, <1>6, <1>7, <1>8, <1>9, <1>11, <1>12 DEF ExportInv

\* Every step of a pass over the trace; a failure of the disk ends it anywhere.
LEMMA PassStep ==
    ASSUME ExportInv, Pass
    PROVE  ExportInv'
<1>1. ASSUME EndPass, UNCHANGED <<local, disk, dest, world, operator>>, UNCHANGED faults \/ Fault
      PROVE  ExportInv'
  <2>1. dest' \in Dests
    BY <1>1 DEF ExportInv, ExporterTyped
  <2>. QED  BY <1>1, <2>1, ExporterKeepsWorker, EndPassStep
<1>2. CASE Begin
  <2> USE <1>2 DEF Begin, disk, world, operator
  <2>1. WorkerTyped' /\ TreeIsSound' /\ Ended' = Ended
    BY ExporterKeepsWorker
  <2>2. ExporterTyped'
    BY DEF ExportInv, ExporterTyped, WorkerTyped
  <2>3. (AttemptsAreSound(receipts) /\ AttemptsAreSound(mem))'
    BY DEF ExportInv, AttemptsAreSound
  <2>4. PassIsSound'
    BY <2>1 DEF PassIsSound, Ended
  <2>5. DeliveriesAreCounted'
    BY DEF ExportInv, DeliveriesAreCounted, Undelivered, InRequest
  <2>6. BudgetKept'
    BY DEF ExportInv, BudgetKept, Spent, Budget
  <2>7. \A o \in Obs : Copies(o)' = Copies(o)
    BY DEF Copies
  <2>8. ReceiptsAreTrue' /\ OneProject' /\ OnlyEndedAreSent'
    BY <2>1, <2>7 DEF ExportInv, ReceiptsAreTrue, AcceptedWasReceived, OneProject, OnlyEndedAreSent
  <2>. QED  BY <2>1, <2>2, <2>3, <2>4, <2>5, <2>6, <2>8 DEF ExportInv
<1>3. CASE ReachEnd
  BY <1>1, <1>3 DEF ReachEnd
<1>4. CASE SkipInterrupted
  <2>1. phase = "scan" /\ todo # <<>> /\ mem[Next1].status = "sending"
    BY <1>4 DEF SkipInterrupted
  <2>2. CASE mem' = With("uncertain") /\ Save(mem') /\ todo' = Tail(todo) /\ UNCHANGED <<phase, faults>>
    <3> DEFINE r == [mem[Next1] EXCEPT !.status = "uncertain"]
    <3>1. Next1 \in Obs /\ mem[Next1] \in Receipt
      BY <2>1, NextIsEnded DEF ExportInv, ExporterTyped
    <3>2. r \in Receipt /\ r.status = "uncertain" /\ r.attempts = mem[Next1].attempts
      BY <3>1 DEF Receipt, ReceiptStatuses
    <3>3. mem' = [mem EXCEPT ![Next1] = r]
      BY <2>2 DEF With
    <3> HIDE DEF r
    <3>. QED  BY <1>4, <2>1, <2>2, <3>2, <3>3, SettleStep DEF SkipInterrupted
  <2>. QED  BY <1>1, <1>4, <2>2 DEF SkipInterrupted
<1>5. CASE SkipSettled \/ SkipWaiting
  BY <1>5, SkipStep DEF SkipSettled, SkipWaiting, ToSend
<1>6. CASE Unbuildable
  BY <1>1, <1>6 DEF Unbuildable
<1>7. CASE RejectOversized
  <2> DEFINE r == [status |-> "rejected", attempts |-> 0]
  <2>1. r \in Receipt /\ r.status = "rejected"
    BY ExportAssumption DEF Receipt, ReceiptStatuses
  <2>2. CASE mem' = [mem EXCEPT ![Next1] = r] /\ Save(mem') /\ todo' = Tail(todo) /\ UNCHANGED <<phase, faults>>
    <3> HIDE DEF r
    <3>. QED  BY <1>7, <2>1, <2>2, SettleStep DEF RejectOversized, ToSend
  <2>. QED  BY <1>1, <1>7, <2>2 DEF RejectOversized
<1>8. CASE SaveIntent
  BY <1>1, <1>8, IntentStep DEF SaveIntent
<1>9. CASE SaveOutcome
  BY <1>1, <1>9, OutcomeStep DEF SaveOutcome
<1>10. CASE Delivered
  BY <1>10, RequestStep DEF Delivered, Settled
<1>11. CASE Uncertain
  <2>1. PICK delivered \in BOOLEAN : Request(delivered) /\ mem' = With("uncertain")
    BY <1>11 DEF Uncertain
  <2>. QED  BY <2>1, RequestStep DEF Settled
<1>12. CASE Backpressure
  <2> DEFINE s == IF mem[Next1].attempts < MaxAttempts THEN "retry" ELSE "exhausted"
  <2>1. /\ s \in Settled \cup {"retry"} /\ s # "accepted"
        /\ s = "retry" => mem[Next1].attempts < MaxAttempts
    BY DEF Settled
  <2>2. Request(FALSE) /\ mem' = With(s)
    BY <1>12 DEF Backpressure
  <2>3. todo # <<>> /\ phase = "net"
    <3>1. phase = "net"
      BY <2>2 DEF Request
    <3>. QED  BY <3>1 DEF ExportInv, PassIsSound
  <2>4. mem[Next1].attempts \in Nat /\ MaxAttempts \in Nat
    <3>1. Next1 \in Obs
      BY <2>3, NextIsEnded DEF ExportInv
    <3>2. mem[Next1] \in Receipt
      BY <3>1 DEF ExportInv, ExporterTyped
    <3>3. MaxAttempts \in Nat
      BY ExportAssumption
    <3>. QED  BY <3>2, <3>3 DEF Receipt
  <2>5. s = "exhausted" => mem[Next1].attempts >= MaxAttempts
    BY <2>4
  <2> HIDE DEF s
  <2>. QED  BY <2>1, <2>2, <2>5, RequestStep
<1>13. CASE RejectedByProject
  BY <1>13, RequestStep DEF RejectedByProject, Settled
<1>. QED
  BY <1>2, <1>3, <1>4, <1>5, <1>6, <1>7, <1>8, <1>9, <1>10, <1>11, <1>12, <1>13 DEF Pass

LEMMA RestartStep ==
    ASSUME ExportInv, ProcessRestart
    PROVE  ExportInv'
<1>1. Ended' = Ended
  BY DEF ProcessRestart, Ended
<1>2. WorkerTyped'
  BY ExportAssumption DEF ExportInv, WorkerTyped, ProcessRestart, Fault
<1>3. TreeIsSound'
  BY <1>1 DEF ExportInv, TreeIsSound, ProcessRestart
<1>. QED  BY <1>1, <1>2, <1>3, EndPassStep DEF ProcessRestart

LEMMA ExportInvStep == ExportInv /\ [ExportNext]_exportVars => ExportInv'
<1> SUFFICES ASSUME ExportInv, [ExportNext]_exportVars
             PROVE  ExportInv'
  OBVIOUS
<1>1. CASE UNCHANGED exportVars
  <2>1. Ended' = Ended
    BY <1>1 DEF exportVars, Ended
  <2>2. WorkerTyped'
    BY <1>1 DEF ExportInv, WorkerTyped, exportVars
  <2>3. TreeIsSound'
    BY <1>1, <2>1 DEF ExportInv, TreeIsSound, exportVars
  <2>. QED  BY <1>1, <2>1, <2>2, <2>3, WorkerKeepsExporter DEF exportVars, thread, disk, world, operator
<1>. QED
  BY <1>1, StartStep, EndStep, CorruptStep, PassStep, ResolveStep, RestartStep DEF ExportNext

LEMMA ExportInvariance == ExportSpec => []ExportInv
BY ExportInvInit, ExportInvStep, PTL DEF ExportSpec

-----------------------------------------------------------------------------
(* The theorems                                                             *)

\* Every variable of the trace and its export has its type.
THEOREM ExportTypeCorrect == ExportSpec => []ExportTypeOK
<1>1. ExportInv => ExportTypeOK
  BY DEF ExportInv, WorkerTyped, ExporterTyped, ExportTypeOK
<1>. QED  BY <1>1, ExportInvariance, PTL

\* A project receives a span once, and once more for each retry an operator
\* has decided: a send whose outcome is unknown is never repeated.  The requests
\* are bounded by the attempts of the decisions (langfuse_export_max_attempts),
\* whatever restarts come in between (observability/langfuse_exporter.py,
\* _export_trace).
THEOREM DeliveredAtMostOnce == ExportSpec => []AtMostOnce
<1>1. ExportInv => AtMostOnce
  <2> SUFFICES ASSUME ExportInv
               PROVE  AtMostOnce
    OBVIOUS
  <2>1. ASSUME NEW o \in Obs, NEW d \in Dests
        PROVE  remote[o][d] <= 1 + resolves[o]
    <3>1. resolves[o] \in Nat /\ remote[o][d] \in Nat
      BY ExportAssumption DEF ExportInv, ExporterTyped
    <3>2. remote[o][d] <= resolves[o] + (IF Undelivered(o) THEN 0 ELSE 1)
      BY DEF ExportInv, DeliveriesAreCounted
    <3>. QED  BY <3>1, <3>2
  <2>2. ASSUME NEW o \in Obs
        PROVE  sends[o] <= MaxAttempts * (1 + resolves[o])
    <3>1. /\ Spent(o) <= Budget(o) /\ Budget(o) <= MaxAttempts * (resolves[o] + 1)
          /\ MaxAttempts * (resolves[o] + 1) = MaxAttempts * resolves[o] + MaxAttempts
          /\ MaxAttempts * resolves[o] \in Nat /\ Spent(o) \in Nat /\ Budget(o) \in Nat
      BY BudgetBounds DEF ExportInv, BudgetKept
    <3>2. sends[o] \in Nat /\ sends[o] <= Spent(o)
      BY DEF Spent, ExportInv, ExporterTyped
    <3>3. resolves[o] \in Nat /\ MaxAttempts \in Nat
      BY ExportAssumption DEF ExportInv, ExporterTyped
    <3>4. 1 + resolves[o] = resolves[o] + 1
      BY <3>3
    <3>. QED  BY <3>1, <3>2, <3>3, <3>4
  <2>. QED  BY <2>1, <2>2 DEF AtMostOnce
<1>. QED  BY <1>1, ExportInvariance, PTL

\* A receipt that says accepted is true, unless the operator said so.
THEOREM AcceptedIsTrue == ExportSpec => []AcceptedWasReceived
<1>1. ExportInv => AcceptedWasReceived
  BY DEF ExportInv, ReceiptsAreTrue
<1>. QED  BY <1>1, ExportInvariance, PTL

\* All spans of a trace go to the project its state is bound to, though the
\* settings may change at any restart.
THEOREM SentToOneProject == ExportSpec => []OneProject
<1>1. ExportInv => OneProject
  BY DEF ExportInv
<1>. QED  BY <1>1, ExportInvariance, PTL

\* A span that has been sent is of an operation that has ended, and so have
\* all recorded operations under it (observability/store.py, _validate).
THEOREM SentIsFinal == ExportSpec => []ExportedIsFinal
<1>1. ExportInv => ExportedIsFinal
  BY DEF ExportInv, OnlyEndedAreSent, TreeIsSound, ExportedIsFinal
<1>. QED  BY <1>1, ExportInvariance, PTL

-----------------------------------------------------------------------------
(* Refinement                                                               *)

(***************************************************************************)
(* A step of the exporter is a step of one receipt or a stutter.  The      *)
(* guards of SpanDelivery are about the receipts on disk, those of the     *)
(* pass about the thread's copy: PassIsSound says where the two agree.     *)
(***************************************************************************)

Sends(o, reply) == [span |-> o, answer |-> reply]
Idle == [span |-> None, answer |-> "none"]

LEMMA RequestSeen ==
    /\ phase = "net" => PendingRequest = Sends(Next1, "open")
    /\ phase \notin {"net", "save"} => PendingRequest = Idle
    /\ phase = "save" =>
          /\ mem[Next1].status = "accepted" => PendingRequest = Sends(Next1, "taken")
          /\ mem[Next1].status = "uncertain" => PendingRequest = Sends(Next1, "unknown")
          /\ mem[Next1].status \notin {"accepted", "uncertain"} =>
                PendingRequest = Sends(Next1, "refused")
BY DEF PendingRequest, Sends, Idle

LEMMA RequestSeenNext ==
    /\ phase' = "net" => PendingRequest' = Sends(Next1', "open")
    /\ phase' \notin {"net", "save"} => PendingRequest' = Idle
    /\ phase' = "save" =>
          /\ mem'[Next1'].status = "accepted" => PendingRequest' = Sends(Next1', "taken")
          /\ mem'[Next1'].status = "uncertain" => PendingRequest' = Sends(Next1', "unknown")
          /\ mem'[Next1'].status \notin {"accepted", "uncertain"} =>
                PendingRequest' = Sends(Next1', "refused")
BY DEF PendingRequest, Sends, Idle

\* A receipt that is written by a step of the pass that has no request.
LEMMA WrittenInPass ==
    ASSUME ExportInv, phase = "scan", todo # <<>>, Save(mem'), phase' = "scan", remote' = remote,
           dest' = dest,
           \/ mem[Next1].status = "sending" /\ mem' = With("uncertain")
           \/ mem[Next1].status \in {"none", "retry"}
              /\ mem' = [mem EXCEPT ![Next1] = [status |-> "rejected", attempts |-> 0]]
    PROVE  Delivery!DeliveryNext
<1>1. Next1 \in Obs /\ mem = receipts /\ bound \in {None, dest} /\ receipts \in [Obs -> Receipt]
      /\ dest \in Dests
  BY NextIsEnded DEF ExportInv, PassIsSound, ExporterTyped
<1>2. receipts' = mem' /\ bound' = dest
  BY DEF Save
<1>3. PendingRequest = Idle /\ PendingRequest' = Idle
  BY RequestSeen, RequestSeenNext
<1>4. Delivery!Bind
  BY <1>1, <1>2 DEF Delivery!Bind
<1>5. CASE mem[Next1].status = "sending" /\ mem' = With("uncertain")
  <2>1. Delivery!Write(Next1, {"sending"}, "uncertain", receipts[Next1].attempts)
    <3>1. receipts' = [receipts EXCEPT ![Next1].status = "uncertain"]
      BY <1>1, <1>2, <1>5 DEF With
    <3> DEFINE o == Next1
    <3>2. o \in Obs /\ receipts \in [Obs -> Receipt]
      BY <1>1
    <3> HIDE DEF o
    <3>3. [receipts EXCEPT ![o].status = "uncertain"]
             = [receipts EXCEPT ![o] = [status |-> "uncertain", attempts |-> receipts[o].attempts]]
      <4>1. receipts[o] \in Receipt
        BY <3>2
      <4>2. [receipts[o] EXCEPT !.status = "uncertain"]
               = [status |-> "uncertain", attempts |-> receipts[o].attempts]
        BY <4>1 DEF Receipt
      <4>. QED  BY <4>2
    <3>4. receipts' = [receipts EXCEPT ![Next1] =
                          [status |-> "uncertain", attempts |-> receipts[Next1].attempts]]
      BY <3>1, <3>3 DEF o
    <3>. QED  BY <1>1, <1>5, <3>4 DEF Delivery!Write
  <2>2. Delivery!Doubt(Next1)
    BY <1>3, <1>4, <2>1 DEF Delivery!Doubt, Delivery!NoRequest, Idle
  <2>. QED  BY <1>1, <2>2 DEF Delivery!DeliveryNext
<1>6. CASE /\ mem[Next1].status \in {"none", "retry"}
           /\ mem' = [mem EXCEPT ![Next1] = [status |-> "rejected", attempts |-> 0]]
  <2>1. Delivery!Write(Next1, {"none", "retry"}, "rejected", 0)
    BY <1>1, <1>2, <1>6 DEF Delivery!Write
  <2>2. Delivery!Dismiss(Next1)
    BY <1>3, <1>4, <2>1 DEF Delivery!Dismiss, Delivery!NoRequest, Idle
  <2>. QED  BY <1>1, <2>2 DEF Delivery!DeliveryNext
<1>. QED  BY <1>5, <1>6

LEMMA IntentDelivery ==
    ASSUME ExportInv, ToSend, phase' = "net", Save(mem'),
           mem' = [mem EXCEPT ![Next1] = [status |-> "sending", attempts |-> @.attempts + 1]],
           UNCHANGED <<todo, remote, dest>>
    PROVE  Delivery!DeliveryNext
<1>1. phase = "scan" /\ todo # <<>> /\ mem[Next1].status \in {"none", "retry"}
  BY DEF ToSend
<1>2. Next1 \in Obs /\ mem = receipts /\ bound \in {None, dest} /\ receipts \in [Obs -> Receipt]
      /\ dest \in Dests
  BY <1>1, NextIsEnded DEF ExportInv, PassIsSound, ExporterTyped
<1>3. receipts' = mem' /\ bound' = dest /\ Next1' = Next1
  BY DEF Save, Next1
<1>4. PendingRequest = Idle /\ PendingRequest' = Sends(Next1, "open")
  BY <1>1, <1>3, RequestSeen, RequestSeenNext
<1>5. Delivery!Bind
  BY <1>2, <1>3 DEF Delivery!Bind
<1>6. Delivery!Write(Next1, {"none", "retry"}, "sending", receipts[Next1].attempts + 1)
  BY <1>1, <1>2, <1>3 DEF Delivery!Write
<1>7. Delivery!Intend(Next1)
  BY <1>4, <1>5, <1>6 DEF Delivery!Intend, Delivery!NoRequest, Idle, Sends
<1>. QED  BY <1>2, <1>7 DEF Delivery!DeliveryNext

LEMMA RequestDelivery ==
    ASSUME ExportInv, NEW delivered \in BOOLEAN, NEW s \in Settled \cup {"retry"},
           Request(delivered), mem' = With(s),
           s = "accepted" => delivered,
           s \notin {"accepted", "uncertain"} => ~delivered
    PROVE  Delivery!DeliveryNext
<1>1. /\ phase = "net" /\ phase' = "save" /\ UNCHANGED <<receipts, bound, todo>>
      /\ remote' = IF delivered THEN [remote EXCEPT ![Next1][dest] = @ + 1] ELSE remote
      /\ Next1' = Next1
  BY DEF Request, disk, Next1
<1>2. todo # <<>> /\ bound = dest /\ mem = receipts
  BY <1>1 DEF ExportInv, PassIsSound
<1>3. Next1 \in Obs /\ mem \in [Obs -> Receipt]
  BY <1>2, NextIsEnded DEF ExportInv, ExporterTyped
<1>4. mem'[Next1].status = s
  <2>1. s \in ReceiptStatuses
    BY DEF ReceiptStatuses, Settled
  <2>. QED  BY <1>3, <2>1, WithStatus
<1> DEFINE reply == IF s = "accepted" THEN "taken" ELSE IF s = "uncertain" THEN "unknown" ELSE "refused"
<1>5. PendingRequest = Sends(Next1, "open") /\ PendingRequest' = Sends(Next1, reply)
  BY <1>1, <1>4, RequestSeen, RequestSeenNext
<1>6. \/ reply \in {"taken", "unknown"} /\ remote' = [remote EXCEPT ![Next1][bound] = @ + 1]
      \/ reply \in {"refused", "unknown"} /\ UNCHANGED remote
  BY <1>1, <1>2
<1>7. reply \in {"taken", "refused", "unknown"}
  OBVIOUS
<1> HIDE DEF reply
<1>8. Delivery!Send(Next1, reply)
  BY <1>1, <1>5, <1>6 DEF Delivery!Send, Sends
<1>. QED  BY <1>3, <1>7, <1>8 DEF Delivery!DeliveryNext

LEMMA OutcomeDelivery ==
    ASSUME ExportInv, phase = "save", Save(mem), phase' = "scan", UNCHANGED <<remote, dest>>
    PROVE  Delivery!DeliveryNext
<1>1. /\ todo # <<>> /\ bound = dest /\ receipts[Next1].status = "sending"
      /\ \A o \in Obs \ {Next1} : mem[o] = receipts[o]
      /\ mem[Next1].attempts = receipts[Next1].attempts
      /\ mem[Next1].status \in Settled \cup {"retry"}
      /\ receipts' = mem /\ bound' = bound
  BY DEF ExportInv, PassIsSound, Save
<1>2. Next1 \in Obs /\ mem \in [Obs -> Receipt] /\ receipts \in [Obs -> Receipt]
      /\ mem[Next1] \in Receipt
  BY <1>1, NextIsEnded DEF ExportInv, ExporterTyped
<1> DEFINE s == mem[Next1].status
           n == receipts[Next1].attempts
<1>3. mem[Next1] = [status |-> s, attempts |-> n]
  BY <1>1, <1>2 DEF Receipt
<1>4. receipts' = [receipts EXCEPT ![Next1] = [status |-> s, attempts |-> n]]
  <2>1. \A o \in Obs : mem[o] = IF o = Next1 THEN [status |-> s, attempts |-> n] ELSE receipts[o]
    BY <1>1, <1>3
  <2> HIDE DEF s, n
  <2>. QED  BY <1>1, <1>2, <2>1
<1>5. Delivery!Write(Next1, {"sending"}, s, n)
  BY <1>1, <1>4 DEF Delivery!Write
<1>6. /\ s = "retry" => n < MaxAttempts
      /\ s = "exhausted" => ~(n < MaxAttempts)
  <2>1. n \in Nat /\ MaxAttempts \in Nat
    BY <1>2, ExportAssumption DEF Receipt
  <2>2. /\ s = "retry" => n < MaxAttempts
        /\ s = "exhausted" => n >= MaxAttempts
    BY <1>1, <1>2 DEF ExportInv, AttemptsAreSound
  <2>. QED  BY <2>1, <2>2
<1>7. PendingRequest.span = Next1 /\ PendingRequest' = Idle
      /\ s \in Delivery!Conclusions(PendingRequest.answer, n)
  <2>1. PendingRequest' = Idle
    BY RequestSeenNext
  <2>2. CASE s = "accepted"
    BY <2>1, <2>2, RequestSeen DEF Sends, Delivery!Conclusions
  <2>3. CASE s = "uncertain"
    BY <2>1, <2>3, RequestSeen DEF Sends, Delivery!Conclusions
  <2>4. CASE s \notin {"accepted", "uncertain"}
    <3>1. PendingRequest = Sends(Next1, "refused")
      BY <2>4, RequestSeen
    <3>2. s \in {"rejected", IF n < MaxAttempts THEN "retry" ELSE "exhausted"}
      BY <1>1, <1>6, <2>4 DEF Settled
    <3>. QED  BY <2>1, <3>1, <3>2 DEF Sends, Delivery!Conclusions
  <2>. QED  BY <2>2, <2>3, <2>4
<1> HIDE DEF s, n
<1>8. Delivery!Conclude(Next1)
  BY <1>1, <1>5, <1>7 DEF Delivery!Conclude, Delivery!NoRequest, Idle, n
<1>. QED  BY <1>2, <1>8 DEF Delivery!DeliveryNext

LEMMA DeliveryStep ==
    ASSUME ExportInv, [ExportNext]_exportVars
    PROVE  [Delivery!DeliveryNext]_(Delivery!deliveryVars)
<1> USE DEF local, thread, disk, world, operator
<1>1. ASSUME UNCHANGED <<receipts, bound, remote>>, UNCHANGED <<phase, mem, todo>>
      PROVE  UNCHANGED Delivery!deliveryVars
  <2>1. PendingRequest' = PendingRequest
    BY <1>1 DEF PendingRequest, Next1
  <2>. QED  BY <1>1, <2>1 DEF Delivery!deliveryVars
<1>2. ASSUME UNCHANGED <<receipts, bound, remote>>, phase' \in {"idle", "scan"}
      PROVE  Delivery!DeliveryNext
  <2>1. PendingRequest' = Idle
    BY <1>2, RequestSeenNext
  <2>. QED  BY <1>2, <2>1 DEF Delivery!DeliveryNext, Delivery!Forget, Delivery!NoRequest, Idle
<1>3. ASSUME NEW o \in Obs, NEW part \in {"input", "output"}, StartOp(o) \/ Corrupt(o, part)
      PROVE  UNCHANGED Delivery!deliveryVars
  BY <1>1, <1>3 DEF StartOp, Corrupt
<1>4. CASE EndOp \/ UNCHANGED exportVars
  BY <1>1, <1>4 DEF EndOp, exportVars
<1>5. CASE ProcessRestart
  BY <1>2, <1>5 DEF ProcessRestart, EndPass
<1>6. ASSUME NEW o \in Obs, NEW decision \in {"retry", "accepted"}, Resolve(o, decision)
      PROVE  Delivery!DeliveryNext
  <2>1. phase = "idle" /\ phase' = "idle" /\ UNCHANGED <<bound, remote>>
    BY <1>6 DEF Resolve
  <2>2. PendingRequest = Idle /\ PendingRequest' = Idle
    BY <2>1, RequestSeen, RequestSeenNext
  <2>3. Delivery!Write(o, {"uncertain", "rejected", "exhausted"}, decision, 0)
    BY <1>6 DEF Resolve, Delivery!Write
  <2>4. Delivery!Decide(o, decision)
    BY <2>1, <2>2, <2>3 DEF Delivery!Decide, Delivery!NoRequest, Idle
  <2>. QED  BY <2>4 DEF Delivery!DeliveryNext
<1>7. CASE Begin \/ ReachEnd \/ SkipSettled \/ SkipWaiting \/ Unbuildable
  BY <1>2, <1>7 DEF Begin, ReachEnd, SkipSettled, SkipWaiting, Unbuildable, EndPass, ToSend
<1>8. CASE SkipInterrupted
  BY <1>2, <1>8, WrittenInPass DEF SkipInterrupted, EndPass
<1>9. CASE RejectOversized
  BY <1>2, <1>9, WrittenInPass DEF RejectOversized, EndPass, ToSend
<1>10. CASE SaveIntent
  BY <1>2, <1>10, IntentDelivery DEF SaveIntent, EndPass
<1>11. CASE SaveOutcome
  BY <1>2, <1>11, OutcomeDelivery DEF SaveOutcome, EndPass
<1>12. CASE Delivered
  BY <1>12, RequestDelivery DEF Delivered, Settled
<1>13. CASE Uncertain
  <2>1. PICK delivered \in BOOLEAN : Request(delivered) /\ mem' = With("uncertain")
    BY <1>13 DEF Uncertain
  <2>. QED  BY <2>1, RequestDelivery DEF Settled
<1>14. CASE Backpressure
  <2> DEFINE s == IF mem[Next1].attempts < MaxAttempts THEN "retry" ELSE "exhausted"
  <2>1. s \in Settled \cup {"retry"} /\ s \notin {"accepted", "uncertain"}
    BY DEF Settled
  <2>2. Request(FALSE) /\ mem' = With(s)
    BY <1>14 DEF Backpressure
  <2> HIDE DEF s
  <2>. QED  BY <2>1, <2>2, RequestDelivery
<1>15. CASE RejectedByProject
  BY <1>15, RequestDelivery DEF RejectedByProject, Settled
<1>. QED
  BY <1>3, <1>4, <1>5, <1>6, <1>7, <1>8, <1>9, <1>10, <1>11, <1>12, <1>13, <1>14, <1>15
     DEF ExportNext, Pass

\* The exporter implements the receipts of SpanDelivery: nothing is sent without
\* a saved intent or twice for one, a receipt says what the answer told, and a
\* decision of the operator never meets a pass (langfuse_exporter.py,
\* _export_trace and resolve).
THEOREM DeliveryImplemented == ExportSpec => ImplementsDelivery
<1>1. ExportInit => Delivery!DeliveryInit
  <2> SUFFICES ASSUME ExportInit
               PROVE  Delivery!DeliveryInit
    OBVIOUS
  <2>1. PendingRequest = Idle
    BY RequestSeen DEF ExportInit
  <2>. QED  BY <2>1 DEF ExportInit, NoReceipt, Idle, Delivery!DeliveryInit, Delivery!NoRequest
<1>2. ExportInv /\ [ExportNext]_exportVars => [Delivery!DeliveryNext]_(Delivery!deliveryVars)
  BY DeliveryStep
<1>. QED  BY <1>1, <1>2, ExportInvariance, PTL
            DEF ExportSpec, ImplementsDelivery, Delivery!DeliverySpec

=============================================================================
