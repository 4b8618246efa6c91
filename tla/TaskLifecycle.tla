--------------------------- MODULE TaskLifecycle ---------------------------
(***************************************************************************)
(* The life of the task records: POST /tasks (api/app.py) creates a record *)
(* and submits it to the worker pool, a worker runs it                     *)
(* (agent/orchestrator.py), the reaper and the recovery at startup fail    *)
(* records without progress (task/task_manager.py), and the process may    *)
(* crash and restart on the records that are on disk                       *)
(* (task/file_task_store.py).                                              *)
(*                                                                         *)
(* Every TaskManager operation is one step: it reads, changes and writes a *)
(* record under the manager's lock.  The pool is BoundedPool, which        *)
(* WorkerPool implements.  Time is abstracted to "the record is older than *)
(* task_stale_after_seconds".                                              *)
(***************************************************************************)
EXTENDS Naturals, Sequences, FiniteSets

CONSTANTS Tasks,
          Capacity,     (* task_max_workers + task_max_pending               *)
          MaxWork,      (* bound: progress writes of one run                 *)
          MaxCrashes,   (* bound: crashes of the process                     *)
          NoTask

ASSUME LifecycleAssumption ==
    /\ IsFiniteSet(Tasks)
    /\ Capacity \in Nat \ {0}
    /\ MaxWork \in Nat /\ MaxCrashes \in Nat
    /\ NoTask \notin Tasks

VARIABLES
    status,      (* Task.status on disk                                      *)
    cause,       (* Task.error on disk, by who wrote it                      *)
    recovery,    (* kinds in Task.metrics["recovery_events"] on disk         *)
    stale,       (* now - Task.updated_time > task_stale_after_seconds       *)
    remembered,  (* tasks that _capture_memories has written memories of     *)
    api,         (* where the POST request of each task is                   *)
    run,         (* where the worker of each task is in run_task             *)
    work,        (* progress writes of the run                               *)
    reserved, waiting, active, served,   (* BoundedPool                      *)
    mode,        (* the process: down, recovering at startup, serving        *)
    scanning,    (* recover_stale_tasks is in its loop                       *)
    suspects,    (* tasks of its snapshot still to be failed                 *)
    reaped,      (* the task it has just failed, its event not yet written   *)
    crashes

Pool == INSTANCE BoundedPool

poolVars == <<reserved, waiting, active, served>>
recordVars == <<status, cause>>
reaperVars == <<scanning, suspects, reaped>>
processVars == <<mode, crashes>>
vars == <<status, cause, recovery, stale, remembered, api, run, work, poolVars,
          reaperVars, processVars>>

Statuses == {"absent", "CREATED", "RUNNING", "SUCCESS", "FAILED"}
Live == {"CREATED", "RUNNING"}
ApiStates == {"idle", "created", "reserved", "refusing", "logging",
              "accepted", "refused", "error", "lost"}
RunStates == {"none", "start", "work", "capture", "raised", "fail", "done"}

TypeOK ==
    /\ status \in [Tasks -> Statuses]
    /\ cause \in [Tasks -> {"none", "run", "stale", "rejected"}]
    /\ recovery \in [Tasks -> SUBSET {"stale_recovery", "rejected"}]
    /\ stale \in [Tasks -> BOOLEAN]
    /\ remembered \in SUBSET Tasks
    /\ api \in [Tasks -> ApiStates]
    /\ run \in [Tasks -> RunStates]
    /\ work \in [Tasks -> 0..MaxWork]
    /\ Pool!PoolTypeOK
    /\ mode \in {"down", "recovering", "serving"}
    /\ scanning \in BOOLEAN
    /\ suspects \in SUBSET Tasks
    /\ reaped \in Tasks \cup {NoTask}
    /\ crashes \in 0..MaxCrashes

Init ==
    /\ status = [t \in Tasks |-> "absent"]
    /\ cause = [t \in Tasks |-> "none"]
    /\ recovery = [t \in Tasks |-> {}]
    /\ stale = [t \in Tasks |-> FALSE]
    /\ remembered = {}
    /\ api = [t \in Tasks |-> "idle"]
    /\ run = [t \in Tasks |-> "none"]
    /\ work = [t \in Tasks |-> 0]
    /\ Pool!PoolInit
    /\ mode = "recovering"
    /\ scanning = FALSE
    /\ suspects = {}
    /\ reaped = NoTask
    /\ crashes = 0

-----------------------------------------------------------------------------
(* Task transitions (task/task_model.py)                                    *)

\* A mutant: the table of allowed transitions is not consulted.
TransitionAny(t, from, to) ==
    /\ status[t] # "absent" \/ to = "CREATED"
    /\ status' = [status EXCEPT ![t] = to]
    /\ stale' = [stale EXCEPT ![t] = FALSE]

\* _transition: an allowed one is written and refreshes updated_time.
Transition(t, from, to) ==
    /\ status[t] \in from
    /\ status' = [status EXCEPT ![t] = to]
    /\ stale' = [stale EXCEPT ![t] = FALSE]

\* A mutant: a task may be failed after it has succeeded.
FailAfterSuccess(t, why) ==
    /\ Transition(t, {"CREATED", "RUNNING", "SUCCESS"}, "FAILED")
    /\ cause' = [cause EXCEPT ![t] = why]

\* fail_task, allowed from CREATED and RUNNING.
Fail(t, why) ==
    /\ Transition(t, Live, "FAILED")
    /\ cause' = [cause EXCEPT ![t] = why]

\* The transition is not allowed: TaskStateError, nothing is written.
Refused(t, from) == status[t] \notin from /\ UNCHANGED <<status, cause, stale>>

Logs(t, kind) == recovery' = [recovery EXCEPT ![t] = @ \cup {kind}]

-----------------------------------------------------------------------------
(* POST /tasks                                                              *)

Api(t, from, to) ==
    /\ mode = "serving"
    /\ api[t] = from
    /\ api' = [api EXCEPT ![t] = to]

Create(t) ==
    /\ Api(t, "idle", "created")
    /\ Transition(t, {"absent"}, "CREATED")
    /\ UNCHANGED <<cause, recovery, remembered, run, work, poolVars, reaperVars, processVars>>

Reserve(t) ==
    /\ Api(t, "created", "reserved")
    /\ Pool!Reserve(t)
    /\ UNCHANGED <<recordVars, recovery, stale, remembered, run, work, reaperVars, processVars>>

\* 201
Enqueue(t) ==
    /\ Api(t, "reserved", "accepted")
    /\ Pool!Enqueue(t)
    /\ UNCHANGED <<recordVars, recovery, stale, remembered, run, work, reaperVars, processVars>>

\* A mutant: the count is taken before the capacity is checked.
RefuseCounted(t) ==
    /\ Api(t, "created", "refusing")
    /\ ~Pool!HasRoom
    /\ reserved' = reserved \cup {t}
    /\ UNCHANGED <<recordVars, recovery, stale, remembered, run, work, waiting, active, served,
                   reaperVars, processVars>>

\* QueueFull
Refuse(t) ==
    /\ Api(t, "created", "refusing")
    /\ ~Pool!HasRoom
    /\ UNCHANGED <<recordVars, recovery, stale, remembered, run, work, poolVars, reaperVars, processVars>>

RefuseFail(t) ==
    /\ \/ Api(t, "refusing", "logging") /\ Fail(t, "rejected")
       \/ Api(t, "refusing", "error") /\ Refused(t, Live)
    /\ UNCHANGED <<recovery, remembered, run, work, poolVars, reaperVars, processVars>>

\* 429
RefuseLog(t) ==
    /\ Api(t, "logging", "refused")
    /\ Logs(t, "rejected")
    /\ UNCHANGED <<recordVars, stale, remembered, run, work, poolVars, reaperVars, processVars>>

-----------------------------------------------------------------------------
(* A worker runs the task: run_task inside the pool's loop                  *)

Worker(t, from, to) ==
    /\ mode = "serving"
    /\ run[t] = from
    /\ run' = [run EXCEPT ![t] = to]

TakeTask(t) ==
    /\ Worker(t, "none", "start")
    /\ Pool!Take(t)
    /\ UNCHANGED <<recordVars, recovery, stale, remembered, api, work, reaperVars, processVars>>

\* start_task; a task that is not CREATED any more raises.
RunStart(t) ==
    /\ \/ Worker(t, "start", "work") /\ Transition(t, {"CREATED"}, "RUNNING") /\ UNCHANGED cause
       \/ Worker(t, "start", "raised") /\ Refused(t, {"CREATED"})
    /\ UNCHANGED <<recovery, remembered, api, work, poolVars, reaperVars, processVars>>

\* A write of the run (plan, step, artifact): it refreshes updated_time and
\* does not look at the status.
RunWork(t) ==
    /\ Worker(t, "work", "work")
    /\ work[t] < MaxWork
    /\ work' = [work EXCEPT ![t] = @ + 1]
    /\ stale' = [stale EXCEPT ![t] = FALSE]
    /\ UNCHANGED <<recordVars, recovery, remembered, api, poolVars, reaperVars, processVars>>

\* succeed_task
RunSucceed(t) ==
    /\ \/ Worker(t, "work", "capture") /\ Transition(t, {"RUNNING"}, "SUCCESS") /\ UNCHANGED cause
       \/ Worker(t, "work", "raised") /\ Refused(t, {"RUNNING"})
    /\ UNCHANGED <<recovery, remembered, api, work, poolVars, reaperVars, processVars>>

\* _capture_memories; its failure is recorded and swallowed.
RunCapture(t) ==
    /\ Worker(t, "capture", "done")
    /\ \/ status[t] = "SUCCESS" /\ remembered' = remembered \cup {t}
       \/ UNCHANGED remembered
    /\ UNCHANGED <<recordVars, recovery, stale, api, work, poolVars, reaperVars, processVars>>

\* Any error of the planner, the executor, the validator or the budget.
RunRaise(t) ==
    /\ Worker(t, "work", "raised")
    /\ UNCHANGED <<recordVars, recovery, stale, remembered, api, work, poolVars, reaperVars, processVars>>

\* The except of _run_task reads the status without the manager's lock ...
ReadStatus(t) ==
    /\ Worker(t, "raised", IF status[t] \in Live THEN "fail" ELSE "done")
    /\ UNCHANGED <<recordVars, recovery, stale, remembered, api, work, poolVars, reaperVars, processVars>>

\* ... and fails the task, if nobody has in between.
RunFail(t) ==
    /\ Worker(t, "fail", "done")
    /\ Fail(t, "run") \/ Refused(t, Live)
    /\ UNCHANGED <<recovery, remembered, api, work, poolVars, reaperVars, processVars>>

Release(t) ==
    /\ Worker(t, "done", "none")
    /\ Pool!Release(t)
    /\ UNCHANGED <<recordVars, recovery, stale, remembered, api, work, reaperVars, processVars>>

-----------------------------------------------------------------------------
(* recover_stale_tasks, at startup and in the reaper thread                 *)

\* Nothing was written to a live record for longer than the threshold.
Age(t) ==
    /\ status[t] \in Live /\ ~stale[t]
    /\ stale' = [stale EXCEPT ![t] = TRUE]
    /\ UNCHANGED <<recordVars, recovery, remembered, api, run, work, poolVars, reaperVars, processVars>>

\* A mutant: tasks whose request was cut off before they were queued are missed.
ScanRunning ==
    /\ mode # "down" /\ ~scanning
    /\ scanning' = TRUE
    /\ suspects' = {t \in Tasks : status[t] = "RUNNING" /\ stale[t]}
    /\ UNCHANGED <<recordVars, recovery, stale, remembered, api, run, work, poolVars, reaped, processVars>>

\* list_tasks copies all the records under the store's lock; the ages are
\* those of the copies.
Scan ==
    /\ mode # "down" /\ ~scanning
    /\ scanning' = TRUE
    /\ suspects' = {t \in Tasks : status[t] \in Live /\ stale[t]}
    /\ UNCHANGED <<recordVars, recovery, stale, remembered, api, run, work, poolVars, reaped, processVars>>

\* A mutant: the event is written although somebody else has ended the task.
ReapFailAlwaysLogs(t) ==
    /\ t \in suspects /\ reaped = NoTask
    /\ suspects' = suspects \ {t}
    /\ Fail(t, "stale") \/ Refused(t, Live)
    /\ reaped' = t
    /\ UNCHANGED <<recovery, remembered, api, run, work, poolVars, scanning, processVars>>

\* fail_task; a suspect that has ended meanwhile is skipped.
ReapFail(t) ==
    /\ t \in suspects /\ reaped = NoTask
    /\ suspects' = suspects \ {t}
    /\ \/ Fail(t, "stale") /\ reaped' = t
       \/ Refused(t, Live) /\ UNCHANGED reaped
    /\ UNCHANGED <<recovery, remembered, api, run, work, poolVars, scanning, processVars>>

ReapLog(t) ==
    /\ reaped = t
    /\ reaped' = NoTask
    /\ Logs(t, "stale_recovery")
    /\ UNCHANGED <<recordVars, stale, remembered, api, run, work, poolVars, scanning, suspects, processVars>>

\* The end of the loop; after the one at startup the API serves.
ReapDone ==
    /\ scanning /\ suspects = {} /\ reaped = NoTask
    /\ scanning' = FALSE
    /\ mode' = "serving"
    /\ UNCHANGED <<recordVars, recovery, stale, remembered, api, run, work, poolVars, suspects, reaped, crashes>>

-----------------------------------------------------------------------------
(* The process                                                              *)

\* Threads, queue and open requests are gone, the records stay.
Crash ==
    /\ mode # "down" /\ crashes < MaxCrashes
    /\ crashes' = crashes + 1
    /\ mode' = "down"
    /\ api' = [t \in Tasks |-> IF api[t] \in {"created", "reserved", "refusing", "logging"}
                              THEN "lost" ELSE api[t]]
    /\ run' = [t \in Tasks |-> "none"]
    /\ reserved' = {} /\ waiting' = <<>> /\ active' = {}
    /\ scanning' = FALSE /\ suspects' = {} /\ reaped' = NoTask
    /\ UNCHANGED <<recordVars, recovery, stale, remembered, work, served>>

Restart ==
    /\ mode = "down"
    /\ mode' = "recovering"
    /\ UNCHANGED <<recordVars, recovery, stale, remembered, api, run, work, poolVars, reaperVars, crashes>>

-----------------------------------------------------------------------------

ApiStep(t) ==
    Create(t) \/ Reserve(t) \/ Enqueue(t) \/ Refuse(t) \/ RefuseFail(t) \/ RefuseLog(t)

WorkerStep(t) ==
    \/ TakeTask(t) \/ RunStart(t) \/ RunWork(t) \/ RunSucceed(t) \/ RunCapture(t)
    \/ RunRaise(t) \/ ReadStatus(t) \/ RunFail(t) \/ Release(t)

ReaperStep ==
    \/ Scan
    \/ \E t \in Tasks : ReapFail(t) \/ ReapLog(t)
    \/ ReapDone

Next ==
    \/ \E t \in Tasks : ApiStep(t) \/ WorkerStep(t) \/ Age(t)
    \/ ReaperStep
    \/ Crash
    \/ Restart

Spec == Init /\ [][Next]_vars

\* Time passes, the reaper thread is scheduled and a process that is down is
\* started again.  Nothing is assumed of the workers: they may hang.
FairSpec ==
    /\ Spec
    /\ \A t \in Tasks : WF_vars(Age(t))
    /\ WF_vars(ReaperStep)
    /\ WF_vars(Restart)

-----------------------------------------------------------------------------
(* Properties                                                               *)

Record == INSTANCE TaskRecord

\* Whatever the API, the workers and the reaper do to the same record and
\* wherever the process crashes, its readers see the state machine of Task.
ImplementsRecord == Record!RecordSpec

\* A task answered with 429 (or on its way to it) is in no queue, is never
\* run, and stays failed with the event that says why.
RefusedNeverRuns ==
    \A t \in Tasks :
        /\ api[t] \in {"refusing", "logging", "refused"} =>
              /\ t \notin reserved \cup Pool!Queued \cup active \cup served
              /\ run[t] = "none"
        /\ api[t] = "refused" =>
              /\ status[t] = "FAILED" /\ cause[t] = "rejected"
              /\ "rejected" \in recovery[t]

\* A recovery event is written by the actor that has failed the task; only a
\* crash can leave a task that the reaper failed without its event.
RecoveryTellsTruth ==
    \A t \in Tasks :
        /\ "stale_recovery" \in recovery[t] => cause[t] = "stale"
        /\ "rejected" \in recovery[t] => cause[t] = "rejected"
        /\ cause[t] = "stale" =>
              "stale_recovery" \in recovery[t] \/ reaped = t \/ crashes > 0

\* When the worker is done with a task its record is terminal, whichever of
\* the worker and the reaper came first.
ServedIsTerminal ==
    \A t \in served : status[t] \in {"SUCCESS", "FAILED"}

\* Long-term memory is written for tasks that have succeeded, never for one
\* that the reaper has taken from its worker.
MemoryOnlyFromSuccess ==
    \A t \in remembered : status[t] = "SUCCESS"

\* Every record ends up SUCCESS or FAILED, even if workers hang and requests
\* are cut off by a crash.
Converges ==
    \A t \in Tasks : status[t] # "absent" ~> status[t] \in {"SUCCESS", "FAILED"}

\* What _start_reaper (api/app.py) says it does: "Fail tasks whose worker
\* thread died".  Violated: it also fails tasks that wait in the queue or are
\* being run.
StaleMeansAbandoned ==
    reaped # NoTask => reaped \notin Pool!Queued \cup active

=============================================================================
