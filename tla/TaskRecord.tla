----------------------------- MODULE TaskRecord -----------------------------
(***************************************************************************)
(* What the record of a task promises to whoever polls GET /tasks/{id}:    *)
(* the state machine of Task (task/task_model.py) with the one error that  *)
(* a failed task carries.  A terminal task never changes again.            *)
(*                                                                         *)
(* TaskLifecycle implements it with the API, the workers, the reaper and   *)
(* crashes all writing to the same records.                                *)
(***************************************************************************)

CONSTANT Tasks

VARIABLES status, cause

recordVars == <<status, cause>>

Causes == {"run", "stale", "rejected"}

RecordInit ==
    /\ status = [t \in Tasks |-> "absent"]
    /\ cause = [t \in Tasks |-> "none"]

Become(t, from, to) ==
    /\ status[t] \in from
    /\ status' = [status EXCEPT ![t] = to]

Created(t) == Become(t, {"absent"}, "CREATED") /\ UNCHANGED cause
Started(t) == Become(t, {"CREATED"}, "RUNNING") /\ UNCHANGED cause
Succeeded(t) == Become(t, {"RUNNING"}, "SUCCESS") /\ UNCHANGED cause
Failed(t, why) ==
    /\ Become(t, {"CREATED", "RUNNING"}, "FAILED")
    /\ cause' = [cause EXCEPT ![t] = why]

RecordNext ==
    \E t \in Tasks : \/ Created(t) \/ Started(t) \/ Succeeded(t)
                     \/ \E why \in Causes : Failed(t, why)

RecordSpec == RecordInit /\ [][RecordNext]_recordVars

=============================================================================
