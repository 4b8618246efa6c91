---------------------------- MODULE PlanRuntime ----------------------------
(***************************************************************************)
(* One task from its plan to its result: the orchestrator's repair loop    *)
(* (agent/orchestrator.py), the executor's tool-calling loop with its plan *)
(* runtime (agent/executor.py, task/plan_model.py, task/plan_state.py),    *)
(* local replanning (agent/planner.py, Task.apply_replan) and the retries  *)
(* of one tool call (retry/retry_policy.py).                               *)
(*                                                                         *)
(* The model and the tools are the environment: every turn may hold any    *)
(* calls, a tool call may have any outcome, the planner may return any     *)
(* plan of PlannerOutputs.  The stale-task reaper may fail the task at any *)
(* moment without stopping the run.                                        *)
(***************************************************************************)
EXTENDS Integers, Sequences, FiniteSets

CONSTANTS StepIds,             (* step ids a plan may use                     *)
          Texts,               (* what a step says: name, tool, criteria      *)
          PlannerOutputs,      (* steps the model may answer to create_plan   *)
          Tools,
          RetrySafe,           (* tools with retry_safe = True                *)
          MaxAttempts,         (* RetryPolicy.max_attempts                    *)
          MaxReplans,
          MaxRecovery,         (* max_recovery_attempts                       *)
          MaxIterations,
          IterationsPerStep,
          IterationsOverhead,
          RequireArtifact,     (* Task.require_artifact                       *)
          MaxCalls,            (* bound: tool calls in one turn of the model  *)
          NoPlan, NoStep

\* The steps of a plan (PlanStep): what each waits for and what each says.
Bodies == [steps : SUBSET StepIds,
           deps : [StepIds -> SUBSET StepIds],
           text : [StepIds -> Texts]]

ASSUME PlanAssumption ==
    /\ IsFiniteSet(StepIds)
    /\ PlannerOutputs \subseteq Bodies
    /\ RetrySafe \subseteq Tools
    /\ MaxAttempts \in Nat \ {0} /\ MaxReplans \in Nat /\ MaxRecovery \in Nat
    /\ MaxIterations \in Nat \ {0}
    /\ IterationsPerStep \in Nat \ {0} /\ IterationsOverhead \in Nat
    /\ RequireArtifact \in BOOLEAN
    /\ MaxCalls \in Nat \ {0}
    /\ NoStep \notin StepIds
    /\ NoPlan \notin [version : Nat, body : PlannerOutputs]

VARIABLES
    status,       (* Task.status                                             *)
    plan,         (* Task.plan                                               *)
    log,          (* Task.plan_events, folded to a status per step id        *)
    replans,      (* number of plan_replanned events                         *)
    artifacts,    (* Task.artifacts, "valid" or "broken" to the validator    *)
    delivered,    (* Task.result["artifacts"]                                *)
    phase,        (* where the worker thread is                              *)
    already,      (* _execute_with_recovery: artifacts before this attempt   *)
    repairs,      (* _execute_with_recovery: repairs                         *)
    view,         (* Executor.run: state                                     *)
    replansUsed,  (* Executor.run: replans_used                              *)
    iteration, iterBudget,
    calls,        (* calls of the current turn not handled yet               *)
    call,         (* the tool call being executed                            *)
    uncertain     (* a tool has returned a terminal result                   *)

record == <<plan, log, replans, artifacts>>
loop == <<replansUsed, iteration, iterBudget>>
repair == <<already, repairs>>
vars == <<status, record, delivered, phase, repair, view, loop, calls, call, uncertain>>

StepStatus == {"PENDING", "RUNNING", "SUCCESS", "FAILED"}
Phases == {"planning", "attempt", "model", "calls", "tool", "validate", "done"}
Plans == [version : Nat \ {0}, body : PlannerOutputs]
Views == [plan : Plans, status : [StepIds -> StepStatus]]
NoCall == [tool |-> NoStep, step |-> NoStep, attempt |-> 0]

-----------------------------------------------------------------------------
(* Plans (task/plan_model.py)                                               *)

\* Plan.validate: steps, known dependencies, no cycle - every set of steps has
\* a member with no dependency inside the set.
ValidBody(b) ==
    /\ b.steps # {}
    /\ \A s \in b.steps : b.deps[s] \subseteq b.steps
    /\ \A S \in SUBSET b.steps : S # {} => \E s \in S : b.deps[s] \cap S = {}

\* Mutant: completed steps are compared by id only.
PreservesIdsOnly(old, new, done) == \A s \in done : s \in old.steps /\ s \in new.steps

\* assert_replan_preserves_completed_steps
Preserves(old, new, done) ==
    \A s \in done :
        /\ s \in old.steps /\ s \in new.steps
        /\ new.deps[s] = old.deps[s]
        /\ new.text[s] = old.text[s]

\* Task.completed_plan_steps
CompletedPlanSteps == {s \in plan.body.steps : log[s] = "SUCCESS"}

-----------------------------------------------------------------------------
(* PlanRunState (task/plan_state.py)                                        *)

\* The effect of one event on the status of the step it names: a completed step
\* stays completed.
Logged(s, new) == [log EXCEPT ![s] = IF @ = "SUCCESS" THEN @ ELSE new]

\* Steps of the plan take the status that ALL events with their id give them,
\* those of earlier versions included; other ids are ignored.
RunState(p, l) ==
    [plan |-> p,
     status |-> [s \in StepIds |-> IF s \in p.body.steps THEN l[s] ELSE "PENDING"]]

StepsOf(v) == v.plan.body.steps
IsComplete(v, s) == s \in StepsOf(v) /\ v.status[s] = "SUCCESS"
Completed(v) == {s \in StepsOf(v) : v.status[s] = "SUCCESS"}
Unfinished(v) == StepsOf(v) \ Completed(v)
DependenciesSatisfied(v, s) == \A d \in v.plan.body.deps[s] : IsComplete(v, d)
RunningIds(v) == {s \in StepsOf(v) : v.status[s] = "RUNNING" /\ DependenciesSatisfied(v, s)}
ReadyIds(v) ==
    {s \in StepsOf(v) : v.status[s] \in {"PENDING", "FAILED"} /\ DependenciesSatisfied(v, s)}
ImplicitCandidates(v) == IF RunningIds(v) # {} THEN RunningIds(v) ELSE ReadyIds(v)

-----------------------------------------------------------------------------
(* Ends of the run                                                          *)

\* run_task's handler: the task becomes FAILED unless the reaper was first.
FailRun ==
    /\ status' = "FAILED"
    /\ phase' = "done"
    /\ calls' = 0
    /\ call' = NoCall

\* One more call of the turn handled; after the last one the model is asked again.
NextCall ==
    /\ calls' = calls - 1
    /\ phase' = IF calls = 1 THEN "model" ELSE "calls"
-----------------------------------------------------------------------------
(* Orchestrator: plan, attempt, validate (agent/orchestrator.py)            *)

Init ==
    /\ status = "RUNNING"
    /\ plan = NoPlan
    /\ log = [s \in StepIds |-> "PENDING"]
    /\ replans = 0
    /\ artifacts = <<>>
    /\ delivered = <<>>
    /\ phase = "planning"
    /\ already = 0 /\ repairs = 0
    /\ view = NoPlan
    /\ replansUsed = 0 /\ iteration = 0 /\ iterBudget = 0
    /\ calls = 0
    /\ call = NoCall
    /\ uncertain = FALSE

\* _parse_plan_response: one create_plan call whose steps, cleared of unknown
\* fields, make a plan.
ParsePlanResponse(b) == ValidBody(b)

\* run_task sets the plan that Planner.plan has returned; set_plan wants a running
\* task.
CreatePlan(b) ==
    /\ phase = "planning"
    /\ IF ParsePlanResponse(b) /\ status = "RUNNING"
       THEN /\ plan' = [version |-> 1, body |-> b]
            /\ phase' = "attempt"
            /\ UNCHANGED <<status, calls, call>>
       ELSE /\ FailRun
            /\ UNCHANGED plan
    /\ UNCHANGED <<log, replans, artifacts, delivered, repair, view, loop, uncertain>>

\* _iteration_budget
IterationBudget(p) ==
    LET allowance == IterationsPerStep * Cardinality(p.body.steps) + IterationsOverhead
    IN  IF allowance < MaxIterations THEN allowance ELSE MaxIterations

\* The head of _execute_with_recovery's loop and of Executor.run: everything is
\* read from the task record, the replan and iteration budgets start afresh.
BeginAttempt ==
    /\ phase = "attempt"
    /\ phase' = "model"
    /\ already' = Len(artifacts)
    /\ view' = RunState(plan, log)
    /\ replansUsed' = 0
    /\ iteration' = 0
    /\ iterBudget' = IterationBudget(plan)
    /\ UNCHANGED <<status, record, delivered, repairs, calls, call, uncertain>>

NewArtifacts == SubSeq(artifacts, already + 1, Len(artifacts))

\* Mutant: require_artifact is not looked at.
ArtifactsAcceptedWhenNone == \A i \in 1..Len(NewArtifacts) : NewArtifacts[i] = "valid"

\* _check_artifacts: no artifact is fine unless the task requires one.
ArtifactsAccepted ==
    IF NewArtifacts = <<>> THEN ~RequireArtifact
    ELSE \A i \in 1..Len(NewArtifacts) : NewArtifacts[i] = "valid"

\* succeed_task raises when the reaper was first, and the task stays FAILED.
Accept ==
    /\ phase = "validate"
    /\ ArtifactsAccepted
    /\ phase' = "done"
    /\ IF status = "RUNNING"
       THEN status' = "SUCCESS" /\ delivered' = NewArtifacts
       ELSE UNCHANGED <<status, delivered>>
    /\ UNCHANGED <<record, repair, view, loop, calls, call, uncertain>>

\* A rejected deliverable: another attempt, or ArtifactValidationError.
Repair ==
    /\ phase = "validate"
    /\ ~ArtifactsAccepted
    /\ IF repairs < MaxRecovery
       THEN /\ repairs' = repairs + 1
            /\ phase' = "attempt"
            /\ UNCHANGED <<status, calls, call>>
       ELSE FailRun /\ UNCHANGED repairs
    /\ UNCHANGED <<record, delivered, already, view, loop, uncertain>>

\* LLM errors, token budgets, context and tool-output processing errors: any of
\* them ends the run.
Raise ==
    /\ phase \notin {"done", "attempt"}
    /\ FailRun
    /\ UNCHANGED <<record, delivered, repair, view, loop, uncertain>>

\* recover_stale_tasks fails the record; the worker thread does not notice.
Reap ==
    /\ status = "RUNNING"
    /\ status' = "FAILED"
    /\ UNCHANGED <<record, delivered, phase, repair, view, loop, calls, call, uncertain>>

-----------------------------------------------------------------------------
(* Executor.run: one turn of the model                                      *)

\* Mutant: a turn does not count against the iteration budget.
ModelTurnUncounted(n) ==
    /\ phase = "model"
    /\ iteration < iterBudget
    /\ calls' = n
    /\ phase' = IF n = 0 THEN "validate" ELSE "calls"
    /\ UNCHANGED <<status, record, delivered, repair, view, loop, call, uncertain>>

\* The model answers with n tool calls; none means it has finished.
ModelTurn(n) ==
    /\ phase = "model"
    /\ iteration < iterBudget
    /\ iteration' = iteration + 1
    /\ calls' = n
    /\ phase' = IF n = 0 THEN "validate" ELSE "calls"
    /\ UNCHANGED <<status, record, delivered, repair, view, replansUsed, iterBudget, call, uncertain>>

\* MaxIterationsError
OutOfIterations ==
    /\ phase = "model"
    /\ iteration = iterBudget
    /\ FailRun
    /\ UNCHANGED <<record, delivered, repair, view, loop, uncertain>>

-----------------------------------------------------------------------------
(* _complete_plan_step                                                      *)

\* Mutant: completion does not wait for the prerequisites.
MayCompleteEarly(s) == s \in StepsOf(view) /\ ~IsComplete(view, s)

\* _completion_violation, for a step id of the plan and some evidence.
MayComplete(s) ==
    /\ s \in StepsOf(view)
    /\ ~IsComplete(view, s)
    /\ DependenciesSatisfied(view, s)

\* With no evidence, or a violation, the call is only observed.
CompletePlanStep(s, evidence) ==
    /\ phase = "calls"
    /\ NextCall
    /\ IF MayComplete(s) /\ evidence
       THEN /\ log' = Logged(s, "SUCCESS")
            /\ view' = RunState(plan, log')
       ELSE UNCHANGED <<log, view>>
    /\ UNCHANGED <<status, plan, replans, artifacts, delivered, repair, loop, call, uncertain>>

-----------------------------------------------------------------------------
(* _replan                                                                  *)

\* Planner.replan: the answer is a plan that keeps what the executor's view holds
\* for complete.
ReplanReturned(b) ==
    /\ ParsePlanResponse(b)
    /\ Preserves(view.plan.body, b, Completed(view))

\* Mutant: apply_replan does not ask whether the task still runs.
ReplanAppliesAnyStatus(b) ==
    /\ view.plan.version + 1 = plan.version + 1
    /\ Preserves(plan.body, b, CompletedPlanSteps)

\* Task.apply_replan: the record checks the new plan against itself, once more.
ReplanApplies(b) ==
    /\ status = "RUNNING"
    /\ view.plan.version + 1 = plan.version + 1
    /\ Preserves(plan.body, b, CompletedPlanSteps)

MayApply(b) == ReplanReturned(b) /\ ReplanApplies(b)

\* _replan_violation; reasonOk: reason_code and reason are what the schema asks for.
ReplanAsked(reasonOk) == reasonOk /\ Unfinished(view) # {}

\* Mutant: the executor goes on with the state of the plan it has replaced.
ApplyReplanKeepsView(b) ==
    /\ MayApply(b)
    /\ plan' = [version |-> view.plan.version + 1, body |-> b]
    /\ replans' = replans + 1
    /\ replansUsed' = replansUsed + 1
    /\ UNCHANGED view

\* An applied replan counts against the budget of this attempt; a rejected one
\* does not.
ApplyReplan(b) ==
    /\ MayApply(b)
    /\ plan' = [version |-> view.plan.version + 1, body |-> b]
    /\ view' = RunState(plan', log)
    /\ replans' = replans + 1
    /\ replansUsed' = replansUsed + 1

\* A request the budget has no room for ends the run; any other is applied or
\* only observed.
RequestReplan(b, reasonOk) ==
    /\ phase = "calls"
    /\ IF ReplanAsked(reasonOk) /\ replansUsed >= MaxReplans
       THEN /\ FailRun
            /\ UNCHANGED <<plan, view, replans, replansUsed>>
       ELSE /\ NextCall
            /\ \/ ReplanAsked(reasonOk) /\ ApplyReplan(b)
               \/ /\ ~(ReplanAsked(reasonOk) /\ MayApply(b))
                  /\ UNCHANGED <<plan, view, replans, replansUsed>>
            /\ UNCHANGED <<status, call>>
    /\ UNCHANGED <<log, artifacts, delivered, repair, iteration, iterBudget, uncertain>>

-----------------------------------------------------------------------------
(* _run_tool_call                                                           *)

\* Mutant: a declared step may run before its prerequisites.
BindingsEarly(declared) ==
    IF declared # NoStep
    THEN {s \in {declared} : s \in StepsOf(view) /\ ~IsComplete(view, s)}
    ELSE {NoStep}

\* _bind_step: the steps a call with this declaration may be attributed to;
\* NoStep stands for an unbound call, the empty set for a rejected one.
Bindings(declared) ==
    IF declared # NoStep
    THEN {s \in {declared} : /\ s \in StepsOf(view)
                             /\ ~IsComplete(view, s)
                             /\ DependenciesSatisfied(view, s)}
    ELSE IF Cardinality(ImplicitCandidates(view)) = 1
         THEN ImplicitCandidates(view)
         ELSE {NoStep}

RejectBinding(declared) ==
    /\ phase = "calls"
    /\ Bindings(declared) = {}
    /\ NextCall
    /\ UNCHANGED <<status, record, delivered, repair, view, loop, call, uncertain>>

\* add_step, start_step and the plan_step_bound event, then the first dispatch.
StartToolCall(tool, declared) ==
    /\ phase = "calls"
    /\ \E s \in Bindings(declared) :
          /\ call' = [tool |-> tool, step |-> s, attempt |-> 1]
          /\ log' = IF s = NoStep THEN log ELSE Logged(s, "RUNNING")
    /\ phase' = "tool"
    /\ UNCHANGED <<status, plan, replans, artifacts, delivered, repair, view, loop, calls, uncertain>>

\* _invoke_tool: a retryable error of a tool that may be replayed.
RetryTool ==
    /\ phase = "tool"
    /\ call.tool \in RetrySafe
    /\ call.attempt < MaxAttempts
    /\ call' = [call EXCEPT !.attempt = @ + 1]
    /\ UNCHANGED <<status, record, delivered, phase, repair, view, loop, calls, uncertain>>

\* Success; product is what save_report added to Task.artifacts, if anything.
ToolSucceeds(product) ==
    /\ phase = "tool"
    /\ artifacts' = artifacts \o product
    /\ view' = RunState(plan, log)
    /\ NextCall
    /\ call' = NoCall
    /\ UNCHANGED <<status, plan, log, replans, delivered, repair, loop, uncertain>>

FailureLog == IF call.step = NoStep THEN log ELSE Logged(call.step, "FAILED")

\* The final failure of a call is observed and recorded on its step.
ToolFails ==
    /\ phase = "tool"
    /\ log' = FailureLog
    /\ view' = RunState(plan, log')
    /\ NextCall
    /\ call' = NoCall
    /\ UNCHANGED <<status, plan, replans, artifacts, delivered, repair, loop, uncertain>>

\* A terminal result, whatever the attempt: UnsafeExecutionStateError.
ToolStateUnknown ==
    /\ phase = "tool"
    /\ log' = FailureLog
    /\ uncertain' = TRUE
    /\ FailRun
    /\ UNCHANGED <<plan, replans, artifacts, delivered, repair, view, loop>>
-----------------------------------------------------------------------------

Products == {<<>>, <<"valid">>, <<"broken">>}

Orchestrate ==
    \/ \E b \in PlannerOutputs : CreatePlan(b)
    \/ BeginAttempt
    \/ Accept
    \/ Repair
    \/ Raise

Turn ==
    \/ \E n \in 0..MaxCalls : ModelTurn(n)
    \/ OutOfIterations
    \/ \E s \in StepIds, evidence \in BOOLEAN : CompletePlanStep(s, evidence)
    \/ \E b \in PlannerOutputs, reasonOk \in BOOLEAN : RequestReplan(b, reasonOk)

ToolCall ==
    \/ \E declared \in StepIds \cup {NoStep} : RejectBinding(declared)
    \/ \E tool \in Tools, declared \in StepIds \cup {NoStep} : StartToolCall(tool, declared)
    \/ RetryTool
    \/ \E product \in Products : ToolSucceeds(product)
    \/ ToolFails
    \/ ToolStateUnknown

Run == Orchestrate \/ Turn \/ ToolCall

Next == Run \/ Reap

Spec == Init /\ [][Next]_vars

\* The worker thread keeps running: every call it makes to the model, to a tool
\* or to Docker has a timeout, and every retry loop a limit.
FairSpec == Spec /\ WF_vars(Run)

-----------------------------------------------------------------------------
(* Properties                                                               *)

TypeOK ==
    /\ status \in {"RUNNING", "SUCCESS", "FAILED"}
    /\ plan \in Plans \cup {NoPlan}
    /\ log \in [StepIds -> StepStatus]
    /\ replans \in Nat
    /\ artifacts \in Seq({"valid", "broken"})
    /\ delivered \in Seq({"valid", "broken"})
    /\ phase \in Phases
    /\ already \in Nat
    /\ repairs \in 0..MaxRecovery
    /\ view \in Views \cup {NoPlan}
    /\ replansUsed \in 0..MaxReplans
    /\ iterBudget \in 0..MaxIterations
    /\ iteration \in 0..iterBudget
    /\ calls \in 0..MaxCalls
    /\ call \in [tool : Tools \cup {NoStep}, step : StepIds \cup {NoStep}, attempt : 0..MaxAttempts]
    /\ uncertain \in BOOLEAN

(* The executor decides on a local PlanRunState that it replaces by hand after  *)
(* each call: whenever it asks the model or handles a call, that copy agrees    *)
(* with the task record.                                                        *)
ViewIsCurrent == phase \in {"model", "calls"} => view = RunState(plan, log)

(* Prerequisites first, across every replan: a step judged complete is a step   *)
(* of the current plan and so are, complete, the steps it depends on.           *)
CompletedIsClosed ==
    \A s \in StepIds : log[s] = "SUCCESS" =>
        /\ plan # NoPlan
        /\ s \in plan.body.steps
        /\ \A d \in plan.body.deps[s] : log[d] = "SUCCESS"

(* "Completed steps are kept unchanged": whatever the planner answers, a        *)
(* complete step stays complete and stays in the plan with the same text and    *)
(* dependencies.                                                                *)
CompletedIsKept ==
    [][\A s \in StepIds : log[s] = "SUCCESS" =>
          /\ log'[s] = "SUCCESS"
          /\ s \in plan'.body.steps
          /\ plan'.body.deps[s] = plan.body.deps[s]
          /\ plan'.body.text[s] = plan.body.text[s]]_vars

(* Plans only change while the task runs: a replan that the model asked for in  *)
(* a run whose task the reaper has failed is rejected.                          *)
PlanFrozenAfterEnd == [][status # "RUNNING" => UNCHANGED plan]_vars

(* While a tool works for a plan step, that step is not complete and everything *)
(* it depends on is: no replay, and no step before its prerequisites.           *)
BoundStepIsEligible ==
    phase = "tool" /\ call.step # NoStep =>
        /\ call.step \in plan.body.steps
        /\ log[call.step] = "RUNNING"
        /\ \A d \in plan.body.deps[call.step] : log[d] = "SUCCESS"

(* A tool that has not opted in is never dispatched twice for one call.         *)
ReplayNeedsOptIn == call.attempt > 1 => call.tool \in RetrySafe

(* After a result of unknown effect nothing runs any more and the task cannot   *)
(* be reported as a success.                                                    *)
UnknownStateEndsRun == uncertain => phase = "done" /\ status = "FAILED"

(* The version of the plan counts its replans, and no attempt goes beyond its   *)
(* replan budget.                                                               *)
ReplansAreCounted ==
    /\ plan # NoPlan => plan.version = 1 + replans
    /\ replans <= MaxReplans * repairs + replansUsed

(* A result is attached to a success only, holds nothing the validator rejected *)
(* and holds something if the task requires an artifact.                        *)
DeliveredIsValid ==
    /\ status # "SUCCESS" => delivered = <<>>
    /\ \A i \in 1..Len(delivered) : delivered[i] = "valid"
    /\ status = "SUCCESS" /\ RequireArtifact => delivered # <<>>

(* The run of a task ends, whatever the model asks for.                         *)
RunEnds == <>(phase = "done")

(* "a task may not report SUCCESS with a broken deliverable"                    *)
(* (agent/validator.py): the last artifact of a successful task is valid.       *)
NoBrokenDeliverable ==
    status = "SUCCESS" /\ artifacts # <<>> => artifacts[Len(artifacts)] = "valid"

=============================================================================
