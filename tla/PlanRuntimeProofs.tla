------------------------- MODULE PlanRuntimeProofs -------------------------
(* Proofs about PlanRuntime, for any plans, tools and limits.               *)
EXTENDS PlanRuntime, FiniteSetTheorems, SequenceTheorems, TLAPS

-----------------------------------------------------------------------------
(* The operators                                                            *)

LEMMA NoPlanIsNoPlan == NoPlan \notin Plans
BY PlanAssumption DEF Plans, Bodies

\* What a plan of the model is made of.
LEMMA PlanFields ==
    ASSUME NEW p \in Plans
    PROVE  /\ p.version \in Nat \ {0}
           /\ p.body \in PlannerOutputs
           /\ p.body.steps \in SUBSET StepIds
           /\ p.body.deps \in [StepIds -> SUBSET StepIds]
BY PlanAssumption DEF Plans, Bodies

LEMMA RunStateType ==
    ASSUME NEW p \in Plans, NEW l \in [StepIds -> StepStatus]
    PROVE  RunState(p, l) \in Views
BY PlanFields DEF RunState, Views, StepStatus

LEMMA LoggedType ==
    ASSUME log \in [StepIds -> StepStatus], NEW s, NEW new \in StepStatus
    PROVE  Logged(s, new) \in [StepIds -> StepStatus]
BY DEF Logged, StepStatus

\* An event never takes back a completed step.
LEMMA LoggedKeeps ==
    ASSUME log \in [StepIds -> StepStatus], NEW s \in StepIds, NEW new,
           NEW d \in StepIds, log[d] = "SUCCESS"
    PROVE  Logged(s, new)[d] = "SUCCESS"
BY DEF Logged

\* _iteration_budget is a number of turns within the absolute cap.
LEMMA IterationBudgetType ==
    ASSUME NEW p \in Plans
    PROVE  IterationBudget(p) \in 0..MaxIterations
<1>1. Cardinality(p.body.steps) \in Nat
  BY PlanFields, PlanAssumption, FS_Subset, FS_CardinalityType
<1>2. IterationsPerStep * Cardinality(p.body.steps) \in Nat
  BY <1>1, PlanAssumption
<1>. QED  BY <1>2, PlanAssumption DEF IterationBudget

\* Whatever step a call is bound to may be worked on now: declared or implied,
\* it is a step of the plan, it is not complete, and its prerequisites are.
LEMMA BoundStep ==
    ASSUME NEW declared, NEW s \in Bindings(declared), s # NoStep
    PROVE  /\ s \in StepsOf(view)
           /\ ~IsComplete(view, s)
           /\ DependenciesSatisfied(view, s)
<1>1. CASE declared # NoStep
  BY <1>1 DEF Bindings
<1>2. CASE declared = NoStep
  <2>1. s \in RunningIds(view) \cup ReadyIds(view)
    BY <1>2 DEF Bindings, ImplicitCandidates
  <2>. QED  BY <2>1 DEF RunningIds, ReadyIds, IsComplete
<1>. QED  BY <1>1, <1>2

-----------------------------------------------------------------------------
(* Types, and where the run may be                                          *)

\* Outside planning there is a plan; while a call is handled there is one.
Flow ==
    /\ phase \notin {"planning", "done"} => plan # NoPlan
    /\ phase = "planning" => plan = NoPlan /\ replans = 0
    /\ phase \in {"calls", "tool"} => calls # 0
    /\ phase \in {"model", "calls", "tool"} => view \in Views

TypeInv == TypeOK /\ Flow

LEMMA TypeInit == Init => TypeInv
<1> SUFFICES ASSUME Init
             PROVE  TypeInv
  OBVIOUS
<1>1. log \in [StepIds -> StepStatus]
  BY DEF Init, StepStatus
<1>2. call \in [tool : Tools \cup {NoStep}, step : StepIds \cup {NoStep}, attempt : 0..MaxAttempts]
  BY PlanAssumption DEF Init, NoCall
<1>3. <<>> \in Seq({"valid", "broken"})
  OBVIOUS
<1>4. TypeOK
  <2>1. repairs \in 0..MaxRecovery /\ replansUsed \in 0..MaxReplans
    BY PlanAssumption DEF Init
  <2>2. iterBudget \in 0..MaxIterations /\ iteration \in 0..iterBudget /\ calls \in 0..MaxCalls
    BY PlanAssumption DEF Init
  <2>3. artifacts \in Seq({"valid", "broken"}) /\ delivered \in Seq({"valid", "broken"})
    BY <1>3 DEF Init
  <2>4. view \in Views \cup {NoPlan} /\ plan \in Plans \cup {NoPlan}
    BY DEF Init
  <2>. QED
    BY <1>1, <1>2, <2>1, <2>2, <2>3, <2>4 DEF Init, TypeOK, Phases
<1>. QED
  BY <1>4 DEF Init, TypeInv, Flow

\* What this attempt has produced is a sequence of verdicts.
LEMMA NewArtifactsType ==
    ASSUME artifacts \in Seq({"valid", "broken"}), already \in Nat
    PROVE  NewArtifacts \in Seq({"valid", "broken"})
BY SubSeqProperties DEF NewArtifacts

\* The steps that a call may be bound to.
LEMMA BindingsType ==
    ASSUME view \in Views, NEW declared \in StepIds \cup {NoStep}
    PROVE  Bindings(declared) \subseteq StepIds \cup {NoStep}
<1>1. StepsOf(view) \subseteq StepIds
  BY PlanFields DEF StepsOf, Views
<1>. QED
  BY <1>1 DEF Bindings, ImplicitCandidates, RunningIds, ReadyIds

\* A call handled leaves one less.
LEMMA NextCallType ==
    ASSUME calls \in 0..MaxCalls, calls # 0, NextCall
    PROVE  /\ calls' \in 0..MaxCalls
           /\ phase' \in {"model", "calls"}
           /\ phase' = "calls" => calls' # 0
BY PlanAssumption DEF NextCall

LEMMA TypeStep == TypeInv /\ [Next]_vars => TypeInv'
<1> SUFFICES ASSUME TypeInv, [Next]_vars
             PROVE  TypeInv'
  OBVIOUS
<1> USE PlanAssumption DEF TypeInv, TypeOK, Flow, Phases, record, loop, repair, NoCall
<1>a. phase \notin {"planning", "done"} => plan \in Plans /\ RunState(plan, log) \in Views
  BY RunStateType
<1>1. ASSUME NEW b \in PlannerOutputs, CreatePlan(b)
      PROVE  TypeInv'
  BY <1>1, <1>a, NoPlanIsNoPlan DEF CreatePlan, FailRun, Plans
<1>2. ASSUME BeginAttempt
      PROVE  TypeInv'
  BY <1>2, <1>a, IterationBudgetType DEF BeginAttempt
<1>3. ASSUME Accept
      PROVE  TypeInv'
  BY <1>3, <1>a, NewArtifactsType DEF Accept
<1>4. ASSUME Repair
      PROVE  TypeInv'
  BY <1>4, <1>a DEF Repair, FailRun
<1>5. ASSUME Raise
      PROVE  TypeInv'
  BY <1>5, <1>a DEF Raise, FailRun
<1>6. ASSUME Reap
      PROVE  TypeInv'
  BY <1>6, <1>a DEF Reap
<1>7. ASSUME NEW n \in 0..MaxCalls, ModelTurn(n)
      PROVE  TypeInv'
  BY <1>7, <1>a DEF ModelTurn
<1>8. ASSUME OutOfIterations
      PROVE  TypeInv'
  BY <1>8, <1>a DEF OutOfIterations, FailRun
<1>9. ASSUME NEW s \in StepIds, NEW evidence \in BOOLEAN, CompletePlanStep(s, evidence)
      PROVE  TypeInv'
  BY <1>9, <1>a, NextCallType, LoggedType, RunStateType DEF CompletePlanStep, StepStatus
<1>10. ASSUME NEW b \in PlannerOutputs, NEW reasonOk \in BOOLEAN, RequestReplan(b, reasonOk)
      PROVE  TypeInv'
  <2>. DEFINE allowed == reasonOk /\ Unfinished(view) # {}
  <2>1. CASE allowed /\ replansUsed >= MaxReplans
    BY <1>10, <2>1, <1>a DEF RequestReplan, ReplanAsked, FailRun
  <2>2. CASE ~(allowed /\ replansUsed >= MaxReplans)
    <3>1. phase = "calls" /\ NextCall /\ UNCHANGED <<status, call, log, artifacts, delivered,
                                               repair, iteration, iterBudget, uncertain>>
      BY <1>10, <2>2 DEF RequestReplan, ReplanAsked
    <3>2. CASE allowed /\ ApplyReplan(b)
      <4>1. view \in Views /\ view.plan.version \in Nat
        BY <3>1, PlanFields DEF Views
      <4>2. plan' \in Plans /\ plan' # NoPlan
        BY <4>1, <3>2, NoPlanIsNoPlan DEF ApplyReplan, Plans
      <4>3. view' \in Views
        BY <4>2, <3>2, RunStateType DEF ApplyReplan
      <4>. QED
        BY <2>2, <3>1, <3>2, <4>2, <4>3, NextCallType DEF ApplyReplan
    <3>3. CASE UNCHANGED <<plan, view, replans, replansUsed>>
      BY <3>1, <3>3, <1>a, NextCallType
    <3>. QED  BY <1>10, <2>2, <3>2, <3>3 DEF RequestReplan, ReplanAsked
  <2>. QED  BY <2>1, <2>2
<1>11. ASSUME NEW declared \in StepIds \cup {NoStep}, RejectBinding(declared)
      PROVE  TypeInv'
  BY <1>11, <1>a, NextCallType DEF RejectBinding
<1>12. ASSUME NEW tool \in Tools, NEW declared \in StepIds \cup {NoStep}, StartToolCall(tool, declared)
      PROVE  TypeInv'
  BY <1>12, <1>a, LoggedType, BindingsType DEF StartToolCall, StepStatus
<1>13. ASSUME RetryTool
      PROVE  TypeInv'
  <2>1. call' \in [tool : Tools \cup {NoStep}, step : StepIds \cup {NoStep}, attempt : 0..MaxAttempts]
    <3>1. call.attempt + 1 \in 0..MaxAttempts
      BY <1>13 DEF RetryTool
    <3>. QED  BY <1>13, <3>1 DEF RetryTool
  <2>. QED  BY <1>13, <2>1 DEF RetryTool
<1>14. ASSUME NEW product \in Products, ToolSucceeds(product)
      PROVE  TypeInv'
  <2>1. artifacts' \in Seq({"valid", "broken"})
    <3>1. product \in Seq({"valid", "broken"})
      <4>1. CASE product = <<>>
        BY <4>1
      <4>2. CASE product = <<"valid">>
        BY <4>2
      <4>3. CASE product = <<"broken">>
        BY <4>3
      <4>. QED  BY <4>1, <4>2, <4>3 DEF Products
    <3>. QED  BY <1>14, <3>1, ConcatProperties DEF ToolSucceeds
  <2>2. call' \in [tool : Tools \cup {NoStep}, step : StepIds \cup {NoStep}, attempt : 0..MaxAttempts]
    BY <1>14 DEF ToolSucceeds
  <2>. QED  BY <1>14, <1>a, <2>1, <2>2, NextCallType DEF ToolSucceeds
<1>15. ASSUME ToolFails
      PROVE  TypeInv'
  BY <1>15, <1>a, NextCallType, LoggedType, RunStateType DEF ToolFails, FailureLog, StepStatus
<1>16. ASSUME ToolStateUnknown
      PROVE  TypeInv'
  BY <1>16, <1>a, LoggedType DEF ToolStateUnknown, FailRun, FailureLog, StepStatus
<1>17. ASSUME UNCHANGED vars
      PROVE  TypeInv'
  BY <1>17 DEF vars
<1>. QED
  BY <1>1, <1>2, <1>3, <1>4, <1>5, <1>6, <1>7, <1>8, <1>9, <1>10, <1>11, <1>12, <1>13, <1>14, <1>15, <1>16, <1>17
     DEF Next, Run, Orchestrate, Turn, ToolCall

LEMMA TypeInvariance == Spec => []TypeInv
BY TypeInit, TypeStep, PTL DEF Spec

\* Every variable keeps its type and its bounds.
THEOREM TypeCorrect == Spec => []TypeOK
BY TypeInvariance, PTL DEF TypeInv

-----------------------------------------------------------------------------
(* The plan, its steps and the executor's view of them                      *)

\* What is complete is closed under dependencies only because the executor
\* judges on a view that is current, and only steps it finds eligible are bound.
Structure == ViewIsCurrent /\ CompletedIsClosed /\ BoundStepIsEligible

\* A current view answers what the record says.
LEMMA ViewReads ==
    ASSUME TypeInv, ViewIsCurrent, phase \in {"model", "calls"}
    PROVE  /\ plan \in Plans /\ view.plan = plan
           /\ StepsOf(view) = plan.body.steps
           /\ \A s \in plan.body.steps :
                 /\ view.status[s] = log[s]
                 /\ IsComplete(view, s) <=> log[s] = "SUCCESS"
                 /\ plan.body.deps[s] \subseteq plan.body.steps =>
                       (DependenciesSatisfied(view, s)
                           <=> \A d \in plan.body.deps[s] : log[d] = "SUCCESS")
<1>1. plan \in Plans /\ view = RunState(plan, log)
  BY DEF TypeInv, TypeOK, Flow, ViewIsCurrent
<1>2. plan.body.steps \subseteq StepIds
  BY <1>1, PlanFields
<1>3. view.plan = plan /\ StepsOf(view) = plan.body.steps
  BY <1>1 DEF RunState, StepsOf
<1>4. \A s \in plan.body.steps : view.status[s] = log[s]
  BY <1>1, <1>2 DEF RunState
<1>5. \A s \in plan.body.steps : IsComplete(view, s) <=> log[s] = "SUCCESS"
  BY <1>3, <1>4 DEF IsComplete
<1>. QED  BY <1>1, <1>3, <1>4, <1>5 DEF DependenciesSatisfied

\* Satisfied dependencies are complete in the record.
LEMMA EligibleStep ==
    ASSUME TypeInv, ViewIsCurrent, phase \in {"model", "calls"},
           NEW s \in StepsOf(view), ~IsComplete(view, s), DependenciesSatisfied(view, s)
    PROVE  /\ s \in plan.body.steps /\ s \in StepIds
           /\ log[s] # "SUCCESS"
           /\ \A d \in plan.body.deps[s] : d \in plan.body.steps /\ log[d] = "SUCCESS"
<1>1. plan \in Plans /\ view.plan = plan /\ s \in plan.body.steps /\ s \in StepIds
  BY ViewReads, PlanFields
<1>2. \A d \in plan.body.deps[s] : d \in plan.body.steps /\ view.status[d] = "SUCCESS"
  BY <1>1, ViewReads DEF DependenciesSatisfied, IsComplete
<1>. QED  BY <1>1, <1>2, ViewReads

LEMMA StructureInit == Init => Structure
BY DEF Init, Structure, ViewIsCurrent, CompletedIsClosed, BoundStepIsEligible

LEMMA StructureStep == TypeInv /\ Structure /\ [Next]_vars => Structure'
<1> SUFFICES ASSUME TypeInv, Structure, [Next]_vars
             PROVE  Structure'
  OBVIOUS
<1>a. log \in [StepIds -> StepStatus]
  BY DEF TypeInv, TypeOK
<1>b. ViewIsCurrent /\ CompletedIsClosed /\ BoundStepIsEligible
  BY DEF Structure
<1>1. ASSUME UNCHANGED <<plan, log>>,
             phase' \in {"model", "calls"} => view' = RunState(plan, log),
             phase' = "tool" => phase = "tool" /\ call'.step = call.step
      PROVE  Structure'
  BY <1>1, <1>b DEF Structure, ViewIsCurrent, CompletedIsClosed, BoundStepIsEligible
<1>2. ASSUME NEW b \in PlannerOutputs, CreatePlan(b)
      PROVE  Structure'
  <2>1. plan = NoPlan /\ (\A s \in StepIds : log[s] # "SUCCESS") /\ UNCHANGED log
    BY <1>2, <1>b DEF CreatePlan, TypeInv, Flow, CompletedIsClosed
  <2>2. phase' \in {"attempt", "done"}
    BY <1>2 DEF CreatePlan, FailRun
  <2>. QED  BY <2>1, <2>2 DEF Structure, ViewIsCurrent, CompletedIsClosed, BoundStepIsEligible
<1>3. ASSUME Orchestrate, \A b \in PlannerOutputs : ~CreatePlan(b)
      PROVE  Structure'
  BY <1>1, <1>3 DEF Orchestrate, BeginAttempt, Accept, Repair, Raise, FailRun, record
<1>4. ASSUME Reap \/ UNCHANGED vars
      PROVE  Structure'
  BY <1>1, <1>4, <1>b DEF Reap, vars, record, ViewIsCurrent
<1>5. ASSUME NEW n \in 0..MaxCalls, ModelTurn(n)
      PROVE  Structure'
  BY <1>1, <1>5, <1>b DEF ModelTurn, record, ViewIsCurrent
<1>6. ASSUME OutOfIterations
      PROVE  Structure'
  BY <1>1, <1>6 DEF OutOfIterations, FailRun, record
<1>7. ASSUME NEW s \in StepIds, NEW evidence \in BOOLEAN, CompletePlanStep(s, evidence)
      PROVE  Structure'
  <2>1. phase = "calls" /\ phase' \in {"model", "calls"} /\ UNCHANGED plan
    BY <1>7 DEF CompletePlanStep, NextCall
  <2>2. CASE MayComplete(s) /\ evidence
    <3>1. log' = Logged(s, "SUCCESS") /\ view' = RunState(plan, log')
      BY <1>7, <2>2 DEF CompletePlanStep
    <3>2. /\ s \in plan.body.steps
          /\ \A d \in plan.body.deps[s] : d \in plan.body.steps /\ log[d] = "SUCCESS"
      BY <2>1, <2>2, <1>b, EligibleStep DEF MayComplete
    <3>3. plan \in Plans
      BY <2>1, <1>b, ViewReads
    <3>4. \A d \in StepIds : log'[d] = "SUCCESS" <=> (d = s \/ log[d] = "SUCCESS")
      BY <3>1, <1>a DEF Logged
    <3>5. CompletedIsClosed'
      BY <3>2, <3>3, <3>4, <2>1, <1>b, PlanFields, NoPlanIsNoPlan DEF CompletedIsClosed
    <3>. QED  BY <2>1, <3>1, <3>5 DEF Structure, ViewIsCurrent, BoundStepIsEligible
  <2>3. CASE ~(MayComplete(s) /\ evidence)
    BY <1>1, <1>7, <2>1, <2>3, <1>b DEF CompletePlanStep, ViewIsCurrent
  <2>. QED  BY <2>2, <2>3
<1>8. ASSUME NEW b \in PlannerOutputs, NEW reasonOk \in BOOLEAN, RequestReplan(b, reasonOk)
      PROVE  Structure'
  <2>1. phase = "calls" /\ phase' \in {"model", "calls", "done"} /\ UNCHANGED log
    BY <1>8 DEF RequestReplan, NextCall, FailRun
  <2>2. CASE ApplyReplan(b)
    <3>1. plan' = [version |-> view.plan.version + 1, body |-> b] /\ view' = RunState(plan', log)
      BY <2>2 DEF ApplyReplan
    <3>2. plan \in Plans /\ plan.version \in Nat /\ view.plan = plan
      BY <2>1, <1>b, ViewReads, PlanFields
    <3>3. plan' \in Plans
      BY <3>1, <3>2 DEF Plans
    <3>4. ValidBody(b) /\ Preserves(plan.body, b, CompletedPlanSteps)
      BY <2>2 DEF ApplyReplan, MayApply, ReplanReturned, ReplanApplies, ParsePlanResponse
    <3>5. ASSUME NEW s \in StepIds, log[s] = "SUCCESS"
          PROVE  s \in b.steps /\ \A d \in b.deps[s] : log[d] = "SUCCESS"
      <4>1. s \in CompletedPlanSteps /\ \A d \in plan.body.deps[s] : log[d] = "SUCCESS"
        BY <3>5, <1>b DEF CompletedIsClosed, CompletedPlanSteps
      <4>. QED  BY <3>4, <4>1 DEF Preserves
    <3>6. CompletedIsClosed'
      BY <3>1, <3>3, <3>5, <2>1, NoPlanIsNoPlan DEF CompletedIsClosed
    <3>. QED  BY <2>1, <3>1, <3>6 DEF Structure, ViewIsCurrent, BoundStepIsEligible
  <2>3. CASE UNCHANGED <<plan, view>>
    BY <1>1, <2>1, <2>3, <1>b DEF ViewIsCurrent
  <2>. QED  BY <1>8, <2>2, <2>3 DEF RequestReplan
<1>9. ASSUME NEW declared \in StepIds \cup {NoStep}, RejectBinding(declared)
      PROVE  Structure'
  BY <1>1, <1>9, <1>b DEF RejectBinding, NextCall, record, ViewIsCurrent
<1>10. ASSUME NEW tool \in Tools, NEW declared \in StepIds \cup {NoStep},
              StartToolCall(tool, declared)
       PROVE  Structure'
  <2>1. PICK s \in Bindings(declared) :
           /\ call' = [tool |-> tool, step |-> s, attempt |-> 1]
           /\ log' = IF s = NoStep THEN log ELSE Logged(s, "RUNNING")
    BY <1>10 DEF StartToolCall
  <2>2. phase = "calls" /\ phase' = "tool" /\ UNCHANGED plan /\ call'.step = s
    BY <1>10, <2>1 DEF StartToolCall
  <2>3. CASE s = NoStep
    BY <2>1, <2>2, <2>3, <1>b DEF Structure, ViewIsCurrent, CompletedIsClosed, BoundStepIsEligible
  <2>4. CASE s # NoStep
    <3>1. /\ s \in plan.body.steps /\ s \in StepIds
          /\ log[s] # "SUCCESS"
          /\ \A d \in plan.body.deps[s] : d \in plan.body.steps /\ log[d] = "SUCCESS"
      BY <2>2, <2>4, <1>b, BoundStep, EligibleStep
    <3>2. log'[s] = "RUNNING" /\ \A d \in StepIds : d # s => log'[d] = log[d]
      BY <2>1, <2>4, <3>1, <1>a DEF Logged
    <3>3. plan \in Plans
      BY <2>2, <1>b, ViewReads
    <3>4. CompletedIsClosed'
      BY <3>1, <3>2, <3>3, <2>2, <1>b, PlanFields DEF CompletedIsClosed
    <3>5. BoundStepIsEligible'
      BY <3>1, <3>2, <3>3, <2>2, PlanFields DEF BoundStepIsEligible
    <3>. QED  BY <2>2, <3>4, <3>5 DEF Structure, ViewIsCurrent
  <2>. QED  BY <2>3, <2>4
<1>11. ASSUME RetryTool
       PROVE  Structure'
  <2>1. call'.step = call.step
    BY <1>11 DEF RetryTool, TypeInv, TypeOK
  <2>. QED  BY <1>1, <1>11, <2>1 DEF RetryTool, record
<1>12. ASSUME NEW product \in Products, ToolSucceeds(product)
       PROVE  Structure'
  BY <1>1, <1>12 DEF ToolSucceeds, NextCall
<1>13. ASSUME ToolFails \/ ToolStateUnknown
       PROVE  Structure'
  <2>1. phase = "tool" /\ phase' \in {"model", "calls", "done"} /\ UNCHANGED plan
    BY <1>13 DEF ToolFails, ToolStateUnknown, NextCall, FailRun
  <2>2. log' = FailureLog /\ (phase' # "done" => view' = RunState(plan, log'))
    BY <1>13 DEF ToolFails, ToolStateUnknown, FailRun
  <2>3. \A d \in StepIds : log'[d] = "SUCCESS" <=> log[d] = "SUCCESS"
    BY <2>2, <1>a DEF FailureLog, Logged
  <2>4. plan \in Plans
    BY <2>1 DEF TypeInv, TypeOK, Flow
  <2>5. CompletedIsClosed'
    BY <2>1, <2>3, <2>4, <1>b, PlanFields DEF CompletedIsClosed
  <2>. QED  BY <2>1, <2>2, <2>5 DEF Structure, ViewIsCurrent, BoundStepIsEligible
<1>. QED
  BY <1>2, <1>3, <1>4, <1>5, <1>6, <1>7, <1>8, <1>9, <1>10, <1>11, <1>12, <1>13
     DEF Next, Run, Orchestrate, Turn, ToolCall

LEMMA StructureInvariance == Spec => []Structure
BY StructureInit, StructureStep, TypeInvariance, PTL DEF Spec

\* The executor never decides on an outdated plan state (agent/executor.py).
THEOREM ViewAlwaysCurrent == Spec => []ViewIsCurrent
BY StructureInvariance, PTL DEF Structure

\* No step is judged complete before its prerequisites, whatever the replans.
THEOREM CompletionClosed == Spec => []CompletedIsClosed
BY StructureInvariance, PTL DEF Structure

\* No tool works for a step that is complete or not ready (_bind_step).
THEOREM BindingEligible == Spec => []BoundStepIsEligible
BY StructureInvariance, PTL DEF Structure

-----------------------------------------------------------------------------
(* What a step may never do                                                 *)

\* What CompletedIsKept says of one step.
Kept ==
    \A s \in StepIds : log[s] = "SUCCESS" =>
        /\ log'[s] = "SUCCESS"
        /\ s \in plan'.body.steps
        /\ plan'.body.deps[s] = plan.body.deps[s]
        /\ plan'.body.text[s] = plan.body.text[s]

LEMMA KeptStep == TypeInv /\ Structure /\ [Next]_vars => Kept
<1> SUFFICES ASSUME TypeInv, Structure, [Next]_vars
             PROVE  Kept
  OBVIOUS
<1>a. log \in [StepIds -> StepStatus] /\ CompletedIsClosed /\ ViewIsCurrent
  BY DEF TypeInv, TypeOK, Structure
<1>1. ASSUME UNCHANGED plan,
             \A s \in StepIds : log[s] = "SUCCESS" => log'[s] = "SUCCESS"
      PROVE  Kept
  BY <1>1, <1>a DEF Kept, CompletedIsClosed
<1>2. ASSUME NEW b \in PlannerOutputs, CreatePlan(b)
      PROVE  Kept
  <2>1. \A s \in StepIds : log[s] # "SUCCESS"
    BY <1>2, <1>a DEF CreatePlan, TypeInv, Flow, CompletedIsClosed
  <2>. QED  BY <2>1 DEF Kept
<1>3. ASSUME NEW s \in StepIds, NEW evidence \in BOOLEAN, CompletePlanStep(s, evidence)
      PROVE  Kept
  BY <1>1, <1>3, <1>a, LoggedKeeps DEF CompletePlanStep
<1>4. ASSUME NEW b \in PlannerOutputs, NEW reasonOk \in BOOLEAN, RequestReplan(b, reasonOk)
      PROVE  Kept
  <2>1. UNCHANGED log
    BY <1>4 DEF RequestReplan
  <2>2. CASE ApplyReplan(b)
    <3>1. plan'.body = b /\ Preserves(plan.body, b, CompletedPlanSteps)
      BY <2>2 DEF ApplyReplan, MayApply, ReplanReturned, ReplanApplies, ParsePlanResponse
    <3>2. \A s \in StepIds : log[s] = "SUCCESS" => s \in CompletedPlanSteps
      BY <1>a DEF CompletedIsClosed, CompletedPlanSteps
    <3>. QED  BY <2>1, <3>1, <3>2 DEF Kept, Preserves
  <2>3. CASE UNCHANGED plan
    BY <1>1, <2>1, <2>3
  <2>. QED  BY <1>4, <2>2, <2>3 DEF RequestReplan
<1>5. ASSUME NEW tool \in Tools, NEW declared \in StepIds \cup {NoStep},
             StartToolCall(tool, declared)
      PROVE  Kept
  <2>1. \A s \in StepIds : log[s] = "SUCCESS" => log'[s] = "SUCCESS"
    BY <1>5, <1>a DEF StartToolCall, Logged
  <2>. QED  BY <1>1, <1>5, <2>1 DEF StartToolCall
<1>6. ASSUME ToolFails \/ ToolStateUnknown
      PROVE  Kept
  <2>1. \A s \in StepIds : log[s] = "SUCCESS" => log'[s] = "SUCCESS"
    BY <1>6, <1>a DEF ToolFails, ToolStateUnknown, FailureLog, Logged
  <2>. QED  BY <1>1, <1>6, <2>1 DEF ToolFails, ToolStateUnknown
<1>7. ASSUME UNCHANGED <<plan, log>>
      PROVE  Kept
  BY <1>1, <1>7
<1>8. CASE Orchestrate
  BY <1>2, <1>7, <1>8 DEF Orchestrate, BeginAttempt, Accept, Repair, Raise, record
<1>9. CASE Turn
  BY <1>3, <1>4, <1>7, <1>9 DEF Turn, ModelTurn, OutOfIterations, record
<1>10. CASE ToolCall
  BY <1>5, <1>6, <1>7, <1>10 DEF ToolCall, RejectBinding, RetryTool, ToolSucceeds, record
<1>11. CASE Reap \/ UNCHANGED vars
  BY <1>7, <1>11 DEF Reap, vars, record
<1>. QED  BY <1>8, <1>9, <1>10, <1>11 DEF Next, Run

\* "Completed steps are kept unchanged", whatever the planner answers.
THEOREM CompletionKept == Spec => CompletedIsKept
<1>1. TypeInv /\ Structure /\ [Next]_vars => [Kept]_vars
  BY KeptStep
<1>. QED
  BY <1>1, TypeInvariance, StructureInvariance, PTL DEF Spec, CompletedIsKept, Kept

\* A run whose task the reaper has failed can not change its plan.
THEOREM PlanFrozen == Spec => PlanFrozenAfterEnd
<1>1. [Next]_vars => [status # "RUNNING" => UNCHANGED plan]_vars
  BY DEF Next, Run, Orchestrate, Turn, ToolCall, CreatePlan, BeginAttempt, Accept, Repair,
         Raise, ModelTurn, OutOfIterations, CompletePlanStep, RequestReplan, ApplyReplan,
         MayApply, ReplanReturned, ReplanApplies, RejectBinding, StartToolCall, RetryTool, ToolSucceeds, ToolFails,
         ToolStateUnknown, Reap, record
<1>. QED  BY <1>1, PTL DEF Spec, PlanFrozenAfterEnd

-----------------------------------------------------------------------------
(* Outcomes                                                                 *)

Outcome ==
    /\ UnknownStateEndsRun
    /\ ReplayNeedsOptIn
    /\ DeliveredIsValid
    /\ status = "SUCCESS" => phase = "done"

LEMMA OutcomeInit == Init => Outcome
BY DEF Init, Outcome, UnknownStateEndsRun, ReplayNeedsOptIn, DeliveredIsValid, NoCall

LEMMA OutcomeStep == TypeInv /\ Outcome /\ [Next]_vars => Outcome'
<1> SUFFICES ASSUME TypeInv, Outcome, [Next]_vars
             PROVE  Outcome'
  OBVIOUS
<1> USE DEF Outcome, UnknownStateEndsRun, ReplayNeedsOptIn, record, loop, repair
<1>1. CASE Accept
  <2>1. UNCHANGED <<uncertain, call>> /\ ~uncertain /\ status # "SUCCESS" /\ phase' = "done"
    BY <1>1 DEF Accept
  <2>2. CASE status = "RUNNING"
    <3>1. delivered' = NewArtifacts /\ status' = "SUCCESS"
      BY <1>1, <2>2 DEF Accept
    <3>2. \A i \in 1..Len(NewArtifacts) : NewArtifacts[i] = "valid"
      BY <1>1 DEF Accept, ArtifactsAccepted
    <3>3. RequireArtifact => NewArtifacts # <<>>
      BY <1>1 DEF Accept, ArtifactsAccepted
    <3>. QED  BY <2>1, <3>1, <3>2, <3>3 DEF DeliveredIsValid
  <2>3. CASE status # "RUNNING"
    BY <1>1, <2>1, <2>3 DEF Accept, DeliveredIsValid
  <2>. QED  BY <2>2, <2>3
<1>2. ASSUME UNCHANGED <<uncertain, delivered>>, status # "SUCCESS",
             status' \in {status, "FAILED"}, ~uncertain,
             call'.attempt > 1 => call'.tool \in RetrySafe
      PROVE  Outcome'
  BY <1>2 DEF DeliveredIsValid
<1>3. phase # "done" => status # "SUCCESS" /\ ~uncertain
  OBVIOUS
<1>4. NoCall.attempt = 0
  BY DEF NoCall
<1>5. ASSUME NEW b \in PlannerOutputs, CreatePlan(b)
      PROVE  Outcome'
  BY <1>2, <1>3, <1>4, <1>5 DEF CreatePlan, FailRun
<1>6. CASE BeginAttempt \/ Repair \/ Raise
  BY <1>2, <1>3, <1>4, <1>6 DEF BeginAttempt, Repair, Raise, FailRun
<1>7. CASE Reap
  BY <1>7 DEF Reap, DeliveredIsValid
<1>8. CASE Turn
  BY <1>2, <1>3, <1>4, <1>8
     DEF Turn, ModelTurn, OutOfIterations, CompletePlanStep, RequestReplan, FailRun
<1>9. ASSUME NEW declared \in StepIds \cup {NoStep}, RejectBinding(declared)
      PROVE  Outcome'
  BY <1>2, <1>3, <1>9 DEF RejectBinding
<1>10. ASSUME NEW tool \in Tools, NEW declared \in StepIds \cup {NoStep},
              StartToolCall(tool, declared)
       PROVE  Outcome'
  BY <1>2, <1>3, <1>10 DEF StartToolCall
<1>11. CASE RetryTool
  <2>1. call'.tool = call.tool
    BY <1>11 DEF RetryTool, TypeInv, TypeOK
  <2>. QED  BY <1>2, <1>3, <1>11, <2>1 DEF RetryTool
<1>12. CASE ToolFails \/ \E product \in Products : ToolSucceeds(product)
  BY <1>2, <1>3, <1>4, <1>12 DEF ToolFails, ToolSucceeds
<1>13. CASE ToolStateUnknown
  BY <1>3, <1>4, <1>13 DEF ToolStateUnknown, FailRun, DeliveredIsValid
<1>14. CASE UNCHANGED vars
  BY <1>14 DEF vars, DeliveredIsValid
<1>. QED
  BY <1>1, <1>5, <1>6, <1>7, <1>8, <1>9, <1>10, <1>11, <1>12, <1>13, <1>14
     DEF Next, Run, Orchestrate, ToolCall

LEMMA OutcomeInvariance == Spec => []Outcome
BY OutcomeInit, OutcomeStep, TypeInvariance, PTL DEF Spec

\* A result of unknown effect ends the run as a failure (UnsafeExecutionStateError).
THEOREM UnknownStateIsFinal == Spec => []UnknownStateEndsRun
BY OutcomeInvariance, PTL DEF Outcome

\* A tool is dispatched again only if it is retry_safe (retry/retry_policy.py).
THEOREM ReplayOnlyIfSafe == Spec => []ReplayNeedsOptIn
BY OutcomeInvariance, PTL DEF Outcome

\* Only validated artifacts are delivered (_check_artifacts, succeed_task).
THEOREM DeliveryValid == Spec => []DeliveredIsValid
BY OutcomeInvariance, PTL DEF Outcome

-----------------------------------------------------------------------------
(* The replan budget                                                        *)

\* Between attempts the replans are within the budgets of the attempts made.
Counted ==
    /\ ReplansAreCounted
    /\ phase \in {"planning", "attempt"} => replans <= MaxReplans * repairs

LEMMA CountedInit == Init => Counted
BY PlanAssumption DEF Init, Counted, ReplansAreCounted

LEMMA CountedStep == TypeInv /\ Structure /\ Counted /\ [Next]_vars => Counted'
<1> SUFFICES ASSUME TypeInv, Structure, Counted, [Next]_vars
             PROVE  Counted'
  OBVIOUS
<1> USE DEF Counted, ReplansAreCounted, record, loop, repair
<1>a. /\ MaxReplans \in Nat /\ repairs \in Nat /\ replans \in Nat /\ replansUsed \in 0..MaxReplans
      /\ MaxReplans * repairs \in Nat
  BY PlanAssumption DEF TypeInv, TypeOK
<1>1. ASSUME UNCHANGED <<plan, replans, repairs, replansUsed>>,
             phase' \in {"planning", "attempt"} => phase' = phase
      PROVE  Counted'
  BY <1>1
<1>2. ASSUME NEW b \in PlannerOutputs, CreatePlan(b)
      PROVE  Counted'
  <2>1. plan = NoPlan /\ replans = 0
    BY <1>2 DEF CreatePlan, TypeInv, Flow
  <2>2. plan' # NoPlan => plan'.version = 1
    BY <1>2, <2>1 DEF CreatePlan
  <2>. QED  BY <1>2, <1>a, <2>1, <2>2 DEF CreatePlan
<1>3. CASE BeginAttempt
  BY <1>3, <1>a DEF BeginAttempt
<1>4. CASE Repair
  <2>1. CASE repairs < MaxRecovery
    <3>1. MaxReplans * (repairs + 1) = MaxReplans * repairs + MaxReplans
      BY <1>a
    <3>. QED  BY <1>4, <2>1, <3>1, <1>a DEF Repair
  <2>2. CASE ~(repairs < MaxRecovery)
    BY <1>1, <1>4, <2>2 DEF Repair, FailRun
  <2>. QED  BY <2>1, <2>2
<1>5. CASE Accept \/ Raise \/ Reap \/ UNCHANGED vars
  BY <1>1, <1>5 DEF Accept, Raise, FailRun, Reap, vars
<1>6. ASSUME NEW b \in PlannerOutputs, NEW reasonOk \in BOOLEAN, RequestReplan(b, reasonOk)
      PROVE  Counted'
  <2>1. phase = "calls" /\ phase' \in {"model", "calls", "done"} /\ UNCHANGED repairs
    BY <1>6 DEF RequestReplan, NextCall, FailRun
  <2>2. CASE ApplyReplan(b)
    <3>1. view.plan = plan /\ plan \in Plans
      BY <2>1, ViewReads DEF Structure
    <3>2. plan.version = 1 + replans
      BY <3>1, NoPlanIsNoPlan
    <3>3. plan'.version = plan.version + 1 /\ replans' = replans + 1
          /\ replansUsed' = replansUsed + 1
      BY <2>2, <3>1 DEF ApplyReplan
    <3>. QED  BY <2>1, <3>2, <3>3, <1>a
  <2>3. CASE UNCHANGED <<plan, replans, replansUsed>>
    BY <1>1, <2>1, <2>3
  <2>. QED  BY <1>6, <2>2, <2>3 DEF RequestReplan
<1>7. CASE Turn
  BY <1>1, <1>6, <1>7
     DEF Turn, ModelTurn, OutOfIterations, CompletePlanStep, NextCall, FailRun
<1>8. CASE ToolCall
  BY <1>1, <1>8
     DEF ToolCall, RejectBinding, StartToolCall, RetryTool, ToolSucceeds, ToolFails,
         ToolStateUnknown, NextCall, FailRun
<1>. QED
  BY <1>2, <1>3, <1>4, <1>5, <1>7, <1>8 DEF Next, Run, Orchestrate

\* The version of the plan counts the replans and each attempt has its budget.
THEOREM ReplansCounted == Spec => []ReplansAreCounted
<1>1. Spec => []Counted
  BY CountedInit, CountedStep, TypeInvariance, StructureInvariance, PTL DEF Spec
<1>. QED  BY <1>1, PTL DEF Counted

=============================================================================
