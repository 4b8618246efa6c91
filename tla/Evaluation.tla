----------------------------- MODULE Evaluation -----------------------------
(***************************************************************************)
(* The offline evaluation harness: loading a data set                      *)
(* (evaluation/dataset.py, evaluation/model.py), running its cases one     *)
(* after another (evaluation/runner.py) and scoring them from what their   *)
(* tasks have recorded (evaluation/scorer.py).                             *)
(*                                                                         *)
(* The task under evaluation is any behaviour of the runtime as the record *)
(* shows it: tool steps with failing attempts, completed plan steps,       *)
(* replans, saved artifacts and their checks.  Two variables hold what the *)
(* record does not: the objects really stored, and whether a tool really   *)
(* failed.  Rates are whole parts of Scale.                                *)
(***************************************************************************)
EXTENDS Integers, SequencesExt, FiniteSetsExt

CONSTANTS Datasets,     (* data sets as they are read from a file            *)
          Tools, PlanSteps, Keys, Sizes,
          Latencies,    (* what the clock may say a case took                *)
          TokenCounts,  (* total_tokens of one answer of the model           *)
          MaxRecovery,  (* max_recovery_attempts                             *)
          MaxEvents,    (* bound: what a task does, apart from validation    *)
          Scale,        (* the value of a rate of 1.0                        *)
          None

TaskStatus == {"CREATED", "RUNNING", "SUCCESS", "FAILED"}

\* EvaluationExpectation and the fields of a case the harness looks at.
Case == [id : STRING, status : STRING, tools : Seq(Tools), completed : SUBSET PlanSteps,
         artifact : BOOLEAN, replan : BOOLEAN, recovery : BOOLEAN,
         events : SUBSET STRING, requireArtifact : BOOLEAN]

ASSUME EvaluationAssumption ==
    /\ Datasets \subseteq Seq(Case)
    /\ "save_report" \in Tools /\ IsFiniteSet(PlanSteps)
    /\ Sizes \subseteq Nat /\ Latencies \subseteq Nat /\ TokenCounts \subseteq Nat
    /\ MaxRecovery \in Nat /\ MaxEvents \in Nat /\ Scale \in Nat \ {0}
    /\ None \notin Nat \cup BOOLEAN

VARIABLES phase,     (* "load", "next", "work", "score", "report" or "done"  *)
          cases,     (* EvaluationDataset.cases                              *)
          task,      (* the record of the task of the current case           *)
          error,     (* CaseExecution.error                                  *)
          objects,   (* what the bucket really holds, by key: a size, or None  *)
          faulted,   (* an attempt of a tool of this case really failed      *)
          results,   (* the CaseResults so far                               *)
          report     (* SuiteMetrics                                         *)

truth == <<objects, faulted>>
vars == <<phase, cases, task, error, truth, results, report>>

-----------------------------------------------------------------------------
(* Loading (evaluation/model.py, evaluation/dataset.py)                     *)

\* EvaluationExpectation.from_dict
ExpectationOK(c) == c.status \in TaskStatus

\* EvaluationCase.from_dict
CaseOK(c) == c.id # "" /\ ExpectationOK(c)

\* Mutant: ids may repeat.
DatasetRepeating(d) == d # <<>>

\* EvaluationDataset.__post_init__
DatasetOK(d) == d # <<>> /\ IsInjective([i \in DOMAIN d |-> d[i].id])

\* load_dataset: a file that is not a data set is a ValueError.
LoadDataset(d) ==
    /\ phase = "load"
    /\ IF (\A i \in DOMAIN d : CaseOK(d[i])) /\ DatasetOK(d)
       THEN cases' = d /\ phase' = "next"
       ELSE phase' = "done" /\ UNCHANGED cases
    /\ UNCHANGED <<task, error, truth, results, report>>

-----------------------------------------------------------------------------
(* Running one case (evaluation/runner.py)                                  *)

\* What the record of a task tells the scorer.
TaskRecord ==
    [status : TaskStatus, steps : Seq([tool : Tools, ok : BOOLEAN]),
     retries : Seq({"RETRYING", "SUCCESS", "FAILED"}), completed : SUBSET PlanSteps, replans : Nat,
     artifacts : Seq([key : Keys, size : Sizes]), already : Nat, repairs : Nat,
     checks : Seq([key : Keys \cup {None}, ok : BOOLEAN]), events : SUBSET {"artifact_check"},
     delivered : Seq([key : Keys, size : Sizes]), tokens : Nat]

NewTask(status) ==
    [status |-> status, steps |-> <<>>, retries |-> <<>>, completed |-> {}, replans |-> 0,
     artifacts |-> <<>>, already |-> 0, repairs |-> 0, checks |-> <<>>, events |-> {},
     delivered |-> <<>>, tokens |-> 0]

Init ==
    /\ phase = "load"
    /\ cases = <<>> /\ results = <<>>
    /\ task = NewTask("CREATED") /\ error = FALSE
    /\ objects = [k \in Keys |-> None] /\ faulted = FALSE
    /\ report = None

Current == cases[Len(results) + 1]

\* OrchestratorCaseExecutor.execute: a task of its own for each case.
Execute ==
    /\ phase = "next" /\ Len(results) < Len(cases)
    /\ task' = NewTask("RUNNING") /\ error' = FALSE
    /\ faulted' = FALSE
    /\ phase' = "work"
    /\ UNCHANGED <<cases, objects, results, report>>

\* EvaluationRunner.run: a malformed fixture or a failing adapter is one failed
\* case, scored with a task made up for it.
AdapterFails ==
    /\ phase = "next" /\ Len(results) < Len(cases)
    /\ task' = NewTask("FAILED") /\ error' = TRUE
    /\ faulted' = FALSE
    /\ phase' = "score"
    /\ UNCHANGED <<cases, objects, results, report>>

-----------------------------------------------------------------------------
(* What the runtime records of the task                                     *)

Busy == phase = "work"
MayAct == Busy /\ Len(task.steps) + Cardinality(task.completed) + task.replans < MaxEvents

Works(t) == task' = t /\ UNCHANGED <<phase, cases, error, results, report>>

\* One tool step: failed attempts before the last, its own outcome, and the
\* tokens of the answer that asked for it.  A policy refusal counts as FAILED.
ToolStep(tool, retried, ok, tokens) ==
    [task EXCEPT !.steps = Append(@, [tool |-> tool, ok |-> ok]),
                 !.retries = @ \o (IF retried THEN <<"RETRYING">> ELSE <<>>)
                               \o <<IF ok THEN "SUCCESS" ELSE "FAILED">>,
                 !.tokens = @ + tokens]

CallTool(tool, retried, ok, tokens) ==
    /\ MayAct
    /\ Works(ToolStep(tool, retried, ok, tokens))
    /\ faulted' = (faulted \/ retried \/ ~ok)
    /\ UNCHANGED objects

\* What the bucket holds under the key from now on: the size sent, another one
\* if the upload was cut short, nothing if the object got lost.
Upload(key, stored) == objects' = [objects EXCEPT ![key] = stored]

\* save_report: the artifact records the size sent, which may be none at all.
SaveReport(key, size, stored) ==
    /\ MayAct
    /\ Works([ToolStep("save_report", FALSE, TRUE, 0)
                 EXCEPT !.artifacts = Append(@, [key |-> key, size |-> size])])
    /\ Upload(key, stored)
    /\ UNCHANGED faulted

\* It fails without an artifact, and may have replaced the object all the same.
SaveFails(key, stored) ==
    /\ MayAct
    /\ Works(ToolStep("save_report", FALSE, FALSE, 0))
    /\ UNCHANGED objects \/ Upload(key, stored)
    /\ faulted' = TRUE

CompleteStep(s) ==
    /\ MayAct /\ s \notin task.completed
    /\ Works([task EXCEPT !.completed = @ \cup {s}])
    /\ UNCHANGED truth

Replan ==
    /\ MayAct
    /\ Works([task EXCEPT !.replans = @ + 1])
    /\ UNCHANGED truth

Raise ==
    /\ Busy
    /\ task' = [task EXCEPT !.status = "FAILED"] /\ error' = TRUE
    /\ phase' = "score"
    /\ UNCHANGED <<cases, truth, results, report>>

\* ArtifactValidator.validate: the object of the record is there, not empty, and
\* of the recorded size; a record of no bytes is not compared.
Confirmed(a) ==
    /\ objects[a.key] # None /\ objects[a.key] > 0
    /\ a.size = 0 \/ objects[a.key] = a.size

\* The end of an attempt: the artifacts it saved are checked and the checks
\* recorded, those the bucket fails to answer as failed ones; the task succeeds
\* with them, repairs them, or gives up.
Validate(failing) ==
    LET new == SubSeq(task.artifacts, task.already + 1, Len(task.artifacts))
        checks == IF new = <<>>
                  THEN IF Current.requireArtifact THEN <<[key |-> None, ok |-> FALSE]>> ELSE <<>>
                  ELSE [i \in DOMAIN new |-> [key |-> new[i].key, ok |-> i \notin failing /\ Confirmed(new[i])]]
        checked == [task EXCEPT !.checks = @ \o checks,
                                !.events = IF checks = <<>> THEN @ ELSE @ \cup {"artifact_check"}]
        accepted == \A i \in DOMAIN checks : checks[i].ok
        again == ~accepted /\ task.repairs < MaxRecovery
    IN  /\ Busy
        /\ task' = IF accepted THEN [checked EXCEPT !.status = "SUCCESS", !.delivered = new]
                   ELSE IF again THEN [checked EXCEPT !.already = Len(task.artifacts), !.repairs = @ + 1]
                   ELSE [checked EXCEPT !.status = "FAILED"]
        /\ error' = ~(accepted \/ again)
        /\ phase' = IF again THEN "work" ELSE "score"
        /\ UNCHANGED <<cases, truth, results, report>>

-----------------------------------------------------------------------------
(* Scoring (evaluation/scorer.py)                                           *)

Rate(part, whole) == IF whole = 0 THEN Scale ELSE (part * Scale) \div whole

Larger(a, b) == IF a > b THEN a ELSE b
Matches(expected, actual) ==
    {i \in DOMAIN expected : i \in DOMAIN actual /\ expected[i] = actual[i]}

\* Mutant: calls beyond the expected ones cost nothing.
SequenceAccuracyLenient(expected, actual) ==
    Rate(Cardinality(Matches(expected, actual)), Len(expected))

SequenceAccuracy(expected, actual) ==
    Rate(Cardinality(Matches(expected, actual)), Larger(Len(expected), Len(actual)))

CompletionRate(expected, actual) == Rate(Cardinality(expected \cap actual), Cardinality(expected))

ActualTools == [i \in DOMAIN task.steps |-> task.steps[i].tool]
ChecksOf(key) == {i \in DOMAIN task.checks : task.checks[i].key = key}

\* Mutant: the first check of a key decides.
LatestCheckFirst(key) == ChecksOf(key) # {} /\ task.checks[Min(ChecksOf(key))].ok

\* latest_by_key: a key never checked does not count as checked.
LatestCheck(key) == ChecksOf(key) # {} /\ task.checks[Max(ChecksOf(key))].ok

ArtifactValidation(required) ==
    IF ~required THEN None
    ELSE /\ task.delivered # <<>>
         /\ \A i \in DOMAIN task.delivered : LatestCheck(task.delivered[i].key)

FailureRecovery(required) ==
    IF ~required THEN None
    ELSE /\ \/ \E i \in DOMAIN task.steps : ~task.steps[i].ok
            \/ \E i \in DOMAIN task.retries : task.retries[i] \in {"RETRYING", "FAILED"}
         /\ task.status = "SUCCESS"

\* The checks of score_case, all of which a case has to pass.
Checks(c) ==
    /\ task.status = c.status
    /\ ActualTools = c.tools
    /\ c.completed \subseteq task.completed
    /\ (task.replans > 0) = c.replan
    /\ c.artifact => ArtifactValidation(TRUE)
    /\ c.recovery => FailureRecovery(TRUE)
    /\ c.events \subseteq task.events
    /\ ~error

CaseResult ==
    [id : STRING, passed : BOOLEAN, status : TaskStatus, accuracy : Int,
     completion : Int, artifacts : BOOLEAN \cup {None}, recovered : BOOLEAN \cup {None},
     calls : Nat, replans : Nat, tokens : Nat, latency : Latencies]

ScoreCase(c, latency) ==
    [id |-> c.id, passed |-> Checks(c), status |-> task.status,
     accuracy |-> SequenceAccuracy(c.tools, ActualTools),
     completion |-> CompletionRate(c.completed, task.completed),
     artifacts |-> ArtifactValidation(c.artifact), recovered |-> FailureRecovery(c.recovery),
     calls |-> Len(task.steps), replans |-> task.replans, tokens |-> task.tokens,
     latency |-> latency]

Score ==
    /\ phase = "score"
    /\ \E latency \in Latencies : results' = Append(results, ScoreCase(Current, latency))
    /\ phase' = IF Len(results) + 1 = Len(cases) THEN "report" ELSE "next"
    /\ UNCHANGED <<cases, task, error, truth, report>>

\* fmean of numbers, and of the truth values at some of the positions: a mean
\* of no values is not reported.
Total(f) ==
    LET upto[i \in 0..Len(f)] == IF i = 0 THEN 0 ELSE upto[i - 1] + f[i]
    IN  upto[Len(f)]
Mean(f) == Total(f) \div Len(f)
Share(part, whole) ==
    IF whole = {} THEN None ELSE Rate(Cardinality(part), Cardinality(whole))

\* sorted(values)[rank - 1]: the least of them with so many not above it.
AtRank(values, rank) ==
    Min({v \in Range(values) : Cardinality({i \in DOMAIN values : values[i] <= v}) >= rank})

\* _percentile95: the value at the nearest rank.
Percentile95(values) == AtRank(values, (95 * Len(values) + 99) \div 100)

Aggregate ==
    LET all == DOMAIN results
        checked == {i \in all : results[i].artifacts # None}
        recovering == {i \in all : results[i].recovered # None}
    IN  [count      |-> Len(results),
         passed     |-> Share({i \in all : results[i].passed}, all),
         succeeded  |-> Share({i \in all : results[i].status = "SUCCESS"}, all),
         accuracy   |-> Mean([i \in all |-> results[i].accuracy]),
         completion |-> Mean([i \in all |-> results[i].completion]),
         artifacts  |-> Share({i \in checked : results[i].artifacts}, checked),
         recovered  |-> Share({i \in recovering : results[i].recovered}, recovering),
         calls      |-> Mean([i \in all |-> results[i].calls]),
         replans    |-> Mean([i \in all |-> results[i].replans]),
         tokens     |-> Mean([i \in all |-> results[i].tokens]),
         p95        |-> Percentile95([i \in all |-> results[i].latency])]

ReportPassed == \A i \in DOMAIN results : results[i].passed

Report ==
    /\ phase = "report"
    /\ report' = Aggregate
    /\ phase' = "done"
    /\ UNCHANGED <<cases, task, error, truth, results>>

-----------------------------------------------------------------------------
Runtime ==
    \/ \E tool \in Tools \ {"save_report"}, retried, ok \in BOOLEAN, n \in TokenCounts :
          CallTool(tool, retried, ok, n)
    \/ \E key \in Keys, size \in Sizes, stored \in Sizes \cup {None} : SaveReport(key, size, stored)
    \/ \E key \in Keys, stored \in Sizes \cup {None} : SaveFails(key, stored)
    \/ \E s \in PlanSteps : CompleteStep(s)
    \/ Replan
    \/ Raise
    \/ \E failing \in SUBSET DOMAIN task.artifacts : Validate(failing)

Runner ==
    \/ \E d \in Datasets : LoadDataset(d)
    \/ Execute
    \/ AdapterFails
    \/ Score
    \/ Report

Next == Runner \/ Runtime

Spec == Init /\ [][Next]_vars

-----------------------------------------------------------------------------
(* Properties                                                               *)

\* Every variable has its type.
TypeOK ==
    /\ phase \in {"load", "next", "work", "score", "report", "done"}
    /\ objects \in [Keys -> Sizes \cup {None}]
    /\ cases \in Seq(Case)
    /\ task \in TaskRecord
    /\ error \in BOOLEAN /\ faulted \in BOOLEAN
    /\ results \in Seq(CaseResult)

\* Every artifact the finished task delivered is in the bucket, not empty and of
\* the size its record tells; a record of no bytes, left from before the key was
\* saved again, tells none.
ReallyDelivered ==
    /\ task.delivered # <<>>
    /\ \A i \in DOMAIN task.delivered :
          LET a == task.delivered[i]
          IN  /\ objects[a.key] \in Nat \ {0}
              /\ a.size > 0 => objects[a.key] = a.size

\* "Scoring from persisted traces": whatever retries, repairs and earlier
\* cases left in the record, what a case is said to have delivered and to have
\* recovered from is what it really delivered and really survived.
VerdictIsTrue ==
    phase = "score" =>
        LET r == ScoreCase(Current, 0)
        IN  /\ Current.artifact => r.artifacts = (task.status = "SUCCESS" /\ ReallyDelivered)
            /\ Current.recovery => r.recovered = (task.status = "SUCCESS" /\ faulted)
            /\ error => ~r.passed

\* Nine numbers, one story: a case that passed has full marks for its tools
\* and its steps, and only the expected calls earn them; the suite is perfect
\* exactly if every case passed, and no average is better than it may be.
MetricsAgree ==
    /\ \A i \in DOMAIN results :
          /\ results[i].passed => results[i].accuracy = Scale /\ results[i].completion = Scale
          /\ results[i].accuracy = Scale => results[i].calls = Len(cases[i].tools)
    /\ report # None =>
          /\ report.passed = Scale <=> ReportPassed
          /\ report.passed <= report.accuracy /\ report.passed <= report.completion
          /\ \A rate \in {report.accuracy, report.completion, report.succeeded} : rate \in 0..Scale
          /\ \E i \in DOMAIN results : results[i].latency = report.p95
          /\ 100 * Cardinality({i \in DOMAIN results : results[i].latency <= report.p95}) >= 95 * report.count
          /\ report.artifacts = None <=> \A i \in DOMAIN cases : ~cases[i].artifact

\* "one bad case must not abort the whole suite": a report has one result for
\* each case of the data set, in its order, under its own id.
EveryCaseIsScored ==
    report # None =>
        /\ Len(results) = Len(cases)
        /\ \A i \in DOMAIN cases : results[i].id = cases[i].id
        /\ Cardinality({results[i].id : i \in DOMAIN results}) = report.count

=============================================================================
