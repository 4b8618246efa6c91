# Formal model of the document-specialist-agent

TLA+ modules, TLC configurations and TLAPS proofs about the agent runtime of this
repository: the plan-driven executor, the worker pool of the API, the life of the task
records, the tool calls of concurrent tasks, code calls in the sandbox, long-term memory,
the export of traces, the context and token budget of a run, and the evaluation harness.
Every definition is read off the code; `PROJECT.json` ("map") names the
lines of each.

## 1. The system

A client posts a task (`api/app.py`).  The API writes a record and submits its id to a
bounded pool of worker threads (`api/workers.py`).  A worker runs
`AgentOrchestrator.run_task` (`agent/orchestrator.py`): inputs are staged, memories
recalled, a plan is asked of the model and persisted (`agent/planner.py`), the executor
loops over model turns and tool calls (`agent/executor.py`), the artifacts are
validated (`agent/validator.py`), and the record becomes SUCCESS or FAILED.  A reaper
thread fails records without progress, and the same code runs once at startup
(`task/task_manager.py`).

| component | state | operations | talks to | hard behaviour |
|---|---|---|---|---|
| executor, `agent/executor.py` | plan state copy, replan and turn counters | a model turn, complete step, replan, tool call | task manager, planner, registry, LLM | a copy of shared state replaced by hand; budgets; retries of effects |
| orchestrator, `agent/orchestrator.py` | repairs, artifact offset | run, repair, fail | all of the above | errors at any point, a task failed by somebody else |
| plan, `task/plan_model.py`, `task/plan_state.py` | steps, dependencies, event log | validate, fold events, apply replan | task record | statuses folded over several plan versions |
| task manager and store, `task/*` | records on disk | create, transition, append, recover | API, worker, reaper | three writers per record, crashes |
| worker pool, `api/workers.py` | queue, thread list, stop event, counters | start, stop, submit, loop | API, task manager | lock held for parts of an operation only |
| API, `api/app.py` | lifespan | POST, recovery, reaper | pool, task manager | requests cut off, races with the reaper |
| retry policy, `retry/` | none | classify, decide | executor | replay of effects |
| tools, registry, permissions, `tools/`, `security/` | none of their own; the shared workspace and bucket | bind, refuse, execute | sandbox, storage, memory, output store | arguments named by a model, effects of failed calls |
| inputs and workspace, `sandbox/inputs.py`, `task_workspace.py` | task directories | stage, read, write | storage | several tasks in one workspace |
| tool output store, `context/tool_output_store.py` | stored outputs per task | put, read a page | executor, `read_tool_output` | large results, failing writes |
| artifact validator, `agent/validator.py` | none | compare records with stored objects | storage | objects saved again |
| sandbox supervisor, workspaces, sweeper, `sandbox/` | containers, staged and committed files | preflight, run, commit, remove, sweep | Docker | timeouts, lost containers, partial commits |
| context manager, `context/` | message list, summaries, offloaded outputs | prepare, compact, trim | executor, LLM | hard limit, tool calls kept with results |
| metering, `metering/` | usage events | before call, after call | executor | soft and hard limit between phases |
| trace store and exporter, `observability/` | events, export state | append, export, resolve | Langfuse | crash between upload and saved state |
| memory, `memory/` | records, status | capture, recall, search, invalidate, delete | orchestrator, tools, API | duplicates, scope, captures that fail half-way |
| evaluation, `evaluation/` | results so far | load, run, score, report | orchestrator | verdicts read off a record with retries and repairs |
| demo | none | probes and acceptance scripts | runtime | none |

What makes each part correct is in section 3; the hazards, each at its line and with the
properties aimed at it, are in `PROJECT.json`.

## 2. Modules

| module | models | refines / used by |
|---|---|---|
| `PlanRuntime` | one task from its plan to its result | `MCPlanRuntime`, `PlanRuntimeProofs` |
| `WorkerPool` | `TaskWorkerPool` with its threads, `submit`, `start` and `stop` | implements `BoundedPool` |
| `BoundedPool` | what the pool promises: bounded, first-in first-out, each task served once | used by `TaskLifecycle` as its pool |
| `TaskLifecycle` | POST, worker, reaper, crash and restart on the task records | implements `TaskRecord`; `TaskLifecycleProofs` |
| `TaskRecord` | what a poller of `GET /tasks/{id}` may rely on | |
| `ToolGate` | the decisions around one tool call: paths and keys, binding, refusal, classification, retry, pages | used by `ToolCall` |
| `ToolCall` | tasks staging inputs, calling tools in one workspace, bucket and output store, and delivering | `MCToolCall`, `ToolCallProofs`; an attempt is `StartToolCall` to its outcome in `PlanRuntime` |
| `SandboxCall` | the preflight and the code calls of a task: container, call directory, commit, sweeper | `MCSandboxCall`, `SandboxCallProofs`; one call is `StartToolCall` to its outcome in `PlanRuntime` |
| `TraceExport` | the recorded operations of a task and their export | implements `SpanDelivery`; proofs in `TaskLifecycleProofs` |
| `SpanDelivery` | what the export promises of each span: its saved receipt, what the service may have received, who may change it | |
| `LongTermMemory` | captures, recalls, searches and endpoints on the table of memories | `MCLongTermMemory`, `LongTermMemoryProofs`; a capture is the step `RunCapture` of `TaskLifecycle` |
| `Evaluation` | a suite: load, run, score, report | `MCEvaluation`, `EvaluationProofs` |
| `ContextLoop` | what one executor run sends to the model: history, summary, token budget, attempts | `MCContextLoop`, `ContextLoopProofs`; refines what `Raise` stands for in `PlanRuntime`, informally |

So the thread-level pool is checked once against `BoundedPool`, and the life cycle is
checked on top of `BoundedPool` instead of on threads.

**PlanRuntime.**  `phase` is where the worker thread is between two effects: planning,
before an attempt, waiting for the model, handling the calls of a turn, inside a tool,
validating.  `plan`, `log`, `replans`, `artifacts`, `status` are the record on disk
(`log` is `plan_events` folded to a status per step id, as `PlanRunState._apply` folds
it); `view` is the local `state` of `Executor.run`.  A plan is a version and a body: its
step ids, their dependencies and a text per step that stands for name, tool and
completion criteria (a replan may not change it for a complete step).  The model, the
tools and the planner are the environment: any number of calls in a turn, any outcome,
any body of `PlannerOutputs`, invalid ones included.  `Raise` is any exception of the
LLM client, the token budget, the context manager or the tool output store.  `Reap` is
the reaper failing the record under a run that does not notice.

**WorkerPool.**  What `workers.py` does under `self._lock` is one step; reads of the
stop event and operations of the queue are steps of their own.  `Threads` are all the
threads that may ever be created, so the restarts are bounded by their number.

**TaskLifecycle.**  Each operation of `TaskManager` is one step (it reads, changes and
writes the record under its lock); `run_task` is the sequence of the operations it makes
on the record, with the unlocked read of the status in its `except` as a step of its
own.  Time is abstracted to `stale`: nothing was written for longer than
`task_stale_after_seconds`.  A crash forgets the threads, the queue and the open
requests and keeps the records.

**SandboxCall.**  Each Docker command of `ContainerSupervisor.run` is one step, in which
the engine may have done its part although the command failed or the host timer fired
first; `at` says which command is next.  The contents of a file are named after the call
that wrote it.  The user's code may change `out/` at any moment at which the container is
up, after its exec has returned too.  A result is `raised` when an exception leaves
`run`: the executor then goes on, as it does after `error`, while `timeout` and
`uncertain` end the run.  The sweeper has its decision and its removal as two steps.  In
this repository it is composed by a demo and by tests, not by the application; its test
of activity is the status of the record, and it may run at any time.  Before the first
call comes the preflight: the container `Probe` is started, looked at, removed and asked
for, with a host timeout possible at each command; the application serves calls only
when every check passed.

**ToolGate and ToolCall.**  `ToolGate` holds what `PermissionManager`, `ToolRegistry`,
`RetryPolicy` and the pager decide; it has no state.  A path or a key is the sequence of
its names, and whether a spelling is refused is a field of the text.  In `ToolCall` the
tasks share `files` (the workspace), `objects` (the bucket) and `outputs` (the store of
offloaded outputs); the rest is per task.  Each task has one worker thread, and a step
ends where that thread has recorded what it did: one step per staged input, per attempt
of a call (the entry of the tool, its effect, the retry event), per settled call, and
one for the delivery.  A content is the task it came from and its size.  `Request` is
what a model may submit, names of other tasks included: their paths, keys and references
are in the sets of each instance, one set for each turn of the task; their number
bounds its calls.  `Refuse` and `Raise` are the attempts that change
nothing; `RunProgram`, `ReadText`, `Parse`, `Save` and `ReadOutput` are the tools.  A
program sees its mounted call directory and nothing else.  An upload that raises may
have stored its object.  `Confirmed` is the validator's check of one record: the object
is there, not empty, and of the recorded size, except that a record of 0 bytes is not
compared (`validator.py:71`).  So a task that saves an empty report and saves the key
again delivers both records, and `DeliveredIsStored` says what such a delivery may rely
on: own, stored, not empty, of the size of every record that tells one.
`AttemptsAreTold` includes that nothing follows an attempt of unknown effect.  `seen` is
a history variable: whose content the model of a task was shown.

**LongTermMemory.**  `rows` is the table, oldest first; a row's id is its place.  Each
process has its own lock around its writes, so `save` is two steps, the select and the
insert, between which another process may write; the unique index decides.  For a limit
of results, `Window` of it rows of a scope, of the types asked for, get a score and the
best of them are found: which ones is a choice.  A recall has the limit `TopK` and all
types; a search has what query, types and limit the model gives, up to `MaxResults`.  A
fact is what a content or an excerpt says; an excerpt is verbatim if it is a member of
what the user said or the successful steps showed.  `evidence` is that second set, in
which the output of `search_memory` counts like any other.  A crash loses the lock, the
open insert and the captures of its process.  In `CaptureIsAccounted` a duplicate is a row
of the scope that says what one of the task's candidates says (`Answers`).

**Evaluation.**  The task of a case is any record the runtime can leave behind, built up
by retries, failed calls, saves, replans, repairs and completed steps; `objects` and
`faulted` hold what really happened and the record does not say.  A save records the size
it sent, which may be 0, while the bucket may hold another size or nothing
(`SaveReport`); it may also fail with the object replaced (`SaveFails`).  `Validate`
checks the records of the attempt with the validator's `Confirmed`, any of which may fail
because the bucket does not answer.  `ReallyDelivered` is stated on the bucket, not with
`Confirmed`.  The scorer sees the
record only, and the properties compare its verdict with the truth.  Rates are whole
parts of `Scale`.

**TraceExport.**  `parent`, `open` and `log` are the event log of one trace, `receipts` and
`bound` are `langfuse.json`, `mem` is the copy `_export_trace` works on.  The worker
appends to the log while a pass is in progress; the pass sees the log of its beginning.
Each `_save` is a step and may fail; the request between two saves is a step whose
delivery and whose answer are independent where the code cannot tell.  A delay after 429
is a choice to skip the observation in this pass.  A stored payload of `Referenced` may
get lost (`Corrupt`); `Reads` says which ones a span needs, its own and the input of the
root, so a lost root input leaves no span that can be built.  `SpanDelivery` is the contract of a
receipt without the pass: only a saved intent sends, and once; a receipt says no more
than the answer; a crash or a failed save leaves the intent behind, which only becomes
uncertain; only the operator reopens what is settled.  Its request is `PendingRequest`,
which the thread's copy of the receipts tells.

**ContextLoop.**  `groups` is the message list behind the pinned messages, cut into
groups as `group_messages` cuts it: one closed turn is one group, so a call and its
results go together.  A group is its size in tokens and the result_refs in its text; a
summary is its size, its refs and the version of the plan it describes.  `at` names the
model call in progress by its phase (`plan`, `compact`, `execute`, `replan`) or the place
between two calls.  `prepare` is split at its own model calls: `Prepare` up to the
compaction request, then one action per response.  A trim is one step; the summary it
builds for each group it drops may have any size.  `total` is `budgeted_total_tokens`.
An estimate is the sum of the sizes, the same for every prompt with the same parts: the
calibration of the shared estimator is left out.  Context manager and budget are both
taken to be configured.  `given` is a history variable: the refs the model has been
given.

## 3. What is checked

| run | question | result |
|---|---|---|
| `plan` | does the plan stay consistent with what is done, whatever model, tools, planner and reaper do; are completed steps kept and delivered artifacts validated; does every run end? | holds |
| `plan_deliverable` | may a task report SUCCESS with a broken deliverable (`validator.py:1`)? | violated: a repair attempt without artifacts is accepted |
| `pool` | do the threads implement a bounded FIFO pool, is the count exact, is an accepted task served? | holds |
| `lifecycle` | do API, workers, reaper and crashes implement the state machine of a task, are refused tasks never run, are recovery events true, does every record converge? | holds |
| `lifecycle_abandoned` | does the reaper fail only tasks whose worker died (`app.py:107`)? | violated: also tasks waiting in the queue |
| `sandbox` | after any preflight: is what is committed what the container left, does a call start from committed files only, do failures leave the artifacts alone, does the run go on only after a removed container? | holds |
| `sandbox_unconfirmed` | does an unconfirmed removal end the task (`docs/design/14`, 3.8)? | violated: a host timeout of `rm` or `inspect` is an ordinary error |
| `export` | does a project get each span at most once per decision, in a bounded number of requests, to one project, when it is final; are receipts true; is every step one of `SpanDelivery`; does every receipt settle? | holds; a receipt settles as long as no payload that it or a span before it needs is lost |
| `context` | is every prompt to the main model within hard limit and budget, with every result_ref the model was given and the plan of now? | holds |
| `tools` | do tasks in one workspace, bucket and store keep to their own content; do retry events tell what was replayed; is every large output kept; does what was delivered stay? | holds |
| `memory` | is no text active twice however captures interleave; does every row have a source of its own task; do scopes stay apart; is a capture's report true; is a row ever rewritten? | holds |
| `evaluation` | is the verdict on artifacts and recovery what really happened; do the metrics agree with each other; is every case scored, failing ones too? | holds |

Every property of a passing run comes with a mutant of the code (`PROJECT.json`,
"mutants"; the mutated definitions are beside the originals, marked as mutants) under
which TLC finds it violated.

*Bounds.*  `plan`: three step ids, seven planner answers (chain, fork, shortened,
reordered, one that rewrites and one that drops a complete step, one with a cycle), two
attempts per tool, one replan, one repair, two turns of up to two calls.  Two turns of
two calls per attempt suffice for every pair of handlers in one turn and across turns, a
replan between any two of them, and all of it again in a repair attempt.  `pool`: three
tasks, three threads, one worker per generation, two places, so that tasks are refused,
the queue is full, and up to three generations of threads exist at once.  `lifecycle`:
two tasks, one place (one is refused while the other runs), one progress write, two
crashes.  `sandbox`: two calls, so that the second
is seeded with what the first has left, three file names with a limit of two, and one
preflight before them.
`export`: a root and a child, two projects, two attempts, one decision of the operator,
and two faults, so that a crash can follow a failed save or another crash; two payloads
are references and may get lost, the input of the root, which every span reads, and the
output of the child, which only its own reads.  `context`:
five turns, of which one stays out of compactions, so that a compaction replaces several
groups, fails, is retried without the oldest, is repeated after it has failed and after
it has succeeded, and the circuit opens at the second failure; summaries below the target
and as large as the hard limit; two refs, one replan, and a budget that two or three
responses use up.  It starts with nothing spent: a repair attempt, which begins with the
total of the first, is a run with a smaller budget.  `tools`: task "a" makes two calls
out of fifteen (each tool, an unknown and an invalid one, its own paths and those of "b"
in three spellings, its own key and one that names "b", references of both), and in
a third turn saves the book under a key it may have used; "b" saves the input it was given; outputs of size 0 and 3 around an inline limit of 2, pages of 1,
three attempts.  Two calls suffice for one call to use what another has written, parsed,
stored or saved, and the third saves again what two calls have written and saved, empty
ones among them; pairs over two tasks are what separation is about.  `memory`: two
processes, three tasks in two scopes, two facts, up to two candidates per capture, a
window of two rows of which a recall gets one and a search up to two, one crash.  Two captures in two processes
are the smallest race on the index, and the second candidate of the first is the one that
may fail after another was saved.  `evaluation`: suites of up to two cases, so that a case follows one that
left objects and retries behind, two events besides the validations, and one repair; one key with sizes 0, 1 and 2, so that a
record is empty, agrees, or disagrees; the
nearest rank of `Percentile95` is checked beside it for all lengths up to 40, and `AtRank`,
which picks a value by counting, against sorting (`RanksAreSorted`).
`MaxCalls`, `MaxWork`, `MaxCrashes`, `Threads`, `MaxResolves`, `MaxFaults`, the length of
`Requests`, `MaxEvents` and `MaxCandidates` are bounds of the model (the code allows five
candidates at most, the model any number); the other constants are limits of the code.

*Fairness.*  `PlanRuntime`: the worker thread keeps running; the code's calls to the
model, the tools and Docker have timeouts and its retry loops have limits.
`WorkerPool`: threads that exist are scheduled, a request that has entered `submit` goes
on, `stop` returns (its joins time out); nobody is obliged to submit, start or stop, and
`AcceptedIsServed` assumes in its statement that the pool is started again and again.
`TaskLifecycle`: time passes, the reaper thread is scheduled, a process that is down is
restarted; nothing is assumed of workers, so convergence does not depend on them.

`TraceExport` (`FairExportSpec`): the exporter goes on with its passes (its requests have a timeout), and an
observation that passes reach again and again is found due in one of them, since a delay
is at most five minutes.  An unreadable payload ends every pass at its observation, so
`EndedIsSettled` excludes the observations from there on, by the code's design or not; if
it is the input of the root, that is every observation, those that ended before the root
too (`langfuse_exporter.py:116-118`).
`SandboxCall`, `ContextLoop`, `ToolCall`, `LongTermMemory` and `Evaluation` have safety
properties only: what makes their runs end is the end of a worker thread, which
`PlanRuntime` covers, and what remains is an environment that nothing obliges to act.

Deadlock is checked in `tools`, where the only way to stop is that every task is done
(`Finished`).  It is not checked elsewhere: tasks, calls, observations and cases are
finite in number, so those models stop when everything is done.

*Divergences seen without a run.*  Reading the code against its comments and documents
showed more disagreements than the three runs above; they are small, or need no search to
be seen:

- `max_replans` limits an attempt, not a task: `executor.py:184` counts from zero in each
  repair attempt, while `executor.py:104` speaks of the task.
- When `stop` gives up on a busy thread and the pool is started again, more than
  `max_workers` handlers run at once (`workers.py:64`, against `workers.py:3`).
- The reaper fails a record although it was written after the snapshot it was judged by
  (`task_manager.py:322`, against `config.py:182`).
- `parse_document` on a file below `out/` or in a sub-directory cannot create its markdown
  (`document_tool.py:174`): only `out/` is writable and no directory is made.
- A deliverable is re-checked, says `validator.py:3-8`, so that its "byte count matches what
  was uploaded"; a record of 0 bytes is not compared (`validator.py:71`), so after the key
  was saved again an outdated record counts as confirmed and is part of the result.
- A missing file is reported as `PERMISSION_DENIED` (`one_shot_client.py:82`).
- The output of `search_memory` can be the evidence of a new memory (`memory/service.py:147`),
  so a memory can be confirmed by itself.
- After a rejected replan (`executor.py:661`) and between two requests of a compaction
  nobody looks at the budget, so that within the same turn the planner can be called
  again with the budget used up; `docs/design/13`, section 7, has it looked at after
  every response.  In `ContextLoop` this is seven states away, by two replans in one turn.

## 4. What is proved

Every safety property of a passing run is proved, and so is type correctness of every
component, so that no run checks it any more.

`PlanRuntimeProofs` proves the safety properties of run `plan` for all plans, tools
and limits, from `PlanAssumption` only, and with them three that no run needs any more:
a result of unknown effect ends the run, only tools that opted in are dispatched again,
and the replan counters agree with the version of the plan.  The argument has four layers:
`TypeInv` (types, and which phases have a plan, a view and calls left) is inductive; on top of it
`Structure` (the view is current, completion is closed under dependencies, the bound step
is eligible), whose parts need each other: closure is kept because the step judged
complete was eligible in a view that agrees with the record, and a replan keeps closure
because it preserves the steps that are complete in the record; then `Outcome` and
`Counted`, for the results and the replan budget.  `CompletedIsKept` and
`PlanFrozenAfterEnd` are step lemmas under these invariants.

`TaskLifecycleProofs` proves the refinement of `TaskRecord` (no invariant is needed: the
guards of the transitions are those of the record) and the safety properties of run
`lifecycle`.  Their strengthening `IInv` ties the place of a task in the pool to the
state of its request (`PoolFollowsApi`) and what a record says to where request, run and
reaper are (`RecordFollowsActors`).  Beside it `ProcessTyped` types time, progress and the process.

The same module proves the safety properties of run `export` for any observations,
projects and limits, since record and trace are what a crash leaves of a task.
`ExportInv` says, in layers: `TreeIsSound`, what the worker is in is open and what has
ended has no open child; `PassIsSound`, where the thread's copy of the receipts may
differ from the disk (only at the span whose outcome is not saved yet) and to which
project it sends; `AttemptsAreSound`, the attempts each status allows.  On top of these
`DeliveriesAreCounted` counts the copies by the decisions of the operator: one more only
where a request of the present decision may have been delivered, which `Undelivered`
excludes by receipt, phase and copy together.  `BudgetKept` does the same for the
requests: a retry decision sets the saved attempts back to zero, so that the bound is on
their sum over the decisions, and a span found too large has lost its count.
`ReceiptsAreTrue` follows an acceptance from the answer to the disk.  `DeliveryImplemented`
is the refinement of `SpanDelivery`: one lemma for each kind of step (`WrittenInPass`,
`IntentDelivery`, `RequestDelivery`, `OutcomeDelivery`), in which `PassIsSound` turns the
guards of the pass, which look at the copy, into guards on the saved receipt.

`WorkerPoolProofs` proves the safety of the pool and its refinement of `BoundedPool` for
any numbers of tasks, threads, workers and places.  `Typed` and `Holding` say which
worker thread holds a task; `Places` that a task is at one place and once in the queue;
`Counts`, on top of both, that the two counters are the cardinalities they stand for.
That the `queue.Full` branch is dead follows from the count, and the refinement needs it:
an undone reservation has no counterpart in `BoundedPool`.

`ContextLoopProofs` proves the property of run `context` for any limits, budgets and
sizes.  `RefsHeld` says where the refs the model was given are (summary, history, or the
turn not yet closed), `Anchored` that the summary is of the current plan from `Prepare`
to the main call, `Progress` that there is a plan, and `Checked` that limit and budget
hold at that call.  `RefsOfParts` (cutting a history in two loses no ref) carries
compaction and trim; `TrimSends` and `SendKeeps` reduce the four ways to a prompt to one
argument.

`SandboxCallProofs` proves the five properties of run `sandbox` for any calls, files and
limits.  `Placed` says who is running and how far the verdict is, `Halted` what has
stopped the task, `Gone` which containers are gone at each command (so that committed
and seeded files are those of settled calls), and `Written` what a commit in progress has
written and what it still has to.  `FailureLeavesArtifacts` rests on `Written`: until the
commit starts, the artifacts are those of the start of the call.

`ToolCallProofs` proves the four properties of run `tools` for any tasks, names, requests
and limits.  It starts from sequences: `Places` and `Apart` say that a path has one task
directory and a key one report prefix at most, although task ids are names like others.
`AttemptEffect` says once what any attempt can come to, so that no invariant has to look
at each tool.  `Placed` says where a task is and which step its call belongs to,
`Held` that the result in hand and the deliverables are the task's own, `PagesFit` that a
page fits inline (from `PageMax + Footer <= Inline`, the relation the settings check enforces), and `Told`
ties the retry events to the attempt in progress.  `Halted` says that after an attempt of
unknown effect the task has ended or is about to, by a result marked terminal: that is why
no event follows it.  Delivered objects stay because the task is done and no other task
has keys below its prefix.

`LongTermMemoryProofs` proves the five properties of run `memory` for any tasks, scopes,
processes and facts.  `Drafted` says that a candidate being saved was accepted; every
step then is a `Change` of the table, a row appended or one taken out of use
(`RowsStand`), and the invariants on rows are kept under a change.  That evidence only
grows is what keeps old rows sourced.

`EvaluationProofs` proves for any data set and any run of its tasks that every case is
scored and that the verdict is true.  `Scored` says that the results so far are those of
the first cases, in order, and `AsManyIds` that their ids stay distinct.  `Truthful` says
that the record shows a fault exactly if there was one, and that only a success delivers;
`Accepting` that the last check of a delivered key is one of the accepted attempt's, which
all passed (`LastOf`: a set of positions has a last one).

`NumbersAgree` is `MetricsAgree` for any number of cases, calls and durations.  `Marked`
says what the marks of one result say of each other (a case that passed has full marks,
full accuracy means the expected number of calls), `Graded` that all results are marked
so and that the report is drawn from them.  `AggregateAgrees` then is arithmetic: rates
are quotients (`RateOf`, `QuotientOrder`); the total of marks is at least `Scale` for each
case that passed, so no average is below the pass rate (`PartialSums`, `TotalOfMarks`;
`UpTo` turns the induction along the results into a least counterexample); and the 95th
percentile is the latency of a case, with 95 of 100 latencies at or below it
(`RankReached`, `NinetyFiveOfHundred`).

Only model-checked: liveness (`RunEnds`, `AcceptedIsServed`, `StoppedThreadsEnd`,
`Converges`, `EndedIsSettled`), which rests on fairness and `ENABLED` and is out of the
proof system's reach; and that `AtRank` is the value a sort would put there, which is an
assumption of `MCEvaluation` that TLC evaluates.

## 5. Not modelled, and the plan

Left out for good: prompts, wording and parsing of model answers; what a document
contains and how it is converted; the long-lived sandbox client (`sandbox/client.py`), a
thin HTTP client that `agent/wiring.py` does not construct; the construction of the objects
and the settings (their relations appear as assumptions about constants); the report, the
command line and the scripted fakes of the evaluation harness; the demos; failures of the
disk below the task store.

Two hazards have no property: the budget that is not looked at after a rejected replan
(the last divergence above; `PromptIsSafe` speaks of the main calls), and the token
estimator shared by all worker threads, whose calibration by another task between two
estimates is left out of `ContextLoop`.

What is left to do: these two.
