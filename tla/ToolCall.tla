------------------------------ MODULE ToolCall ------------------------------
(***************************************************************************)
(* Tasks calling their tools: staging of the inputs (sandbox/inputs.py),   *)
(* the attempts of one call and what they do to the workspace, the bucket  *)
(* and the store of outputs (agent/executor.py, tools/, storage/,          *)
(* context/), and the delivery that checks the artifacts                   *)
(* (agent/validator.py).                                                   *)
(*                                                                         *)
(* One worker thread runs a task, one call at a time; the tasks share the  *)
(* workspace, the bucket and the store.  A step of the model ends where    *)
(* the thread has recorded what it did.  A content is the task it came     *)
(* from and its size.                                                      *)
(***************************************************************************)
EXTENDS ToolGate, FiniteSets

CONSTANTS Inputs,     (* per task, the declared inputs: key, name and size   *)
          Requests,   (* per task, the calls its model may submit as its     *)
                      (* first, its second, ...: as many as bound its calls  *)
          Writes,     (* paths a program may write below out/                *)
          Sizes,      (* sizes of what a program prints and writes           *)
          Raised,     (* per tool, the chains of exceptions it may let out   *)
          Binary,     (* the names with one of BINARY_SUFFIXES               *)
          Supported,  (* the names with one of SUPPORTED_SUFFIXES            *)
          Markdown,   (* _markdown_name: stem of the name, suffix .md        *)
          Inline,     (* tool_output_inline_chars                            *)
          PageMax,    (* tool_output_read_max_chars                          *)
          Footer      (* size of what a page says about itself               *)

Input == [key : Text, name : Text, size : Nat]
Content == [task : Task, size : Nat]

\* What the model of t may submit at one turn or another.
Asked(t) == UNION {Requests[t][n] : n \in 1..Len(Requests[t])}

ASSUME ToolAssumption ==
    /\ Inputs \in [Task -> Seq(Input)]
    /\ Requests \in [Task -> Seq(SUBSET Request)]
    /\ \A t \in Task : \A r \in Asked(t) : r.valid /\ Known(r.tool) =>
          /\ Tool(r.tool).file => r.file \in Text
          /\ Tool(r.tool).key => r.key \in Text
    /\ Writes \subseteq Seq(Name) \ {<<>>} /\ Sizes \subseteq Nat
    /\ Markdown \in [Name -> Name \ {Up}]
    /\ Inline \in Nat /\ PageMax \in Nat /\ Footer \in Nat
    /\ PageMax + Footer <= Inline
    /\ None \notin Nat \cup Seq(Name) \cup Text \cup (Task \X Nat) \cup ErrorType

VARIABLES pc,         (* "stage", "idle", "run", "settle" or "done"          *)
          staged,     (* the staging records of the inputs                   *)
          call,       (* the call in hand                                    *)
          attempt,    (* attempts made at it                                 *)
          result,     (* what the last attempt returned                      *)
          steps,      (* the task's records of its calls                     *)
          events,     (* retry_events: one for each attempt                  *)
          denials,    (* security_events: the calls they are about           *)
          artifacts,  (* the deliverables the task claims                    *)
          seen,       (* the tasks whose content its model was shown         *)
          status,     (* of the task                                         *)
          files,      (* the workspace                                       *)
          objects,    (* the bucket                                          *)
          outputs     (* the store of offloaded outputs                      *)

record == <<steps, events, denials, artifacts, status>>
world == <<files, objects, outputs>>
vars == <<pc, staged, call, attempt, result, steps, events, denials, artifacts, seen,
          status, files, objects, outputs>>

Artifact == [key : Seq(Name), size : Nat]

\* ran: the tool's own code was entered; shown: the content its text carries.
Result == [ok : BOOLEAN, error : ErrorType \cup {None}, terminal : BOOLEAN, ran : BOOLEAN,
           shown : Content \cup {None}, artifact : Artifact \cup {None}]
NoResult == [ok |-> FALSE, error |-> None, terminal |-> FALSE, ran |-> FALSE,
             shown |-> None, artifact |-> None]
NoCall == [tool |-> "", valid |-> FALSE, file |-> None, key |-> None, ref |-> None]

Step == [tool : STRING, state : {"RUNNING", "SUCCESS", "FAILED"}, attempts : Nat,
         ref : Nat \cup {None}, shown : Content \cup {None}]
Event == [step : Nat, attempt : Nat, error : ErrorType \cup {None}, ran : BOOLEAN,
          reason : Reasons]

\* f with x mapped to y.
Put(f, x, y) == [z \in DOMAIN f \cup {x} |-> IF z = x THEN y ELSE f[z]]

\* write_bytes: below the workspace, and the file is replaced at once.
PutFile(path, content) == Under(Workspace, path) /\ files' = Put(files, path, content)

\* upload_file_content replaces what the bucket has under the key.
PutObject(key, content) == objects' = Put(objects, key, content)

\* ToolOutputStore.put: a reference of the task's own that was never given before.
PutOutput(t, content) == outputs' = Put(outputs, <<t, Len(steps[t])>>, content)

Init ==
    /\ pc = [t \in Task |-> IF Inputs[t] = <<>> THEN "idle" ELSE "stage"]
    /\ staged = [t \in Task |-> <<>>]
    /\ call = [t \in Task |-> NoCall]
    /\ attempt = [t \in Task |-> 0]
    /\ result = [t \in Task |-> NoResult]
    /\ steps = [t \in Task |-> <<>>]
    /\ events = [t \in Task |-> <<>>]
    /\ denials = [t \in Task |-> {}]
    /\ artifacts = [t \in Task |-> <<>>]
    /\ seen = [t \in Task |-> {}]
    /\ status = [t \in Task |-> "RUNNING"]
    /\ files = <<>> /\ objects = <<>> /\ outputs = <<>>

-----------------------------------------------------------------------------
(* Staging                                                                  *)

End(t, outcome) ==
    /\ pc' = [pc EXCEPT ![t] = "done"]
    /\ status' = [status EXCEPT ![t] = outcome]

\* stage copies the next declared input into the task's directory.
StageInput(t) ==
    LET n == Len(staged[t]) + 1
        in == Inputs[t][n]
        path == Target(TaskDirectory(t), in.name)
    IN  /\ pc[t] = "stage"
        /\ ObjectKey(InputPrefix, in.key) /\ WorkspacePath(TaskDirectory(t), in.name)
        /\ in.size > 0
        /\ PutFile(path, [task |-> t, size |-> in.size])
        /\ staged' = [staged EXCEPT ![t] = Append(@, [path |-> path, size |-> in.size])]
        /\ pc' = [pc EXCEPT ![t] = IF n = Len(Inputs[t]) THEN "idle" ELSE "stage"]
        /\ UNCHANGED <<call, attempt, result, record, seen, objects, outputs>>

\* A key outside the prefix, a name outside the directory, an empty object, or
\* storage and workspace failing: the task fails, what is staged stays.
StageFails(t) ==
    /\ pc[t] = "stage"
    /\ End(t, "FAILED")
    /\ UNCHANGED <<staged, call, attempt, result, steps, events, denials, artifacts, seen, world>>

-----------------------------------------------------------------------------
(* The attempts of a call                                                   *)

\* The model's call is bound to a plan step, recorded and started.
Submit(t) ==
    /\ pc[t] = "idle" /\ Len(steps[t]) < Len(Requests[t])
    /\ \E r \in Requests[t][Len(steps[t]) + 1] :
        /\ call' = [call EXCEPT ![t] = r]
        /\ steps' = [steps EXCEPT ![t] = Append(@,
               [tool |-> r.tool, state |-> "RUNNING", attempts |-> 0, ref |-> None, shown |-> None])]
    /\ pc' = [pc EXCEPT ![t] = "run"]
    /\ UNCHANGED <<staged, attempt, result, events, denials, artifacts, seen, status, world>>

Reason(t, n, res) ==
    IF res.ok THEN "success"
    ELSE Decide(n, res.error, RetrySafe(call[t].tool), res.terminal)

\* The end of each turn of the loop of _invoke_tool: decide, record, go on or
\* return.
Record(t, res) ==
    LET n == attempt[t] + 1
        reason == Reason(t, n, res)
    IN  /\ attempt' = [attempt EXCEPT ![t] = n]
        /\ result' = [result EXCEPT ![t] = res]
        /\ events' = [events EXCEPT ![t] = Append(@,
               [step |-> Len(steps[t]), attempt |-> n, error |-> res.error, ran |-> res.ran,
                reason |-> reason])]
        /\ steps' = [steps EXCEPT ![t][Len(steps[t])].attempts = n]
        /\ denials' = [denials EXCEPT ![t] = IF res.error = "PERMISSION_DENIED"
                                             THEN @ \cup {Len(steps[t])} ELSE @]
        /\ pc' = [pc EXCEPT ![t] = IF reason = "retry" THEN "run" ELSE "settle"]
        /\ UNCHANGED <<staged, call, artifacts, seen, status>>

Failure(error) == [NoResult EXCEPT !.error = error, !.ran = TRUE]
Success(content) == [NoResult EXCEPT !.ok = TRUE, !.ran = TRUE, !.shown = content]

\* The registry refuses: the tool is not entered.
Refuse(t) ==
    /\ pc[t] = "run" /\ Refusal(t, call[t]) # None
    /\ Record(t, [NoResult EXCEPT !.error = Refusal(t, call[t])])
    /\ UNCHANGED world

Enters(t, tool) == pc[t] = "run" /\ call[t].tool = tool.name /\ Refusal(t, call[t]) = None

\* An exception leaves the tool before it has changed anything.
Raise(t) ==
    /\ \E tool \in Registered : Enters(t, tool)
    /\ \E chain \in Raised[call[t].tool] : Record(t, Failure(Classify(chain)))
    /\ UNCHANGED world

\* A call runs in the directory of the task that its working directory, which the
\* registry has set, names; the client is told no task.
TaskIdFrom(cwd) == cwd[Len(Workspace) + 2]
CallDirectory(t) == TaskDirectory(TaskIdFrom(TaskDirectory(t)))

Out(t) == CallDirectory(t) \o <<"out">>
Last(path) == path[Len(path)]
Front(path) == SubSeq(path, 1, Len(path) - 1)
IsDirectory(path) == \E f \in DOMAIN files : Under(path, f)

\* What the sandbox can see: only the directory of the call is mounted.
Visible(t) == {t} \cup {files[f].task : f \in {g \in DOMAIN files : Under(CallDirectory(t), g)}}

\* A program that ran to its end and was committed may have written below out/.
Commit(t) ==
    \/ UNCHANGED files
    \/ \E path \in Writes, size \in Sizes, u \in Visible(t) :
          files' = Put(files, Out(t) \o path, [task |-> u, size |-> size])

\* A timeout, or a container or a commit left in an unknown state: the task is
\* to stop, and what a partial commit wrote stays.
Uncertain(t) ==
    \/ /\ Record(t, [Failure("TIMEOUT") EXCEPT !.terminal = TRUE])
       /\ UNCHANGED files
    \/ /\ Record(t, [Failure("EXECUTION") EXCEPT !.terminal = TRUE])
       /\ Commit(t)

\* The program failed or its commit was rejected: nothing is committed, and its
\* stderr is the error.
SandboxError(t) ==
    /\ \E size \in Sizes, u \in Visible(t) :
          Record(t, [Failure("EXECUTION") EXCEPT !.shown = [task |-> u, size |-> size]])
    /\ UNCHANGED files

RunProgram(t) ==
    /\ Enters(t, RunPython)
    /\ \/ /\ \E size \in Sizes, u \in Visible(t) : Record(t, Success([task |-> u, size |-> size]))
          /\ Commit(t)
       \/ SandboxError(t)
       \/ Uncertain(t)
    /\ UNCHANGED <<objects, outputs>>

\* What opening a path that is no file comes to: the client reports a missing
\* one as a denied permission.
NoFile(path) == IF IsDirectory(path) THEN "INVALID_ARGUMENT" ELSE "PERMISSION_DENIED"

ReadText(t) ==
    LET f == BoundFile(t, call[t])
    IN  /\ Enters(t, ReadFile)
        /\ \/ Last(f) \in Binary /\ Record(t, Failure("INVALID_ARGUMENT"))
           \/ /\ Last(f) \notin Binary /\ f \notin DOMAIN files
              /\ Record(t, Failure(NoFile(f)))
           \/ /\ Last(f) \notin Binary /\ f \in DOMAIN files
              /\ Record(t, Success(files[f]))
        /\ UNCHANGED world

\* Where the markdown of a document goes, and whether the script can create it:
\* only out/ is writable, and it makes no directory.
MarkdownPath(f) == Front(f) \o <<"out", Markdown[Last(f)]>>
CanCreate(t, path) == Under(Out(t), path) /\ (Front(path) = Out(t) \/ IsDirectory(Front(path)))

\* Refused: another suffix or no such file; a document that cannot be read, or no
\* place for its markdown.
Parse(t) ==
    LET f == BoundFile(t, call[t])
        md == MarkdownPath(f)
    IN  /\ Enters(t, ParseDocument)
        /\ \/ SandboxError(t)
           \/ Uncertain(t)
           \/ /\ Last(f) \notin Supported \/ f \notin DOMAIN files
              /\ Record(t, Failure("INVALID_ARGUMENT"))
              /\ UNCHANGED files
           \/ /\ Last(f) \in Supported /\ f \in DOMAIN files
              /\ Record(t, Failure("INVALID_ARGUMENT"))
              /\ UNCHANGED files
           \/ /\ Last(f) \in Supported /\ f \in DOMAIN files /\ CanCreate(t, md)
              /\ Record(t, Success(files[f]))
              /\ files' = Put(files, md, files[f])
        /\ UNCHANGED <<objects, outputs>>

\* The artifact is recorded only if the upload is confirmed and its URL signed;
\* an upload that fails may have stored the object.
Save(t) ==
    LET f == BoundFile(t, call[t])
        k == BoundKey(t, call[t])
    IN  /\ Enters(t, SaveReport)
        /\ \/ /\ f \notin DOMAIN files
              /\ Record(t, Failure(NoFile(f)))
              /\ UNCHANGED objects
           \/ /\ f \in DOMAIN files
              /\ PutObject(k, files[f])
              /\ \/ Record(t, [Success(None) EXCEPT !.artifact = [key |-> k, size |-> files[f].size]])
                 \/ \E chain \in Raised["save_report"] :
                       Record(t, Failure(Classify(chain)))
        /\ UNCHANGED <<files, outputs>>

\* A reference is looked up below the task it was given to.
Available(t, ref) == ref \in DOMAIN outputs /\ ref[1] = t

ReadOutput(t) ==
    LET ref == call[t].ref
    IN  /\ Enters(t, ReadToolOutput)
        /\ \/ ~Available(t, ref) /\ Record(t, Failure("PERMISSION_DENIED"))
           \/ /\ Available(t, ref)
              /\ \E offset \in 0..outputs[ref].size + Inline :
                    LET page == Page(outputs[ref].size, offset, PageMax)
                    IN  Record(t, Success([task |-> outputs[ref].task,
                                           size |-> page.to - page.from + Footer]))
        /\ UNCHANGED world

Attempt(t) ==
    Refuse(t) \/ Raise(t) \/ RunProgram(t) \/ ReadText(t) \/ Parse(t) \/ Save(t) \/ ReadOutput(t)

-----------------------------------------------------------------------------
(* The end of a call and of a task                                          *)

Size(res) == IF res.shown = None THEN 0 ELSE res.shown.size

Settled(t, ref) ==
    steps' = [steps EXCEPT ![t][Len(steps[t])] =
                 [@ EXCEPT !.state = IF result[t].ok THEN "SUCCESS" ELSE "FAILED",
                           !.ref = ref, !.shown = result[t].shown]]

Forget(t) ==
    /\ call' = [call EXCEPT ![t] = NoCall]
    /\ attempt' = [attempt EXCEPT ![t] = 0]
    /\ result' = [result EXCEPT ![t] = NoResult]

\* A terminal result stops the task before the model sees it.
Continue(t) ==
    /\ Forget(t)
    /\ artifacts' = IF result[t].ok /\ result[t].artifact # None
                    THEN [artifacts EXCEPT ![t] = Append(@, result[t].artifact)] ELSE artifacts
    /\ IF result[t].terminal
       THEN End(t, "FAILED") /\ UNCHANGED seen
       ELSE /\ pc' = [pc EXCEPT ![t] = "idle"]
            /\ seen' = [seen EXCEPT ![t] = @ \cup
                            (IF result[t].shown = None THEN {} ELSE {result[t].shown.task})]
            /\ UNCHANGED status

SettleInline(t) ==
    /\ pc[t] = "settle" /\ Size(result[t]) <= Inline
    /\ Settled(t, None) /\ Continue(t)
    /\ UNCHANGED <<staged, events, denials, world>>

\* Mutant: the step is settled with a reference nothing was stored under.
SettleUnstored(t) ==
    /\ pc[t] = "settle" /\ Size(result[t]) > Inline
    /\ Settled(t, Len(steps[t])) /\ Continue(t)
    /\ UNCHANGED <<staged, events, denials, world>>

\* A large output is stored under the task and only its reference, with a
\* preview, goes on.
SettleOffloaded(t) ==
    /\ pc[t] = "settle" /\ Size(result[t]) > Inline
    /\ PutOutput(t, result[t].shown)
    /\ Settled(t, Len(steps[t])) /\ Continue(t)
    /\ UNCHANGED <<staged, events, denials, files, objects>>

\* The output cannot be stored: the step fails and the run ends.
SettleFails(t) ==
    /\ pc[t] = "settle" /\ Size(result[t]) > Inline
    /\ steps' = [steps EXCEPT ![t][Len(steps[t])].state = "FAILED"]
    /\ Forget(t) /\ End(t, "FAILED")
    /\ UNCHANGED <<staged, events, denials, artifacts, seen, world>>

\* stat_object: the size of a stored object.
Stat(key) == IF key \in DOMAIN objects THEN objects[key].size ELSE None

\* validate: the object of the record is stored, not empty, and of the recorded
\* size; a record of no bytes is not compared.
Confirmed(a) ==
    /\ Stat(a.key) # None /\ Stat(a.key) > 0
    /\ a.size = 0 \/ Stat(a.key) = a.size

ArtifactsHold(t) == \A i \in 1..Len(artifacts[t]) : Confirmed(artifacts[t][i])

\* The final answer, accepted when the artifacts are confirmed.
Deliver(t) ==
    /\ pc[t] = "idle" /\ ArtifactsHold(t)
    /\ End(t, "SUCCESS")
    /\ UNCHANGED <<staged, call, attempt, result, steps, events, denials, artifacts, seen, world>>

\* The artifacts are rejected, or the run ends for any other reason.
GiveUp(t) ==
    /\ pc[t] = "idle"
    /\ End(t, "FAILED")
    /\ UNCHANGED <<staged, call, attempt, result, steps, events, denials, artifacts, seen, world>>

Settle(t) == SettleInline(t) \/ SettleOffloaded(t) \/ SettleFails(t)

Advance(t) == StageInput(t) \/ StageFails(t) \/ Submit(t) \/ Attempt(t) \/ Settle(t) \/ Deliver(t) \/ GiveUp(t)

Finished == (\A t \in Task : pc[t] = "done") /\ UNCHANGED vars

Next == (\E t \in Task : Advance(t)) \/ Finished

Spec == Init /\ [][Next]_vars

-----------------------------------------------------------------------------
(* Properties                                                               *)

\* Every variable has its type.
TypeOK ==
    /\ pc \in [Task -> {"stage", "idle", "run", "settle", "done"}]
    /\ staged \in [Task -> Seq([path : Seq(Name), size : Nat])]
    /\ call \in [Task -> Request \cup {NoCall}]
    /\ attempt \in [Task -> Nat]
    /\ result \in [Task -> Result]
    /\ steps \in [Task -> Seq(Step)]
    /\ events \in [Task -> Seq(Event)]
    /\ denials \in [Task -> SUBSET Nat]
    /\ artifacts \in [Task -> Seq(Artifact)]
    /\ seen \in [Task -> SUBSET Task]
    /\ status \in [Task -> {"RUNNING", "SUCCESS", "FAILED"}]
    /\ DOMAIN files \subseteq Seq(Name) /\ files \in [DOMAIN files -> Content]
    /\ DOMAIN objects \subseteq Seq(Name) /\ objects \in [DOMAIN objects -> Content]
    /\ DOMAIN outputs \subseteq Task \X Nat /\ outputs \in [DOMAIN outputs -> Content]

Report(t) == ReportPrefix \o <<t>>

\* Concurrent tasks share one workspace, one bucket and one store, and their
\* models name paths, keys and references freely; still a task's directory, its
\* report prefix, its stored outputs and what its model was shown hold content
\* of that task alone.
OwnContentOnly ==
    \A t \in Task :
        /\ seen[t] \subseteq {t}
        /\ \A f \in DOMAIN files : Under(TaskDirectory(t), f) => files[f].task = t
        /\ \A k \in DOMAIN objects : Under(Report(t), k) => objects[k].task = t
        /\ \A ref \in DOMAIN outputs : ref[1] = t => outputs[ref].task = t

\* The retry events tell what happened: a call's attempts are numbered from 1
\* without a gap and end at the bound, only a tool that opted in is entered
\* again, only after a passing fault, and a call the registry refused never.
\* Nothing follows an attempt that left its effect unknown: no other attempt, and
\* no other call of the task.
AttemptsAreTold ==
    \A t \in Task : \A i \in 1..Len(events[t]) :
        LET e == events[t][i]
        IN  /\ e.step \in 1..Len(steps[t]) /\ e.attempt <= MaxAttempts
            /\ IF i > 1 /\ events[t][i - 1].step = e.step
               THEN /\ e.attempt = events[t][i - 1].attempt + 1
                    /\ RetrySafe(steps[t][e.step].tool)
                    /\ events[t][i - 1].ran /\ events[t][i - 1].error \in Retryable
               ELSE e.attempt = 1
            /\ IF i < Len(events[t]) /\ events[t][i + 1].step = e.step THEN TRUE
               ELSE steps[t][e.step].attempts = e.attempt
            /\ e.reason = "execution_state_unknown" =>
                  i = Len(events[t]) /\ e.step = Len(steps[t])

\* A settled step keeps its output: inline if it is small, else under a
\* reference from which the task can read all of it.  A page is never itself
\* replaced by a reference.
OutputsAreKept ==
    \A t \in Task : \A n \in 1..Len(steps[t]) :
        LET step == steps[t][n]
        IN  /\ step.ref # None =>
                 /\ Available(t, <<t, n>>) /\ outputs[<<t, n>>] = step.shown
                 /\ step.tool # "read_tool_output"
            /\ step.ref = None /\ step.shown # None => step.shown.size <= Inline

\* What a successful task delivers is in the bucket, its own and not empty, of
\* the size its record tells (one of no bytes, written before the key was saved
\* again, tells none), and no later step of any task replaces it.
DeliveredIsStored ==
    \A t \in Task : status[t] = "SUCCESS" =>
        \A i \in 1..Len(artifacts[t]) :
            LET a == artifacts[t][i]
            IN  /\ a.key \in DOMAIN objects
                /\ objects[a.key].task = t /\ objects[a.key].size > 0
                /\ a.size > 0 => objects[a.key].size = a.size

=============================================================================
