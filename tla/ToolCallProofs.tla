--------------------------- MODULE ToolCallProofs ---------------------------
(* Proofs about ToolCall, for any tasks, names, inputs and requests.        *)
EXTENDS ToolCall, SequenceTheorems, TLAPS

-----------------------------------------------------------------------------
(* Paths                                                                    *)

LEMMA Places ==
    ASSUME NEW t \in Task
    PROVE  /\ TaskDirectory(t) \in Seq(Name) /\ Len(TaskDirectory(t)) = Len(Workspace) + 2
           /\ TaskDirectory(t)[Len(Workspace) + 2] = t
           /\ Report(t) \in Seq(Name) /\ Len(Report(t)) = Len(ReportPrefix) + 1
           /\ Report(t)[Len(ReportPrefix) + 1] = t
<1>1. t \in Name /\ "tasks" \in Name /\ Workspace \in Seq(Name) /\ ReportPrefix \in Seq(Name)
  BY GateAssumption
<1>2. <<"tasks", t>> \in Seq(Name) /\ <<t>> \in Seq(Name)
  BY <1>1
<1>. QED  BY <1>1, <1>2 DEF TaskDirectory, Report

\* No path is in two tasks' directories, no key below two tasks' prefixes.
LEMMA Apart ==
    ASSUME NEW t \in Task, NEW u \in Task, NEW p
    PROVE  /\ Under(TaskDirectory(t), p) /\ Under(TaskDirectory(u), p) => t = u
           /\ Under(Report(t), p) /\ Under(Report(u), p) => t = u
<1>1. Len(Workspace) \in Nat /\ Len(ReportPrefix) \in Nat
  BY GateAssumption
<1>2. Under(TaskDirectory(t), p) => p[Len(Workspace) + 2] = t
  BY <1>1, Places DEF Under
<1>3. Under(TaskDirectory(u), p) => p[Len(Workspace) + 2] = u
  BY <1>1, Places DEF Under
<1>4. Under(Report(t), p) => p[Len(ReportPrefix) + 1] = t
  BY <1>1, Places DEF Under
<1>5. Under(Report(u), p) => p[Len(ReportPrefix) + 1] = u
  BY <1>1, Places DEF Under
<1>. QED  BY <1>2, <1>3, <1>4, <1>5

\* The directory the client reads off the working directory is the task's.
LEMMA CallRunsAtHome == \A t \in Task : CallDirectory(t) = TaskDirectory(t)
BY Places DEF CallDirectory, TaskIdFrom

LEMMA Extended ==
    ASSUME NEW root \in Seq(Name), NEW rest \in Seq(Name) \ {<<>>}
    PROVE  Under(root, root \o rest) /\ root \o rest \in Seq(Name)
BY DEF Under

\* What a program writes stays in the task's directory.
LEMMA OutIsOwn ==
    ASSUME NEW t \in Task
    PROVE  /\ \A path \in Seq(Name) \ {<<>>} :
                 Under(TaskDirectory(t), Out(t) \o path) /\ Out(t) \o path \in Seq(Name)
           /\ \A p : Under(Out(t), p) => Under(TaskDirectory(t), p)
<1>1. <<"out">> \in Seq(Name) /\ TaskDirectory(t) \in Seq(Name)
  BY Places, GateAssumption
<1>2. Out(t) = TaskDirectory(t) \o <<"out">>
  BY CallRunsAtHome DEF Out
<1>3. Out(t) \in Seq(Name) /\ Len(Out(t)) = Len(TaskDirectory(t)) + 1
      /\ \A i \in 1..Len(TaskDirectory(t)) : Out(t)[i] = TaskDirectory(t)[i]
  BY <1>1, <1>2
<1>4. \A p : Under(Out(t), p) => Under(TaskDirectory(t), p)
  BY <1>1, <1>3 DEF Under
<1>5. \A path \in Seq(Name) \ {<<>>} : Under(Out(t), Out(t) \o path) /\ Out(t) \o path \in Seq(Name)
  BY <1>3, Extended
<1>. QED  BY <1>4, <1>5

LEMMA ToolIs == \A tool \in Registered : Known(tool.name) /\ Tool(tool.name) = tool
<1>1. /\ RunPython.name = "run_python" /\ ReadFile.name = "read_file"
      /\ ParseDocument.name = "parse_document" /\ SaveReport.name = "save_report"
      /\ ReadToolOutput.name = "read_tool_output" /\ SearchMemory.name = "search_memory"
  BY DEF RunPython, ReadFile, ParseDocument, SaveReport, ReadToolOutput, SearchMemory
<1>2. \A a, b \in Registered : a.name = b.name => a = b
  BY <1>1 DEF Registered
<1>. QED  BY <1>2 DEF Known, Tool

LEMMA AskedAreRequests ==
    ASSUME NEW t \in Task
    PROVE  Asked(t) \subseteq Request
<1>1. Requests[t] \in Seq(SUBSET Request)
  BY ToolAssumption
<1>. QED  BY <1>1 DEF Asked

\* What the registry lets through is bound to the task.
LEMMA Admitted ==
    ASSUME NEW t \in Task, NEW r \in Asked(t), Refusal(t, r) = None
    PROVE  /\ Known(r.tool) /\ r.valid
           /\ Tool(r.tool).file => Under(TaskDirectory(t), BoundFile(t, r)) /\ BoundFile(t, r) \in Seq(Name)
           /\ Tool(r.tool).key => Under(Report(t), BoundKey(t, r)) /\ BoundKey(t, r) \in Seq(Name)
<1>1. "INVALID_ARGUMENT" # None /\ "PERMISSION_DENIED" # None
  BY ToolAssumption DEF ErrorType
<1>2. Known(r.tool) /\ r.valid /\ Binds(t, r)
  BY <1>1 DEF Refusal
<1>3. /\ Tool(r.tool).file => r.file \in Text
      /\ Tool(r.tool).key => r.key \in Text
  BY <1>2, ToolAssumption
<1>4. ASSUME Tool(r.tool).file
      PROVE  Under(TaskDirectory(t), BoundFile(t, r)) /\ BoundFile(t, r) \in Seq(Name)
  <2>1. r.file.parts \in Seq(Name)
    BY <1>3, <1>4 DEF Text
  <2>2. BoundFile(t, r) \in Seq(Name)
    BY <2>1, Places DEF BoundFile, Target
  <2>. QED  BY <1>2, <1>4, <2>2 DEF Binds, WorkspacePath, BoundFile
<1>5. ASSUME Tool(r.tool).key
      PROVE  Under(Report(t), BoundKey(t, r)) /\ BoundKey(t, r) \in Seq(Name)
  <2>1. r.key.parts \in Seq(Name) /\ Len(ReportPrefix) < Len(r.key.parts) /\ ReportPrefix \in Seq(Name)
    BY <1>2, <1>3, <1>5, GateAssumption DEF Text, Binds, ObjectKey, Under
  <2> DEFINE rest == SubSeq(r.key.parts, Len(ReportPrefix) + 1, Len(r.key.parts))
  <2>2. rest \in Seq(Name) /\ rest # <<>>
    <3>1. /\ Len(ReportPrefix) \in Int /\ Len(ReportPrefix) + 1 \in Int /\ Len(r.key.parts) \in Int
          /\ Len(ReportPrefix) + 1 <= Len(r.key.parts)
          /\ \A i \in Len(ReportPrefix) + 1..Len(r.key.parts) : r.key.parts[i] \in Name
      BY <2>1
    <3>2. rest \in Seq(Name) /\ Len(rest) = Len(r.key.parts) - (Len(ReportPrefix) + 1) + 1
      BY <3>1, SubSeqProperties
    <3> HIDE DEF rest
    <3>3. Len(rest) # 0
      BY <3>1, <3>2
    <3>. QED  BY <3>2, <3>3
  <2>3. BoundKey(t, r) = Report(t) \o rest
    BY DEF BoundKey, TaskObjectKey, Report
  <2>. QED  BY <2>2, <2>3, Places, Extended
<1>. QED  BY <1>2, <1>4, <1>5

-----------------------------------------------------------------------------
(* The invariant                                                            *)

\* Where a task is, and the step its call belongs to.
Placed ==
    \A t \in Task :
        /\ pc[t] = "stage" => Len(staged[t]) < Len(Inputs[t])
        /\ pc[t] = "done" <=> status[t] # "RUNNING"
        /\ pc[t] \in {"run", "settle"} =>
              LET n == Len(steps[t])
              IN  /\ call[t] \in Asked(t) /\ n > 0
                  /\ steps[t][n].tool = call[t].tool
                  /\ steps[t][n].ref = None /\ steps[t][n].shown = None

\* What a call has in hand is the task's own, and so are its deliverables.
Held ==
    \A t \in Task :
        /\ result[t].shown # None => result[t].shown.task = t
        /\ result[t].artifact # None => Under(Report(t), result[t].artifact.key)
        /\ \A i \in 1..Len(artifacts[t]) : Under(Report(t), artifacts[t][i].key)

\* A page fits into the inline limit.
PagesFit ==
    \A t \in Task : pc[t] = "settle" /\ call[t].tool = "read_tool_output" /\ result[t].shown # None
                       => result[t].shown.size <= Inline

\* The events are in the order of the steps; the last ones are those of the
\* call in hand, and say how far it is.
Told ==
    \A t \in Task :
        LET n == Len(steps[t])
            m == Len(events[t])
        IN  /\ \A i \in 1..m : /\ events[t][i].step \in 1..n
                               /\ i < m => events[t][i].step <= events[t][i + 1].step
            /\ pc[t] = "run" => attempt[t] < MaxAttempts
            /\ pc[t] \in {"stage", "idle"} => attempt[t] = 0
            /\ pc[t] = "run" /\ attempt[t] = 0 => \A i \in 1..m : events[t][i].step < n
            /\ pc[t] = "run" /\ attempt[t] > 0 =>
                  LET last == events[t][m]
                  IN  /\ m > 0 /\ last.step = n /\ last.attempt = attempt[t]
                      /\ last.ran /\ last.error \in Retryable
                      /\ RetrySafe(call[t].tool)

\* An attempt that left its effect unknown is the last of its task, which is
\* about to stop or has stopped.
Halted ==
    \A t \in Task : \A i \in 1..Len(events[t]) :
        events[t][i].reason = "execution_state_unknown" =>
            /\ i = Len(events[t]) /\ events[t][i].step = Len(steps[t])
            /\ pc[t] = "done" \/ (pc[t] = "settle" /\ result[t].terminal)

IInv == /\ TypeOK /\ Placed /\ Held /\ PagesFit /\ Told /\ Halted
        /\ OwnContentOnly /\ AttemptsAreTold /\ OutputsAreKept /\ DeliveredIsStored

-----------------------------------------------------------------------------
(* What one attempt comes to                                                *)

Yields(t, res) ==
    /\ res \in Result
    /\ res.error \in Retryable => res.ran
    /\ res.shown # None => res.shown.task = t
    /\ res.artifact # None => Under(Report(t), res.artifact.key)
    /\ call[t].tool = "read_tool_output" /\ res.shown # None => res.shown.size <= Inline

Written(t) ==
    \/ UNCHANGED files
    \/ \E p \in Seq(Name), c \in Content :
          Under(TaskDirectory(t), p) /\ c.task = t /\ files' = Put(files, p, c)

Uploaded(t) ==
    \/ UNCHANGED objects
    \/ \E k \in Seq(Name), c \in Content :
          Under(Report(t), k) /\ c.task = t /\ objects' = Put(objects, k, c)

Effect(t) ==
    /\ pc[t] = "run"
    /\ \E res : Yields(t, res) /\ Record(t, res)
    /\ Written(t) /\ Uploaded(t) /\ UNCHANGED outputs

LEMMA Yielding ==
    ASSUME NEW t \in Task
    PROVE  /\ \A e \in ErrorType \cup {None} : Yields(t, Failure(e))
           /\ \A e \in ErrorType : Yields(t, [Failure(e) EXCEPT !.terminal = TRUE])
           /\ \A e \in ErrorType \ Retryable : Yields(t, [NoResult EXCEPT !.error = e])
           /\ \A c \in Content : c.task = t /\ (call[t].tool = "read_tool_output" => c.size <= Inline)
                 => Yields(t, Success(c)) /\ Yields(t, [Failure("EXECUTION") EXCEPT !.shown = c])
           /\ \A a \in Artifact : Under(Report(t), a.key)
                 => Yields(t, [Success(None) EXCEPT !.artifact = a])
<1>1. NoResult \in Result
  BY DEF NoResult, Result
<1>2. None \notin Retryable
  BY ToolAssumption DEF ErrorType, Retryable
<1>3. ASSUME NEW e \in ErrorType \cup {None}
      PROVE  Yields(t, Failure(e))
  BY <1>3 DEF Yields, Failure, NoResult, Result
<1>4. ASSUME NEW e \in ErrorType
      PROVE  Yields(t, [Failure(e) EXCEPT !.terminal = TRUE])
  BY <1>4 DEF Yields, Failure, NoResult, Result
<1>5. ASSUME NEW e \in ErrorType \ Retryable
      PROVE  Yields(t, [NoResult EXCEPT !.error = e])
  BY <1>5 DEF Yields, NoResult, Result
<1>6. ASSUME NEW c \in Content, c.task = t, call[t].tool = "read_tool_output" => c.size <= Inline
      PROVE  Yields(t, Success(c)) /\ Yields(t, [Failure("EXECUTION") EXCEPT !.shown = c])
  BY <1>2, <1>6 DEF Yields, Success, Failure, NoResult, Result, ErrorType, Retryable
<1>7. ASSUME NEW a \in Artifact, Under(Report(t), a.key)
      PROVE  Yields(t, [Success(None) EXCEPT !.artifact = a])
  BY <1>2, <1>7 DEF Yields, Success, NoResult, Result
<1>. QED  BY <1>3, <1>4, <1>5, <1>6, <1>7

\* A program sees the directory of its own task only.
LEMMA SeesOwn ==
    ASSUME OwnContentOnly, NEW t \in Task
    PROVE  Visible(t) = {t}
<1>1. CallDirectory(t) = TaskDirectory(t)
  BY CallRunsAtHome
<1>2. \A f \in DOMAIN files : Under(CallDirectory(t), f) => files[f].task = t
  BY <1>1 DEF OwnContentOnly
<1>. QED  BY <1>2 DEF Visible

LEMMA Committed ==
    ASSUME OwnContentOnly, NEW t \in Task, Commit(t)
    PROVE  Written(t)
<1>1. CASE UNCHANGED files
  BY <1>1 DEF Written
<1>2. ASSUME NEW path \in Writes, NEW size \in Sizes, NEW u \in Visible(t),
             files' = Put(files, Out(t) \o path, [task |-> u, size |-> size])
      PROVE  Written(t)
  <2>1. u = t
    BY SeesOwn
  <2>2. [task |-> u, size |-> size] \in Content
    BY <2>1, ToolAssumption DEF Content
  <2>3. Under(TaskDirectory(t), Out(t) \o path) /\ Out(t) \o path \in Seq(Name)
    BY OutIsOwn, ToolAssumption
  <2>. QED  BY <1>2, <2>1, <2>2, <2>3 DEF Written
<1>. QED  BY <1>1, <1>2 DEF Commit

LEMMA Erring ==
    ASSUME OwnContentOnly, NEW t \in Task, call[t].tool # "read_tool_output"
    PROVE  /\ SandboxError(t) => (\E res : Yields(t, res) /\ Record(t, res)) /\ UNCHANGED files
           /\ Uncertain(t) => (\E res : Yields(t, res) /\ Record(t, res)) /\ Written(t)
<1>1. ASSUME SandboxError(t)
      PROVE  (\E res : Yields(t, res) /\ Record(t, res)) /\ UNCHANGED files
  <2>1. PICK size \in Sizes, u \in {t} :
          Record(t, [Failure("EXECUTION") EXCEPT !.shown = [task |-> u, size |-> size]])
    BY <1>1, SeesOwn DEF SandboxError
  <2>2. [task |-> u, size |-> size] \in Content
    BY ToolAssumption DEF Content
  <2>3. Yields(t, [Failure("EXECUTION") EXCEPT !.shown = [task |-> u, size |-> size]])
    BY <2>2, Yielding
  <2>. QED  BY <1>1, <2>1, <2>3 DEF SandboxError
<1>2. ASSUME Uncertain(t)
      PROVE  (\E res : Yields(t, res) /\ Record(t, res)) /\ Written(t)
  <2>1. "TIMEOUT" \in ErrorType /\ "EXECUTION" \in ErrorType
    BY DEF ErrorType
  <2>2. /\ Yields(t, [Failure("TIMEOUT") EXCEPT !.terminal = TRUE])
        /\ Yields(t, [Failure("EXECUTION") EXCEPT !.terminal = TRUE])
    BY <2>1, Yielding
  <2>. QED  BY <1>2, <2>2, Committed DEF Uncertain, Written
<1>. QED  BY <1>1, <1>2

LEMMA Names ==
    /\ RunPython \in Registered /\ RunPython.name = "run_python"
    /\ ReadFile \in Registered /\ ReadFile.name = "read_file" /\ ReadFile.file
    /\ ParseDocument \in Registered /\ ParseDocument.name = "parse_document" /\ ParseDocument.file
    /\ SaveReport \in Registered /\ SaveReport.name = "save_report" /\ SaveReport.file /\ SaveReport.key
    /\ ReadToolOutput \in Registered /\ ReadToolOutput.name = "read_tool_output"
<1>1. RunPython.name = "run_python"
  BY DEF RunPython
<1>2. ReadFile.name = "read_file" /\ ReadFile.file
  BY DEF ReadFile
<1>3. ParseDocument.name = "parse_document" /\ ParseDocument.file
  BY DEF ParseDocument
<1>4. SaveReport.name = "save_report" /\ SaveReport.file /\ SaveReport.key
  BY DEF SaveReport
<1>5. ReadToolOutput.name = "read_tool_output"
  BY DEF ReadToolOutput
<1>. QED  BY <1>1, <1>2, <1>3, <1>4, <1>5 DEF Registered

\* A tool that is entered for a file or a key has it bound to its task.
LEMMA Entered ==
    ASSUME Placed, NEW t \in Task, NEW tool \in Registered, Enters(t, tool)
    PROVE  /\ tool.file => Under(TaskDirectory(t), BoundFile(t, call[t])) /\ BoundFile(t, call[t]) \in Seq(Name)
           /\ tool.key => Under(Report(t), BoundKey(t, call[t])) /\ BoundKey(t, call[t]) \in Seq(Name)
<1>1. call[t] \in Asked(t) /\ call[t].tool = tool.name /\ Refusal(t, call[t]) = None
  BY DEF Enters, Placed
<1>2. Tool(call[t].tool) = tool
  BY <1>1, ToolIs
<1>. QED  BY <1>1, <1>2, Admitted

LEMMA AttemptEffect ==
    ASSUME TypeOK, Placed, OwnContentOnly, NEW t \in Task, Attempt(t)
    PROVE  Effect(t)
<1>0. {"TIMEOUT", "EXECUTION", "PERMISSION_DENIED", "INVALID_ARGUMENT", "BUSINESS"} \subseteq ErrorType
      /\ {"PERMISSION_DENIED", "INVALID_ARGUMENT"} \cap Retryable = {}
  BY DEF ErrorType, Retryable
<1>1. \A e \in ErrorType \cup {None} : Yields(t, Failure(e))
  BY Yielding
<1>2. \A chain : Classify(chain) \in ErrorType \cup {None}
  BY DEF Classify, LinkType, ErrorType
<1>3. \A f \in DOMAIN files : Under(TaskDirectory(t), f) => files[f] \in Content /\ files[f].task = t
  BY DEF TypeOK, OwnContentOnly
<1>4. CASE Refuse(t)
  <2>1. Refusal(t, call[t]) \in {"PERMISSION_DENIED", "INVALID_ARGUMENT"}
    BY <1>4 DEF Refuse, Refusal
  <2>2. Yields(t, [NoResult EXCEPT !.error = Refusal(t, call[t])])
    BY <1>0, <2>1, Yielding
  <2>. QED  BY <1>4, <2>2 DEF Refuse, Effect, Written, Uploaded, world
<1>5. CASE Raise(t)
  BY <1>1, <1>2, <1>5 DEF Raise, Effect, Enters, Written, Uploaded, world
<1>6. CASE RunProgram(t)
  <2>1. call[t].tool # "read_tool_output" /\ pc[t] = "run"
    BY <1>6, Names DEF RunProgram, Enters
  <2>2. ASSUME NEW size \in Sizes, NEW u \in Visible(t), Record(t, Success([task |-> u, size |-> size]))
        PROVE  \E res : Yields(t, res) /\ Record(t, res)
    <3>1. u = t
      BY SeesOwn
    <3>2. [task |-> u, size |-> size] \in Content
      BY <3>1, ToolAssumption DEF Content
    <3>3. Yields(t, Success([task |-> u, size |-> size]))
      BY <2>1, <3>1, <3>2, Yielding
    <3>. QED  BY <2>2, <3>3
  <2>3. (\E res : Yields(t, res) /\ Record(t, res)) /\ Written(t)
    BY <1>6, <2>1, <2>2, Erring, Committed DEF RunProgram, Written
  <2>. QED  BY <1>6, <2>1, <2>3 DEF RunProgram, Effect, Uploaded
<1>7. CASE ReadText(t)
  <2> DEFINE f == BoundFile(t, call[t])
  <2>1. call[t].tool = "read_file" /\ pc[t] = "run" /\ Under(TaskDirectory(t), f)
    BY <1>7, Names, Entered DEF ReadText, Enters
  <2>2. NoFile(f) \in ErrorType
    BY <1>0 DEF NoFile
  <2>3. f \in DOMAIN files => Yields(t, Success(files[f]))
    BY <1>3, <2>1, Yielding
  <2>. QED  BY <1>0, <1>1, <1>7, <2>1, <2>2, <2>3 DEF ReadText, Effect, Written, Uploaded, world
<1>8. CASE Parse(t)
  <2> DEFINE f == BoundFile(t, call[t])
             md == MarkdownPath(f)
  <2>1. call[t].tool = "parse_document" /\ pc[t] = "run" /\ Under(TaskDirectory(t), f) /\ f \in Seq(Name)
    BY <1>8, Names, Entered DEF Parse, Enters
  <2>2. f \in DOMAIN files => Yields(t, Success(files[f]))
    BY <1>3, <2>1, Yielding
  <2>3. md \in Seq(Name)
    <3>1. Len(f) > 0
      BY <2>1, Places, GateAssumption DEF Under
    <3>2. Last(f) \in Name /\ Front(f) \in Seq(Name)
      BY <2>1, <3>1 DEF Last, Front
    <3>3. <<"out", Markdown[Last(f)]>> \in Seq(Name)
      BY <3>2, ToolAssumption, GateAssumption
    <3>. QED  BY <3>2, <3>3 DEF MarkdownPath
  <2>4. CanCreate(t, md) => Under(TaskDirectory(t), md)
    BY OutIsOwn DEF CanCreate
  <2>5. CASE SandboxError(t) \/ Uncertain(t)
    BY <1>8, <2>1, <2>5, Erring DEF Parse, Effect, Uploaded, Written
  <2>6. CASE Record(t, Failure("INVALID_ARGUMENT")) /\ UNCHANGED files
    BY <1>0, <1>1, <1>8, <2>1, <2>6 DEF Parse, Effect, Uploaded, Written
  <2>7. CASE /\ f \in DOMAIN files /\ CanCreate(t, md)
             /\ Record(t, Success(files[f])) /\ files' = Put(files, md, files[f])
    <3>1. Written(t)
      BY <1>3, <2>1, <2>3, <2>4, <2>7 DEF Written
    <3>. QED  BY <1>8, <2>1, <2>2, <2>7, <3>1 DEF Parse, Effect, Uploaded
  <2>. QED  BY <1>8, <2>5, <2>6, <2>7 DEF Parse
<1>9. CASE Save(t)
  <2> DEFINE f == BoundFile(t, call[t])
             k == BoundKey(t, call[t])
  <2>1. /\ pc[t] = "run" /\ Under(TaskDirectory(t), f)
        /\ Under(Report(t), k) /\ k \in Seq(Name)
    BY <1>9, Names, Entered DEF Save, Enters
  <2>2. CASE Record(t, Failure(NoFile(f))) /\ UNCHANGED objects
    <3>1. NoFile(f) \in ErrorType
      BY <1>0 DEF NoFile
    <3>. QED  BY <1>1, <1>9, <2>1, <2>2, <3>1 DEF Save, Effect, Written, Uploaded
  <2>3. CASE /\ f \in DOMAIN files /\ PutObject(k, files[f])
             /\ \/ Record(t, [Success(None) EXCEPT !.artifact = [key |-> k, size |-> files[f].size]])
                \/ \E chain \in Raised["save_report"] : Record(t, Failure(Classify(chain)))
    <3>1. files[f] \in Content /\ files[f].task = t
      BY <1>3, <2>1, <2>3
    <3>2. Uploaded(t)
      BY <2>1, <2>3, <3>1 DEF PutObject, Uploaded
    <3>3. [key |-> k, size |-> files[f].size] \in Artifact
      BY <2>1, <3>1 DEF Artifact, Content
    <3>4. Yields(t, [Success(None) EXCEPT !.artifact = [key |-> k, size |-> files[f].size]])
      BY <2>1, <3>3, Yielding
    <3>5. \E res : Yields(t, res) /\ Record(t, res)
      BY <1>1, <1>2, <2>3, <3>4
    <3>. QED  BY <1>9, <2>1, <3>2, <3>5 DEF Save, Effect, Written
  <2>. QED  BY <1>9, <2>2, <2>3 DEF Save
<1>10. CASE ReadOutput(t)
  <2> DEFINE ref == call[t].ref
  <2>1. call[t].tool = "read_tool_output" /\ pc[t] = "run"
    BY <1>10, Names DEF ReadOutput, Enters
  <2>2. CASE Record(t, Failure("PERMISSION_DENIED"))
    BY <1>0, <1>1, <1>10, <2>1, <2>2 DEF ReadOutput, Effect, Written, Uploaded, world
  <2>3. ASSUME NEW offset \in 0..outputs[ref].size + Inline, Available(t, ref)
        PROVE  LET page == Page(outputs[ref].size, offset, PageMax)
               IN  Yields(t, Success([task |-> outputs[ref].task, size |-> page.to - page.from + Footer]))
    <3> DEFINE page == Page(outputs[ref].size, offset, PageMax)
               c == [task |-> outputs[ref].task, size |-> page.to - page.from + Footer]
    <3>1. outputs[ref] \in Content /\ outputs[ref].task = t
      BY <2>3 DEF Available, TypeOK, OwnContentOnly
    <3>2. outputs[ref].size \in Nat /\ PageMax \in Nat /\ Footer \in Nat /\ Inline \in Nat
          /\ PageMax + Footer <= Inline
      BY <3>1, ToolAssumption DEF Content
    <3>3. page.to - page.from \in Nat /\ page.to - page.from <= PageMax
      BY <3>2 DEF Page
    <3>4. c \in Content /\ c.task = t /\ c.size <= Inline
      BY <3>1, <3>2, <3>3 DEF Content
    <3> HIDE DEF c
    <3>5. Yields(t, Success(c))
      BY <3>4, Yielding
    <3>. QED  BY <3>5 DEF c
  <2>4. \E res : Yields(t, res) /\ Record(t, res)
    BY <1>0, <1>1, <1>10, <2>3 DEF ReadOutput
  <2>. QED  BY <1>10, <2>1, <2>4 DEF ReadOutput, Effect, Written, Uploaded, world
<1>. QED  BY <1>4, <1>5, <1>6, <1>7, <1>8, <1>9, <1>10 DEF Attempt

-----------------------------------------------------------------------------
(* The records a step changes                                               *)

LEMMA Putting ==
    ASSUME NEW S, NEW T, NEW f, DOMAIN f \subseteq S, f \in [DOMAIN f -> T], NEW x \in S, NEW y \in T
    PROVE  LET g == Put(f, x, y)
           IN  /\ DOMAIN g = DOMAIN f \cup {x} /\ DOMAIN g \subseteq S /\ g \in [DOMAIN g -> T]
               /\ g[x] = y /\ \A z \in DOMAIN f \ {x} : g[z] = f[z]
BY DEF Put

\* The record of the call in hand is rewritten in place.
LEMMA Rewriting ==
    ASSUME TypeOK, NEW t \in Task, Len(steps[t]) > 0, NEW e \in Step,
           steps' = [steps EXCEPT ![t] = [@ EXCEPT ![Len(steps[t])] = e]]
    PROVE  /\ steps' \in [Task -> Seq(Step)] /\ Len(steps'[t]) = Len(steps[t])
           /\ \A u \in Task \ {t} : steps'[u] = steps[u]
           /\ \A i \in 1..Len(steps[t]) : steps'[t][i] = IF i = Len(steps[t]) THEN e ELSE steps[t][i]
<1>1. steps \in [Task -> Seq(Step)]
  BY DEF TypeOK
<1>2. steps[t] \in Seq(Step) /\ Len(steps[t]) \in 1..Len(steps[t])
  BY <1>1
<1>3. LET s == [steps[t] EXCEPT ![Len(steps[t])] = e]
      IN  /\ s \in Seq(Step) /\ Len(s) = Len(steps[t])
          /\ \A i \in 1..Len(steps[t]) : s[i] = IF i = Len(steps[t]) THEN e ELSE steps[t][i]
  BY <1>2, ExceptSeq
<1>. QED  BY <1>1, <1>3

LEMMA Recorded ==
    ASSUME TypeOK, Placed, NEW t \in Task, pc[t] = "run", NEW res \in Result, Record(t, res)
    PROVE  LET n == Len(steps[t])
               k == attempt[t] + 1
           IN  /\ attempt' \in [Task -> Nat] /\ attempt'[t] = k
               /\ result' \in [Task -> Result] /\ result'[t] = res
               /\ \E why \in Reasons :
                     /\ events'[t] = Append(events[t],
                           [step |-> n, attempt |-> k, error |-> res.error, ran |-> res.ran, reason |-> why])
                     /\ why = "execution_state_unknown" => res.terminal /\ pc'[t] = "settle"
               /\ events' \in [Task -> Seq(Event)]
               /\ steps' \in [Task -> Seq(Step)] /\ Len(steps'[t]) = n
               /\ \A i \in 1..n \ {n} : steps'[t][i] = steps[t][i]
               /\ steps'[t][n] = [steps[t][n] EXCEPT !.attempts = k]
               /\ denials' \in [Task -> SUBSET Nat]
               /\ pc' \in [Task -> {"stage", "idle", "run", "settle", "done"}]
               /\ pc'[t] \in {"run", "settle"}
               /\ pc'[t] = "run" => /\ res.error \in Retryable /\ RetrySafe(call[t].tool)
                                    /\ k < MaxAttempts
               /\ \A u \in Task \ {t} : /\ attempt'[u] = attempt[u] /\ result'[u] = result[u]
                                        /\ events'[u] = events[u] /\ steps'[u] = steps[u]
                                        /\ pc'[u] = pc[u]
<1> DEFINE n == Len(steps[t])
           k == attempt[t] + 1
           why == Reason(t, k, res)
           e == [step |-> n, attempt |-> k, error |-> res.error, ran |-> res.ran, reason |-> why]
<1>1. attempt \in [Task -> Nat] /\ k \in Nat /\ attempt' = [attempt EXCEPT ![t] = k]
  BY DEF TypeOK, Record
<1>2. result \in [Task -> Result] /\ result' = [result EXCEPT ![t] = res]
  BY DEF TypeOK, Record
<1>3. why \in Reasons
  BY DEF Reason, Reasons, Decide
<1>4. n \in Nat /\ n > 0 /\ steps \in [Task -> Seq(Step)] /\ steps[t][n] \in Step
  BY DEF TypeOK, Placed
<1>5. e \in Event
  BY <1>1, <1>3, <1>4 DEF Event, Result
<1>6. events \in [Task -> Seq(Event)] /\ events' = [events EXCEPT ![t] = Append(@, e)]
  BY DEF TypeOK, Record
<1>7. events' \in [Task -> Seq(Event)] /\ events'[t] = Append(events[t], e)
      /\ \A u \in Task \ {t} : events'[u] = events[u]
  <2> HIDE DEF e
  <2>. QED  BY <1>5, <1>6
<1>8. [steps[t][n] EXCEPT !.attempts = k] \in Step
  BY <1>1, <1>4 DEF Step
<1>9. steps' = [steps EXCEPT ![t] = [@ EXCEPT ![n] = [steps[t][n] EXCEPT !.attempts = k]]]
  BY <1>4 DEF Record
<1>10. /\ steps' \in [Task -> Seq(Step)] /\ Len(steps'[t]) = n
       /\ \A u \in Task \ {t} : steps'[u] = steps[u]
       /\ \A i \in 1..n : steps'[t][i] = IF i = n THEN [steps[t][n] EXCEPT !.attempts = k] ELSE steps[t][i]
  BY <1>4, <1>8, <1>9, Rewriting
<1>11. denials' \in [Task -> SUBSET Nat]
  BY <1>4 DEF Record, TypeOK
<1>12. /\ pc \in [Task -> {"stage", "idle", "run", "settle", "done"}]
       /\ pc' = [pc EXCEPT ![t] = IF why = "retry" THEN "run" ELSE "settle"]
  BY DEF Record, TypeOK
<1>13. why = "retry" => res.error \in Retryable /\ RetrySafe(call[t].tool) /\ k < MaxAttempts
  BY <1>1, GateAssumption DEF Reason, Decide
<1>14. \E w \in Reasons :
          /\ events'[t] = Append(events[t],
                [step |-> n, attempt |-> k, error |-> res.error, ran |-> res.ran, reason |-> w])
          /\ w = "execution_state_unknown" => res.terminal /\ pc'[t] = "settle"
  <2>1. why = "execution_state_unknown" => res.terminal
    BY DEF Reason, Decide
  <2>2. why = "execution_state_unknown" => pc'[t] = "settle"
    <3> HIDE DEF why
    <3>. QED  BY <1>12
  <2>. QED  BY <1>3, <1>7, <2>1, <2>2
<1> HIDE DEF why, e
<1>15. /\ attempt'[t] = k /\ \A u \in Task \ {t} : attempt'[u] = attempt[u]
       /\ result' \in [Task -> Result] /\ result'[t] = res /\ \A u \in Task \ {t} : result'[u] = result[u]
       /\ attempt' \in [Task -> Nat]
  BY <1>1, <1>2
<1>16. /\ pc' \in [Task -> {"stage", "idle", "run", "settle", "done"}]
       /\ pc'[t] \in {"run", "settle"} /\ \A u \in Task \ {t} : pc'[u] = pc[u]
       /\ pc'[t] = "run" => why = "retry"
  BY <1>12
<1>17. steps'[t][n] = [steps[t][n] EXCEPT !.attempts = k] /\ \A i \in 1..n \ {n} : steps'[t][i] = steps[t][i]
  <2>1. n \in 1..n
    BY <1>4
  <2> HIDE DEF n, k
  <2>. QED  BY <1>10, <2>1
<1>. QED
  BY <1>7, <1>10, <1>11, <1>13, <1>14, <1>15, <1>16, <1>17

\* The end of a call: its step is closed, the task goes on or stops.
LEMMA Closing ==
    ASSUME TypeOK, Placed, NEW t \in Task, pc[t] = "settle", NEW ref \in Nat \cup {None},
           Settled(t, ref), Continue(t)
    PROVE  LET n == Len(steps[t])
           IN  /\ steps' \in [Task -> Seq(Step)] /\ Len(steps'[t]) = n
               /\ \A i \in 1..n \ {n} : steps'[t][i] = steps[t][i]
               /\ steps'[t][n].tool = steps[t][n].tool /\ steps'[t][n].attempts = steps[t][n].attempts
               /\ steps'[t][n].ref = ref /\ steps'[t][n].shown = result[t].shown
               /\ \A u \in Task \ {t} : steps'[u] = steps[u]
<1> DEFINE n == Len(steps[t])
           e == [steps[t][n] EXCEPT !.state = IF result[t].ok THEN "SUCCESS" ELSE "FAILED",
                                    !.ref = ref, !.shown = result[t].shown]
<1>1. n \in Nat /\ n > 0 /\ steps \in [Task -> Seq(Step)] /\ steps[t][n] \in Step
  BY DEF TypeOK, Placed
<1>2. result[t].shown \in Content \cup {None}
  BY DEF TypeOK, Result
<1>3. /\ e \in Step /\ e.tool = steps[t][n].tool /\ e.attempts = steps[t][n].attempts
      /\ e.ref = ref /\ e.shown = result[t].shown
  BY <1>1, <1>2 DEF Step
<1>4. steps' = [steps EXCEPT ![t] = [@ EXCEPT ![n] = e]]
  BY <1>1 DEF Settled
<1> HIDE DEF e
<1>5. /\ steps' \in [Task -> Seq(Step)] /\ Len(steps'[t]) = n
      /\ \A u \in Task \ {t} : steps'[u] = steps[u]
      /\ \A i \in 1..n : steps'[t][i] = IF i = n THEN e ELSE steps[t][i]
  BY <1>1, <1>3, <1>4, Rewriting
<1>6. n \in 1..n
  BY <1>1
<1> HIDE DEF n
<1>7. steps'[t][n] = e /\ \A i \in 1..n \ {n} : steps'[t][i] = steps[t][i]
  BY <1>5, <1>6
<1>. QED  BY <1>3, <1>5, <1>7 DEF n

LEMMA Continuing ==
    ASSUME TypeOK, NEW t \in Task, Continue(t)
    PROVE  /\ call' \in [Task -> Request \cup {NoCall}] /\ attempt' \in [Task -> Nat]
           /\ result' \in [Task -> Result] /\ artifacts' \in [Task -> Seq(Artifact)]
           /\ seen' \in [Task -> SUBSET Task]
           /\ pc' \in [Task -> {"stage", "idle", "run", "settle", "done"}]
           /\ status' \in [Task -> {"RUNNING", "SUCCESS", "FAILED"}]
           /\ attempt'[t] = 0 /\ result'[t] = NoResult
           /\ \/ pc'[t] = "idle" /\ status'[t] = status[t]
              \/ pc'[t] = "done" /\ status'[t] = "FAILED"
           /\ \/ artifacts'[t] = artifacts[t]
              \/ result[t].artifact # None /\ artifacts'[t] = Append(artifacts[t], result[t].artifact)
           /\ seen'[t] \subseteq seen[t] \cup (IF result[t].shown = None THEN {} ELSE {result[t].shown.task})
           /\ \A u \in Task \ {t} :
                 /\ call'[u] = call[u] /\ attempt'[u] = attempt[u] /\ result'[u] = result[u]
                 /\ artifacts'[u] = artifacts[u] /\ seen'[u] = seen[u]
                 /\ pc'[u] = pc[u] /\ status'[u] = status[u]
<1>1. result[t] \in Result /\ result[t].artifact \in Artifact \cup {None}
      /\ result[t].shown \in Content \cup {None}
  BY DEF TypeOK, Result
<1>2. NoResult \in Result
  BY DEF NoResult, Result
<1>3. /\ call' \in [Task -> Request \cup {NoCall}] /\ attempt' \in [Task -> Nat] /\ result' \in [Task -> Result]
      /\ attempt'[t] = 0 /\ result'[t] = NoResult
      /\ \A u \in Task \ {t} : call'[u] = call[u] /\ attempt'[u] = attempt[u] /\ result'[u] = result[u]
  BY <1>2 DEF Continue, Forget, TypeOK
<1>4. /\ artifacts' \in [Task -> Seq(Artifact)] /\ \A u \in Task \ {t} : artifacts'[u] = artifacts[u]
      /\ \/ artifacts'[t] = artifacts[t]
         \/ result[t].artifact # None /\ artifacts'[t] = Append(artifacts[t], result[t].artifact)
  <2>1. artifacts \in [Task -> Seq(Artifact)]
    BY DEF TypeOK
  <2>2. CASE UNCHANGED artifacts
    BY <2>1, <2>2
  <2>3. CASE result[t].artifact # None /\ artifacts' = [artifacts EXCEPT ![t] = Append(@, result[t].artifact)]
    BY <1>1, <2>1, <2>3
  <2>. QED  BY <2>2, <2>3 DEF Continue
<1> DEFINE new == IF result[t].shown = None THEN {} ELSE {result[t].shown.task}
<1>5. new \subseteq Task
  BY <1>1 DEF Content
<1>6. /\ seen' \in [Task -> SUBSET Task]
      /\ seen'[t] \subseteq seen[t] \cup new /\ \A u \in Task \ {t} : seen'[u] = seen[u]
  <2>1. UNCHANGED seen \/ seen' = [seen EXCEPT ![t] = @ \cup new]
    BY DEF Continue
  <2>2. seen \in [Task -> SUBSET Task]
    BY DEF TypeOK
  <2> HIDE DEF new
  <2>3. CASE UNCHANGED seen
    BY <2>2, <2>3
  <2>4. CASE seen' = [seen EXCEPT ![t] = @ \cup new]
    BY <1>5, <2>2, <2>4
  <2>. QED  BY <2>1, <2>3, <2>4
<1>7. /\ pc' \in [Task -> {"stage", "idle", "run", "settle", "done"}]
      /\ status' \in [Task -> {"RUNNING", "SUCCESS", "FAILED"}]
      /\ \/ pc'[t] = "idle" /\ status'[t] = status[t]
         \/ pc'[t] = "done" /\ status'[t] = "FAILED"
      /\ \A u \in Task \ {t} : pc'[u] = pc[u] /\ status'[u] = status[u]
  <2>1. \/ pc' = [pc EXCEPT ![t] = "done"] /\ status' = [status EXCEPT ![t] = "FAILED"]
        \/ pc' = [pc EXCEPT ![t] = "idle"] /\ UNCHANGED status
    BY DEF Continue, End
  <2>2. /\ pc \in [Task -> {"stage", "idle", "run", "settle", "done"}]
        /\ status \in [Task -> {"RUNNING", "SUCCESS", "FAILED"}]
    BY DEF TypeOK
  <2>3. CASE pc' = [pc EXCEPT ![t] = "done"] /\ status' = [status EXCEPT ![t] = "FAILED"]
    BY <2>2, <2>3
  <2>4. CASE pc' = [pc EXCEPT ![t] = "idle"] /\ UNCHANGED status
    BY <2>2, <2>4
  <2>. QED  BY <2>1, <2>3, <2>4
<1>. QED  BY <1>3, <1>4, <1>6, <1>7

-----------------------------------------------------------------------------
(* Types, and where a task is                                               *)

\* The actions other than an attempt and the regular end of a call.
LEMMA Staging ==
    ASSUME TypeOK, Placed, NEW t \in Task, StageInput(t)
    PROVE  /\ \E path \in Seq(Name), c \in Content :
                 Under(TaskDirectory(t), path) /\ c.task = t /\ files' = Put(files, path, c)
           /\ staged' \in [Task -> Seq([path : Seq(Name), size : Nat])]
           /\ Len(staged'[t]) = Len(staged[t]) + 1 /\ \A u \in Task \ {t} : staged'[u] = staged[u]
<1> DEFINE n == Len(staged[t]) + 1
           in == Inputs[t][n]
           path == Target(TaskDirectory(t), in.name)
           c == [task |-> t, size |-> in.size]
           item == [path |-> path, size |-> in.size]
<1>1. staged \in [Task -> Seq([path : Seq(Name), size : Nat])] /\ Inputs[t] \in Seq(Input)
  BY ToolAssumption DEF TypeOK
<1>2. n \in 1..Len(Inputs[t])
  BY <1>1 DEF StageInput, Placed
<1>3. in \in Input
  BY <1>1, <1>2
<1>4. in.size \in Nat /\ in.name.parts \in Seq(Name)
  BY <1>3 DEF Input, Text
<1>5. path \in Seq(Name) /\ Under(TaskDirectory(t), path)
  <2>1. path \in Seq(Name)
    BY <1>4, Places DEF Target
  <2>. QED  BY <2>1 DEF StageInput, WorkspacePath
<1>6. c \in Content /\ c.task = t /\ item \in [path : Seq(Name), size : Nat]
  BY <1>4, <1>5 DEF Content
<1>7. files' = Put(files, path, c) /\ staged' = [staged EXCEPT ![t] = Append(@, item)]
  BY DEF StageInput, PutFile
<1> HIDE DEF n, in, path, c, item
<1> DEFINE Item == [path : Seq(Name), size : Nat]
<1>9. staged \in [Task -> Seq(Item)] /\ item \in Item
  BY <1>1, <1>6
<1> HIDE DEF Item
<1>10. staged' \in [Task -> Seq(Item)]
      /\ Len(staged'[t]) = Len(staged[t]) + 1 /\ \A u \in Task \ {t} : staged'[u] = staged[u]
  BY <1>7, <1>9
<1>8. staged' \in [Task -> Seq([path : Seq(Name), size : Nat])]
      /\ Len(staged'[t]) = Len(staged[t]) + 1 /\ \A u \in Task \ {t} : staged'[u] = staged[u]
  BY <1>10 DEF Item
<1>. QED  BY <1>5, <1>6, <1>7, <1>8

LEMMA Submitting ==
    ASSUME TypeOK, Placed, NEW t \in Task, Submit(t)
    PROVE  /\ call' \in [Task -> Request \cup {NoCall}] /\ call'[t] \in Asked(t)
           /\ steps' \in [Task -> Seq(Step)] /\ Len(steps'[t]) = Len(steps[t]) + 1
           /\ \A i \in 1..Len(steps[t]) : steps'[t][i] = steps[t][i]
           /\ steps'[t][Len(steps[t]) + 1].tool = call'[t].tool
           /\ steps'[t][Len(steps[t]) + 1].attempts = 0
           /\ steps'[t][Len(steps[t]) + 1].ref = None /\ steps'[t][Len(steps[t]) + 1].shown = None
           /\ \A u \in Task \ {t} : call'[u] = call[u] /\ steps'[u] = steps[u]
<1>1. PICK r \in Asked(t) :
        /\ call' = [call EXCEPT ![t] = r]
        /\ steps' = [steps EXCEPT ![t] = Append(@,
               [tool |-> r.tool, state |-> "RUNNING", attempts |-> 0, ref |-> None, shown |-> None])]
  <2>1. Len(steps[t]) \in Nat /\ Len(Requests[t]) \in Nat
    BY ToolAssumption DEF TypeOK
  <2>2. Len(steps[t]) + 1 \in 1..Len(Requests[t])
    BY <2>1 DEF Submit
  <2>3. Requests[t][Len(steps[t]) + 1] \subseteq Asked(t)
    BY <2>2 DEF Asked
  <2>. QED  BY <2>3 DEF Submit
<1>2. r \in Request
  BY AskedAreRequests
<1> DEFINE e == [tool |-> r.tool, state |-> "RUNNING", attempts |-> 0, ref |-> None, shown |-> None]
<1>3. e \in Step
  BY <1>2 DEF Step, Request
<1>4. call' \in [Task -> Request \cup {NoCall}] /\ call'[t] = r /\ \A u \in Task \ {t} : call'[u] = call[u]
  BY <1>1, <1>2 DEF TypeOK
<1>5. e.tool = r.tool /\ e.attempts = 0 /\ e.ref = None /\ e.shown = None
  OBVIOUS
<1>6. steps' = [steps EXCEPT ![t] = Append(@, e)] /\ steps \in [Task -> Seq(Step)]
  BY <1>1 DEF TypeOK
<1> HIDE DEF e
<1>7. steps' \in [Task -> Seq(Step)] /\ Len(steps'[t]) = Len(steps[t]) + 1
      /\ (\A i \in 1..Len(steps[t]) : steps'[t][i] = steps[t][i])
      /\ steps'[t][Len(steps[t]) + 1] = e /\ \A u \in Task \ {t} : steps'[u] = steps[u]
  BY <1>3, <1>6
<1>. QED  BY <1>1, <1>4, <1>5, <1>7

LEMMA Failing ==
    ASSUME TypeOK, Placed, NEW t \in Task, SettleFails(t)
    PROVE  /\ steps' \in [Task -> Seq(Step)] /\ Len(steps'[t]) = Len(steps[t])
           /\ \A i \in 1..Len(steps[t]) :
                 /\ steps'[t][i].tool = steps[t][i].tool /\ steps'[t][i].attempts = steps[t][i].attempts
                 /\ steps'[t][i].ref = steps[t][i].ref /\ steps'[t][i].shown = steps[t][i].shown
           /\ \A u \in Task \ {t} : steps'[u] = steps[u]
           /\ call' \in [Task -> Request \cup {NoCall}] /\ attempt' \in [Task -> Nat]
           /\ result' \in [Task -> Result] /\ attempt'[t] = 0 /\ result'[t] = NoResult
           /\ \A u \in Task \ {t} : call'[u] = call[u] /\ attempt'[u] = attempt[u] /\ result'[u] = result[u]
<1> DEFINE n == Len(steps[t])
           e == [steps[t][n] EXCEPT !.state = "FAILED"]
<1>1. n \in Nat /\ n > 0 /\ steps \in [Task -> Seq(Step)] /\ steps[t][n] \in Step
  BY DEF TypeOK, Placed, SettleFails
<1>2. /\ e \in Step /\ e.tool = steps[t][n].tool /\ e.attempts = steps[t][n].attempts
      /\ e.ref = steps[t][n].ref /\ e.shown = steps[t][n].shown
  BY <1>1 DEF Step
<1>3. steps' = [steps EXCEPT ![t] = [@ EXCEPT ![n] = e]]
  BY <1>1 DEF SettleFails
<1> HIDE DEF e
<1>4. /\ steps' \in [Task -> Seq(Step)] /\ Len(steps'[t]) = n
      /\ \A u \in Task \ {t} : steps'[u] = steps[u]
      /\ \A i \in 1..n : steps'[t][i] = IF i = n THEN e ELSE steps[t][i]
  BY <1>1, <1>2, <1>3, Rewriting
<1>5. NoResult \in Result
  BY DEF NoResult, Result
<1>6. /\ call' \in [Task -> Request \cup {NoCall}] /\ attempt' \in [Task -> Nat]
      /\ result' \in [Task -> Result] /\ attempt'[t] = 0 /\ result'[t] = NoResult
      /\ \A u \in Task \ {t} : call'[u] = call[u] /\ attempt'[u] = attempt[u] /\ result'[u] = result[u]
  BY <1>5 DEF SettleFails, Forget, TypeOK
<1>. QED  BY <1>2, <1>4, <1>6

LEMMA WorldTyped ==
    ASSUME TypeOK, NEW t \in Task
    PROVE  /\ Written(t) => DOMAIN files' \subseteq Seq(Name) /\ files' \in [DOMAIN files' -> Content]
           /\ Uploaded(t) => DOMAIN objects' \subseteq Seq(Name) /\ objects' \in [DOMAIN objects' -> Content]
<1>1. /\ DOMAIN files \subseteq Seq(Name) /\ files \in [DOMAIN files -> Content]
      /\ DOMAIN objects \subseteq Seq(Name) /\ objects \in [DOMAIN objects -> Content]
  BY DEF TypeOK
<1>2. ASSUME Written(t)
      PROVE  DOMAIN files' \subseteq Seq(Name) /\ files' \in [DOMAIN files' -> Content]
  <2>1. CASE UNCHANGED files
    BY <1>1, <2>1
  <2>2. ASSUME NEW p \in Seq(Name), NEW c \in Content, files' = Put(files, p, c)
        PROVE  DOMAIN files' \subseteq Seq(Name) /\ files' \in [DOMAIN files' -> Content]
    BY <1>1, <2>2, Putting
  <2>. QED  BY <1>2, <2>1, <2>2 DEF Written
<1>3. ASSUME Uploaded(t)
      PROVE  DOMAIN objects' \subseteq Seq(Name) /\ objects' \in [DOMAIN objects' -> Content]
  <2>1. CASE UNCHANGED objects
    BY <1>1, <2>1
  <2>2. ASSUME NEW k \in Seq(Name), NEW c \in Content, objects' = Put(objects, k, c)
        PROVE  DOMAIN objects' \subseteq Seq(Name) /\ objects' \in [DOMAIN objects' -> Content]
    BY <1>1, <2>2, Putting
  <2>. QED  BY <1>3, <2>1, <2>2 DEF Uploaded
<1>. QED  BY <1>2, <1>3

\* Storing the output of the call in hand.
LEMMA Storing ==
    ASSUME TypeOK, NEW t \in Task, SettleOffloaded(t)
    PROVE  LET ref == <<t, Len(steps[t])>>
           IN  /\ DOMAIN outputs' = DOMAIN outputs \cup {ref} /\ DOMAIN outputs' \subseteq Task \X Nat
               /\ outputs' \in [DOMAIN outputs' -> Content]
               /\ outputs'[ref] = result[t].shown
               /\ \A r \in DOMAIN outputs \ {ref} : outputs'[r] = outputs[r]
<1>1. result[t].shown \in Content
  <2>1. result[t] \in Result /\ Inline \in Nat
    BY ToolAssumption DEF TypeOK
  <2>2. result[t].shown \in Content \cup {None}
    BY <2>1 DEF Result
  <2>3. Size(result[t]) > Inline
    BY DEF SettleOffloaded
  <2>4. result[t].shown # None
    BY <2>1, <2>3 DEF Size
  <2>. QED  BY <2>2, <2>4
<1> DEFINE ref == <<t, Len(steps[t])>>
           Refs == Task \X Nat
<1>2. ref \in Refs
  BY DEF TypeOK
<1>3. outputs' = Put(outputs, ref, result[t].shown)
  BY DEF SettleOffloaded, PutOutput
<1>4. DOMAIN outputs \subseteq Refs /\ outputs \in [DOMAIN outputs -> Content]
  BY DEF TypeOK
<1> HIDE DEF ref, Refs
<1> DEFINE y == result[t].shown
           g == Put(outputs, ref, y)
<1>5. y \in Content /\ outputs' = g
  BY <1>1, <1>3
<1> HIDE DEF y
<1>6. /\ DOMAIN g = DOMAIN outputs \cup {ref} /\ DOMAIN g \subseteq Refs /\ g \in [DOMAIN g -> Content]
      /\ g[ref] = y /\ \A r \in DOMAIN outputs \ {ref} : g[r] = outputs[r]
  BY <1>2, <1>4, <1>5 DEF Put
<1> HIDE DEF g
<1>7. /\ DOMAIN outputs' = DOMAIN outputs \cup {ref} /\ DOMAIN outputs' \subseteq Refs
      /\ outputs' \in [DOMAIN outputs' -> Content]
      /\ outputs'[ref] = result[t].shown
      /\ \A r \in DOMAIN outputs \ {ref} : outputs'[r] = outputs[r]
  BY <1>5, <1>6 DEF y
<1>. QED  BY <1>7 DEF ref, Refs

LEMMA TypeStep == TypeOK /\ Placed /\ OwnContentOnly /\ Next => TypeOK'
<1> SUFFICES ASSUME TypeOK, Placed, OwnContentOnly, Next
             PROVE  TypeOK'
  OBVIOUS
<1>1. ASSUME NEW t \in Task, StageInput(t)
      PROVE  TypeOK'
  <2>1. DOMAIN files' \subseteq Seq(Name) /\ files' \in [DOMAIN files' -> Content]
    BY <1>1, Staging, WorldTyped DEF Written
  <2>2. pc' \in [Task -> {"stage", "idle", "run", "settle", "done"}]
    BY <1>1 DEF StageInput, TypeOK
  <2>3. UNCHANGED <<call, attempt, result, record, seen, objects, outputs>>
    BY <1>1 DEF StageInput
  <2>. QED  BY <1>1, <2>1, <2>2, <2>3, Staging DEF TypeOK, record
<1>2. ASSUME NEW t \in Task, StageFails(t) \/ Deliver(t) \/ GiveUp(t)
      PROVE  TypeOK'
  <2>1. /\ pc' \in [Task -> {"stage", "idle", "run", "settle", "done"}]
        /\ status' \in [Task -> {"RUNNING", "SUCCESS", "FAILED"}]
    BY <1>2 DEF StageFails, Deliver, GiveUp, End, TypeOK
  <2>2. UNCHANGED <<staged, call, attempt, result, steps, events, denials, artifacts, seen, world>>
    BY <1>2 DEF StageFails, Deliver, GiveUp
  <2>. QED  BY <2>1, <2>2 DEF TypeOK, world
<1>3. ASSUME NEW t \in Task, Submit(t)
      PROVE  TypeOK'
  <2>1. call' \in [Task -> Request \cup {NoCall}] /\ steps' \in [Task -> Seq(Step)]
    BY <1>3, Submitting
  <2>2. pc' \in [Task -> {"stage", "idle", "run", "settle", "done"}]
    BY <1>3 DEF Submit, TypeOK
  <2>3. UNCHANGED <<staged, attempt, result, events, denials, artifacts, seen, status, world>>
    BY <1>3 DEF Submit
  <2>. QED  BY <2>1, <2>2, <2>3 DEF TypeOK, world
<1>4. ASSUME NEW t \in Task, Attempt(t)
      PROVE  TypeOK'
  <2>1. Effect(t)
    BY <1>4, AttemptEffect
  <2>2. PICK res : Yields(t, res) /\ Record(t, res)
    BY <2>1 DEF Effect
  <2>3. /\ attempt' \in [Task -> Nat] /\ result' \in [Task -> Result]
        /\ events' \in [Task -> Seq(Event)] /\ steps' \in [Task -> Seq(Step)]
        /\ denials' \in [Task -> SUBSET Nat]
        /\ pc' \in [Task -> {"stage", "idle", "run", "settle", "done"}]
    BY <2>1, <2>2, Recorded DEF Effect, Yields
  <2>4. /\ DOMAIN files' \subseteq Seq(Name) /\ files' \in [DOMAIN files' -> Content]
        /\ DOMAIN objects' \subseteq Seq(Name) /\ objects' \in [DOMAIN objects' -> Content]
    BY <2>1, WorldTyped DEF Effect
  <2>5. UNCHANGED <<staged, call, artifacts, seen, status, outputs>>
    BY <2>1, <2>2 DEF Record, Effect
  <2>. QED  BY <2>3, <2>4, <2>5 DEF TypeOK
<1>5. ASSUME NEW t \in Task, SettleInline(t) \/ SettleOffloaded(t)
      PROVE  TypeOK'
  <2>1. PICK ref \in Nat \cup {None} : Settled(t, ref)
    <3>1. Len(steps[t]) \in Nat
      BY DEF TypeOK
    <3>. QED  BY <1>5, <3>1 DEF SettleInline, SettleOffloaded
  <2>2. Continue(t) /\ pc[t] = "settle"
    BY <1>5 DEF SettleInline, SettleOffloaded
  <2>3. steps' \in [Task -> Seq(Step)]
    BY <2>1, <2>2, Closing
  <2>4. /\ call' \in [Task -> Request \cup {NoCall}] /\ attempt' \in [Task -> Nat]
        /\ result' \in [Task -> Result] /\ artifacts' \in [Task -> Seq(Artifact)]
        /\ seen' \in [Task -> SUBSET Task]
        /\ pc' \in [Task -> {"stage", "idle", "run", "settle", "done"}]
        /\ status' \in [Task -> {"RUNNING", "SUCCESS", "FAILED"}]
    BY <2>2, Continuing
  <2>5. DOMAIN outputs' \subseteq Task \X Nat /\ outputs' \in [DOMAIN outputs' -> Content]
    <3>1. CASE SettleInline(t)
      BY <3>1 DEF SettleInline, world, TypeOK
    <3>2. CASE SettleOffloaded(t)
      BY <3>2, Storing
    <3>. QED  BY <1>5, <3>1, <3>2
  <2>6. UNCHANGED <<staged, events, denials, files, objects>>
    BY <1>5 DEF SettleInline, SettleOffloaded, world
  <2>. QED  BY <2>3, <2>4, <2>5, <2>6 DEF TypeOK
<1>6. ASSUME NEW t \in Task, SettleFails(t)
      PROVE  TypeOK'
  <2>1. /\ steps' \in [Task -> Seq(Step)]
        /\ call' \in [Task -> Request \cup {NoCall}] /\ attempt' \in [Task -> Nat]
        /\ result' \in [Task -> Result]
    BY <1>6, Failing
  <2>2. /\ pc' \in [Task -> {"stage", "idle", "run", "settle", "done"}]
        /\ status' \in [Task -> {"RUNNING", "SUCCESS", "FAILED"}]
    BY <1>6 DEF SettleFails, End, TypeOK
  <2>3. UNCHANGED <<staged, events, denials, artifacts, seen, world>>
    BY <1>6 DEF SettleFails
  <2>. QED  BY <2>1, <2>2, <2>3 DEF TypeOK, world
<1>7. CASE UNCHANGED vars
  BY <1>7 DEF TypeOK, vars
<1>. QED  BY <1>1, <1>2, <1>3, <1>4, <1>5, <1>6, <1>7 DEF Next, Advance, Settle, Finished

\* The step of the call in hand is the last one and still open.
LEMMA PlacedStep == TypeOK /\ Placed /\ OwnContentOnly /\ Next => Placed'
<1> SUFFICES ASSUME TypeOK, Placed, OwnContentOnly, Next
             PROVE  Placed'
  OBVIOUS
<1> DEFINE Open(t) == LET n == Len(steps[t])
                      IN  /\ call[t] \in Asked(t) /\ n > 0
                          /\ steps[t][n].tool = call[t].tool
                          /\ steps[t][n].ref = None /\ steps[t][n].shown = None
           P(t) == /\ pc[t] = "stage" => Len(staged[t]) < Len(Inputs[t])
                   /\ pc[t] = "done" <=> status[t] # "RUNNING"
                   /\ pc[t] \in {"run", "settle"} => Open(t)
<1>0. /\ \A t \in Task : P(t)
      /\ pc \in [Task -> {"stage", "idle", "run", "settle", "done"}]
      /\ status \in [Task -> {"RUNNING", "SUCCESS", "FAILED"}]
  BY DEF Placed, TypeOK
<1>00. SUFFICES \A u \in Task : P(u)'
  BY DEF Placed
<1>1. ASSUME NEW t \in Task, StageInput(t)
      PROVE  \A u \in Task : P(u)'
  <2>1. /\ UNCHANGED <<status, call, steps>>
        /\ pc[t] = "stage" /\ pc'[t] = (IF Len(staged[t]) + 1 = Len(Inputs[t]) THEN "idle" ELSE "stage")
        /\ \A u \in Task \ {t} : pc'[u] = pc[u]
    BY <1>0, <1>1 DEF StageInput, record
  <2>2. Len(staged'[t]) = Len(staged[t]) + 1 /\ \A u \in Task \ {t} : staged'[u] = staged[u]
    BY <1>1, Staging
  <2>3. Len(staged[t]) \in Nat /\ Len(Inputs[t]) \in Nat
    BY ToolAssumption DEF TypeOK
  <2>4. pc'[t] = "stage" => Len(staged'[t]) < Len(Inputs[t])
    BY <1>0, <2>1, <2>2, <2>3
  <2> HIDE DEF Open
  <2>5. \A u \in Task : Open(u)' <=> Open(u)
    BY <2>1 DEF Open
  <2>. QED  BY <1>0, <2>1, <2>2, <2>4, <2>5
<1>2. ASSUME NEW t \in Task, StageFails(t) \/ Deliver(t) \/ GiveUp(t)
      PROVE  \A u \in Task : P(u)'
  <2>1. /\ UNCHANGED <<staged, call, steps>>
        /\ pc'[t] = "done" /\ status'[t] # "RUNNING"
        /\ \A u \in Task \ {t} : pc'[u] = pc[u] /\ status'[u] = status[u]
    BY <1>0, <1>2 DEF StageFails, Deliver, GiveUp, End
  <2>. QED  BY <1>0, <2>1
<1>3. ASSUME NEW t \in Task, Submit(t)
      PROVE  \A u \in Task : P(u)'
  <2>1. /\ UNCHANGED <<staged, status>>
        /\ pc[t] = "idle" /\ pc'[t] = "run" /\ \A u \in Task \ {t} : pc'[u] = pc[u]
    BY <1>0, <1>3 DEF Submit
  <2>2. Open(t)'
    <3>1. Len(steps[t]) \in Nat
      BY DEF TypeOK
    <3>. QED  BY <1>3, <3>1, Submitting
  <2>3. \A u \in Task \ {t} : Open(u) => Open(u)'
    BY <1>3, Submitting
  <2> HIDE DEF Open
  <2>. QED  BY <1>0, <2>1, <2>2, <2>3
<1>4. ASSUME NEW t \in Task, Attempt(t)
      PROVE  \A u \in Task : P(u)'
  <2>1. Effect(t)
    BY <1>4, AttemptEffect
  <2>2. PICK res : Yields(t, res) /\ Record(t, res)
    BY <2>1 DEF Effect
  <2>3. /\ pc[t] = "run" /\ pc'[t] \in {"run", "settle"} /\ Len(steps'[t]) = Len(steps[t])
        /\ steps'[t][Len(steps[t])] = [steps[t][Len(steps[t])] EXCEPT !.attempts = attempt[t] + 1]
        /\ \A u \in Task \ {t} : pc'[u] = pc[u] /\ steps'[u] = steps[u]
    BY <2>1, <2>2, Recorded DEF Effect, Yields
  <2>4. UNCHANGED <<staged, call, status>>
    BY <2>2 DEF Record
  <2>5. steps[t][Len(steps[t])] \in Step
    BY <1>0, <2>3 DEF TypeOK
  <2>6. Open(t)'
    BY <1>0, <2>3, <2>4, <2>5 DEF Step
  <2>7. \A u \in Task \ {t} : Open(u) => Open(u)'
    BY <2>3, <2>4
  <2> HIDE DEF Open
  <2>. QED  BY <1>0, <2>3, <2>4, <2>6, <2>7
<1>5. ASSUME NEW t \in Task, SettleInline(t) \/ SettleOffloaded(t)
      PROVE  \A u \in Task : P(u)'
  <2>1. PICK ref \in Nat \cup {None} : Settled(t, ref)
    <3>1. Len(steps[t]) \in Nat
      BY DEF TypeOK
    <3>. QED  BY <1>5, <3>1 DEF SettleInline, SettleOffloaded
  <2>2. Continue(t) /\ pc[t] = "settle" /\ UNCHANGED staged
    BY <1>5 DEF SettleInline, SettleOffloaded
  <2>3. \A u \in Task \ {t} : steps'[u] = steps[u]
    BY <2>1, <2>2, Closing
  <2>4. /\ \/ pc'[t] = "idle" /\ status'[t] = status[t]
           \/ pc'[t] = "done" /\ status'[t] = "FAILED"
        /\ \A u \in Task \ {t} : call'[u] = call[u] /\ pc'[u] = pc[u] /\ status'[u] = status[u]
    BY <2>2, Continuing
  <2>5. \A u \in Task \ {t} : Open(u) => Open(u)'
    BY <2>3, <2>4
  <2> HIDE DEF Open
  <2>. QED  BY <1>0, <2>2, <2>4, <2>5
<1>6. ASSUME NEW t \in Task, SettleFails(t)
      PROVE  \A u \in Task : P(u)'
  <2>1. /\ UNCHANGED staged /\ pc'[t] = "done" /\ status'[t] = "FAILED"
        /\ \A u \in Task \ {t} : pc'[u] = pc[u] /\ status'[u] = status[u]
    BY <1>0, <1>6 DEF SettleFails, End
  <2>2. \A u \in Task \ {t} : Open(u) => Open(u)'
    BY <1>6, Failing
  <2> HIDE DEF Open
  <2>. QED  BY <1>0, <2>1, <2>2
<1>7. CASE UNCHANGED vars
  BY <1>0, <1>7 DEF vars
<1>. QED  BY <1>1, <1>2, <1>3, <1>4, <1>5, <1>6, <1>7 DEF Next, Advance, Settle, Finished

-----------------------------------------------------------------------------
(* Every task has content of its own only                                   *)

\* A task's writes leave what lies below other tasks' places alone.
LEMMA WorldOwn ==
    ASSUME TypeOK, OwnContentOnly, NEW t \in Task
    PROVE  /\ Written(t) => \A u \in Task : \A f \in DOMAIN files' :
                 Under(TaskDirectory(u), f) => files'[f].task = u
           /\ Uploaded(t) => \A u \in Task : \A k \in DOMAIN objects' :
                 Under(Report(u), k) => objects'[k].task = u
<1>1. /\ files \in [DOMAIN files -> Content] /\ objects \in [DOMAIN objects -> Content]
      /\ \A u \in Task : \A f \in DOMAIN files : Under(TaskDirectory(u), f) => files[f].task = u
      /\ \A u \in Task : \A k \in DOMAIN objects : Under(Report(u), k) => objects[k].task = u
  BY DEF TypeOK, OwnContentOnly
<1>2. ASSUME Written(t)
      PROVE  \A u \in Task : \A f \in DOMAIN files' : Under(TaskDirectory(u), f) => files'[f].task = u
  <2>1. CASE UNCHANGED files
    BY <1>1, <2>1
  <2>2. ASSUME NEW p \in Seq(Name), NEW c \in Content, NEW u \in Task, NEW f \in DOMAIN files',
               Under(TaskDirectory(t), p), c.task = t, files' = Put(files, p, c),
               Under(TaskDirectory(u), f)
        PROVE  files'[f].task = u
    <3>1. DOMAIN files' = DOMAIN files \cup {p} /\ files'[f] = IF f = p THEN c ELSE files[f]
      BY <2>2 DEF Put
    <3>2. CASE f = p
      BY <2>2, <3>1, <3>2, Apart
    <3>3. CASE f # p
      BY <1>1, <2>2, <3>1, <3>3
    <3>. QED  BY <3>2, <3>3
  <2>. QED  BY <1>2, <2>1, <2>2 DEF Written
<1>3. ASSUME Uploaded(t)
      PROVE  \A u \in Task : \A k \in DOMAIN objects' : Under(Report(u), k) => objects'[k].task = u
  <2>1. CASE UNCHANGED objects
    BY <1>1, <2>1
  <2>2. ASSUME NEW p \in Seq(Name), NEW c \in Content, NEW u \in Task, NEW k \in DOMAIN objects',
               Under(Report(t), p), c.task = t, objects' = Put(objects, p, c),
               Under(Report(u), k)
        PROVE  objects'[k].task = u
    <3>1. DOMAIN objects' = DOMAIN objects \cup {p} /\ objects'[k] = IF k = p THEN c ELSE objects[k]
      BY <2>2 DEF Put
    <3>2. CASE k = p
      BY <2>2, <3>1, <3>2, Apart
    <3>3. CASE k # p
      BY <1>1, <2>2, <3>1, <3>3
    <3>. QED  BY <3>2, <3>3
  <2>. QED  BY <1>3, <2>1, <2>2 DEF Uploaded
<1>. QED  BY <1>2, <1>3

\* What every step does to files and objects is one task's writing.
LEMMA WorldChange ==
    ASSUME TypeOK, Placed, OwnContentOnly, NEW t \in Task, Advance(t)
    PROVE  Written(t) /\ Uploaded(t)
<1>1. CASE StageInput(t)
  BY <1>1, Staging DEF StageInput, Written, Uploaded
<1>2. CASE Attempt(t)
  BY <1>2, AttemptEffect DEF Effect
<1>3. CASE StageFails(t) \/ Submit(t) \/ Settle(t) \/ Deliver(t) \/ GiveUp(t)
  BY <1>3 DEF StageFails, Submit, Settle, SettleInline, SettleOffloaded, SettleFails, Deliver, GiveUp,
              Written, Uploaded, world
<1>. QED  BY <1>1, <1>2, <1>3 DEF Advance

LEMMA OwnStep == TypeOK /\ Placed /\ Held /\ OwnContentOnly /\ Next => OwnContentOnly'
<1> SUFFICES ASSUME TypeOK, Placed, Held, OwnContentOnly, Next
             PROVE  OwnContentOnly'
  OBVIOUS
<1>1. CASE UNCHANGED vars
  BY <1>1 DEF OwnContentOnly, vars
<1>2. ASSUME NEW t \in Task, Advance(t)
      PROVE  OwnContentOnly'
  <2>1. /\ \A u \in Task : \A f \in DOMAIN files' : Under(TaskDirectory(u), f) => files'[f].task = u
        /\ \A u \in Task : \A k \in DOMAIN objects' : Under(Report(u), k) => objects'[k].task = u
    BY <1>2, WorldChange, WorldOwn
  <2>2. \A u \in Task : \A ref \in DOMAIN outputs' : ref[1] = u => outputs'[ref].task = u
    <3>1. \A u \in Task : \A ref \in DOMAIN outputs : ref[1] = u => outputs[ref].task = u
      BY DEF OwnContentOnly
    <3>2. CASE SettleOffloaded(t)
      <4> DEFINE new == <<t, Len(steps[t])>>
      <4>1. /\ DOMAIN outputs' = DOMAIN outputs \cup {new} /\ new[1] = t
            /\ outputs'[new] = result[t].shown
            /\ \A r \in DOMAIN outputs \ {new} : outputs'[r] = outputs[r]
        BY <3>2, Storing
      <4>2. result[t].shown.task = t
        <5>1. result[t].shown # None
          BY <3>2, ToolAssumption DEF SettleOffloaded, Size
        <5>. QED  BY <5>1 DEF Held
      <4> HIDE DEF new
      <4>. QED  BY <3>1, <4>1, <4>2
    <3>3. CASE UNCHANGED outputs
      BY <3>1, <3>3
    <3>4. SettleOffloaded(t) \/ UNCHANGED outputs
      <4>1. Attempt(t) => UNCHANGED outputs
        BY AttemptEffect DEF Effect
      <4>. QED
        BY <1>2, <4>1 DEF Advance, StageInput, StageFails, Submit, Settle, SettleInline, SettleFails,
                          Deliver, GiveUp, world
    <3>. QED  BY <3>2, <3>3, <3>4
  <2>3. \A u \in Task : seen'[u] \subseteq {u}
    <3>1. \A u \in Task : seen[u] \subseteq {u}
      BY DEF OwnContentOnly
    <3>2. CASE SettleInline(t) \/ SettleOffloaded(t)
      <4>1. /\ seen'[t] \subseteq seen[t] \cup (IF result[t].shown = None THEN {} ELSE {result[t].shown.task})
            /\ \A u \in Task \ {t} : seen'[u] = seen[u]
        BY <3>2, Continuing DEF SettleInline, SettleOffloaded
      <4>2. result[t].shown # None => result[t].shown.task = t
        BY DEF Held
      <4>. QED  BY <3>1, <4>1, <4>2
    <3>3. CASE ~(SettleInline(t) \/ SettleOffloaded(t))
      <4>1. Attempt(t) => UNCHANGED seen
        BY AttemptEffect DEF Effect, Record
      <4>2. UNCHANGED seen
        BY <1>2, <3>3, <4>1 DEF Advance, StageInput, StageFails, Submit, Settle, SettleFails, Deliver, GiveUp
      <4>. QED  BY <3>1, <4>2
    <3>. QED  BY <3>2, <3>3
  <2>. QED  BY <2>1, <2>2, <2>3 DEF OwnContentOnly
<1>. QED  BY <1>1, <1>2 DEF Next, Finished

LEMMA HeldStep == TypeOK /\ Placed /\ Held /\ OwnContentOnly /\ Next => Held'
<1> SUFFICES ASSUME TypeOK, Placed, Held, OwnContentOnly, Next
             PROVE  Held'
  OBVIOUS
<1> DEFINE Has(t) == /\ result[t].shown # None => result[t].shown.task = t
                     /\ result[t].artifact # None => Under(Report(t), result[t].artifact.key)
           Claims(t) == \A i \in 1..Len(artifacts[t]) : Under(Report(t), artifacts[t][i].key)
<1>1. \A t \in Task : Has(t) /\ Claims(t)
  BY DEF Held
<1>2. SUFFICES \A u \in Task : Has(u)' /\ Claims(u)'
  BY DEF Held
<1>3. NoResult.shown = None /\ NoResult.artifact = None
  BY DEF NoResult
<1>4. ASSUME NEW t \in Task, Attempt(t)
      PROVE  \A u \in Task : Has(u)' /\ Claims(u)'
  <2>1. Effect(t)
    BY <1>4, AttemptEffect
  <2>2. PICK res : Yields(t, res) /\ Record(t, res)
    BY <2>1 DEF Effect
  <2>3. result'[t] = res /\ \A u \in Task \ {t} : result'[u] = result[u]
    BY <2>1, <2>2, Recorded DEF Effect, Yields
  <2>4. UNCHANGED artifacts
    BY <2>2 DEF Record
  <2>. QED  BY <1>1, <2>2, <2>3, <2>4 DEF Yields
<1>5. ASSUME NEW t \in Task, SettleInline(t) \/ SettleOffloaded(t)
      PROVE  \A u \in Task : Has(u)' /\ Claims(u)'
  <2>1. /\ result'[t] = NoResult
        /\ \/ artifacts'[t] = artifacts[t]
           \/ result[t].artifact # None /\ artifacts'[t] = Append(artifacts[t], result[t].artifact)
        /\ \A u \in Task \ {t} : result'[u] = result[u] /\ artifacts'[u] = artifacts[u]
    BY <1>5, Continuing DEF SettleInline, SettleOffloaded
  <2>2. result[t].artifact # None => result[t].artifact \in Artifact
    BY DEF TypeOK, Result
  <2>3. artifacts[t] \in Seq(Artifact)
    BY DEF TypeOK
  <2>4. Claims(t)'
    BY <1>1, <2>1, <2>2, <2>3
  <2>. QED  BY <1>1, <1>3, <2>1, <2>4
<1>6. ASSUME NEW t \in Task, SettleFails(t)
      PROVE  \A u \in Task : Has(u)' /\ Claims(u)'
  <2>1. result'[t] = NoResult /\ \A u \in Task \ {t} : result'[u] = result[u]
    BY <1>6, Failing
  <2>2. UNCHANGED artifacts
    BY <1>6 DEF SettleFails
  <2>. QED  BY <1>1, <1>3, <2>1, <2>2
<1>7. ASSUME UNCHANGED <<result, artifacts>>
      PROVE  \A u \in Task : Has(u)' /\ Claims(u)'
  BY <1>1, <1>7
<1>8. ASSUME NEW t \in Task, StageInput(t) \/ StageFails(t) \/ Submit(t) \/ Deliver(t) \/ GiveUp(t)
      PROVE  UNCHANGED <<result, artifacts>>
  BY <1>8 DEF StageInput, StageFails, Submit, Deliver, GiveUp, record
<1>9. CASE UNCHANGED vars
  BY <1>7, <1>9 DEF vars
<1>. QED  BY <1>4, <1>5, <1>6, <1>7, <1>8, <1>9 DEF Next, Advance, Settle, Finished

-----------------------------------------------------------------------------
(* Outputs                                                                  *)

LEMMA PagesStep == TypeOK /\ Placed /\ PagesFit /\ OwnContentOnly /\ Next => PagesFit'
<1> SUFFICES ASSUME TypeOK, Placed, PagesFit, OwnContentOnly, Next
             PROVE  PagesFit'
  OBVIOUS
<1> DEFINE Fits(t) == call[t].tool = "read_tool_output" /\ result[t].shown # None
                         => result[t].shown.size <= Inline
<1>1. \A t \in Task : pc[t] = "settle" => Fits(t)
  BY DEF PagesFit
<1>2. SUFFICES \A u \in Task : pc'[u] = "settle" => Fits(u)'
  BY DEF PagesFit
<1>3. pc \in [Task -> {"stage", "idle", "run", "settle", "done"}]
  BY DEF TypeOK
<1>4. ASSUME NEW t \in Task, Attempt(t)
      PROVE  \A u \in Task : pc'[u] = "settle" => Fits(u)'
  <2>1. Effect(t)
    BY <1>4, AttemptEffect
  <2>2. PICK res : Yields(t, res) /\ Record(t, res)
    BY <2>1 DEF Effect
  <2>3. result'[t] = res /\ \A u \in Task \ {t} : result'[u] = result[u] /\ pc'[u] = pc[u]
    BY <2>1, <2>2, Recorded DEF Effect, Yields
  <2>4. UNCHANGED call
    BY <2>2 DEF Record
  <2>. QED  BY <1>1, <2>2, <2>3, <2>4 DEF Yields
<1>5. ASSUME NEW t \in Task, SettleInline(t) \/ SettleOffloaded(t)
      PROVE  \A u \in Task : pc'[u] = "settle" => Fits(u)'
  <2>1. /\ pc'[t] \in {"idle", "done"}
        /\ \A u \in Task \ {t} : pc'[u] = pc[u] /\ call'[u] = call[u] /\ result'[u] = result[u]
    BY <1>5, Continuing DEF SettleInline, SettleOffloaded
  <2>. QED  BY <1>1, <2>1
<1>6. ASSUME NEW t \in Task, SettleFails(t)
      PROVE  \A u \in Task : pc'[u] = "settle" => Fits(u)'
  <2>1. \A u \in Task \ {t} : call'[u] = call[u] /\ result'[u] = result[u]
    BY <1>6, Failing
  <2>2. pc'[t] = "done" /\ \A u \in Task \ {t} : pc'[u] = pc[u]
    BY <1>3, <1>6 DEF SettleFails, End
  <2>. QED  BY <1>1, <2>1, <2>2
<1>7. ASSUME NEW t \in Task, Submit(t)
      PROVE  \A u \in Task : pc'[u] = "settle" => Fits(u)'
  <2>1. pc'[t] = "run" /\ UNCHANGED result /\ \A u \in Task \ {t} : pc'[u] = pc[u]
    BY <1>3, <1>7 DEF Submit
  <2>2. \A u \in Task \ {t} : call'[u] = call[u]
    BY <1>7, Submitting
  <2>. QED  BY <1>1, <2>1, <2>2
<1>8. ASSUME NEW t \in Task, StageInput(t) \/ StageFails(t) \/ Deliver(t) \/ GiveUp(t)
      PROVE  \A u \in Task : pc'[u] = "settle" => Fits(u)'
  <2>1. UNCHANGED <<call, result>> /\ pc'[t] # "settle" /\ \A u \in Task \ {t} : pc'[u] = pc[u]
    BY <1>3, <1>8 DEF StageInput, StageFails, Deliver, GiveUp, End
  <2>. QED  BY <1>1, <2>1
<1>9. CASE UNCHANGED vars
  BY <1>1, <1>9 DEF vars
<1>. QED  BY <1>4, <1>5, <1>6, <1>7, <1>8, <1>9 DEF Next, Advance, Settle, Finished

\* Only the step of the call in hand gets an output, once, and a reference is
\* never given twice.
LEMMA KeptStep == TypeOK /\ Placed /\ PagesFit /\ OwnContentOnly /\ OutputsAreKept /\ Next => OutputsAreKept'
<1> SUFFICES ASSUME TypeOK, Placed, PagesFit, OwnContentOnly, OutputsAreKept, Next
             PROVE  OutputsAreKept'
  OBVIOUS
<1> DEFINE Kept(step, t, n) ==
             /\ step.ref # None =>
                   /\ <<t, n>> \in DOMAIN outputs /\ outputs[<<t, n>>] = step.shown
                   /\ step.tool # "read_tool_output"
             /\ step.ref = None /\ step.shown # None => step.shown.size <= Inline
           Later(step, t, n) ==
             /\ step.ref # None =>
                   /\ <<t, n>> \in DOMAIN outputs' /\ outputs'[<<t, n>>] = step.shown
                   /\ step.tool # "read_tool_output"
             /\ step.ref = None /\ step.shown # None => step.shown.size <= Inline
<1>1. \A t \in Task : \A n \in 1..Len(steps[t]) : Kept(steps[t][n], t, n)
  BY DEF OutputsAreKept, Available
<1>2. SUFFICES \A u \in Task : \A n \in 1..Len(steps'[u]) : Later(steps'[u][n], u, n)
  BY DEF OutputsAreKept, Available
<1>3. ASSUME UNCHANGED outputs
      PROVE  \A u \in Task : \A n \in 1..Len(steps[u]) : Later(steps[u][n], u, n)
  BY <1>1, <1>3
<1>4. \A t \in Task : Len(steps[t]) \in Nat
  BY DEF TypeOK
<1>5. ASSUME NEW t \in Task, Attempt(t)
      PROVE  \A u \in Task : \A n \in 1..Len(steps'[u]) : Later(steps'[u][n], u, n)
  <2>1. Effect(t)
    BY <1>5, AttemptEffect
  <2>2. PICK res : Yields(t, res) /\ Record(t, res)
    BY <2>1 DEF Effect
  <2> DEFINE n == Len(steps[t])
  <2>3. /\ Len(steps'[t]) = n /\ \A i \in 1..n \ {n} : steps'[t][i] = steps[t][i]
        /\ steps'[t][n] = [steps[t][n] EXCEPT !.attempts = attempt[t] + 1]
        /\ \A u \in Task \ {t} : steps'[u] = steps[u]
    BY <2>1, <2>2, Recorded DEF Effect, Yields
  <2>4. steps[t][n] \in Step /\ steps[t][n].ref = None /\ steps[t][n].shown = None
    BY <2>1 DEF Effect, Placed, TypeOK
  <2>5. steps'[t][n].ref = None /\ steps'[t][n].shown = None
    BY <2>3, <2>4 DEF Step
  <2>6. UNCHANGED outputs
    BY <2>1 DEF Effect
  <2>7. Later(steps'[t][n], t, n)
    BY <2>5
  <2> HIDE DEF Later, n
  <2>. QED  BY <1>3, <2>3, <2>6, <2>7 DEF n
<1>6. ASSUME NEW t \in Task, SettleInline(t)
      PROVE  \A u \in Task : \A n \in 1..Len(steps'[u]) : Later(steps'[u][n], u, n)
  <2> DEFINE n == Len(steps[t])
  <2>1. /\ Len(steps'[t]) = n /\ \A i \in 1..n \ {n} : steps'[t][i] = steps[t][i]
        /\ steps'[t][n].ref = None /\ steps'[t][n].shown = result[t].shown
        /\ \A u \in Task \ {t} : steps'[u] = steps[u]
    BY <1>6, Closing DEF SettleInline
  <2>2. result[t].shown # None => result[t].shown.size <= Inline
    BY <1>6 DEF SettleInline, Size
  <2>3. UNCHANGED outputs
    BY <1>6 DEF SettleInline, world
  <2>4. Later(steps'[t][n], t, n)
    BY <2>1, <2>2
  <2> HIDE DEF Later, n
  <2>. QED  BY <1>3, <2>1, <2>3, <2>4 DEF n
<1>7. ASSUME NEW t \in Task, SettleOffloaded(t)
      PROVE  \A u \in Task : \A n \in 1..Len(steps'[u]) : Later(steps'[u][n], u, n)
  <2> DEFINE n == Len(steps[t])
             new == <<t, n>>
  <2>1. /\ Len(steps'[t]) = n /\ \A i \in 1..n \ {n} : steps'[t][i] = steps[t][i]
        /\ steps'[t][n].tool = steps[t][n].tool
        /\ steps'[t][n].ref = n /\ steps'[t][n].shown = result[t].shown
        /\ \A u \in Task \ {t} : steps'[u] = steps[u]
    BY <1>4, <1>7, Closing DEF SettleOffloaded
  <2>2. /\ DOMAIN outputs' = DOMAIN outputs \cup {new}
        /\ outputs'[new] = result[t].shown
        /\ \A r \in DOMAIN outputs \ {new} : outputs'[r] = outputs[r]
    BY <1>7, Storing
  <2>3. steps[t][n].tool # "read_tool_output"
    <3>1. pc[t] = "settle" /\ Size(result[t]) > Inline
      BY <1>7 DEF SettleOffloaded
    <3>2. result[t] \in Result /\ Inline \in Nat
      BY ToolAssumption DEF TypeOK
    <3>3. result[t].shown # None /\ result[t].shown.size > Inline /\ result[t].shown.size \in Nat
      BY <3>1, <3>2 DEF Size, Result, Content
    <3>4. call[t].tool # "read_tool_output"
      BY <3>1, <3>2, <3>3 DEF PagesFit
    <3>. QED  BY <3>1, <3>4 DEF Placed
  <2>4. n \in Nat /\ n # None
    BY <1>4, ToolAssumption
  <2>5. Later(steps'[t][n], t, n)
    BY <2>1, <2>2, <2>3, <2>4
  <2>6. ASSUME NEW u \in Task, NEW i \in 1..Len(steps[u]), <<u, i>> # new
        PROVE  Later(steps[u][i], u, i)
    <3> HIDE DEF new
    <3>. QED  BY <1>1, <2>2, <2>6
  <2>7. \A u \in Task, i \in Nat : u # t \/ i # n => <<u, i>> # new
    OBVIOUS
  <2>8. \A i \in 1..n \ {n} : Later(steps'[t][i], t, i)
    <3>1. ASSUME NEW i \in 1..n \ {n}
          PROVE  Later(steps[t][i], t, i)
      BY <2>4, <2>6, <2>7
    <3> HIDE DEF Later, n
    <3>. QED  BY <2>1, <3>1
  <2>9. \A u \in Task \ {t} : \A i \in 1..Len(steps'[u]) : Later(steps'[u][i], u, i)
    <3>1. ASSUME NEW u \in Task \ {t}, NEW i \in 1..Len(steps[u])
          PROVE  Later(steps[u][i], u, i)
      BY <1>4, <2>6, <2>7
    <3> HIDE DEF Later
    <3>. QED  BY <2>1, <3>1
  <2> HIDE DEF Later, n
  <2>. QED  BY <2>1, <2>5, <2>8, <2>9 DEF n
<1>8. ASSUME NEW t \in Task, SettleFails(t)
      PROVE  \A u \in Task : \A n \in 1..Len(steps'[u]) : Later(steps'[u][n], u, n)
  <2>1. /\ Len(steps'[t]) = Len(steps[t])
        /\ \A i \in 1..Len(steps[t]) :
              /\ steps'[t][i].tool = steps[t][i].tool
              /\ steps'[t][i].ref = steps[t][i].ref /\ steps'[t][i].shown = steps[t][i].shown
        /\ \A u \in Task \ {t} : steps'[u] = steps[u]
    BY <1>8, Failing
  <2>2. UNCHANGED outputs
    BY <1>8 DEF SettleFails, world
  <2>3. \A i \in 1..Len(steps[t]) : Later(steps[t][i], t, i) => Later(steps'[t][i], t, i)
    BY <2>1
  <2> HIDE DEF Later
  <2>. QED  BY <1>3, <2>1, <2>2, <2>3
<1>9. ASSUME NEW t \in Task, Submit(t)
      PROVE  \A u \in Task : \A n \in 1..Len(steps'[u]) : Later(steps'[u][n], u, n)
  <2> DEFINE n == Len(steps[t])
  <2>1. /\ Len(steps'[t]) = n + 1 /\ \A i \in 1..n : steps'[t][i] = steps[t][i]
        /\ steps'[t][n + 1].ref = None /\ steps'[t][n + 1].shown = None
        /\ \A u \in Task \ {t} : steps'[u] = steps[u]
    BY <1>9, Submitting
  <2>2. UNCHANGED outputs
    BY <1>9 DEF Submit, world
  <2>3. Later(steps'[t][n + 1], t, n + 1)
    BY <2>1
  <2>4. 1..n + 1 = 1..n \cup {n + 1}
    BY <1>4
  <2> HIDE DEF Later
  <2>. QED  BY <1>3, <2>1, <2>2, <2>3, <2>4
<1>10. ASSUME NEW t \in Task, StageInput(t) \/ StageFails(t) \/ Deliver(t) \/ GiveUp(t)
       PROVE  UNCHANGED <<steps, outputs>>
  BY <1>10 DEF StageInput, StageFails, Deliver, GiveUp, world, record
<1>11. CASE UNCHANGED <<steps, outputs>>
  BY <1>3, <1>11
<1>. QED
  BY <1>5, <1>6, <1>7, <1>8, <1>9, <1>10, <1>11 DEF Next, Advance, Settle, Finished, vars

-----------------------------------------------------------------------------
(* Attempts                                                                 *)

\* Both invariants for one task, of its events ev and its steps st.
InOrder(ev, st) ==
    \A i \in 1..Len(ev) : /\ ev[i].step \in 1..Len(st)
                          /\ i < Len(ev) => ev[i].step <= ev[i + 1].step

InHand(ev, st, tool, where, made) ==
    /\ where = "run" => made < MaxAttempts
    /\ where \in {"stage", "idle"} => made = 0
    /\ where = "run" /\ made = 0 => \A i \in 1..Len(ev) : ev[i].step < Len(st)
    /\ where = "run" /\ made > 0 =>
          LET last == ev[Len(ev)]
          IN  /\ Len(ev) > 0 /\ last.step = Len(st) /\ last.attempt = made
              /\ last.ran /\ last.error \in Retryable
              /\ RetrySafe(tool)

ToldAt(ev, st, i) ==
    LET e == ev[i]
    IN  /\ e.step \in 1..Len(st) /\ e.attempt <= MaxAttempts
        /\ IF i > 1 /\ ev[i - 1].step = e.step
           THEN /\ e.attempt = ev[i - 1].attempt + 1
                /\ RetrySafe(st[e.step].tool)
                /\ ev[i - 1].ran /\ ev[i - 1].error \in Retryable
           ELSE e.attempt = 1
        /\ IF i < Len(ev) /\ ev[i + 1].step = e.step THEN TRUE
           ELSE st[e.step].attempts = e.attempt

AllTold(ev, st) == \A i \in 1..Len(ev) : ToldAt(ev, st, i)

StopsAt(ev, st) ==
    \A i \in 1..Len(ev) : ev[i].reason = "execution_state_unknown" =>
        i = Len(ev) /\ ev[i].step = Len(st)

LEMMA OfEach ==
    /\ Told <=> \A t \in Task : /\ InOrder(events[t], steps[t])
                                /\ InHand(events[t], steps[t], call[t].tool, pc[t], attempt[t])
    /\ AttemptsAreTold <=> \A t \in Task : AllTold(events[t], steps[t]) /\ StopsAt(events[t], steps[t])
    /\ Halted => \A t \in Task : StopsAt(events[t], steps[t])
<1>1. Told <=> \A t \in Task : /\ InOrder(events[t], steps[t])
                               /\ InHand(events[t], steps[t], call[t].tool, pc[t], attempt[t])
  BY DEF Told, InOrder, InHand
<1>2. AttemptsAreTold <=> \A t \in Task : AllTold(events[t], steps[t]) /\ StopsAt(events[t], steps[t])
  BY DEF AttemptsAreTold, AllTold, ToldAt, StopsAt
<1>3. Halted => \A t \in Task : StopsAt(events[t], steps[t])
  BY DEF Halted, StopsAt
<1>. QED  BY <1>1, <1>2, <1>3

\* The events stand as long as the steps they are about do.
LEMMA EventsStand ==
    ASSUME NEW ev, NEW st, NEW new, InOrder(ev, st), AllTold(ev, st),
           Len(st) \in Nat, Len(new) \in Nat, Len(new) >= Len(st),
           \A i \in 1..Len(st) : new[i].tool = st[i].tool /\ new[i].attempts = st[i].attempts
    PROVE  InOrder(ev, new) /\ AllTold(ev, new)
<1>1. ASSUME NEW i \in 1..Len(ev)
      PROVE  ToldAt(ev, new, i) /\ ev[i].step \in 1..Len(new)
  <2>1. ev[i].step \in 1..Len(st) /\ ToldAt(ev, st, i)
    BY DEF AllTold, InOrder
  <2>2. /\ ev[i].step \in 1..Len(new) /\ new[ev[i].step].tool = st[ev[i].step].tool
        /\ new[ev[i].step].attempts = st[ev[i].step].attempts
    BY <2>1
  <2>. QED  BY <2>1, <2>2 DEF ToldAt
<1>. QED  BY <1>1 DEF InOrder, AllTold

LEMMA AppendedEvent ==
    ASSUME TypeOK, Placed, Told, AttemptsAreTold, OwnContentOnly, NEW t \in Task, Attempt(t)
    PROVE  /\ InOrder(events'[t], steps'[t]) /\ AllTold(events'[t], steps'[t])
           /\ InHand(events'[t], steps'[t], call'[t].tool, pc'[t], attempt'[t])
<1> DEFINE n == Len(steps[t])
           m == Len(events[t])
           k == attempt[t] + 1
           ev == events'[t]
<1>1. Effect(t)
  BY AttemptEffect
<1>2. PICK res : Yields(t, res) /\ Record(t, res)
  BY <1>1 DEF Effect
<1>3. pc[t] = "run" /\ res \in Result
  BY <1>1, <1>2 DEF Effect, Yields
<1>4. /\ attempt'[t] = k /\ Len(steps'[t]) = n
      /\ \A i \in 1..n \ {n} : steps'[t][i] = steps[t][i]
      /\ steps'[t][n] = [steps[t][n] EXCEPT !.attempts = k]
      /\ pc'[t] \in {"run", "settle"}
      /\ pc'[t] = "run" => res.error \in Retryable /\ RetrySafe(call[t].tool) /\ k < MaxAttempts
  BY <1>2, <1>3, Recorded
<1>5. PICK why \in Reasons :
        /\ ev = Append(events[t],
              [step |-> n, attempt |-> k, error |-> res.error, ran |-> res.ran, reason |-> why])
        /\ why = "execution_state_unknown" => res.terminal /\ pc'[t] = "settle"
  BY <1>2, <1>3, Recorded
<1> DEFINE e == [step |-> n, attempt |-> k, error |-> res.error, ran |-> res.ran, reason |-> why]
<1>6. /\ events[t] \in Seq(Event) /\ n \in Nat /\ n > 0 /\ m \in Nat /\ attempt[t] \in Nat
      /\ steps[t][n] \in Step /\ steps[t][n].tool = call[t].tool
  BY <1>3 DEF TypeOK, Placed
<1>7. e \in Event /\ e.step = n /\ e.attempt = k /\ e.error = res.error /\ e.ran = res.ran
  BY <1>3, <1>5, <1>6 DEF Event, Result
<1>8. ev = Append(events[t], e)
  BY <1>5
<1> HIDE DEF e, ev
<1>9. Len(ev) = m + 1 /\ ev[m + 1] = e /\ \A i \in 1..m : ev[i] = events[t][i]
  BY <1>6, <1>7, <1>8
<1>10. /\ steps'[t][n].attempts = k /\ steps'[t][n].tool = call[t].tool
       /\ \A i \in 1..n : steps'[t][i].tool = steps[t][i].tool
  BY <1>4, <1>6 DEF Step
<1>11. /\ attempt[t] < MaxAttempts /\ MaxAttempts \in Nat
       /\ \A i \in 1..m : /\ events[t][i].step \in 1..n
                          /\ i < m => events[t][i].step <= events[t][i + 1].step
       /\ attempt[t] = 0 => \A i \in 1..m : events[t][i].step < n
       /\ attempt[t] > 0 => /\ m > 0 /\ events[t][m].step = n /\ events[t][m].attempt = attempt[t]
                            /\ events[t][m].ran /\ events[t][m].error \in Retryable
                            /\ RetrySafe(call[t].tool)
  BY <1>3, OfEach, GateAssumption DEF InOrder, InHand
<1>12. UNCHANGED call /\ Len(ev) = Len(events'[t]) /\ events'[t] = ev
  BY <1>2 DEF Record, ev
<1>13. res.error \in Retryable => res.ran
  BY <1>2 DEF Yields
<1> HIDE DEF n, m, k
<1>14. k = attempt[t] + 1 /\ k \in Nat /\ k > 0
  BY <1>6 DEF k
<1>15. /\ \A i \in 1..m + 1 : ev[i].step \in 1..n
       /\ \A i \in 1..m : ev[i].step <= ev[i + 1].step
  <2>1. \A i \in 1..m + 1 : i \in 1..m \/ i = m + 1
    BY <1>6
  <2>2. \A i \in 1..m + 1 : ev[i].step \in 1..n
    BY <1>6, <1>7, <1>9, <1>11, <2>1
  <2>3. ASSUME NEW i \in 1..m
        PROVE  ev[i].step <= ev[i + 1].step
    <3>1. CASE i = m
      BY <1>6, <1>7, <1>9, <1>11, <3>1
    <3>2. CASE i < m
      <4>1. i + 1 \in 1..m
        BY <1>6, <3>2
      <4>. QED  BY <1>9, <1>11, <3>2, <4>1
    <3>. QED  BY <1>6, <3>1, <3>2
  <2>. QED  BY <2>2, <2>3
<1>16. InOrder(ev, steps'[t]) /\ InHand(ev, steps'[t], call[t].tool, pc'[t], attempt'[t])
  <2>1. pc'[t] = "run" => k < MaxAttempts /\ RetrySafe(call[t].tool) /\ e.ran /\ e.error \in Retryable
    BY <1>4, <1>7, <1>13
  <2>2. \A i \in 1..m + 1 : i < m + 1 => i \in 1..m
    BY <1>6
  <2>3. InOrder(ev, steps'[t])
    BY <1>4, <1>9, <1>15, <2>2 DEF InOrder
  <2>4. InHand(ev, steps'[t], call[t].tool, pc'[t], attempt'[t])
    BY <1>4, <1>6, <1>7, <1>9, <1>14, <2>1 DEF InHand
  <2>. QED  BY <2>3, <2>4
<1>17. AllTold(ev, steps'[t])
  <2> DEFINE Good(i) == ToldAt(ev, steps'[t], i)
  <2>1. SUFFICES \A i \in 1..m + 1 : Good(i)
    BY <1>9 DEF AllTold
  <2>2. Good(m + 1)
    <3>1. ev[m + 1].step \in 1..n /\ ev[m + 1].attempt <= MaxAttempts
      BY <1>7, <1>9, <1>11, <1>14, <1>15, <1>6
    <3>2. steps'[t][ev[m + 1].step].attempts = ev[m + 1].attempt
      BY <1>7, <1>9, <1>10
    <3>3. CASE m + 1 > 1 /\ ev[m].step = n
      <4>1. m \in 1..m /\ ev[m] = events[t][m] /\ m + 1 - 1 = m
        BY <1>6, <1>9, <3>3
      <4>2. attempt[t] > 0
        BY <1>6, <1>11, <3>3, <4>1
      <4>. QED  BY <1>4, <1>7, <1>9, <1>10, <1>11, <1>14, <3>1, <3>2, <3>3, <4>1, <4>2 DEF ToldAt
    <3>4. CASE ~(m + 1 > 1 /\ ev[m].step = n)
      <4>1. attempt[t] = 0
        BY <1>6, <1>9, <1>11, <3>4
      <4>2. ev[m + 1].attempt = 1 /\ m + 1 - 1 = m
        BY <1>6, <1>7, <1>9, <1>14, <4>1
      <4>. QED  BY <1>4, <1>6, <1>7, <1>9, <3>1, <3>2, <3>4, <4>2 DEF ToldAt
    <3>. QED  BY <3>3, <3>4
  <2>3. ASSUME NEW i \in 1..m
        PROVE  Good(i)
    <3> DEFINE d == events[t][i]
    <3>1. /\ d.step \in 1..n /\ d.attempt <= MaxAttempts
          /\ IF i > 1 /\ events[t][i - 1].step = d.step
             THEN /\ d.attempt = events[t][i - 1].attempt + 1
                  /\ RetrySafe(steps[t][d.step].tool)
                  /\ events[t][i - 1].ran /\ events[t][i - 1].error \in Retryable
             ELSE d.attempt = 1
          /\ IF i < m /\ events[t][i + 1].step = d.step THEN TRUE
             ELSE steps[t][d.step].attempts = d.attempt
      BY OfEach DEF AllTold, ToldAt, n, m
    <3>2. ev[i] = d /\ i < m + 1 /\ (i > 1 => ev[i - 1] = events[t][i - 1])
          /\ (i < m => ev[i + 1] = events[t][i + 1])
      <4>1. i < m + 1 /\ (i > 1 => i - 1 \in 1..m) /\ (i < m => i + 1 \in 1..m)
        BY <1>6
      <4>. QED  BY <1>9, <4>1
    <3>3. ev[i + 1].step # ev[i].step => d.step # n
      <4>1. CASE i = m
        BY <1>7, <1>9, <3>2, <4>1
      <4>2. CASE i < m
        <5>1. i + 1 \in 1..m /\ events[t][i + 1].step \in 1..n /\ d.step <= events[t][i + 1].step
          BY <1>6, <1>11, <4>2
        <5>. QED  BY <1>6, <3>1, <3>2, <4>2, <5>1
      <4>. QED  BY <1>6, <4>1, <4>2
    <3>4. ev[i + 1].step # ev[i].step => steps'[t][d.step] = steps[t][d.step]
      BY <1>4, <3>1, <3>3
    <3>5. ev[i + 1].step # ev[i].step => steps'[t][d.step].attempts = d.attempt
      <4>1. ev[i + 1].step # ev[i].step => steps[t][d.step].attempts = d.attempt
        BY <3>1, <3>2
      <4>. QED  BY <3>4, <4>1
    <3>6. steps'[t][d.step].tool = steps[t][d.step].tool
      BY <1>10, <3>1
    <3> HIDE DEF d
    <3>. QED  BY <1>4, <1>9, <3>1, <3>2, <3>5, <3>6 DEF ToldAt
  <2>4. \A i \in 1..m + 1 : i \in 1..m \/ i = m + 1
    BY <1>6
  <2> HIDE DEF Good
  <2>. QED  BY <2>2, <2>3, <2>4
<1>. QED  BY <1>12, <1>16, <1>17

\* Every step of a task but an attempt leaves its events and what they say of
\* its steps alone.
LEMMA EventsKept ==
    ASSUME TypeOK, Placed, NEW t \in Task, Advance(t), ~Attempt(t)
    PROVE  /\ UNCHANGED events
           /\ \A u \in Task : /\ Len(steps[u]) \in Nat /\ Len(steps'[u]) \in Nat
                              /\ Len(steps'[u]) >= Len(steps[u])
                              /\ \A i \in 1..Len(steps[u]) :
                                    /\ steps'[u][i].tool = steps[u][i].tool
                                    /\ steps'[u][i].attempts = steps[u][i].attempts
<1> DEFINE Stand(u) == /\ Len(steps[u]) \in Nat /\ Len(steps'[u]) \in Nat
                       /\ Len(steps'[u]) >= Len(steps[u])
                       /\ \A i \in 1..Len(steps[u]) : /\ steps'[u][i].tool = steps[u][i].tool
                                                      /\ steps'[u][i].attempts = steps[u][i].attempts
<1>1. \A u \in Task : Len(steps[u]) \in Nat
  BY DEF TypeOK
<1>2. \A u \in Task : steps'[u] = steps[u] => Stand(u)
  BY <1>1
<1>3. CASE Submit(t)
  <2>1. Stand(t)
    BY <1>1, <1>3, Submitting
  <2>2. UNCHANGED events
    BY <1>3 DEF Submit
  <2> HIDE DEF Stand
  <2>. QED  BY <1>2, <1>3, <2>1, <2>2, Submitting DEF Stand
<1>4. CASE SettleInline(t) \/ SettleOffloaded(t)
  <2>1. PICK ref \in Nat \cup {None} : Settled(t, ref)
    BY <1>1, <1>4 DEF SettleInline, SettleOffloaded
  <2>2. Continue(t) /\ pc[t] = "settle" /\ UNCHANGED events
    BY <1>4 DEF SettleInline, SettleOffloaded
  <2> DEFINE n == Len(steps[t])
  <2>3. /\ Len(steps'[t]) = n /\ \A i \in 1..n \ {n} : steps'[t][i] = steps[t][i]
        /\ steps'[t][n].tool = steps[t][n].tool /\ steps'[t][n].attempts = steps[t][n].attempts
        /\ \A u \in Task \ {t} : steps'[u] = steps[u]
    BY <2>1, <2>2, Closing
  <2>4. Stand(t)
    BY <1>1, <2>3
  <2> HIDE DEF Stand
  <2>. QED  BY <1>2, <2>2, <2>3, <2>4 DEF Stand
<1>5. CASE SettleFails(t)
  <2>1. Stand(t) /\ \A u \in Task \ {t} : steps'[u] = steps[u]
    BY <1>1, <1>5, Failing
  <2>2. UNCHANGED events
    BY <1>5 DEF SettleFails
  <2> HIDE DEF Stand
  <2>. QED  BY <1>2, <2>1, <2>2 DEF Stand
<1>6. CASE StageInput(t) \/ StageFails(t) \/ Deliver(t) \/ GiveUp(t)
  <2>1. UNCHANGED <<steps, events>>
    BY <1>6 DEF StageInput, StageFails, Deliver, GiveUp, record
  <2>. QED  BY <1>2, <2>1
<1>. QED  BY <1>3, <1>4, <1>5, <1>6 DEF Advance, Settle

\* No attempt is made and no call submitted after one of unknown effect.
LEMMA HaltedStep == TypeOK /\ Placed /\ OwnContentOnly /\ Halted /\ Next => Halted'
<1> SUFFICES ASSUME TypeOK, Placed, OwnContentOnly, Halted, Next
             PROVE  Halted'
  OBVIOUS
<1> DEFINE Stops(u) == \A i \in 1..Len(events[u]) :
               events[u][i].reason = "execution_state_unknown" =>
                   /\ i = Len(events[u]) /\ events[u][i].step = Len(steps[u])
                   /\ pc[u] = "done" \/ (pc[u] = "settle" /\ result[u].terminal)
<1>0. /\ \A u \in Task : Stops(u)
      /\ pc \in [Task -> {"stage", "idle", "run", "settle", "done"}]
      /\ status \in [Task -> {"RUNNING", "SUCCESS", "FAILED"}]
  BY DEF Halted, TypeOK
<1>00. SUFFICES \A u \in Task : Stops(u)'
  BY DEF Halted
<1>1. ASSUME NEW t \in Task, Attempt(t)
      PROVE  \A u \in Task : Stops(u)'
  <2>1. PICK res : Yields(t, res) /\ Record(t, res)
    BY <1>1, AttemptEffect DEF Effect
  <2>2. pc[t] = "run" /\ res \in Result
    BY <1>1, <2>1, AttemptEffect DEF Effect, Yields
  <2>3. \A u \in Task \ {t} : /\ events'[u] = events[u] /\ steps'[u] = steps[u]
                              /\ pc'[u] = pc[u] /\ result'[u] = result[u]
    BY <2>1, <2>2, Recorded
  <2> DEFINE m == Len(events[t])
             e(why) == [step |-> Len(steps[t]), attempt |-> attempt[t] + 1, error |-> res.error,
                        ran |-> res.ran, reason |-> why]
  <2>4. PICK why \in Reasons :
          /\ events'[t] = Append(events[t], e(why))
          /\ why = "execution_state_unknown" => res.terminal /\ pc'[t] = "settle"
    BY <2>1, <2>2, Recorded
  <2>5. result'[t] = res /\ Len(steps'[t]) = Len(steps[t])
    BY <2>1, <2>2, Recorded
  <2>6. e(why).step = Len(steps[t]) /\ e(why).reason = why
    OBVIOUS
  <2>7. m \in Nat /\ events[t] \in Seq(Event)
    BY DEF TypeOK
  <2> HIDE DEF e
  <2>8. /\ Len(events'[t]) = m + 1 /\ events'[t][m + 1] = e(why)
        /\ \A i \in 1..m : events'[t][i] = events[t][i]
    BY <2>4, <2>7
  <2>9. \A i \in 1..m : events[t][i].reason # "execution_state_unknown"
    BY <1>0, <2>2
  <2>10. ASSUME NEW i \in 1..Len(events'[t]), events'[t][i].reason = "execution_state_unknown"
         PROVE  /\ i = Len(events'[t]) /\ events'[t][i].step = Len(steps'[t])
                /\ pc'[t] = "settle" /\ result'[t].terminal
    <3>1. i = m + 1
      BY <2>7, <2>8, <2>9, <2>10
    <3>. QED  BY <2>4, <2>5, <2>6, <2>8, <2>10, <3>1
  <2>11. Stops(t)'
    BY <2>10
  <2>. QED  BY <1>0, <2>3, <2>11
<1>2. ASSUME NEW t \in Task, Advance(t), ~Attempt(t)
      PROVE  \A u \in Task : Stops(u)'
  <2>1. UNCHANGED events
    BY <1>2, EventsKept
  <2> DEFINE Kept(u) == Len(steps'[u]) = Len(steps[u]) /\ pc'[u] = pc[u] /\ result'[u] = result[u]
  <2>2. ASSUME \A u \in Task \ {t} : Kept(u),
               \/ pc[t] \in {"stage", "idle"}
               \/ Len(steps'[t]) = Len(steps[t]) /\ (pc'[t] = "done" \/ (~result[t].terminal /\ pc[t] # "done"))
        PROVE  \A u \in Task : Stops(u)'
    <3>1. \A u \in Task \ {t} : Stops(u)'
      BY <1>0, <2>1, <2>2
    <3>2. CASE pc[t] \in {"stage", "idle"}
      <4>1. \A i \in 1..Len(events[t]) : events[t][i].reason # "execution_state_unknown"
        BY <1>0, <3>2
      <4>. QED  BY <2>1, <3>1, <4>1
    <3>3. CASE Len(steps'[t]) = Len(steps[t]) /\ (pc'[t] = "done" \/ (~result[t].terminal /\ pc[t] # "done"))
      <4>1. Stops(t)'
        BY <1>0, <2>1, <3>3
      <4>. QED  BY <3>1, <4>1
    <3>. QED  BY <2>2, <3>2, <3>3
  <2>3. CASE StageInput(t) \/ StageFails(t) \/ Deliver(t) \/ GiveUp(t)
    <3>1. pc[t] \in {"stage", "idle"} /\ \A u \in Task \ {t} : Kept(u)
      BY <1>0, <2>3 DEF StageInput, StageFails, Deliver, GiveUp, End, record
    <3>. QED  BY <2>2, <3>1
  <2>4. CASE Submit(t)
    <3>1. pc[t] = "idle" /\ \A u \in Task \ {t} : Kept(u)
      BY <1>0, <2>4, Submitting DEF Submit
    <3>. QED  BY <2>2, <3>1
  <2>5. CASE SettleInline(t) \/ SettleOffloaded(t)
    <3>1. PICK ref \in Nat \cup {None} : Settled(t, ref)
      <4>1. Len(steps[t]) \in Nat
        BY DEF TypeOK
      <4>. QED  BY <2>5, <4>1 DEF SettleInline, SettleOffloaded
    <3>2. Continue(t) /\ pc[t] = "settle"
      BY <2>5 DEF SettleInline, SettleOffloaded
    <3>3. Len(steps'[t]) = Len(steps[t]) /\ \A u \in Task \ {t} : steps'[u] = steps[u]
      BY <3>1, <3>2, Closing
    <3>4. result[t].terminal => pc'[t] = "done"
      BY <1>0, <3>2 DEF Continue, End
    <3>5. \A u \in Task \ {t} : Kept(u)
      BY <3>2, <3>3, Continuing
    <3>. QED  BY <2>2, <3>2, <3>3, <3>4, <3>5
  <2>6. CASE SettleFails(t)
    <3>1. pc'[t] = "done" /\ Len(steps'[t]) = Len(steps[t]) /\ \A u \in Task \ {t} : Kept(u)
      BY <1>0, <2>6, Failing DEF SettleFails, End
    <3>. QED  BY <2>2, <3>1
  <2> HIDE DEF Stops
  <2>. QED  BY <1>2, <2>3, <2>4, <2>5, <2>6 DEF Advance, Settle
<1>3. CASE UNCHANGED vars
  BY <1>0, <1>3 DEF vars
<1>. QED  BY <1>1, <1>2, <1>3 DEF Next, Finished

LEMMA ToldStep ==
    TypeOK /\ Placed /\ Told /\ Halted /\ AttemptsAreTold /\ OwnContentOnly /\ Next
        => Told' /\ AttemptsAreTold'
<1> SUFFICES ASSUME TypeOK, Placed, Told, Halted, AttemptsAreTold, OwnContentOnly, Next
             PROVE  Told' /\ AttemptsAreTold'
  OBVIOUS
<1> DEFINE Hand(u) == InHand(events[u], steps[u], call[u].tool, pc[u], attempt[u])
           All(u) == InOrder(events[u], steps[u]) /\ AllTold(events[u], steps[u])
<1>1. \A u \in Task : All(u) /\ Hand(u)
  BY OfEach
<1>2. SUFFICES \A u \in Task : All(u)' /\ Hand(u)'
  <2>1. ASSUME \A u \in Task : All(u)' /\ Hand(u)'
        PROVE  Told'
    BY <2>1 DEF Told, InOrder, InHand
  <2>2. ASSUME \A u \in Task : All(u)'
        PROVE  AttemptsAreTold'
    <3>1. \A u \in Task : StopsAt(events[u], steps[u])'
      BY HaltedStep DEF Halted, StopsAt
    <3>. QED  BY <2>2, <3>1 DEF AttemptsAreTold, AllTold, ToldAt, StopsAt
  <2>. QED  BY <2>1, <2>2
<1>3. MaxAttempts \in Nat \ {0}
  BY GateAssumption
<1>4. CASE UNCHANGED vars
  BY <1>1, <1>4 DEF vars
<1>5. ASSUME NEW t \in Task, Attempt(t)
      PROVE  \A u \in Task : All(u)' /\ Hand(u)'
  <2>1. All(t)' /\ Hand(t)'
    BY <1>5, AppendedEvent
  <2>2. Effect(t)
    BY <1>5, AttemptEffect
  <2>3. PICK res : Yields(t, res) /\ Record(t, res)
    BY <2>2 DEF Effect
  <2>4. UNCHANGED call /\ pc[t] = "run" /\ res \in Result
    BY <2>2, <2>3 DEF Record, Effect, Yields
  <2>5. \A u \in Task \ {t} : /\ attempt'[u] = attempt[u] /\ events'[u] = events[u]
                              /\ steps'[u] = steps[u] /\ pc'[u] = pc[u]
    BY <2>3, <2>4, Recorded
  <2>. QED  BY <1>1, <2>1, <2>4, <2>5
<1>6. ASSUME NEW t \in Task, Advance(t), ~Attempt(t)
      PROVE  \A u \in Task : All(u)' /\ Hand(u)'
  <2>1. \A u \in Task : All(u)'
    BY <1>1, <1>6, EventsKept, EventsStand
  <2>2. UNCHANGED events
    BY <1>6, EventsKept
  <2>3. pc \in [Task -> {"stage", "idle", "run", "settle", "done"}] /\ attempt \in [Task -> Nat]
    BY DEF TypeOK
  <2>4. \A u \in Task \ {t} : /\ call'[u] = call[u] /\ steps'[u] = steps[u]
                              /\ pc'[u] = pc[u] /\ attempt'[u] = attempt[u]
    <3>1. CASE StageInput(t) \/ StageFails(t) \/ Deliver(t) \/ GiveUp(t)
      BY <2>3, <3>1 DEF StageInput, StageFails, Deliver, GiveUp, End, record
    <3>2. CASE Submit(t)
      BY <2>3, <3>2, Submitting DEF Submit
    <3>3. CASE SettleInline(t) \/ SettleOffloaded(t)
      <4>1. PICK ref : Settled(t, ref)
        BY <3>3 DEF SettleInline, SettleOffloaded
      <4>2. \A u \in Task \ {t} : steps'[u] = steps[u]
        BY <4>1 DEF Settled, TypeOK
      <4>. QED  BY <3>3, <4>2, Continuing DEF SettleInline, SettleOffloaded
    <3>4. CASE SettleFails(t)
      BY <2>3, <3>4, Failing DEF SettleFails, End
    <3>. QED  BY <1>6, <3>1, <3>2, <3>3, <3>4 DEF Advance, Settle
  <2>5. Hand(t)'
    <3>1. CASE StageInput(t)
      <4>1. pc'[t] \in {"stage", "idle"} /\ attempt'[t] = attempt[t] /\ pc[t] = "stage"
        BY <2>3, <3>1 DEF StageInput
      <4>. QED  BY <1>1, <1>3, <2>3, <4>1 DEF InHand
    <3>2. CASE StageFails(t) \/ Deliver(t) \/ GiveUp(t) \/ SettleFails(t)
      <4>1. pc'[t] = "done"
        BY <2>3, <3>2 DEF StageFails, Deliver, GiveUp, SettleFails, End
      <4>. QED  BY <4>1 DEF InHand
    <3>3. CASE SettleInline(t) \/ SettleOffloaded(t)
      <4>1. pc'[t] \in {"idle", "done"} /\ attempt'[t] = 0
        BY <3>3, Continuing DEF SettleInline, SettleOffloaded
      <4>. QED  BY <4>1 DEF InHand
    <3>4. CASE Submit(t)
      <4>1. pc[t] = "idle" /\ pc'[t] = "run" /\ attempt'[t] = attempt[t]
        BY <2>3, <3>4 DEF Submit
      <4>2. attempt'[t] = 0
        BY <1>1, <4>1 DEF InHand
      <4>3. Len(steps'[t]) = Len(steps[t]) + 1 /\ Len(steps[t]) \in Nat
        <5>1. Len(steps[t]) \in Nat
          BY DEF TypeOK
        <5>. QED  BY <3>4, <5>1, Submitting
      <4>4. \A i \in 1..Len(events'[t]) : events'[t][i].step < Len(steps'[t])
        BY <1>1, <2>2, <4>3 DEF InOrder
      <4>. QED  BY <1>3, <4>1, <4>2, <4>4 DEF InHand
    <3>. QED  BY <1>6, <3>1, <3>2, <3>3, <3>4 DEF Advance, Settle
  <2>6. \A u \in Task \ {t} : Hand(u)'
    BY <1>1, <2>2, <2>4
  <2> HIDE DEF Hand, All
  <2>. QED  BY <2>1, <2>5, <2>6
<1>. QED  BY <1>4, <1>5, <1>6 DEF Next, Finished

-----------------------------------------------------------------------------
(* Deliveries                                                               *)

\* Only delivering makes a task successful, and no task changes another's outcome.
LEMMA Outcomes ==
    ASSUME TypeOK, Placed, OwnContentOnly, NEW t \in Task, Advance(t)
    PROVE  /\ pc[t] # "done"
           /\ status'[t] = "SUCCESS" => Deliver(t)
           /\ \A u \in Task \ {t} : status'[u] = status[u] /\ artifacts'[u] = artifacts[u]
<1>1. /\ status \in [Task -> {"RUNNING", "SUCCESS", "FAILED"}]
      /\ pc[t] # "done" => status[t] = "RUNNING"
  BY DEF TypeOK, Placed
<1>2. CASE Attempt(t)
  <2>1. pc[t] = "run" /\ UNCHANGED <<status, artifacts>>
    BY <1>2, AttemptEffect DEF Effect, Record
  <2>. QED  BY <1>1, <2>1
<1>3. CASE SettleInline(t) \/ SettleOffloaded(t)
  <2>1. pc[t] = "settle" /\ Continue(t)
    BY <1>3 DEF SettleInline, SettleOffloaded
  <2>. QED  BY <1>1, <2>1, Continuing
<1>4. CASE StageInput(t) \/ StageFails(t) \/ Submit(t) \/ SettleFails(t) \/ Deliver(t) \/ GiveUp(t)
  BY <1>1, <1>4 DEF StageInput, StageFails, Submit, SettleFails, Deliver, GiveUp, End, record
<1>. QED  BY <1>2, <1>3, <1>4 DEF Advance, Settle

\* The record a of task u agrees with the bucket.
Stored(u, a) ==
    /\ a.key \in DOMAIN objects
    /\ objects[a.key].task = u /\ objects[a.key].size > 0
    /\ a.size > 0 => objects[a.key].size = a.size

LEMMA DeliveredStep ==
    TypeOK /\ Placed /\ Held /\ OwnContentOnly /\ DeliveredIsStored /\ Next => DeliveredIsStored'
<1> SUFFICES ASSUME TypeOK, Placed, Held, OwnContentOnly, DeliveredIsStored, Next
             PROVE  DeliveredIsStored'
  OBVIOUS
<1>1. CASE UNCHANGED vars
  BY <1>1 DEF DeliveredIsStored, vars
<1>2. ASSUME NEW t \in Task, Advance(t), NEW u \in Task, status'[u] = "SUCCESS",
             NEW i \in 1..Len(artifacts'[u])
      PROVE  Stored(u, artifacts[u][i])'
  <2> DEFINE k == artifacts[u][i].key
  <2>1. CASE u = t
    <3>1. ArtifactsHold(t) /\ UNCHANGED <<artifacts, objects>>
      BY <1>2, <2>1, Outcomes DEF Deliver, world
    <3>2. Confirmed(artifacts[u][i]) /\ Under(Report(u), k)
      BY <1>2, <2>1, <3>1 DEF ArtifactsHold, Held
    <3>3. k \in DOMAIN objects
      BY <3>2 DEF Confirmed, Stat
    <3>4. objects[k].task = u
      BY <3>2, <3>3 DEF OwnContentOnly
    <3>5. objects[k].size \in Nat /\ artifacts[u][i].size \in Nat
      <4>1. objects[k] \in Content
        BY <3>3 DEF TypeOK
      <4>2. artifacts[u] \in Seq(Artifact) /\ i \in 1..Len(artifacts[u])
        BY <1>2, <3>1 DEF TypeOK
      <4>3. artifacts[u][i] \in Artifact
        BY <4>2
      <4> HIDE DEF k
      <4>. QED  BY <4>1, <4>3 DEF Content, Artifact
    <3>6. objects[k].size > 0 /\ (artifacts[u][i].size > 0 => objects[k].size = artifacts[u][i].size)
      BY <3>2, <3>3, <3>5 DEF Confirmed, Stat
    <3>. QED  BY <3>1, <3>3, <3>4, <3>6 DEF Stored
  <2>2. CASE u # t
    <3>1. status[u] = "SUCCESS" /\ artifacts'[u] = artifacts[u]
      BY <1>2, <2>2, Outcomes
    <3>2. Stored(u, artifacts[u][i]) /\ Under(Report(u), k)
      BY <1>2, <3>1 DEF DeliveredIsStored, Stored, Held
    <3>3. k \in DOMAIN objects
      BY <3>2 DEF Stored
    <3>4. k \in DOMAIN objects' /\ objects'[k] = objects[k]
      <4>1. CASE UNCHANGED objects
        BY <3>3, <4>1
      <4>2. CASE ~UNCHANGED objects
        <5>1. PICK key \in Seq(Name), c \in Content : Under(Report(t), key) /\ objects' = Put(objects, key, c)
          BY <1>2, <4>2, WorldChange DEF Uploaded
        <5>2. key # k
          BY <2>2, <3>2, <5>1, Apart
        <5> HIDE DEF k
        <5>. QED  BY <3>3, <5>1, <5>2 DEF Put
      <4>. QED  BY <4>1, <4>2
    <3>. QED  BY <3>1, <3>2, <3>3, <3>4 DEF Stored
  <2>. QED  BY <2>1, <2>2
<1>. QED  BY <1>1, <1>2 DEF Next, Finished, DeliveredIsStored, Stored

-----------------------------------------------------------------------------
(* Theorems                                                                 *)

LEMMA InitIInv == Init => IInv
<1> SUFFICES ASSUME Init
             PROVE  IInv
  OBVIOUS
<1>1. NoResult \in Result /\ NoResult.shown = None /\ NoResult.artifact = None
  BY DEF NoResult, Result
<1>2. TypeOK
  BY <1>1, ToolAssumption DEF Init, TypeOK
<1>3. Placed
  <2>1. \A t \in Task : Inputs[t] # <<>> => 0 < Len(Inputs[t])
    BY ToolAssumption
  <2>. QED  BY <2>1 DEF Init, Placed
<1>4. Held /\ PagesFit
  BY <1>1 DEF Init, Held, PagesFit
<1>5. Told /\ Halted /\ AttemptsAreTold
  BY DEF Init, Told, Halted, AttemptsAreTold
<1>6. OwnContentOnly /\ OutputsAreKept /\ DeliveredIsStored
  BY DEF Init, OwnContentOnly, OutputsAreKept, DeliveredIsStored
<1>. QED  BY <1>2, <1>3, <1>4, <1>5, <1>6 DEF IInv

LEMMA Stuttering == IInv /\ UNCHANGED vars => IInv'
<1> SUFFICES ASSUME IInv, UNCHANGED vars
             PROVE  IInv'
  OBVIOUS
<1>1. TypeOK' /\ Placed' /\ Held' /\ PagesFit'
  BY DEF IInv, vars, TypeOK, Placed, Held, PagesFit
<1>2. Told' /\ Halted' /\ AttemptsAreTold'
  BY DEF IInv, vars, Told, Halted, AttemptsAreTold
<1>3. OwnContentOnly' /\ OutputsAreKept' /\ DeliveredIsStored'
  BY DEF IInv, vars, OwnContentOnly, OutputsAreKept, Available, DeliveredIsStored
<1>. QED  BY <1>1, <1>2, <1>3 DEF IInv

LEMMA Inductive == Spec => []IInv
<1>1. IInv /\ [Next]_vars => IInv'
  BY Stuttering, TypeStep, PlacedStep, HeldStep, PagesStep, HaltedStep, ToldStep, OwnStep, KeptStep, DeliveredStep DEF IInv
<1>. QED  BY <1>1, InitIInv, PTL DEF Spec

\* Every variable has its type, whatever the tasks, inputs and requests are.
THEOREM TypeCorrect == Spec => []TypeOK
BY Inductive, PTL DEF IInv

\* Whatever paths, keys and references the models name, a task's directory,
\* report prefix and stored outputs, and what its model was shown, hold content
\* of that task alone.
THEOREM ContentIsOwn == Spec => []OwnContentOnly
BY Inductive, PTL DEF IInv

\* The retry events of every task tell what its attempts were, and only a tool
\* that opted in was entered again; after an attempt of unknown effect nothing
\* more is attempted or submitted.
THEOREM AttemptsTold == Spec => []AttemptsAreTold
BY Inductive, PTL DEF IInv

\* A settled step keeps its output: inline if it is small, else in the store;
\* a page is never stored again.
THEOREM OutputsKept == Spec => []OutputsAreKept
BY Inductive, PTL DEF IInv

\* What a successful task delivers is in the bucket, its own, not empty and of
\* the size its record tells if it tells one, whatever the other tasks save.
THEOREM DeliveredStays == Spec => []DeliveredIsStored
BY Inductive, PTL DEF IInv

=============================================================================
