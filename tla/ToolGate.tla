------------------------------ MODULE ToolGate ------------------------------
(***************************************************************************)
(* The decisions around one tool call that touch no state: which paths and *)
(* object keys a task may name (security/permission_manager.py), how the   *)
(* registry binds and refuses a call (tools/tool_registry.py), how a       *)
(* failure is classified and whether it is retried (retry/retry_policy.py, *)
(* tools/base_tool.py), and how a stored output is cut into pages          *)
(* (context/tool_output_store.py).                                         *)
(*                                                                         *)
(* A path or a key is the sequence of its names.  What a spelling can do   *)
(* beyond that (empty, control characters, a leading "//", "x//y") is a    *)
(* field of the text the model submits.                                    *)
(***************************************************************************)
EXTENDS Naturals, Sequences

CONSTANTS Task,               (* task ids; each is one name                  *)
          Name,               (* the names paths and keys are made of        *)
          Workspace,          (* sandbox_workspace                           *)
          ReportPrefix,       (* report_prefix                               *)
          InputPrefix,        (* input_prefix                                *)
          AllowedTools,       (* allowed_tools                               *)
          AllowedPermissions, (* allowed_permissions                         *)
          MaxAttempts,        (* max_attempts of the retry policy            *)
          None                (* an argument, a result that is not there     *)

Up == ".."

ASSUME GateAssumption ==
    /\ Task \subseteq Name /\ Up \in Name \ Task
    /\ {"tasks", "out"} \subseteq Name
    /\ Workspace \in Seq(Name) \ {<<>>}
    /\ ReportPrefix \in Seq(Name) \ {<<>>}
    /\ InputPrefix \in Seq(Name) \ {<<>>}
    /\ MaxAttempts \in Nat \ {0}

-----------------------------------------------------------------------------
(* Paths and keys                                                           *)

Text == [abs : BOOLEAN, parts : Seq(Name),
         spelling : {"plain", "redundant", "empty", "control", "slashes"}]

\* p lies strictly below root.
Under(root, p) ==
    /\ Len(root) < Len(p)
    /\ \A i \in 1..Len(root) : p[i] = root[i]

\* _path_parts refuses the text.
Malformed(text) ==
    \/ text.spelling \in {"empty", "control", "slashes"}
    \/ \E i \in 1..Len(text.parts) : text.parts[i] = Up

Target(root, text) == IF text.abs THEN text.parts ELSE root \o text.parts

\* workspace_path accepts the text and returns Target(root, text).
\* Mutant: an absolute path is only held against the whole workspace.
WorkspacePathAnywhere(root, text) ==
    /\ ~Malformed(text)
    /\ Under(Workspace, Target(root, text))

WorkspacePath(root, text) ==
    /\ ~Malformed(text)
    /\ Under(root, Target(root, text))

\* object_key accepts the text: keys are not rewritten, so any spelling that
\* normalising would change is refused too.
ObjectKey(prefix, text) ==
    /\ ~Malformed(text)
    /\ ~text.abs /\ text.spelling = "plain"
    /\ Under(prefix, text.parts)

TaskDirectory(t) == Workspace \o <<"tasks", t>>

\* Mutant: a key that already names a directory below the prefix is kept.
TaskObjectKeyKept(t, text) ==
    IF Len(text.parts) > Len(ReportPrefix) + 1 THEN text.parts
    ELSE ReportPrefix \o <<t>> \o SubSeq(text.parts, Len(ReportPrefix) + 1, Len(text.parts))

\* The key the call gets: the requested one re-rooted under the task's own.
TaskObjectKey(t, text) ==
    ReportPrefix \o <<t>> \o SubSeq(text.parts, Len(ReportPrefix) + 1, Len(text.parts))

-----------------------------------------------------------------------------
(* The registered tools                                                     *)

\* code: runs in the sandbox, in the task's directory (task_scoped_cwd);
\* context: the registry adds the task id (requires_task_context).
RunPython == [name |-> "run_python", needs |-> {"sandbox.execute"}, safe |-> FALSE,
              file |-> FALSE, key |-> FALSE, code |-> TRUE, context |-> FALSE]
ReadFile == [name |-> "read_file", needs |-> {"file.read"}, safe |-> TRUE,
             file |-> TRUE, key |-> FALSE, code |-> FALSE, context |-> FALSE]
ParseDocument == [name |-> "parse_document", needs |-> {"file.read", "sandbox.execute"},
                  safe |-> TRUE, file |-> TRUE, key |-> FALSE, code |-> TRUE, context |-> FALSE]
SaveReport == [name |-> "save_report", needs |-> {"file.read", "artifact.write"}, safe |-> FALSE,
               file |-> TRUE, key |-> TRUE, code |-> FALSE, context |-> FALSE]
ReadToolOutput == [name |-> "read_tool_output", needs |-> {"tool_output.read"}, safe |-> TRUE,
                   file |-> FALSE, key |-> FALSE, code |-> FALSE, context |-> TRUE]
SearchMemory == [name |-> "search_memory", needs |-> {"memory.read"}, safe |-> TRUE,
                 file |-> FALSE, key |-> FALSE, code |-> FALSE, context |-> TRUE]

Registered == {RunPython, ReadFile, ParseDocument, SaveReport, ReadToolOutput, SearchMemory}

Known(name) == \E tool \in Registered : tool.name = name
Tool(name) == CHOOSE tool \in Registered : tool.name = name
RetrySafe(name) == Known(name) /\ Tool(name).safe

AllowsTool(tool) == tool.name \in AllowedTools /\ tool.needs \subseteq AllowedPermissions

\* A call as the model submits it; valid says whether the arguments are an
\* object that matches the tool's schema.
Request == [tool : STRING, valid : BOOLEAN, file : Text \cup {None}, key : Text \cup {None},
            ref : (Task \X Nat) \cup {None}]

\* _bind_to_task: file arguments resolve in the task's directory, keys move
\* under the task's prefix.
Binds(t, r) ==
    /\ Tool(r.tool).file => WorkspacePath(TaskDirectory(t), r.file)
    /\ Tool(r.tool).key => ObjectKey(ReportPrefix, r.key)
BoundFile(t, r) == Target(TaskDirectory(t), r.file)
BoundKey(t, r) == TaskObjectKey(t, r.key)

\* PermissionManager.check repeats the test on the bound values.
Checks(t, r) ==
    /\ AllowsTool(Tool(r.tool))
    /\ Tool(r.tool).file => Under(Workspace, BoundFile(t, r))
    /\ Tool(r.tool).key => Under(ReportPrefix, BoundKey(t, r))

\* registry.execute: why the call is refused, in the order of its tests.
Refusal(t, r) ==
    IF ~Known(r.tool) THEN "INVALID_ARGUMENT"
    ELSE IF ~AllowsTool(Tool(r.tool)) THEN "PERMISSION_DENIED"
    ELSE IF ~r.valid THEN "INVALID_ARGUMENT"
    ELSE IF ~Binds(t, r) \/ ~Checks(t, r) THEN "PERMISSION_DENIED"
    ELSE None

-----------------------------------------------------------------------------
(* Failures and retries                                                     *)

ErrorType == {"TRANSIENT", "TIMEOUT", "INVALID_ARGUMENT", "PERMISSION_DENIED", "EXECUTION", "BUSINESS"}
Retryable == {"TRANSIENT", "TIMEOUT"}

\* What one exception says by itself; an exception class the policy does not
\* look at says nothing.
LinkType(e) ==
    CASE e \in {"PermissionError", "StatusDenied"} -> "PERMISSION_DENIED"
      [] e \in {"MissingPath", "ValueError", "StatusInvalid"} -> "INVALID_ARGUMENT"
      [] e \in {"TimeoutError", "ReadTimeout"} -> "TIMEOUT"
      [] e \in {"ConnectionError", "OSErrorAgain", "StatusBusy"} -> "TRANSIENT"
      [] e = "OSError" -> "BUSINESS"
      [] OTHER -> None

\* classify_exception: the first link of the chain of causes that says
\* something decides.
Classify(chain) ==
    LET telling == {i \in 1..Len(chain) : LinkType(chain[i]) # None}
    IN  IF telling = {} THEN "BUSINESS"
        ELSE LinkType(chain[CHOOSE i \in telling : \A j \in telling : i <= j])

\* Mutant: the policy forgets the tool's opt-in.
DecideReplaying(attempt, error, safe, terminal) ==
    IF terminal THEN "execution_state_unknown"
    ELSE IF error \notin Retryable THEN "non_retryable"
    ELSE IF attempt >= MaxAttempts THEN "max_attempts_exhausted"
    ELSE "retry"

\* Why the loop goes on or ends.
Reasons == {"success", "retry", "execution_state_unknown", "non_retryable",
            "unsafe_to_replay", "max_attempts_exhausted"}

\* The loop of _invoke_tool asks the policy unless the state is unknown.
Decide(attempt, error, safe, terminal) ==
    IF terminal THEN "execution_state_unknown"
    ELSE IF error \notin Retryable THEN "non_retryable"
    ELSE IF ~safe THEN "unsafe_to_replay"
    ELSE IF attempt >= MaxAttempts THEN "max_attempts_exhausted"
    ELSE "retry"

-----------------------------------------------------------------------------
(* Pages of a stored output                                                 *)

\* read_page: the characters from .. to-1 of a content of that length, and
\* where the next page starts.
Page(length, offset, limit) ==
    LET end == IF offset + limit < length THEN offset + limit ELSE length
    IN  [from |-> offset,
         to   |-> IF offset < length THEN end ELSE offset,
         next |-> IF end < length THEN end ELSE None]

=============================================================================
