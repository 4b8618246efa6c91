---------------------------- MODULE ContextLoop ----------------------------
(***************************************************************************)
(* What one executor run sends to the model: the message history kept      *)
(* below the context limits (context/manager.py, compactor.py), the token  *)
(* budget of the task (metering/) and the bounded attempts of each call    *)
(* (agent/llm_client.py).                                                  *)
(*                                                                         *)
(* A group is an assistant message with its tool results (message_groups): *)
(* its size in tokens, and the result_refs its text mentions.  The summary *)
(* has a size, refs, and the version of the plan it describes; version 0   *)
(* stands for no summary.                                                  *)
(***************************************************************************)
EXTENDS Naturals, Sequences, FiniteSets, Functions

CONSTANTS Refs,             (* result_refs of offloaded outputs              *)
          Pinned,           (* tokens of the pinned messages and tools       *)
          Sizes,            (* tokens of a group                             *)
          SummarySizes,     (* tokens of a summary                           *)
          TargetTokens, SoftLimit, HardLimit,
          RecentGroups,     (* groups kept out of compaction                 *)
          FailureThreshold, (* failed compactions that open the circuit      *)
          CompactAttempts,  (* requests of one compaction                    *)
          LlmAttempts,      (* attempts of one request                       *)
          SoftBudget, HardBudget,
          Usage,            (* tokens one response reports, 0 for none       *)
          MaxIterations, MaxReplans,
          MaxCalls          (* bound on the tool calls of a turn             *)

ASSUME ContextAssumption ==
    /\ Pinned \in Nat /\ Sizes \subseteq Nat /\ SummarySizes \subseteq Nat \ {0}
    /\ TargetTokens \in Nat \ {0} /\ SoftLimit \in Nat /\ HardLimit \in Nat
    /\ TargetTokens < SoftLimit /\ SoftLimit < HardLimit
    /\ RecentGroups \in Nat
    /\ FailureThreshold \in Nat \ {0} /\ CompactAttempts \in Nat \ {0}
    /\ LlmAttempts \in Nat \ {0}
    /\ SoftBudget \in Nat \ {0} /\ HardBudget \in Nat /\ SoftBudget < HardBudget
    /\ Usage \subseteq Nat /\ 0 \in Usage
    /\ MaxIterations \in Nat \ {0} /\ MaxReplans \in Nat /\ MaxCalls \in Nat

VARIABLES groups,     (* the history behind the pinned messages              *)
          summary,    (* session.summary                                     *)
          failures,   (* consecutive_failures of the session                 *)
          open,       (* circuit_open of the session                         *)
          total,      (* budgeted_total_tokens of the task                   *)
          at,         (* where the run is; the model calls by their phase    *)
          attempt,    (* attempt of the model call in progress               *)
          tries,      (* request of the compaction in progress               *)
          turn,       (* refs in the results of the current turn             *)
          left,       (* its calls still to be handled                       *)
          iteration,
          plan,       (* version of the plan                                 *)
          given       (* refs the model has been given in this run           *)

session == <<summary, failures, open>>
turnState == <<turn, left, given>>
vars == <<groups, summary, failures, open, total, at, attempt, tries, turn, left,
          iteration, plan, given>>

Group == [size : Sizes, refs : SUBSET Refs]
NoSummary == [size |-> 0, refs |-> {}, plan |-> 0]
Summary == [size : SummarySizes, refs : SUBSET Refs, plan : 1..(1 + MaxReplans)]
ModelCalls == {"plan", "compact", "execute", "replan"}

TypeOK ==
    /\ groups \in Seq(Group) /\ Len(groups) < MaxIterations
    /\ summary \in Summary \cup {NoSummary}
    /\ failures \in 0..FailureThreshold
    /\ open = (failures = FailureThreshold)
    /\ total \in Nat
    /\ at \in ModelCalls \cup {"begin", "calls", "answered", "failed"}
    /\ attempt \in 1..LlmAttempts
    /\ tries \in 1..CompactAttempts
    /\ turn \in SUBSET Refs
    /\ left \in 0..MaxCalls
    /\ iteration \in 1..MaxIterations
    /\ plan \in 0..(1 + MaxReplans)
    /\ given \in SUBSET Refs

Init ==
    /\ groups = <<>>
    /\ summary = NoSummary
    /\ failures = 0
    /\ open = FALSE
    /\ total = 0
    /\ at = "plan"
    /\ attempt = 1
    /\ tries = 1
    /\ turn = {}
    /\ left = 0
    /\ iteration = 1
    /\ plan = 0
    /\ given = {}

-----------------------------------------------------------------------------
(* Estimates                                                                *)

RefsOf(gs) == UNION {gs[i].refs : i \in DOMAIN gs}
Rest(gs, k) == SubSeq(gs, k + 1, Len(gs))

TokensOf(gs) == SumFunction([i \in DOMAIN gs |-> gs[i].size])

\* The estimate of a prompt.  (The calibration of the estimator by the usage that
\* the provider reports is left out.)
Tokens(s, gs) == Pinned + s.size + TokensOf(gs)

\* How many groups a compaction would replace.
CompactCount == IF Len(groups) > RecentGroups THEN Len(groups) - RecentGroups ELSE 0

\* There is something to compact, and compactions have not failed too often.
MayCompact == CompactCount > 0 /\ ~open

\* Mutant: the summary keeps the plan it was made with.
NotRefreshed == {summary}

\* The summary with the runtime's own fields renewed; its length may change.
Refreshed ==
    IF summary = NoSummary THEN {NoSummary}
    ELSE {[summary EXCEPT !.plan = plan, !.size = z] : z \in SummarySizes}

-----------------------------------------------------------------------------
(* The prompt                                                               *)

Call(phase) == at' = phase /\ attempt' = 1

Fail == at' = "failed" /\ UNCHANGED attempt

\* Mutant: the budget is not looked at after a compaction.
SendOverBudget(s, gs) ==
    /\ summary' = s
    /\ groups' = gs
    /\ IF Tokens(s, gs) <= HardLimit THEN Call("execute") ELSE Fail

\* Mutant: no hard limit.
SendOversized(s, gs) ==
    /\ summary' = s
    /\ groups' = gs
    /\ IF total' < HardBudget THEN Call("execute") ELSE Fail

\* The last checks before the model is called: _enforce_hard_limit, and the budget
\* once more, which a compaction may have used up.
Send(s, gs) ==
    /\ summary' = s
    /\ groups' = gs
    /\ IF Tokens(s, gs) <= HardLimit /\ total' < HardBudget THEN Call("execute") ELSE Fail

\* _deterministic_trim: groups go from the oldest on until the estimate is at the
\* target.  The summary that stands for k of them is built anew each time, so its
\* size may be another one for each k.
Trim(s, gs) ==
    \E k \in 0..Len(gs) :
        /\ \A j \in 0..(k - 1) :
              IF j = 0 THEN Tokens(s, gs) > TargetTokens
              ELSE \E z \in SummarySizes : Tokens([s EXCEPT !.size = z], Rest(gs, j)) > TargetTokens
        /\ \E t \in IF k = 0 THEN {s}
                    ELSE {[size |-> z, refs |-> s.refs \cup RefsOf(SubSeq(gs, 1, k)), plan |-> plan] :
                             z \in SummarySizes} :
              /\ k = Len(gs) \/ Tokens(t, Rest(gs, k)) <= TargetTokens
              /\ Send(t, Rest(gs, k))

\* before_call: the run ends when the budget is used up.  That is so when a replan
\* whose plan was rejected has used it up, after which nobody has looked.
OverBudget ==
    /\ at = "begin" /\ total >= HardBudget
    /\ Fail
    /\ UNCHANGED <<groups, session, total, tries, turnState, iteration, plan>>

\* prepare, up to the first model call that it or the run makes.
Prepare ==
    /\ at = "begin" /\ total < HardBudget
    /\ UNCHANGED <<failures, open, total, turnState, iteration, plan>>
    /\ \E s \in Refreshed :
          LET tokens == Tokens(s, groups)
              pressing == tokens > SoftLimit \/ total >= SoftBudget
          IN \/ /\ ~pressing \/ (~MayCompact /\ ~open /\ tokens <= HardLimit)
                /\ Send(s, groups) /\ UNCHANGED tries
             \/ /\ pressing /\ ~MayCompact
                /\ open \/ tokens > HardLimit
                /\ Trim(s, groups) /\ UNCHANGED tries
             \/ /\ pressing /\ MayCompact
                /\ summary' = s /\ tries' = 1 /\ Call("compact")
                /\ UNCHANGED groups

-----------------------------------------------------------------------------
(* One model call (LLMClient.chat)                                          *)

\* A failed attempt is retried when its error is transient.
RetryCall ==
    /\ at \in ModelCalls /\ attempt < LlmAttempts
    /\ attempt' = attempt + 1
    /\ UNCHANGED <<groups, session, total, at, tries, turnState, iteration, plan>>

\* The exception of the last attempt leaves the run.
CallFails ==
    /\ at \in ModelCalls \ {"compact"}
    /\ Fail
    /\ UNCHANGED <<groups, session, total, tries, turnState, iteration, plan>>

Spend(used) == total' = total + used
WithinBudget == total' < HardBudget

\* The response to the planner is a plan, within the budget, or the task fails.
PlanReturned(used) ==
    /\ at = "plan"
    /\ Spend(used)
    /\ \/ WithinBudget /\ plan' = 1 /\ at' = "begin" /\ UNCHANGED attempt
       \/ Fail /\ UNCHANGED plan
    /\ UNCHANGED <<groups, session, tries, turnState, iteration>>

\* The executor's response: an answer or tool calls, and nothing over the budget.
ExecuteReturned(used) ==
    /\ at = "execute"
    /\ Spend(used)
    /\ turn' = {}
    /\ \/ ~WithinBudget /\ Fail /\ UNCHANGED left
       \/ WithinBudget /\ at' = "answered" /\ UNCHANGED <<attempt, left>>
       \/ WithinBudget /\ at' = "calls" /\ left' \in 1..MaxCalls /\ UNCHANGED attempt
    /\ UNCHANGED <<groups, session, tries, given, iteration, plan>>

-----------------------------------------------------------------------------
(* Compaction (ContextCompactor.compact)                                    *)

\* Mutant: refs are taken from the groups that were sent only.
CompactedRefsOfRequest == RefsOf(SubSeq(groups, tries, CompactCount))

\* The refs of all the groups that go, those left out of the request included.
CompactedRefs == RefsOf(SubSeq(groups, 1, CompactCount))

CompactionSucceeds(used) ==
    /\ at = "compact"
    /\ Spend(used)
    /\ failures' = 0
    /\ \E z \in SummarySizes :
          Trim([size |-> z, refs |-> summary.refs \cup CompactedRefs, plan |-> plan],
               Rest(groups, CompactCount))
    /\ UNCHANGED <<open, tries, turnState, iteration, plan>>

\* A request fails, or its response is no summary: the next one leaves out one
\* more of the oldest groups.
RetryCompaction(used) ==
    /\ at = "compact"
    /\ Spend(used)
    /\ tries < CompactAttempts /\ tries <= CompactCount
    /\ tries' = tries + 1
    /\ Call("compact")
    /\ UNCHANGED <<groups, session, turnState, iteration, plan>>

\* The last one fails: the history stays as it is, unless the circuit opens or it
\* is over the hard limit.
CompactionFails(used) ==
    /\ at = "compact"
    /\ Spend(used)
    /\ tries = CompactAttempts \/ tries > CompactCount
    /\ failures' = failures + 1
    /\ open' = (failures' >= FailureThreshold)
    /\ IF open' \/ Tokens(summary, groups) > HardLimit
       THEN Trim(summary, groups)
       ELSE Send(summary, groups)
    /\ UNCHANGED <<tries, turnState, iteration, plan>>

-----------------------------------------------------------------------------
(* The calls of a turn                                                      *)

\* Any call that is answered by one tool message, which may mention a ref.
Observe ==
    /\ at = "calls" /\ left > 0
    /\ \E refs \in SUBSET Refs :
          /\ Cardinality(refs) <= 1
          /\ turn' = turn \cup refs
          /\ given' = given \cup refs
    /\ left' = left - 1
    /\ UNCHANGED <<groups, session, total, at, attempt, tries, iteration, plan>>

\* A terminal result, or replans used up.
StopInTurn ==
    /\ at = "calls" /\ left > 0
    /\ Fail
    /\ UNCHANGED <<groups, session, total, tries, turnState, iteration, plan>>

StartReplan ==
    /\ at = "calls" /\ left > 0 /\ plan <= MaxReplans
    /\ Call("replan")
    /\ UNCHANGED <<groups, session, total, tries, turnState, iteration, plan>>

\* An invalid plan is reported to the model; the budget is checked for a valid
\* one only.
ReplanReturned(used) ==
    /\ at = "replan"
    /\ Spend(used)
    /\ \/ at' = "calls" /\ left' = left - 1 /\ UNCHANGED <<attempt, plan>>
       \/ /\ WithinBudget
          /\ at' = "calls" /\ left' = left - 1 /\ plan' = plan + 1 /\ UNCHANGED attempt
       \/ ~WithinBudget /\ Fail /\ UNCHANGED <<left, plan>>
    /\ UNCHANGED <<groups, session, tries, turn, given, iteration>>

\* The turn is complete; it is the next group of the history.
CloseTurn ==
    /\ at = "calls" /\ left = 0
    /\ IF iteration = MaxIterations
       THEN Fail /\ UNCHANGED <<groups, iteration>>
       ELSE /\ at' = "begin" /\ iteration' = iteration + 1
            /\ \E n \in Sizes : groups' = Append(groups, [size |-> n, refs |-> turn])
            /\ UNCHANGED attempt
    /\ turn' = {}
    /\ UNCHANGED <<session, total, tries, left, plan, given>>

-----------------------------------------------------------------------------

Next ==
    \/ OverBudget \/ Prepare \/ RetryCall \/ CallFails
    \/ \E used \in Usage :
          \/ PlanReturned(used) \/ ExecuteReturned(used) \/ ReplanReturned(used)
          \/ CompactionSucceeds(used) \/ RetryCompaction(used) \/ CompactionFails(used)
    \/ Observe \/ StopInTurn \/ StartReplan \/ CloseTurn

Spec == Init /\ [][Next]_vars

-----------------------------------------------------------------------------
(* Properties                                                               *)

WithinHardLimit == Tokens(summary, groups) <= HardLimit
RefsKept == given \subseteq summary.refs \cup RefsOf(groups)
AnchorsCurrent == summary.plan \in {0, plan}
BudgetLeft == total < HardBudget

(* "Return a safe prompt before one main-model call": whatever was compacted,   *)
(* trimmed, left out of a compaction request or failed before, each prompt is   *)
(* within the hard limit, every result_ref the model was given can still be     *)
(* read in it, its summary describes the plan of now, and the budget of the     *)
(* task is not used up.                                                         *)
PromptIsSafe ==
    at = "execute" => WithinHardLimit /\ RefsKept /\ AnchorsCurrent /\ BudgetLeft

=============================================================================
