--------------------------- MODULE LongTermMemory ---------------------------
(***************************************************************************)
(* Long-term memory (memory/): tasks recall the ACTIVE memories of their   *)
(* scope, may search for more while they work (tools/memory_tool.py), and  *)
(* after success capture candidates a model proposes and the policy        *)
(* admits.  The user invalidates and deletes memories through the API.     *)
(*                                                                         *)
(* The rows are one SQLite file; each process has its own RLock around its *)
(* writes.  save selects before it inserts, so another process may insert  *)
(* in between: the unique index over ACTIVE rows decides.  A row's id is   *)
(* its place in the order of insertion.                                    *)
(***************************************************************************)
EXTENDS Naturals, Sequences, FiniteSets

CONSTANTS Task,
          Scope,          (* pairs of user_id and project_id                 *)
          Process,
          Fact,           (* what a content or an excerpt can say            *)
          ScopeOf,        (* scope of each task                              *)
          ProcessOf,      (* process whose worker runs the task              *)
          Said,           (* per task, what its user_input says              *)
          Observed,       (* per task, what tools other than search_memory
                             can show it                                     *)
          Proposals,      (* per task, what the model may propose            *)
          TopK,           (* memory_recall_top_k                             *)
          MaxResults,     (* largest limit the search_memory tool accepts    *)
          LeastWindow,    (* the SQL query yields the most recent rows for a *)
          WindowFactor,   (* score: so many at least, so many per result     *)
          MaxCandidates,  (* per task, candidates of its extraction, 5 at most  *)
          MaxCrashes,     (* bound on the crashes of processes               *)
          None

MemoryType == {"PREFERENCE", "CONSTRAINT", "BUSINESS_FACT", "PROCEDURE"}
SourceKind == {"USER_EXPLICIT", "TASK_VERIFIED"}
MemoryStatus == {"ACTIVE", "INVALIDATED", "DELETED"}

Candidate == [type : MemoryType, content : Fact, kind : SourceKind, evidence : Fact]

ASSUME MemoryAssumption ==
    /\ ScopeOf \in [Task -> Scope] /\ ProcessOf \in [Task -> Process]
    /\ Said \in [Task -> SUBSET Fact] /\ Observed \in [Task -> SUBSET Fact]
    /\ TopK \in Nat \ {0} /\ MaxResults \in Nat \ {0}
    /\ LeastWindow \in Nat \ {0} /\ WindowFactor \in Nat
    /\ MaxCandidates \in [Task -> Nat] /\ MaxCrashes \in Nat
    /\ None \notin Task

Row == [scope : Scope, task : Task, type : MemoryType, content : Fact, kind : SourceKind,
        evidence : Fact, status : MemoryStatus]

VARIABLES rows,        (* the table, oldest first                            *)
          phase,       (* where the task is                                  *)
          shown,       (* ids recalled for the task or found by its searches *)
          evidence,    (* what its successful, untruncated steps show        *)
          proposed,    (* candidates dealt with                              *)
          draft,       (* the admitted candidate being saved                 *)
          created,     (* the report of the capture                          *)
          duplicates,
          outcome,     (* the capture's event, if any                        *)
          lock,        (* per process, the task that holds the store's lock  *)
          crashes

work == <<shown, evidence>>
report == <<created, duplicates>>
vars == <<rows, phase, shown, evidence, proposed, draft, created, duplicates,
          outcome, lock, crashes>>

Init ==
    /\ rows = <<>>
    /\ phase = [t \in Task |-> "new"]
    /\ shown = [t \in Task |-> {}]
    /\ evidence = [t \in Task |-> {}]
    /\ proposed = [t \in Task |-> 0]
    /\ draft = [t \in Task |-> None]
    /\ created = [t \in Task |-> {}] /\ duplicates = [t \in Task |-> {}]
    /\ outcome = [t \in Task |-> None]
    /\ lock = [p \in Process |-> None]
    /\ crashes = 0

-----------------------------------------------------------------------------
(* Search                                                                   *)

Ids == 1..Len(rows)

\* As many of S as there are, n at most.
Some(S, n) ==
    {T \in SUBSET S : Cardinality(T) = IF Cardinality(S) < n THEN Cardinality(S) ELSE n}

\* Mutant: the query forgets the scope.
ActiveAnywhere(scope) == {i \in Ids : rows[i].status = "ACTIVE"}
Active(scope) == {i \in Ids : rows[i].scope = scope /\ rows[i].status = "ACTIVE"}

\* _score is positive: preferences and constraints always, anything else when
\* its words meet the query.
Scored(ids, query) ==
    {i \in ids : rows[i].type \in {"PREFERENCE", "CONSTRAINT"} \/ rows[i].content \in query}

\* The SQL query keeps the types asked for, all of them if none is.
OfTypes(ids, types) == {i \in ids : types = {} \/ rows[i].type \in types}

Window(limit) == IF limit * WindowFactor < LeastWindow THEN LeastWindow ELSE limit * WindowFactor

\* The best of the most recent ones; which these are is left open.
Found(scope, types, query, limit) ==
    UNION {Some(Scored(recent, query), limit) :
              recent \in Some(OfTypes(Active(scope), types), Window(limit))}

\* recall without a limit of the caller's own.
Recalled(scope, query) == Found(scope, {}, query, TopK)

\* What the model gets from the tool, whatever it asks for.
Searched(scope) ==
    UNION {Found(scope, types, query, limit) :
              types \in SUBSET MemoryType, query \in SUBSET Fact, limit \in 1..MaxResults}

\* Before planning the orchestrator recalls by the user's input; a failure of
\* the database leaves the task without memories.
Recall(t) ==
    /\ phase[t] = "new"
    /\ \E best \in Recalled(ScopeOf[t], Said[t]) \cup {{}} : shown' = [shown EXCEPT ![t] = best]
    /\ phase' = [phase EXCEPT ![t] = "work"]
    /\ UNCHANGED <<rows, evidence, proposed, draft, report, outcome, lock, crashes>>

\* The search_memory tool takes the scope from the task, the rest from the model.
\* Its output, contents and excerpts, is a step like any other unless it is
\* truncated.
SearchMemory(t) ==
    /\ phase[t] = "work"
    /\ \E best \in Searched(ScopeOf[t]) :
        /\ shown' = [shown EXCEPT ![t] = @ \cup best]
        /\ \/ evidence' = [evidence EXCEPT ![t] = @ \cup {rows[i].content : i \in best}
                                                    \cup {rows[i].evidence : i \in best}]
           \/ UNCHANGED evidence
    /\ UNCHANGED <<rows, phase, proposed, draft, report, outcome, lock, crashes>>

\* Any other tool.
CallTool(t) ==
    /\ phase[t] = "work"
    /\ \E f \in Observed[t] \ evidence[t] : evidence' = [evidence EXCEPT ![t] = @ \cup {f}]
    /\ UNCHANGED <<rows, phase, shown, proposed, draft, report, outcome, lock, crashes>>

-----------------------------------------------------------------------------
(* Capture                                                                  *)

\* The task ends; only a successful one is captured.
EndTask(t) ==
    /\ phase[t] = "work"
    /\ \E next \in {"capture", "done"} : phase' = [phase EXCEPT ![t] = next]
    /\ UNCHANGED <<rows, work, proposed, draft, report, outcome, lock, crashes>>

\* The schema of the extraction; an answer with anything else in it fails.
Extracted(t) == Proposals[t] \cap Candidate

\* _source_violation and the excerpt test: a verbatim excerpt of the source the
\* candidate declares.  Nothing ties the content to the excerpt.
Source(t, kind) == IF kind = "USER_EXPLICIT" THEN Said[t] ELSE evidence[t]

\* Mutant: a verified source is enough for a preference.
AcceptedFromTools(t, c) ==
    /\ c.type = "PROCEDURE" => c.kind = "TASK_VERIFIED"
    /\ c.evidence \in Source(t, c.kind)

Accepted(t, c) ==
    /\ c.type \in {"PREFERENCE", "CONSTRAINT"} => c.kind = "USER_EXPLICIT"
    /\ c.type = "PROCEDURE" => c.kind = "TASK_VERIFIED"
    /\ c.evidence \in Source(t, c.kind)

\* evaluate decides about the next candidate of the extraction.
Evaluate(t) ==
    /\ phase[t] = "capture" /\ proposed[t] < MaxCandidates[t]
    /\ proposed' = [proposed EXCEPT ![t] = @ + 1]
    /\ \/ UNCHANGED <<draft, phase>>
       \/ \E c \in Extracted(t) :
            /\ Accepted(t, c)
            /\ draft' = [draft EXCEPT ![t] = c]
            /\ phase' = [phase EXCEPT ![t] = "select"]
    /\ UNCHANGED <<rows, work, report, outcome, lock, crashes>>

Twins(t) == {i \in Active(ScopeOf[t]) : rows[i].type = draft[t].type /\ rows[i].content = draft[t].content}

\* save under the lock: an ACTIVE twin is the answer.
SelectTwin(t) ==
    /\ phase[t] = "select" /\ lock[ProcessOf[t]] = None
    /\ IF Twins(t) # {}
       THEN /\ duplicates' = [duplicates EXCEPT ![t] = @ \cup Twins(t)]
            /\ phase' = [phase EXCEPT ![t] = "capture"]
            /\ draft' = [draft EXCEPT ![t] = None]
            /\ UNCHANGED lock
       ELSE /\ lock' = [lock EXCEPT ![ProcessOf[t]] = t]
            /\ phase' = [phase EXCEPT ![t] = "insert"]
            /\ UNCHANGED <<duplicates, draft>>
    /\ UNCHANGED <<rows, work, proposed, created, outcome, crashes>>

\* The row the policy makes of an admitted candidate.
NewRow(t) ==
    [scope |-> ScopeOf[t], task |-> t, type |-> draft[t].type, content |-> draft[t].content,
     kind |-> draft[t].kind, evidence |-> draft[t].evidence, status |-> "ACTIVE"]

\* Mutant: there is no unique index.
AdmitsAll(row) == TRUE

\* uq_active_memory: one ACTIVE row for a scope, a type and a content.
Admits(row) ==
    ~ \E i \in Ids : /\ rows[i].status = "ACTIVE" /\ rows[i].scope = row.scope
                     /\ rows[i].type = row.type /\ rows[i].content = row.content

\* Mutant: INSERT OR IGNORE, and the row it met counts as created.
InsertOrIgnore(t) ==
    /\ phase[t] = "insert"
    /\ rows' = IF Admits(NewRow(t)) THEN Append(rows, NewRow(t)) ELSE rows
    /\ created' = [created EXCEPT ![t] = @ \cup (IF Admits(NewRow(t)) THEN {Len(rows) + 1} ELSE Twins(t))]
    /\ phase' = [phase EXCEPT ![t] = "capture"]
    /\ draft' = [draft EXCEPT ![t] = None]
    /\ lock' = [lock EXCEPT ![ProcessOf[t]] = None]
    /\ UNCHANGED <<work, proposed, duplicates, outcome, crashes>>

\* The index admits the row.
Insert(t) ==
    /\ phase[t] = "insert" /\ Admits(NewRow(t))
    /\ rows' = Append(rows, NewRow(t))
    /\ created' = [created EXCEPT ![t] = @ \cup {Len(rows) + 1}]
    /\ phase' = [phase EXCEPT ![t] = "capture"]
    /\ draft' = [draft EXCEPT ![t] = None]
    /\ lock' = [lock EXCEPT ![ProcessOf[t]] = None]
    /\ UNCHANGED <<work, proposed, duplicates, outcome, crashes>>

Release(t) == [p \in Process |-> IF lock[p] = t THEN None ELSE lock[p]]

\* The extraction, the index or the database fails: what was saved before
\* stays, the task stays SUCCESS and only an event tells of the failure.
CaptureFails(t) ==
    /\ phase[t] \in {"capture", "select", "insert"}
    /\ outcome' = [outcome EXCEPT ![t] = "memory_capture_failed"]
    /\ phase' = [phase EXCEPT ![t] = "done"]
    /\ draft' = [draft EXCEPT ![t] = None]
    /\ lock' = Release(t)
    /\ UNCHANGED <<rows, work, proposed, report, crashes>>

CaptureFinishes(t) ==
    /\ phase[t] = "capture"
    /\ outcome' = [outcome EXCEPT ![t] = "memory_capture_finished"]
    /\ phase' = [phase EXCEPT ![t] = "done"]
    /\ UNCHANGED <<rows, work, proposed, draft, report, lock, crashes>>

-----------------------------------------------------------------------------
(* The user and crashes                                                     *)

\* _assert_scope: an id of another scope is reported as missing.
Owned(i, scope) == rows[i].scope = scope

\* Mutant: the update does not ask for an ACTIVE row.
SetStatusAgain(p, i, status) ==
    /\ lock[p] = None
    /\ rows' = [rows EXCEPT ![i].status = status]

\* _set_status: one ACTIVE row, or the memory is not found.
SetStatus(p, i, status) ==
    /\ lock[p] = None /\ rows[i].status = "ACTIVE"
    /\ rows' = [rows EXCEPT ![i].status = status]

\* POST /memories/{id}/invalidate
Invalidate(p, i, scope) ==
    /\ Owned(i, scope) /\ SetStatus(p, i, "INVALIDATED")
    /\ UNCHANGED <<phase, work, proposed, draft, report, outcome, lock, crashes>>

\* DELETE /memories/{id}
Delete(p, i, scope) ==
    /\ Owned(i, scope) /\ SetStatus(p, i, "DELETED")
    /\ UNCHANGED <<phase, work, proposed, draft, report, outcome, lock, crashes>>

\* A process dies: its tasks are not captured later, an open insert is rolled
\* back.
Crash(p) ==
    /\ crashes < MaxCrashes /\ crashes' = crashes + 1
    /\ phase' = [t \in Task |-> IF ProcessOf[t] = p /\ phase[t] # "new" THEN "done" ELSE phase[t]]
    /\ draft' = [t \in Task |-> IF ProcessOf[t] = p THEN None ELSE draft[t]]
    /\ lock' = [lock EXCEPT ![p] = None]
    /\ UNCHANGED <<rows, work, proposed, report, outcome>>

Next ==
    \/ \E t \in Task :
        \/ Recall(t) \/ SearchMemory(t) \/ CallTool(t) \/ EndTask(t)
        \/ Evaluate(t) \/ SelectTwin(t) \/ Insert(t)
        \/ CaptureFails(t) \/ CaptureFinishes(t)
    \/ \E p \in Process, i \in Ids, scope \in Scope : Invalidate(p, i, scope) \/ Delete(p, i, scope)
    \/ \E p \in Process : Crash(p)

Spec == Init /\ [][Next]_vars

-----------------------------------------------------------------------------
(* Properties                                                               *)

\* Every variable has its type.
TypeOK ==
    /\ rows \in Seq(Row)
    /\ phase \in [Task -> {"new", "work", "capture", "select", "insert", "done"}]
    /\ shown \in [Task -> SUBSET Ids]
    /\ evidence \in [Task -> SUBSET Fact]
    /\ proposed \in [Task -> Nat] /\ \A t \in Task : proposed[t] <= MaxCandidates[t]
    /\ draft \in [Task -> Candidate \cup {None}]
    /\ created \in [Task -> SUBSET Ids] /\ duplicates \in [Task -> SUBSET Ids]
    /\ outcome \in [Task -> {"memory_capture_finished", "memory_capture_failed", None}]
    /\ lock \in [Process -> Task \cup {None}]
    /\ crashes \in 0..MaxCrashes

\* However captures of several processes interleave with each other and with
\* the user's changes, a scope never has two ACTIVE rows of one type and content.
OneActive ==
    \A i, j \in Ids :
        /\ rows[i].status = "ACTIVE" /\ rows[j].status = "ACTIVE"
        /\ rows[i].scope = rows[j].scope
        /\ rows[i].type = rows[j].type /\ rows[i].content = rows[j].content
        => i = j

\* Every row can be traced to the task it names: the task's scope, and an
\* excerpt that its user said or that its steps, as they finally stand, show;
\* preferences and constraints come from users, procedures from steps.
RowsAreSourced ==
    \A i \in Ids : LET row == rows[i] IN
        /\ row.scope = ScopeOf[row.task]
        /\ row.evidence \in Source(row.task, row.kind)
        /\ row.type \in {"PREFERENCE", "CONSTRAINT"} => row.kind = "USER_EXPLICIT"
        /\ row.type = "PROCEDURE" => row.kind = "TASK_VERIFIED"

\* No memory crosses scopes: a task is shown rows of its own scope only, and
\* what it knows is what its tools observed or rows of its scope say.
ScopesAreApart ==
    \A t \in Task :
        LET own == {i \in Ids : rows[i].scope = ScopeOf[t]}
        IN  /\ shown[t] \subseteq own
            /\ evidence[t] \subseteq Observed[t] \cup {rows[i].content : i \in own}
                                                 \cup {rows[i].evidence : i \in own}

Answers(row, t) ==
    /\ row.scope = ScopeOf[t]
    /\ \E c \in Extracted(t) : row.type = c.type /\ row.content = c.content

\* The report of a capture is the truth about the table: the rows that name
\* the task are those it created, and what it calls a duplicate is a row of its
\* scope that says what one of its candidates says.
CaptureIsAccounted ==
    \A t \in Task :
        /\ created[t] = {i \in Ids : rows[i].task = t}
        /\ \A i \in duplicates[t] : Answers(rows[i], t)
        /\ outcome[t] # None => phase[t] = "done"
        /\ phase[t] \in {"new", "work"} => created[t] \cup duplicates[t] = {}

\* Rows are never rewritten or removed: a step only appends one or takes one
\* ACTIVE row out of use, for good.
RowsAreHistory ==
    [][/\ Len(rows') >= Len(rows)
       /\ \A i \in Ids :
            \/ rows'[i] = rows[i]
            \/ rows[i].status = "ACTIVE" /\ rows'[i] = [rows[i] EXCEPT !.status = rows'[i].status]
      ]_rows

=============================================================================
