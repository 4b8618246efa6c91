------------------------ MODULE LongTermMemoryProofs ------------------------
(* Proofs about LongTermMemory, for any tasks, scopes, processes and facts. *)
EXTENDS LongTermMemory, SequenceTheorems, TLAPS

-----------------------------------------------------------------------------
(* The invariant                                                            *)

\* The candidate in hand was admitted, and stays admissible.
Drafted ==
    \A t \in Task :
        /\ phase[t] \in {"select", "insert"} => draft[t] \in Extracted(t) /\ draft[t] \in Candidate /\ Accepted(t, draft[t])
        /\ draft[t] # None => phase[t] \in {"select", "insert"}

IInv == TypeOK /\ Drafted /\ OneActive /\ RowsAreSourced /\ ScopesAreApart /\ CaptureIsAccounted

LEMMA InitIInv == Init => IInv
<1> SUFFICES ASSUME Init
             PROVE  IInv
  OBVIOUS
<1>1. rows \in Seq(Row) /\ Len(rows) = 0 /\ Ids = {}
  BY DEF Init, Ids
<1>2. TypeOK
  BY <1>1, MemoryAssumption DEF Init, TypeOK
<1>. QED
  BY <1>1, <1>2
  DEF Init, IInv, Drafted, OneActive, RowsAreSourced, ScopesAreApart, CaptureIsAccounted

-----------------------------------------------------------------------------
(* How rows change                                                          *)

LEMMA Appending ==
    ASSUME TypeOK, NEW row \in Row
    PROVE  /\ Append(rows, row) \in Seq(Row)
           /\ Len(Append(rows, row)) = Len(rows) + 1
           /\ \A i \in Ids : Append(rows, row)[i] = rows[i]
           /\ Append(rows, row)[Len(rows) + 1] = row
BY DEF TypeOK, Ids

LEMMA Restating ==
    ASSUME TypeOK, NEW i \in Ids, NEW s \in MemoryStatus
    PROVE  LET new == [rows EXCEPT ![i].status = s]
           IN  /\ new \in Seq(Row) /\ Len(new) = Len(rows)
               /\ \A j \in Ids : new[j] = IF j = i THEN [rows[i] EXCEPT !.status = s] ELSE rows[j]
<1>1. rows[i] \in Row /\ rows \in Seq(Row)
  BY DEF TypeOK, Ids
<1>2. [rows[i] EXCEPT !.status = s] \in Row
  BY <1>1 DEF Row
<1>. QED  BY <1>1, <1>2, ExceptSeq DEF Ids

\* A row keeps its origin, and its status unless it was ACTIVE.
StandsFor(new, old) ==
    /\ new.scope = old.scope /\ new.task = old.task /\ new.type = old.type
    /\ new.content = old.content /\ new.kind = old.kind /\ new.evidence = old.evidence
    /\ new.status = old.status \/ (old.status = "ACTIVE" /\ new.status # "ACTIVE")

Change ==
    \/ UNCHANGED rows
    \/ \E t \in Task : Insert(t)
    \/ \E i \in Ids, s \in MemoryStatus \ {"ACTIVE"} :
          rows[i].status = "ACTIVE" /\ rows' = [rows EXCEPT ![i].status = s]

LEMMA RowsChange == Next => Change
<1> SUFFICES ASSUME Next
             PROVE  Change
  OBVIOUS
<1>1. CASE \E t \in Task : \/ Recall(t) \/ SearchMemory(t) \/ CallTool(t) \/ EndTask(t)
                           \/ Evaluate(t) \/ SelectTwin(t) \/ CaptureFails(t) \/ CaptureFinishes(t)
  BY <1>1 DEF Change, Recall, SearchMemory, CallTool, EndTask, Evaluate, SelectTwin, CaptureFails,
              CaptureFinishes
<1>2. CASE \E t \in Task : Insert(t)
  BY <1>2 DEF Change
<1>3. CASE \E p \in Process, i \in Ids, scope \in Scope : Invalidate(p, i, scope) \/ Delete(p, i, scope)
  BY <1>3 DEF Change, Invalidate, Delete, SetStatus, MemoryStatus
<1>4. CASE \E p \in Process : Crash(p)
  BY <1>4 DEF Change, Crash
<1>. QED  BY <1>1, <1>2, <1>3, <1>4 DEF Next

\* Whatever happens, the rows that are there stand for what they were.
LEMMA RowsStand ==
    ASSUME TypeOK, Drafted, Next
    PROVE  /\ rows' \in Seq(Row) /\ Len(rows') >= Len(rows) /\ Ids \subseteq Ids'
           /\ \A i \in Ids : StandsFor(rows'[i], rows[i])
<1>1. CASE UNCHANGED rows
  BY <1>1 DEF TypeOK, Ids, StandsFor
<1>2. ASSUME NEW t \in Task, Insert(t)
      PROVE  /\ rows' \in Seq(Row) /\ Len(rows') >= Len(rows) /\ Ids \subseteq Ids'
             /\ \A i \in Ids : StandsFor(rows'[i], rows[i])
  <2>1. NewRow(t) \in Row
    BY <1>2, MemoryAssumption DEF Insert, Drafted, NewRow, Row, Candidate, MemoryStatus
  <2>. QED  BY <1>2, <2>1, Appending DEF Insert, StandsFor, Ids, TypeOK
<1>3. ASSUME NEW i \in Ids, NEW s \in MemoryStatus \ {"ACTIVE"},
             rows[i].status = "ACTIVE" /\ rows' = [rows EXCEPT ![i].status = s]
      PROVE  /\ rows' \in Seq(Row) /\ Len(rows') >= Len(rows) /\ Ids \subseteq Ids'
             /\ \A j \in Ids : StandsFor(rows'[j], rows[j])
  <2>1. rows' \in Seq(Row) /\ Len(rows') = Len(rows)
        /\ \A j \in Ids : rows'[j] = IF j = i THEN [rows[i] EXCEPT !.status = s] ELSE rows[j]
    BY <1>3, Restating
  <2>2. rows[i] \in Row
    BY DEF TypeOK, Ids
  <2>. QED  BY <1>3, <2>1, <2>2 DEF StandsFor, Ids, TypeOK, Row
<1>. QED  BY <1>1, <1>2, <1>3, RowsChange DEF Change

-----------------------------------------------------------------------------
(* The parts of the invariant                                               *)

\* What a search returns are ACTIVE rows of the scope.
LEMMA FoundInScope ==
    ASSUME NEW scope, NEW types, NEW query, NEW limit, NEW best \in Found(scope, types, query, limit)
    PROVE  best \subseteq Active(scope)
<1>1. \A S, n : \A T \in Some(S, n) : T \subseteq S
  BY DEF Some
<1>2. PICK recent \in Some(OfTypes(Active(scope), types), Window(limit)) :
        best \in Some(Scored(recent, query), limit)
  BY DEF Found
<1>3. Scored(recent, query) \subseteq recent
  BY DEF Scored
<1>4. OfTypes(Active(scope), types) \subseteq Active(scope)
  BY DEF OfTypes
<1>. QED  BY <1>1, <1>2, <1>3, <1>4

LEMMA ShownInScope ==
    ASSUME NEW scope
    PROVE  /\ \A query : \A best \in Recalled(scope, query) : best \subseteq Active(scope)
           /\ \A best \in Searched(scope) : best \subseteq Active(scope)
BY FoundInScope DEF Recalled, Searched

LEMMA TypeStep == TypeOK /\ Drafted /\ Next => TypeOK'
<1> SUFFICES ASSUME TypeOK, Drafted, Next
             PROVE  TypeOK'
  OBVIOUS
<1>1. rows' \in Seq(Row) /\ Ids \subseteq Ids'
  BY RowsStand
<1>2. \A f : f \in [Task -> SUBSET Ids] => f \in [Task -> SUBSET Ids']
  BY <1>1
<1>3. shown \in [Task -> SUBSET Ids'] /\ created \in [Task -> SUBSET Ids'] /\ duplicates \in [Task -> SUBSET Ids']
  BY <1>2 DEF TypeOK
<1>4. ASSUME NEW t \in Task, Recall(t) \/ SearchMemory(t)
      PROVE  TypeOK'
  <2>1. /\ \A query : \A best \in Recalled(ScopeOf[t], query) : best \subseteq Ids
        /\ \A best \in Searched(ScopeOf[t]) : best \subseteq Ids
    BY ShownInScope DEF Active
  <2>2. \A j \in Ids : rows[j].content \in Fact /\ rows[j].evidence \in Fact
    <3>1. \A j \in Ids : rows[j] \in Row
      BY DEF Ids, TypeOK
    <3>. QED  BY <3>1 DEF Row
  <2>3. CASE Recall(t)
    <3>1. PICK best \in Recalled(ScopeOf[t], Said[t]) \cup {{}} : shown' = [shown EXCEPT ![t] = best]
      BY <2>3 DEF Recall
    <3>2. best \subseteq Ids'
      BY <2>1, <1>1
    <3>3. shown' \in [Task -> SUBSET Ids']
      BY <3>1, <3>2, <1>3
    <3>. QED  BY <2>3, <3>3, <1>1, <1>3 DEF Recall, report, TypeOK
  <2>4. CASE SearchMemory(t)
    <3>1. PICK best \in Searched(ScopeOf[t]) :
            /\ shown' = [shown EXCEPT ![t] = @ \cup best]
            /\ \/ evidence' = [evidence EXCEPT ![t] = @ \cup {rows[j].content : j \in best}
                                                        \cup {rows[j].evidence : j \in best}]
               \/ UNCHANGED evidence
      BY <2>4 DEF SearchMemory
    <3>2. evidence' \in [Task -> SUBSET Fact]
      <4>1. {rows[j].content : j \in best} \cup {rows[j].evidence : j \in best} \in SUBSET Fact
        BY <2>1, <2>2
      <4>2. evidence \in [Task -> SUBSET Fact]
        BY DEF TypeOK
      <4>3. CASE UNCHANGED evidence
        BY <4>2, <4>3
      <4>4. CASE evidence' = [evidence EXCEPT ![t] = @ \cup {rows[j].content : j \in best}
                                                       \cup {rows[j].evidence : j \in best}]
        <5>1. evidence[t] \cup {rows[j].content : j \in best} \cup {rows[j].evidence : j \in best} \in SUBSET Fact
          BY <4>1, <4>2
        <5>. QED  BY <4>2, <4>4, <5>1
      <4>. QED  BY <3>1, <4>3, <4>4
    <3>3. shown' \in [Task -> SUBSET Ids']
      <4>1. best \subseteq Ids'
        BY <2>1, <1>1
      <4>. QED  BY <3>1, <4>1, <1>3
    <3>. QED  BY <2>4, <3>2, <3>3, <1>1, <1>3 DEF SearchMemory, report, TypeOK
  <2>. QED  BY <1>4, <2>3, <2>4
<1>5. ASSUME NEW t \in Task, CallTool(t)
      PROVE  TypeOK'
  <2>1. evidence' \in [Task -> SUBSET Fact]
    <3>1. evidence \in [Task -> SUBSET Fact] /\ Observed[t] \subseteq Fact
      BY MemoryAssumption DEF TypeOK
    <3>2. PICK f \in Observed[t] \ evidence[t] : evidence' = [evidence EXCEPT ![t] = @ \cup {f}]
      BY <1>5 DEF CallTool
    <3>. QED  BY <3>1, <3>2
  <2>. QED  BY <1>5, <2>1, <1>1, <1>3 DEF CallTool, report, TypeOK
<1>6. ASSUME NEW t \in Task, EndTask(t)
      PROVE  TypeOK'
  BY <1>6, <1>1, <1>3 DEF EndTask, report, work, TypeOK
<1>7. ASSUME NEW t \in Task, Evaluate(t)
      PROVE  TypeOK'
  <2>1. proposed' \in [Task -> Nat] /\ \A u \in Task : proposed'[u] <= MaxCandidates[u]
    <3>1. proposed \in [Task -> Nat] /\ (\A u \in Task : proposed[u] <= MaxCandidates[u])
          /\ MaxCandidates \in [Task -> Nat]
      BY MemoryAssumption DEF TypeOK
    <3>2. proposed' = [proposed EXCEPT ![t] = @ + 1] /\ proposed[t] < MaxCandidates[t]
      BY <1>7 DEF Evaluate
    <3>. QED  BY <3>1, <3>2
  <2>2. draft' \in [Task -> Candidate \cup {None}]
    BY <1>7 DEF Evaluate, Extracted, TypeOK
  <2>3. phase' \in [Task -> {"new", "work", "capture", "select", "insert", "done"}]
    BY <1>7 DEF Evaluate, TypeOK
  <2>4. UNCHANGED <<rows, work, report, outcome, lock, crashes>>
    BY <1>7 DEF Evaluate
  <2>. QED  BY <2>1, <2>2, <2>3, <2>4, <1>1, <1>3 DEF report, work, TypeOK
<1>8. ASSUME NEW t \in Task, SelectTwin(t)
      PROVE  TypeOK'
  <2>1. Twins(t) \subseteq Ids'
    BY <1>1 DEF Twins, Active
  <2>2. duplicates' \in [Task -> SUBSET Ids']
    BY <1>8, <2>1, <1>3 DEF SelectTwin
  <2>3. lock' \in [Process -> Task \cup {None}]
    BY <1>8 DEF SelectTwin, TypeOK
  <2>4. draft' \in [Task -> Candidate \cup {None}]
    BY <1>8 DEF SelectTwin, TypeOK
  <2>5. phase' \in [Task -> {"new", "work", "capture", "select", "insert", "done"}]
    <3>1. phase \in [Task -> {"new", "work", "capture", "select", "insert", "done"}]
      BY DEF TypeOK
    <3>2. phase' = [phase EXCEPT ![t] = "capture"] \/ phase' = [phase EXCEPT ![t] = "insert"]
      BY <1>8 DEF SelectTwin
    <3>. QED  BY <3>1, <3>2
  <2>6. UNCHANGED <<rows, work, proposed, created, outcome, crashes>>
    BY <1>8 DEF SelectTwin
  <2>. QED  BY <2>2, <2>3, <2>4, <2>5, <2>6, <1>1, <1>3 DEF work, TypeOK
<1>9. ASSUME NEW t \in Task, Insert(t)
      PROVE  TypeOK'
  <2>1. created' \in [Task -> SUBSET Ids']
    <3>1. Len(rows) + 1 \in Ids'
      BY <1>9 DEF Insert, Ids, TypeOK
    <3>. QED  BY <1>9, <3>1, <1>3 DEF Insert
  <2>. QED  BY <1>9, <2>1, <1>1, <1>3 DEF Insert, work, TypeOK
<1>10. ASSUME NEW t \in Task, CaptureFails(t)
       PROVE  TypeOK'
  <2>1. lock' \in [Process -> Task \cup {None}]
    BY <1>10 DEF CaptureFails, Release, TypeOK
  <2>2. draft' \in [Task -> Candidate \cup {None}]
    BY <1>10 DEF CaptureFails, TypeOK
  <2>3. phase' \in [Task -> {"new", "work", "capture", "select", "insert", "done"}]
    BY <1>10 DEF CaptureFails, TypeOK
  <2>4. outcome' \in [Task -> {"memory_capture_finished", "memory_capture_failed", None}]
    BY <1>10 DEF CaptureFails, TypeOK
  <2>5. UNCHANGED <<rows, work, proposed, report, crashes>>
    BY <1>10 DEF CaptureFails
  <2>. QED  BY <2>1, <2>2, <2>3, <2>4, <2>5, <1>1, <1>3 DEF report, work, TypeOK
<1>11. ASSUME NEW t \in Task, CaptureFinishes(t)
       PROVE  TypeOK'
  BY <1>11, <1>1, <1>3 DEF CaptureFinishes, report, work, TypeOK
<1>12. ASSUME NEW p \in Process, NEW i \in Ids, NEW scope \in Scope, Invalidate(p, i, scope) \/ Delete(p, i, scope)
       PROVE  TypeOK'
  BY <1>12, <1>1, <1>3 DEF Invalidate, Delete, report, work, TypeOK
<1>13. ASSUME NEW p \in Process, Crash(p)
       PROVE  TypeOK'
  <2>1. crashes' \in 0..MaxCrashes
    BY <1>13, MemoryAssumption DEF Crash, TypeOK
  <2>. QED  BY <1>13, <2>1, <1>1, <1>3 DEF Crash, report, work, TypeOK
<1>. QED
  BY <1>4, <1>5, <1>6, <1>7, <1>8, <1>9, <1>10, <1>11, <1>12, <1>13 DEF Next

\* Evidence only grows, so what was admitted stays admissible.
LEMMA EvidenceGrows ==
    ASSUME TypeOK, Next, NEW t \in Task
    PROVE  evidence[t] \subseteq evidence'[t]
<1>0. evidence \in [Task -> SUBSET Fact]
  BY DEF TypeOK
<1>1. ASSUME NEW u \in Task, SearchMemory(u)
      PROVE  evidence[t] \subseteq evidence'[t]
  <2>1. \/ UNCHANGED evidence
        \/ \E S : evidence' = [evidence EXCEPT ![u] = @ \cup S]
    <3>1. PICK best : \/ evidence' = [evidence EXCEPT ![u] = @ \cup {rows[i].content : i \in best}
                                                               \cup {rows[i].evidence : i \in best}]
                      \/ UNCHANGED evidence
      BY <1>1 DEF SearchMemory
    <3>2. evidence[u] \cup {rows[i].content : i \in best} \cup {rows[i].evidence : i \in best}
            = evidence[u] \cup ({rows[i].content : i \in best} \cup {rows[i].evidence : i \in best})
      OBVIOUS
    <3>. QED  BY <3>1, <3>2
  <2>. QED  BY <2>1, <1>0
<1>2. ASSUME NEW u \in Task, CallTool(u)
      PROVE  evidence[t] \subseteq evidence'[t]
  BY <1>0, <1>2 DEF CallTool
<1>3. CASE \E u \in Task : \/ Recall(u) \/ EndTask(u) \/ Evaluate(u) \/ SelectTwin(u) \/ Insert(u)
                           \/ CaptureFails(u) \/ CaptureFinishes(u)
  BY <1>3 DEF Recall, EndTask, Evaluate, SelectTwin, Insert, CaptureFails, CaptureFinishes, work
<1>4. CASE \E p \in Process, i \in Ids, scope \in Scope : Invalidate(p, i, scope) \/ Delete(p, i, scope)
  BY <1>4 DEF Invalidate, Delete, work
<1>5. CASE \E p \in Process : Crash(p)
  BY <1>5 DEF Crash, work
<1>. QED  BY <1>1, <1>2, <1>3, <1>4, <1>5 DEF Next

LEMMA DraftedStep == TypeOK /\ Drafted /\ Next => Drafted'
<1> SUFFICES ASSUME TypeOK, Drafted, Next
             PROVE  Drafted'
  OBVIOUS
<1>1. \A t \in Task : \A c : Accepted(t, c) => Accepted(t, c)'
  BY EvidenceGrows DEF Accepted, Source
<1>0. phase \in [Task -> {"new", "work", "capture", "select", "insert", "done"}]
      /\ draft \in [Task -> Candidate \cup {None}]
  BY DEF TypeOK
<1> USE <1>0, <1>1 DEF Drafted
<1>2. CASE \E u \in Task : Recall(u) \/ SearchMemory(u) \/ CallTool(u) \/ EndTask(u)
  BY <1>2 DEF Recall, SearchMemory, CallTool, EndTask
<1>3. CASE \E u \in Task : Evaluate(u)
  BY <1>3 DEF Evaluate, Extracted
<1>4. ASSUME NEW u \in Task, SelectTwin(u)
      PROVE  Drafted'
  <2>1. CASE Twins(u) # {}
    BY <1>4, <2>1 DEF SelectTwin
  <2>2. CASE Twins(u) = {}
    <3>1. /\ phase[u] = "select" /\ phase' = [phase EXCEPT ![u] = "insert"]
          /\ UNCHANGED draft
      BY <1>4, <2>2 DEF SelectTwin
    <3>. QED  BY <3>1
  <2>. QED  BY <2>1, <2>2
<1>5. CASE \E u \in Task : Insert(u)
  BY <1>5 DEF Insert
<1>6. CASE \E u \in Task : CaptureFails(u) \/ CaptureFinishes(u)
  BY <1>6 DEF CaptureFails, CaptureFinishes
<1>7. CASE \E p \in Process, i \in Ids, scope \in Scope : Invalidate(p, i, scope) \/ Delete(p, i, scope)
  BY <1>7 DEF Invalidate, Delete
<1>8. CASE \E p \in Process : Crash(p)
  BY <1>8 DEF Crash
<1>. QED  BY <1>2, <1>3, <1>4, <1>5, <1>6, <1>7, <1>8 DEF Next

\* The index lets no second ACTIVE row in, and no row becomes ACTIVE again.
LEMMA OneActiveStep == TypeOK /\ Drafted /\ OneActive /\ Next => OneActive'
<1> SUFFICES ASSUME TypeOK, Drafted, OneActive, Next
             PROVE  OneActive'
  OBVIOUS
<1>1. rows' \in Seq(Row) /\ Ids \subseteq Ids' /\ \A i \in Ids : StandsFor(rows'[i], rows[i])
  BY RowsStand
<1>2. CASE UNCHANGED rows
  BY <1>2 DEF OneActive, Ids
<1>3. ASSUME NEW t \in Task, Insert(t)
      PROVE  OneActive'
  <2>1. NewRow(t) \in Row
    BY <1>3, MemoryAssumption DEF Insert, Drafted, NewRow, Row, Candidate, MemoryStatus
  <2>2. rows' = Append(rows, NewRow(t))
    BY <1>3 DEF Insert
  <2>3. /\ Len(rows') = Len(rows) + 1
        /\ \A i \in Ids : rows'[i] = rows[i]
        /\ rows'[Len(rows) + 1] = NewRow(t)
    BY <2>1, <2>2, Appending
  <2>4. Ids' = Ids \cup {Len(rows) + 1}
    <3>1. Len(rows) \in Nat
      BY DEF TypeOK
    <3>. QED  BY <2>3, <3>1 DEF Ids
  <2>5. \A i \in Ids : ~ /\ rows[i].status = "ACTIVE" /\ rows[i].scope = NewRow(t).scope
                         /\ rows[i].type = NewRow(t).type /\ rows[i].content = NewRow(t).content
    BY <1>3 DEF Insert, Admits
  <2>. QED  BY <2>3, <2>4, <2>5 DEF OneActive
<1>4. CASE \E i \in Ids, s \in MemoryStatus \ {"ACTIVE"} :
             rows[i].status = "ACTIVE" /\ rows' = [rows EXCEPT ![i].status = s]
  <2>1. Len(rows') = Len(rows)
    BY <1>4, Restating
  <2>2. Ids' = Ids
    BY <2>1 DEF Ids
  <2>3. \A i \in Ids : rows'[i].status = "ACTIVE" => rows[i].status = "ACTIVE"
    BY <1>1 DEF StandsFor
  <2>. QED  BY <1>1, <2>2, <2>3 DEF OneActive, StandsFor
<1>. QED  BY <1>2, <1>3, <1>4, RowsChange DEF Change

\* A row's evidence was there when the row was made, and evidence only grows.
LEMMA RowsAreSourcedStep == TypeOK /\ Drafted /\ RowsAreSourced /\ Next => RowsAreSourced'
<1> SUFFICES ASSUME TypeOK, Drafted, RowsAreSourced, Next
             PROVE  RowsAreSourced'
  OBVIOUS
<1> DEFINE Sourced(row) == /\ row.scope = ScopeOf[row.task]
                           /\ row.evidence \in Source(row.task, row.kind)
                           /\ row.type \in {"PREFERENCE", "CONSTRAINT"} => row.kind = "USER_EXPLICIT"
                           /\ row.type = "PROCEDURE" => row.kind = "TASK_VERIFIED"
<1>1. \A i \in Ids : StandsFor(rows'[i], rows[i])
  BY RowsStand
<1>2. \A i \in Ids : rows[i] \in Row /\ Sourced(rows[i])
  BY DEF RowsAreSourced, Ids, TypeOK
<1> DEFINE After(t, kind) == IF kind = "USER_EXPLICIT" THEN Said[t] ELSE evidence'[t]
<1>3. \A t \in Task : \A kind : Source(t, kind) \subseteq After(t, kind)
  BY EvidenceGrows DEF Source
<1>4. ASSUME NEW i \in Ids
      PROVE  Sourced(rows[i])'
  <2>1. rows[i].task \in Task
    BY <1>2 DEF Row
  <2>2. rows[i].evidence \in After(rows[i].task, rows[i].kind)
    BY <1>2, <1>3, <2>1
  <2>. QED  BY <1>1, <1>2, <2>2 DEF StandsFor, Source
<1>5. ASSUME NEW t \in Task, Insert(t)
      PROVE  Ids' = Ids \cup {Len(rows) + 1} /\ Sourced(NewRow(t)) /\ rows'[Len(rows) + 1] = NewRow(t)
  <2>1. NewRow(t) \in Row
    BY <1>5, MemoryAssumption DEF Insert, Drafted, NewRow, Row, Candidate, MemoryStatus
  <2>2. Len(rows') = Len(rows) + 1 /\ rows'[Len(rows) + 1] = NewRow(t)
    BY <1>5, <2>1, Appending DEF Insert
  <2>3. Ids' = Ids \cup {Len(rows) + 1}
    <3>1. Len(rows) \in Nat
      BY DEF TypeOK
    <3>. QED  BY <2>2, <3>1 DEF Ids
  <2>4. Accepted(t, draft[t])
    BY <1>5 DEF Insert, Drafted
  <2>. QED  BY <2>2, <2>3, <2>4 DEF Accepted, NewRow
<1>6. CASE UNCHANGED rows
  BY <1>4, <1>6 DEF RowsAreSourced, Ids
<1>7. ASSUME NEW t \in Task, Insert(t)
      PROVE  RowsAreSourced'
  <2>1. UNCHANGED evidence
    BY <1>7 DEF Insert, work
  <2>. QED  BY <1>4, <1>5, <1>7, <2>1 DEF RowsAreSourced, Source
<1>8. CASE \E i \in Ids, s \in MemoryStatus \ {"ACTIVE"} :
             rows[i].status = "ACTIVE" /\ rows' = [rows EXCEPT ![i].status = s]
  <2>1. Len(rows') = Len(rows)
    BY <1>8, Restating
  <2>2. Ids' = Ids
    BY <2>1 DEF Ids
  <2>. QED  BY <1>4, <2>2 DEF RowsAreSourced
<1>. QED  BY <1>6, <1>7, <1>8, RowsChange DEF Change

\* Searches see one scope, tools show what they observe, and rows stay as they are.
LEMMA ScopesAreApartStep == TypeOK /\ Drafted /\ ScopesAreApart /\ Next => ScopesAreApart'
<1> SUFFICES ASSUME TypeOK, Drafted, ScopesAreApart, Next
             PROVE  ScopesAreApart'
  OBVIOUS
<1> DEFINE Own(t) == {i \in Ids : rows[i].scope = ScopeOf[t]}
           Told(t) == {rows[i].content : i \in Own(t)} \cup {rows[i].evidence : i \in Own(t)}
<1>1. \A t \in Task : shown[t] \subseteq Own(t) /\ evidence[t] \subseteq Observed[t] \cup Told(t)
  BY DEF ScopesAreApart
<1>2. \A t \in Task : Own(t) \subseteq Own(t)' /\ Told(t) \subseteq Told(t)'
  BY RowsStand DEF StandsFor
<1>3. ASSUME \A t \in Task : shown'[t] \subseteq Own(t) /\ evidence'[t] \subseteq Observed[t] \cup Told(t)
      PROVE  ScopesAreApart'
  <2>1. \A t \in Task : shown'[t] \subseteq Own(t)' /\ evidence'[t] \subseteq Observed[t] \cup Told(t)'
    BY <1>2, <1>3
  <2>2. \A t \in Task : evidence'[t] \subseteq Observed[t] \cup {rows'[i].content : i \in Own(t)'}
                                                             \cup {rows'[i].evidence : i \in Own(t)'}
    BY <2>1
  <2>. QED  BY <2>1, <2>2 DEF ScopesAreApart
<1> HIDE DEF Own, Told
<1>4. shown \in [Task -> SUBSET Ids] /\ evidence \in [Task -> SUBSET Fact]
  BY DEF TypeOK
<1>5. ASSUME NEW t \in Task
      PROVE  /\ \A query : \A best \in Recalled(ScopeOf[t], query) : best \subseteq Own(t)
             /\ \A best \in Searched(ScopeOf[t]) : best \subseteq Own(t)
  BY ShownInScope DEF Active, Own
<1>6. ASSUME NEW t \in Task, Recall(t)
      PROVE  ScopesAreApart'
  <2>1. PICK best \in Recalled(ScopeOf[t], Said[t]) \cup {{}} : shown' = [shown EXCEPT ![t] = best]
    BY <1>6 DEF Recall
  <2>2. best \subseteq Own(t) /\ UNCHANGED evidence
    BY <1>5, <1>6 DEF Recall
  <2>. QED  BY <1>1, <1>3, <1>4, <2>1, <2>2
<1>7. ASSUME NEW t \in Task, SearchMemory(t)
      PROVE  ScopesAreApart'
  <2>2. PICK best \in Searched(ScopeOf[t]) :
          /\ shown' = [shown EXCEPT ![t] = @ \cup best]
          /\ \/ evidence' = [evidence EXCEPT ![t] = @ \cup {rows[i].content : i \in best}
                                                      \cup {rows[i].evidence : i \in best}]
             \/ UNCHANGED evidence
    BY <1>7 DEF SearchMemory
  <2>3. best \subseteq Own(t)
    BY <1>5
  <2>4. \A u \in Task : shown'[u] \subseteq Own(u)
    BY <1>1, <1>4, <2>2, <2>3
  <2>5. {rows[i].content : i \in best} \cup {rows[i].evidence : i \in best} \subseteq Told(t)
    BY <2>3 DEF Told
  <2>6. \A u \in Task : evidence'[u] \subseteq evidence[u] \cup (IF u = t THEN Told(t) ELSE {})
    BY <1>4, <2>2, <2>5
  <2>. QED  BY <1>1, <1>3, <2>4, <2>6
<1>8. ASSUME NEW t \in Task, CallTool(t)
      PROVE  ScopesAreApart'
  BY <1>1, <1>3, <1>4, <1>8 DEF CallTool
<1>9. ASSUME UNCHANGED work
      PROVE  ScopesAreApart'
  BY <1>1, <1>3, <1>9 DEF work
<1>10. CASE \E t \in Task : \/ EndTask(t) \/ Evaluate(t) \/ SelectTwin(t) \/ Insert(t)
                            \/ CaptureFails(t) \/ CaptureFinishes(t)
  BY <1>9, <1>10 DEF EndTask, Evaluate, SelectTwin, Insert, CaptureFails, CaptureFinishes
<1>11. CASE \E p \in Process, i \in Ids, scope \in Scope : Invalidate(p, i, scope) \/ Delete(p, i, scope)
  BY <1>9, <1>11 DEF Invalidate, Delete
<1>12. CASE \E p \in Process : Crash(p)
  BY <1>9, <1>12 DEF Crash
<1>. QED  BY <1>6, <1>7, <1>8, <1>10, <1>11, <1>12 DEF Next

\* Only Insert makes rows, each for the task it reports to; duplicates are ids
\* of rows that were there.
LEMMA AccountStep == TypeOK /\ Drafted /\ CaptureIsAccounted /\ Next => CaptureIsAccounted'
<1> SUFFICES ASSUME TypeOK, Drafted, CaptureIsAccounted, Next
             PROVE  CaptureIsAccounted'
  OBVIOUS
<1> DEFINE Kept(t) == /\ created[t] = {i \in Ids : rows[i].task = t}
                      /\ \A i \in duplicates[t] : Answers(rows[i], t)
           Late(t) == /\ outcome[t] # None => phase[t] = "done"
                      /\ phase[t] \in {"new", "work"} => created[t] \cup duplicates[t] = {}
<1>1. \A t \in Task : Kept(t) /\ Late(t)
  BY DEF CaptureIsAccounted
<1>2. SUFFICES \A t \in Task : Kept(t)' /\ Late(t)'
  BY DEF CaptureIsAccounted
<1>3. \A i \in Ids : StandsFor(rows'[i], rows[i])
  BY RowsStand
<1>4. /\ phase \in [Task -> {"new", "work", "capture", "select", "insert", "done"}]
      /\ outcome \in [Task -> {"memory_capture_finished", "memory_capture_failed", None}]
      /\ created \in [Task -> SUBSET Ids] /\ duplicates \in [Task -> SUBSET Ids]
      /\ rows \in Seq(Row)
  BY DEF TypeOK
<1>13. \A t \in Task : \A i \in Ids : Answers(rows[i], t) => Answers(rows'[i], t)
  BY <1>3 DEF StandsFor, Answers
<1>5. ASSUME Ids' = Ids, UNCHANGED created,
             \A t \in Task : duplicates'[t] \subseteq {i \in Ids : Answers(rows[i], t)}
      PROVE  \A t \in Task : Kept(t)'
  BY <1>1, <1>3, <1>5, <1>13 DEF StandsFor
<1>6. \A t \in Task : duplicates[t] \subseteq {i \in Ids : Answers(rows[i], t)}
  BY <1>1, <1>4
<1>7. ASSUME UNCHANGED rows
      PROVE  Ids' = Ids
  BY <1>7 DEF Ids
<1>8. ASSUME NEW u \in Task, \/ Recall(u) \/ SearchMemory(u) \/ CallTool(u) \/ EndTask(u)
                             \/ Evaluate(u) \/ CaptureFails(u) \/ CaptureFinishes(u)
      PROVE  \A t \in Task : Kept(t)' /\ Late(t)'
  <2>1. UNCHANGED rows /\ UNCHANGED created /\ UNCHANGED duplicates
    BY <1>8 DEF Recall, SearchMemory, CallTool, EndTask, Evaluate, CaptureFails, CaptureFinishes, report
  <2>2. \A t \in Task : Kept(t)'
    BY <1>5, <1>6, <1>7, <2>1
  <2>3. CASE Recall(u) \/ SearchMemory(u) \/ CallTool(u) \/ EndTask(u)
    <3>1. UNCHANGED outcome /\ phase[u] \in {"new", "work"} /\ \A t \in Task \ {u} : phase'[t] = phase[t]
      BY <1>4, <2>3 DEF Recall, SearchMemory, CallTool, EndTask
    <3>. QED  BY <1>1, <1>4, <2>1, <2>2, <3>1
  <2>4. CASE Evaluate(u)
    <3>1. UNCHANGED outcome /\ phase[u] = "capture" /\ phase'[u] \notin {"new", "work"}
          /\ \A t \in Task \ {u} : phase'[t] = phase[t]
      BY <1>4, <2>4 DEF Evaluate
    <3>. QED  BY <1>1, <1>4, <2>1, <2>2, <3>1
  <2>5. CASE CaptureFails(u) \/ CaptureFinishes(u)
    <3>1. phase'[u] = "done" /\ \A t \in Task \ {u} : phase'[t] = phase[t] /\ outcome'[t] = outcome[t]
      BY <1>4, <2>5 DEF CaptureFails, CaptureFinishes
    <3>. QED  BY <1>1, <1>4, <2>1, <2>2, <3>1
  <2>. QED  BY <1>8, <2>3, <2>4, <2>5
<1>9. ASSUME NEW u \in Task, SelectTwin(u)
      PROVE  \A t \in Task : Kept(t)' /\ Late(t)'
  <2>1. UNCHANGED rows /\ UNCHANGED created /\ UNCHANGED outcome /\ phase[u] = "select"
    BY <1>9 DEF SelectTwin
  <2>2. phase'[u] \in {"capture", "insert"} /\ \A t \in Task \ {u} : phase'[t] = phase[t]
    <3>1. phase' = [phase EXCEPT ![u] = "capture"] \/ phase' = [phase EXCEPT ![u] = "insert"]
      BY <1>9 DEF SelectTwin
    <3>. QED  BY <1>4, <3>1
  <2>3. Twins(u) \subseteq {i \in Ids : Answers(rows[i], u)}
    BY <1>9 DEF Twins, Active, Answers, Drafted, SelectTwin
  <2>4. /\ \A t \in Task \ {u} : duplicates'[t] = duplicates[t]
        /\ duplicates'[u] \subseteq duplicates[u] \cup Twins(u)
    BY <1>4, <1>9 DEF SelectTwin
  <2>5. \A t \in Task : duplicates'[t] \subseteq {i \in Ids : Answers(rows[i], t)}
    BY <1>6, <2>3, <2>4
  <2>6. \A t \in Task : Kept(t)'
    BY <1>5, <1>7, <2>1, <2>5
  <2>. QED  BY <1>1, <2>1, <2>2, <2>4, <2>6
<1>10. ASSUME NEW u \in Task, Insert(u)
       PROVE  \A t \in Task : Kept(t)' /\ Late(t)'
  <2>1. NewRow(u) \in Row
    BY <1>10, MemoryAssumption DEF Insert, Drafted, NewRow, Row, Candidate, MemoryStatus
  <2>2. Len(rows') = Len(rows) + 1 /\ rows'[Len(rows) + 1].task = u
    BY <1>10, <2>1, Appending DEF Insert, NewRow
  <2>3. Ids' = Ids \cup {Len(rows) + 1} /\ Len(rows) + 1 \notin Ids
    <3>1. Len(rows) \in Nat
      BY <1>4
    <3>. QED  BY <2>2, <3>1 DEF Ids
  <2>4. /\ created'[u] = created[u] \cup {Len(rows) + 1}
        /\ \A t \in Task \ {u} : created'[t] = created[t]
        /\ UNCHANGED duplicates /\ UNCHANGED outcome
        /\ phase[u] = "insert" /\ phase'[u] = "capture" /\ \A t \in Task \ {u} : phase'[t] = phase[t]
    BY <1>4, <1>10 DEF Insert
  <2>5. \A i \in Ids : rows'[i].task = rows[i].task /\ rows'[i].scope = rows[i].scope
    BY <1>3 DEF StandsFor
  <2>6. ASSUME NEW t \in Task
        PROVE  created'[t] = {i \in Ids' : rows'[i].task = t}
    BY <1>1, <2>2, <2>3, <2>4, <2>5
  <2>7. \A t \in Task : \A i \in duplicates'[t] : Answers(rows'[i], t)
    BY <1>6, <1>13, <2>4
  <2>8. \A t \in Task : Late(t)'
    BY <1>1, <2>4
  <2>. QED  BY <2>6, <2>7, <2>8
<1>11. ASSUME NEW p \in Process, NEW i \in Ids, NEW scope \in Scope, Invalidate(p, i, scope) \/ Delete(p, i, scope)
       PROVE  \A t \in Task : Kept(t)' /\ Late(t)'
  <2>1. PICK s \in MemoryStatus : rows' = [rows EXCEPT ![i].status = s]
    BY <1>11 DEF Invalidate, Delete, SetStatus, MemoryStatus
  <2>2. Ids' = Ids
    <3>1. Len(rows') = Len(rows)
      BY <2>1, Restating
    <3>. QED  BY <3>1 DEF Ids
  <2>3. UNCHANGED <<created, duplicates, outcome, phase>>
    BY <1>11 DEF Invalidate, Delete, report
  <2>. QED  BY <1>1, <1>5, <1>6, <2>2, <2>3
<1>12. ASSUME NEW p \in Process, Crash(p)
       PROVE  \A t \in Task : Kept(t)' /\ Late(t)'
  <2>1. UNCHANGED <<rows, created, duplicates, outcome>>
    BY <1>12 DEF Crash, report
  <2>2. \A t \in Task : phase'[t] = "done" \/ phase'[t] = phase[t]
    BY <1>12 DEF Crash
  <2>. QED  BY <1>1, <1>5, <1>6, <1>7, <2>1, <2>2
<1>. QED  BY <1>8, <1>9, <1>10, <1>11, <1>12 DEF Next

LEMMA HistoryStep ==
    ASSUME TypeOK, Drafted, Next
    PROVE  /\ Len(rows') >= Len(rows)
           /\ \A i \in Ids :
                \/ rows'[i] = rows[i]
                \/ rows[i].status = "ACTIVE" /\ rows'[i] = [rows[i] EXCEPT !.status = rows'[i].status]
<1>1. CASE UNCHANGED rows
  BY <1>1 DEF TypeOK
<1>2. ASSUME NEW t \in Task, Insert(t)
      PROVE  Len(rows') >= Len(rows) /\ \A i \in Ids : rows'[i] = rows[i]
  <2>1. NewRow(t) \in Row
    BY <1>2, MemoryAssumption DEF Insert, Drafted, NewRow, Row, Candidate, MemoryStatus
  <2>2. Len(rows') = Len(rows) + 1 /\ \A i \in Ids : rows'[i] = rows[i]
    BY <1>2, <2>1, Appending DEF Insert
  <2>. QED  BY <2>2 DEF TypeOK
<1>3. ASSUME NEW i \in Ids, NEW s \in MemoryStatus \ {"ACTIVE"},
             rows[i].status = "ACTIVE" /\ rows' = [rows EXCEPT ![i].status = s]
      PROVE  /\ Len(rows') >= Len(rows)
             /\ \A j \in Ids :
                  \/ rows'[j] = rows[j]
                  \/ rows[j].status = "ACTIVE" /\ rows'[j] = [rows[j] EXCEPT !.status = rows'[j].status]
  <2>1. /\ Len(rows') = Len(rows)
        /\ \A j \in Ids : rows'[j] = IF j = i THEN [rows[i] EXCEPT !.status = s] ELSE rows[j]
    BY <1>3, Restating
  <2>2. rows[i] \in Row /\ Len(rows) \in Nat
    BY DEF TypeOK, Ids
  <2>3. rows'[i].status = s
    BY <2>1, <2>2 DEF Row
  <2>. QED  BY <1>3, <2>1, <2>2, <2>3
<1>. QED  BY <1>1, <1>2, <1>3, RowsChange DEF Change

LEMMA Preserved == IInv /\ [Next]_vars => IInv'
<1> SUFFICES ASSUME IInv, [Next]_vars
             PROVE  IInv'
  OBVIOUS
<1>1. CASE Next
  BY <1>1, TypeStep, DraftedStep, OneActiveStep, RowsAreSourcedStep, ScopesAreApartStep, AccountStep
  DEF IInv
<1>2. CASE UNCHANGED vars
  <2>1. Ids' = Ids
    BY <1>2 DEF vars, Ids
  <2>2. TypeOK'
    BY <1>2, <2>1 DEF IInv, TypeOK, vars
  <2>3. Drafted'
    BY <1>2 DEF IInv, Drafted, Accepted, Source, vars
  <2>4. OneActive' /\ RowsAreSourced'
    BY <1>2, <2>1 DEF IInv, OneActive, RowsAreSourced, Source, vars
  <2>5. ScopesAreApart'
    BY <1>2, <2>1 DEF IInv, ScopesAreApart, vars
  <2>6. CaptureIsAccounted'
    BY <1>2, <2>1 DEF IInv, CaptureIsAccounted, Answers, vars
  <2>. QED  BY <2>2, <2>3, <2>4, <2>5, <2>6 DEF IInv
<1>. QED  BY <1>1, <1>2

LEMMA Inductive == Spec => []IInv
BY InitIInv, Preserved, PTL DEF Spec

-----------------------------------------------------------------------------
(* The theorems                                                             *)

\* Every variable keeps its type: ids always name rows of the table, and no
\* task goes past the candidates of its extraction.
THEOREM TypeCorrect == Spec => []TypeOK
<1>1. IInv => TypeOK
  BY DEF IInv
<1>. QED  BY <1>1, Inductive, PTL

\* At most one ACTIVE row of a scope, a type and a content, however the
\* captures of any number of processes interleave.
THEOREM ActiveIsUnique == Spec => []OneActive
<1>1. IInv => OneActive
  BY DEF IInv
<1>. QED  BY <1>1, Inductive, PTL

\* Every row's excerpt is in the source its task's candidate declared, as the
\* policy demands of its type.
THEOREM RowsSourced == Spec => []RowsAreSourced
<1>1. IInv => RowsAreSourced
  BY DEF IInv
<1>. QED  BY <1>1, Inductive, PTL

\* What a task is shown, and what it can quote, never comes from the memory of
\* another scope.
THEOREM ScopesApart == Spec => []ScopesAreApart
<1>1. IInv => ScopesAreApart
  BY DEF IInv
<1>. QED  BY <1>1, Inductive, PTL

\* A capture reports the rows it made, no more and no less, though it may fail
\* half-way; what it calls a duplicate says what one of its candidates says.
THEOREM CaptureAccounted == Spec => []CaptureIsAccounted
<1>1. IInv => CaptureIsAccounted
  BY DEF IInv
<1>. QED  BY <1>1, Inductive, PTL

\* Rows are appended and taken out of use, never rewritten or removed.
THEOREM RowsHistory == Spec => RowsAreHistory
<1> DEFINE Step == /\ Len(rows') >= Len(rows)
                   /\ \A i \in Ids :
                        \/ rows'[i] = rows[i]
                        \/ rows[i].status = "ACTIVE" /\ rows'[i] = [rows[i] EXCEPT !.status = rows'[i].status]
<1>1. IInv /\ [Next]_vars => [Step]_rows
  BY HistoryStep DEF IInv, vars
<1>2. IInv /\ [Next]_vars => IInv'
  BY Preserved
<1>. QED  BY <1>1, <1>2, Inductive, PTL DEF Spec, RowsAreHistory

=============================================================================
