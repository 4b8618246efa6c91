------------------------- MODULE ContextLoopProofs -------------------------
(* Proofs about ContextLoop, for any limits, sizes, budgets and refs.       *)
EXTENDS ContextLoop, SequenceTheorems, TLAPS

-----------------------------------------------------------------------------
(* Refs of a history                                                        *)

Histories == Seq(Group)

\* Cutting a history in two loses no ref.
LEMMA RefsOfParts ==
    ASSUME NEW gs \in Histories, NEW k \in 0..Len(gs)
    PROVE  /\ Rest(gs, k) \in Histories /\ Len(Rest(gs, k)) = Len(gs) - k
           /\ RefsOf(gs) \subseteq RefsOf(SubSeq(gs, 1, k)) \cup RefsOf(Rest(gs, k))
           /\ RefsOf(SubSeq(gs, 1, k)) \subseteq Refs
<1>1. \A i \in 1..Len(gs) : gs[i] \in Group
  BY DEF Histories
<1>2. /\ SubSeq(gs, 1, k) \in Seq(Group) /\ Len(SubSeq(gs, 1, k)) = k
      /\ \A i \in 1..k : SubSeq(gs, 1, k)[i] = gs[i]
  BY <1>1, SubSeqProperties
<1>3. /\ Rest(gs, k) \in Seq(Group) /\ Len(Rest(gs, k)) = Len(gs) - k
      /\ \A i \in 1..(Len(gs) - k) : Rest(gs, k)[i] = gs[k + i]
  BY <1>1, SubSeqProperties DEF Rest, Histories
<1>4. DOMAIN gs = 1..Len(gs) /\ DOMAIN SubSeq(gs, 1, k) = 1..k
      /\ DOMAIN Rest(gs, k) = 1..(Len(gs) - k)
  BY <1>2, <1>3 DEF Histories
<1>5. ASSUME NEW r \in RefsOf(gs)
      PROVE  r \in RefsOf(SubSeq(gs, 1, k)) \cup RefsOf(Rest(gs, k))
  <2>1. PICK i \in 1..Len(gs) : r \in gs[i].refs
    BY <1>4, <1>5 DEF RefsOf
  <2>2. CASE i \in 1..k
    BY <2>1, <2>2, <1>2, <1>4 DEF RefsOf
  <2>3. CASE i \notin 1..k
    <3>1. i - k \in 1..(Len(gs) - k) /\ k + (i - k) = i
      BY <2>3 DEF Histories
    <3>2. r \in Rest(gs, k)[i - k].refs
      BY <2>1, <3>1, <1>3
    <3>. QED  BY <3>1, <3>2, <1>4 DEF RefsOf
  <2>. QED  BY <2>2, <2>3
<1>6. \A i \in 1..k : SubSeq(gs, 1, k)[i].refs \subseteq Refs
  BY <1>1, <1>2 DEF Group, Histories
<1>7. RefsOf(SubSeq(gs, 1, k)) \subseteq Refs
  BY <1>4, <1>6 DEF RefsOf
<1>. QED  BY <1>3, <1>5, <1>7 DEF Histories

LEMMA RefsOfAppend ==
    ASSUME NEW gs \in Histories, NEW g \in Group
    PROVE  RefsOf(gs) \cup g.refs \subseteq RefsOf(Append(gs, g))
<1>1. /\ DOMAIN Append(gs, g) = 1..(Len(gs) + 1) /\ DOMAIN gs = 1..Len(gs)
      /\ \A i \in 1..Len(gs) : Append(gs, g)[i] = gs[i]
      /\ Append(gs, g)[Len(gs) + 1] = g
      /\ Len(gs) \in Nat
  BY DEF Histories
<1>. QED  BY <1>1 DEF RefsOf

-----------------------------------------------------------------------------
(* The invariant                                                            *)

AtPrompt == {"compact", "execute"}
InTurn == {"calls", "replan"}

\* Once there is a plan, and as long as there is a turn to handle.
Progress ==
    /\ Len(groups) < iteration
    /\ at \in {"begin"} \cup AtPrompt \cup InTurn => plan \in 1..(1 + MaxReplans)
    /\ at = "replan" => left > 0 /\ plan <= MaxReplans
    /\ at = "compact" => ~open

\* What the model has been given is in the summary, the history or the turn.
RefsHeld ==
    /\ at \in {"begin"} \cup AtPrompt => given \subseteq summary.refs \cup RefsOf(groups)
    /\ at \in InTurn => given \subseteq summary.refs \cup RefsOf(groups) \cup turn
    /\ at = "plan" => given = {}

Anchored == at \in AtPrompt => AnchorsCurrent
Checked == at = "execute" => WithinHardLimit /\ BudgetLeft

IInv == TypeOK /\ Progress /\ RefsHeld /\ Anchored /\ Checked

LEMMA InitIInv == Init => IInv
<1> SUFFICES ASSUME Init
             PROVE  IInv
  OBVIOUS
<1>1. <<>> \in Seq(Group) /\ Len(<<>>) = 0
  OBVIOUS
<1>2. TypeOK
  <2>1. (failures = FailureThreshold) = FALSE
    BY ContextAssumption DEF Init
  <2>2. open = (failures = FailureThreshold)
    BY <2>1, Zenon DEF Init
  <2>3. summary \in Summary \cup {NoSummary}
    BY DEF Init
  <2>4. groups \in Seq(Group) /\ Len(groups) < MaxIterations
    BY <1>1, ContextAssumption DEF Init
  <2>. QED
    BY <2>2, <2>3, <2>4, ContextAssumption DEF Init, TypeOK, ModelCalls
<1>. QED
  BY <1>1, <1>2 DEF Init, IInv, Progress, RefsHeld, Anchored, Checked, AtPrompt, InTurn

-----------------------------------------------------------------------------
(* What leads to a prompt                                                   *)

\* A prompt that may stand for the history gs with the summary s.
Stands(t, hs, s, gs) ==
    /\ t \in Summary \cup {NoSummary} /\ hs \in Histories
    /\ Len(hs) <= Len(gs)
    /\ t.plan \in {0, plan}
    /\ s.refs \cup RefsOf(gs) \subseteq t.refs \cup RefsOf(hs)

\* What _deterministic_trim sends stands for what it was given.
LEMMA TrimSends ==
    ASSUME NEW s \in Summary \cup {NoSummary}, NEW gs \in Histories,
           plan \in 1..(1 + MaxReplans), s.plan \in {0, plan}, Trim(s, gs)
    PROVE  \E t, hs : Stands(t, hs, s, gs) /\ Send(t, hs)
<1>1. PICK k \in 0..Len(gs) :
        \E t \in IF k = 0 THEN {s}
                 ELSE {[size |-> z, refs |-> s.refs \cup RefsOf(SubSeq(gs, 1, k)), plan |-> plan] :
                          z \in SummarySizes} :
           Send(t, Rest(gs, k))
  BY DEF Trim
<1>2. /\ Rest(gs, k) \in Histories /\ Len(Rest(gs, k)) = Len(gs) - k
      /\ RefsOf(gs) \subseteq RefsOf(SubSeq(gs, 1, k)) \cup RefsOf(Rest(gs, k))
      /\ RefsOf(SubSeq(gs, 1, k)) \subseteq Refs
  BY RefsOfParts
<1>3. Len(Rest(gs, k)) <= Len(gs)
  BY <1>2 DEF Histories
<1>4. s.refs \subseteq Refs
  BY DEF Summary, NoSummary
<1>5. CASE k = 0
  <2>1. Send(s, Rest(gs, k))
    BY <1>1, <1>5
  <2>2. Rest(gs, 0) = gs
    <3>1. \A i \in 1..Len(gs) : gs[i] \in Group
      BY DEF Histories
    <3>2. /\ SubSeq(gs, 1, Len(gs)) \in Seq(Group)
          /\ Len(SubSeq(gs, 1, Len(gs))) = Len(gs)
          /\ \A i \in 1..Len(gs) : SubSeq(gs, 1, Len(gs))[i] = gs[i]
      BY <3>1, SubSeqProperties DEF Histories
    <3>. QED  BY <3>2 DEF Rest, Histories
  <2>. QED  BY <2>1, <2>2, <1>3, <1>5 DEF Stands
<1>6. CASE k # 0
  <2>1. PICK z \in SummarySizes :
          Send([size |-> z, refs |-> s.refs \cup RefsOf(SubSeq(gs, 1, k)), plan |-> plan], Rest(gs, k))
    BY <1>1, <1>6
  <2> DEFINE t == [size |-> z, refs |-> s.refs \cup RefsOf(SubSeq(gs, 1, k)), plan |-> plan]
  <2>2. t \in Summary
    BY <1>2, <1>4 DEF Summary
  <2>3. Stands(t, Rest(gs, k), s, gs)
    BY <2>2, <1>2, <1>3 DEF Stands
  <2>. QED  BY <2>1, <2>3
<1>. QED  BY <1>5, <1>6

\* A step that ends by sending such a prompt keeps the invariant.
LEMMA SendKeeps ==
    ASSUME IInv, at \in {"begin", "compact"},
           NEW s, NEW gs, NEW t, NEW hs,
           Stands(t, hs, s, gs), Send(t, hs),
           Len(gs) <= Len(groups) /\ gs \in Histories,
           summary.refs \cup RefsOf(groups) \subseteq s.refs \cup RefsOf(gs),
           failures' \in 0..FailureThreshold, open' = (failures' = FailureThreshold),
           total' \in Nat, tries' \in 1..CompactAttempts,
           UNCHANGED <<turn, left, given, iteration, plan>>
    PROVE  IInv'
<1>1. summary' = t /\ groups' = hs
  BY DEF Send
<1>2. \/ at' = "execute" /\ attempt' = 1 /\ Tokens(t, hs) <= HardLimit /\ total' < HardBudget
      \/ at' = "failed" /\ attempt' = attempt
  BY DEF Send, Call, Fail
<1>3. Len(hs) < iteration
  BY DEF Stands, IInv, TypeOK, Progress, Histories
<1>4. TypeOK'
  BY <1>1, <1>2, <1>3, ContextAssumption DEF IInv, TypeOK, Stands, ModelCalls, Histories
<1>5. Progress'
  BY <1>1, <1>2, <1>3 DEF IInv, Progress, AtPrompt, InTurn
<1>6. RefsHeld'
  <2>1. given \subseteq summary.refs \cup RefsOf(groups)
    BY DEF IInv, RefsHeld, AtPrompt
  <2>2. given' \subseteq (summary.refs \cup RefsOf(groups))'
    BY <2>1, <1>1 DEF Stands, RefsOf
  <2>. QED  BY <2>2, <1>2 DEF RefsHeld, AtPrompt, InTurn
<1>7. Anchored' /\ Checked'
  BY <1>1, <1>2 DEF Anchored, Checked, AnchorsCurrent, WithinHardLimit, BudgetLeft, Stands,
                    AtPrompt, Tokens, TokensOf
<1>. QED  BY <1>4, <1>5, <1>6, <1>7 DEF IInv

LEMMA TrimKeeps ==
    ASSUME IInv, at \in {"begin", "compact"},
           NEW s \in Summary \cup {NoSummary}, NEW gs \in Histories,
           s.plan \in {0, plan}, Trim(s, gs),
           Len(gs) <= Len(groups),
           summary.refs \cup RefsOf(groups) \subseteq s.refs \cup RefsOf(gs),
           failures' \in 0..FailureThreshold, open' = (failures' = FailureThreshold),
           total' \in Nat, tries' \in 1..CompactAttempts,
           UNCHANGED <<turn, left, given, iteration, plan>>
    PROVE  IInv'
<1>1. plan \in 1..(1 + MaxReplans)
  BY DEF IInv, Progress, AtPrompt
<1>2. PICK t, hs : Stands(t, hs, s, gs) /\ Send(t, hs)
  BY <1>1, TrimSends
<1>. QED  BY <1>2, SendKeeps

-----------------------------------------------------------------------------
(* One lemma per action that sends a prompt                                 *)

LEMMA PrepareStep == ASSUME IInv, Prepare PROVE IInv'
<1> USE ContextAssumption
<1>1. PICK s \in Refreshed :
        \/ Send(s, groups) /\ UNCHANGED tries
        \/ Trim(s, groups) /\ UNCHANGED tries
        \/ MayCompact /\ summary' = s /\ tries' = 1 /\ Call("compact") /\ UNCHANGED groups
  BY DEF Prepare
<1>2. plan \in 1..(1 + MaxReplans)
  BY DEF Prepare, IInv, Progress
<1>3. s \in Summary \cup {NoSummary} /\ s.plan \in {0, plan} /\ s.refs = summary.refs
  <2>1. CASE summary = NoSummary
    BY <2>1 DEF Refreshed, NoSummary
  <2>2. CASE summary # NoSummary
    <3>1. PICK z \in SummarySizes : s = [summary EXCEPT !.plan = plan, !.size = z]
      BY <2>2 DEF Refreshed
    <3>2. summary \in Summary
      BY <2>2 DEF IInv, TypeOK
    <3>3. s = [size |-> z, refs |-> summary.refs, plan |-> plan]
      BY <3>1, <3>2 DEF Summary
    <3>. QED  BY <3>2, <3>3, <1>2 DEF Summary
  <2>. QED  BY <2>1, <2>2
<1>4. groups \in Histories
  BY DEF IInv, TypeOK, Histories
<1>5. /\ at = "begin"
      /\ UNCHANGED <<failures, open, total, turn, left, given, iteration, plan>>
      /\ failures \in 0..FailureThreshold /\ open = (failures = FailureThreshold)
      /\ total \in Nat /\ tries \in 1..CompactAttempts
  BY DEF Prepare, turnState, IInv, TypeOK
<1>6. CASE Send(s, groups) /\ UNCHANGED tries
  <2>1. Stands(s, groups, s, groups)
    BY <1>3, <1>4 DEF Stands, Histories
  <2>2. Len(groups) <= Len(groups)
    BY <1>4 DEF Histories
  <2>3. failures' \in 0..FailureThreshold /\ open' = (failures' = FailureThreshold)
        /\ total' \in Nat /\ tries' \in 1..CompactAttempts
    BY <1>5, <1>6
  <2>. QED  BY <2>1, <2>2, <2>3, <1>3, <1>4, <1>5, <1>6, SendKeeps
<1>7. CASE Trim(s, groups) /\ UNCHANGED tries
  <2>1. Len(groups) <= Len(groups)
    BY <1>4 DEF Histories
  <2>2. failures' \in 0..FailureThreshold /\ open' = (failures' = FailureThreshold)
        /\ total' \in Nat /\ tries' \in 1..CompactAttempts
    BY <1>5, <1>7
  <2>. QED  BY <2>1, <2>2, <1>3, <1>4, <1>5, <1>7, TrimKeeps
<1>8. CASE MayCompact /\ summary' = s /\ tries' = 1 /\ Call("compact") /\ UNCHANGED groups
  <2>1. TypeOK'
    BY <1>3, <1>5, <1>8 DEF IInv, TypeOK, Call, ModelCalls
  <2>2. Progress' /\ Anchored' /\ Checked'
    BY <1>2, <1>3, <1>5, <1>8 DEF IInv, Progress, Anchored, Checked, AnchorsCurrent, Call,
                                  MayCompact, AtPrompt, InTurn
  <2>3. RefsHeld'
    BY <1>3, <1>5, <1>8 DEF IInv, RefsHeld, RefsOf, Call, AtPrompt, InTurn
  <2>. QED  BY <2>1, <2>2, <2>3 DEF IInv
<1>. QED  BY <1>1, <1>6, <1>7, <1>8

LEMMA CompactionSucceedsStep ==
    ASSUME IInv, NEW used \in Usage, CompactionSucceeds(used) PROVE IInv'
<1> USE ContextAssumption
<1>1. PICK z \in SummarySizes :
        Trim([size |-> z, refs |-> summary.refs \cup CompactedRefs, plan |-> plan],
             Rest(groups, CompactCount))
  BY DEF CompactionSucceeds
<1> DEFINE s == [size |-> z, refs |-> summary.refs \cup CompactedRefs, plan |-> plan]
<1>2. groups \in Histories /\ CompactCount \in 0..Len(groups)
  BY DEF IInv, TypeOK, Histories, CompactCount
<1>3. /\ Rest(groups, CompactCount) \in Histories
      /\ Len(Rest(groups, CompactCount)) = Len(groups) - CompactCount
      /\ RefsOf(groups) \subseteq CompactedRefs \cup RefsOf(Rest(groups, CompactCount))
      /\ CompactedRefs \subseteq Refs
  BY <1>2, RefsOfParts DEF CompactedRefs
<1>4. Len(Rest(groups, CompactCount)) <= Len(groups)
  BY <1>2, <1>3 DEF Histories
<1>5. plan \in 1..(1 + MaxReplans) /\ ~open /\ at = "compact"
  BY DEF CompactionSucceeds, IInv, Progress, AtPrompt
<1>6. s \in Summary /\ s.plan \in {0, plan} /\ s.refs = summary.refs \cup CompactedRefs
  BY <1>3, <1>5 DEF IInv, TypeOK, Summary, NoSummary
<1>7. /\ failures' \in 0..FailureThreshold /\ open' = (failures' = FailureThreshold)
      /\ total' \in Nat /\ tries' \in 1..CompactAttempts
      /\ UNCHANGED <<turn, left, given, iteration, plan>>
  <2>1. failures' = 0 /\ open' = open /\ open = (failures = FailureThreshold)
    BY DEF CompactionSucceeds, IInv, TypeOK
  <2>2. (failures' = FailureThreshold) = FALSE
    BY <2>1
  <2>3. open' = FALSE
    BY <1>5, <2>1, Zenon
  <2>4. open' = (failures' = FailureThreshold)
    BY <2>2, <2>3, Zenon
  <2>. QED
    BY <2>1, <2>4 DEF CompactionSucceeds, Spend, turnState, IInv, TypeOK
<1>8. Trim(s, Rest(groups, CompactCount))
  BY <1>1
<1>9. summary.refs \cup RefsOf(groups) \subseteq s.refs \cup RefsOf(Rest(groups, CompactCount))
  BY <1>3, <1>6
<1>. HIDE DEF s
<1>. QED  BY <1>3, <1>4, <1>5, <1>6, <1>7, <1>8, <1>9, TrimKeeps

LEMMA CompactionFailsStep ==
    ASSUME IInv, NEW used \in Usage, CompactionFails(used) PROVE IInv'
<1> USE ContextAssumption
<1>1. /\ at = "compact" /\ ~open /\ summary.plan \in {0, plan}
      /\ groups \in Histories /\ Len(groups) <= Len(groups)
      /\ summary \in Summary \cup {NoSummary}
  BY DEF CompactionFails, IInv, TypeOK, Progress, Anchored, AnchorsCurrent, AtPrompt, Histories
<1>2. failures \in 0..FailureThreshold /\ failures # FailureThreshold
  BY <1>1 DEF IInv, TypeOK
<1>3. /\ failures' \in 0..FailureThreshold /\ open' = (failures' = FailureThreshold)
      /\ total' \in Nat /\ tries' \in 1..CompactAttempts
      /\ UNCHANGED <<turn, left, given, iteration, plan>>
  BY <1>2 DEF CompactionFails, Spend, turnState, IInv, TypeOK
<1>4. CASE Trim(summary, groups)
  BY <1>1, <1>3, <1>4, TrimKeeps
<1>5. CASE Send(summary, groups)
  <2>1. Stands(summary, groups, summary, groups)
    BY <1>1 DEF Stands
  <2>. QED  BY <2>1, <1>1, <1>3, <1>5, SendKeeps
<1>. QED  BY <1>4, <1>5 DEF CompactionFails

LEMMA CloseTurnStep == ASSUME IInv, CloseTurn PROVE IInv'
<1> USE ContextAssumption
<1>1. CASE iteration = MaxIterations
  BY <1>1 DEF CloseTurn, Fail, session, IInv, TypeOK, Progress, RefsHeld, Anchored, Checked,
              AtPrompt, InTurn, ModelCalls
<1>2. CASE iteration # MaxIterations
  <2>1. PICK n \in Sizes : groups' = Append(groups, [size |-> n, refs |-> turn])
    BY <1>2 DEF CloseTurn
  <2>2. groups \in Histories /\ [size |-> n, refs |-> turn] \in Group
    BY DEF IInv, TypeOK, Histories, Group
  <2>3. groups' \in Histories /\ Len(groups') = Len(groups) + 1 /\ Len(groups) \in Nat
    BY <2>1, <2>2 DEF Histories
  <2>4. RefsOf(groups) \cup turn \subseteq RefsOf(groups')
    BY <2>1, <2>2, RefsOfAppend
  <2>5. /\ at = "calls" /\ left = 0 /\ at' = "begin" /\ iteration' = iteration + 1
        /\ UNCHANGED <<attempt, summary, failures, open, total, tries, left, plan, given>>
        /\ turn' = {}
    BY <1>2 DEF CloseTurn, session
  <2>6. Len(groups') < iteration' /\ iteration' \in 1..MaxIterations
    BY <1>2, <2>3, <2>5 DEF IInv, TypeOK, Progress
  <2>7. TypeOK'
    BY <2>3, <2>5, <2>6 DEF IInv, TypeOK, Histories
  <2>8. Progress' /\ Anchored' /\ Checked'
    BY <2>5, <2>6 DEF IInv, Progress, Anchored, Checked, AtPrompt, InTurn
  <2>9. RefsHeld'
    <3>1. given \subseteq summary.refs \cup RefsOf(groups) \cup turn
      BY <2>5 DEF IInv, RefsHeld, InTurn
    <3>2. given' \subseteq summary'.refs \cup RefsOf(groups')
      BY <3>1, <2>4, <2>5
    <3>. QED  BY <3>2, <2>5 DEF RefsHeld, RefsOf, AtPrompt, InTurn
  <2>. QED  BY <2>7, <2>8, <2>9 DEF IInv
<1>. QED  BY <1>1, <1>2

-----------------------------------------------------------------------------
(* Every step                                                               *)

LEMMA NextIInv == IInv /\ [Next]_vars => IInv'
<1> SUFFICES ASSUME IInv, [Next]_vars
             PROVE  IInv'
  OBVIOUS
<1> USE ContextAssumption
<1>1. CASE Prepare
  BY <1>1, PrepareStep
<1>2. CASE OverBudget \/ CallFails \/ StopInTurn
  BY <1>2 DEF OverBudget, CallFails, StopInTurn, Fail, session, turnState, IInv, TypeOK, Progress,
              RefsHeld, Anchored, Checked, AtPrompt, InTurn, ModelCalls
<1>3. CASE RetryCall
  <2>1. attempt' \in 1..LlmAttempts
    BY <1>3 DEF RetryCall, IInv, TypeOK
  <2>. QED
    BY <1>3, <2>1 DEF RetryCall, session, turnState, IInv, TypeOK, Progress, RefsHeld, Anchored, Checked,
              AnchorsCurrent, WithinHardLimit, BudgetLeft, Tokens, TokensOf, RefsOf
<1>4. ASSUME NEW used \in Usage, PlanReturned(used)
      PROVE  IInv'
  BY <1>4 DEF PlanReturned, Spend, Fail, session, turnState, IInv, TypeOK, Progress, RefsHeld, RefsOf,
              Anchored, Checked, AtPrompt, InTurn, ModelCalls
<1>5. ASSUME NEW used \in Usage, ExecuteReturned(used)
      PROVE  IInv'
  BY <1>5 DEF ExecuteReturned, Spend, Fail, session, IInv, TypeOK, Progress, RefsHeld, RefsOf,
              Anchored, Checked, AtPrompt, InTurn, ModelCalls
<1>6. ASSUME NEW used \in Usage, ReplanReturned(used)
      PROVE  IInv'
  BY <1>6 DEF ReplanReturned, Spend, Fail, session, IInv, TypeOK, Progress, RefsHeld, RefsOf,
              Anchored, Checked, AtPrompt, InTurn, ModelCalls
<1>7. ASSUME NEW used \in Usage, CompactionSucceeds(used)
      PROVE  IInv'
  BY <1>7, CompactionSucceedsStep
<1>8. ASSUME NEW used \in Usage, RetryCompaction(used)
      PROVE  IInv'
  BY <1>8 DEF RetryCompaction, Spend, Call, session, turnState, IInv, TypeOK, Progress, RefsHeld, RefsOf,
              Anchored, AnchorsCurrent, Checked, AtPrompt, InTurn, ModelCalls
<1>9. ASSUME NEW used \in Usage, CompactionFails(used)
      PROVE  IInv'
  BY <1>9, CompactionFailsStep
<1>10. CASE Observe
  BY <1>10 DEF Observe, session, IInv, TypeOK, Progress, RefsHeld, RefsOf, Anchored, Checked,
               AtPrompt, InTurn, ModelCalls
<1>11. CASE StartReplan
  BY <1>11 DEF StartReplan, Call, session, turnState, IInv, TypeOK, Progress, RefsHeld, RefsOf,
               Anchored, Checked, AtPrompt, InTurn, ModelCalls
<1>12. CASE CloseTurn
  BY <1>12, CloseTurnStep
<1>13. CASE UNCHANGED vars
  BY <1>13 DEF vars, IInv, TypeOK, Progress, RefsHeld, Anchored, Checked, AnchorsCurrent,
               WithinHardLimit, BudgetLeft, Tokens, TokensOf, RefsOf
<1>. QED
  BY <1>1, <1>2, <1>3, <1>4, <1>5, <1>6, <1>7, <1>8, <1>9, <1>10, <1>11, <1>12, <1>13 DEF Next

THEOREM Invariance == Spec => []IInv
<1>. QED  BY InitIInv, NextIInv, PTL DEF Spec

(* The counters of the session, the run and its calls stay within their limits. *)
THEOREM TypeCorrect == Spec => []TypeOK
<1>1. IInv => TypeOK
  BY DEF IInv
<1>. QED  BY <1>1, Invariance, PTL

(* Every prompt sent to the main model is within the hard limit and the budget, *)
(* keeps every result_ref, and describes the current plan.                      *)
THEOREM PromptsSafe == Spec => []PromptIsSafe
<1>1. IInv => PromptIsSafe
  BY DEF IInv, PromptIsSafe, RefsHeld, Anchored, Checked, RefsKept, AtPrompt
<1>. QED  BY <1>1, Invariance, PTL

=============================================================================
