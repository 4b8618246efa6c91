---------------------------- MODULE MCEvaluation ----------------------------
EXTENDS Evaluation

Expect(id, status, tools) ==
    [id |-> id, status |-> status, tools |-> tools, completed |-> {}, artifact |-> FALSE,
     replan |-> FALSE, recovery |-> FALSE, events |-> {}, requireArtifact |-> FALSE]

Deliver == [Expect("deliver", "SUCCESS", <<"save_report">>)
               EXCEPT !.artifact = TRUE, !.events = {"artifact_check"}, !.requireArtifact = TRUE]
Recover == [Expect("recover", "SUCCESS", <<"parse">>)
               EXCEPT !.recovery = TRUE, !.completed = {"s"}]
Repaired == [Expect("repaired", "SUCCESS", <<"save_report", "save_report">>)
               EXCEPT !.artifact = TRUE, !.replan = FALSE]
Missing == [Expect("missing", "FAILED", <<>>) EXCEPT !.replan = TRUE]

MCDatasets ==
    { <<Deliver, Recover>>, <<Repaired, Missing>>, <<Recover, Recover>>, <<>>,
      <<[Deliver EXCEPT !.status = "DONE"]>>, <<[Deliver EXCEPT !.id = ""]>> }

\* AtRank reads the sorted list.
ASSUME RanksAreSorted ==
    \A n \in 1..4 : \A values \in [1..n -> 1..4] :
        [rank \in 1..n |-> AtRank(values, rank)] = SortSeq(values, <)

\* The nearest rank is the least value that at least 95 of 100 do not exceed,
\* for every length up to 40 and every number of slow cases.
ASSUME NearestRank ==
    \A n \in 1..40 : \A slow \in 0..n :
        LET values == [i \in 1..n |-> IF i <= slow THEN 2 ELSE 1]
            NotAbove(v) == Cardinality({i \in 1..n : values[i] <= v})
        IN  Percentile95(values) = Min({v \in {values[i] : i \in 1..n} : 100 * NotAbove(v) >= 95 * n})
=============================================================================
