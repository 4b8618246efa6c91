--------------------------- MODULE MCPlanRuntime ---------------------------
(* Instances of PlanRuntime for TLC: three step ids, and the answers of the    *)
(* planner that make the interesting cases happen.                             *)
EXTENDS PlanRuntime, TLC

CONSTANTS s1, s2, s3,     (* plan steps                                        *)
          old, new        (* what a step says, before and after it is rewritten *)

MCStepIds == {s1, s2, s3}
MCTexts == {old, new}

Body(steps, deps2, deps3, rewritten) ==
    [steps |-> steps,
     deps |-> (s1 :> {}) @@ (s2 :> deps2) @@ (s3 :> deps3),
     text |-> [s \in MCStepIds |-> IF s \in rewritten THEN new ELSE old]]

Chain     == Body({s1, s2, s3}, {s1}, {s2}, {})
Fork      == Body({s1, s2, s3}, {s1}, {s1}, {})
Short     == Body({s1, s2}, {s1}, {}, {s2})
Reordered == Body({s1, s2, s3}, {s3}, {s1}, {s2, s3})
Rewriting == Body({s1, s2}, {s1}, {}, {s1})
Dropping  == Body({s2, s3}, {}, {}, {})
Cyclic    == Body({s1, s2, s3}, {s3}, {s2}, {})

MCPlannerOutputs == {Chain, Fork, Short, Reordered, Rewriting, Dropping, Cyclic}
MCFewOutputs == {Short, Reordered, Dropping}

=============================================================================
