-------------------------- MODULE MCLongTermMemory --------------------------
(* Two processes; two tasks of one scope, one in each process, and a task   *)
(* of another scope.  "a" hears a preference; "a" and "b" may both conclude *)
(* the fact "g" from "f"; "b" also proposes what its source does not allow  *)
(* and a type that is none.                                                 *)
EXTENDS LongTermMemory

MCScopeOf == [t \in {"a", "b", "c"} |-> IF t = "c" THEN "s2" ELSE "s1"]
MCProcessOf == [t \in {"a", "b", "c"} |-> IF t = "b" THEN "q" ELSE "p"]
MCSaid == [t \in {"a", "b", "c"} |-> IF t = "a" THEN {"f"} ELSE {}]
MCObserved == [t \in {"a", "b", "c"} |-> IF t = "b" THEN {"f"} ELSE {}]

Proposal(type, content, kind, excerpt) ==
    [type |-> type, content |-> content, kind |-> kind, evidence |-> excerpt]

MCProposals == [t \in {"a", "b", "c"} |->
    CASE t = "a" -> {Proposal("PREFERENCE", "f", "USER_EXPLICIT", "f"),
                     Proposal("BUSINESS_FACT", "g", "USER_EXPLICIT", "f")}
      [] t = "b" -> {Proposal("BUSINESS_FACT", "g", "TASK_VERIFIED", "f"),
                     Proposal("PREFERENCE", "g", "TASK_VERIFIED", "f"),
                     Proposal("PROCEDURE", "g", "TASK_VERIFIED", "g"),
                     Proposal("GUESS", "g", "TASK_VERIFIED", "f")}
      [] t = "c" -> {}]
MCCandidates == [t \in {"a", "b", "c"} |-> CASE t = "a" -> 2 [] t = "b" -> 1 [] t = "c" -> 0]
=============================================================================
