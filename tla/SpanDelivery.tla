---------------------------- MODULE SpanDelivery ----------------------------
(***************************************************************************)
(* What the export of a trace promises of each of its spans: the state     *)
(* machine of the receipt on disk, and what may reach the service between  *)
(* two of its states.  Only a saved intent sends, and it sends at most     *)
(* once; a receipt says no more than the answer told; whoever forgets a    *)
(* request, by a crash or a failed save, leaves the intent behind, which   *)
(* only becomes uncertain; the operator alone reopens what is settled.     *)
(*                                                                         *)
(* TraceExport implements it with a worker that still records, passes over *)
(* the events, changed settings, crashes and failing writes.               *)
(***************************************************************************)
EXTENDS Naturals

CONSTANTS Spans, Projects, None, MaxAttempts

VARIABLES receipts,   (* the saved receipts: status and attempts             *)
          bound,      (* the project of the trace, None until one is chosen  *)
          copies,     (* what each project has received of each span         *)
          request     (* the span being sent, if any, and what was answered  *)

NoRequest == [span |-> None, answer |-> "none"]

deliveryVars == <<receipts, bound, copies, request>>

DeliveryInit ==
    /\ receipts = [s \in Spans |-> [status |-> "none", attempts |-> 0]]
    /\ bound = None
    /\ copies = [s \in Spans |-> [p \in Projects |-> 0]]
    /\ request = NoRequest

Write(s, from, to, attempts) ==
    /\ receipts[s].status \in from
    /\ receipts' = [receipts EXCEPT ![s] = [status |-> to, attempts |-> attempts]]

\* The project is chosen once.
Bind == bound' \in Projects /\ bound \in {None, bound'}

Intend(s) ==
    /\ request = NoRequest
    /\ Write(s, {"none", "retry"}, "sending", receipts[s].attempts + 1) /\ Bind
    /\ request' = [span |-> s, answer |-> "open"]
    /\ UNCHANGED copies

Send(s, answer) ==
    /\ request = [span |-> s, answer |-> "open"]
    /\ request' = [span |-> s, answer |-> answer]
    /\ \/ answer \in {"taken", "unknown"} /\ copies' = [copies EXCEPT ![s][bound] = @ + 1]
       \/ answer \in {"refused", "unknown"} /\ UNCHANGED copies
    /\ UNCHANGED <<receipts, bound>>

\* What a receipt may say after the answer to so many attempts.
Conclusions(answer, attempts) ==
    CASE answer = "taken" -> {"accepted"}
      [] answer = "unknown" -> {"uncertain"}
      [] answer = "refused" -> {"rejected", IF attempts < MaxAttempts THEN "retry" ELSE "exhausted"}
      [] answer \in {"open", "none"} -> {}

Conclude(s) ==
    /\ request.span = s
    /\ \E status \in Conclusions(request.answer, receipts[s].attempts) :
          Write(s, {"sending"}, status, receipts[s].attempts)
    /\ request' = NoRequest
    /\ UNCHANGED <<bound, copies>>

Forget ==
    /\ request' = NoRequest
    /\ UNCHANGED <<receipts, bound, copies>>

Doubt(s) ==
    /\ request = NoRequest
    /\ Write(s, {"sending"}, "uncertain", receipts[s].attempts) /\ Bind
    /\ UNCHANGED <<copies, request>>

Dismiss(s) ==
    /\ request = NoRequest
    /\ Write(s, {"none", "retry"}, "rejected", 0) /\ Bind
    /\ UNCHANGED <<copies, request>>

Decide(s, decision) ==
    /\ request = NoRequest
    /\ Write(s, {"uncertain", "rejected", "exhausted"}, decision, 0)
    /\ UNCHANGED <<bound, copies, request>>

DeliveryNext ==
    \/ \E s \in Spans :
          \/ Intend(s) \/ Conclude(s) \/ Doubt(s) \/ Dismiss(s)
          \/ \E answer \in {"taken", "refused", "unknown"} : Send(s, answer)
          \/ \E decision \in {"retry", "accepted"} : Decide(s, decision)
    \/ Forget

DeliverySpec == DeliveryInit /\ [][DeliveryNext]_deliveryVars

=============================================================================
