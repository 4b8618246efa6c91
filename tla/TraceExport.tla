---------------------------- MODULE TraceExport ----------------------------
(***************************************************************************)
(* One task trace: the operations a worker thread records                  *)
(* (observability/operations.py, recorder.py, store.py) and their export   *)
(* by LangfuseExporter (observability/langfuse_exporter.py) to a service   *)
(* that may lose requests and answers.  The export state on disk is the    *)
(* only memory across a crash.                                             *)
(*                                                                         *)
(* Writes are atomic replacements; a step ends at each write that others   *)
(* or a crash may find, and at each answer of the network.                 *)
(***************************************************************************)
EXTENDS Naturals, Sequences, FiniteSets

CONSTANTS Obs,          (* observation ids                                   *)
          Root,         (* the id of the task's own operation                *)
          Referenced,   (* payloads too large to be inline: observation and
                           part, "input" or "output"                         *)
          Dests,        (* export projects: base URL and public key          *)
          None,         (* no destination, no observation                    *)
          MaxAttempts,  (* langfuse_export_max_attempts                      *)
          MaxResolves,  (* bound on the decisions of the operator            *)
          MaxFaults     (* bound on crashes and failures of the local disk   *)

ASSUME ExportAssumption ==
    /\ IsFiniteSet(Obs) /\ Root \in Obs
    /\ Referenced \subseteq Obs \X {"input", "output"}
    /\ None \notin Obs \cup Dests
    /\ Dests # {}
    /\ MaxAttempts \in Nat \ {0}
    /\ MaxResolves \in Nat /\ MaxFaults \in Nat

VARIABLES parent,       (* parent of each started observation, None before   *)
          open,         (* started and not ended                             *)
          log,          (* the ended ones, in the order of their events      *)
          stack,        (* operations the worker is in, innermost last       *)
          unreadable,   (* the referenced payloads that are lost or corrupt  *)
          receipts,     (* observations of langfuse.json                     *)
          bound,        (* destination of langfuse.json                      *)
          dest,         (* destination of the running process                *)
          phase,        (* where the exporter is in _export_trace            *)
          mem,          (* its copy of the receipts                          *)
          todo,         (* ended events it still has to visit                *)
          remote,       (* copies of each span each project has received     *)
          sends,        (* requests made for each span                       *)
          resolves,     (* decisions of the operator for each span           *)
          vouched,      (* spans the operator declared to be accepted        *)
          faults

local == <<parent, open, log, stack, unreadable>>
thread == <<phase, mem, todo>>
disk == <<receipts, bound>>
world == <<remote, sends>>
operator == <<resolves, vouched>>
exportVars == <<parent, open, log, stack, unreadable, receipts, bound, dest, phase, mem,
                todo, remote, sends, resolves, vouched, faults>>

ReceiptStatuses == {"none", "sending", "retry", "accepted", "uncertain", "rejected", "exhausted"}
Settled == {"accepted", "uncertain", "rejected", "exhausted"}
Receipt == [status : ReceiptStatuses, attempts : 0..MaxAttempts]
NoReceipt == [status |-> "none", attempts |-> 0]

Ended == {log[i] : i \in 1..Len(log)}

ExportTypeOK ==
    /\ parent \in [Obs -> Obs \cup {None}]
    /\ open \in SUBSET Obs
    /\ log \in Seq(Obs)
    /\ stack \in Seq(Obs)
    /\ unreadable \in SUBSET Referenced
    /\ receipts \in [Obs -> Receipt]
    /\ bound \in Dests \cup {None}
    /\ dest \in Dests
    /\ phase \in {"idle", "scan", "net", "save"}
    /\ mem \in [Obs -> Receipt]
    /\ todo \in Seq(Obs)
    /\ remote \in [Obs -> [Dests -> Nat]]
    /\ resolves \in [Obs -> 0..MaxResolves]
    /\ sends \in [Obs -> Nat]
    /\ vouched \in SUBSET Obs
    /\ faults \in 0..MaxFaults

\* run_task has created the trace, recorded the start of its root and enrolled
\* it for export; the worker is in the root operation.
ExportInit ==
    /\ parent = [o \in Obs |-> None]
    /\ open = {Root}
    /\ log = <<>>
    /\ stack = <<Root>>
    /\ unreadable = {}
    /\ receipts = [o \in Obs |-> NoReceipt]
    /\ bound = None
    /\ dest = CHOOSE d \in Dests : TRUE
    /\ phase = "idle"
    /\ mem = receipts
    /\ todo = <<>>
    /\ remote = [o \in Obs |-> [d \in Dests |-> 0]]
    /\ sends = [o \in Obs |-> 0]
    /\ resolves = [o \in Obs |-> 0]
    /\ vouched = {}
    /\ faults = 0

Fault ==
    /\ faults < MaxFaults
    /\ faults' = faults + 1

-----------------------------------------------------------------------------
(* The worker records its operations                                        *)

Current == stack[Len(stack)]

\* A traced operation begins under the current one.  (One whose start cannot be
\* recorded runs untraced and changes nothing here.)
StartOp(o) ==
    /\ stack # <<>> /\ o \notin open \cup Ended
    /\ parent' = [parent EXCEPT ![o] = Current]
    /\ open' = open \cup {o}
    /\ stack' = Append(stack, o)
    /\ UNCHANGED <<log, unreadable, thread, disk, dest, world, operator, faults>>

ChildrenOpen(o) == \E c \in open : parent[c] = o

\* Mutant: the store does not look at the children.
EndUnchecked ==
    /\ stack # <<>>
    /\ stack' = SubSeq(stack, 1, Len(stack) - 1)
    /\ \/ /\ log' = Append(log, Current)
          /\ open' = open \ {Current}
          /\ UNCHANGED faults
       \/ Fault /\ UNCHANGED <<log, open>>
    /\ UNCHANGED <<parent, unreadable, thread, disk, dest, world, operator>>

\* The current operation ends.  Its end is recorded unless a child has stayed
\* open (TraceStore._validate) or both attempts to write it fail.
EndOp ==
    /\ stack # <<>>
    /\ stack' = SubSeq(stack, 1, Len(stack) - 1)
    /\ \/ /\ ~ChildrenOpen(Current)
          /\ log' = Append(log, Current)
          /\ open' = open \ {Current}
          /\ UNCHANGED faults
       \/ ChildrenOpen(Current) /\ UNCHANGED <<log, open, faults>>
       \/ Fault /\ UNCHANGED <<log, open>>
    /\ UNCHANGED <<parent, unreadable, thread, disk, dest, world, operator>>

\* The file of a payload that an event refers to is lost.
Corrupt(o, part) ==
    /\ o \in open \cup Ended /\ (part = "output" => o \in Ended)
    /\ <<o, part>> \in Referenced \ unreadable /\ Fault
    /\ unreadable' = unreadable \cup {<<o, part>>}
    /\ UNCHANGED <<parent, open, log, stack, thread, disk, dest, world, operator>>

-----------------------------------------------------------------------------
(* _export_trace, under _EXPORT_LOCK                                        *)

\* _save of the thread's copy.
Save(copy) ==
    /\ receipts' = copy
    /\ bound' = dest

\* The pass over the trace is over, at its end or by an exception.
EndPass ==
    /\ phase' = "idle"
    /\ mem' = [o \in Obs |-> NoReceipt]
    /\ todo' = <<>>

\* Mutant: receipts of another project are taken over.
BeginAnyDestination ==
    /\ phase = "idle" /\ log # <<>>
    /\ phase' = "scan" /\ mem' = receipts /\ todo' = log
    /\ UNCHANGED <<local, disk, dest, world, operator, faults>>

Begin ==
    /\ phase = "idle" /\ log # <<>>
    /\ bound \in {None, dest}
    /\ phase' = "scan" /\ mem' = receipts /\ todo' = log
    /\ UNCHANGED <<local, disk, dest, world, operator, faults>>

ReachEnd ==
    /\ phase = "scan" /\ todo = <<>>
    /\ EndPass
    /\ UNCHANGED <<local, disk, dest, world, operator, faults>>

Next1 == Head(todo)
With(status) == [mem EXCEPT ![Next1].status = status]

\* Mutant: an interrupted send is sent again.
ResendInterrupted ==
    /\ phase = "scan" /\ todo # <<>> /\ mem[Next1].status = "sending"
    /\ mem' = With("retry") /\ Save(mem')
    /\ UNCHANGED <<phase, todo, faults>>
    /\ UNCHANGED <<local, dest, world, operator>>

\* Mutant: a send found in progress is left alone.
InterruptedIsSkipped ==
    /\ phase = "scan" /\ todo # <<>> /\ mem[Next1].status = "sending"
    /\ todo' = Tail(todo)
    /\ UNCHANGED <<phase, mem, disk, faults, local, dest, world, operator>>

\* A receipt found in "sending" is of a send whose outcome nobody knows.
SkipInterrupted ==
    /\ phase = "scan" /\ todo # <<>> /\ mem[Next1].status = "sending"
    /\ \/ /\ mem' = With("uncertain") /\ Save(mem')
          /\ todo' = Tail(todo) /\ UNCHANGED <<phase, faults>>
       \/ Fault /\ EndPass /\ UNCHANGED disk
    /\ UNCHANGED <<local, dest, world, operator>>

SkipSettled ==
    /\ phase = "scan" /\ todo # <<>> /\ mem[Next1].status \in Settled
    /\ todo' = Tail(todo)
    /\ UNCHANGED <<local, disk, dest, phase, mem, world, operator, faults>>

ToSend == phase = "scan" /\ todo # <<>> /\ mem[Next1].status \in {"none", "retry"}

\* The delay after a 429 is not over yet.
SkipWaiting ==
    /\ ToSend /\ mem[Next1].status = "retry"
    /\ todo' = Tail(todo)
    /\ UNCHANGED <<local, disk, dest, phase, mem, world, operator, faults>>

\* What span() reads: the payloads of the observation and, for the release, the
\* input of the root, whatever its size.
Reads(o) == {<<o, "input">>, <<o, "output">>, <<Root, "input">>}
Readable(o) == Reads(o) \cap unreadable = {}

\* The span cannot be built: the exception leaves the whole pass.
Unbuildable ==
    /\ ToSend /\ ~Readable(Next1)
    /\ EndPass
    /\ UNCHANGED <<local, disk, dest, world, operator, faults>>

\* The span may be larger than two megabytes.
RejectOversized ==
    /\ ToSend /\ Readable(Next1)
    /\ \/ /\ mem' = [mem EXCEPT ![Next1] = [status |-> "rejected", attempts |-> 0]]
          /\ Save(mem')
          /\ todo' = Tail(todo) /\ UNCHANGED <<phase, faults>>
       \/ Fault /\ EndPass /\ UNCHANGED disk
    /\ UNCHANGED <<local, dest, world, operator>>

\* Mutant: the receipt is written before the request.
IntentIsAccepted ==
    /\ ToSend /\ Readable(Next1)
    /\ \/ /\ mem' = [mem EXCEPT ![Next1] = [status |-> "accepted", attempts |-> @.attempts + 1]]
          /\ Save(mem')
          /\ phase' = "net" /\ UNCHANGED <<todo, faults>>
       \/ Fault /\ EndPass /\ UNCHANGED disk
    /\ UNCHANGED <<local, dest, world, operator>>

\* The intent is saved before the request goes out.
SaveIntent ==
    /\ ToSend /\ Readable(Next1)
    /\ \/ /\ mem' = [mem EXCEPT ![Next1] = [status |-> "sending", attempts |-> @.attempts + 1]]
          /\ Save(mem')
          /\ phase' = "net" /\ UNCHANGED <<todo, faults>>
       \/ Fault /\ EndPass /\ UNCHANGED disk
    /\ UNCHANGED <<local, dest, world, operator>>

Request(delivered) ==
    /\ phase = "net"
    /\ sends' = [sends EXCEPT ![Next1] = @ + 1]
    /\ remote' = IF delivered THEN [remote EXCEPT ![Next1][dest] = @ + 1] ELSE remote
    /\ phase' = "save"
    /\ UNCHANGED <<local, disk, dest, todo, operator, faults>>

\* 2xx.
Delivered == Request(TRUE) /\ mem' = With("accepted")

\* A timeout, a transport error, 5xx, a partial or unreadable response.
Uncertain ==
    \E delivered \in BOOLEAN : Request(delivered) /\ mem' = With("uncertain")

\* 429.
Backpressure ==
    /\ Request(FALSE)
    /\ mem' = With(IF mem[Next1].attempts < MaxAttempts THEN "retry" ELSE "exhausted")

\* Any other 4xx but 408.
RejectedByProject == Request(FALSE) /\ mem' = With("rejected")

SaveOutcome ==
    /\ phase = "save"
    /\ \/ /\ Save(mem)
          /\ phase' = "scan" /\ todo' = Tail(todo) /\ UNCHANGED <<mem, faults>>
       \/ Fault /\ EndPass /\ UNCHANGED disk
    /\ UNCHANGED <<local, dest, world, operator>>

-----------------------------------------------------------------------------
(* The operator, and the process                                            *)

\* Mutant: resolve does not take the lock.
ResolveUnlocked(o, decision) ==
    /\ bound \in {None, dest}
    /\ receipts[o].status \in {"uncertain", "rejected", "exhausted"}
    /\ resolves[o] < MaxResolves
    /\ receipts' = [receipts EXCEPT ![o] = [status |-> decision, attempts |-> 0]]
    /\ resolves' = [resolves EXCEPT ![o] = @ + 1]
    /\ vouched' = IF decision = "accepted" THEN vouched \cup {o} ELSE vouched
    /\ UNCHANGED <<local, thread, bound, dest, world, faults>>

\* resolve waits for _EXPORT_LOCK.
Resolve(o, decision) ==
    /\ phase = "idle"
    /\ bound \in {None, dest}
    /\ receipts[o].status \in {"uncertain", "rejected", "exhausted"}
    /\ resolves[o] < MaxResolves
    /\ receipts' = [receipts EXCEPT ![o] = [status |-> decision, attempts |-> 0]]
    /\ resolves' = [resolves EXCEPT ![o] = @ + 1]
    /\ vouched' = IF decision = "accepted" THEN vouched \cup {o} ELSE vouched
    /\ UNCHANGED <<local, thread, bound, dest, world, faults>>

\* The process stops or dies and comes up again, perhaps with other settings.
\* Operations the worker was in stay open.
ProcessRestart ==
    /\ Fault
    /\ stack' = <<>>
    /\ EndPass
    /\ dest' \in Dests
    /\ UNCHANGED <<parent, open, log, unreadable, disk, world, operator>>

-----------------------------------------------------------------------------

\* What becomes of an observation that is due.
Attempt(o) ==
    /\ todo # <<>> /\ Next1 = o
    /\ Unbuildable \/ RejectOversized \/ SaveIntent

Pass ==
    \/ Begin \/ ReachEnd \/ SkipInterrupted \/ SkipSettled \/ SkipWaiting
    \/ Unbuildable \/ RejectOversized \/ SaveIntent \/ SaveOutcome
    \/ Delivered \/ Uncertain \/ Backpressure \/ RejectedByProject

ExportNext ==
    \/ \E o \in Obs : StartOp(o)
    \/ EndOp
    \/ \E o \in Obs, part \in {"input", "output"} : Corrupt(o, part)
    \/ Pass
    \/ \E o \in Obs, decision \in {"retry", "accepted"} : Resolve(o, decision)
    \/ ProcessRestart

ExportSpec == ExportInit /\ [][ExportNext]_exportVars

\* The exporter thread keeps making passes, each request has a timeout, and a
\* delay of at most five minutes is over in some later pass that gets there.
FairExportSpec ==
    /\ ExportSpec
    /\ WF_exportVars(Pass)
    /\ \A o \in Obs : SF_exportVars(Attempt(o))

-----------------------------------------------------------------------------
(* Refinement                                                               *)

\* The request of the pass, as far as the thread knows its outcome.
PendingRequest ==
    LET answer == CASE mem[Next1].status = "accepted" -> "taken"
                    [] mem[Next1].status = "uncertain" -> "unknown"
                    [] OTHER -> "refused"
    IN  CASE phase = "net" -> [span |-> Next1, answer |-> "open"]
          [] phase = "save" -> [span |-> Next1, answer |-> answer]
          [] OTHER -> [span |-> None, answer |-> "none"]

Delivery == INSTANCE SpanDelivery
                WITH Spans <- Obs, Projects <- Dests, copies <- remote, request <- PendingRequest

(* Each step of the exporter, the operator and a crash is one that the receipt *)
(* of one span allows: nothing is sent without a saved intent or twice for one *)
(* and no receipt says more than the answers told.                             *)
ImplementsDelivery == Delivery!DeliverySpec

-----------------------------------------------------------------------------
(* Properties                                                               *)

Copies(o) == {d \in Dests : remote[o][d] > 0}

(* "Ambiguous delivery is NOT retried": whatever crashes, lost answers and     *)
(* failed saves, a project receives a span once, and once more for each retry  *)
(* an operator has decided.  Backpressure is retried a bounded number of times *)
(* between two decisions, whatever restarts come in between.                   *)
AtMostOnce ==
    /\ \A o \in Obs, d \in Dests : remote[o][d] <= 1 + resolves[o]
    /\ \A o \in Obs : sends[o] <= MaxAttempts * (1 + resolves[o])

(* A receipt that says accepted is true, unless the operator said so.          *)
AcceptedWasReceived ==
    \A o \in Obs : receipts[o].status = "accepted" /\ o \notin vouched => Copies(o) # {}

(* "Never mix receipts for different projects": all spans of a trace go to one *)
(* project, the one the state is bound to, though the settings may change at   *)
(* any restart.                                                                *)
OneProject == \A o \in Obs : Copies(o) \subseteq {bound}

(* What the service has received does not change any more: the operation and   *)
(* every recorded operation under it have ended.                               *)
ExportedIsFinal ==
    \A o \in Obs : Copies(o) # {} =>
        o \in Ended /\ \A c \in open : parent[c] # o

(* Every ended operation gets a receipt that is final or needs the operator,   *)
(* unless the process exports to another project, or an operation at or before *)
(* it in the trace has an unreadable payload or the input of the root is lost, *)
(* which ends each pass there.                                                 *)
Before(o) == {log[i] : i \in {j \in 1..Len(log) : \E k \in j..Len(log) : log[k] = o}}
EndedIsSettled ==
    \A o \in Obs :
        (o \in Ended) ~> \/ receipts[o].status \in Settled
                         \/ dest # bound /\ bound # None
                         \/ \E p \in Before(o) : ~Readable(p)

=============================================================================
