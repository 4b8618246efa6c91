---------------------------- MODULE BoundedPool ----------------------------
(***************************************************************************)
(* What api/workers.py promises its callers, without its threads: a task   *)
(* is admitted while fewer than Capacity tasks are in flight, waits in a   *)
(* first-in first-out queue, is taken once, and is served once.            *)
(*                                                                         *)
(* WorkerPool is shown to implement this specification; TaskLifecycle uses *)
(* its actions instead of the threads.                                     *)
(***************************************************************************)
EXTENDS Naturals, Sequences, FiniteSets

CONSTANTS Tasks,     (* task ids; the API submits each of them at most once *)
          Capacity   (* tasks that may be in flight, running ones included  *)

VARIABLES reserved,  (* counted in flight, not yet put in the queue         *)
          waiting,   (* the queue                                           *)
          active,    (* taken from the queue by a worker                    *)
          served     (* the handler has returned                            *)

poolVars == <<reserved, waiting, active, served>>

Queued == {waiting[i] : i \in 1..Len(waiting)}
InFlight == Cardinality(reserved) + Len(waiting) + Cardinality(active)

PoolTypeOK ==
    /\ reserved \in SUBSET Tasks
    /\ waiting \in Seq(Tasks)
    /\ active \in SUBSET Tasks
    /\ served \in SUBSET Tasks

PoolInit ==
    /\ reserved = {}
    /\ waiting = <<>>
    /\ active = {}
    /\ served = {}

HasRoom == InFlight < Capacity

\* submit, up to the count taken under the lock.
Reserve(t) ==
    /\ t \notin reserved \cup Queued \cup active \cup served
    /\ HasRoom
    /\ reserved' = reserved \cup {t}
    /\ UNCHANGED <<waiting, active, served>>

\* submit, the put that follows it outside the lock.
Enqueue(t) ==
    /\ t \in reserved
    /\ reserved' = reserved \ {t}
    /\ waiting' = Append(waiting, t)
    /\ UNCHANGED <<active, served>>

\* A worker takes the head of the queue.
Take(t) ==
    /\ waiting # <<>>
    /\ t = Head(waiting)
    /\ waiting' = Tail(waiting)
    /\ active' = active \cup {t}
    /\ UNCHANGED <<reserved, served>>

\* The handler has returned, with or without an exception.
Release(t) ==
    /\ t \in active
    /\ active' = active \ {t}
    /\ served' = served \cup {t}
    /\ UNCHANGED <<reserved, waiting>>

PoolNext == \E t \in Tasks : Reserve(t) \/ Enqueue(t) \/ Take(t) \/ Release(t)

PoolSpec == PoolInit /\ [][PoolNext]_poolVars

-----------------------------------------------------------------------------
(* What callers may rely on                                                 *)

\* The 429 of POST /tasks bounds all the work the process has taken on.
WithinCapacity == InFlight <= Capacity

\* A task is at one place at a time and once in the queue: no two workers ever
\* run the same task, and none runs a task that was served.
OnePlace ==
    /\ reserved \cap Queued = {} /\ reserved \cap active = {} /\ reserved \cap served = {}
    /\ Queued \cap active = {} /\ Queued \cap served = {} /\ active \cap served = {}
    /\ \A i, j \in 1..Len(waiting) : waiting[i] = waiting[j] => i = j

=============================================================================
