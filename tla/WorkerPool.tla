----------------------------- MODULE WorkerPool -----------------------------
(***************************************************************************)
(* TaskWorkerPool (api/workers.py) at the grain of its threads: request    *)
(* threads that call submit, worker threads that run _loop, and the API    *)
(* lifespan that calls start and stop (api/app.py).  What the code does    *)
(* under self._lock is one step; the stop event and the queue are touched  *)
(* outside it, so each such access is a step of its own.                   *)
(***************************************************************************)
EXTENDS Naturals, Sequences, FiniteSets

CONSTANTS Tasks,       (* task ids, each submitted by a request of its own   *)
          Threads,     (* worker threads that may ever be created            *)
          MaxWorkers,
          MaxPending,
          NoTask       (* a worker that holds no task                        *)

ASSUME PoolAssumption ==
    /\ IsFiniteSet(Tasks) /\ IsFiniteSet(Threads)
    /\ MaxWorkers \in Nat \ {0}
    /\ MaxPending \in Nat
    /\ NoTask \notin Tasks

VARIABLES queue,       (* self._queue                                        *)
          stopSet,     (* self._stop                                         *)
          pool,        (* self._threads                                      *)
          inFlight,    (* self._in_flight                                    *)
          running,     (* self._running                                      *)
          rejected,    (* self._rejected                                     *)
          worker,      (* where each worker thread is in _loop               *)
          item,        (* the task a worker thread holds                     *)
          request,     (* where the request thread of each task is in submit *)
          served,      (* tasks whose handler has returned; its size is      *)
                       (* self._completed                                    *)
          lifespan     (* the FastAPI lifespan                               *)

vars == <<queue, stopSet, pool, inFlight, running, rejected, worker, item,
          request, served, lifespan>>

Capacity == MaxWorkers + MaxPending

WorkerStates == {"new", "poll", "wait", "got", "handling", "dead"}
RequestStates == {"idle", "starting", "reserving", "putting", "accepted", "refused"}

TypeOK ==
    /\ queue \in Seq(Tasks)
    /\ stopSet \in BOOLEAN
    /\ pool \in SUBSET Threads
    /\ inFlight \in Nat
    /\ running \in Nat
    /\ rejected \in Nat
    /\ worker \in [Threads -> WorkerStates]
    /\ item \in [Threads -> Tasks \cup {NoTask}]
    /\ request \in [Tasks -> RequestStates]
    /\ served \in SUBSET Tasks
    /\ lifespan \in {"down", "up", "stopping"}

Init ==
    /\ queue = <<>>
    /\ stopSet = FALSE
    /\ pool = {}
    /\ inFlight = 0
    /\ running = 0
    /\ rejected = 0
    /\ worker = [th \in Threads |-> "new"]
    /\ item = [th \in Threads |-> NoTask]
    /\ request = [t \in Tasks |-> "idle"]
    /\ served = {}
    /\ lifespan = "down"

-----------------------------------------------------------------------------
(* start and stop                                                           *)

Unborn == {th \in Threads : worker[th] = "new"}

\* Mutant: new threads are started with the stop event still set.
StartThreadsStopped ==
    IF pool # {}
    THEN UNCHANGED <<stopSet, pool, worker>>
    ELSE \E born \in SUBSET Unborn :
            /\ Cardinality(born) = MaxWorkers
            /\ pool' = born
            /\ worker' = [th \in Threads |-> IF th \in born THEN "poll" ELSE worker[th]]
            /\ UNCHANGED stopSet

\* start() under the lock: nothing while there are threads, else the stop event
\* is cleared and MaxWorkers new threads enter _loop.
StartThreads ==
    IF pool # {}
    THEN UNCHANGED <<stopSet, pool, worker>>
    ELSE \E born \in SUBSET Unborn :
            /\ Cardinality(born) = MaxWorkers
            /\ pool' = born
            /\ worker' = [th \in Threads |-> IF th \in born THEN "poll" ELSE worker[th]]
            /\ stopSet' = FALSE

LifespanStart ==
    /\ lifespan = "down"
    /\ StartThreads
    /\ lifespan' = "up"
    /\ UNCHANGED <<queue, inFlight, running, rejected, item, request, served>>

\* stop() sets the event without the lock...  (The guard is the bound on
\* restarts: enough threads are left for the next start.)
StopSetEvent ==
    /\ lifespan = "up"
    /\ Cardinality(Unborn) >= MaxWorkers
    /\ stopSet' = TRUE
    /\ lifespan' = "stopping"
    /\ UNCHANGED <<queue, pool, inFlight, running, rejected, worker, item, request, served>>

\* Mutant: stop() drops the tasks that wait.
StopDropsQueue ==
    /\ lifespan = "stopping"
    /\ pool' = {}
    /\ lifespan' = "down"
    /\ queue' = <<>>
    /\ UNCHANGED <<stopSet, inFlight, running, rejected, worker, item, request, served>>

\* ...and empties the list under it.  The joins time out after five seconds, so
\* a thread inside a handler outlives stop().
StopTakeThreads ==
    /\ lifespan = "stopping"
    /\ pool' = {}
    /\ lifespan' = "down"
    /\ UNCHANGED <<queue, stopSet, inFlight, running, rejected, worker, item, request, served>>

-----------------------------------------------------------------------------
(* submit                                                                   *)

Request(t, from, to) ==
    /\ request[t] = from
    /\ request' = [request EXCEPT ![t] = to]

Submit(t) ==
    /\ Request(t, "idle", "starting")
    /\ UNCHANGED <<queue, stopSet, pool, inFlight, running, rejected, worker, item, served, lifespan>>

SubmitStart(t) ==
    /\ Request(t, "starting", "reserving")
    /\ StartThreads
    /\ UNCHANGED <<queue, inFlight, running, rejected, item, served, lifespan>>

HasRoom == inFlight < Capacity

SubmitReserve(t) ==
    /\ HasRoom
    /\ Request(t, "reserving", "putting")
    /\ inFlight' = inFlight + 1
    /\ UNCHANGED <<queue, stopSet, pool, running, rejected, worker, item, served, lifespan>>

SubmitRefuse(t) ==
    /\ ~HasRoom
    /\ Request(t, "reserving", "refused")
    /\ rejected' = rejected + 1
    /\ UNCHANGED <<queue, stopSet, pool, inFlight, running, worker, item, served, lifespan>>

\* queue.put_nowait, outside the lock.  queue.Full undoes the reservation.
SubmitPut(t) ==
    /\ IF Len(queue) < Capacity
       THEN /\ Request(t, "putting", "accepted")
            /\ queue' = Append(queue, t)
            /\ UNCHANGED <<inFlight, rejected>>
       ELSE /\ Request(t, "putting", "refused")
            /\ inFlight' = inFlight - 1
            /\ rejected' = rejected + 1
            /\ UNCHANGED queue
    /\ UNCHANGED <<stopSet, pool, running, worker, item, served, lifespan>>

-----------------------------------------------------------------------------
(* _loop                                                                    *)

Worker(th, from, to) ==
    /\ worker[th] = from
    /\ worker' = [worker EXCEPT ![th] = to]

\* Mutant: while True.
NeverCheckStop(th) ==
    /\ Worker(th, "poll", "wait")
    /\ UNCHANGED <<queue, stopSet, pool, inFlight, running, rejected, item, request, served, lifespan>>

\* while not self._stop.is_set()
CheckStop(th) ==
    /\ Worker(th, "poll", IF stopSet THEN "dead" ELSE "wait")
    /\ UNCHANGED <<queue, stopSet, pool, inFlight, running, rejected, item, request, served, lifespan>>

\* queue.get(timeout=0.2): the head of the queue, or Empty and back to the loop.
Get(th) ==
    /\ IF queue # <<>>
       THEN /\ Worker(th, "wait", "got")
            /\ item' = [item EXCEPT ![th] = Head(queue)]
            /\ queue' = Tail(queue)
       ELSE /\ Worker(th, "wait", "poll")
            /\ UNCHANGED <<queue, item>>
    /\ UNCHANGED <<stopSet, pool, inFlight, running, rejected, request, served, lifespan>>

Handle(th) ==
    /\ Worker(th, "got", "handling")
    /\ running' = running + 1
    /\ UNCHANGED <<queue, stopSet, pool, inFlight, rejected, item, request, served, lifespan>>

\* Mutant: a finished task keeps its place.
FinishKeepsPlace(th) ==
    /\ Worker(th, "handling", "poll")
    /\ running' = running - 1
    /\ served' = served \cup {item[th]}
    /\ item' = [item EXCEPT ![th] = NoTask]
    /\ UNCHANGED <<queue, stopSet, pool, inFlight, rejected, request, lifespan>>

\* The handler returns or raises; the finally block gives the place back.
Finish(th) ==
    /\ Worker(th, "handling", "poll")
    /\ inFlight' = inFlight - 1
    /\ running' = running - 1
    /\ served' = served \cup {item[th]}
    /\ item' = [item EXCEPT ![th] = NoTask]
    /\ UNCHANGED <<queue, stopSet, pool, rejected, request, lifespan>>

-----------------------------------------------------------------------------

Lifespan == LifespanStart \/ StopSetEvent \/ StopTakeThreads
Step(t) == SubmitStart(t) \/ SubmitReserve(t) \/ SubmitRefuse(t) \/ SubmitPut(t)
Loop(th) == CheckStop(th) \/ Get(th) \/ Handle(th) \/ Finish(th)

Next ==
    \/ Lifespan
    \/ \E t \in Tasks : Submit(t) \/ Step(t)
    \/ \E th \in Threads : Loop(th)

Spec == Init /\ [][Next]_vars

\* Threads that exist keep running, a request that has called submit goes on, and
\* stop() runs to its end.  Nobody has to submit, start or stop.
Fairness ==
    /\ \A t \in Tasks : WF_vars(Step(t))
    /\ \A th \in Threads : WF_vars(Loop(th))
    /\ WF_vars(StopTakeThreads)

FairSpec == Spec /\ Fairness

-----------------------------------------------------------------------------
(* Properties                                                               *)

Reserved == {t \in Tasks : request[t] = "putting"}
Busy == {th \in Threads : item[th] # NoTask}

(* The count that submit and _loop adjust under the lock, at different times   *)
(* and in different threads, is always the number of tasks that hold a place:  *)
(* reserved, in the queue, or in a worker's hands - also across stop and start,*)
(* which keep the queue.                                                       *)
InFlightExact == inFlight = Cardinality(Reserved) + Len(queue) + Cardinality(Busy)

(* The queue can never be full for a request that holds a reservation, so the  *)
(* `except queue.Full` branch of submit is never taken and no reservation is   *)
(* undone.                                                                     *)
ReservationHasRoom == \A t \in Tasks : request[t] = "putting" => Len(queue) < Capacity

(* The pool is a bounded first-in first-out pool: at most Capacity tasks in    *)
(* flight, each taken once and served once, none lost by stop and start.       *)
Abstract == INSTANCE BoundedPool WITH
                reserved <- Reserved,
                waiting <- queue,
                active <- {item[th] : th \in Busy}
ImplementsBoundedPool == Abstract!PoolSpec

(* A task whose submission was accepted is served, provided that the pool has  *)
(* threads again and again: neither the two-step stop() racing a submit nor a  *)
(* full queue strands it.                                                      *)
AcceptedIsServed ==
    []<>(pool # {}) => \A t \in Tasks : (request[t] = "accepted") ~> (t \in served)

(* stop() gives up on a busy thread after five seconds; unless start() clears  *)
(* the event first, the thread still ends by itself after its task.            *)
StoppedThreadsEnd ==
    (stopSet /\ pool = {}) ~> (~stopSet \/ \A th \in Threads : worker[th] \in {"new", "dead"})

=============================================================================
