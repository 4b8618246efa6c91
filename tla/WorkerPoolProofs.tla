------------------------- MODULE WorkerPoolProofs -------------------------
(* Proofs about WorkerPool, for any tasks, threads and limits.              *)
EXTENDS WorkerPool, FiniteSetTheorems, SequenceTheorems, TLAPS

-----------------------------------------------------------------------------
(* Types, and who holds a task                                              *)

\* TypeOK with the two counters as integers: that they are never negative
\* follows from what they count.
Typed ==
    /\ queue \in Seq(Tasks)
    /\ stopSet \in BOOLEAN
    /\ pool \in SUBSET Threads
    /\ inFlight \in Int
    /\ running \in Int
    /\ rejected \in Nat
    /\ worker \in [Threads -> WorkerStates]
    /\ item \in [Threads -> Tasks \cup {NoTask}]
    /\ request \in [Tasks -> RequestStates]
    /\ served \in SUBSET Tasks
    /\ lifespan \in {"down", "up", "stopping"}

Holding == \A th \in Threads : item[th] # NoTask <=> worker[th] \in {"got", "handling"}

LEMMA StartThreadsStep ==
    ASSUME Typed, Holding, StartThreads, UNCHANGED item
    PROVE  /\ stopSet' \in BOOLEAN
           /\ pool' \in SUBSET Threads
           /\ worker' \in [Threads -> WorkerStates]
           /\ Holding'
           /\ \A th \in Threads : worker'[th] = "handling" <=> worker[th] = "handling"
<1>1. CASE pool # {}
  BY <1>1 DEF Typed, Holding, StartThreads
<1>2. CASE pool = {}
  <2>1. PICK born \in SUBSET Unborn :
           /\ pool' = born
           /\ worker' = [th \in Threads |-> IF th \in born THEN "poll" ELSE worker[th]]
           /\ stopSet' = FALSE
    BY <1>2 DEF StartThreads
  <2>2. \A th \in born : worker[th] = "new" /\ th \in Threads
    BY <2>1 DEF Unborn
  <2>. QED  BY <2>1, <2>2 DEF Typed, Holding, WorkerStates
<1>. QED  BY <1>1, <1>2

LEMMA TypedInit == Init => Typed /\ Holding
<1> SUFFICES ASSUME Init
             PROVE  Typed /\ Holding
  OBVIOUS
<1>1. <<>> \in Seq(Tasks)
  OBVIOUS
<1>2. worker \in [Threads -> WorkerStates] /\ request \in [Tasks -> RequestStates]
  BY DEF Init, WorkerStates, RequestStates
<1>3. item \in [Threads -> Tasks \cup {NoTask}]
  BY DEF Init
<1>4. Holding
  BY DEF Init, Holding
<1>5. queue \in Seq(Tasks)
  BY <1>1 DEF Init
<1>6. stopSet \in BOOLEAN /\ pool \in SUBSET Threads /\ served \in SUBSET Tasks
  BY DEF Init
<1>7. inFlight \in Int /\ running \in Int /\ rejected \in Nat
  BY DEF Init
<1>8. lifespan \in {"down", "up", "stopping"}
  BY DEF Init
<1>. QED  BY <1>2, <1>3, <1>4, <1>5, <1>6, <1>7, <1>8 DEF Typed

LEMMA TypedStep == Typed /\ Holding /\ [Next]_vars => (Typed /\ Holding)'
<1> SUFFICES ASSUME Typed, Holding, [Next]_vars
             PROVE  (Typed /\ Holding)'
  OBVIOUS
<1> USE PoolAssumption DEF WorkerStates, RequestStates
<1>1. CASE LifespanStart
  BY <1>1, StartThreadsStep DEF LifespanStart, Typed
<1>2. CASE StopSetEvent \/ StopTakeThreads
  BY <1>2 DEF StopSetEvent, StopTakeThreads, Typed, Holding
<1>3. ASSUME NEW t \in Tasks, Submit(t)
      PROVE  (Typed /\ Holding)'
  BY <1>3 DEF Submit, Request, Typed, Holding
<1>4. ASSUME NEW t \in Tasks, SubmitStart(t)
      PROVE  (Typed /\ Holding)'
  BY <1>4, StartThreadsStep DEF SubmitStart, Request, Typed
<1>5. ASSUME NEW t \in Tasks, SubmitReserve(t) \/ SubmitRefuse(t)
      PROVE  (Typed /\ Holding)'
  BY <1>5 DEF SubmitReserve, SubmitRefuse, Request, Typed, Holding
<1>6. ASSUME NEW t \in Tasks, SubmitPut(t)
      PROVE  (Typed /\ Holding)'
  <2>1. queue' \in Seq(Tasks)
    BY <1>6, AppendProperties DEF SubmitPut, Typed
  <2>2. request' \in [Tasks -> RequestStates]
    BY <1>6 DEF SubmitPut, Request, Typed
  <2>3. inFlight' \in Int /\ rejected' \in Nat
    BY <1>6 DEF SubmitPut, Typed
  <2>. QED  BY <1>6, <2>1, <2>2, <2>3 DEF SubmitPut, Typed, Holding
<1>7. ASSUME NEW th \in Threads, CheckStop(th)
      PROVE  (Typed /\ Holding)'
  BY <1>7 DEF CheckStop, Worker, Typed, Holding
<1>8. ASSUME NEW th \in Threads, Get(th)
      PROVE  (Typed /\ Holding)'
  <2>1. CASE queue # <<>>
    BY <1>8, <2>1, HeadTailProperties DEF Get, Worker, Typed, Holding
  <2>2. CASE queue = <<>>
    BY <1>8, <2>2 DEF Get, Worker, Typed, Holding
  <2>. QED  BY <2>1, <2>2
<1>9. ASSUME NEW th \in Threads, Handle(th)
      PROVE  (Typed /\ Holding)'
  BY <1>9 DEF Handle, Worker, Typed, Holding
<1>10. ASSUME NEW th \in Threads, Finish(th)
       PROVE  (Typed /\ Holding)'
  BY <1>10 DEF Finish, Worker, Typed, Holding
<1>11. CASE UNCHANGED vars
  BY <1>11 DEF vars, Typed, Holding
<1>. QED
  BY <1>1, <1>2, <1>3, <1>4, <1>5, <1>6, <1>7, <1>8, <1>9, <1>10, <1>11
     DEF Next, Lifespan, Step, Loop

-----------------------------------------------------------------------------
(* A task is at one place                                                   *)

Places ==
    /\ \A i \in 1..Len(queue) : request[queue[i]] = "accepted" /\ queue[i] \notin served
    /\ \A th \in Busy : request[item[th]] = "accepted" /\ item[th] \notin served
    /\ \A t \in served : request[t] = "accepted"
    /\ \A i, j \in 1..Len(queue) : queue[i] = queue[j] => i = j
    /\ \A th, tk \in Busy : item[th] = item[tk] => th = tk
    /\ \A i \in 1..Len(queue), th \in Busy : queue[i] # item[th]

LEMMA PlacesInit == Init => Places
BY EmptySeq DEF Init, Places, Busy

LEMMA PlacesStep == Typed /\ Holding /\ Places /\ [Next]_vars => Places'
<1> SUFFICES ASSUME Typed, Holding, Places, [Next]_vars
             PROVE  Places'
  OBVIOUS
<1>0. /\ queue \in Seq(Tasks) /\ Len(queue) \in Nat
      /\ \A i \in 1..Len(queue) : queue[i] \in Tasks
      /\ \A th \in Busy : th \in Threads /\ item[th] \in Tasks
      /\ served \subseteq Tasks
      /\ request \in [Tasks -> RequestStates]
  BY ElementOfSeq, LenProperties DEF Typed, Busy
<1>1. ASSUME UNCHANGED <<queue, item, served>>,
             \A t \in Tasks : request[t] = "accepted" => request'[t] = "accepted"
      PROVE  Places'
  BY <1>0, <1>1 DEF Places, Busy
<1>2. ASSUME NEW t \in Tasks, SubmitPut(t)
      PROVE  Places'
  <2>1. /\ request[t] = "putting" /\ UNCHANGED <<item, served>>
        /\ \A u \in Tasks : u # t => request'[u] = request[u]
        /\ request'[t] \in {"accepted", "refused"}
    BY <1>0, <1>2 DEF SubmitPut, Request
  <2>2. CASE Len(queue) < Capacity
    <3>1. queue' = Append(queue, t) /\ request'[t] = "accepted"
      BY <1>0, <1>2, <2>2 DEF SubmitPut, Request
    <3>2. /\ Len(queue') = Len(queue) + 1 /\ queue'[Len(queue) + 1] = t
          /\ \A i \in 1..Len(queue) : queue'[i] = queue[i]
      BY <1>0, <3>1, AppendProperties
    <3>3. \A i \in 1..Len(queue') : i \in 1..Len(queue) \/ i = Len(queue) + 1
      BY <1>0, <3>2
    <3>4. /\ \A i \in 1..Len(queue) : queue[i] # t
          /\ \A th \in Busy : item[th] # t
          /\ t \notin served
      BY <2>1 DEF Places
    <3>. QED  BY <1>0, <2>1, <3>1, <3>2, <3>3, <3>4 DEF Places, Busy
  <2>3. CASE ~(Len(queue) < Capacity)
    <3>1. UNCHANGED queue
      BY <1>2, <2>3 DEF SubmitPut
    <3>2. /\ \A i \in 1..Len(queue) : queue[i] # t
          /\ \A th \in Busy : item[th] # t
          /\ t \notin served
      BY <2>1 DEF Places
    <3>. QED  BY <1>0, <2>1, <3>1, <3>2 DEF Places, Busy
  <2>. QED  BY <2>2, <2>3
<1>3. ASSUME NEW th \in Threads, Get(th)
      PROVE  Places'
  <2>1. CASE queue # <<>>
    <3>1. /\ item' = [item EXCEPT ![th] = Head(queue)]
          /\ queue' = Tail(queue) /\ UNCHANGED <<request, served>>
          /\ worker[th] = "wait"
      BY <1>3, <2>1 DEF Get, Worker
    <3>2. /\ Len(queue) >= 1 /\ Head(queue) = queue[1] /\ Head(queue) \in Tasks
          /\ Len(queue') = Len(queue) - 1
          /\ \A i \in 1..Len(queue') : queue'[i] = queue[i + 1] /\ i + 1 \in 1..Len(queue)
      BY <1>0, <2>1, <3>1, HeadTailProperties, EmptySeq
    <3>3. th \notin Busy /\ Busy' = Busy \cup {th} /\ item'[th] = queue[1]
          /\ \A tk \in Busy : item'[tk] = item[tk]
      BY <3>1, <3>2, PoolAssumption DEF Busy, Typed, Holding
    <3>. QED  BY <1>0, <3>1, <3>2, <3>3 DEF Places
  <2>2. CASE queue = <<>>
    BY <1>0, <1>1, <1>3, <2>2 DEF Get
  <2>. QED  BY <2>1, <2>2
<1>4. ASSUME NEW th \in Threads, Finish(th)
      PROVE  Places'
  <2>1. /\ item' = [item EXCEPT ![th] = NoTask] /\ served' = served \cup {item[th]}
        /\ UNCHANGED <<queue, request>> /\ th \in Busy
    BY <1>4 DEF Finish, Worker, Holding, Busy
  <2>2. Busy' = Busy \ {th} /\ \A tk \in Busy' : item'[tk] = item[tk]
    BY <2>1 DEF Busy, Typed
  <2>. QED  BY <1>0, <2>1, <2>2 DEF Places
<1>5. ASSUME NEW t \in Tasks, Submit(t) \/ SubmitStart(t) \/ SubmitReserve(t) \/ SubmitRefuse(t)
      PROVE  Places'
  BY <1>0, <1>1, <1>5 DEF Submit, SubmitStart, SubmitReserve, SubmitRefuse, Request
<1>6. ASSUME NEW th \in Threads, CheckStop(th) \/ Handle(th)
      PROVE  Places'
  BY <1>0, <1>1, <1>6 DEF CheckStop, Handle
<1>7. CASE Lifespan \/ UNCHANGED vars
  BY <1>0, <1>1, <1>7 DEF Lifespan, LifespanStart, StopSetEvent, StopTakeThreads, vars
<1>. QED
  BY <1>2, <1>3, <1>4, <1>5, <1>6, <1>7 DEF Next, Step, Loop

-----------------------------------------------------------------------------
(* What the counters count                                                  *)

Handling == {th \in Threads : worker[th] = "handling"}
Active == {item[th] : th \in Busy}

RunningExact == running = Cardinality(Handling)

\* Busy threads hold different tasks; the library's theorem on the cardinality
\* of an image cannot be used, so the equality is an invariant of its own.
ActiveExact == IsFiniteSet(Active) /\ Cardinality(Active) = Cardinality(Busy)

Counts ==
    /\ RunningExact
    /\ InFlightExact
    /\ inFlight <= Capacity
    /\ ActiveExact

LEMMA FiniteParts ==
    /\ IsFiniteSet(Reserved) /\ Cardinality(Reserved) \in Nat
    /\ IsFiniteSet(Busy) /\ Cardinality(Busy) \in Nat
    /\ IsFiniteSet(Handling) /\ Cardinality(Handling) \in Nat
<1>1. Reserved \in SUBSET Tasks /\ Busy \in SUBSET Threads /\ Handling \in SUBSET Threads
  BY DEF Reserved, Busy, Handling
<1>. QED  BY <1>1, PoolAssumption, FS_Subset, FS_CardinalityType

LEMMA CountsInit == Init => Counts
<1> SUFFICES ASSUME Init
             PROVE  Counts
  OBVIOUS
<1>1. Reserved = {} /\ Busy = {} /\ Handling = {} /\ Active = {}
  BY DEF Init, Reserved, Busy, Handling, Active
<1>2. Len(queue) = 0
  BY DEF Init
<1>3. Capacity \in Nat
  BY PoolAssumption DEF Capacity
<1>. QED
  BY <1>1, <1>2, <1>3, FS_EmptySet DEF Init, Counts, RunningExact, InFlightExact, ActiveExact

\* Reservations and the hands of the workers, when nothing moves between them.
LEMMA CountsStay ==
    ASSUME Counts, Handling' = Handling, Reserved' = Reserved,
           UNCHANGED <<queue, inFlight, running, item>>
    PROVE  Counts'
BY DEF Counts, RunningExact, InFlightExact, ActiveExact, Active, Busy, Capacity

LEMMA CountsStep ==
    Typed /\ Holding /\ Places /\ Counts /\ [Next]_vars => Counts'
<1> SUFFICES ASSUME Typed, Holding, Places, Counts, [Next]_vars
             PROVE  Counts'
  OBVIOUS
<1>0. Len(queue) \in Nat /\ inFlight \in Int /\ running \in Int /\ Capacity \in Nat
  BY PoolAssumption, LenProperties DEF Typed, Capacity
<1> USE FiniteParts
<1>1. ASSUME StartThreads, UNCHANGED <<queue, inFlight, running, item>>, Reserved' = Reserved
      PROVE  Counts'
  <2>1. Handling' = Handling
    BY <1>1, StartThreadsStep DEF Handling
  <2>. QED  BY <1>1, <2>1, CountsStay
<1>2. CASE Lifespan
  <2>1. CASE LifespanStart
    BY <1>1, <2>1 DEF LifespanStart, Reserved
  <2>2. CASE StopSetEvent \/ StopTakeThreads
    BY <2>2, CountsStay DEF StopSetEvent, StopTakeThreads, Reserved, Handling
  <2>. QED  BY <1>2, <2>1, <2>2 DEF Lifespan
<1>3. ASSUME NEW t \in Tasks, Submit(t) \/ SubmitStart(t) \/ SubmitRefuse(t)
      PROVE  Counts'
  <2>1. Reserved' = Reserved /\ UNCHANGED <<queue, inFlight, running, item>>
    BY <1>3 DEF Submit, SubmitStart, SubmitRefuse, Request, Reserved, Typed
  <2>2. CASE SubmitStart(t)
    BY <1>1, <2>1, <2>2 DEF SubmitStart
  <2>3. CASE Submit(t) \/ SubmitRefuse(t)
    BY <2>1, <2>3, CountsStay DEF Submit, SubmitRefuse, Handling
  <2>. QED  BY <1>3, <2>2, <2>3
<1>4. ASSUME NEW t \in Tasks, SubmitReserve(t)
      PROVE  Counts'
  <2>1. /\ inFlight < Capacity /\ inFlight' = inFlight + 1
        /\ UNCHANGED <<queue, running, worker, item>>
        /\ t \notin Reserved /\ Reserved' = Reserved \cup {t}
    BY <1>4 DEF SubmitReserve, HasRoom, Request, Reserved, Typed
  <2>2. Cardinality(Reserved') = Cardinality(Reserved) + 1
    BY <2>1, FS_AddElement
  <2>. QED
    BY <1>0, <2>1, <2>2
       DEF Counts, RunningExact, InFlightExact, ActiveExact, Active, Busy, Handling, Capacity
<1>5. ASSUME NEW t \in Tasks, SubmitPut(t)
      PROVE  Counts'
  <2>1. /\ UNCHANGED <<running, worker, item>>
        /\ t \in Reserved /\ Reserved' = Reserved \ {t}
    BY <1>5 DEF SubmitPut, Request, Reserved, Typed
  <2>2. Cardinality(Reserved') = Cardinality(Reserved) - 1
    BY <2>1, FS_RemoveElement
  <2>3. \/ UNCHANGED inFlight /\ Len(queue') = Len(queue) + 1
        \/ inFlight' = inFlight - 1 /\ UNCHANGED queue
    BY <1>5, AppendProperties DEF SubmitPut, Typed
  <2>. QED
    BY <1>0, <2>1, <2>2, <2>3
       DEF Counts, RunningExact, InFlightExact, ActiveExact, Active, Busy, Handling, Capacity
<1>6. ASSUME NEW th \in Threads, CheckStop(th)
      PROVE  Counts'
  <2>1. Handling' = Handling /\ Reserved' = Reserved
    BY <1>6 DEF CheckStop, Worker, Handling, Reserved, Typed
  <2>. QED  BY <1>6, <2>1, CountsStay DEF CheckStop
<1>7. ASSUME NEW th \in Threads, Get(th)
      PROVE  Counts'
  <2>1. /\ Handling' = Handling /\ Reserved' = Reserved
        /\ UNCHANGED <<inFlight, running>>
    BY <1>7 DEF Get, Worker, Handling, Reserved, Typed
  <2>2. CASE queue = <<>>
    BY <1>7, <2>1, <2>2, CountsStay DEF Get
  <2>3. CASE queue # <<>>
    <3>1. /\ item' = [item EXCEPT ![th] = queue[1]] /\ queue' = Tail(queue)
          /\ worker[th] = "wait"
          /\ queue[1] \in Tasks /\ Len(queue') = Len(queue) - 1 /\ 1 \in 1..Len(queue)
      BY <1>7, <2>3, HeadTailProperties, EmptySeq DEF Get, Worker, Typed
    <3>2. /\ th \notin Busy /\ Busy' = Busy \cup {th} /\ item'[th] = queue[1]
          /\ \A tk \in Busy : item'[tk] = item[tk]
      BY <3>1, PoolAssumption DEF Busy, Typed, Holding
    <3>3. queue[1] \notin Active /\ Active' = Active \cup {queue[1]}
      BY <3>1, <3>2 DEF Active, Places
    <3>4. /\ IsFiniteSet(Active') /\ Cardinality(Active') = Cardinality(Active) + 1
          /\ Cardinality(Busy') = Cardinality(Busy) + 1
      BY <3>2, <3>3, FS_AddElement DEF Counts, ActiveExact
    <3>. QED
      BY <1>0, <2>1, <3>1, <3>4 DEF Counts, RunningExact, InFlightExact, ActiveExact, Capacity
  <2>. QED  BY <2>2, <2>3
<1>8. ASSUME NEW th \in Threads, Handle(th)
      PROVE  Counts'
  <2>1. /\ th \notin Handling /\ Handling' = Handling \cup {th}
        /\ running' = running + 1
        /\ UNCHANGED <<queue, inFlight, item, request>>
    BY <1>8 DEF Handle, Worker, Handling, Typed
  <2>2. Cardinality(Handling') = Cardinality(Handling) + 1
    BY <2>1, FS_AddElement
  <2>. QED
    BY <1>0, <2>1, <2>2
       DEF Counts, RunningExact, InFlightExact, ActiveExact, Active, Busy, Reserved, Capacity
<1>9. ASSUME NEW th \in Threads, Finish(th)
      PROVE  Counts'
  <2>1. /\ th \in Handling /\ Handling' = Handling \ {th}
        /\ running' = running - 1 /\ inFlight' = inFlight - 1
        /\ item' = [item EXCEPT ![th] = NoTask]
        /\ UNCHANGED <<queue, request>>
    BY <1>9 DEF Finish, Worker, Handling, Typed
  <2>2. /\ th \in Busy /\ Busy' = Busy \ {th}
        /\ \A tk \in Busy' : item'[tk] = item[tk]
    BY <2>1 DEF Busy, Handling, Holding, Typed
  <2>3. item[th] \in Active /\ Active' = Active \ {item[th]}
    BY <2>2 DEF Active, Places
  <2>4. /\ Cardinality(Handling') = Cardinality(Handling) - 1
        /\ Cardinality(Busy') = Cardinality(Busy) - 1
        /\ IsFiniteSet(Active') /\ Cardinality(Active') = Cardinality(Active) - 1
    BY <2>1, <2>2, <2>3, FS_RemoveElement DEF Counts, ActiveExact
  <2>. QED
    BY <1>0, <2>1, <2>4
       DEF Counts, RunningExact, InFlightExact, ActiveExact, Reserved, Capacity
<1>10. CASE UNCHANGED vars
  BY <1>10, CountsStay DEF vars, Handling, Reserved
<1>. QED
  BY <1>2, <1>3, <1>4, <1>5, <1>6, <1>7, <1>8, <1>9, <1>10 DEF Next, Step, Loop

-----------------------------------------------------------------------------
(* The theorems                                                             *)

Inv == Typed /\ Holding /\ Places /\ Counts

LEMMA Invariance == Spec => []Inv
<1>1. Init => Inv
  BY TypedInit, PlacesInit, CountsInit DEF Inv
<1>2. Inv /\ [Next]_vars => Inv'
  BY TypedStep, PlacesStep, CountsStep DEF Inv
<1>. QED  BY <1>1, <1>2, PTL DEF Spec

\* Type correctness of the pool (api/workers.py); in particular the counters
\* that submit and _loop decrement never fall below zero.
THEOREM TypeCorrect == Spec => []TypeOK
<1>1. Inv => TypeOK
  <2> SUFFICES ASSUME Inv
               PROVE  TypeOK
    OBVIOUS
  <2>1. Len(queue) \in Nat
    BY LenProperties DEF Inv, Typed
  <2>2. inFlight \in Nat /\ running \in Nat
    BY <2>1, FiniteParts DEF Inv, Counts, InFlightExact, RunningExact
  <2>. QED  BY <2>2 DEF Inv, Typed, TypeOK
<1>. QED  BY <1>1, Invariance, PTL

\* _in_flight is the number of tasks that hold a place, whatever submits,
\* workers, stops and starts interleave.
THEOREM PlacesCounted == Spec => []InFlightExact
<1>1. Inv => InFlightExact
  BY DEF Inv, Counts
<1>. QED  BY <1>1, Invariance, PTL

LEMMA RoomLeft == Inv => ReservationHasRoom
<1> SUFFICES ASSUME Inv, NEW t \in Tasks, request[t] = "putting"
             PROVE  Len(queue) < Capacity
  BY DEF ReservationHasRoom
<1>1. Len(queue) \in Nat /\ Capacity \in Nat
  BY PoolAssumption, LenProperties DEF Inv, Typed, Capacity
<1>2. t \in Reserved
  BY DEF Reserved
<1>3. Cardinality(Reserved) >= 1
  BY <1>2, FiniteParts, FS_EmptySet
<1>. QED  BY <1>1, <1>3, FiniteParts DEF Inv, Counts, InFlightExact

\* The `except queue.Full` branch of submit is dead code for every
\* max_workers and max_pending.
THEOREM NeverFull == Spec => []ReservationHasRoom
BY RoomLeft, Invariance, PTL

LEMMA PoolInitMaps == Init => Abstract!PoolInit
<1> SUFFICES ASSUME Init
             PROVE  Abstract!PoolInit
  OBVIOUS
<1>1. Reserved = {} /\ {item[th] : th \in Busy} = {}
  BY DEF Init, Reserved, Busy
<1>. QED  BY <1>1 DEF Init, Abstract!PoolInit

\* The instance has a Cardinality of its own, with the same definition.
LEMMA SameCardinality == \A S : Abstract!Cardinality(S) = Cardinality(S)
BY DEF Abstract!Cardinality, Cardinality

LEMMA PoolStepMaps == Inv /\ [Next]_vars => [Abstract!PoolNext]_(Abstract!poolVars)
<1> SUFFICES ASSUME Inv, [Next]_vars
             PROVE  Abstract!PoolNext \/ UNCHANGED Abstract!poolVars
  OBVIOUS
<1>0. Typed /\ Holding /\ Places /\ Counts
  BY DEF Inv
<1>1. ASSUME Reserved' = Reserved, UNCHANGED <<queue, item, served>>
      PROVE  UNCHANGED Abstract!poolVars
  BY <1>1 DEF Abstract!poolVars, Busy
<1>2. ASSUME NEW t \in Tasks, SubmitReserve(t)
      PROVE  Abstract!Reserve(t)
  <2>1. /\ inFlight < Capacity /\ request[t] = "reserving"
        /\ UNCHANGED <<queue, item, served>>
        /\ Reserved' = Reserved \cup {t}
    BY <1>0, <1>2 DEF SubmitReserve, HasRoom, Request, Reserved, Typed
  <2>2. Abstract!InFlight < Capacity
    <3>1. Cardinality({item[th] : th \in Busy}) = Cardinality(Busy)
      BY <1>0 DEF Counts, ActiveExact, Active
    <3>2. inFlight = Cardinality(Reserved) + Len(queue) + Cardinality(Busy)
      BY <1>0 DEF Counts, InFlightExact
    <3>3. Abstract!InFlight = inFlight
      BY <3>1, <3>2, SameCardinality DEF Abstract!InFlight
    <3>. QED  BY <2>1, <3>3
  <2>3. t \notin Reserved \cup Abstract!Queued \cup {item[th] : th \in Busy} \cup served
    BY <1>0, <2>1 DEF Reserved, Abstract!Queued, Places
  <2>. QED  BY <2>1, <2>2, <2>3 DEF Abstract!Reserve, Abstract!HasRoom, Busy
<1>3. ASSUME NEW t \in Tasks, SubmitPut(t)
      PROVE  Abstract!Enqueue(t)
  <2>1. Len(queue) < Capacity
    BY <1>3, RoomLeft DEF SubmitPut, Request, ReservationHasRoom
  <2>2. /\ queue' = Append(queue, t) /\ UNCHANGED <<item, served>>
        /\ t \in Reserved /\ Reserved' = Reserved \ {t}
    BY <1>0, <1>3, <2>1 DEF SubmitPut, Request, Reserved, Typed
  <2>. QED  BY <2>2 DEF Abstract!Enqueue, Busy
<1>4. ASSUME NEW th \in Threads, Get(th)
      PROVE  Abstract!PoolNext \/ UNCHANGED Abstract!poolVars
  <2>1. Reserved' = Reserved /\ UNCHANGED served
    BY <1>4 DEF Get, Reserved
  <2>2. CASE queue = <<>>
    BY <1>1, <1>4, <2>1, <2>2 DEF Get
  <2>3. CASE queue # <<>>
    <3>1. /\ item' = [item EXCEPT ![th] = Head(queue)] /\ queue' = Tail(queue)
          /\ worker[th] = "wait" /\ Head(queue) \in Tasks
      BY <1>0, <1>4, <2>3, HeadTailProperties DEF Get, Worker, Typed
    <3>2. /\ th \notin Busy /\ Busy' = Busy \cup {th} /\ item'[th] = Head(queue)
          /\ \A tk \in Busy : item'[tk] = item[tk]
      BY <1>0, <3>1, PoolAssumption DEF Busy, Typed, Holding
    <3>3. {item[tk] : tk \in Busy}' = {item[tk] : tk \in Busy} \cup {Head(queue)}
      BY <3>2
    <3>4. PICK t \in Tasks : t = Head(queue)
      BY <3>1
    <3>5. Abstract!Take(t)
      BY <2>1, <2>3, <3>1, <3>3, <3>4 DEF Abstract!Take
    <3>. QED  BY <3>5 DEF Abstract!PoolNext
  <2>. QED  BY <2>2, <2>3
<1>5. ASSUME NEW th \in Threads, Finish(th)
      PROVE  Abstract!PoolNext
  <2>1. /\ item' = [item EXCEPT ![th] = NoTask] /\ served' = served \cup {item[th]}
        /\ UNCHANGED <<queue, request>> /\ th \in Busy
    BY <1>0, <1>5 DEF Finish, Worker, Holding, Busy
  <2>2. /\ Busy' = Busy \ {th} /\ item[th] \in Tasks
        /\ \A tk \in Busy' : item'[tk] = item[tk]
    BY <1>0, <2>1 DEF Busy, Typed
  <2>3. {item[tk] : tk \in Busy}' = {item[tk] : tk \in Busy} \ {item[th]}
    BY <1>0, <2>1, <2>2 DEF Places
  <2>4. PICK t \in Tasks : t = item[th]
    BY <2>2
  <2>5. Abstract!Release(t)
    BY <2>1, <2>3, <2>4 DEF Abstract!Release, Reserved
  <2>. QED  BY <2>5 DEF Abstract!PoolNext
<1>6. ASSUME NEW t \in Tasks, Submit(t) \/ SubmitStart(t) \/ SubmitRefuse(t)
      PROVE  UNCHANGED Abstract!poolVars
  <2>1. Reserved' = Reserved /\ UNCHANGED <<queue, item, served>>
    BY <1>0, <1>6 DEF Submit, SubmitStart, SubmitRefuse, Request, Reserved, Typed
  <2>. QED  BY <1>1, <2>1
<1>7. ASSUME NEW th \in Threads, CheckStop(th) \/ Handle(th)
      PROVE  UNCHANGED Abstract!poolVars
  BY <1>1, <1>7 DEF CheckStop, Handle, Reserved
<1>8. CASE Lifespan \/ UNCHANGED vars
  BY <1>1, <1>8 DEF Lifespan, LifespanStart, StopSetEvent, StopTakeThreads, vars, Reserved
<1>. QED
  BY <1>2, <1>3, <1>4, <1>5, <1>6, <1>7, <1>8 DEF Next, Step, Loop, Abstract!PoolNext

\* The threads, the queue and the counter of api/workers.py implement the
\* bounded first-in first-out pool: places are never overcommitted, each
\* admitted task is taken once, in order, and served once.
THEOREM PoolImplemented == Spec => ImplementsBoundedPool
<1>. QED
  BY PoolInitMaps, PoolStepMaps, Invariance, PTL
     DEF Spec, ImplementsBoundedPool, Abstract!PoolSpec

=============================================================================
