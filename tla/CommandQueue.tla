---------------------------- MODULE CommandQueue ----------------------------
(***************************************************************************)
(* The in-process command queue of the gateway                             *)
(* (src/process/command-queue.ts): named lanes, each with a priority       *)
(* queue, a set of running tasks, a concurrency limit and a generation.    *)
(*                                                                         *)
(* An Entry is one call of enqueueCommandInLane.  An entry is dispatched   *)
(* at most once, so the entry itself stands for the task id the code draws *)
(* from nextTaskId.  Every action is one synchronous stretch of            *)
(* JavaScript: `pump' never yields, so the flag `draining' is FALSE        *)
(* between two actions and is not a variable here.                         *)
(***************************************************************************)
EXTENDS Integers, Sequences, FiniteSets, Functions

CONSTANTS
  Entry,             \* calls of enqueueCommandInLane
  Lane,              \* lane names
  SessionLane,       \* lanes "session:<key>", whose concurrency stays 1
  ProbeLane,         \* isQuietProbeLane: lanes whose limit is at least 1
  Waiter,            \* calls of waitForActiveTasks
  LaneOf,            \* the lane each entry is enqueued in
  PriorityOf,        \* background -1, normal 0, foreground 1
  HasTimeout,        \* entries enqueued with taskTimeoutMs
  MaxConcurrency,    \* bound: the largest limit setCommandLaneConcurrency gets
  MaxGeneration      \* bound: resets of one lane

ASSUME LaneAssumption ==
  /\ SessionLane \subseteq Lane
  /\ ProbeLane \subseteq Lane
  /\ LaneOf \in [Entry -> Lane]

ASSUME EntryAssumption ==
  /\ IsFiniteSet(Entry)
  /\ PriorityOf \in [Entry -> -1 .. 1]
  /\ HasTimeout \subseteq Entry

ASSUME BoundAssumption ==
  /\ MaxConcurrency \in Nat \ {0}
  /\ MaxGeneration \in Nat

VARIABLES
  queue,             \* [Lane -> Seq(Entry)]: LaneState.queue
  active,            \* [Lane -> SUBSET Entry]: LaneState.activeTaskIds
  maxConcurrent,     \* [Lane -> Nat]: LaneState.maxConcurrent, 0 = suspended
  generation,        \* [Lane -> Nat]: LaneState.generation
  sequence,          \* QueueEntry.sequence, 0 before the entry is queued
  nextSequence,      \* nextQueueSequence
  taskGeneration,    \* the lane's generation when the task was dispatched
  race,              \* Promise.race of the task and its timeout
  body,              \* the task itself: it outlives a lost race
  promise,           \* the promise handed to the caller
  admission,         \* what isGatewaySubordinateWorkAdmissionClosed reports
  waitState,         \* a waitForActiveTasks call
  waitTasks          \* the active tasks it captured

vars == <<queue, active, maxConcurrent, generation, sequence, nextSequence,
          taskGeneration, race, body, promise, admission, waitState, waitTasks>>

laneVars  == <<maxConcurrent, generation>>
entryVars == <<sequence, nextSequence>>

TypeOK ==
  /\ queue \in [Lane -> Seq(Entry)]
  /\ active \in [Lane -> SUBSET Entry]
  /\ maxConcurrent \in [Lane -> 0 .. MaxConcurrency]
  /\ generation \in [Lane -> 0 .. MaxGeneration]
  /\ sequence \in [Entry -> Nat]
  /\ nextSequence \in Nat \ {0}
  /\ taskGeneration \in [Entry -> 0 .. MaxGeneration]
  /\ race \in [Entry -> {"none", "open", "finished", "timedOut"}]
  /\ body \in [Entry -> {"none", "running", "ended"}]
  /\ promise \in [Entry -> {"none", "pending", "settled", "cleared", "refused"}]
  /\ admission \in {"open", "fenced", "draining"}
  /\ waitState \in [Waiter -> {"none", "waiting", "drained", "timedOut"}]
  /\ waitTasks \in [Waiter -> SUBSET Entry]

Init ==
  /\ queue = [l \in Lane |-> <<>>]
  /\ active = [l \in Lane |-> {}]
  /\ maxConcurrent = [l \in Lane |-> 1]
  /\ generation = [l \in Lane |-> 0]
  /\ sequence = [e \in Entry |-> 0]
  /\ nextSequence = 1
  /\ taskGeneration = [e \in Entry |-> 0]
  /\ race = [e \in Entry |-> "none"]
  /\ body = [e \in Entry |-> "none"]
  /\ promise = [e \in Entry |-> "none"]
  /\ admission = "open"
  /\ waitState = [w \in Waiter |-> "none"]
  /\ waitTasks = [w \in Waiter |-> {}]

-----------------------------------------------------------------------------
(* The queue of a lane and its pump.                                       *)

\* The entry is dispatched and its promise is not settled yet.
Running(e) == promise[e] = "pending" /\ race[e] # "none"

\* Mutant: an entry of the same priority does not hold its place.
Bug_StaysBehind(f, p, n) == PriorityOf[f] <= p

\* f stays behind an entry of priority p and sequence number n.
StaysBehind(f, p, n) ==
  \/ PriorityOf[f] < p
  \/ PriorityOf[f] = p /\ sequence[f] > n

\* enqueueLaneEntry: in front of the first entry that stays behind e.
Insert(q, e, n) ==
  LET behind == {i \in 1 .. Len(q) : StaysBehind(q[i], PriorityOf[e], n)}
  IN  IF behind = {}
      THEN Append(q, e)
      ELSE LET at == CHOOSE i \in behind : \A j \in behind : i <= j
           IN  SubSeq(q, 1, at - 1) \o <<e>> \o SubSeq(q, at, Len(q))

\* Mutant: the loop tests `<=' and starts one task too many.
Bug_Startable(q, a, limit) ==
  LET free == limit + 1 - Cardinality(a)
  IN  IF free <= 0 THEN 0 ELSE IF free <= Len(q) THEN free ELSE Len(q)

\* How many entries the loop of pump shifts off q beside the tasks of a.
Startable(q, a, limit) ==
  LET free == limit - Cardinality(a)
  IN  IF free <= 0 THEN 0 ELSE IF free <= Len(q) THEN free ELSE Len(q)

Dispatched(q, a, limit) == {q[i] : i \in 1 .. Startable(q, a, limit)}

Waiting(q, a, limit) == SubSeq(q, Startable(q, a, limit) + 1, Len(q))

\* drainLane for the lanes of S, from the queues q, the active tasks a, the
\* limits m and the generations g that the handler has written so far.
Drain(S, q, a, m, g) ==
  LET started(l) == IF l \in S THEN Dispatched(q[l], a[l], m[l]) ELSE {}
      begins(e)  == e \in started(LaneOf[e])
  IN  /\ queue' = [l \in Lane |->
                     IF l \in S THEN Waiting(q[l], a[l], m[l]) ELSE q[l]]
      /\ active' = [l \in Lane |-> a[l] \union started(l)]
      /\ race' = [e \in Entry |-> IF begins(e) THEN "open" ELSE race[e]]
      /\ body' = [e \in Entry |-> IF begins(e) THEN "running" ELSE body[e]]
      /\ taskGeneration' = [e \in Entry |->
                     IF begins(e) THEN g[LaneOf[e]] ELSE taskGeneration[e]]

\* Mutant: a waiter is resolved once one lane has none of its tasks left.
Bug_Notify ==
  waitState' = [w \in Waiter |->
    IF waitState[w] = "waiting"
         /\ \E l \in Lane : waitTasks[w] \cap active'[l] = {}
    THEN "drained" ELSE waitState[w]]

\* notifyActiveTaskWaiters: resolve the waiters none of whose tasks is active.
Notify ==
  waitState' = [w \in Waiter |->
    IF waitState[w] = "waiting"
         /\ \A l \in Lane : waitTasks[w] \cap active'[l] = {}
    THEN "drained" ELSE waitState[w]]

-----------------------------------------------------------------------------
(* The exported operations and the callbacks.                              *)

\* enqueueCommandInLane while admission is closed: GatewayDrainingError.
RefuseEnqueue(e) ==
  /\ promise[e] = "none"
  /\ admission # "open"
  /\ promise' = [promise EXCEPT ![e] = "refused"]
  /\ UNCHANGED <<queue, active, laneVars, entryVars, taskGeneration, race,
                 body, admission, waitState, waitTasks>>

\* enqueueCommandInLane while admission is open.
Enqueue(e) ==
  LET l == LaneOf[e]
      q == [queue EXCEPT ![l] = Insert(@, e, nextSequence)]
  IN  /\ promise[e] = "none"
      /\ admission = "open"
      /\ promise' = [promise EXCEPT ![e] = "pending"]
      /\ sequence' = [sequence EXCEPT ![e] = nextSequence]
      /\ nextSequence' = nextSequence + 1
      /\ Drain({l}, q, active, maxConcurrent, generation)
      /\ UNCHANGED <<laneVars, admission, waitState, waitTasks>>

\* The task's own promise settles, with a value or an error (the two take the
\* same steps); a race already lost to the timeout ignores it.
BodyEnds(e) ==
  /\ body[e] = "running"
  /\ body' = [body EXCEPT ![e] = "ended"]
  /\ race' = [race EXCEPT ![e] = IF @ = "open" THEN "finished" ELSE @]
  /\ UNCHANGED <<queue, active, laneVars, entryVars, taskGeneration, promise,
                 admission, waitState, waitTasks>>

\* Mutant: the timeout waits for the aborted body before it frees the slot.
Bug_Timeout(e) ==
  /\ e \in HasTimeout
  /\ race[e] = "open"
  /\ body[e] = "ended"
  /\ race' = [race EXCEPT ![e] = "timedOut"]
  /\ UNCHANGED <<queue, active, laneVars, entryVars, taskGeneration, body,
                 promise, admission, waitState, waitTasks>>

\* rejectForTimeout, for any of its four causes: the body keeps running.
Timeout(e) ==
  /\ e \in HasTimeout
  /\ race[e] = "open"
  /\ race' = [race EXCEPT ![e] = "timedOut"]
  /\ UNCHANGED <<queue, active, laneVars, entryVars, taskGeneration, body,
                 promise, admission, waitState, waitTasks>>

\* The continuation after runQueueEntryTask: completeTask, the waiters, the
\* pump, then the caller's promise.  A stale generation only settles it.
Complete(e) ==
  LET l == LaneOf[e]
      current == taskGeneration[e] = generation[l]
  IN  /\ promise[e] = "pending"
      /\ race[e] \in {"finished", "timedOut"}
      /\ promise' = [promise EXCEPT ![e] = "settled"]
      /\ \/ /\ current
            /\ Drain({l}, queue, [active EXCEPT ![l] = @ \ {e}],
                     maxConcurrent, generation)
            /\ Notify
         \/ /\ ~current
            /\ UNCHANGED <<queue, active, race, body, taskGeneration, waitState>>
      /\ UNCHANGED <<laneVars, entryVars, admission, waitTasks>>

\* Mutant: a negative limit from the configuration is stored as it is.
Bug_SetConcurrencyUnclamped(l, requested) ==
  LET m == [maxConcurrent EXCEPT ![l] = requested]
  IN  /\ l \notin SessionLane
      /\ maxConcurrent' = m
      /\ Drain(IF requested > 0 THEN {l} ELSE {}, queue, active, m, generation)
      /\ UNCHANGED <<generation, entryVars, promise, admission, waitState,
                     waitTasks>>

\* Mutant: the new limit is stored and nobody pumps.
Bug_SetConcurrencyWithoutDrain(l, requested) ==
  /\ l \notin SessionLane
  /\ maxConcurrent' = [maxConcurrent EXCEPT ![l] =
                         IF requested < 0 THEN 0 ELSE requested]
  /\ UNCHANGED <<queue, active, generation, entryVars, taskGeneration, race,
                 body, promise, admission, waitState, waitTasks>>

\* setCommandLaneConcurrency: a limit of 0 suspends the lane.
SetCommandLaneConcurrency(l, requested) ==
  LET least == IF l \in ProbeLane THEN 1 ELSE 0
      n == IF requested < least THEN least ELSE requested
      m == [maxConcurrent EXCEPT ![l] = n]
  IN  /\ l \notin SessionLane
      /\ maxConcurrent' = m
      /\ Drain(IF n > 0 THEN {l} ELSE {}, queue, active, m, generation)
      /\ UNCHANGED <<generation, entryVars, promise, admission, waitState,
                     waitTasks>>

\* Mutant: the queue is emptied and the callers are not told.
Bug_ClearWithoutReject(l) ==
  /\ queue[l] # <<>>
  /\ queue' = [queue EXCEPT ![l] = <<>>]
  /\ UNCHANGED <<active, laneVars, entryVars, taskGeneration, race, body,
                 promise, admission, waitState, waitTasks>>

\* clearCommandLane: reject what is queued, leave what runs.
ClearCommandLane(l) ==
  /\ queue[l] # <<>>
  /\ queue' = [queue EXCEPT ![l] = <<>>]
  /\ promise' = [e \in Entry |->
       IF e \in Range(queue[l]) THEN "cleared" ELSE promise[e]]
  /\ UNCHANGED <<active, laneVars, entryVars, taskGeneration, race, body,
                 admission, waitState, waitTasks>>

\* Mutant: the slots are freed under the old generation.
Bug_ResetKeepsGeneration(l) ==
  /\ generation[l] < MaxGeneration
  /\ Drain({l}, queue, [active EXCEPT ![l] = {}], maxConcurrent, generation)
  /\ Notify
  /\ UNCHANGED <<laneVars, entryVars, promise, admission, waitTasks>>

\* Mutant: the waiters are not told that their tasks lost their slots.
Bug_ResetWithoutNotify(l) ==
  LET g == [generation EXCEPT ![l] = @ + 1]
  IN  /\ generation[l] < MaxGeneration
      /\ generation' = g
      /\ Drain({l}, queue, [active EXCEPT ![l] = {}], maxConcurrent, g)
      /\ UNCHANGED <<maxConcurrent, entryVars, promise, admission, waitState,
                     waitTasks>>

\* resetCommandLane: a new generation with every slot free.
ResetCommandLane(l) ==
  LET g == [generation EXCEPT ![l] = @ + 1]
      a == [active EXCEPT ![l] = {}]
  IN  /\ generation[l] < MaxGeneration
      /\ generation' = g
      /\ Drain({l}, queue, a, maxConcurrent, g)
      /\ Notify
      /\ UNCHANGED <<maxConcurrent, entryVars, promise, admission, waitTasks>>

\* resetAllLanes, which the run loop calls once the restart drain is over:
\* admission reopens, every lane starts a generation, queued work is kept.
ResetAllLanes ==
  LET g == [l \in Lane |-> generation[l] + 1]
      a == [l \in Lane |-> {}]
  IN  /\ admission = "draining"
      /\ \A l \in Lane : generation[l] < MaxGeneration
      /\ admission' = "open"
      /\ generation' = g
      /\ Drain(Lane, queue, a, maxConcurrent, g)
      /\ Notify
      /\ UNCHANGED <<maxConcurrent, entryVars, promise, waitTasks>>

\* waitForActiveTasks captures the active tasks of all lanes.
WaitForActiveTasks(w) ==
  LET captured == UNION {active[l] : l \in Lane}
  IN  /\ waitState[w] = "none"
      /\ waitTasks' = [waitTasks EXCEPT ![w] = captured]
      /\ waitState' = [waitState EXCEPT ![w] =
           IF captured = {} THEN "drained" ELSE "waiting"]
      /\ UNCHANGED <<queue, active, laneVars, entryVars, taskGeneration, race,
                     body, promise, admission>>

\* The waiter's own timer, or a timeoutMs <= 0.
WaiterTimeout(w) ==
  /\ waitState[w] = "waiting"
  /\ waitState' = [waitState EXCEPT ![w] = "timedOut"]
  /\ UNCHANGED <<queue, active, laneVars, entryVars, taskGeneration, race,
                 body, promise, admission, waitTasks>>

\* markGatewayDraining (one way), or a reversible fence and its rollback.
ChangeAdmission ==
  /\ \/ admission = "open" /\ admission' \in {"fenced", "draining"}
     \/ admission = "fenced" /\ admission' \in {"open", "draining"}
  /\ UNCHANGED <<queue, active, laneVars, entryVars, taskGeneration, race,
                 body, promise, waitState, waitTasks>>

Next ==
  \/ \E e \in Entry :
       \/ RefuseEnqueue(e)
       \/ Enqueue(e)
       \/ BodyEnds(e)
       \/ Timeout(e)
       \/ Complete(e)
  \/ \E l \in Lane :
       \/ \E n \in -1 .. MaxConcurrency : SetCommandLaneConcurrency(l, n)
       \/ ClearCommandLane(l)
       \/ ResetCommandLane(l)
  \/ ResetAllLanes
  \/ \E w \in Waiter : WaitForActiveTasks(w) \/ WaiterTimeout(w)
  \/ ChangeAdmission

Spec == Init /\ [][Next]_vars

\* Continuations of settled promises always run, and an armed timer fires.
\* Nothing is assumed of the tasks themselves: a body may hang for ever.
Fairness ==
  \A e \in Entry : WF_vars(Timeout(e)) /\ WF_vars(Complete(e))

LiveSpec == Spec /\ Fairness

-----------------------------------------------------------------------------
(* Properties.                                                             *)

\* A lane's slots are held by exactly the dispatched, unsettled tasks of its
\* current generation: no slot leaks on an error, a timeout or a reset, and
\* a completion from before a reset frees nothing (completeTask).
SlotAccounting ==
  \A l \in Lane :
    active[l] = {e \in Entry : LaneOf[e] = l /\ Running(e)
                                /\ taskGeneration[e] = generation[l]}

\* Work never waits beside a free slot: whatever changed the lane (an enqueue,
\* a completion, a limit, a reset) has pumped it.
WorkConserving ==
  \A l \in Lane :
    queue[l] # <<>> => Cardinality(active[l]) >= maxConcurrent[l]

\* A pending promise has one owner that can still settle it: one place in its
\* lane's queue, or a dispatched task.  Nothing else is queued.
PromiseHasOwner ==
  \A e \in Entry :
    LET places == {i \in 1 .. Len(queue[LaneOf[e]]) : queue[LaneOf[e]][i] = e}
    IN  IF promise[e] = "pending" /\ race[e] = "none"
        THEN \E i \in places : places = {i} ELSE places = {}

\* An entry never runs ahead of an earlier entry of its lane that has at least
\* its priority and is still queued (enqueueLaneEntry and the pump).
NoOvertaking ==
  \A e, f \in Entry :
    (/\ LaneOf[e] = LaneOf[f]
     /\ promise[e] = "pending" /\ race[e] = "none"
     /\ sequence[e] < sequence[f] /\ PriorityOf[e] >= PriorityOf[f])
    => race[f] = "none"

\* An unresolved waitForActiveTasks still has an active task to wait for, so a
\* restart drain never sleeps on slots that are already free.
WaiterHasActiveTask ==
  \A w \in Waiter :
    waitState[w] = "waiting" =>
      \E l \in Lane : waitTasks[w] \cap active[l] # {}

\* In a session lane at most one task runs that was neither abandoned by its
\* timeout nor by a reset of the lane.
OneOwnedRunPerSession ==
  \A l \in SessionLane : \A e, f \in Entry :
    (/\ LaneOf[e] = l /\ LaneOf[f] = l
     /\ race[e] = "open" /\ race[f] = "open"
     /\ taskGeneration[e] = generation[l] /\ taskGeneration[f] = generation[l])
    => e = f

\* What docs/concepts/queue.md says of a session lane: only one run touches a
\* session at a time.
OneRunPerSession ==
  \A l \in SessionLane : \A e, f \in Entry :
    (/\ LaneOf[e] = l /\ LaneOf[f] = l
     /\ body[e] = "running" /\ body[f] = "running") => e = f

\* A step that starts tasks leaves the lane within its limit, even a limit
\* that was lowered below the number of tasks already running.
NoOverAdmission ==
  [][\A l \in Lane :
       active'[l] \subseteq active[l]
         \/ Cardinality(active'[l]) <= maxConcurrent'[l]]_vars

\* Where each call stands for those who only know the lanes: a dispatched task
\* of an older generation has lost its slot.
StatusOf(p, r, tg, g) ==
  [e \in Entry |->
     CASE p[e] = "none" -> "new"
       [] p[e] = "pending" /\ r[e] = "none" -> "waiting"
       [] p[e] = "pending" /\ r[e] # "none" /\ tg[e] = g[LaneOf[e]] -> "running"
       [] p[e] = "pending" /\ r[e] # "none" /\ tg[e] # g[LaneOf[e]] -> "abandoned"
       [] OTHER -> "over"]

\* The lanes keep the promise of LaneExecutor in every step, a completion, a
\* reset or a new limit with the pump and the wake-ups that go with it.
Executor == INSTANCE LaneExecutor
  WITH status <- StatusOf(promise, race, taskGeneration, generation),
       arrival <- sequence,
       limit <- maxConcurrent,
       awaited <- [w \in Waiter |->
                     IF waitState[w] = "waiting" THEN waitTasks[w] ELSE {}]
LanesAreExecutors == Executor!Spec

\* A hung task never wedges its lane: when the entries of a lane have timeouts,
\* each of them is settled, cleared or behind a lane suspended with limit 0.
NeverWedged ==
  \A e \in Entry :
    (promise[e] = "pending" /\ \A f \in Entry : LaneOf[f] = LaneOf[e]
                                               => f \in HasTimeout)
    ~> (promise[e] # "pending" \/ maxConcurrent[LaneOf[e]] = 0)

=============================================================================
