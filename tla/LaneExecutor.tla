----------------------------- MODULE LaneExecutor -----------------------------
(***************************************************************************)
(* What the command queue (src/process/command-queue.ts) promises,         *)
(* whatever queues, generations, races and notifications it keeps.         *)
(*                                                                         *)
(* A call waits until its lane starts it, runs in a slot of the lane, and  *)
(* is over once; a reset of the lane takes the slot away from what runs.   *)
(* After each event the lanes are full or have nothing to start: nothing   *)
(* starts beyond a limit, nothing waits beside a free slot, and of two     *)
(* waiting calls the urgent one goes first, then the earlier one.          *)
(* Somebody who waits for the calls that run now sleeps exactly until the  *)
(* last of them has left its slot.                                         *)
(***************************************************************************)
EXTENDS Naturals, FiniteSets

CONSTANTS
  Entry,             \* calls
  Lane,              \* lanes
  SessionLane,       \* lanes whose limit never changes
  Waiter,            \* those who wait for the running calls
  LaneOf,            \* the lane of each call
  PriorityOf         \* its priority

VARIABLES
  status,            \* new, waiting, running, abandoned or over
  arrival,           \* when the call was submitted, 0 before
  limit,             \* slots of each lane
  awaited            \* the running calls a waiter sleeps for

vars == <<status, arrival, limit, awaited>>

Init ==
  /\ status = [e \in Entry |-> "new"]
  /\ arrival = [e \in Entry |-> 0]
  /\ limit = [l \in Lane |-> 1]
  /\ awaited = [w \in Waiter |-> {}]

\* The calls of lane l in a slot, when those of D have just got theirs.
Held(s, D, l) == {e \in Entry : LaneOf[e] = l /\ (s[e] = "running" \/ e \in D)}

\* d may not start and leave e waiting.
GoesBefore(e, d) ==
  /\ LaneOf[e] = LaneOf[d]
  /\ arrival'[e] < arrival'[d]
  /\ PriorityOf[e] >= PriorityOf[d]

Running(s) == {e \in Entry : s[e] = "running"}

\* An event left the calls in the state s: the lanes start those of D and wake
\* who waited for calls that are gone.
StartAfter(s) ==
  \E D \in SUBSET {e \in Entry : s[e] = "waiting"} :
    /\ status' = [e \in Entry |-> IF e \in D THEN "running" ELSE s[e]]
    /\ \A d \in D : Cardinality(Held(s, D, LaneOf[d])) <= limit'[LaneOf[d]]
    /\ \A e \in Entry \ D : s[e] = "waiting" =>
         /\ Cardinality(Held(s, D, LaneOf[e])) >= limit'[LaneOf[e]]
         /\ \A d \in D : ~GoesBefore(e, d)
    /\ awaited' = [w \in Waiter |->
         IF awaited[w] \cap Running(status') = {} THEN {} ELSE awaited[w]]

Submit(e) ==
  /\ status[e] = "new"
  /\ arrival' = [arrival EXCEPT ![e] = arrival'[e]]
  /\ \A f \in Entry : arrival[f] < arrival'[e]
  /\ limit' = limit
  /\ StartAfter([status EXCEPT ![e] = "waiting"])

Refuse(e) ==
  /\ status[e] = "new"
  /\ status' = [status EXCEPT ![e] = "over"]
  /\ UNCHANGED <<arrival, limit, awaited>>

Finish(e) ==
  /\ status[e] = "running"
  /\ UNCHANGED <<arrival, limit>>
  /\ StartAfter([status EXCEPT ![e] = "over"])

FinishAbandoned(e) ==
  /\ status[e] = "abandoned"
  /\ status' = [status EXCEPT ![e] = "over"]
  /\ UNCHANGED <<arrival, limit, awaited>>

SetLimit(l) ==
  /\ l \notin SessionLane
  /\ limit'[l] \in Nat
  /\ limit' = [limit EXCEPT ![l] = limit'[l]]
  /\ UNCHANGED arrival
  /\ StartAfter(status)

Clear(l) ==
  /\ status' = [e \in Entry |-> IF status[e] = "waiting" /\ LaneOf[e] = l
                                THEN "over" ELSE status[e]]
  /\ UNCHANGED <<arrival, limit, awaited>>

Reset(S) ==
  /\ UNCHANGED <<arrival, limit>>
  /\ StartAfter([e \in Entry |-> IF status[e] = "running" /\ LaneOf[e] \in S
                                 THEN "abandoned" ELSE status[e]])

Sleep(w) ==
  /\ awaited[w] = {}
  /\ awaited' = [awaited EXCEPT ![w] = Running(status)]
  /\ UNCHANGED <<status, arrival, limit>>

GiveUp(w) ==
  /\ awaited' = [awaited EXCEPT ![w] = {}]
  /\ UNCHANGED <<status, arrival, limit>>

Next ==
  \/ \E e \in Entry : Submit(e) \/ Refuse(e) \/ Finish(e) \/ FinishAbandoned(e)
  \/ \E l \in Lane : SetLimit(l) \/ Clear(l)
  \/ \E S \in SUBSET Lane : Reset(S)
  \/ \E w \in Waiter : Sleep(w) \/ GiveUp(w)

Spec == Init /\ [][Next]_vars

=============================================================================
