--------------------------- MODULE HeartbeatProofs ---------------------------
(***************************************************************************)
(* Theorems about HeartbeatWake, for any targets, number of batches and    *)
(* number of runners.                                                      *)
(***************************************************************************)
EXTENDS HeartbeatWake, TLAPS

USE DEF queueVars, runnerVars

-----------------------------------------------------------------------------
(* The helpers of the queue.                                               *)

LEMMA MergeType ==
  ASSUME NEW a \in [Target -> {0} \cup Priority], NEW b \in [Target -> {0} \cup Priority]
  PROVE  /\ Merge(a, b) \in [Target -> {0} \cup Priority]
         /\ \A t \in Target : Merge(a, b)[t] >= a[t] /\ Merge(a, b)[t] >= b[t]
BY DEF Merge, Higher, Priority

LEMMA NoWakesType == NoWakes \in [Target -> {0} \cup Priority]
BY DEF NoWakes

LEMMA OnlyType ==
  ASSUME NEW t \in Target, NEW p \in {0} \cup Priority
  PROVE  /\ Only(t, p) \in [Target -> {0} \cup Priority]
         /\ Only(t, p)[t] = p
BY DEF Only, NoWakes

LEMMA ArmedType ==
  ASSUME NEW tm \in {"none", "normal", "retry"}, NEW kind \in {"normal", "retry"}
  PROVE  Armed(tm, kind) \subseteq {"normal", "retry"}
BY DEF Armed

BatchType == [by : {0} \cup Runner, phase : {"free", "admit", "run"},
              now : Target, todo : SUBSET Target, all : [Target -> {0} \cup Priority]]

LEMMA FreeType == Free \in BatchType
BY NoWakesType, TargetAssumption DEF Free, BatchType

-----------------------------------------------------------------------------
(* The end of a wake.                                                      *)

LEMMA LeaveType ==
  ASSUME TypeOK, NEW s \in Slot, NEW timers \in SUBSET {"none", "normal", "retry"}, Leave(s, timers)
  PROVE  /\ batch' \in [Slot -> BatchType]
         /\ running' \in BOOLEAN /\ scheduled' \in BOOLEAN
         /\ timer' \in {"none", "normal", "retry"}
         /\ timers \subseteq {"normal", "retry"} => timer' # "none"
         /\ pending' # NoWakes => timer' # "none"
<1>1. /\ batch \in [Slot -> BatchType] /\ scheduled \in BOOLEAN
  BY DEF TypeOK, BatchType
<1>2. \A tm \in timers : Armed(tm, "normal") \subseteq {"normal", "retry"}
  BY ArmedType
<1>3. UNION {Armed(tm, "normal") : tm \in timers} \subseteq {"normal", "retry"}
  BY <1>2
<1>4. batch' \in [Slot -> BatchType] /\ running' \in BOOLEAN /\ scheduled' \in BOOLEAN
  BY <1>1, FreeType DEF Leave
<1>5. CASE pending' # NoWakes \/ scheduled
  <2>1. timer' \in UNION {Armed(tm, "normal") : tm \in timers}
    BY <1>5 DEF Leave
  <2>2. timer' \in {"normal", "retry"}
    BY <2>1, <1>3
  <2>. QED  BY <1>4, <2>2
<1>6. CASE ~(pending' # NoWakes \/ scheduled)
  <2>1. timer' \in timers
    BY <1>6 DEF Leave
  <2>. QED  BY <1>4, <1>6, <2>1
<1>. QED  BY <1>5, <1>6

LEMMA ProceedType ==
  ASSUME TypeOK, NEW s \in Slot, NEW timers \in SUBSET {"none", "normal", "retry"}, Proceed(s, timers)
  PROVE  /\ batch' \in [Slot -> BatchType]
         /\ running' \in BOOLEAN /\ scheduled' \in BOOLEAN
         /\ timer' \in {"none", "normal", "retry"}
         /\ timers \subseteq {"normal", "retry"} => timer' # "none"
<1>1. /\ batch \in [Slot -> BatchType] /\ scheduled \in BOOLEAN /\ running \in BOOLEAN
  BY DEF TypeOK, BatchType
<1>2. CASE batch[s].todo = {}
  BY <1>2, LeaveType DEF Proceed
<1>3. CASE batch[s].todo # {}
  <2>1. PICK t \in batch[s].todo :
          batch' = [batch EXCEPT ![s].phase = "admit", ![s].now = t, ![s].todo = @ \ {t}]
    BY <1>3 DEF Proceed
  <2>2. batch' \in [Slot -> BatchType]
    BY <1>1, <2>1 DEF BatchType
  <2>3. timer' \in timers /\ UNCHANGED <<scheduled, running>>
    BY <1>3 DEF Proceed
  <2>. QED  BY <1>1, <2>2, <2>3
<1>. QED  BY <1>2, <1>3

-----------------------------------------------------------------------------
(* Types.                                                                  *)

LEMMA QueueType ==
  ASSUME TypeOK, NEW t \in Target, NEW p \in Priority, Queue(t, p)
  PROVE  /\ pending' \in [Target -> {0} \cup Priority]
         /\ timer' \in {"normal", "retry"}
         /\ scheduled' \in BOOLEAN /\ running' \in BOOLEAN
         /\ batch' \in [Slot -> BatchType]
<1>1. pending' \in [Target -> {0} \cup Priority]
  BY MergeType, OnlyType DEF TypeOK, Queue
<1>2. timer' \in {"normal", "retry"}
  BY ArmedType DEF TypeOK, Queue
<1>. QED  BY <1>1, <1>2 DEF TypeOK, Queue, BatchType

LEMMA RequeueType ==
  ASSUME TypeOK, NEW s \in Slot, Requeue(s)
  PROVE  /\ pending' \in [Target -> {0} \cup Priority]
         /\ timer' \in {"normal", "retry"}
         /\ scheduled' \in BOOLEAN /\ running' \in BOOLEAN
         /\ batch' \in [Slot -> BatchType]
<1>1. batch[s].all \in [Target -> {0} \cup Priority]
  BY DEF TypeOK
<1>2. pending' \in [Target -> {0} \cup Priority]
  BY <1>1, MergeType DEF TypeOK, Requeue
<1>3. Armed(timer, "retry") \subseteq {"normal", "retry"}
  BY ArmedType DEF TypeOK
<1>. QED  BY <1>2, <1>3, LeaveType DEF Requeue

LEMMA BusyType ==
  ASSUME TypeOK, NEW s \in Slot, Busy(s)
  PROVE  /\ pending' \in [Target -> {0} \cup Priority]
         /\ timer' \in {"normal", "retry"}
         /\ scheduled' \in BOOLEAN /\ running' \in BOOLEAN
         /\ batch' \in [Slot -> BatchType]
<1>1. batch[s].now \in Target /\ batch[s].all[batch[s].now] \in {0} \cup Priority
  BY DEF TypeOK
<1>2. pending' \in [Target -> {0} \cup Priority]
  BY <1>1, MergeType, OnlyType DEF TypeOK, Busy
<1>3. Armed(timer, "retry") \subseteq {"normal", "retry"}
  BY ArmedType DEF TypeOK
<1>. QED  BY <1>2, <1>3, ProceedType DEF Busy

LEMMA FireType ==
  ASSUME TypeOK, NEW s \in Slot, Fire(s)
  PROVE  /\ running' \in BOOLEAN
         /\ batch' \in [Slot -> BatchType]
<1>1. CASE Wakes = {}
  BY <1>1 DEF TypeOK, Fire, BatchType
<1>2. CASE Wakes # {}
  <2>1. PICK t \in Wakes :
          batch' = [batch EXCEPT ![s] =
                     [by |-> handler, phase |-> "admit", now |-> t,
                      todo |-> Wakes \ {t}, all |-> pending]]
    BY <1>2 DEF Fire
  <2>2. [by |-> handler, phase |-> "admit", now |-> t,
         todo |-> Wakes \ {t}, all |-> pending] \in BatchType
    BY DEF TypeOK, BatchType, Wakes
  <2>3. batch' \in [Slot -> BatchType]
    BY <2>1, <2>2 DEF TypeOK, BatchType
  <2>. QED  BY <1>2, <2>3 DEF Fire
<1>. QED  BY <1>1, <1>2

\* Every reachable state has the types of the model.
THEOREM TypeCorrect == Spec => []TypeOK
<1>1. Init => TypeOK
  <2>. SUFFICES ASSUME Init PROVE TypeOK
    OBVIOUS
  <2>1. batch \in [Slot -> BatchType] /\ pending \in [Target -> {0} \cup Priority]
    BY FreeType, NoWakesType DEF Init
  <2>. QED  BY <2>1, BoundAssumption DEF Init, TypeOK, BatchType, Runner
<1>2. TypeOK /\ [Next]_vars => TypeOK'
  <2>. SUFFICES ASSUME TypeOK, [Next]_vars PROVE TypeOK'
    OBVIOUS
  <2>. USE AskedAssumption
  <2>1. ASSUME NEW t \in Target, NEW p \in Asked, Request(t, p) PROVE TypeOK'
    BY <2>1, QueueType DEF TypeOK, Request, BatchType
  <2>2. CASE Tick
    BY <2>2, QueueType, TargetAssumption DEF TypeOK, Tick, BatchType, Priority
  <2>3. CASE FireUnhandled
    BY <2>3 DEF TypeOK, FireUnhandled
  <2>4. CASE FireBusy
    BY <2>4 DEF TypeOK, FireBusy
  <2>5. ASSUME NEW s \in Slot, Fire(s) PROVE TypeOK'
    BY <2>5, FireType, NoWakesType DEF TypeOK, Fire, BatchType
  <2>6. ASSUME NEW s \in Slot, Enter(s) PROVE TypeOK'
    BY <2>6 DEF TypeOK, Enter
  <2>7. ASSUME NEW s \in Slot, AnswerDisabled(s) PROVE TypeOK'
    <3>1. {timer} \in SUBSET {"none", "normal", "retry"}
      BY DEF TypeOK
    <3>. QED  BY <2>7, <3>1, ProceedType DEF TypeOK, AnswerDisabled, BatchType
  <2>8. ASSUME NEW s \in Slot, Refused(s) PROVE TypeOK'
    BY <2>8, RequeueType DEF TypeOK, Refused, BatchType
  <2>9. ASSUME NEW s \in Slot, Answer(s) PROVE TypeOK'
    <3>1. {timer} \in SUBSET {"none", "normal", "retry"}
      BY DEF TypeOK
    <3>. QED  BY <2>9, <3>1, ProceedType DEF TypeOK, Answer, ScheduleNext, BatchType
  <2>10. ASSUME NEW s \in Slot, Busy(s) PROVE TypeOK'
    <3>1. UNCHANGED <<runnerVars, enabled, door>>
      BY <2>10 DEF Busy
    <3>. QED  BY <2>10, <3>1, BusyType DEF TypeOK, BatchType
  <2>11. ASSUME NEW s \in Slot, Throw(s) PROVE TypeOK'
    <3>1. interval' \in BOOLEAN /\ muted' \in BOOLEAN
      BY <2>11 DEF TypeOK, Throw, ScheduleNext
    <3>. QED  BY <2>11, <3>1, RequeueType DEF TypeOK, Throw, BatchType
  <2>12. ASSUME NEW c \in BOOLEAN, Start(c) PROVE TypeOK'
    <3>1. started + 1 \in Runner
      BY <2>12, BoundAssumption DEF TypeOK, Start, Runner
    <3>. QED  BY <2>12, <3>1 DEF TypeOK, Start, Register
  <2>13. ASSUME NEW c \in BOOLEAN, UpdateConfig(c) PROVE TypeOK'
    BY <2>13 DEF TypeOK, UpdateConfig
  <2>14. CASE Stop
    BY <2>14 DEF TypeOK, Stop
  <2>15. CASE SetHeartbeatsEnabled
    BY <2>15 DEF TypeOK, SetHeartbeatsEnabled
  <2>16. CASE ShutDoor \/ OpenDoor \/ Drain
    BY <2>16 DEF TypeOK, ShutDoor, OpenDoor, Drain
  <2>17. CASE UNCHANGED vars
    BY <2>17 DEF TypeOK, vars
  <2>. QED  BY <2>1, <2>2, <2>3, <2>4, <2>5, <2>6, <2>7, <2>8, <2>9, <2>10,
                <2>11, <2>12, <2>13, <2>14, <2>15, <2>16, <2>17 DEF Next
<1>. QED  BY <1>1, <1>2, PTL DEF Spec

-----------------------------------------------------------------------------
(* The timer of the queue.                                                 *)

\* No wake waits without a timer while a runner lives.
THEOREM NoWakeWithoutTimer == Spec => []WakeHasTimer
<1>1. Init => WakeHasTimer
  BY DEF Init, WakeHasTimer
<1>2. TypeOK /\ WakeHasTimer /\ [Next]_vars => WakeHasTimer'
  <2>. SUFFICES ASSUME TypeOK, WakeHasTimer, [Next]_vars PROVE WakeHasTimer'
    OBVIOUS
  <2>. USE AskedAssumption
  <2>1. ASSUME NEW t \in Target, NEW p \in Asked, Request(t, p) PROVE WakeHasTimer'
    BY <2>1, QueueType DEF WakeHasTimer, Request
  <2>2. CASE Tick
    BY <2>2, QueueType, TargetAssumption DEF WakeHasTimer, Tick, Priority
  <2>3. CASE FireUnhandled
    BY <2>3 DEF WakeHasTimer, FireUnhandled
  <2>4. CASE FireBusy
    BY <2>4 DEF WakeHasTimer, FireBusy
  <2>5. ASSUME NEW s \in Slot, Fire(s) PROVE WakeHasTimer'
    BY <2>5 DEF WakeHasTimer, Fire
  <2>6. ASSUME NEW s \in Slot, Enter(s) PROVE WakeHasTimer'
    BY <2>6 DEF WakeHasTimer, Enter
  <2>7. ASSUME NEW s \in Slot, Answer(s) \/ AnswerDisabled(s) PROVE WakeHasTimer'
    <3>1. UNCHANGED <<handler, pending>> /\ Proceed(s, {timer})
      BY <2>7 DEF Answer, AnswerDisabled
    <3>2. CASE timer = "none"
      BY <3>1, <3>2 DEF WakeHasTimer
    <3>3. CASE timer # "none"
      <4>1. {timer} \subseteq {"normal", "retry"}
        BY <3>3 DEF TypeOK
      <4>. QED  BY <4>1, <3>1, ProceedType DEF WakeHasTimer
    <3>. QED  BY <3>2, <3>3
  <2>8. ASSUME NEW s \in Slot, Refused(s) \/ Throw(s) PROVE WakeHasTimer'
    BY <2>8, RequeueType DEF WakeHasTimer, Refused, Throw
  <2>9. ASSUME NEW s \in Slot, Busy(s) PROVE WakeHasTimer'
    BY <2>9, BusyType DEF WakeHasTimer
  <2>10. ASSUME NEW c \in BOOLEAN, Start(c) PROVE WakeHasTimer'
    BY <2>10 DEF WakeHasTimer, Start, Register
  <2>11. ASSUME NEW c \in BOOLEAN, UpdateConfig(c) PROVE WakeHasTimer'
    BY <2>11 DEF WakeHasTimer, UpdateConfig
  <2>12. CASE Stop
    BY <2>12 DEF WakeHasTimer, Stop
  <2>13. CASE SetHeartbeatsEnabled \/ ShutDoor \/ OpenDoor \/ Drain \/ UNCHANGED vars
    BY <2>13 DEF WakeHasTimer, SetHeartbeatsEnabled, ShutDoor, OpenDoor, Drain, vars
  <2>. QED  BY <2>1, <2>2, <2>3, <2>4, <2>5, <2>6, <2>7, <2>8, <2>9, <2>10,
                <2>11, <2>12, <2>13 DEF Next
<1>. QED  BY <1>1, <1>2, TypeCorrect, PTL DEF Spec

-----------------------------------------------------------------------------
(* The interval.                                                           *)

\* What a wake that is put back leaves in the queue.
LEMMA PutBackIsPending ==
  ASSUME TypeOK, NEW w \in [Target -> {0} \cup Priority], NEW t \in Target,
         w[t] # 0, pending' = Merge(pending, w)
  PROVE  pending' # NoWakes
<1>1. pending' \in [Target -> {0} \cup Priority] /\ pending'[t] >= w[t]
  BY MergeType DEF TypeOK
<1>2. pending'[t] # 0
  BY <1>1 DEF Priority
<1>. QED  BY <1>2 DEF NoWakes

\* The wake that a batch has reached is one that was asked for.
BatchIsAsked ==
  \A s \in Slot : batch[s].phase # "free" =>
    \A t \in batch[s].todo \cup {batch[s].now} : batch[s].all[t] # 0

\* A batch without an owner is free.
BatchIsOwned == \A s \in Slot : batch[s].by # 0 => batch[s].phase # "free"

BatchInv == BatchIsAsked /\ BatchIsOwned

LEMMA ProceedKeepsBatches ==
  ASSUME TypeOK, BatchInv, NEW s \in Slot, NEW timers, Proceed(s, timers),
         batch[s].phase # "free"
  PROVE  BatchInv'
<1>1. CASE batch[s].todo = {}
  <2>1. batch' = [batch EXCEPT ![s] = Free]
    BY <1>1 DEF Proceed, Leave
  <2>. QED  BY <2>1 DEF BatchInv, BatchIsAsked, BatchIsOwned, Free, TypeOK
<1>2. CASE batch[s].todo # {}
  <2>1. PICK t \in batch[s].todo :
          batch' = [batch EXCEPT ![s].phase = "admit", ![s].now = t, ![s].todo = @ \ {t}]
    BY <1>2 DEF Proceed
  <2>2. /\ batch'[s].todo \cup {batch'[s].now} \subseteq batch[s].todo
        /\ batch'[s].all = batch[s].all /\ batch'[s].phase = "admit"
    BY <2>1 DEF TypeOK
  <2>3. \A x \in Slot \ {s} : batch'[x] = batch[x]
    BY <2>1 DEF TypeOK
  <2>. QED  BY <2>2, <2>3 DEF BatchInv, BatchIsAsked, BatchIsOwned
<1>. QED  BY <1>1, <1>2

LEMMA LeaveKeepsBatches ==
  ASSUME TypeOK, BatchInv, NEW s \in Slot, NEW timers, Leave(s, timers)
  PROVE  BatchInv'
BY DEF BatchInv, BatchIsAsked, BatchIsOwned, Free, TypeOK, Leave

LEMMA BatchesAreAsked == Spec => []BatchInv
<1>1. Init => BatchInv
  BY DEF Init, BatchInv, BatchIsAsked, BatchIsOwned, Free
<1>2. TypeOK /\ BatchInv /\ [Next]_vars => BatchInv'
  <2>. SUFFICES ASSUME TypeOK, BatchInv, [Next]_vars PROVE BatchInv'
    OBVIOUS
  <2>1. ASSUME NEW s \in Slot, Fire(s) PROVE BatchInv'
    <3>1. CASE Wakes = {}
      BY <2>1, <3>1 DEF BatchInv, BatchIsAsked, BatchIsOwned, Fire
    <3>2. CASE Wakes # {}
      <4>1. PICK t \in Wakes :
              batch' = [batch EXCEPT ![s] =
                         [by |-> handler, phase |-> "admit", now |-> t,
                          todo |-> Wakes \ {t}, all |-> pending]]
        BY <2>1, <3>2 DEF Fire
      <4>2. \A x \in Slot \ {s} : batch'[x] = batch[x]
        BY <4>1 DEF TypeOK
      <4>3. batch'[s].phase = "admit" /\ batch'[s].all = pending
            /\ batch'[s].todo \cup {batch'[s].now} \subseteq Wakes
        BY <4>1 DEF TypeOK
      <4>. QED  BY <4>2, <4>3 DEF BatchInv, BatchIsAsked, BatchIsOwned, Wakes
    <3>. QED  BY <3>1, <3>2
  <2>2. ASSUME NEW s \in Slot, Enter(s) PROVE BatchInv'
    <3>1. batch' = [batch EXCEPT ![s].phase = "run"] /\ batch[s].phase = "admit"
      BY <2>2 DEF Enter
    <3>. QED  BY <3>1 DEF BatchInv, BatchIsAsked, BatchIsOwned, TypeOK
  <2>3. ASSUME NEW s \in Slot, AnswerDisabled(s) \/ Answer(s) \/ Busy(s) PROVE BatchInv'
    BY <2>3, ProceedKeepsBatches DEF AnswerDisabled, Answer, Busy
  <2>4. ASSUME NEW s \in Slot, Refused(s) \/ Throw(s) PROVE BatchInv'
    BY <2>4, LeaveKeepsBatches DEF Refused, Throw, Requeue
  <2>5. CASE UNCHANGED batch
    BY <2>5 DEF BatchInv, BatchIsAsked, BatchIsOwned
  <2>. QED  BY <2>1, <2>2, <2>3, <2>4, <2>5
            DEF Next, Request, Tick, Queue, FireUnhandled, FireBusy, Start, Register,
                UpdateConfig, Stop, SetHeartbeatsEnabled, ShutDoor, OpenDoor, Drain, vars
<1>. QED  BY <1>1, <1>2, TypeCorrect, PTL DEF Spec

LEMMA ProceedLeavesOthers ==
  ASSUME TypeOK, NEW s \in Slot, NEW timers, Proceed(s, timers)
  PROVE  \A x \in Slot \ {s} : batch'[x] = batch[x]
BY DEF TypeOK, Proceed, Leave

\* The heartbeat of a live runner with agents has its next occasion.
THEOREM IntervalKeepsGoing == Spec => []IntervalGoesOn
<1>1. Init => IntervalGoesOn
  BY DEF Init, IntervalGoesOn
<1>2. TypeOK /\ BatchInv /\ IntervalGoesOn /\ [Next]_vars => IntervalGoesOn'
  <2>. SUFFICES ASSUME TypeOK, BatchInv, IntervalGoesOn, [Next]_vars PROVE IntervalGoesOn'
    OBVIOUS
  <2>1. ASSUME NEW t \in Target, NEW p \in Priority, Queue(t, p) PROVE IntervalGoesOn'
    <3>1. Only(t, p) \in [Target -> {0} \cup Priority] /\ Only(t, p)[t] # 0
      BY OnlyType DEF Priority
    <3>2. pending' # NoWakes
      BY <2>1, <3>1, PutBackIsPending DEF Queue
    <3>. QED  BY <3>2 DEF IntervalGoesOn
  <2>2. CASE FireUnhandled \/ FireBusy
    BY <2>2 DEF IntervalGoesOn, FireUnhandled, FireBusy
  <2>3. ASSUME NEW s \in Slot, Fire(s) PROVE IntervalGoesOn'
    <3>1. CASE Wakes = {}
      <4>1. pending = NoWakes
        BY <3>1 DEF Wakes, NoWakes, TypeOK
      <4>. QED  BY <2>3, <3>1, <4>1 DEF IntervalGoesOn, Fire
    <3>2. CASE Wakes # {}
      <4>1. batch'[s].by = handler /\ handler' = handler
        BY <2>3, <3>2 DEF Fire, TypeOK
      <4>. QED  BY <4>1 DEF IntervalGoesOn
    <3>. QED  BY <3>1, <3>2
  <2>4. ASSUME NEW s \in Slot, Enter(s) PROVE IntervalGoesOn'
    <3>1. \A x \in Slot : batch'[x].by = batch[x].by
      BY <2>4 DEF Enter, TypeOK
    <3>. QED  BY <2>4, <3>1 DEF IntervalGoesOn, Enter
  <2>5. ASSUME NEW s \in Slot, AnswerDisabled(s) PROVE IntervalGoesOn'
    <3>1. \A x \in Slot \ {s} : batch'[x] = batch[x]
      BY <2>5, ProceedLeavesOthers DEF AnswerDisabled
    <3>. QED  BY <2>5, <3>1 DEF IntervalGoesOn, AnswerDisabled
  <2>6. ASSUME NEW s \in Slot, Answer(s) PROVE IntervalGoesOn'
    <3>1. \A x \in Slot \ {s} : batch'[x] = batch[x]
      BY <2>6, ProceedLeavesOthers DEF Answer
    <3>. QED  BY <2>6, <3>1 DEF IntervalGoesOn, Answer, ScheduleNext
  <2>7. ASSUME NEW s \in Slot, Refused(s) \/ Throw(s) \/ Busy(s) PROVE IntervalGoesOn'
    <3>1. /\ batch[s].now \in Target /\ batch[s].all \in [Target -> {0} \cup Priority]
          /\ batch[s].phase # "free"
      BY <2>7 DEF TypeOK, Refused, Throw, Busy
    <3>2. batch[s].all[batch[s].now] # 0
      BY <3>1 DEF BatchInv, BatchIsAsked
    <3>3. CASE Busy(s)
      <4>1. /\ Only(batch[s].now, batch[s].all[batch[s].now]) \in [Target -> {0} \cup Priority]
            /\ Only(batch[s].now, batch[s].all[batch[s].now])[batch[s].now] # 0
        BY <3>1, <3>2, OnlyType
      <4>2. pending' # NoWakes
        BY <3>1, <3>3, <4>1, PutBackIsPending DEF Busy
      <4>. QED  BY <4>2 DEF IntervalGoesOn
    <3>4. CASE Refused(s) \/ Throw(s)
      <4>1. pending' # NoWakes
        BY <3>1, <3>2, <3>4, PutBackIsPending DEF Refused, Throw, Requeue
      <4>. QED  BY <4>1 DEF IntervalGoesOn
    <3>. QED  BY <2>7, <3>3, <3>4
  <2>8. ASSUME NEW c \in BOOLEAN, Start(c) \/ UpdateConfig(c) PROVE IntervalGoesOn'
    BY <2>8 DEF IntervalGoesOn, Start, UpdateConfig
  <2>9. CASE Stop
    BY <2>9 DEF IntervalGoesOn, Stop
  <2>10. CASE SetHeartbeatsEnabled \/ ShutDoor \/ OpenDoor \/ Drain \/ UNCHANGED vars
    BY <2>10 DEF IntervalGoesOn, SetHeartbeatsEnabled, ShutDoor, OpenDoor, Drain, vars
  <2>11. CASE Tick
    BY <2>1, <2>11, TargetAssumption DEF Tick, Priority
  <2>12. ASSUME NEW t \in Target, NEW p \in Asked, Request(t, p) PROVE IntervalGoesOn'
    BY <2>1, <2>12, AskedAssumption DEF Request
  <2>. QED  BY <2>2, <2>3, <2>4, <2>5, <2>6, <2>7, <2>8, <2>9, <2>10, <2>11, <2>12 DEF Next
<1>. QED  BY <1>1, <1>2, TypeCorrect, BatchesAreAsked, PTL DEF Spec

-----------------------------------------------------------------------------
(* No wake is lost.                                                        *)

InBatch(s, t) == batch[s].phase # "free" /\ t \in batch[s].todo \cup {batch[s].now}

Kept(t) == \A p \in Carried(t) : \E q \in Carried(t)' : q >= p

LEMMA CarriedType ==
  ASSUME TypeOK, NEW t \in Target
  PROVE  /\ Carried(t) \subseteq {0} \cup Priority
         /\ \A p : p \in Carried(t) <=>
                p = pending[t] \/ \E s \in Slot : InBatch(s, t) /\ p = batch[s].all[t]
<1>1. \A s \in Slot : batch[s].all[t] \in {0} \cup Priority
  BY DEF TypeOK
<1>2. pending[t] \in {0} \cup Priority
  BY DEF TypeOK
<1>. QED  BY <1>1, <1>2 DEF Carried, InBatch

LEMMA CarriedAfter ==
  ASSUME NEW t \in Target
  PROVE  /\ pending'[t] \in Carried(t)'
         /\ \A s \in Slot : InBatch(s, t)' => batch'[s].all[t] \in Carried(t)'
BY DEF Carried, InBatch

\* A wake is kept when the pending one is, and each that a batch carries is
\* carried on or put back.
LEMMA KeptIf ==
  ASSUME TypeOK, NEW t \in Target,
         \E q \in Carried(t)' : q >= pending[t],
         \A s \in Slot : InBatch(s, t) =>
            \/ InBatch(s, t)' /\ batch'[s].all = batch[s].all
            \/ pending'[t] >= batch[s].all[t]
  PROVE  Kept(t)
<1>. SUFFICES ASSUME NEW p \in Carried(t) PROVE \E q \in Carried(t)' : q >= p
  BY DEF Kept
<1>1. p \in {0} \cup Priority
  BY CarriedType
<1>2. CASE p = pending[t]
  BY <1>2
<1>3. ASSUME NEW s \in Slot, InBatch(s, t), p = batch[s].all[t]
      PROVE \E q \in Carried(t)' : q >= p
  <2>1. CASE InBatch(s, t)' /\ batch'[s].all = batch[s].all
    <3>1. p \in Carried(t)'
      BY <1>3, <2>1, CarriedAfter
    <3>. QED  BY <3>1, <1>1 DEF Priority
  <2>2. CASE pending'[t] >= batch[s].all[t]
    BY <1>3, <2>2, CarriedAfter
  <2>. QED  BY <1>3, <2>1, <2>2
<1>. QED  BY <1>2, <1>3, CarriedType

LEMMA MergeKeeps ==
  ASSUME TypeOK, NEW w \in [Target -> {0} \cup Priority], NEW t \in Target,
         pending' = Merge(pending, w)
  PROVE  /\ \E q \in Carried(t)' : q >= pending[t]
         /\ pending'[t] >= w[t]
BY MergeType, CarriedAfter DEF TypeOK

LEMMA SameKeeps ==
  ASSUME TypeOK, NEW t \in Target, pending' = pending
  PROVE  \E q \in Carried(t)' : q >= pending[t]
<1>1. pending[t] >= pending[t]
  BY DEF TypeOK, Priority
<1>. QED  BY <1>1, CarriedAfter

\* The wakes that a batch has still to do are in it after the one it leaves.
LEMMA ProceedCarries ==
  ASSUME TypeOK, NEW s \in Slot, NEW timers, Proceed(s, timers),
         NEW t \in Target, NEW x \in Slot, InBatch(x, t), x # s \/ t # batch[s].now
  PROVE  InBatch(x, t)' /\ batch'[x].all = batch[x].all
<1>1. CASE x # s
  BY <1>1, ProceedLeavesOthers DEF InBatch
<1>2. CASE x = s
  <2>1. t \in batch[s].todo
    BY <1>2 DEF InBatch
  <2>2. PICK n \in batch[s].todo :
          batch' = [batch EXCEPT ![s].phase = "admit", ![s].now = n, ![s].todo = @ \ {n}]
    BY <2>1 DEF Proceed
  <2>3. /\ batch'[s].phase = "admit" /\ batch'[s].all = batch[s].all
        /\ t \in batch'[s].todo \cup {batch'[s].now}
    BY <2>1, <2>2 DEF TypeOK
  <2>. QED  BY <1>2, <2>3 DEF InBatch
<1>. QED  BY <1>1, <1>2

LEMMA QueueKeeps ==
  ASSUME TypeOK, NEW u \in Target, NEW p \in Priority, Queue(u, p), NEW t \in Target
  PROVE  Kept(t)
<1>1. \E q \in Carried(t)' : q >= pending[t]
  BY OnlyType, MergeKeeps DEF Queue
<1>2. \A s \in Slot : InBatch(s, t) => InBatch(s, t)' /\ batch'[s].all = batch[s].all
  BY DEF Queue, InBatch
<1>. QED  BY <1>1, <1>2, KeptIf

LEMMA RequeueKeeps ==
  ASSUME TypeOK, NEW s \in Slot, Requeue(s), NEW t \in Target
  PROVE  Kept(t)
<1>1. batch[s].all \in [Target -> {0} \cup Priority]
  BY DEF TypeOK
<1>2. (\E q \in Carried(t)' : q >= pending[t]) /\ pending'[t] >= batch[s].all[t]
  BY <1>1, MergeKeeps DEF Requeue
<1>3. \A x \in Slot \ {s} : batch'[x] = batch[x]
  BY DEF Requeue, Leave, TypeOK
<1>. QED  BY <1>2, <1>3, KeptIf DEF InBatch

LEMMA FireKeeps ==
  ASSUME TypeOK, NEW s \in Slot, Fire(s), NEW t \in Target
  PROVE  Kept(t)
<1>1. CASE Wakes = {}
  <2>1. pending' = pending /\ batch' = batch
    BY <1>1 DEF Fire, Wakes, NoWakes, TypeOK
  <2>. QED  BY <2>1, SameKeeps, KeptIf DEF InBatch
<1>2. CASE Wakes # {}
  <2>1. PICK n \in Wakes :
          batch' = [batch EXCEPT ![s] =
                     [by |-> handler, phase |-> "admit", now |-> n,
                      todo |-> Wakes \ {n}, all |-> pending]]
    BY <1>2 DEF Fire
  <2>2. \A x \in Slot \ {s} : batch'[x] = batch[x]
    BY <2>1 DEF TypeOK
  <2>3. /\ batch'[s].phase = "admit" /\ batch'[s].all = pending
        /\ batch'[s].todo \cup {batch'[s].now} = Wakes
    BY <2>1 DEF TypeOK
  <2>4. pending[t] \in Int /\ pending[t] >= pending[t]
    BY DEF TypeOK, Priority
  <2>5. \E q \in Carried(t)' : q >= pending[t]
    <3>1. CASE pending[t] = 0
      <4>1. pending'[t] = 0
        BY DEF Fire, NoWakes
      <4>. QED  BY <3>1, <4>1, <2>4, CarriedAfter
    <3>2. CASE pending[t] # 0
      <4>1. InBatch(s, t)' /\ batch'[s].all[t] = pending[t]
        BY <2>3, <3>2 DEF InBatch, Wakes
      <4>. QED  BY <4>1, <2>4, CarriedAfter
    <3>. QED  BY <3>1, <3>2
  <2>6. batch[s].phase = "free"
    BY DEF Fire, Free
  <2>. QED  BY <2>2, <2>5, <2>6, KeptIf DEF InBatch
<1>. QED  BY <1>1, <1>2

LEMMA BusyKeeps ==
  ASSUME TypeOK, NEW s \in Slot, Busy(s), NEW t \in Target
  PROVE  Kept(t)
<1>1. batch[s].now \in Target /\ batch[s].all[batch[s].now] \in {0} \cup Priority
  BY DEF TypeOK
<1>2. /\ Only(batch[s].now, batch[s].all[batch[s].now]) \in [Target -> {0} \cup Priority]
      /\ Only(batch[s].now, batch[s].all[batch[s].now])[batch[s].now] = batch[s].all[batch[s].now]
  BY <1>1, OnlyType
<1>3. \E q \in Carried(t)' : q >= pending[t]
  BY <1>2, MergeKeeps DEF Busy
<1>4. t = batch[s].now => pending'[t] >= batch[s].all[t]
  BY <1>1, <1>2, MergeKeeps DEF Busy
<1>5. \A x \in Slot : InBatch(x, t) /\ (x # s \/ t # batch[s].now) =>
        InBatch(x, t)' /\ batch'[x].all = batch[x].all
  BY ProceedCarries DEF Busy
<1>. QED  BY <1>3, <1>4, <1>5, KeptIf

\* A wake is given up only by answering it, where the "disabled" of a runner that
\* was stopped or switched off counts as an answer: the wakes still in a batch of
\* a stopped runner are not carried over to the next one.
THEOREM NoWakeIsLost == Spec => WakesAreKept
<1>. DEFINE Step == \A t \in Target :
       \/ Kept(t)
       \/ \E s \in Slot : batch[s].now = t /\ (Answer(s) \/ AnswerDisabled(s))
<1>1. TypeOK /\ [Next]_vars => Step
  <2>. SUFFICES ASSUME TypeOK, [Next]_vars, NEW t \in Target,
                       ~ \E s \in Slot : batch[s].now = t /\ (Answer(s) \/ AnswerDisabled(s))
                PROVE  Kept(t)
    OBVIOUS
  <2>1. CASE UNCHANGED <<pending, batch>>
    BY <2>1, SameKeeps, KeptIf DEF InBatch
  <2>2. ASSUME NEW u \in Target, NEW p \in Asked, Request(u, p) PROVE Kept(t)
    BY <2>2, QueueKeeps, AskedAssumption DEF Request
  <2>3. CASE Tick
    BY <2>3, QueueKeeps, TargetAssumption DEF Tick, Priority
  <2>4. ASSUME NEW s \in Slot, Fire(s) PROVE Kept(t)
    BY <2>4, FireKeeps
  <2>5. ASSUME NEW s \in Slot, Enter(s) PROVE Kept(t)
    <3>1. \A x \in Slot : InBatch(x, t) => InBatch(x, t)' /\ batch'[x].all = batch[x].all
      BY <2>5 DEF Enter, InBatch, TypeOK
    <3>. QED  BY <2>5, <3>1, SameKeeps, KeptIf DEF Enter
  <2>6. ASSUME NEW s \in Slot, Answer(s) \/ AnswerDisabled(s) PROVE Kept(t)
    <3>1. batch[s].now # t /\ pending' = pending
      BY <2>6 DEF Answer, AnswerDisabled
    <3>2. \A x \in Slot : InBatch(x, t) => InBatch(x, t)' /\ batch'[x].all = batch[x].all
      BY <2>6, <3>1, ProceedCarries DEF Answer, AnswerDisabled
    <3>. QED  BY <3>1, <3>2, SameKeeps, KeptIf
  <2>7. ASSUME NEW s \in Slot, Refused(s) \/ Throw(s) PROVE Kept(t)
    BY <2>7, RequeueKeeps DEF Refused, Throw
  <2>8. ASSUME NEW s \in Slot, Busy(s) PROVE Kept(t)
    BY <2>8, BusyKeeps
  <2>. QED  BY <2>1, <2>2, <2>3, <2>4, <2>5, <2>6, <2>7, <2>8
            DEF Next, FireUnhandled, FireBusy, Start, Register,
                UpdateConfig, Stop, SetHeartbeatsEnabled, ShutDoor, OpenDoor, Drain, vars
<1>2. TypeOK /\ [Next]_vars => [Step]_vars
  BY <1>1
<1>3. [Step]_vars <=> [\A t \in Target :
         \/ \A p \in Carried(t) : \E q \in Carried(t)' : q >= p
         \/ \E s \in Slot : batch[s].now = t /\ (Answer(s) \/ AnswerDisabled(s))]_vars
  BY DEF Kept
<1>. QED  BY <1>2, <1>3, TypeCorrect, PTL DEF Spec, WakesAreKept

=============================================================================
