---------------------------- MODULE HeartbeatWake ----------------------------
(***************************************************************************)
(* Heartbeat wakes: the queue of wake requests of                          *)
(* src/infra/heartbeat-wake.ts and the runner of                           *)
(* src/infra/heartbeat-runner.ts, whose interval timer is one of the       *)
(* sources of wakes and whose handler answers them.                        *)
(*                                                                         *)
(* The queue's state belongs to the process; a runner lives from one       *)
(* in-process restart to the next, and a batch it has taken can outlive    *)
(* it.  Times are left out: where the code compares due times both         *)
(* outcomes are possible, and a timer may fire at any moment.              *)
(***************************************************************************)
EXTENDS Integers, FiniteSets

CONSTANTS
  Target,            \* keys of pendingWakes: agent and session of a wake
  Everyone,          \* the key "::" of a wake that names no agent
  Asked,             \* priorities the callers ask for
  MaxBatch,          \* bound: batches in flight at one time
  MaxRunner          \* bound: runners that are started

ASSUME TargetAssumption == Everyone \in Target
ASSUME BoundAssumption == MaxBatch \in Nat /\ MaxRunner \in Nat

\* REASON_PRIORITY without RETRY, which no caller in this code asks for.
Priority == {1, 2, 3}

ASSUME AskedAssumption == Asked \subseteq Priority

VARIABLES
  pending,           \* pendingWakes: [Target -> priority, 0 for no wake]
  timer,             \* kind of the armed wake timer, or "none"
  scheduled,         \* a timer fired while a batch was running
  running,           \* a batch is running, as far as the queue knows
  batch,             \* [Slot -> the loop over one pendingBatch]
  handler,           \* the live runner, whose handler is registered, or 0
  started,           \* runners started so far
  agents,            \* the live runner has agents with an interval
  interval,          \* the live runner's own timer is armed
  enabled,           \* heartbeatsEnabled
  door,              \* what independent root admission does with a wake
  muted              \* a wake was swallowed while disabled and unarmed

queueVars == <<pending, timer, scheduled, running, batch>>
runnerVars == <<handler, started, agents, interval, muted>>
vars == <<queueVars, runnerVars, enabled, door>>

NoWakes == [t \in Target |-> 0]
Runner == 1 .. MaxRunner
Slot == 1 .. MaxBatch

\* by: the runner whose handler was taken; now: the wake it has reached;
\* todo: the wakes after it; all: pendingBatch with its priorities.
Free == [by |-> 0, phase |-> "free", now |-> Everyone, todo |-> {}, all |-> NoWakes]

TypeOK ==
  /\ pending \in [Target -> {0} \cup Priority]
  /\ timer \in {"none", "normal", "retry"}
  /\ scheduled \in BOOLEAN
  /\ running \in BOOLEAN
  /\ batch \in [Slot -> [by : {0} \cup Runner, phase : {"free", "admit", "run"},
                         now : Target, todo : SUBSET Target,
                         all : [Target -> {0} \cup Priority]]]
  /\ handler \in {0} \cup Runner
  /\ started \in {0} \cup Runner
  /\ agents \in BOOLEAN
  /\ interval \in BOOLEAN
  /\ enabled \in BOOLEAN
  /\ door \in {"open", "shut", "drain"}
  /\ muted \in BOOLEAN

Init ==
  /\ pending = NoWakes
  /\ timer = "none"
  /\ scheduled = FALSE
  /\ running = FALSE
  /\ batch = [s \in Slot |-> Free]
  /\ handler = 0
  /\ started = 0
  /\ agents = FALSE
  /\ interval = FALSE
  /\ enabled = TRUE
  /\ door = "open"
  /\ muted = FALSE

-----------------------------------------------------------------------------
(* The queue.                                                              *)

Higher(a, b) == IF a >= b THEN a ELSE b

\* The wakes of b joined to those of a: a target keeps the higher priority.
Bug_Merge(a, b) == [t \in Target |-> IF b[t] = 0 THEN a[t] ELSE b[t]]
Merge(a, b) == [t \in Target |-> Higher(a[t], b[t])]

\* One wake of priority p for t, as the queue holds it.
Only(t, p) == [NoWakes EXCEPT ![t] = p]

\* The timers that can be armed once a wake is scheduled while tm is armed: a
\* retry stays, a normal one is kept or preempted as the due times decide.
Armed(tm, kind) ==
  CASE tm = "none"   -> {kind}
    [] tm = "retry"  -> {"retry"}
    [] tm = "normal" -> {"normal", kind}

\* requestHeartbeat.
Queue(t, p) ==
  /\ pending' = Merge(pending, Only(t, p))
  /\ timer' \in Armed(timer, "normal")
  /\ UNCHANGED <<scheduled, running, batch>>

Request(t, p) ==
  /\ Queue(t, p)
  /\ UNCHANGED <<runnerVars, enabled, door>>

\* The runner's timer becomes due and asks for everyone's heartbeat.
Tick ==
  /\ interval
  /\ interval' = FALSE
  /\ Queue(Everyone, 1)
  /\ UNCHANGED <<handler, started, agents, muted, enabled, door>>

\* The wake timer fires: without a handler the wakes stay pending, beside a
\* running batch the timer is armed again, otherwise the batch is taken.
FireUnhandled ==
  /\ timer # "none"
  /\ handler = 0
  /\ timer' = "none"
  /\ scheduled' = FALSE
  /\ UNCHANGED <<pending, running, batch, runnerVars, enabled, door>>

FireBusy ==
  /\ timer # "none"
  /\ handler # 0
  /\ running
  /\ scheduled' = TRUE
  /\ UNCHANGED <<pending, timer, running, batch, runnerVars, enabled, door>>

Wakes == {t \in Target : pending[t] # 0}

Fire(s) ==
  /\ timer # "none"
  /\ handler # 0
  /\ ~running
  /\ batch[s] = Free
  /\ \A x \in 1 .. s - 1 : batch[x] # Free
  /\ timer' = "none"
  /\ scheduled' = FALSE
  /\ pending' = NoWakes
  /\ IF Wakes = {} THEN UNCHANGED <<running, batch>>
     ELSE /\ running' = TRUE
          /\ \E t \in Wakes :
               batch' = [batch EXCEPT ![s] =
                 [by |-> handler, phase |-> "admit", now |-> t,
                  todo |-> Wakes \ {t}, all |-> pending]]
  /\ UNCHANGED <<runnerVars, enabled, door>>

\* The finally of a batch: it lets the next one run, whoever runs now, and
\* arms the timer for what came in meanwhile.
Leave(s, timers) ==
  /\ batch' = [batch EXCEPT ![s] = Free]
  /\ running' = FALSE
  /\ timer' \in IF pending' # NoWakes \/ scheduled
                THEN UNION {Armed(tm, "normal") : tm \in timers}
                ELSE timers
  /\ UNCHANGED scheduled

\* After a wake is answered: the next one of the batch, or its end.
Proceed(s, timers) ==
  IF batch[s].todo = {} THEN Leave(s, timers)
  ELSE /\ \E t \in batch[s].todo :
            batch' = [batch EXCEPT ![s].phase = "admit", ![s].now = t,
                                   ![s].todo = @ \ {t}]
       /\ timer' \in timers
       /\ UNCHANGED <<scheduled, running>>

\* The catch of a batch: all its wakes are pending again, even those that
\* were answered before, and a retry is scheduled.
Requeue(s) ==
  /\ pending' = Merge(pending, batch[s].all)
  /\ Leave(s, Armed(timer, "retry"))

-----------------------------------------------------------------------------
(* The handler of the runner that took the batch.                          *)

\* scheduleNext of runner r, which does nothing once it is stopped.
ScheduleNext(r) ==
  /\ interval' = IF r = handler THEN agents ELSE interval
  /\ muted' = (muted /\ ~interval')

\* The door opened: the handler goes to work on the wake, an agent without an
\* interval only for a wake that names it.
Enter(s) ==
  /\ batch[s].phase = "admit"
  /\ door = "open"
  /\ batch[s].by = handler
  /\ enabled
  /\ agents \/ batch[s].now # Everyone
  /\ batch' = [batch EXCEPT ![s].phase = "run"]
  /\ UNCHANGED <<pending, timer, scheduled, running, runnerVars, enabled, door>>

\* The handler answers "disabled" at once and leaves its interval alone.
AnswerDisabled(s) ==
  /\ batch[s].phase = "admit"
  /\ door = "open"
  /\ batch[s].by # handler \/ ~enabled \/ ~agents
  /\ UNCHANGED <<pending, handler, started, agents, interval, enabled, door>>
  /\ Proceed(s, {timer})
  /\ muted' = (muted \/ (batch[s].by = handler /\ ~interval))

\* Admission throws while the gateway drains for a restart.
Refused(s) ==
  /\ batch[s].phase = "admit"
  /\ door = "drain"
  /\ Requeue(s)
  /\ UNCHANGED <<runnerVars, enabled, door>>

\* The heartbeat ran, failed or was skipped for good.
Answer(s) ==
  /\ batch[s].phase = "run"
  /\ UNCHANGED <<pending, handler, started, agents, enabled, door>>
  /\ ScheduleNext(batch[s].by)
  /\ Proceed(s, {timer})

\* The target is busy: the wake is pending again with its own priority, and
\* the runner leaves the retry to the queue.
Bug_Busy(s) ==
  /\ batch[s].phase = "run"
  /\ UNCHANGED <<pending, runnerVars, enabled, door>>
  /\ Proceed(s, Armed(timer, "retry"))

Bug_BusyEscalates(s) ==
  /\ batch[s].phase = "run"
  /\ pending' = Merge(pending, Only(batch[s].now, 1 + batch[s].all[batch[s].now]))
  /\ Proceed(s, Armed(timer, "retry"))
  /\ UNCHANGED <<runnerVars, enabled, door>>

Busy(s) ==
  /\ batch[s].phase = "run"
  /\ pending' = Merge(pending, Only(batch[s].now, batch[s].all[batch[s].now]))
  /\ Proceed(s, Armed(timer, "retry"))
  /\ UNCHANGED <<runnerVars, enabled, door>>

\* The handler throws, from inside its try or before it.
Throw(s) ==
  /\ batch[s].phase = "run"
  /\ ScheduleNext(batch[s].by) \/ UNCHANGED <<interval, muted>>
  /\ Requeue(s)
  /\ UNCHANGED <<handler, started, agents, enabled, door>>

-----------------------------------------------------------------------------
(* The life of a runner, the door and the switch.                          *)

\* What waited at the door was let in or turned away before anything else.
NobodyAtDoor == \A s \in Slot : batch[s].phase # "admit"

\* setHeartbeatWakeHandler: the flags and timer of the life before are void.
Bug_RegisterUnarmed ==
  /\ timer' = "none"
  /\ scheduled' = FALSE
  /\ running' = FALSE
  /\ UNCHANGED <<pending, batch>>

Bug_RegisterRunning ==
  /\ timer' = IF pending # NoWakes THEN "normal" ELSE "none"
  /\ scheduled' = FALSE
  /\ UNCHANGED <<pending, running, batch>>

Register ==
  /\ timer' = IF pending # NoWakes THEN "normal" ELSE "none"
  /\ scheduled' = FALSE
  /\ running' = FALSE
  /\ UNCHANGED <<pending, batch>>

\* startHeartbeatRunner with its first updateConfig, in a server that has just
\* come up and whose admission is reset.
Start(configured) ==
  /\ handler = 0
  /\ started < MaxRunner
  /\ NobodyAtDoor
  /\ Register
  /\ started' = started + 1
  /\ handler' = started + 1
  /\ agents' = configured
  /\ interval' = configured
  /\ muted' = FALSE
  /\ door' = "open"
  /\ UNCHANGED enabled

\* cleanup, when the gateway closes after its restart drain.
Stop ==
  /\ handler # 0
  /\ door = "drain"
  /\ handler' = 0
  /\ interval' = FALSE
  /\ muted' = FALSE
  /\ UNCHANGED <<queueVars, started, agents, enabled, door>>

UpdateConfig(configured) ==
  /\ handler # 0
  /\ agents' = configured
  /\ interval' = configured
  /\ muted' = (muted /\ ~configured)
  /\ UNCHANGED <<queueVars, handler, started, enabled, door>>

\* set-heartbeats.
SetHeartbeatsEnabled ==
  /\ enabled' = ~enabled
  /\ UNCHANGED <<queueVars, runnerVars, door>>

\* A suspension or a restart-signal fence closes the door, and opens it.
ShutDoor ==
  /\ handler # 0
  /\ door = "open"
  /\ NobodyAtDoor
  /\ door' = "shut"
  /\ UNCHANGED <<queueVars, runnerVars, enabled>>

OpenDoor ==
  /\ door = "shut"
  /\ door' = "open"
  /\ UNCHANGED <<queueVars, runnerVars, enabled>>

Drain ==
  /\ handler # 0
  /\ door # "drain"
  /\ door' = "drain"
  /\ UNCHANGED <<queueVars, runnerVars, enabled>>

Next ==
  \/ \E t \in Target, p \in Asked : Request(t, p)
  \/ Tick
  \/ FireUnhandled
  \/ FireBusy
  \/ \E s \in Slot :
       \/ Fire(s)
       \/ Enter(s)
       \/ AnswerDisabled(s)
       \/ Refused(s)
       \/ Answer(s)
       \/ Busy(s)
       \/ Throw(s)
  \/ \E configured \in BOOLEAN : Start(configured) \/ UpdateConfig(configured)
  \/ Stop
  \/ SetHeartbeatsEnabled
  \/ ShutDoor
  \/ OpenDoor
  \/ Drain

Spec == Init /\ [][Next]_vars

\* Timers fire, a suspended door opens again, and a handler of the live runner
\* returns; a batch of a runner that was stopped may hang for ever.
Fairness ==
  /\ WF_vars(FireUnhandled \/ FireBusy \/ \E s \in Slot : Fire(s))
  /\ WF_vars(OpenDoor)
  /\ \A s \in Slot :
       /\ WF_vars(Enter(s) \/ AnswerDisabled(s) \/ Refused(s))
       /\ WF_vars(batch[s].by = handler /\ (Answer(s) \/ Busy(s) \/ Throw(s)))

LiveSpec == Spec /\ Fairness

-----------------------------------------------------------------------------
(* Properties.                                                             *)

\* The priority with which t will be woken: pending, or in a batch.
Carried(t) ==
  {pending[t]} \cup {batch[s].all[t] : s \in {x \in Slot :
                       batch[x].phase # "free" /\ t \in batch[x].todo \cup {batch[x].now}}}

\* A wake is given up only by answering it: coalescing, taking, a busy target,
\* a throw, a restart between any two of them keep it and its priority.  The
\* "disabled" of a runner that was stopped counts as an answer here, although
\* the runner that came after it never sees the rest of that batch.
WakesAreKept ==
  [][\A t \in Target :
       \/ \A p \in Carried(t) : \E q \in Carried(t)' : q >= p
       \/ \E s \in Slot : batch[s].now = t /\ (Answer(s) \/ AnswerDisabled(s))]_vars

\* While a runner lives no wake waits without a timer, whatever the handlers
\* of this and of earlier runners and the restarts did to the shared flags.
WakeHasTimer == handler # 0 /\ pending # NoWakes => timer # "none"

\* The heartbeat of a live runner with agents has its next occasion: its timer,
\* a wake, or a batch of its own.  A wake it swallowed while it was switched
\* off is the exception.
IntervalGoesOn ==
  handler # 0 /\ agents /\ ~muted =>
    \/ interval
    \/ pending # NoWakes
    \/ \E s \in Slot : batch[s].by = handler

\* The handler of the live runner is called for t: it is at work on it, or the
\* door is open and it is about to go to work or to answer "disabled".
Called(t) ==
  \E s \in Slot : /\ batch[s].by = handler /\ batch[s].now = t
                  /\ batch[s].phase = "run" \/ (batch[s].phase = "admit" /\ door = "open")

\* The handler of a runner that stays is called for every wake that is pending,
\* through closed doors, busy targets before it and its own retries, and even
\* while a batch of the runner before it hangs: unless handlers throw again and
\* again, which puts the whole batch back, or the gateway drains for a restart,
\* which refuses every wake.
WakeIsHandled ==
  \/ []<><<\E s \in Slot : Throw(s)>>_vars
  \/ \A t \in Target :
       pending[t] # 0 /\ handler # 0 ~> Called(t) \/ handler = 0 \/ door = "drain"

\* What docs/cli/system.md says of `system heartbeat enable`: heartbeats are
\* turned back on.
EnableResumes ==
  handler # 0 /\ agents /\ enabled =>
    \/ interval
    \/ pending # NoWakes
    \/ \E s \in Slot : batch[s].by = handler

=============================================================================
