---------------------------- MODULE SessionProofs ----------------------------
(***************************************************************************)
(* Theorems about SessionAdmission, for any turns, mutations, sweeps and   *)
(* identities: its types, that it implements SessionExclusion, that        *)
(* interrupts reach the owners, and what may take the session of a turn.   *)
(***************************************************************************)
EXTENDS SessionAdmission, TLAPS

USE DEF lockVars, interruptVars, storeVars, Goto

-----------------------------------------------------------------------------
(* Sequences used as queues.                                               *)

LEMMA AppendType ==
  ASSUME NEW S, NEW q \in Seq(S), NEW x \in S
  PROVE  /\ Append(q, x) \in Seq(S)
         /\ q # <<>> => Append(q, x) # <<>> /\ Head(Append(q, x)) = Head(q)
OBVIOUS

LEMMA TailType ==
  ASSUME NEW S, NEW q \in Seq(S), q # <<>>
  PROVE  Tail(q) \in Seq(S)
OBVIOUS

-----------------------------------------------------------------------------
(* Locks.                                                                  *)

\* Who joins a queue takes nobody's lock away.
LEMMA JoinsKeeps ==
  ASSUME NEW S, NEW queues \in [Identity -> Seq(S)], NEW x \in S,
         NEW q \in Joins(queues, x)
  PROVE  /\ q \in [Identity -> Seq(S)]
         /\ \A y : \A i \in Identity : Holds(queues, y, i) => Holds(q, y, i)
<1>1. PICK i : q = [queues EXCEPT ![i] = Append(@, x)]
  BY DEF Joins
<1>2. CASE i \in Identity
  <2>1. \A j \in Identity : q[j] = IF j = i THEN Append(queues[j], x) ELSE queues[j]
    BY <1>1, <1>2
  <2>2. q = [j \in Identity |-> IF j = i THEN Append(queues[j], x) ELSE queues[j]]
    BY <1>1, <1>2
  <2>3. \A j \in Identity : Append(queues[j], x) \in Seq(S)
    BY AppendType
  <2>4. q \in [Identity -> Seq(S)]
    BY <2>2, <2>3
  <2>5. ASSUME NEW y, NEW j \in Identity, Holds(queues, y, j) PROVE Holds(q, y, j)
    <3>1. queues[j] \in Seq(S) /\ queues[j] # <<>> /\ Head(queues[j]) = y
      BY <2>5 DEF Holds
    <3>2. Append(queues[j], x) # <<>> /\ Head(Append(queues[j], x)) = y
      BY <3>1, AppendType
    <3> QED BY <2>1, <3>1, <3>2 DEF Holds
  <2> QED BY <2>4, <2>5
<1>3. CASE i \notin Identity
  <2>1. q = queues
    BY <1>1, <1>3
  <2> QED BY <2>1
<1> QED BY <1>2, <1>3

\* Who unlocks gives up only locks of its own.
LEMMA UnlockedKeeps ==
  ASSUME NEW S, NEW queues \in [Identity -> Seq(S)], NEW x
  PROVE  /\ Unlocked(queues, x) \in [Identity -> Seq(S)]
         /\ \A y : \A i \in Identity : y # x /\ Holds(queues, y, i) => Holds(Unlocked(queues, x), y, i)
<1>1. \A i \in Identity : Holds(queues, x, i) => Tail(queues[i]) \in Seq(S)
  BY TailType DEF Holds
<1> QED BY <1>1 DEF Unlocked, Holds

\* Two who hold all their locks in the same queues name no common identity.
LEMMA HoldersAreApart ==
  ASSUME NEW queues, NEW x \in Actor, NEW y \in Actor, x # y,
         HoldsAll(queues, x), HoldsAll(queues, y)
  PROVE  ~Overlap(x, y)
BY DEF HoldsAll, Holds, Overlap

LEMMA IdsType == \A x \in Actor : IdsOf[x] \subseteq Identity
BY IdsAssumption

-----------------------------------------------------------------------------
(* Types.                                                                  *)

PhaseOK ==
  /\ phase \in [Actor \cup Sweep -> TurnPhase \cup MutationPhase \cup {"removing"}]
  /\ \A t \in Turn : phase[t] \in TurnPhase
  /\ \A m \in Mutation : phase[m] \in MutationPhase

\* One actor going somewhere keeps the others' phases.
LEMMA GotoType ==
  ASSUME PhaseOK, NEW a \in Actor \cup Sweep, NEW p, phase' = [phase EXCEPT ![a] = p],
         \/ a \in Turn /\ p \in TurnPhase
         \/ a \in Mutation /\ p \in MutationPhase
         \/ a \in Sweep /\ p \in {"queueing", "removing", "done"}
  PROVE  PhaseOK'
BY ActorAssumption DEF PhaseOK, MutationPhase, Actor

TurnMoves(t) == Begin(t) \/ TurnStep(t) \/ Leave(t) \/ Adopt(t) \/ Cancel(t)
MutationMoves(m) == Ask(m) \/ MutationStep(m)
SweepMoves(s) == QueueSweep(s) \/ PlanSweep(s) \/ RemovePlanned(s) \/ PruneOnWrite(s)

LEMMA NextCases ==
  ASSUME [Next]_vars
  PROVE  \/ \E t \in Turn : TurnMoves(t)
         \/ \E m \in Mutation : MutationMoves(m)
         \/ \E s \in Sweep : SweepMoves(s)
         \/ \E a \in Actor : Abort(a)
         \/ TurnDoor
         \/ UNCHANGED vars
BY DEF Next, TurnMoves, MutationMoves, SweepMoves, Sweep

LEMMA TurnPhases ==
  ASSUME PhaseOK, NEW t \in Turn, TurnMoves(t)
  PROVE  PhaseOK'
<1>1. \/ UNCHANGED phase
      \/ \E p \in TurnPhase : phase' = [phase EXCEPT ![t] = p]
  BY DEF TurnMoves, TurnStep, Begin, Round, Wake, JoinLock, Enter, Assert, Register, Cross,
         AbortQueued, SkipAborted, Release, Leave, Adopt, Cancel, TurnPhase
<1>2. CASE UNCHANGED phase
  BY <1>2 DEF PhaseOK
<1>3. CASE \E p \in TurnPhase : phase' = [phase EXCEPT ![t] = p]
  BY <1>3, GotoType DEF Actor
<1> QED BY <1>1, <1>2, <1>3

LEMMA MutationPhases ==
  ASSUME PhaseOK, NEW m \in Mutation, MutationMoves(m)
  PROVE  PhaseOK'
<1>1. \/ UNCHANGED phase
      \/ \E p \in MutationPhase : phase' = [phase EXCEPT ![m] = p]
  BY DEF MutationMoves, MutationStep, Ask, JoinMutationLock, JoinLock, Activate, Revalidate, Prepare,
         Drained, Run, Commit, Close, MutationPhase, ActivePhase
<1>2. CASE UNCHANGED phase
  BY <1>2 DEF PhaseOK
<1>3. CASE \E p \in MutationPhase : phase' = [phase EXCEPT ![m] = p]
  BY <1>3, GotoType DEF Actor
<1> QED BY <1>1, <1>2, <1>3

LEMMA SweepPhases ==
  ASSUME PhaseOK, NEW s \in Sweep, SweepMoves(s)
  PROVE  PhaseOK'
<1>1. \E p \in {"queueing", "removing", "done"} : phase' = [phase EXCEPT ![s] = p]
  BY DEF SweepMoves, QueueSweep, PlanSweep, RemovePlanned, PruneOnWrite
<1> QED BY <1>1, GotoType

QueuesOK ==
  /\ lifecycleQueues \in [Identity -> Seq(Actor)]
  /\ mutationQueues \in [Identity -> Seq(Mutation)]
  /\ lane \in Seq(Actor \cup Sweep)

LEMMA QueueSteps ==
  ASSUME QueuesOK, [Next]_vars
  PROVE  QueuesOK'
<1>1. \A a \in Actor : /\ Unlocked(lifecycleQueues, a) \in [Identity -> Seq(Actor)]
                       /\ Joins(lifecycleQueues, a) \subseteq [Identity -> Seq(Actor)]
  BY UnlockedKeeps, JoinsKeeps DEF QueuesOK
<1>2. \A m \in Mutation : /\ Unlocked(mutationQueues, m) \in [Identity -> Seq(Mutation)]
                          /\ Joins(mutationQueues, m) \subseteq [Identity -> Seq(Mutation)]
  BY UnlockedKeeps, JoinsKeeps DEF QueuesOK
<1>3. /\ \A x \in Actor \cup Sweep : Append(lane, x) \in Seq(Actor \cup Sweep)
      /\ \A x : AtHead(x) => Tail(lane) \in Seq(Actor \cup Sweep)
  BY AppendType, TailType DEF QueuesOK, AtHead
<1>4. ASSUME NEW t \in Turn, TurnMoves(t) PROVE QueuesOK'
  <2>1. t \in Actor BY DEF Actor
  <2>2. lane' = lane \/ lane' = Append(lane, t) \/ (AtHead(t) /\ lane' = Tail(lane))
    BY <1>4 DEF TurnMoves, TurnStep, Begin, Round, Wake, JoinLock, Enter, Assert, Register, Cross,
         AbortQueued, SkipAborted, Release, Leave, Adopt, Cancel
  <2>3. /\ UNCHANGED mutationQueues
        /\ \/ UNCHANGED lifecycleQueues
           \/ lifecycleQueues' = Unlocked(lifecycleQueues, t)
           \/ lifecycleQueues' \in Joins(lifecycleQueues, t)
    BY <1>4 DEF TurnMoves, TurnStep, Begin, Round, Wake, JoinLock, Enter, Assert, Register, Cross,
         AbortQueued, SkipAborted, Release, Leave, Adopt, Cancel, Unlock
  <2> QED BY <1>1, <1>3, <2>1, <2>2, <2>3 DEF QueuesOK
<1>5. ASSUME NEW m \in Mutation, MutationMoves(m) PROVE QueuesOK'
  <2>1. m \in Actor BY DEF Actor
  <2>2. lane' = lane \/ lane' = Append(lane, m) \/ (AtHead(m) /\ lane' = Tail(lane))
    BY <1>5 DEF MutationMoves, MutationStep, Ask, JoinMutationLock, JoinLock, Activate, Revalidate, Prepare,
         Drained, Run, Commit, Close
  <2>3. /\ \/ UNCHANGED mutationQueues
           \/ mutationQueues' = Unlocked(mutationQueues, m)
           \/ mutationQueues' \in Joins(mutationQueues, m)
        /\ \/ UNCHANGED lifecycleQueues
           \/ lifecycleQueues' = Unlocked(lifecycleQueues, m)
           \/ lifecycleQueues' \in Joins(lifecycleQueues, m)
    BY <1>5 DEF MutationMoves, MutationStep, Ask, JoinMutationLock, JoinLock, Activate, Revalidate, Prepare,
         Drained, Run, Commit, Close, Unlock
  <2> QED BY <1>1, <1>2, <1>3, <2>1, <2>2, <2>3 DEF QueuesOK
<1>6. ASSUME NEW s \in Sweep, SweepMoves(s) PROVE QueuesOK'
  <2>1. /\ UNCHANGED lockVars
        /\ lane' = lane \/ lane' = Append(lane, s) \/ (AtHead(s) /\ lane' = Tail(lane))
    BY <1>6 DEF SweepMoves, QueueSweep, PlanSweep, RemovePlanned, PruneOnWrite
  <2> QED BY <1>3, <2>1 DEF QueuesOK
<1>7. ASSUME (\E a \in Actor : Abort(a)) \/ TurnDoor \/ UNCHANGED vars PROVE QueuesOK'
  BY <1>7 DEF Abort, TurnDoor, vars, QueuesOK
<1> QED BY <1>4, <1>5, <1>6, <1>7, NextCases

AdmissionsOK ==
  /\ waits \in [Turn -> SUBSET Identity]
  /\ \A t \in Turn : waits[t] \subseteq IdsOf[t]
  /\ activeAdmissions \subseteq Turn
  /\ hand \in [Turn -> {"none", "open", "adopted", "owned"}]

LEMMA AdmissionSteps ==
  ASSUME AdmissionsOK, [Next]_vars
  PROVE  AdmissionsOK'
<1>1. ASSUME NEW t \in Turn, TurnMoves(t) PROVE AdmissionsOK'
  <2>1. BusyIdentities(t) \subseteq IdsOf[t] /\ IdsOf[t] \subseteq Identity
    BY IdsType DEF BusyIdentities, Actor
  <2>2. \/ UNCHANGED waits
        \/ \E w \in SUBSET IdsOf[t] : waits' = [waits EXCEPT ![t] = w]
    BY <1>1, <2>1 DEF TurnMoves, TurnStep, Begin, Round, Wake, JoinLock, Enter, Assert, Register,
         Cross, AbortQueued, SkipAborted, Release, Leave, Adopt, Cancel
  <2>3. \/ UNCHANGED activeAdmissions
        \/ activeAdmissions' = activeAdmissions \cup {t}
        \/ activeAdmissions' = activeAdmissions \ {t}
    BY <1>1 DEF TurnMoves, TurnStep, Begin, Round, Wake, JoinLock, Enter, Assert, Register,
         Cross, AbortQueued, SkipAborted, Release, Leave, Adopt, Cancel
  <2>4. \/ UNCHANGED hand
        \/ \E h \in {"none", "open", "adopted", "owned", hand[t]} : hand' = [hand EXCEPT ![t] = h]
    BY <1>1 DEF TurnMoves, TurnStep, Begin, Round, Wake, JoinLock, Enter, Assert, Register,
         Cross, AbortQueued, SkipAborted, Release, Leave, Adopt, Cancel
  <2>5. hand' \in [Turn -> {"none", "open", "adopted", "owned"}]
    BY <2>4 DEF AdmissionsOK
  <2>6. waits' \in [Turn -> SUBSET Identity] /\ \A u \in Turn : waits'[u] \subseteq IdsOf[u]
    BY <2>1, <2>2 DEF AdmissionsOK
  <2> QED BY <2>3, <2>5, <2>6 DEF AdmissionsOK
<1>2. ASSUME NEW m \in Mutation, MutationMoves(m) PROVE AdmissionsOK'
  <2>1. /\ UNCHANGED <<activeAdmissions, hand>>
        /\ UNCHANGED waits \/ waits' = [t \in Turn |-> waits[t] \ IdsOf[m]]
    BY <1>2 DEF MutationMoves, MutationStep, Ask, JoinMutationLock, JoinLock, Activate, Revalidate, Prepare,
         Drained, Run, Commit, Close
  <2> QED BY <2>1 DEF AdmissionsOK
<1>3. ASSUME NEW s \in Sweep, SweepMoves(s) PROVE AdmissionsOK'
  BY <1>3 DEF SweepMoves, QueueSweep, PlanSweep, RemovePlanned, PruneOnWrite, AdmissionsOK
<1>4. ASSUME (\E a \in Actor : Abort(a)) \/ TurnDoor \/ UNCHANGED vars PROVE AdmissionsOK'
  BY <1>4 DEF Abort, TurnDoor, vars, AdmissionsOK
<1> QED BY <1>1, <1>2, <1>3, <1>4, NextCases

InterruptsOK ==
  /\ interrupted \subseteq Turn
  /\ told \subseteq interrupted
  /\ drain \in [Mutation -> SUBSET Turn]
  /\ drained \subseteq Mutation

LEMMA InterruptSteps ==
  ASSUME AdmissionsOK, InterruptsOK, [Next]_vars
  PROVE  InterruptsOK'
<1>1. ASSUME NEW t \in Turn, TurnMoves(t) PROVE InterruptsOK'
  <2>1. UNCHANGED <<interrupted, drain, drained>> /\ (UNCHANGED told \/ told' = told \cup ({t} \cap interrupted))
    BY <1>1 DEF TurnMoves, TurnStep, Begin, Round, Wake, JoinLock, Enter, Assert, Register,
         Cross, AbortQueued, SkipAborted, Release, Leave, Adopt, Cancel
  <2> QED BY <2>1 DEF InterruptsOK
<1>2. ASSUME NEW m \in Mutation, MutationMoves(m) PROVE InterruptsOK'
  <2>1. CASE Prepare(m)
    <3>1. Foreign(m) \subseteq Turn
      BY DEF Foreign, AdmissionsOK
    <3> QED BY <2>1, <3>1 DEF Prepare, InterruptsOK
  <2>2. CASE Drained(m)
    BY <2>2 DEF Drained, InterruptsOK
  <2>3. CASE ~Prepare(m) /\ ~Drained(m)
    <3>1. UNCHANGED interruptVars
      BY <1>2, <2>3 DEF MutationMoves, MutationStep, Ask, JoinMutationLock, JoinLock, Activate,
           Revalidate, Run, Commit, Close
    <3> QED BY <3>1 DEF InterruptsOK
  <2> QED BY <2>1, <2>2, <2>3
<1>3. ASSUME NEW s \in Sweep, SweepMoves(s) PROVE InterruptsOK'
  BY <1>3 DEF SweepMoves, QueueSweep, PlanSweep, RemovePlanned, PruneOnWrite, InterruptsOK
<1>4. ASSUME (\E a \in Actor : Abort(a)) \/ TurnDoor \/ UNCHANGED vars PROVE InterruptsOK'
  BY <1>4 DEF Abort, TurnDoor, vars, InterruptsOK
<1> QED BY <1>1, <1>2, <1>3, <1>4, NextCases

StoreOK ==
  /\ stored \subseteq Identity
  /\ victims \in [Sweep -> SUBSET Identity]
  /\ evicted \subseteq Identity
  /\ aborted \subseteq Actor
  /\ closed \in BOOLEAN

LEMMA StoreSteps ==
  ASSUME StoreOK, [Next]_vars
  PROVE  StoreOK'
<1>1. ASSUME NEW t \in Turn, TurnMoves(t) PROVE StoreOK'
  <2>1. /\ UNCHANGED <<stored, evicted, aborted, closed>>
        /\ UNCHANGED victims \/ victims' = [s \in Sweep |-> victims[s] \ IdsOf[t]]
    BY <1>1 DEF TurnMoves, TurnStep, Begin, Round, Wake, JoinLock, Enter, Assert, Register,
         Cross, AbortQueued, SkipAborted, Release, Leave, Adopt, Cancel
  <2> QED BY <2>1 DEF StoreOK
<1>2. ASSUME NEW m \in Mutation, MutationMoves(m) PROVE StoreOK'
  <2>1. /\ UNCHANGED <<victims, evicted, aborted, closed>>
        /\ UNCHANGED stored \/ stored' = stored \ Drops[m]
    BY <1>2 DEF MutationMoves, MutationStep, Ask, JoinMutationLock, JoinLock, Activate, Revalidate, Prepare,
         Drained, Run, Commit, Close
  <2> QED BY <2>1 DEF StoreOK
<1>3. ASSUME NEW s \in Sweep, SweepMoves(s) PROVE StoreOK'
  <2>1. CASE QueueSweep(s)
    BY <2>1 DEF QueueSweep, StoreOK
  <2>2. CASE PlanSweep(s)
    <3>1. Unprotected \subseteq Identity
      BY DEF Unprotected, StoreOK
    <3> QED BY <2>2, <3>1 DEF PlanSweep, StoreOK
  <2>3. CASE RemovePlanned(s)
    BY <2>3 DEF RemovePlanned, StoreOK
  <2>4. CASE PruneOnWrite(s)
    BY <2>4 DEF PruneOnWrite, StoreOK
  <2> QED BY <1>3, <2>1, <2>2, <2>3, <2>4 DEF SweepMoves
<1>4. CASE \E a \in Actor : Abort(a)
  BY <1>4 DEF Abort, StoreOK
<1>5. CASE TurnDoor
  BY <1>5 DEF TurnDoor, StoreOK
<1>6. CASE UNCHANGED vars
  BY <1>6 DEF vars, StoreOK
<1> QED BY <1>1, <1>2, <1>3, <1>4, <1>5, <1>6, NextCases

LEMMA TypeParts == TypeOK <=> PhaseOK /\ QueuesOK /\ AdmissionsOK /\ InterruptsOK /\ StoreOK
BY DEF TypeOK, PhaseOK, QueuesOK, AdmissionsOK, InterruptsOK, StoreOK

LEMMA TypeInit == Init => TypeOK
<1> SUFFICES ASSUME Init PROVE TypeOK
  OBVIOUS
<1>1. PhaseOK
  BY DEF Init, PhaseOK, TurnPhase, MutationPhase, Actor
<1>2. QueuesOK
  BY DEF Init, QueuesOK
<1>3. AdmissionsOK
  BY DEF Init, AdmissionsOK
<1>4. InterruptsOK /\ StoreOK
  BY DEF Init, InterruptsOK, StoreOK
<1> QED BY <1>1, <1>2, <1>3, <1>4, TypeParts

LEMMA TypeStep ==
  ASSUME TypeOK, [Next]_vars
  PROVE  TypeOK'
<1>1. PhaseOK /\ QueuesOK /\ AdmissionsOK /\ InterruptsOK /\ StoreOK
  BY TypeParts
<1>2. QueuesOK' /\ AdmissionsOK' /\ InterruptsOK' /\ StoreOK'
  BY <1>1, QueueSteps, AdmissionSteps, InterruptSteps, StoreSteps
<1>3. (\E a \in Actor : Abort(a)) \/ TurnDoor \/ UNCHANGED vars => PhaseOK'
  BY <1>1 DEF Abort, TurnDoor, vars, PhaseOK
<1>4. PhaseOK'
  BY <1>1, <1>3, TurnPhases, MutationPhases, SweepPhases, NextCases
<1>5. (PhaseOK /\ QueuesOK /\ AdmissionsOK /\ InterruptsOK /\ StoreOK)' <=> TypeOK'
  BY DEF TypeOK, PhaseOK, QueuesOK, AdmissionsOK, InterruptsOK, StoreOK
<1> QED BY <1>2, <1>4, <1>5

\* The types of the queues, of the admissions and of what maintenance plans.
THEOREM TypeCorrect == Spec => []TypeOK
<1>1. TypeOK /\ [Next]_vars => TypeOK'
  BY TypeStep
<1> QED BY TypeInit, <1>1, PTL DEF Spec

-----------------------------------------------------------------------------
(* The inductive invariant.                                                *)

\* A turn holds its lifecycle locks from the check to the end of the barrier, a
\* mutation while it changes its sessions; a mutation keeps its mutation locks.
LocksAreHeld ==
  /\ \A t \in Turn : phase[t] \in {"asserting", "asserted", "barrier"} =>
       HoldsAll(lifecycleQueues, t)
  /\ \A m \in Mutation : phase[m] = "changing" => HoldsAll(lifecycleQueues, m)

\* No mutation of its session is active while a turn is being admitted.
EntranceIsQuiet ==
  \A t \in Turn, m \in Mutation :
    phase[t] \in {"asserting", "asserted", "barrier"} /\ phase[m] \in ActivePhase =>
      ~Overlap(t, m)

\* A lease lasts from the registration to the end of the owner's work.
LeaseFollowsOwner ==
  activeAdmissions = {t \in Turn : phase[t] \in {"barrier", "admitted", "leaving"}}

\* A drain knows everyone it has to wait for, and nobody comes after it.
DrainIsComplete ==
  \A m \in Mutation, t \in Turn :
    t \in activeAdmissions /\ Overlap(t, m) /\ t # Initiator[m] =>
      /\ phase[m] = "draining" => t \in drain[m]
      /\ phase[m] \in {"relocking", "changing"} => m \notin drained

OnlyDrainedChange ==
  \A m \in Mutation :
    /\ m \in drained => phase[m] \in {"relocking", "changing", "closing", "done"}
    /\ phase[m] = "changing" => m \in drained

\* The turn a mutation was asked for from is still there.
InBandStays ==
  \A t \in Turn : InBand(t) => phase[t] = "admitted" /\ HasHandler(t)

TokenIsCurrent ==
  \A t \in Turn :
    /\ hand[t] # "none" => t \in Handed
    /\ hand[t] = "open" => phase[t] = "admitted"

OwnersAreTold ==
  \A t \in Turn : t \in interrupted /\ HasHandler(t) => t \in told

\* What a sweep in the writer's lane is removing belongs to no one who works.
SweepIsHarmless ==
  \A s \in LaneSweep :
    phase[s] = "removing" =>
      /\ AtHead(s)
      /\ \A t \in Turn : t \in Working => victims[s] \cap IdsOf[t] = {}

Inv ==
  /\ TypeOK
  /\ LocksAreHeld
  /\ EntranceIsQuiet
  /\ LeaseFollowsOwner
  /\ DrainIsComplete
  /\ OnlyDrainedChange
  /\ InBandStays
  /\ TokenIsCurrent

LEMMA InvInit == Init => Inv
BY TypeInit DEF Init, Inv, LocksAreHeld, EntranceIsQuiet, LeaseFollowsOwner, DrainIsComplete,
   OnlyDrainedChange, InBandStays, InBand, TokenIsCurrent, ActivePhase, Actor

-----------------------------------------------------------------------------
(* Where a turn and a mutation may go, and what they do to the locks.      *)

Entering == {"asserting", "asserted", "barrier"}

LEMMA MovesTo ==
  ASSUME PhaseOK, NEW a \in Actor \cup Sweep, NEW p, phase' = [phase EXCEPT ![a] = p]
  PROVE  \A b \in Actor \cup Sweep : phase'[b] = IF b = a THEN p ELSE phase[b]
BY DEF PhaseOK

LEMMA TurnLocks ==
  ASSUME LocksAreHeld, NEW t \in Turn, TurnMoves(t)
  PROVE  \/ /\ UNCHANGED phase
            /\ UNCHANGED lifecycleQueues \/ lifecycleQueues' \in Joins(lifecycleQueues, t)
         \/ /\ \E p \in TurnPhase \ Entering : phase' = [phase EXCEPT ![t] = p]
            /\ UNCHANGED lifecycleQueues \/ lifecycleQueues' = Unlocked(lifecycleQueues, t)
         \/ /\ \E p \in Entering : phase' = [phase EXCEPT ![t] = p]
            /\ UNCHANGED lifecycleQueues
            /\ HoldsAll(lifecycleQueues, t)
            /\ phase[t] \in Entering \/ BusyIdentities(t) = {}
BY DEF LocksAreHeld, TurnMoves, TurnStep, Begin, Round, Wake, JoinLock, Enter, Assert, Register,
         Cross, AbortQueued, SkipAborted, Release, Leave, Adopt, Cancel,
         Unlock, TurnPhase, Entering

LEMMA MutationLocks ==
  ASSUME NEW m \in Mutation, MutationMoves(m)
  PROVE  \/ /\ UNCHANGED phase
            /\ UNCHANGED lifecycleQueues \/ lifecycleQueues' \in Joins(lifecycleQueues, m)
         \/ /\ \E p \in MutationPhase \ {"changing"} :
                 /\ phase' = [phase EXCEPT ![m] = p]
                 /\ \/ p \notin ActivePhase
                    \/ phase[m] \in ActivePhase
                    \/ HoldsAll(lifecycleQueues, m)
            /\ UNCHANGED lifecycleQueues \/ lifecycleQueues' = Unlocked(lifecycleQueues, m)
         \/ /\ phase' = [phase EXCEPT ![m] = "changing"]
            /\ phase[m] \in ActivePhase
            /\ UNCHANGED lifecycleQueues
            /\ HoldsAll(lifecycleQueues, m)
BY DEF MutationMoves, MutationStep, Ask, JoinMutationLock, JoinLock, Activate, Revalidate, Prepare,
         Drained, Run, Commit, Close,
         Unlock, MutationPhase, ActivePhase

LEMMA SweepLocks ==
  ASSUME NEW s \in Sweep, SweepMoves(s)
  PROVE  /\ UNCHANGED <<lifecycleQueues, mutationQueues, activeAdmissions, interruptVars, aborted>>
         /\ \E p \in {"queueing", "removing", "done"} : phase' = [phase EXCEPT ![s] = p]
BY DEF SweepMoves, QueueSweep, PlanSweep, RemovePlanned, PruneOnWrite

LEMMA KeepsHolds ==
  ASSUME QueuesOK, NEW x \in Actor, NEW y \in Actor, HoldsAll(lifecycleQueues, y),
         \/ UNCHANGED lifecycleQueues
         \/ lifecycleQueues' \in Joins(lifecycleQueues, x)
         \/ lifecycleQueues' = Unlocked(lifecycleQueues, x) /\ y # x
  PROVE  HoldsAll(lifecycleQueues', y)
<1>1. \A i \in IdsOf[y] : i \in Identity /\ Holds(lifecycleQueues, y, i)
  BY IdsType DEF HoldsAll
<1>2. lifecycleQueues \in [Identity -> Seq(Actor)]
  BY DEF QueuesOK
<1>3. CASE UNCHANGED lifecycleQueues
  BY <1>3
<1>4. CASE lifecycleQueues' \in Joins(lifecycleQueues, x)
  <2>1. \A z : \A i \in Identity : Holds(lifecycleQueues, z, i) => Holds(lifecycleQueues', z, i)
    BY <1>2, <1>4, JoinsKeeps
  <2> QED BY <1>1, <2>1 DEF HoldsAll
<1>5. CASE lifecycleQueues' = Unlocked(lifecycleQueues, x) /\ y # x
  <2>1. \A z : \A i \in Identity :
          z # x /\ Holds(lifecycleQueues, z, i) => Holds(Unlocked(lifecycleQueues, x), z, i)
    BY <1>2, UnlockedKeeps
  <2> QED BY <1>1, <1>5, <2>1 DEF HoldsAll
<1> QED BY <1>3, <1>4, <1>5

LEMMA LocksStep ==
  ASSUME TypeOK, LocksAreHeld, [Next]_vars
  PROVE  LocksAreHeld'
<1>0. PhaseOK /\ QueuesOK
  BY TypeParts
<1>1. /\ \A t \in Turn : t \in Actor /\ t \notin Mutation /\ t \notin Sweep
      /\ \A m \in Mutation : m \in Actor /\ m \notin Turn /\ m \notin Sweep
  BY ActorAssumption DEF Actor
<1>2. ASSUME NEW t \in Turn, TurnMoves(t) PROVE LocksAreHeld'
  <2>1. \A y \in Actor : y # t /\ HoldsAll(lifecycleQueues, y) => HoldsAll(lifecycleQueues', y)
    BY <1>0, <1>1, <1>2, TurnLocks, KeepsHolds
  <2>2. \A y \in Actor : y # t => phase'[y] = phase[y]
    BY <1>0, <1>1, <1>2, TurnLocks, MovesTo
  <2>3. phase'[t] \in Entering => HoldsAll(lifecycleQueues', t)
    <3>1. CASE UNCHANGED phase
      BY <1>0, <1>1, <1>2, <3>1, TurnLocks, KeepsHolds, MovesTo DEF LocksAreHeld, Entering
    <3>2. CASE \E p \in TurnPhase \ Entering : phase' = [phase EXCEPT ![t] = p]
      BY <1>0, <1>1, <3>2, MovesTo
    <3>3. CASE UNCHANGED lifecycleQueues /\ HoldsAll(lifecycleQueues, t)
      BY <3>3
    <3> QED BY <1>2, <3>1, <3>2, <3>3, TurnLocks
  <2> QED BY <1>1, <2>1, <2>2, <2>3 DEF LocksAreHeld, Entering
<1>3. ASSUME NEW m \in Mutation, MutationMoves(m) PROVE LocksAreHeld'
  <2>1. \A y \in Actor : y # m /\ HoldsAll(lifecycleQueues, y) => HoldsAll(lifecycleQueues', y)
    BY <1>0, <1>1, <1>3, MutationLocks, KeepsHolds
  <2>2. \A y \in Actor : y # m => phase'[y] = phase[y]
    BY <1>0, <1>1, <1>3, MutationLocks, MovesTo
  <2>3. phase'[m] = "changing" => HoldsAll(lifecycleQueues', m)
    <3>1. CASE UNCHANGED phase
      <4>1. UNCHANGED lifecycleQueues \/ lifecycleQueues' \in Joins(lifecycleQueues, m)
            \/ phase[m] # "changing"
        BY <1>0, <1>1, <1>3, <3>1, MutationLocks, MovesTo
      <4> QED BY <1>0, <1>1, <3>1, <4>1, KeepsHolds DEF LocksAreHeld
    <3>2. CASE \E p \in MutationPhase \ {"changing"} : phase' = [phase EXCEPT ![m] = p]
      BY <1>0, <1>1, <3>2, MovesTo
    <3>3. CASE UNCHANGED lifecycleQueues /\ HoldsAll(lifecycleQueues, m)
      BY <3>3
    <3> QED BY <1>3, <3>1, <3>2, <3>3, MutationLocks
  <2> QED BY <1>1, <2>1, <2>2, <2>3 DEF LocksAreHeld
<1>4. ASSUME NEW s \in Sweep, SweepMoves(s) PROVE LocksAreHeld'
  <2>1. UNCHANGED lifecycleQueues /\ \A y \in Actor : phase'[y] = phase[y]
    BY <1>0, <1>1, <1>4, SweepLocks, MovesTo, ActorAssumption
  <2> QED BY <1>1, <2>1 DEF LocksAreHeld
<1>5. ASSUME (\E a \in Actor : Abort(a)) \/ TurnDoor \/ UNCHANGED vars PROVE LocksAreHeld'
  BY <1>5 DEF Abort, TurnDoor, vars, LocksAreHeld
<1> QED BY <1>2, <1>3, <1>4, <1>5, NextCases

LEMMA QuietStep ==
  ASSUME TypeOK, LocksAreHeld, EntranceIsQuiet, [Next]_vars
  PROVE  EntranceIsQuiet'
<1>0. PhaseOK
  BY TypeParts
<1>1. /\ \A t \in Turn : t \in Actor /\ t \notin Mutation /\ t \notin Sweep
      /\ \A m \in Mutation : m \in Actor /\ m \notin Turn /\ m \notin Sweep
  BY ActorAssumption DEF Actor
<1>2. ASSUME NEW t \in Turn, TurnMoves(t) PROVE EntranceIsQuiet'
  <2>1. \A y \in Actor : y # t => phase'[y] = phase[y]
    BY <1>0, <1>1, <1>2, TurnLocks, MovesTo
  <2>2. phase'[t] \in Entering => phase[t] \in Entering \/ BusyIdentities(t) = {}
    BY <1>0, <1>1, <1>2, TurnLocks, MovesTo
  <2>3. BusyIdentities(t) = {} => \A m \in Mutation : phase[m] \in ActivePhase => ~Overlap(t, m)
    BY DEF BusyIdentities, Active, Overlap
  <2> QED BY <1>1, <2>1, <2>2, <2>3 DEF EntranceIsQuiet, Entering
<1>3. ASSUME NEW m \in Mutation, MutationMoves(m) PROVE EntranceIsQuiet'
  <2>1. \A y \in Actor : y # m => phase'[y] = phase[y]
    BY <1>0, <1>1, <1>3, MutationLocks, MovesTo
  <2>2. phase'[m] \in ActivePhase => phase[m] \in ActivePhase \/ HoldsAll(lifecycleQueues, m)
    BY <1>0, <1>1, <1>3, MutationLocks, MovesTo
  <2>3. ASSUME HoldsAll(lifecycleQueues, m), NEW t \in Turn, phase[t] \in Entering
        PROVE  ~Overlap(t, m)
    BY <1>1, <2>3, HoldersAreApart DEF LocksAreHeld, Entering
  <2> QED BY <1>1, <2>1, <2>2, <2>3 DEF EntranceIsQuiet, Entering
<1>4. ASSUME NEW s \in Sweep, SweepMoves(s) PROVE EntranceIsQuiet'
  <2>1. \A y \in Actor : phase'[y] = phase[y]
    BY <1>0, <1>1, <1>4, SweepLocks, MovesTo, ActorAssumption
  <2> QED BY <1>1, <2>1 DEF EntranceIsQuiet
<1>5. ASSUME (\E a \in Actor : Abort(a)) \/ TurnDoor \/ UNCHANGED vars PROVE EntranceIsQuiet'
  BY <1>5 DEF Abort, TurnDoor, vars, EntranceIsQuiet
<1> QED BY <1>2, <1>3, <1>4, <1>5, NextCases

-----------------------------------------------------------------------------
(* Leases, drains and owners.                                              *)

Leased == {"barrier", "admitted", "leaving"}

\* A turn's lease and its phase change together; it is registered behind an
\* open door, and from then on until it departs it is in the registry.
LEMMA TurnLeases ==
  ASSUME TypeOK, LeaseFollowsOwner, TokenIsCurrent, NEW t \in Turn, TurnMoves(t)
  PROVE  /\ UNCHANGED <<interrupted, drain, drained, aborted, closed>>
         /\ \A m \in Mutation : phase'[m] = phase[m]
         /\ \A u \in Turn : u # t => phase'[u] = phase[u] /\ hand'[u] = hand[u]
         /\ \/ /\ activeAdmissions' = activeAdmissions
               /\ phase'[t] \in Leased <=> phase[t] \in Leased
            \/ /\ activeAdmissions' = activeAdmissions \cup {t}
               /\ phase[t] = "asserted" /\ phase'[t] = "barrier" /\ ~closed
            \/ /\ activeAdmissions' = activeAdmissions \ {t}
               /\ phase'[t] \notin Leased
<1>0. PhaseOK /\ AdmissionsOK
  BY TypeParts
<1>1. t \in Actor /\ t \notin Mutation
  BY ActorAssumption DEF Actor
<1>2. phase \in [Actor \cup Sweep -> TurnPhase \cup MutationPhase \cup {"removing"}]
  BY <1>0 DEF PhaseOK
<1>3. /\ \A m \in Mutation : phase'[m] = phase[m]
      /\ \A u \in Turn : u # t => phase'[u] = phase[u]
  <2>1. UNCHANGED phase \/ \E p \in TurnPhase : phase' = [phase EXCEPT ![t] = p]
    BY DEF TurnMoves, TurnStep, Begin, Round, Wake, JoinLock, Enter, Assert, Register,
         Cross, AbortQueued, SkipAborted, Release, Leave, Adopt, Cancel, TurnPhase
  <2> QED BY <1>1, <1>2, <2>1 DEF Actor
<1>4. \A u \in Turn : u # t => hand'[u] = hand[u]
  <2>1. UNCHANGED hand \/ \E h : hand' = [hand EXCEPT ![t] = h]
    BY DEF TurnMoves, TurnStep, Begin, Round, Wake, JoinLock, Enter, Assert, Register,
         Cross, AbortQueued, SkipAborted, Release, Leave, Adopt, Cancel
  <2> QED BY <1>0, <2>1 DEF AdmissionsOK
<1>5. \A p : phase' = [phase EXCEPT ![t] = p] => phase'[t] = p
  BY <1>1, <1>2
<1>6. UNCHANGED <<interrupted, drain, drained, aborted, closed>>
  BY DEF TurnMoves, TurnStep, Begin, Round, Wake, JoinLock, Enter, Assert, Register,
         Cross, AbortQueued, SkipAborted, Release, Leave, Adopt, Cancel
<1>7. \/ /\ activeAdmissions' = activeAdmissions
         /\ phase'[t] \in Leased <=> phase[t] \in Leased
      \/ /\ activeAdmissions' = activeAdmissions \cup {t}
         /\ phase[t] = "asserted" /\ phase'[t] = "barrier" /\ ~closed
      \/ /\ activeAdmissions' = activeAdmissions \ {t}
         /\ phase'[t] \notin Leased
  BY <1>5 DEF TurnMoves, TurnStep, Begin, Round, Wake, JoinLock, Enter, Assert, Register,
         Cross, AbortQueued, SkipAborted, Release, Leave, Adopt, Cancel, Leased, TokenIsCurrent
<1> QED BY <1>3, <1>4, <1>6, <1>7

\* What a mutation does to drains.
LEMMA MutationDrains ==
  ASSUME TypeOK, NEW m \in Mutation, MutationMoves(m)
  PROVE  /\ UNCHANGED <<activeAdmissions, hand, aborted, closed>>
         /\ \A b \in Actor : b # m => phase'[b] = phase[b]
         /\ \A n \in Mutation : n # m => drain'[n] = drain[n] /\ (n \in drained' <=> n \in drained)
         /\ \/ phase'[m] = phase[m] /\ UNCHANGED <<drain, drained>>
            \/ phase'[m] \in {"queueing", "locking"} /\ phase[m] \in {"new", "queueing"} /\ UNCHANGED drained
            \/ phase'[m] \in {"revalidating", "preparing"} /\ phase[m] \in {"locking", "revalidating"} /\ UNCHANGED drained
            \/ phase'[m] \in {"closing", "done"} /\ UNCHANGED drained
            \/ phase'[m] = "draining" /\ phase[m] = "preparing" /\ UNCHANGED drained /\ drain'[m] = Foreign(m)
            \/ phase'[m] = "relocking" /\ phase[m] = "preparing" /\ UNCHANGED drained
            \/ /\ phase'[m] = "relocking" /\ phase[m] = "draining"
               /\ m \in drained' => m \in drained \/ drain[m] \cap activeAdmissions = {}
            \/ phase'[m] = "changing" /\ phase[m] = "relocking" /\ m \in drained /\ UNCHANGED drained
<1>0. PhaseOK /\ InterruptsOK
  BY TypeParts
<1>1. m \in Actor /\ m \notin Turn
  BY ActorAssumption DEF Actor
<1>2. /\ phase \in [Actor \cup Sweep -> TurnPhase \cup MutationPhase \cup {"removing"}]
      /\ drain \in [Mutation -> SUBSET Turn]
  BY <1>0 DEF PhaseOK, InterruptsOK
<1>3. /\ UNCHANGED <<activeAdmissions, hand, aborted, closed>>
      /\ UNCHANGED drained \/ drained' = drained \cup {m}
      /\ UNCHANGED drain \/ drain' = [drain EXCEPT ![m] = Foreign(m)]
      /\ UNCHANGED phase \/ \E p : phase' = [phase EXCEPT ![m] = p]
  BY DEF MutationMoves, MutationStep, Ask, JoinMutationLock, JoinLock, Activate, Revalidate, Prepare,
         Drained, Run, Commit, Close
<1>4. \A p : phase' = [phase EXCEPT ![m] = p] => phase'[m] = p
  BY <1>1, <1>2
<1>5. \/ phase'[m] = phase[m] /\ UNCHANGED <<drain, drained>>
      \/ phase'[m] \in {"queueing", "locking"} /\ phase[m] \in {"new", "queueing"} /\ UNCHANGED drained
      \/ phase'[m] \in {"revalidating", "preparing"} /\ phase[m] \in {"locking", "revalidating"} /\ UNCHANGED drained
      \/ phase'[m] \in {"closing", "done"} /\ UNCHANGED drained
      \/ phase'[m] = "draining" /\ phase[m] = "preparing" /\ UNCHANGED drained /\ drain'[m] = Foreign(m)
      \/ phase'[m] = "relocking" /\ phase[m] = "preparing" /\ UNCHANGED drained
      \/ /\ phase'[m] = "relocking" /\ phase[m] = "draining"
         /\ m \in drained' => m \in drained \/ drain[m] \cap activeAdmissions = {}
      \/ phase'[m] = "changing" /\ phase[m] = "relocking" /\ m \in drained /\ UNCHANGED drained
  BY <1>2, <1>4 DEF MutationMoves, MutationStep, Ask, JoinMutationLock, JoinLock, Activate, Revalidate, Prepare,
         Drained, Run, Commit, Close
<1>6. \A b \in Actor : b # m => phase'[b] = phase[b]
  BY <1>2, <1>3
<1>7. \A n \in Mutation : n # m => drain'[n] = drain[n] /\ (n \in drained' <=> n \in drained)
  BY <1>2, <1>3
<1> QED BY <1>3, <1>5, <1>6, <1>7

LEMMA LeaseStep ==
  ASSUME TypeOK, LeaseFollowsOwner, TokenIsCurrent, [Next]_vars
  PROVE  LeaseFollowsOwner'
<1>0. PhaseOK
  BY TypeParts
<1>1. ASSUME NEW t \in Turn, TurnMoves(t) PROVE LeaseFollowsOwner'
  BY <1>1, TurnLeases DEF LeaseFollowsOwner, Leased
<1>2. ASSUME NEW m \in Mutation, MutationMoves(m) PROVE LeaseFollowsOwner'
  <2>1. UNCHANGED activeAdmissions /\ \A t \in Turn : phase'[t] = phase[t]
    BY <1>2, MutationDrains, ActorAssumption DEF Actor
  <2> QED BY <2>1 DEF LeaseFollowsOwner
<1>3. ASSUME NEW s \in Sweep, SweepMoves(s) PROVE LeaseFollowsOwner'
  <2>1. UNCHANGED activeAdmissions /\ \A t \in Turn : phase'[t] = phase[t]
    BY <1>0, <1>3, SweepLocks, MovesTo, ActorAssumption DEF Actor
  <2> QED BY <2>1 DEF LeaseFollowsOwner
<1>4. ASSUME (\E a \in Actor : Abort(a)) \/ TurnDoor \/ UNCHANGED vars PROVE LeaseFollowsOwner'
  BY <1>4 DEF Abort, TurnDoor, vars, LeaseFollowsOwner
<1> QED BY <1>1, <1>2, <1>3, <1>4, NextCases

LEMMA OnlyDrainedStep ==
  ASSUME TypeOK, LeaseFollowsOwner, TokenIsCurrent, OnlyDrainedChange, [Next]_vars
  PROVE  OnlyDrainedChange'
<1>0. PhaseOK
  BY TypeParts
<1>1. ASSUME NEW t \in Turn, TurnMoves(t) PROVE OnlyDrainedChange'
  BY <1>1, TurnLeases DEF OnlyDrainedChange
<1>2. ASSUME NEW m \in Mutation, MutationMoves(m) PROVE OnlyDrainedChange'
  BY <1>2, MutationDrains DEF OnlyDrainedChange, Actor
<1>3. ASSUME NEW s \in Sweep, SweepMoves(s) PROVE OnlyDrainedChange'
  <2>1. UNCHANGED drained /\ \A m \in Mutation : phase'[m] = phase[m]
    BY <1>0, <1>3, SweepLocks, MovesTo, ActorAssumption DEF Actor
  <2> QED BY <2>1 DEF OnlyDrainedChange
<1>4. ASSUME (\E a \in Actor : Abort(a)) \/ TurnDoor \/ UNCHANGED vars PROVE OnlyDrainedChange'
  BY <1>4 DEF Abort, TurnDoor, vars, OnlyDrainedChange
<1> QED BY <1>1, <1>2, <1>3, <1>4, NextCases

LEMMA DrainStep ==
  ASSUME TypeOK, EntranceIsQuiet, LeaseFollowsOwner, TokenIsCurrent, OnlyDrainedChange,
         DrainIsComplete, [Next]_vars
  PROVE  DrainIsComplete'
<1>0. PhaseOK
  BY TypeParts
<1>1. ASSUME NEW t \in Turn, TurnMoves(t) PROVE DrainIsComplete'
  <2>1. \A m \in Mutation : phase[m] \in ActivePhase /\ phase[t] = "asserted" => ~Overlap(t, m)
    BY DEF EntranceIsQuiet
  <2> QED BY <1>1, <2>1, TurnLeases DEF DrainIsComplete, ActivePhase
<1>2. ASSUME NEW m \in Mutation, MutationMoves(m) PROVE DrainIsComplete'
  <2>1. SUFFICES ASSUME NEW t \in Turn, t \in activeAdmissions, Overlap(t, m), t # Initiator[m]
                 PROVE  /\ phase'[m] = "draining" => t \in drain'[m]
                        /\ phase'[m] \in {"relocking", "changing"} => m \notin drained'
    BY <1>2, MutationDrains DEF DrainIsComplete, Actor
  <2>2. t \in Foreign(m)
    BY <2>1 DEF Foreign
  <2>3. /\ phase[m] = "draining" => t \in drain[m]
        /\ phase[m] \in {"relocking", "changing"} => m \notin drained
        /\ phase[m] \in {"preparing", "draining"} => m \notin drained
    BY <2>1 DEF DrainIsComplete, OnlyDrainedChange
  <2> QED BY <1>2, <2>1, <2>2, <2>3, MutationDrains
<1>3. ASSUME NEW s \in Sweep, SweepMoves(s) PROVE DrainIsComplete'
  <2>1. UNCHANGED <<activeAdmissions, drain, drained>> /\ \A m \in Mutation : phase'[m] = phase[m]
    BY <1>0, <1>3, SweepLocks, MovesTo, ActorAssumption DEF Actor
  <2> QED BY <2>1 DEF DrainIsComplete
<1>4. ASSUME (\E a \in Actor : Abort(a)) \/ TurnDoor \/ UNCHANGED vars PROVE DrainIsComplete'
  BY <1>4 DEF Abort, TurnDoor, vars, DrainIsComplete
<1> QED BY <1>1, <1>2, <1>3, <1>4, NextCases

\* The owner in band stays, and it stays reachable.
LEMMA TurnInBand ==
  ASSUME TypeOK, InBandStays, TokenIsCurrent, NEW t \in Turn, TurnMoves(t), InBand(t)
  PROVE  phase'[t] = "admitted" /\ HasHandler(t)'
<1>0. PhaseOK /\ AdmissionsOK
  BY TypeParts
<1>1. t \in Actor \cup Sweep
  BY DEF Actor
<1>2. /\ phase \in [Actor \cup Sweep -> TurnPhase \cup MutationPhase \cup {"removing"}]
      /\ hand \in [Turn -> {"none", "open", "adopted", "owned"}]
  BY <1>0 DEF PhaseOK, AdmissionsOK
<1>3. phase[t] = "admitted" /\ HasHandler(t) /\ hand[t] # "open"
  BY DEF InBandStays, TokenIsCurrent, HasHandler
<1>4. /\ UNCHANGED phase
      /\ UNCHANGED hand \/ hand' = [hand EXCEPT ![t] = "owned"]
  BY <1>1, <1>2, <1>3 DEF TurnMoves, TurnStep, Begin, Round, Wake, JoinLock, Enter, Assert, Register,
     Cross, AbortQueued, SkipAborted, Release, Leave, Adopt, Cancel
<1> QED BY <1>2, <1>3, <1>4 DEF HasHandler

\* The turn in band is the one a mutation is asked from, or was before.
LEMMA MutationInBand ==
  ASSUME TypeOK, NEW m \in Mutation, MutationMoves(m), NEW t \in Turn, InBand(t)'
  PROVE  InBand(t) \/ (phase[t] = "admitted" /\ HasHandler(t))
<1>0. PhaseOK
  BY TypeParts
<1>1. m \in Actor \cup Sweep
  BY DEF Actor
<1>2. phase \in [Actor \cup Sweep -> TurnPhase \cup MutationPhase \cup {"removing"}]
  BY <1>0 DEF PhaseOK
<1>3. PICK n \in Mutation : /\ Initiator[n] = t
                            /\ \/ phase'[n] \in ActivePhase
                               \/ phase'[n] \in {"queueing", "locking"} /\ n \notin aborted'
  BY DEF InBand
<1>4. CASE n # m
  <2>1. phase'[n] = phase[n] /\ UNCHANGED aborted
    BY <1>4, MutationDrains DEF Actor
  <2> QED BY <1>3, <2>1 DEF InBand
<1>5. CASE n = m
  <2>1. \A p : phase' = [phase EXCEPT ![m] = p] => phase'[m] = p
    BY <1>1, <1>2
  <2>2. \/ Ask(m)
        \/ phase[m] \in ActivePhase
        \/ phase[m] \in {"queueing", "locking"} /\ m \notin aborted
    BY <1>3, <1>5, <2>1 DEF MutationMoves, MutationStep, Ask, JoinMutationLock, JoinLock, Activate,
       Revalidate, Prepare, Drained, Run, Commit, Close, ActivePhase
  <2>3. Ask(m) => phase[t] = "admitted" /\ HasHandler(t)
    BY <1>3, <1>5 DEF Ask
  <2> QED BY <1>3, <1>5, <2>2, <2>3 DEF InBand
<1> QED BY <1>4, <1>5

LEMMA InBandStep ==
  ASSUME TypeOK, LeaseFollowsOwner, TokenIsCurrent, InBandStays, [Next]_vars
  PROVE  InBandStays'
<1>0. PhaseOK
  BY TypeParts
<1>1. ASSUME NEW t \in Turn, TurnMoves(t) PROVE InBandStays'
  <2>1. \A u \in Turn : InBand(u)' <=> InBand(u)
    BY <1>1, TurnLeases DEF InBand
  <2>2. InBand(t) => phase'[t] = "admitted" /\ HasHandler(t)'
    BY <1>1, TurnInBand
  <2>3. \A u \in Turn : u # t => phase'[u] = phase[u] /\ hand'[u] = hand[u]
    BY <1>1, TurnLeases
  <2> QED BY <2>1, <2>2, <2>3 DEF InBandStays, HasHandler
<1>2. ASSUME NEW m \in Mutation, MutationMoves(m) PROVE InBandStays'
  <2>1. UNCHANGED hand /\ \A t \in Turn : phase'[t] = phase[t]
    BY <1>2, MutationDrains, ActorAssumption DEF Actor
  <2> QED BY <1>2, <2>1, MutationInBand DEF InBandStays, HasHandler
<1>3. ASSUME NEW s \in Sweep, SweepMoves(s) PROVE InBandStays'
  <2>1. UNCHANGED <<hand, aborted>> /\ \A x \in Actor : phase'[x] = phase[x]
    BY <1>0, <1>3, SweepLocks, MovesTo, ActorAssumption
  <2> QED BY <2>1 DEF InBandStays, InBand, HasHandler, Actor
<1>4. ASSUME NEW a \in Actor, Abort(a) PROVE InBandStays'
  BY <1>4 DEF Abort, InBandStays, InBand, HasHandler
<1>5. ASSUME TurnDoor \/ UNCHANGED vars PROVE InBandStays'
  BY <1>5 DEF TurnDoor, vars, InBandStays, InBand, HasHandler
<1> QED BY <1>1, <1>2, <1>3, <1>4, <1>5, NextCases

LEMMA TokenStep ==
  ASSUME TypeOK, LeaseFollowsOwner, TokenIsCurrent, [Next]_vars
  PROVE  TokenIsCurrent'
<1>0. PhaseOK /\ AdmissionsOK
  BY TypeParts
<1>1. ASSUME NEW t \in Turn, TurnMoves(t) PROVE TokenIsCurrent'
  <2>1. t \in Actor \cup Sweep
    BY DEF Actor
  <2>2. /\ phase \in [Actor \cup Sweep -> TurnPhase \cup MutationPhase \cup {"removing"}]
        /\ hand \in [Turn -> {"none", "open", "adopted", "owned"}]
    BY <1>0 DEF PhaseOK, AdmissionsOK
  <2>3. /\ \A p : phase' = [phase EXCEPT ![t] = p] => phase'[t] = p
        /\ \A h : hand' = [hand EXCEPT ![t] = h] => hand'[t] = h
    BY <2>1, <2>2
  <2>4. /\ hand'[t] # "none" => t \in Handed
        /\ hand'[t] = "open" => phase'[t] = "admitted"
    <3>1. /\ hand[t] # "none" => t \in Handed
          /\ hand[t] = "open" => phase[t] = "admitted"
      BY DEF TokenIsCurrent
    <3>2. CASE Leave(t)
      BY <3>1, <3>2 DEF Leave, HasHandler
    <3>3. CASE ~Leave(t)
      BY <1>1, <2>3, <3>1, <3>3 DEF TurnMoves, TurnStep, Begin, Round, Wake, JoinLock, Enter, Assert,
         Register, Cross, AbortQueued, SkipAborted, Release, Adopt, Cancel
    <3> QED BY <3>2, <3>3
  <2>5. \A u \in Turn : u # t => phase'[u] = phase[u] /\ hand'[u] = hand[u]
    BY <1>1, TurnLeases
  <2> QED BY <2>4, <2>5 DEF TokenIsCurrent
<1>2. ASSUME NEW m \in Mutation, MutationMoves(m) PROVE TokenIsCurrent'
  <2>1. UNCHANGED hand /\ \A t \in Turn : phase'[t] = phase[t]
    BY <1>2, MutationDrains, ActorAssumption DEF Actor
  <2> QED BY <2>1 DEF TokenIsCurrent
<1>3. ASSUME NEW s \in Sweep, SweepMoves(s) PROVE TokenIsCurrent'
  <2>1. UNCHANGED hand /\ \A t \in Turn : phase'[t] = phase[t]
    BY <1>0, <1>3, SweepLocks, MovesTo, ActorAssumption DEF Actor
  <2> QED BY <2>1 DEF TokenIsCurrent
<1>4. ASSUME (\E a \in Actor : Abort(a)) \/ TurnDoor \/ UNCHANGED vars PROVE TokenIsCurrent'
  BY <1>4 DEF Abort, TurnDoor, vars, TokenIsCurrent
<1> QED BY <1>1, <1>2, <1>3, <1>4, NextCases

LEMMA InvStep ==
  ASSUME Inv, [Next]_vars
  PROVE  Inv'
BY TypeStep, LocksStep, QuietStep, LeaseStep, OnlyDrainedStep, DrainStep, InBandStep, TokenStep DEF Inv

\* While a turn is admitted no mutation of its session is active, a mutation
\* that changes a session has waited for everyone on it, and the turn it was
\* asked for from is still there.
THEOREM InvCorrect == Spec => []Inv
<1>1. Inv /\ [Next]_vars => Inv'
  BY InvStep
<1> QED BY InvInit, <1>1, PTL DEF Spec

-----------------------------------------------------------------------------
(* SessionAdmission implements SessionExclusion.                           *)

AtWork == {"admitted", "leaving"}

LEMMA TurnUses ==
  ASSUME Inv, NEW t \in Turn, TurnMoves(t)
  PROVE  /\ UNCHANGED closed
         /\ Changing' = Changing
         /\ \/ activeAdmissions' = activeAdmissions /\ Working' = Working
            \/ /\ phase[t] = "asserted" /\ ~closed
               /\ activeAdmissions' = activeAdmissions \cup {t} /\ Working' = Working
            \/ /\ phase[t] = "barrier"
               /\ activeAdmissions' = activeAdmissions /\ Working' = Working \cup {t}
            \/ /\ ~InBand(t)
               /\ activeAdmissions' = activeAdmissions \ {t} /\ Working' = Working \ {t}
<1>0. TypeOK /\ PhaseOK /\ LeaseFollowsOwner /\ TokenIsCurrent /\ InBandStays
  BY TypeParts DEF Inv
<1>1. t \in Actor \cup Sweep
  BY DEF Actor
<1>2. phase \in [Actor \cup Sweep -> TurnPhase \cup MutationPhase \cup {"removing"}]
  BY <1>0 DEF PhaseOK
<1>3. /\ UNCHANGED closed
      /\ \A m \in Mutation : phase'[m] = phase[m]
      /\ \A u \in Turn : u # t => phase'[u] = phase[u]
  BY <1>0, TurnLeases
<1>4. \A p : phase' = [phase EXCEPT ![t] = p] => phase'[t] = p
  BY <1>1, <1>2
<1>5. \/ /\ activeAdmissions' = activeAdmissions
         /\ phase'[t] \in AtWork <=> phase[t] \in AtWork
      \/ /\ phase[t] = "asserted" /\ ~closed /\ phase'[t] = "barrier"
         /\ activeAdmissions' = activeAdmissions \cup {t}
      \/ /\ phase[t] = "barrier" /\ phase'[t] = "admitted"
         /\ activeAdmissions' = activeAdmissions
      \/ /\ phase[t] \in {"barrier", "leaving"} \/ hand[t] = "open"
         /\ phase'[t] \notin AtWork
         /\ activeAdmissions' = activeAdmissions \ {t}
  BY <1>4 DEF TurnMoves, TurnStep, Begin, Round, Wake, JoinLock, Enter, Assert, Register, Cross,
     AbortQueued, SkipAborted, Release, Leave, Adopt, Cancel, AtWork
<1>6. phase[t] \in {"barrier", "leaving"} \/ hand[t] = "open" => ~InBand(t)
  BY <1>0 DEF InBandStays, TokenIsCurrent, HasHandler
<1>7. Changing' = Changing
  BY <1>3 DEF Changing
<1>8. /\ (phase'[t] \in AtWork <=> phase[t] \in AtWork) => Working' = Working
      /\ phase'[t] \in AtWork => Working' = Working \cup {t}
      /\ phase'[t] \notin AtWork => Working' = Working \ {t}
  BY <1>3 DEF Working, AtWork
<1> QED BY <1>3, <1>5, <1>6, <1>7, <1>8 DEF AtWork

LEMMA MutationChanges ==
  ASSUME Inv, NEW m \in Mutation, MutationMoves(m)
  PROVE  /\ UNCHANGED <<closed, activeAdmissions>>
         /\ Working' = Working
         /\ \/ Changing' = Changing
            \/ Changing' = Changing \ {m}
            \/ /\ phase[m] = "relocking" /\ m \in drained /\ HoldsAll(lifecycleQueues, m)
               /\ Changing' = Changing \cup {m}
<1>0. TypeOK /\ PhaseOK
  BY TypeParts DEF Inv
<1>1. m \in Actor \cup Sweep
  BY DEF Actor
<1>2. phase \in [Actor \cup Sweep -> TurnPhase \cup MutationPhase \cup {"removing"}]
  BY <1>0 DEF PhaseOK
<1>3. /\ UNCHANGED <<closed, activeAdmissions>>
      /\ \A x \in Actor : x # m => phase'[x] = phase[x]
  BY <1>0, MutationDrains
<1>4. \A p : phase' = [phase EXCEPT ![m] = p] => phase'[m] = p
  BY <1>1, <1>2
<1>5. \/ phase'[m] = phase[m]
      \/ phase'[m] # "changing"
      \/ /\ phase'[m] = "changing"
         /\ phase[m] = "relocking" /\ m \in drained /\ HoldsAll(lifecycleQueues, m)
  BY <1>4 DEF MutationMoves, MutationStep, Ask, JoinMutationLock, JoinLock, Activate, Revalidate, Prepare,
     Drained, Run, Commit, Close
<1>6. Working' = Working
  BY <1>3, ActorAssumption DEF Working, Actor
<1>7. /\ phase'[m] = phase[m] => Changing' = Changing
      /\ phase'[m] # "changing" => Changing' = Changing \ {m}
      /\ phase'[m] = "changing" => Changing' = Changing \cup {m}
  BY <1>3 DEF Changing, Actor
<1> QED BY <1>3, <1>5, <1>6, <1>7

LEMMA ExclusionInit == Init => Exclusion!Init
BY DEF Init, Exclusion!Init, Working, Changing, Actor

LEMMA ExclusionStep ==
  ASSUME Inv, [Next]_vars
  PROVE  [Exclusion!Next]_(Exclusion!vars)
<1>0. /\ PhaseOK /\ LocksAreHeld /\ EntranceIsQuiet /\ LeaseFollowsOwner /\ DrainIsComplete
      /\ OnlyDrainedChange
  BY TypeParts DEF Inv
<1>1. \A m \in Changing : m \in Mutation /\ phase[m] = "changing" /\ phase[m] \in ActivePhase
  BY DEF Changing, ActivePhase
<1>2. ASSUME NEW t \in Turn, TurnMoves(t)
      PROVE  Exclusion!Next \/ UNCHANGED Exclusion!vars
  <2>1. CASE activeAdmissions' = activeAdmissions /\ Working' = Working
    BY <1>2, <2>1, TurnUses DEF Exclusion!vars
  <2>2. CASE /\ phase[t] = "asserted" /\ ~closed
             /\ activeAdmissions' = activeAdmissions \cup {t} /\ Working' = Working
    <3>1. \A m \in Changing : ~Exclusion!Overlap(t, m)
      BY <1>0, <1>1, <2>2 DEF EntranceIsQuiet, Overlap, Exclusion!Overlap
    <3>2. Exclusion!Lease(t)
      BY <1>2, <2>2, <3>1, TurnUses DEF Exclusion!Lease
    <3> QED BY <3>2 DEF Exclusion!Next
  <2>3. CASE /\ phase[t] = "barrier"
             /\ activeAdmissions' = activeAdmissions /\ Working' = Working \cup {t}
    <3>1. Exclusion!Use(t)
      BY <1>0, <1>2, <2>3, TurnUses DEF Exclusion!Use, LeaseFollowsOwner
    <3> QED BY <3>1 DEF Exclusion!Next
  <2>4. CASE /\ ~InBand(t)
             /\ activeAdmissions' = activeAdmissions \ {t} /\ Working' = Working \ {t}
    <3>1. \A m \in Changing : Initiator[m] # t
      BY <1>1, <2>4 DEF InBand
    <3>2. Exclusion!Depart(t)
      BY <1>2, <2>4, <3>1, TurnUses DEF Exclusion!Depart
    <3> QED BY <3>2 DEF Exclusion!Next
  <2> QED BY <1>2, <2>1, <2>2, <2>3, <2>4, TurnUses
<1>3. ASSUME NEW m \in Mutation, MutationMoves(m)
      PROVE  Exclusion!Next \/ UNCHANGED Exclusion!vars
  <2>1. CASE Changing' = Changing
    BY <1>3, <2>1, MutationChanges DEF Exclusion!vars
  <2>2. CASE Changing' = Changing \ {m}
    <3>1. Exclusion!Finish(m)
      BY <1>3, <2>2, MutationChanges DEF Exclusion!Finish
    <3> QED BY <3>1 DEF Exclusion!Next
  <2>3. CASE /\ phase[m] = "relocking" /\ m \in drained /\ HoldsAll(lifecycleQueues, m)
             /\ Changing' = Changing \cup {m}
    <3>1. \A t \in activeAdmissions : Exclusion!Overlap(t, m) => t = Initiator[m]
      BY <1>0, <2>3 DEF DrainIsComplete, LeaseFollowsOwner, Overlap, Exclusion!Overlap
    <3>2. ASSUME NEW n \in Changing PROVE ~Exclusion!Overlap(m, n)
      <4>1. HoldsAll(lifecycleQueues, n) /\ n # m /\ n \in Actor /\ m \in Actor
        BY <1>0, <1>1, <2>3, <3>2 DEF LocksAreHeld, Actor
      <4>2. ~Overlap(m, n)
        BY <2>3, <4>1, HoldersAreApart
      <4> QED BY <4>2 DEF Overlap, Exclusion!Overlap
    <3>3. Exclusion!Start(m)
      BY <1>3, <2>3, <3>1, <3>2, MutationChanges DEF Exclusion!Start
    <3> QED BY <3>3 DEF Exclusion!Next
  <2> QED BY <1>3, <2>1, <2>2, <2>3, MutationChanges
<1>4. ASSUME NEW s \in Sweep, SweepMoves(s)
      PROVE  UNCHANGED Exclusion!vars
  <2>1. UNCHANGED <<closed, activeAdmissions>>
    BY <1>4 DEF SweepMoves, QueueSweep, PlanSweep, RemovePlanned, PruneOnWrite
  <2>2. \A x \in Actor : phase'[x] = phase[x]
    BY <1>0, <1>4, SweepLocks, MovesTo, ActorAssumption
  <2> QED BY <2>1, <2>2 DEF Exclusion!vars, Working, Changing, Actor
<1>5. ASSUME NEW a \in Actor, Abort(a)
      PROVE  UNCHANGED Exclusion!vars
  BY <1>5 DEF Abort, Exclusion!vars, Working, Changing
<1>6. TurnDoor => Exclusion!TurnDoor
  BY DEF TurnDoor, Exclusion!TurnDoor, Working, Changing
<1>7. UNCHANGED vars => UNCHANGED Exclusion!vars
  BY DEF vars, Exclusion!vars, Working, Changing
<1> QED BY <1>2, <1>3, <1>4, <1>5, <1>6, <1>7, NextCases DEF Exclusion!Next

\* Whatever order the locks, lanes, hand-offs, interrupts, drain timeouts,
\* aborts and the door come in, a session has many turns or one mutation.
THEOREM Refinement == Spec => SessionsAreExclusive
<1>1. Inv /\ [Next]_vars => [Exclusion!Next]_(Exclusion!vars)
  BY ExclusionStep
<1> QED BY InvCorrect, ExclusionInit, <1>1, PTL DEF Spec, SessionsAreExclusive, Exclusion!Spec

-----------------------------------------------------------------------------
(* Interrupts reach their owners.                                          *)

LEMMA OwnersStep ==
  ASSUME TypeOK, OwnersAreTold, [Next]_vars
  PROVE  OwnersAreTold'
<1>0. AdmissionsOK /\ InterruptsOK
  BY TypeParts
<1>1. hand \in [Turn -> {"none", "open", "adopted", "owned"}]
  BY <1>0 DEF AdmissionsOK
<1>2. ASSUME NEW t \in Turn, TurnMoves(t) PROVE OwnersAreTold'
  <2>1. CASE UNCHANGED <<interrupted, told, hand>>
    BY <2>1 DEF OwnersAreTold, HasHandler
  <2>2. CASE Cross(t)
    BY <1>1, <2>2 DEF Cross, OwnersAreTold, HasHandler
  <2>3. CASE Adopt(t)
    BY <1>1, <2>3 DEF Adopt, OwnersAreTold, HasHandler
  <2>4. CASE Cancel(t)
    BY <1>1, <2>4 DEF Cancel, OwnersAreTold, HasHandler
  <2> QED BY <1>2, <2>1, <2>2, <2>3, <2>4 DEF TurnMoves, TurnStep, Begin, Round, Wake, JoinLock,
     Enter, Assert, Register, AbortQueued, SkipAborted, Release, Leave
<1>3. ASSUME NEW m \in Mutation, MutationMoves(m) PROVE OwnersAreTold'
  <2>1. CASE UNCHANGED <<interrupted, told, hand>>
    BY <2>1 DEF OwnersAreTold, HasHandler
  <2>2. CASE Prepare(m)
    BY <2>2 DEF Prepare, OwnersAreTold, HasHandler
  <2> QED BY <1>3, <2>1, <2>2 DEF MutationMoves, MutationStep, Ask, JoinMutationLock, JoinLock,
     Activate, Revalidate, Drained, Run, Commit, Close
<1>4. ASSUME NEW s \in Sweep, SweepMoves(s) PROVE OwnersAreTold'
  BY <1>4 DEF SweepMoves, QueueSweep, PlanSweep, RemovePlanned, PruneOnWrite, OwnersAreTold, HasHandler
<1>5. ASSUME (\E a \in Actor : Abort(a)) \/ TurnDoor \/ UNCHANGED vars PROVE OwnersAreTold'
  BY <1>5 DEF Abort, TurnDoor, vars, OwnersAreTold, HasHandler
<1> QED BY <1>2, <1>3, <1>4, <1>5, NextCases

\* An interrupt reaches the owner of the lease, before or after the RPC the
\* turn was admitted for has adopted it.
THEOREM OwnersCorrect == Spec => []InterruptReachesOwner
<1>1. Init => OwnersAreTold
  BY DEF Init, OwnersAreTold
<1>2. TypeOK /\ OwnersAreTold /\ [Next]_vars => OwnersAreTold'
  BY OwnersStep
<1>3. OwnersAreTold => InterruptReachesOwner
  BY DEF OwnersAreTold, InterruptReachesOwner, Working
<1> QED BY TypeCorrect, <1>1, <1>2, <1>3, PTL DEF Spec

-----------------------------------------------------------------------------
(* What may take the session of an admitted turn.                          *)

\* The lane's running task is replaced only when it is done.
LEMMA LaneKeeps ==
  ASSUME TypeOK, NEW x, AtHead(x),
         \/ UNCHANGED lane
         \/ \E y \in Actor \cup Sweep : lane' = Append(lane, y)
  PROVE  AtHead(x)'
BY TypeParts, AppendType DEF QueuesOK, AtHead

LEMMA SweepStep ==
  ASSUME Inv, SweepIsHarmless, [Next]_vars
  PROVE  SweepIsHarmless'
<1>0. TypeOK /\ PhaseOK /\ StoreOK /\ LeaseFollowsOwner
  BY TypeParts DEF Inv
<1>1. /\ \A x \in Actor : x \notin Sweep
      /\ \A t \in Turn : t \in Actor /\ t \notin Mutation
      /\ \A m \in Mutation : m \in Actor
      /\ \A s \in LaneSweep : s \in Sweep
  BY ActorAssumption DEF Actor, Sweep
<1>2. \A x, y : AtHead(x) /\ AtHead(y) => x = y
  BY DEF AtHead
<1>3. ASSUME NEW t \in Turn, TurnMoves(t) PROVE SweepIsHarmless'
  <2>1. \A s \in Sweep : phase'[s] = phase[s]
    BY <1>0, <1>1, <1>3, TurnLocks, MovesTo DEF Inv
  <2>2. \A s \in Sweep : victims'[s] \subseteq victims[s]
    <3>1. UNCHANGED victims \/ victims' = [s \in Sweep |-> victims[s] \ IdsOf[t]]
      BY <1>3 DEF TurnMoves, TurnStep, Begin, Round, Wake, JoinLock, Enter, Assert, Register, Cross,
         AbortQueued, SkipAborted, Release, Leave, Adopt, Cancel
    <3> QED BY <3>1
  <2>3. ASSUME NEW s \in LaneSweep, AtHead(s) PROVE AtHead(s)'
    <3>1. ~AtHead(t)
      BY <1>1, <1>2, <2>3
    <3>2. UNCHANGED lane \/ lane' = Append(lane, t)
      BY <1>3, <3>1 DEF TurnMoves, TurnStep, Begin, Round, Wake, JoinLock, Enter, Assert, Register,
         Cross, AbortQueued, SkipAborted, Release, Leave, Adopt, Cancel
    <3> QED BY <1>0, <1>1, <2>3, <3>2, LaneKeeps
  <2>4. (\E s \in LaneSweep : AtHead(s)) => Working' \subseteq Working
    <3>1. ASSUME ~AtHead(t) PROVE phase[t] # "barrier" \/ phase'[t] # "admitted"
      BY <1>0, <1>1, <1>3, <3>1, MovesTo DEF TurnMoves, TurnStep, Begin, Round, Wake, JoinLock, Enter,
         Assert, Register, Cross, AbortQueued, SkipAborted, Release, Leave, Adopt, Cancel
    <3>2. phase[t] = "barrier" /\ Working' = Working \cup {t} => phase'[t] \in AtWork
      BY DEF Working, AtWork
    <3>3. phase[t] = "barrier" => phase'[t] # "leaving"
      BY <1>0, <1>1, <1>3, MovesTo DEF TurnMoves, TurnStep, Begin, Round, Wake, JoinLock, Enter,
         Assert, Register, Cross, AbortQueued, SkipAborted, Release, Leave, Adopt, Cancel
    <3>4. (\E s \in LaneSweep : AtHead(s)) => ~AtHead(t)
      BY <1>1, <1>2
    <3> QED BY <1>3, <3>1, <3>2, <3>3, <3>4, TurnUses DEF AtWork
  <2> QED BY <1>1, <2>1, <2>2, <2>3, <2>4 DEF SweepIsHarmless
<1>4. ASSUME NEW m \in Mutation, MutationMoves(m) PROVE SweepIsHarmless'
  <2>1. UNCHANGED victims /\ Working' = Working
    BY <1>4, MutationChanges DEF MutationMoves, MutationStep, Ask, JoinMutationLock, JoinLock, Activate,
       Revalidate, Prepare, Drained, Run, Commit, Close
  <2>2. \A s \in Sweep : phase'[s] = phase[s]
    BY <1>0, <1>1, <1>4, MutationLocks, MovesTo
  <2>3. ASSUME NEW s \in LaneSweep, AtHead(s) PROVE AtHead(s)'
    <3>1. ~AtHead(m)
      BY <1>1, <1>2, <2>3
    <3>2. UNCHANGED lane \/ lane' = Append(lane, m)
      BY <1>4, <3>1 DEF MutationMoves, MutationStep, Ask, JoinMutationLock, JoinLock, Activate, Revalidate, Prepare,
         Drained, Run, Commit, Close
    <3> QED BY <1>0, <1>1, <2>3, <3>2, LaneKeeps
  <2> QED BY <1>1, <2>1, <2>2, <2>3 DEF SweepIsHarmless
<1>5. ASSUME NEW s \in Sweep, SweepMoves(s) PROVE SweepIsHarmless'
  <2>1. /\ \A x \in Actor : phase'[x] = phase[x]
        /\ \A r \in Sweep : r # s => phase'[r] = phase[r]
    BY <1>0, <1>1, <1>5, SweepLocks, MovesTo
  <2>2. Working' = Working
    BY <1>1, <2>1 DEF Working
  <2>3. \A r \in Sweep : r # s => victims'[r] = victims[r]
    BY <1>0, <1>5 DEF SweepMoves, QueueSweep, PlanSweep, RemovePlanned, PruneOnWrite, StoreOK
  <2>4. ASSUME NEW r \in LaneSweep, r # s, AtHead(r) PROVE AtHead(r)'
    <3>1. ~AtHead(s)
      BY <1>2, <2>4
    <3>2. UNCHANGED lane \/ lane' = Append(lane, s)
      BY <1>5, <3>1 DEF SweepMoves, QueueSweep, PlanSweep, RemovePlanned, PruneOnWrite
    <3> QED BY <1>0, <2>4, <3>2, LaneKeeps
  <2>5. ASSUME s \in LaneSweep, phase'[s] = "removing"
        PROVE  AtHead(s)' /\ \A t \in Turn : t \in Working => victims'[s] \cap IdsOf[t] = {}
    <3>0. \A p : phase' = [phase EXCEPT ![s] = p] => phase'[s] = p
      BY <1>0, MovesTo
    <3>1. PlanSweep(s)
      BY <1>5, <2>5, <3>0 DEF SweepMoves, QueueSweep, PlanSweep, RemovePlanned, PruneOnWrite
    <3>2. AtHead(s) /\ UNCHANGED lane /\ victims'[s] \subseteq Unprotected
      BY <1>0, <2>5, <3>1 DEF PlanSweep, StoreOK
    <3>3. \A t \in Working : t \in activeAdmissions
      BY <1>0 DEF Working, LeaseFollowsOwner
    <3>4. \A t \in Working : Unprotected \cap IdsOf[t] = {}
      BY <3>3 DEF Unprotected
    <3> QED BY <3>2, <3>4 DEF AtHead
  <2> QED BY <1>1, <2>1, <2>2, <2>3, <2>4, <2>5 DEF SweepIsHarmless
<1>6. ASSUME (\E a \in Actor : Abort(a)) \/ TurnDoor \/ UNCHANGED vars PROVE SweepIsHarmless'
  BY <1>6 DEF Abort, TurnDoor, vars, SweepIsHarmless, Working, AtHead
<1> QED BY <1>3, <1>4, <1>5, <1>6, NextCases

\* What a mutation took away stays taken away on the account of who asked.
LEMMA AskedGrows ==
  ASSUME Inv, [Next]_vars
  PROVE  /\ \A t \in Turn : AskedFor(t) \subseteq AskedFor(t)'
         /\ evicted \subseteq evicted'
<1>0. TypeOK /\ PhaseOK /\ LeaseFollowsOwner /\ TokenIsCurrent
  BY TypeParts DEF Inv
<1>1. ASSUME NEW t \in Turn, TurnMoves(t)
      PROVE  Committed' = Committed /\ UNCHANGED evicted
  <2>1. UNCHANGED drained /\ \A m \in Mutation : phase'[m] = phase[m]
    BY <1>0, <1>1, TurnLeases
  <2>2. drained \subseteq Mutation
    BY <1>0, TypeParts DEF InterruptsOK
  <2>3. UNCHANGED evicted
    BY <1>1 DEF TurnMoves, TurnStep, Begin, Round, Wake, JoinLock, Enter, Assert, Register, Cross,
       AbortQueued, SkipAborted, Release, Leave, Adopt, Cancel
  <2> QED BY <2>1, <2>2, <2>3 DEF Committed
<1>2. ASSUME NEW m \in Mutation, MutationMoves(m)
      PROVE  Committed \subseteq Committed' /\ UNCHANGED evicted
  <2>1. ASSUME NEW n \in Committed PROVE n \in Committed'
    <3>1. n \in Mutation /\ n \in drained /\ phase[n] \in {"closing", "done"}
      BY <1>0, TypeParts DEF InterruptsOK, Committed
    <3>2. CASE n # m
      BY <1>0, <1>2, <3>1, <3>2, MutationDrains DEF Committed, Actor
    <3>3. CASE n = m
      BY <1>0, <1>2, <3>1, <3>3, MutationDrains DEF Committed
    <3> QED BY <3>2, <3>3
  <2>2. UNCHANGED evicted
    BY <1>2 DEF MutationMoves, MutationStep, Ask, JoinMutationLock, JoinLock, Activate, Revalidate,
       Prepare, Drained, Run, Commit, Close
  <2> QED BY <2>1, <2>2
<1>3. ASSUME NEW s \in Sweep, SweepMoves(s)
      PROVE  Committed' = Committed /\ evicted \subseteq evicted'
  <2>1. UNCHANGED drained /\ \A m \in Mutation : phase'[m] = phase[m]
    BY <1>0, <1>3, SweepLocks, MovesTo, ActorAssumption DEF Actor
  <2>2. drained \subseteq Mutation
    BY <1>0, TypeParts DEF InterruptsOK
  <2>3. evicted \subseteq evicted'
    BY <1>3 DEF SweepMoves, QueueSweep, PlanSweep, RemovePlanned, PruneOnWrite
  <2> QED BY <2>1, <2>2, <2>3 DEF Committed
<1>4. ASSUME (\E a \in Actor : Abort(a)) \/ TurnDoor \/ UNCHANGED vars
      PROVE  Committed' = Committed /\ UNCHANGED evicted
  BY <1>4 DEF Abort, TurnDoor, vars, Committed
<1>5. Committed \subseteq Committed' /\ evicted \subseteq evicted'
  BY <1>1, <1>2, <1>3, <1>4, NextCases
<1> QED BY <1>5 DEF AskedFor

LEMMA LossStep ==
  ASSUME Inv, SweepIsHarmless, LossIsEviction, [Next]_vars
  PROVE  LossIsEviction'
<1>0. TypeOK /\ PhaseOK /\ LeaseFollowsOwner /\ DrainIsComplete /\ OnlyDrainedChange
  BY TypeParts DEF Inv
<1>a. /\ \A t \in Turn : AskedFor(t) \subseteq AskedFor(t)'
      /\ evicted \subseteq evicted'
  BY AskedGrows
<1>w. \A t \in Working : t \in Turn /\ t \in activeAdmissions
  BY <1>0 DEF Working, LeaseFollowsOwner
<1>1. ASSUME NEW t \in Turn, TurnMoves(t) PROVE LossIsEviction'
  <2>1. UNCHANGED stored
    BY <1>1 DEF TurnMoves, TurnStep, Begin, Round, Wake, JoinLock, Enter, Assert, Register, Cross,
       AbortQueued, SkipAborted, Release, Leave, Adopt, Cancel
  <2>0. \A p : phase' = [phase EXCEPT ![t] = p] => phase'[t] = p
    BY <1>0, MovesTo DEF Actor
  <2>2. t \in Working' => t \in Working \/ Allowed(t)
    <3>1. phase'[t] \in AtWork => phase[t] \in AtWork \/ Allowed(t)
      BY <1>1, <2>0 DEF TurnMoves, TurnStep, Begin, Round, Wake, JoinLock, Enter, Assert, Register,
         Cross, AbortQueued, SkipAborted, Release, Leave, Adopt, Cancel, AtWork
    <3> QED BY <3>1 DEF Working, AtWork
  <2>3. Working' \subseteq Working \cup {t}
    BY <1>1, TurnUses
  <2>4. \A u \in Working' : u \in Turn /\ (u \in Working \/ Allowed(u))
    BY <1>w, <2>2, <2>3
  <2> QED BY <1>a, <2>1, <2>4 DEF LossIsEviction, Allowed
<1>2. ASSUME NEW m \in Mutation, MutationMoves(m) PROVE LossIsEviction'
  <2>1. Working' = Working
    BY <1>2, MutationChanges
  <2>2. CASE UNCHANGED stored
    BY <1>a, <1>w, <2>1, <2>2 DEF LossIsEviction
  <2>3. CASE Commit(m)
    <3>0. phase[m] = "changing" /\ stored' = stored \ Drops[m] /\ UNCHANGED drained
          /\ phase'[m] = "closing"
      <4>1. \A p : phase' = [phase EXCEPT ![m] = p] => phase'[m] = p
        BY <1>0, MovesTo DEF Actor
      <4>2. phase'[m] = "closing"
        BY <2>3, <4>1 DEF Commit
      <4> QED BY <2>3, <4>2 DEF Commit
    <3>1. m \in Committed'
      BY <1>0, <3>0 DEF OnlyDrainedChange, Committed
    <3>2. ASSUME NEW t \in Working PROVE Drops[m] \cap IdsOf[t] \subseteq AskedFor(t)'
      <4>1. ~Overlap(t, m) \/ t = Initiator[m]
        BY <1>0, <1>w, <3>0, <3>2 DEF DrainIsComplete, OnlyDrainedChange
      <4>2. ~Overlap(t, m) => Drops[m] \cap IdsOf[t] = {}
        BY DropsAssumption DEF Overlap
      <4>3. t = Initiator[m] => Drops[m] \subseteq AskedFor(t)'
        BY <3>1 DEF AskedFor
      <4> QED BY <4>1, <4>2, <4>3
    <3> QED BY <1>a, <1>w, <2>1, <3>0, <3>2 DEF LossIsEviction
  <2>4. UNCHANGED stored \/ Commit(m)
    BY <1>2 DEF MutationMoves, MutationStep, Ask, JoinMutationLock, JoinLock, Activate, Revalidate,
       Prepare, Drained, Run, Close
  <2> QED BY <2>2, <2>3, <2>4
<1>3. ASSUME NEW s \in Sweep, SweepMoves(s) PROVE LossIsEviction'
  <2>1. Working' = Working
    BY <1>0, <1>3, SweepLocks, MovesTo, ActorAssumption DEF Working, Actor
  <2>2. CASE UNCHANGED stored
    BY <1>a, <1>w, <2>1, <2>2 DEF LossIsEviction
  <2>3. CASE RemovePlanned(s) /\ s \in LaneSweep
    <3>1. \A t \in Working : victims[s] \cap IdsOf[t] = {}
      BY <2>3 DEF RemovePlanned, SweepIsHarmless, Working
    <3>2. stored' = stored \ victims[s]
      BY <2>3 DEF RemovePlanned
    <3> QED BY <1>a, <1>w, <2>1, <3>1, <3>2 DEF LossIsEviction
  <2>4. CASE \E v : stored' = stored \ v /\ evicted' = evicted \cup v
    BY <1>a, <1>w, <2>1, <2>4 DEF LossIsEviction
  <2>5. \/ UNCHANGED stored
        \/ RemovePlanned(s) /\ s \in LaneSweep
        \/ \E v : stored' = stored \ v /\ evicted' = evicted \cup v
    BY <1>3 DEF SweepMoves, QueueSweep, PlanSweep, RemovePlanned, PruneOnWrite
  <2> QED BY <2>2, <2>3, <2>4, <2>5
<1>4. ASSUME (\E a \in Actor : Abort(a)) \/ TurnDoor \/ UNCHANGED vars PROVE LossIsEviction'
  <2>1. Working' = Working /\ UNCHANGED stored
    BY <1>4 DEF Abort, TurnDoor, vars, Working
  <2> QED BY <1>a, <1>w, <2>1 DEF LossIsEviction
<1> QED BY <1>1, <1>2, <1>3, <1>4, NextCases

\* Whatever sweeps there are, inside the writer's lane and outside of it: a
\* turn that works on its session loses it to maintenance of the SQLite store
\* or to a change it asked for, and to nothing else.
THEOREM LossesAreEvictions == Spec => []LossIsEviction
<1>1. Init => SweepIsHarmless /\ LossIsEviction
  BY DEF Init, SweepIsHarmless, LossIsEviction, Working, Sweep, Actor
<1>2. Inv /\ SweepIsHarmless /\ LossIsEviction /\ [Next]_vars
        => SweepIsHarmless' /\ LossIsEviction'
  BY SweepStep, LossStep
<1> QED BY InvCorrect, <1>1, <1>2, PTL DEF Spec

=============================================================================
