--------------------------- MODULE SessionAdmission ---------------------------
(***************************************************************************)
(* Admission of turns to sessions and exclusive changes of sessions:       *)
(* src/sessions/session-lifecycle-admission.ts with the hand-off of        *)
(* admissions of session-work-admission-handoff.ts, the FIFO lanes of      *)
(* src/shared/store-writer-queue.ts they lock with, and the maintenance    *)
(* of the session store: that of the file-backed store and that of the     *)
(* session registry, which look at the admissions, and that of the SQLite  *)
(* store on every write of a row, which does not.                          *)
(*                                                                         *)
(* One store.  A session key or session id is an identity; a turn and a    *)
(* mutation name some.  Each of them lives once.                           *)
(***************************************************************************)
EXTENDS Integers, Sequences

CONSTANTS
  Turn,              \* calls of beginSessionWorkAdmission
  Mutation,          \* calls of runExclusiveSessionLifecycleMutation
  Rollover,          \* mutations that revalidate and commit in the writer's lane
  LaneSweep,         \* maintenance of the file-backed store, in its writer lane
  SqliteSweep,       \* maintenance that removes in the SQLite writer's lane
  RowSweep,          \* maintenance that goes with the write of a row there
  Identity,          \* session keys and ids, in the order locks are taken
  IdsOf,             \* the identities a turn or a mutation names
  Drops,             \* the identities the change of a mutation takes away
  Initiator,         \* the turn a mutation was asked for from, if any
  Handed,            \* turns admitted for an RPC that is to adopt them
  Abortable          \* turns and mutations with an abort signal

Actor == Turn \cup Mutation
Sweep == LaneSweep \cup SqliteSweep \cup RowSweep

ASSUME IdentityAssumption == Identity \subseteq Int
ASSUME IdsAssumption == IdsOf \in [Actor -> SUBSET Identity]
ASSUME DropsAssumption == \A m \in Mutation : Drops[m] \subseteq IdsOf[m]
ASSUME ActorAssumption == Turn \cap Mutation = {} /\ Actor \cap Sweep = {}

VARIABLES
  phase,             \* where each turn, mutation and sweep is
  lifecycleQueues,   \* per identity its waiters, the holder first
  mutationQueues,    \* the same for mutations among themselves
  lane,              \* the store's writer lane, its running task first
  waits,             \* idleWaiters: identities a turn waits to become idle
  activeAdmissions,  \* turns that are registered
  interrupted,       \* admissions a mutation interrupted
  told,              \* turns whose owner's onInterrupt was called
  hand,              \* the token of a turn in Handed
  drain,             \* the admissions a mutation waits for
  drained,           \* mutations whose admissions were all released in time
  stored,            \* identities the store has an entry for
  victims,           \* what a sweep has decided to remove
  evicted,           \* what maintenance of the SQLite store removed (history)
  aborted,           \* actors whose signal is aborted
  closed             \* isGatewaySubordinateWorkAdmissionClosed

lockVars == <<lifecycleQueues, mutationQueues>>
interruptVars == <<interrupted, told, hand, drain, drained>>
storeVars == <<stored, victims, evicted>>
vars == <<phase, lockVars, lane, waits, activeAdmissions, interruptVars,
          storeVars, aborted, closed>>

TurnPhase == {"new", "idle", "locking", "asserting", "asserted", "barrier", "admitted",
              "leaving", "released", "failed"}
ActivePhase == {"revalidating", "preparing", "draining", "relocking", "changing", "closing"}
MutationPhase == {"new", "queueing", "locking", "done"} \cup ActivePhase

TypeOK ==
  /\ phase \in [Actor \cup Sweep -> TurnPhase \cup MutationPhase \cup {"removing"}]
  /\ \A t \in Turn : phase[t] \in TurnPhase
  /\ \A m \in Mutation : phase[m] \in MutationPhase
  /\ lifecycleQueues \in [Identity -> Seq(Actor)]
  /\ mutationQueues \in [Identity -> Seq(Mutation)]
  /\ lane \in Seq(Actor \cup Sweep)
  /\ waits \in [Turn -> SUBSET Identity]
  /\ \A t \in Turn : waits[t] \subseteq IdsOf[t]
  /\ activeAdmissions \subseteq Turn
  /\ interrupted \subseteq Turn
  /\ told \subseteq interrupted
  /\ hand \in [Turn -> {"none", "open", "adopted", "owned"}]
  /\ drain \in [Mutation -> SUBSET Turn]
  /\ drained \subseteq Mutation
  /\ stored \subseteq Identity
  /\ victims \in [Sweep -> SUBSET Identity]
  /\ evicted \subseteq Identity
  /\ aborted \subseteq Actor
  /\ closed \in BOOLEAN

Init ==
  /\ phase = [a \in Actor \cup Sweep |-> "new"]
  /\ lifecycleQueues = [i \in Identity |-> <<>>]
  /\ mutationQueues = [i \in Identity |-> <<>>]
  /\ lane = <<>>
  /\ waits = [t \in Turn |-> {}]
  /\ activeAdmissions = {}
  /\ interrupted = {}
  /\ told = {}
  /\ hand = [t \in Turn |-> "none"]
  /\ drain = [m \in Mutation |-> {}]
  /\ drained = {}
  /\ stored = Identity
  /\ victims = [s \in Sweep |-> {}]
  /\ evicted = {}
  /\ aborted = {}
  /\ closed = FALSE

Goto(a, p) == phase' = [phase EXCEPT ![a] = p]

-----------------------------------------------------------------------------
(* Locks.  An actor takes those of its identities one after the other and  *)
(* holds one while it is first in its queue.                               *)

Queued(q, a) == \E n \in DOMAIN q : q[n] = a
Holds(queues, a, i) == queues[i] # <<>> /\ Head(queues[i]) = a
HoldsAll(queues, a) == \A i \in IdsOf[a] : Holds(queues, a, i)

\* The queues once a has joined that of its next identity.
Joins(queues, a) ==
  LET rest == {i \in IdsOf[a] : ~Queued(queues[i], a)}
  IN  {[queues EXCEPT ![i] = Append(@, a)] :
         i \in {j \in rest : /\ \A k \in rest : j <= k
                             /\ \A k \in IdsOf[a] \ rest : Holds(queues, a, k)}}

Unlocked(queues, a) ==
  [i \in Identity |-> IF i \in IdsOf[a] /\ Holds(queues, a, i)
                      THEN Tail(queues[i]) ELSE queues[i]]

Unlock(a) == lifecycleQueues' = Unlocked(lifecycleQueues, a)

\* The task of a is the one that runs in the writer's lane.
AtHead(a) == lane # <<>> /\ Head(lane) = a

Overlap(a, b) == IdsOf[a] \cap IdsOf[b] # {}

\* Mutations counted in activeMutations.
Active == {m \in Mutation : phase[m] \in ActivePhase}

\* The identities of t that have an active mutation.
Bug_BusyIdentities(t) == UNION {IdsOf[m] : m \in {n \in Active : Overlap(n, t)}}
BusyIdentities(t) == {i \in IdsOf[t] : \E m \in Active : i \in IdsOf[m]}

-----------------------------------------------------------------------------
(* Turns.                                                                  *)

\* One round of runExclusiveSessionLifecycle up to its first lock.
Round(t) ==
  /\ Goto(t, IF t \in aborted THEN "failed"
             ELSE IF BusyIdentities(t) # {} THEN "idle" ELSE "locking")
  /\ waits' = [waits EXCEPT ![t] = IF t \in aborted THEN {} ELSE BusyIdentities(t)]

Begin(t) ==
  /\ phase[t] = "new"
  /\ \/ closed /\ Goto(t, "failed") /\ UNCHANGED waits
     \/ ~closed /\ Round(t)
  /\ UNCHANGED <<lockVars, lane, activeAdmissions, interruptVars, storeVars, aborted, closed>>

\* waitForNormalizedSessionLifecycleMutationIdle ends.
Wake(t) ==
  /\ phase[t] = "idle"
  /\ waits[t] = {} \/ t \in aborted
  /\ Round(t)
  /\ UNCHANGED <<lockVars, lane, activeAdmissions, interruptVars, storeVars, aborted, closed>>

JoinLock(a) ==
  /\ phase[a] \in {"locking", "relocking", "closing"}
  /\ lifecycleQueues' \in Joins(lifecycleQueues, a)
  /\ UNCHANGED <<phase, mutationQueues, lane, waits, activeAdmissions, interruptVars,
                 storeVars, aborted, closed>>

\* All locks are held: fail, make way for a mutation, or go on.
Enter(t) ==
  /\ phase[t] = "locking"
  /\ HoldsAll(lifecycleQueues, t)
  /\ \/ /\ t \in aborted
        /\ Goto(t, "failed")
        /\ Unlock(t)
     \/ /\ t \notin aborted
        /\ BusyIdentities(t) # {}
        /\ Goto(t, "idle")
        /\ Unlock(t)
     \/ /\ t \notin aborted
        /\ BusyIdentities(t) = {}
        /\ Goto(t, "asserting")
        /\ UNCHANGED lifecycleQueues
  /\ UNCHANGED <<mutationQueues, lane, waits, activeAdmissions, interruptVars,
                 storeVars, aborted, closed>>

\* assertAllowed of a turn that is to find its session.
Allowed(t) == IdsOf[t] \subseteq stored

Assert(t) ==
  /\ phase[t] = "asserting"
  /\ \/ Allowed(t) /\ Goto(t, "asserted") /\ UNCHANGED lifecycleQueues
     \/ ~Allowed(t) /\ Goto(t, "failed") /\ Unlock(t)
  /\ UNCHANGED <<mutationQueues, lane, waits, activeAdmissions, interruptVars, storeVars,
                 aborted, closed>>

\* The continuation after assertAllowed: the turn is registered with its locks
\* held and queues for the writer's lane.
Register(t) ==
  /\ phase[t] = "asserted"
  /\ \/ /\ closed
        /\ Goto(t, "failed")
        /\ Unlock(t)
        /\ UNCHANGED <<activeAdmissions, lane>>
     \/ /\ ~closed
        /\ Goto(t, "barrier")
        /\ activeAdmissions' = activeAdmissions \cup {t}
        /\ lane' = Append(lane, t)
        /\ UNCHANGED lifecycleQueues
  /\ UNCHANGED <<mutationQueues, waits, interruptVars, storeVars, aborted, closed>>

\* revalidateAllowed in the writer's lane; a turn for an RPC offers its token.
Bug_Cross(t) ==
  /\ phase[t] = "barrier"
  /\ AtHead(t)
  /\ lane' = Tail(lane)
  /\ Unlock(t)
  /\ \/ /\ t \in aborted
        /\ Goto(t, "failed")
        /\ activeAdmissions' = activeAdmissions \ {t}
        /\ UNCHANGED hand
     \/ /\ t \notin aborted
        /\ Goto(t, "admitted")
        /\ hand' = [hand EXCEPT ![t] = IF t \in Handed THEN "open" ELSE @]
        /\ UNCHANGED activeAdmissions
  /\ UNCHANGED <<mutationQueues, waits, interrupted, told, drain, drained, storeVars,
                 aborted, closed>>
Cross(t) ==
  /\ phase[t] = "barrier"
  /\ AtHead(t)
  /\ lane' = Tail(lane)
  /\ Unlock(t)
  /\ \/ /\ t \in aborted \/ ~Allowed(t)
        /\ Goto(t, "failed")
        /\ activeAdmissions' = activeAdmissions \ {t}
        /\ UNCHANGED hand
     \/ /\ t \notin aborted /\ Allowed(t)
        /\ Goto(t, "admitted")
        /\ hand' = [hand EXCEPT ![t] = IF t \in Handed THEN "open" ELSE @]
        /\ UNCHANGED activeAdmissions
  /\ UNCHANGED <<mutationQueues, waits, interrupted, told, drain, drained, storeVars,
                 aborted, closed>>

\* An abort before the lane came to the turn; its task stays queued.
AbortQueued(t) ==
  /\ phase[t] = "barrier"
  /\ t \in aborted
  /\ ~AtHead(t)
  /\ Goto(t, "failed")
  /\ activeAdmissions' = activeAdmissions \ {t}
  /\ Unlock(t)
  /\ UNCHANGED <<mutationQueues, lane, waits, interruptVars, storeVars, aborted, closed>>

SkipAborted(t) ==
  /\ phase[t] = "failed"
  /\ AtHead(t)
  /\ lane' = Tail(lane)
  /\ UNCHANGED <<phase, lockVars, waits, activeAdmissions, interruptVars, storeVars,
                 aborted, closed>>

\* The owner waits for the mutation it asked for, until that is over or its
\* call is rejected because the signal aborted a mutation still queued.
InBand(t) ==
  \E m \in Mutation : /\ Initiator[m] = t
                      /\ \/ phase[m] \in ActivePhase
                         \/ phase[m] \in {"queueing", "locking"} /\ m \notin aborted

\* The owner of the lease can be interrupted.
HasHandler(t) == t \notin Handed \/ hand[t] \in {"adopted", "owned"}

\* The owner ends its work with a write, and releases the lease after it.
Leave(t) ==
  /\ phase[t] = "admitted"
  /\ HasHandler(t)
  /\ ~InBand(t)
  /\ Goto(t, "leaving")
  /\ lane' = Append(lane, t)
  /\ UNCHANGED <<lockVars, waits, activeAdmissions, interruptVars, storeVars, aborted, closed>>

\* The write changes the entry a sweep may have seen.
Release(t) ==
  /\ phase[t] = "leaving"
  /\ AtHead(t)
  /\ lane' = Tail(lane)
  /\ Goto(t, "released")
  /\ activeAdmissions' = activeAdmissions \ {t}
  /\ victims' = [s \in Sweep |-> victims[s] \ IdsOf[t]]
  /\ UNCHANGED <<lockVars, waits, interruptVars, stored, evicted, aborted, closed>>

\* consumeSessionWorkAdmissionHandoff.
Bug_Adopt(t) ==
  /\ hand[t] = "open"
  /\ hand' = [hand EXCEPT ![t] = "adopted"]
  /\ UNCHANGED <<phase, lockVars, lane, waits, activeAdmissions, interrupted, told, drain,
                 drained, storeVars, aborted, closed>>
Adopt(t) ==
  /\ hand[t] = "open"
  /\ hand' = [hand EXCEPT ![t] = "adopted"]
  /\ told' = told \cup ({t} \cap interrupted)
  /\ UNCHANGED <<phase, lockVars, lane, waits, activeAdmissions, interrupted, drain,
                 drained, storeVars, aborted, closed>>

\* cancelSessionWorkAdmissionHandoff, in the creator's finally: a token that was
\* not adopted ends the lease, one that was has an owner already.
Cancel(t) ==
  /\ \/ /\ hand[t] = "open"
        /\ hand' = [hand EXCEPT ![t] = "none"]
        /\ Goto(t, "released")
        /\ activeAdmissions' = activeAdmissions \ {t}
     \/ /\ hand[t] = "adopted"
        /\ hand' = [hand EXCEPT ![t] = "owned"]
        /\ UNCHANGED <<phase, activeAdmissions>>
  /\ UNCHANGED <<lockVars, lane, waits, interrupted, told, drain, drained, storeVars,
                 aborted, closed>>

-----------------------------------------------------------------------------
(* Mutations.                                                              *)

Ask(m) ==
  /\ phase[m] = "new"
  /\ m \notin aborted
  /\ Initiator[m] \in Turn =>
       phase[Initiator[m]] = "admitted" /\ HasHandler(Initiator[m])
  /\ Goto(m, "queueing")
  /\ UNCHANGED <<lockVars, lane, waits, activeAdmissions, interruptVars, storeVars, aborted, closed>>

JoinMutationLock(m) ==
  /\ phase[m] = "queueing"
  /\ \/ /\ mutationQueues' \in Joins(mutationQueues, m)
        /\ UNCHANGED phase
     \/ /\ HoldsAll(mutationQueues, m)
        /\ Goto(m, "locking")
        /\ UNCHANGED mutationQueues
  /\ UNCHANGED <<lifecycleQueues, lane, waits, activeAdmissions, interruptVars, storeVars,
                 aborted, closed>>

\* All locks are held: an abandoned mutation throws, another becomes active
\* and lets go of the lifecycle locks.  A rollover queues for the writer's lane.
Activate(m) ==
  /\ phase[m] = "locking"
  /\ HoldsAll(lifecycleQueues, m)
  /\ Unlock(m)
  /\ \/ /\ m \in aborted
        /\ Goto(m, "done")
        /\ mutationQueues' = Unlocked(mutationQueues, m)
        /\ UNCHANGED lane
     \/ /\ m \notin aborted
        /\ Goto(m, IF m \in Rollover THEN "revalidating" ELSE "preparing")
        /\ lane' = IF m \in Rollover THEN Append(lane, m) ELSE lane
        /\ UNCHANGED mutationQueues
  /\ UNCHANGED <<waits, activeAdmissions, interruptVars, storeVars, aborted, closed>>

\* A rollover looks at its session once more before it interrupts anyone.
Revalidate(m) ==
  /\ phase[m] = "revalidating"
  /\ AtHead(m)
  /\ lane' = Tail(lane)
  /\ Goto(m, "preparing")
  /\ UNCHANGED <<lockVars, waits, activeAdmissions, interruptVars, storeVars, aborted, closed>>

\* The admissions interruptSessionWorkAdmissions finds for m.
Foreign(m) == {t \in activeAdmissions : Overlap(t, m) /\ t # Initiator[m]}

\* prepare: the change turns out to be impossible, or others are interrupted.
Prepare(m) ==
  /\ phase[m] = "preparing"
  /\ \/ /\ Goto(m, "relocking")
        /\ UNCHANGED <<interrupted, told, drain>>
     \/ /\ Goto(m, "draining")
        /\ drain' = [drain EXCEPT ![m] = Foreign(m)]
        /\ interrupted' = interrupted \cup Foreign(m)
        /\ told' = told \cup {t \in Foreign(m) : HasHandler(t)}
  /\ UNCHANGED <<lockVars, lane, waits, activeAdmissions, hand, drained, storeVars, aborted, closed>>

\* All interrupted admissions are released, or the time for it is over.
Drained(m) ==
  /\ phase[m] = "draining"
  /\ Goto(m, "relocking")
  /\ drained' = IF drain[m] \cap activeAdmissions = {} THEN drained \cup {m} ELSE drained
  /\ UNCHANGED <<lockVars, lane, waits, activeAdmissions, interrupted, told, hand, drain,
                 storeVars, aborted, closed>>

\* run under the lifecycle locks: only a drained mutation changes anything.
Bug_Run(m) ==
  /\ phase[m] = "relocking"
  /\ HoldsAll(lifecycleQueues, m)
  /\ Goto(m, "changing")
  /\ lane' = IF m \in Rollover THEN Append(lane, m) ELSE lane
  /\ UNCHANGED <<lockVars, waits, activeAdmissions, interruptVars, storeVars, aborted, closed>>
Run(m) ==
  /\ phase[m] = "relocking"
  /\ HoldsAll(lifecycleQueues, m)
  /\ \/ /\ m \in drained
        /\ Goto(m, "changing")
        /\ lane' = IF m \in Rollover THEN Append(lane, m) ELSE lane
        /\ UNCHANGED lifecycleQueues
     \/ /\ m \notin drained
        /\ Goto(m, "closing")
        /\ Unlock(m)
        /\ UNCHANGED lane
  /\ UNCHANGED <<mutationQueues, waits, activeAdmissions, interruptVars, storeVars, aborted, closed>>

\* The change is committed, that of a rollover in the writer's lane, that of a
\* reset or a delete in the queue of the SQLite writer.
Commit(m) ==
  /\ phase[m] = "changing"
  /\ m \in Rollover => AtHead(m)
  /\ lane' = IF m \in Rollover THEN Tail(lane) ELSE lane
  /\ stored' = stored \ Drops[m]
  /\ Goto(m, "closing")
  /\ Unlock(m)
  /\ UNCHANGED <<mutationQueues, waits, activeAdmissions, interruptVars, victims, evicted, aborted, closed>>

\* The finally of the mutation: those that wait for its identities go on.
Bug_Close(m) ==
  /\ phase[m] = "closing"
  /\ HoldsAll(lifecycleQueues, m)
  /\ Goto(m, "done")
  /\ Unlock(m)
  /\ mutationQueues' = Unlocked(mutationQueues, m)
  /\ waits' = [t \in Turn |-> waits[t] \ (IdsOf[m] \ Drops[m])]
  /\ UNCHANGED <<lane, activeAdmissions, interruptVars, storeVars, aborted, closed>>
Close(m) ==
  /\ phase[m] = "closing"
  /\ HoldsAll(lifecycleQueues, m)
  /\ Goto(m, "done")
  /\ Unlock(m)
  /\ mutationQueues' = Unlocked(mutationQueues, m)
  /\ waits' = [t \in Turn |-> waits[t] \ IdsOf[m]]
  /\ UNCHANGED <<lane, activeAdmissions, interruptVars, storeVars, aborted, closed>>

-----------------------------------------------------------------------------
(* Maintenance and the surroundings.                                       *)

\* What a sweep that looks at the admissions may remove:
\* collectActiveSessionWorkAdmissionKeys keeps the sessions of registered turns.
Unprotected == stored \ UNION {IdsOf[t] : t \in activeAdmissions}

QueueSweep(s) ==
  /\ phase[s] = "new"
  /\ Goto(s, "queueing")
  /\ lane' = Append(lane, s)
  /\ UNCHANGED <<lockVars, waits, activeAdmissions, interruptVars, storeVars, aborted, closed>>

\* applyEnforcedMaintenance runs in the writer's lane;
\* runSessionRegistryMaintenanceForStore only removes in one, another than that.
PlanSweep(s) ==
  /\ s \notin RowSweep
  /\ phase[s] = IF s \in LaneSweep THEN "queueing" ELSE "new"
  /\ s \in LaneSweep => AtHead(s)
  /\ Goto(s, "removing")
  /\ \E v \in SUBSET Unprotected : victims' = [victims EXCEPT ![s] = v]
  /\ UNCHANGED <<lockVars, lane, waits, activeAdmissions, interruptVars, stored, evicted, aborted, closed>>

RemovePlanned(s) ==
  /\ phase[s] = "removing"
  /\ s \in LaneSweep => AtHead(s)
  /\ Goto(s, "done")
  /\ stored' = stored \ victims[s]
  /\ evicted' = IF s \in LaneSweep THEN evicted ELSE evicted \cup victims[s]
  /\ victims' = [victims EXCEPT ![s] = {}]
  /\ lane' = IF s \in LaneSweep THEN Tail(lane) ELSE lane
  /\ UNCHANGED <<lockVars, waits, activeAdmissions, interruptVars, aborted, closed>>

\* applySqliteSessionEntryMaintenance and its finalizer: the write of a row, of
\* any session, removes what is stale, too many or too large in the same turn of
\* the event loop.  It keeps the row written and its parents, not the admissions.
PruneOnWrite(s) ==
  /\ phase[s] = "new"
  /\ Goto(s, "done")
  /\ \E v \in (SUBSET stored) \ {{}} :
       /\ stored' = stored \ v
       /\ evicted' = evicted \cup v
  /\ UNCHANGED <<lockVars, lane, waits, activeAdmissions, interruptVars, victims, aborted, closed>>

\* An abort matters to a turn that is not admitted yet and to a mutation that
\* is queued; nobody looks at the signal after that.
Abort(a) ==
  /\ a \in Abortable \ aborted
  /\ \/ phase[a] = "new" /\ a \in Turn
     \/ phase[a] \in {"idle", "locking", "asserting", "asserted", "barrier", "queueing"}
  /\ aborted' = aborted \cup {a}
  /\ UNCHANGED <<phase, lockVars, lane, waits, activeAdmissions, interruptVars, storeVars, closed>>

\* A restart drain or a host suspension closes the door, and may open it again.
TurnDoor ==
  /\ closed' = ~closed
  /\ UNCHANGED <<phase, lockVars, lane, waits, activeAdmissions, interruptVars, storeVars, aborted>>

-----------------------------------------------------------------------------

\* What goes on by itself once it was asked for.
TurnStep(t) ==
  Wake(t) \/ JoinLock(t) \/ Enter(t) \/ Assert(t) \/ Register(t) \/ Cross(t) \/ AbortQueued(t)
    \/ SkipAborted(t) \/ Release(t)
MutationStep(m) ==
  JoinMutationLock(m) \/ JoinLock(m) \/ Activate(m) \/ Revalidate(m) \/ Prepare(m)
    \/ Drained(m) \/ Run(m) \/ Commit(m) \/ Close(m)

Next ==
  \/ \E t \in Turn : Begin(t) \/ TurnStep(t) \/ Leave(t) \/ Adopt(t) \/ Cancel(t)
  \/ \E m \in Mutation : Ask(m) \/ MutationStep(m)
  \/ \E s \in LaneSweep : QueueSweep(s)
  \/ \E s \in Sweep : PlanSweep(s) \/ RemovePlanned(s)
  \/ \E s \in RowSweep : PruneOnWrite(s)
  \/ \E a \in Actor : Abort(a)
  \/ TurnDoor

Spec == Init /\ [][Next]_vars

\* Promises and queued tasks get on, a drain has a timeout, and nothing is said
\* of the owners: an admitted turn may go on for ever.
LiveSpec ==
  /\ Spec
  /\ \A t \in Turn : WF_vars(TurnStep(t))
  /\ \A m \in Mutation : WF_vars(MutationStep(m))
  /\ \A s \in LaneSweep : WF_vars(PlanSweep(s) \/ RemovePlanned(s))

-----------------------------------------------------------------------------
(* Properties.                                                             *)

Working == {t \in Turn : phase[t] \in {"admitted", "leaving"}}
Changing == {m \in Mutation : phase[m] = "changing"}

\* Many turns or one mutation at a time on every session, and nobody through a
\* closed door, whatever the order of registrations, hand-offs, interrupts,
\* timeouts and aborts: see SessionExclusion.
Exclusion == INSTANCE SessionExclusion
  WITH leased <- activeAdmissions, using <- Working, changing <- Changing
SessionsAreExclusive == Exclusion!Spec

\* What the mutations that a turn asked for have taken away, once they did.
Committed == {m \in drained : phase[m] \in {"closing", "done"}}
AskedFor(t) == UNION {Drops[m] : m \in {n \in Committed : Initiator[n] = t}}

\* An admitted turn loses its session to nothing but maintenance of the SQLite
\* store: no mutation of another actor, however its drain ended, and no
\* maintenance in the writer's lane, planned before or after the registration,
\* takes it away.  (What maintenance of the SQLite store may take is anything.)
LossIsEviction == \A t \in Working : IdsOf[t] \ (AskedFor(t) \cup evicted) \subseteq stored

\* The comments promise it of every maintenance ("every active admission"): an
\* admitted turn keeps its session.
AdmittedKeepsSession == \A t \in Working : IdsOf[t] \ AskedFor(t) \subseteq stored

\* An interrupted owner that can be told was told, when the interrupt came
\* before the admission had been adopted, too.
InterruptReachesOwner ==
  \A t \in Working \cap interrupted : HasHandler(t) => t \in told

\* Every call of beginSessionWorkAdmission and every mutation comes to an end,
\* even if no admitted turn ever ends: no lock order, no lane and no missed
\* wake-up leaves one waiting for ever.  (Each lives once, so all of them are
\* at rest in the end exactly if none is stuck.)
AtRest ==
  /\ \A t \in Turn : phase[t] \in {"new", "failed", "admitted", "leaving", "released"}
  /\ \A m \in Mutation : phase[m] \in {"new", "done"}
EverythingSettles == <>[]AtRest

=============================================================================
