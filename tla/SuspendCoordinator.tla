-------------------------- MODULE SuspendCoordinator --------------------------
(***************************************************************************)
(* The host suspension of the gateway: src/infra/                          *)
(* gateway-suspend-coordinator.ts over the admission of WorkAdmission, as  *)
(* the RPC handlers of src/gateway/server-methods/suspend.ts call it and   *)
(* as the run loop ends it when it restarts the process.                   *)
(*                                                                         *)
(* A suspension is named by the generation of its admission lease, which   *)
(* is as unique as the random suspensionId.  A host is one controller that *)
(* asks for suspensions under its own requestId.                           *)
(***************************************************************************)
EXTENDS WorkAdmission

CONSTANTS
  Host,              \* controllers, each with its requestId
  Caller             \* roots of gateway.suspend.prepare requests

ASSUME CallerAssumption == Caller \subseteq Root \ Patient

NoEntry == [kind |-> "none", id |-> 0, reopenFrom |-> "accepting"]

VARIABLES
  current,           \* COORDINATOR_STATE.current
  retired,           \* COORDINATOR_STATE.retiredForLifecycleReset
  request,           \* the requestId of the held suspension: a host
  overdue,           \* nowMs() >= expiresAtMs of the held suspension
  schedulerPaused,   \* the cron service of this lifecycle is paused
  knownId,           \* [Host -> the last suspensionId it was given, or 0]
  trusts             \* hosts whose own clock says that their lease still runs

hostVars == <<knownId, trusts>>
coordinatorVars ==
  <<current, retired, request, overdue, schedulerPaused, hostVars>>
vars == <<admissionVars, coordinatorVars>>

Entry == [kind : {"none", "held", "recovering"}, id : Nat,
          reopenFrom : {"accepting", "preparing", "prepared"}]

TypeOK ==
  /\ AdmissionTypeOK
  /\ current \in Entry
  /\ retired \in Entry
  /\ request \in Host
  /\ overdue \in BOOLEAN
  /\ schedulerPaused \in BOOLEAN
  /\ knownId \in [Host -> Nat]
  /\ trusts \subseteq Host

Init ==
  /\ AdmissionInit
  /\ current = NoEntry
  /\ retired = NoEntry
  /\ request \in Host
  /\ overdue = FALSE
  /\ schedulerPaused = FALSE
  /\ knownId = [h \in Host |-> 0]
  /\ trusts = {}

Held == current.kind = "held"
Recovering == current.kind = "recovering"

\* What normalizeExpiredHeldSuspension tests.
Expired == Held /\ overdue

\* A reply that carries the id of the suspension, unless it is lost.
Tell(h, id, delivered) ==
  IF delivered
  THEN /\ knownId' = [knownId EXCEPT ![h] = id]
       /\ trusts' = trusts \union {h}
  ELSE UNCHANGED hostVars

-----------------------------------------------------------------------------
(* How a suspension ends.                                                  *)

\* Mutant: admission reopens although the scheduler did not resume.
Bug_ResumeAndReopen(ok) ==
  /\ ReopenSuspend(current.id, current.reopenFrom)
  /\ schedulerPaused' = ~ok
  /\ current' = NoEntry

\* resumeAndReopen of the current entry.  resumeScheduling may throw, which
\* leaves the scheduler paused: the entry recovers behind the closed door.
ResumeAndReopen(ok) ==
  IF ok
  THEN /\ ReopenSuspend(current.id, current.reopenFrom)
       /\ schedulerPaused' = FALSE
       /\ current' = NoEntry
  ELSE /\ current' = [current EXCEPT !.kind = "recovering"]
       /\ UNCHANGED <<admissionVars, schedulerPaused>>

\* The lease runs out, for the gateway and for the host that trusts it.
TimeRunsOut ==
  /\ Held
  /\ ~overdue
  /\ overdue' = TRUE
  /\ trusts' = {}
  /\ UNCHANGED <<admissionVars, current, retired, request, schedulerPaused,
                 knownId>>

\* The expiry timer, or the first prepare, status or resume call to notice.
ExpireHeld(ok) ==
  /\ Expired
  /\ ResumeAndReopen(ok)
  /\ UNCHANGED <<retired, request, overdue, hostVars>>

\* Mutant: a recovery that began while preparing never gets a retry timer.
Bug_RecoveryRetry(ok) ==
  /\ Recovering
  /\ current.reopenFrom = "prepared"
  /\ ResumeAndReopen(ok)
  /\ UNCHANGED <<retired, request, overdue, hostVars>>

\* The retry timer of scheduleRecoveryRetry, armed again by a failure.
RecoveryRetry(ok) ==
  /\ Recovering
  /\ ResumeAndReopen(ok)
  /\ UNCHANGED <<retired, request, overdue, hostVars>>

\* Mutant: any host that calls resume ends the suspension.
Bug_Resume(h, ok) ==
  /\ knownId[h] # 0
  /\ ~Expired
  /\ trusts' = trusts \ {h}
  /\ IF Held THEN ResumeAndReopen(ok)
     ELSE UNCHANGED <<admissionVars, current, schedulerPaused>>
  /\ UNCHANGED <<retired, request, overdue, knownId>>

\* resumeGatewaySuspend with the id that h was given last, maybe long ago; a
\* host that calls it has given its lease up, whatever the answer.
Resume(h, ok) ==
  /\ knownId[h] # 0
  /\ ~Expired
  /\ trusts' = trusts \ {h}
  /\ IF Held /\ current.id = knownId[h]
     THEN ResumeAndReopen(ok)
     ELSE UNCHANGED <<admissionVars, current, schedulerPaused>>
  /\ UNCHANGED <<retired, request, overdue, knownId>>

-----------------------------------------------------------------------------
(* gateway.suspend.prepare                                                 *)

\* Its handler runs in a root of its own, or without one while the door is
\* closed: it is one of the methods allowed during a suspension.
InRequest(own) ==
  \/ own = {} /\ Closed
  \/ own \in {{r} : r \in Caller \intersect ActiveRoots}

\* Mutant: the snapshot overlooks the roots in flight.
Bug_IdleBut(own, otherWork) == ~otherWork

\* The snapshot of gateway-active-work.ts counts the roots other than the
\* caller's own, and work that is no root: queues, replies, cron runs, turns.
IdleBut(own, otherWork) == ActiveRoots \subseteq own /\ ~otherWork

\* Hold a new suspension: begin, pause, inspect, commit, arm the expiry.
Hold(h, delivered) ==
  /\ suspendPhase' = "prepared"
  /\ suspendGeneration' = suspendGeneration + 1
  /\ rootState' = IF Expired THEN Woken ELSE rootState
  /\ schedulerPaused' = TRUE
  /\ current' = [kind |-> "held", id |-> suspendGeneration + 1,
                 reopenFrom |-> "prepared"]
  /\ request' = h
  /\ overdue' = FALSE
  /\ Tell(h, suspendGeneration + 1, delivered)

\* Mutant: the recovery keeps the closure that reopens a committed lease.
Bug_BackOff(ok) ==
  /\ suspendPhase' = IF ok THEN "accepting" ELSE "preparing"
  /\ suspendGeneration' = suspendGeneration + 1
  /\ rootState' = IF ok \/ Expired THEN Woken ELSE rootState
  /\ schedulerPaused' = ~ok
  /\ current' = IF ok THEN NoEntry
                ELSE [kind |-> "recovering", id |-> suspendGeneration + 1,
                      reopenFrom |-> "prepared"]
  /\ UNCHANGED <<request, overdue, hostVars>>

\* Active work was found: resume and roll back, or recover behind the door.
BackOff(ok) ==
  /\ suspendPhase' = IF ok THEN "accepting" ELSE "preparing"
  /\ suspendGeneration' = suspendGeneration + 1
  /\ rootState' = IF ok \/ Expired THEN Woken ELSE rootState
  /\ schedulerPaused' = ~ok
  /\ current' = IF ok THEN NoEntry
                ELSE [kind |-> "recovering", id |-> suspendGeneration + 1,
                      reopenFrom |-> "preparing"]
  /\ UNCHANGED <<request, overdue, hostVars>>

\* prepareGatewaySuspend without an entry, or with an expired one that it ends
\* first, in the same call: the chains it wakes find the door closed again.
\* A door closed by a restart answers "busy" and changes nothing.
Prepare(h, own, otherWork, ok, delivered) ==
  /\ InRequest(own)
  /\ suspendPhase = "accepting" \/ Expired
  /\ ~restartDraining
  /\ ~restartSignalPending
  /\ suspendGeneration < MaxGeneration
  /\ IF IdleBut(own, otherWork) THEN Hold(h, delivered) ELSE BackOff(ok)
  /\ UNCHANGED <<restartDraining, signalVars, references, rootDrain, retired>>

\* The requestId of the held suspension: the same lease for another term.
PrepareAgain(h, own, delivered) ==
  /\ InRequest(own)
  /\ Held
  /\ ~overdue
  /\ request = h
  /\ Tell(h, current.id, delivered)
  /\ UNCHANGED <<admissionVars, current, retired, request, overdue,
                 schedulerPaused>>

-----------------------------------------------------------------------------
(* Restarts.                                                               *)

\* markGatewayRestartDraining with the callback of the current lease: the
\* entry is put aside, its timer cleared, the scheduler left as it is.  The
\* restart closes the connections of the hosts.
RestartDrain ==
  /\ MarkGatewayRestartDraining
  /\ current' = NoEntry
  /\ retired' = IF current = NoEntry THEN retired ELSE current
  /\ trusts' = {}
  /\ UNCHANGED <<request, overdue, schedulerPaused, knownId>>

\* The run loop once it has drained and closed the server: resetGateway-
\* SuspendCoordinatorForLifecycleRestart, then resetAllLanes.  The retired
\* entry reopens nothing, and the next lifecycle builds its own scheduler.
LifecycleReset ==
  /\ restartDraining
  /\ rootDrain \notin {"waiting", "woken"}
  /\ ResetGatewayWorkAdmission
  /\ current' = NoEntry
  /\ retired' = NoEntry
  /\ schedulerPaused' = FALSE
  /\ UNCHANGED <<request, overdue, hostVars>>

-----------------------------------------------------------------------------

\* Work that knows nothing of suspensions.  The suspend handlers neither
\* detach follow-ups nor retain their root.
RootStep ==
  /\ \/ \E r \in Root : BeginRoot(r) \/ BeginRootWhenOpen(r) \/ ReleaseRoot(r)
     \/ \E p, r \in Root \ Caller : ContinueRoot(p, r)
     \/ \E r \in Root \ Caller : RetainRoot(r)
     \/ WaitForRootDrain
     \/ RootDrainTimeout
     \/ RootDrainReports
     \/ BeginRestartSignal
     \/ ClearRestartSignalFence
  /\ UNCHANGED coordinatorVars

Next ==
  \/ RootStep
  \/ TimeRunsOut
  \/ RestartDrain
  \/ LifecycleReset
  \/ \E ok \in BOOLEAN :
       \/ ExpireHeld(ok)
       \/ RecoveryRetry(ok)
       \/ \E h \in Host : Resume(h, ok)
  \/ \E h \in Host, own \in {{}} \union {{r} : r \in Caller},
        delivered \in BOOLEAN :
       \/ PrepareAgain(h, own, delivered)
       \/ \E otherWork, ok \in BOOLEAN :
            Prepare(h, own, otherWork, ok, delivered)

Spec == Init /\ [][Next]_vars

\* Timers fire, a renewed lease is not renewed for ever, and the scheduler
\* resumes at one of the retries.
Fairness ==
  /\ WF_vars(TimeRunsOut)
  /\ WF_vars(ExpireHeld(TRUE) \/ RecoveryRetry(TRUE))

LiveSpec == Spec /\ Fairness

-----------------------------------------------------------------------------
(* Properties.                                                             *)

\* The door that a suspension closed always has an entry whose closure fits
\* the current generation and phase and can open it again, and no entry
\* outlives its door, through failed resumes, expiries and restarts.
FenceHasEntry ==
  IF suspendPhase = "accepting"
  THEN current = NoEntry
  ELSE /\ current # NoEntry
       /\ current.id = suspendGeneration
       /\ current.reopenFrom = suspendPhase

\* A host may freeze the process as long as its lease runs by its own clock:
\* the gateway is then prepared for that very lease, whatever other hosts ask,
\* unless a restart has closed its connection.
LeaseHonoured ==
  \A h \in trusts :
    /\ Held
    /\ knownId[h] = current.id
    /\ suspendPhase = "prepared"
    /\ schedulerPaused

\* Prepared means idle: no root is active but the one that asked for it, even
\* though live roots admit follow-ups and woken chains race for the door.
PreparedMeansIdle ==
  suspendPhase = "prepared" =>
    ActiveRoots \subseteq Caller /\ \A r, s \in ActiveRoots : r = s

\* A paused scheduler is never left behind: an entry behind a closed door will
\* resume it, or the lifecycle reset of the running restart.
PausedHasOwner ==
  schedulerPaused =>
    \/ current # NoEntry /\ suspendPhase # "accepting"
    \/ retired # NoEntry /\ restartDraining

\* A host that vanishes does not keep the gateway shut: every suspension ends.
SuspensionEnds == current # NoEntry ~> current = NoEntry

=============================================================================
