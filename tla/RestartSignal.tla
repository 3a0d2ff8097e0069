---------------------------- MODULE RestartSignal ----------------------------
(***************************************************************************)
(* The restart signal: src/infra/restart.ts emits it behind the            *)
(* restart-signal fence of WorkAdmission and the run loop                  *)
(* (src/cli/gateway-cli/run-loop.ts) turns it into the restart drain.      *)
(*                                                                         *)
(* An Emitter is one call of emitPreparedGatewayRestart, which joins the   *)
(* active roots as independent work and awaits preparation hooks before it *)
(* emits.  A Requester is a root (an RPC, a config reload) that calls      *)
(* requestGatewayRestartWithSignalAdmission, which never yields.           *)
(***************************************************************************)
EXTENDS WorkAdmission

CONSTANTS
  Emitter,           \* calls of emitPreparedGatewayRestart
  Cancellable,       \* emitters that a deferral may cancel
  Requester,         \* roots that request a restart synchronously
  MaxExternal        \* bound: SIGUSR1 sent by another process

ASSUME EmitterAssumption ==
  /\ Emitter \subseteq Patient
  /\ Cancellable \subseteq Emitter
  /\ Requester \subseteq Root \ Patient
  /\ MaxExternal \in Nat

VARIABLES
  stage,             \* [Emitter -> where its call stands]
  lease,             \* [Emitter -> generation of its signalAdmission]
  ownsFence,         \* emitters that created their lease: ownsFenceLease
  fenceActive,       \* emitters that may still emit
  stale,             \* emitters of an older restartTransientGeneration
  pendingLease,      \* generation of pendingRestartSignalAdmission, or 0
  unconsumed,        \* hasUnconsumedRestartSignal
  authorized,        \* sigusr1AuthorizedCount
  handlers,          \* onSigusr1 calls that await the lifecycle module
  externals,         \* signals from outside so far
  loop,              \* where the run loop stands
  drainMarked        \* its restartDrainingMarked

emitterVars == <<stage, lease, ownsFence, fenceActive, stale>>
signalState == <<pendingLease, unconsumed, authorized, handlers>>
loopVars == <<externals, loop, drainMarked>>
vars == <<admissionVars, emitterVars, signalState, loopVars>>

TypeOK ==
  /\ AdmissionTypeOK
  /\ stage \in [Emitter ->
       {"idle", "preparing", "emitted", "unsent", "leaving", "done"}]
  /\ lease \in [Emitter -> Nat]
  /\ ownsFence \subseteq Emitter
  /\ fenceActive \subseteq Emitter
  /\ stale \subseteq Emitter
  /\ pendingLease \in Nat
  /\ unconsumed \in BOOLEAN
  /\ authorized \in Nat
  /\ handlers \in Nat
  /\ externals \in 0 .. MaxExternal
  /\ loop \in {"serving", "accepted", "draining", "resetting", "queued"}
  /\ drainMarked \in BOOLEAN

Init ==
  /\ AdmissionInit
  /\ stage = [e \in Emitter |-> "idle"]
  /\ lease = [e \in Emitter |-> 0]
  /\ ownsFence = {}
  /\ fenceActive = {}
  /\ stale = {}
  /\ pendingLease = 0
  /\ unconsumed = FALSE
  /\ authorized = 0
  /\ handlers = 0
  /\ externals = 0
  /\ loop = "serving"
  /\ drainMarked = FALSE

-----------------------------------------------------------------------------
(* The fence and the signal.                                               *)

\* The reversible fence is closed and no drain has taken it over.
Reversible == restartSignalPending /\ ~restartDraining

\* Mutant: the reopened fence wakes nobody.
Bug_ReopenIf(condition) ==
  /\ UNCHANGED rootState
  /\ IF condition /\ Reversible
     THEN /\ restartSignalPending' = FALSE
          /\ restartSignalGeneration' = restartSignalGeneration + 1
     ELSE UNCHANGED signalVars

\* clearRestartSignalFence
ReopenIf(condition) ==
  IF condition /\ Reversible
  THEN /\ restartSignalPending' = FALSE
       /\ restartSignalGeneration' = restartSignalGeneration + 1
       /\ rootState' = Woken
  ELSE UNCHANGED <<signalVars, rootState>>

\* Mutant: the lease is dropped and the fence it closed stays closed.
Bug_ClearPendingLease == pendingLease' = 0 /\ ReopenIf(FALSE)

\* clearPendingRestartSignalAdmission: the lease reopens the fence, or the
\* orphan fence is reopened without one.
ClearPendingLease == pendingLease' = 0 /\ ReopenIf(TRUE)

\* emitGatewayRestartWithSignalAdmission up to the emission: keep the pending
\* lease, or reopen an orphan fence and take it, unless the door is not ours.
TakeLease ==
  IF pendingLease # 0 \/ restartDraining \/ (restartSignalPending /\ unconsumed)
  THEN UNCHANGED <<signalVars, rootState, pendingLease>>
  ELSE /\ restartSignalPending' = TRUE
       /\ restartSignalGeneration' = restartSignalGeneration + 1
       /\ pendingLease' = restartSignalGeneration + 1
       /\ rootState' = IF restartSignalPending THEN Woken ELSE rootState

\* requestGatewayRestartWithSignalAdmission: it coalesces with a signal on its
\* way, and fails when the drain owns the door or raising the signal throws,
\* which reopens the fence.
Request(result) ==
  \/ /\ result = "coalesced"
     /\ unconsumed
     /\ TakeLease
     /\ UNCHANGED <<unconsumed, authorized, handlers>>
  \/ /\ result = "emitted"
     /\ ~unconsumed
     /\ pendingLease # 0 \/ ~restartDraining
     /\ TakeLease
     /\ unconsumed' = TRUE
     /\ authorized' = authorized + 1
     /\ handlers' = handlers + 1
  \/ /\ result = "failed"
     /\ ~unconsumed
     /\ ClearPendingLease
     /\ UNCHANGED <<unconsumed, authorized, handlers>>

Results == {"emitted", "coalesced", "failed"}

-----------------------------------------------------------------------------
(* emitPreparedGatewayRestart                                              *)

\* Mutant: a due restart only waits for restarts, not for a suspension.
Bug_DoorShut == restartDraining \/ restartSignalPending

\* What tryBeginGatewayIndependentRootWorkAdmission tests for an emitter.
DoorShut == Closed

\* One turn of runWithGatewayIndependentRootWorkAdmission, and behind the open
\* door everything up to the first await: coalesce, take the fence or adopt
\* its lease, check again that the process is idle, start to prepare.
Attempt(e, idle) ==
  /\ rootState[e] \in {"new", "woken"}
  /\ UNCHANGED <<restartDraining, suspendVars, rootDrain, unconsumed,
                 authorized, handlers, loopVars>>
  /\ \/ /\ DoorShut
        /\ rootState' = [rootState EXCEPT ![e] =
             IF restartDraining THEN "refused" ELSE "parked"]
        /\ UNCHANGED <<signalVars, references, emitterVars, pendingLease>>
     \/ /\ ~DoorShut
        /\ rootState' = [rootState EXCEPT ![e] = "active"]
        /\ references' = [references EXCEPT ![e] = 1]
        /\ \/ /\ unconsumed \/ e \in stale
              /\ stage' = [stage EXCEPT ![e] = "leaving"]
              /\ UNCHANGED <<signalVars, lease, ownsFence, fenceActive, stale,
                             pendingLease>>
           \/ /\ ~unconsumed /\ e \notin stale
              /\ IF pendingLease # 0
                 THEN /\ lease' = [lease EXCEPT ![e] = pendingLease]
                      /\ UNCHANGED <<signalVars, ownsFence, pendingLease>>
                 ELSE /\ restartSignalGeneration < MaxGeneration
                      /\ restartSignalPending' = TRUE
                      /\ restartSignalGeneration' = restartSignalGeneration + 1
                      /\ lease' =
                           [lease EXCEPT ![e] = restartSignalGeneration + 1]
                      /\ pendingLease' = restartSignalGeneration + 1
                      /\ ownsFence' = ownsFence \union {e}
              /\ fenceActive' = fenceActive \union {e}
              /\ stage' = [stage EXCEPT ![e] =
                             IF idle THEN "preparing" ELSE "unsent"]
              /\ UNCHANGED stale

\* The hooks have settled, well or not: bail out, or emit.  The hooks of a
\* config reload may also refuse to emit on their own.
Prepared(e, result) ==
  /\ stage[e] = "preparing"
  /\ IF e \in fenceActive \ stale
     THEN Request(result)
     ELSE result = "failed" /\ UNCHANGED <<signalVars, rootState, signalState>>
  /\ stage' = [stage EXCEPT ![e] =
       IF result = "emitted" \/ (result = "coalesced" /\ unconsumed)
       THEN "emitted" ELSE "unsent"]
  /\ UNCHANGED <<restartDraining, suspendVars, references, rootDrain, lease,
                 ownsFence, fenceActive, stale, loopVars>>

\* The reload hooks refuse to emit: their generation is over or their
\* preflight failed.
PreparedRefuses(e) ==
  /\ stage[e] = "preparing"
  /\ e \in Cancellable
  /\ stage' = [stage EXCEPT ![e] = "unsent"]
  /\ UNCHANGED <<admissionVars, lease, ownsFence, fenceActive, stale,
                 signalState, loopVars>>

\* Mutant: the fence reopens even over a signal on its way.
Bug_RollbackFence(e) ==
  /\ fenceActive' = fenceActive \ {e}
  /\ IF e \in ownsFence
     THEN /\ ReopenIf(restartSignalGeneration = lease[e])
          /\ pendingLease' = IF pendingLease = lease[e] THEN 0 ELSE pendingLease
     ELSE UNCHANGED <<signalVars, rootState, pendingLease>>

\* rollbackFence: only the creator of the lease reopens the fence, and never
\* over a signal that a sharer of the lease has sent meanwhile.
RollbackFence(e) ==
  IF unconsumed
  THEN UNCHANGED <<signalVars, rootState, pendingLease, fenceActive>>
  ELSE /\ fenceActive' = fenceActive \ {e}
       /\ IF e \in ownsFence
          THEN /\ ReopenIf(restartSignalGeneration = lease[e])
               /\ pendingLease' =
                    IF pendingLease = lease[e] THEN 0 ELSE pendingLease
          ELSE UNCHANGED <<signalVars, rootState, pendingLease>>

\* The finally block.
Finish(e) ==
  /\ stage[e] \in {"emitted", "unsent"}
  /\ stage' = [stage EXCEPT ![e] = "leaving"]
  /\ IF stage[e] = "unsent"
     THEN RollbackFence(e)
     ELSE UNCHANGED <<signalVars, rootState, pendingLease, fenceActive>>
  /\ UNCHANGED <<restartDraining, suspendVars, references, rootDrain, lease,
                 ownsFence, stale, unconsumed, authorized, handlers, loopVars>>

\* The root of the emitter is released; a reset may have retired it before.
Leave(e) ==
  /\ stage[e] = "leaving"
  /\ stage' = [stage EXCEPT ![e] = "done"]
  /\ IF rootState[e] = "active" THEN ReleaseRoot(e) ELSE UNCHANGED admissionVars
  /\ UNCHANGED <<lease, ownsFence, fenceActive, stale, signalState, loopVars>>

\* A deferral is cancelled while its emission prepares, or while the hooks of
\* one that did not emit are being rejected: cancelEmissionFence.
Cancel(e) ==
  /\ e \in Cancellable
  /\ stage[e] \in {"preparing", "unsent"}
  /\ RollbackFence(e)
  /\ UNCHANGED <<restartDraining, suspendVars, references, rootDrain, stage,
                 lease, ownsFence, stale, unconsumed, authorized, handlers,
                 loopVars>>

-----------------------------------------------------------------------------
(* The other actors.                                                       *)

\* A root requests the restart directly.
DirectRequest(r, result) ==
  /\ r \in Requester
  /\ rootState[r] = "active"
  /\ restartSignalGeneration < MaxGeneration
  /\ Request(result)
  /\ UNCHANGED <<restartDraining, suspendVars, references, rootDrain,
                 emitterVars, loopVars>>

\* SIGUSR1 from another process.
ExternalSignal ==
  /\ externals < MaxExternal
  /\ externals' = externals + 1
  /\ handlers' = handlers + 1
  /\ UNCHANGED <<admissionVars, emitterVars, pendingLease, unconsumed,
                 authorized, loop, drainMarked>>

\* request("restart"): while the last restart is being reset the next one waits
\* for the server, and while a restart is on its way another one is ignored.
Accept ==
  loop' = CASE loop = "serving" -> "accepted"
            [] loop = "resetting" -> "queued"
            [] OTHER -> loop

\* markRestartDraining, which the run loop's own flag may skip.
MarkDraining ==
  /\ drainMarked' = TRUE
  /\ IF drainMarked \/ restartDraining THEN UNCHANGED admissionVars
     ELSE MarkGatewayRestartDraining

\* onSigusr1 after its await, authorized, with an intent file or without: the
\* drain takes the fence over, then the signal is marked as handled, in
\* one stretch.  A fence that the drain did not take over is reopened.
HandleAuthorized ==
  /\ handlers > 0
  /\ authorized > 0
  /\ handlers' = handlers - 1
  /\ authorized' = authorized - 1
  /\ unconsumed' = FALSE
  /\ Accept
  /\ \/ /\ restartDraining \/ ~drainMarked
        /\ MarkDraining
        /\ pendingLease' = 0
     \/ /\ ~restartDraining /\ drainMarked
        /\ ClearPendingLease
        /\ UNCHANGED <<restartDraining, suspendVars, references, rootDrain,
                       drainMarked>>
  /\ UNCHANGED <<emitterVars, externals>>

\* With a restart intent left in a file, a signal restarts although no
\* authorization is left, or none that has not expired.
HandleIntent ==
  /\ handlers > 0
  /\ handlers' = handlers - 1
  /\ authorized' = 0
  /\ Accept
  /\ MarkDraining
  /\ UNCHANGED <<emitterVars, pendingLease, unconsumed, externals>>

\* An unauthorized signal, or one whose authorization has expired, is marked as
\* handled, which reopens the fence; the policy may then schedule a restart,
\* another emitter.
HandleUnauthorized ==
  /\ handlers > 0
  /\ handlers' = handlers - 1
  /\ authorized' = 0
  /\ unconsumed' = FALSE
  /\ ClearPendingLease
  /\ UNCHANGED <<restartDraining, suspendVars, references, rootDrain,
                 emitterVars, loopVars>>

\* The handler throws before it decides: it marks the signal as handled and
\* rolls the fence back.
HandlerFails ==
  /\ handlers > 0
  /\ handlers' = handlers - 1
  /\ unconsumed' = FALSE
  /\ drainMarked' = FALSE
  /\ ClearPendingLease
  /\ UNCHANGED <<restartDraining, suspendVars, references, rootDrain,
                 emitterVars, authorized, externals, loop>>

\* runAcceptedRequest, up to its drain.
RunAcceptedRequest ==
  /\ loop = "accepted"
  /\ loop' = "draining"
  /\ MarkDraining
  /\ UNCHANGED <<emitterVars, signalState, externals>>

\* The server is closed, and the run loop enters its next iteration: it drops
\* its flag, then the iteration hook awaits the end of cron work.
NextIteration ==
  /\ loop = "draining"
  /\ loop' = "resetting"
  /\ drainMarked' = FALSE
  /\ UNCHANGED <<admissionVars, emitterVars, signalState, externals>>

\* The iteration hook after its awaits: resetAllLanes, then
\* resetGatewayRestartStateForInProcessRestart.  The server starts, and with
\* it a restart that was queued.
LifecycleReset ==
  /\ loop \in {"resetting", "queued"}
  /\ loop' = IF loop = "queued" THEN "accepted" ELSE "serving"
  /\ restartSignalGeneration < MaxGeneration
  /\ ResetGatewayWorkAdmission
  /\ pendingLease' = 0
  /\ unconsumed' = FALSE
  /\ authorized' = 0
  /\ stale' = stale \union {e \in Emitter : stage[e] # "idle"
                                           \/ rootState[e] # "new"}
  /\ UNCHANGED <<stage, lease, ownsFence, fenceActive, handlers, externals,
                 drainMarked>>

\* prepareGatewaySuspend finds the process idle and holds a lease, which ends
\* in any of the coordinator's ways (module SuspendCoordinator).
HoldSuspension ==
  /\ ~Closed
  /\ ActiveRoots = {}
  /\ suspendGeneration < MaxGeneration
  /\ suspendPhase' = "prepared"
  /\ suspendGeneration' = suspendGeneration + 1
  /\ UNCHANGED <<restartDraining, signalVars, rootVars, emitterVars,
                 signalState, loopVars>>

EndSuspension ==
  /\ ReopenSuspend(suspendGeneration, "prepared")
  /\ UNCHANGED <<emitterVars, signalState, loopVars>>

\* The other roots, whose only part here is to be active or not.
RootStep ==
  /\ \E r \in Root \ Emitter :
       BeginRoot(r) \/ BeginRootWhenOpen(r) \/ ReleaseRoot(r)
  /\ UNCHANGED <<emitterVars, signalState, loopVars>>

Next ==
  \/ \E e \in Emitter :
       \/ \E idle \in BOOLEAN : Attempt(e, idle)
       \/ \E result \in Results : Prepared(e, result)
       \/ PreparedRefuses(e)
       \/ Finish(e)
       \/ Leave(e)
       \/ Cancel(e)
  \/ \E r \in Requester, result \in Results : DirectRequest(r, result)
  \/ ExternalSignal
  \/ HandleAuthorized
  \/ HandleIntent
  \/ HandleUnauthorized
  \/ HandlerFails
  \/ RunAcceptedRequest
  \/ NextIteration
  \/ LifecycleReset
  \/ HoldSuspension
  \/ EndSuspension
  \/ RootStep

Spec == Init /\ [][Next]_vars

\* Hooks settle and continuations run; nothing is assumed of the roots that
\* are not emitters, of the host or of the run loop's shutdown.
Fairness ==
  /\ \A e \in Emitter :
       /\ WF_vars(\E result \in Results : Prepared(e, result))
       /\ WF_vars(Finish(e))
  /\ WF_vars(\/ HandleAuthorized \/ HandleIntent
             \/ HandleUnauthorized \/ HandlerFails)

LiveSpec == Spec /\ Fairness

-----------------------------------------------------------------------------
(* Properties.                                                             *)

\* From the moment the signal is sent until the run loop has decided, nobody
\* is admitted: whoever shares, cancels, fails or refuses meanwhile, the fence
\* stays closed over a signal on its way, or the drain has replaced it.
SignalBehindDoor == unconsumed => restartSignalPending \/ restartDraining

\* A closed fence has somebody who will reopen it or turn it into the drain: a
\* handler of a sent signal, the creator of its lease, or the reset of a
\* restart that the run loop has accepted.
FenceHasOwner ==
  Reversible =>
    \/ unconsumed /\ handlers > 0
    \/ loop # "serving"
    \/ \E e \in ownsFence :
         /\ lease[e] = restartSignalGeneration
         /\ stage[e] \in {"preparing", "unsent"}

\* A prepared suspension defers a due restart: nothing is prepared, no signal
\* is on its way and no fence is taken while the host may freeze the process.
SuspensionDefersRestart ==
  suspendPhase = "prepared" =>
    /\ ~unconsumed
    /\ ~restartSignalPending
    /\ \A e \in fenceActive \ stale : stage[e] # "preparing"

\* Whatever the handlers and hooks do, the fence does not stay closed: it is
\* reopened, the drain takes it over, or an accepted restart will reset it.
FenceIsTransient ==
  restartSignalPending ~> ~restartSignalPending \/ loop # "serving"

\* The fences move the one door of AdmissionDoor here as well, except that a
\* reset may find it open: a restart accepted while the last one was being
\* reset leaves restartDrainingMarked behind, which skips the next drain.
DoorIsKeptButReset == Door!SpecButEviction

\* What the comment before emitPreparedGatewayRestartUnderAdmission says of it:
\* two bodies, here of calls that are still entitled to emit, never interleave.
BodiesNeverInterleave ==
  \A e, f \in fenceActive \ stale :
    stage[e] = "preparing" /\ stage[f] = "preparing" => e = f

=============================================================================
