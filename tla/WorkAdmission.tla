---------------------------- MODULE WorkAdmission ----------------------------
(***************************************************************************)
(* Process-wide admission of root work                                     *)
(* (src/process/gateway-work-admission.ts).  Requests and timer ticks join *)
(* the set of active roots; a restart drain, a restart-signal fence and a  *)
(* host suspension close the door to new ones, each in its own way.        *)
(*                                                                         *)
(* The callback suspendInvalidated is registered exactly while the phase   *)
(* is not "accepting", and always by the lease whose generation is the     *)
(* current one, so it needs no variable: the module that owns the lease    *)
(* reacts to MarkGatewayRestartDraining in the same step.                  *)
(***************************************************************************)
EXTENDS Integers, FiniteSets

CONSTANTS
  Root,              \* async chains that ask to become root work
  Patient,           \* the roots that wait for the door to open
  MaxReferences,     \* bound: leases of one root held at a time
  MaxGeneration      \* bound: generations of either fence

ASSUME RootAssumption == Patient \subseteq Root

ASSUME GenerationAssumption ==
  MaxReferences \in Nat \ {0} /\ MaxGeneration \in Nat

VARIABLES
  restartDraining,          \* one way until the lifecycle is reset
  restartSignalPending,     \* the reversible fence of a restart signal
  restartSignalGeneration,
  suspendPhase,             \* "accepting", "preparing", "prepared"
  suspendGeneration,
  rootState,                \* [Root -> state of the chain]
  references,               \* GatewayRootWorkAdmission.references
  rootDrain                 \* the run loop's waitForActiveGatewayRootWork

signalVars  == <<restartSignalPending, restartSignalGeneration>>
suspendVars == <<suspendPhase, suspendGeneration>>
fenceVars   == <<restartDraining, signalVars, suspendVars>>
rootVars    == <<rootState, references, rootDrain>>
admissionVars == <<fenceVars, rootVars>>

AdmissionTypeOK ==
  /\ restartDraining \in BOOLEAN
  /\ restartSignalPending \in BOOLEAN
  /\ restartSignalGeneration \in Nat
  /\ suspendPhase \in {"accepting", "preparing", "prepared"}
  /\ suspendGeneration \in Nat
  /\ rootState \in
       [Root -> {"new", "parked", "woken", "active", "released", "refused"}]
  /\ references \in [Root -> 0 .. MaxReferences]
  /\ rootDrain \in {"none", "waiting", "woken", "drained", "undrained"}

AdmissionInit ==
  /\ restartDraining = FALSE
  /\ restartSignalPending = FALSE
  /\ restartSignalGeneration = 0
  /\ suspendPhase = "accepting"
  /\ suspendGeneration = 0
  /\ rootState = [r \in Root |-> "new"]
  /\ references = [r \in Root |-> 0]
  /\ rootDrain = "none"

\* isGatewayWorkAdmissionClosed
Closed == restartDraining \/ restartSignalPending \/ suspendPhase # "accepting"

\* activeRootWork
ActiveRoots == {r \in Root : rootState[r] = "active"}

\* resolveSuspendOpenWaiters: each woken chain tests the door again later.
Woken ==
  [r \in Root |-> IF rootState[r] = "parked" THEN "woken" ELSE rootState[r]]

-----------------------------------------------------------------------------
(* Roots.                                                                  *)

\* createGatewayRootWorkAdmission
Admit(r) ==
  /\ rootState' = [rootState EXCEPT ![r] = "active"]
  /\ references' = [references EXCEPT ![r] = 1]
  /\ UNCHANGED <<fenceVars, rootDrain>>

\* tryBeginGatewayRootWorkAdmission of a chain without a live root.
BeginRoot(r) ==
  /\ r \notin Patient
  /\ rootState[r] = "new"
  /\ \/ ~Closed /\ Admit(r)
     \/ /\ Closed
        /\ rootState' = [rootState EXCEPT ![r] = "refused"]
        /\ UNCHANGED <<fenceVars, references, rootDrain>>

\* One turn of the loop of beginGatewayRootWorkAdmissionWhenOpen and of
\* runWithGatewayIndependentRootWorkAdmission.
BeginRootWhenOpen(r) ==
  /\ r \in Patient
  /\ rootState[r] \in {"new", "woken"}
  /\ \/ ~Closed /\ Admit(r)
     \/ /\ Closed
        /\ rootState' = [rootState EXCEPT ![r] =
             IF restartDraining THEN "refused" ELSE "parked"]
        /\ UNCHANGED <<fenceVars, references, rootDrain>>

\* Mutant: the follow-up is admitted for a parent that was already released.
Bug_ContinueRoot(p, r) ==
  /\ rootState[p] \in {"active", "released"}
  /\ rootState[r] = "new"
  /\ Admit(r)

\* runWithGatewayIndependentRootWorkContinuation with the live parent p: the
\* follow-up r is admitted even though the door may be closed.
ContinueRoot(p, r) ==
  /\ rootState[p] = "active"
  /\ rootState[r] = "new"
  /\ Admit(r)

\* retainGatewayRootWorkAdmissionContinuation
RetainRoot(r) ==
  /\ rootState[r] = "active"
  /\ references[r] < MaxReferences
  /\ references' = [references EXCEPT ![r] = @ + 1]
  /\ UNCHANGED <<fenceVars, rootState, rootDrain>>

\* Mutant: a lease can be released twice.
Bug_ReleaseTwice(r) ==
  LET last == references[r] = 1
  IN  /\ rootState[r] \in {"active", "released"}
      /\ references' = [references EXCEPT ![r] = @ - 1]
      /\ rootState' = [rootState EXCEPT ![r] = IF last THEN "released" ELSE @]
      /\ UNCHANGED <<fenceVars, rootDrain>>

\* Mutant: the drain is resolved before the root is taken off the list.
Bug_ReleaseRoot(r) ==
  LET last == references[r] = 1
  IN  /\ rootState[r] = "active"
      /\ references' = [references EXCEPT ![r] = @ - 1]
      /\ rootState' = [rootState EXCEPT ![r] = IF last THEN "released" ELSE @]
      /\ rootDrain' = IF last /\ ActiveRoots = {} /\ rootDrain = "waiting"
                      THEN "woken" ELSE rootDrain
      /\ UNCHANGED fenceVars

\* The release of one lease of r; the last root to go resolves the drain.
ReleaseRoot(r) ==
  LET last == references[r] = 1
  IN  /\ rootState[r] = "active"
      /\ references' = [references EXCEPT ![r] = @ - 1]
      /\ rootState' = [rootState EXCEPT ![r] = IF last THEN "released" ELSE @]
      /\ rootDrain' = IF last /\ ActiveRoots = {r} /\ rootDrain = "waiting"
                      THEN "woken" ELSE rootDrain
      /\ UNCHANGED fenceVars

-----------------------------------------------------------------------------
(* The restart drain.                                                      *)

\* waitForActiveGatewayRootWork, which the run loop calls once draining.
WaitForRootDrain ==
  /\ restartDraining
  /\ rootDrain = "none"
  /\ rootDrain' = IF ActiveRoots = {} THEN "drained" ELSE "waiting"
  /\ UNCHANGED <<fenceVars, rootState, references>>

\* Its timer resolves the same promise.
RootDrainTimeout ==
  /\ rootDrain = "waiting"
  /\ rootDrain' = "woken"
  /\ UNCHANGED <<fenceVars, rootState, references>>

\* The continuation counts the active roots again.
RootDrainReports ==
  /\ rootDrain = "woken"
  /\ rootDrain' = IF ActiveRoots = {} THEN "drained" ELSE "undrained"
  /\ UNCHANGED <<fenceVars, rootState, references>>

-----------------------------------------------------------------------------
(* The restart fences.                                                     *)

\* invalidateSuspendAdmission, without the callback.
InvalidateSuspend ==
  /\ suspendPhase' = "accepting"
  /\ suspendGeneration' = suspendGeneration + 1

\* markGatewayRestartDraining: it supersedes the signal fence and, through
\* invalidateSuspendAdmission, a suspension.
MarkGatewayRestartDraining ==
  /\ ~restartDraining
  /\ restartDraining' = TRUE
  /\ restartSignalPending' = FALSE
  /\ restartSignalGeneration' = restartSignalGeneration + 1
  /\ IF suspendPhase = "accepting" THEN UNCHANGED suspendVars
     ELSE InvalidateSuspend
  /\ rootState' = Woken
  /\ UNCHANGED <<references, rootDrain>>

\* beginGatewayRestartSignalAdmission: a suspension does not stop it.
BeginRestartSignal ==
  /\ ~restartDraining
  /\ ~restartSignalPending
  /\ restartSignalGeneration < MaxGeneration
  /\ restartSignalPending' = TRUE
  /\ restartSignalGeneration' = restartSignalGeneration + 1
  /\ UNCHANGED <<restartDraining, suspendVars, rootVars>>

\* Mutant: the reopened fence wakes nobody.
Bug_ClearRestartSignalFence ==
  /\ ~restartDraining
  /\ restartSignalPending
  /\ restartSignalPending' = FALSE
  /\ restartSignalGeneration' = restartSignalGeneration + 1
  /\ UNCHANGED <<restartDraining, suspendVars, rootVars>>

\* clearRestartSignalFence, which reopens the fence for the lease of the
\* current generation or for rollbackGatewayRestartSignalFence.
ClearRestartSignalFence ==
  /\ ~restartDraining
  /\ restartSignalPending
  /\ restartSignalPending' = FALSE
  /\ restartSignalGeneration' = restartSignalGeneration + 1
  /\ rootState' = Woken
  /\ UNCHANGED <<restartDraining, suspendVars, references, rootDrain>>

\* The rollback of the lease handed out as generation g: a lease that lost
\* the fence to the drain or to another owner reopens nothing.
RollbackRestartSignal(g) ==
  /\ restartSignalGeneration = g
  /\ ClearRestartSignalFence

\* What resetGatewayWorkAdmission does to the fences and the chains.
RetireRoots ==
  /\ restartDraining' = FALSE
  /\ restartSignalPending' = FALSE
  /\ restartSignalGeneration' = restartSignalGeneration + 1
  /\ InvalidateSuspend
  /\ references' = [r \in Root |-> 0]
  /\ rootState' = [r \in Root |-> IF rootState[r] = "active" THEN "released"
                                  ELSE Woken[r]]

\* resetGatewayWorkAdmission: surviving chains lose their root.  A drain that
\* has reported belongs to the old lifecycle; the next one starts anew.
ResetGatewayWorkAdmission ==
  /\ suspendGeneration < MaxGeneration
  /\ RetireRoots
  /\ rootDrain' = IF rootDrain \in {"waiting", "woken"} THEN "woken"
                  ELSE "none"

-----------------------------------------------------------------------------
(* The suspension lease: the closures commit, rollback and release carry   *)
(* the generation g they were made for, and may be called at any time.     *)

\* tryBeginGatewaySuspendAdmission
BeginSuspend ==
  /\ ~Closed
  /\ suspendGeneration < MaxGeneration
  /\ suspendPhase' = "preparing"
  /\ suspendGeneration' = suspendGeneration + 1
  /\ UNCHANGED <<restartDraining, signalVars, rootVars>>

CommitSuspend(g) ==
  /\ suspendGeneration = g
  /\ suspendPhase = "preparing"
  /\ suspendPhase' = "prepared"
  /\ UNCHANGED <<restartDraining, signalVars, suspendGeneration, rootVars>>

\* rollback (from "preparing") and release (from "prepared")
ReopenSuspend(g, expected) ==
  /\ suspendGeneration = g
  /\ suspendPhase = expected
  /\ suspendPhase' = "accepting"
  /\ rootState' = Woken
  /\ UNCHANGED <<restartDraining, signalVars, suspendGeneration, references,
                 rootDrain>>

-----------------------------------------------------------------------------

AdmissionNext ==
  \/ \E r \in Root :
       \/ BeginRoot(r)
       \/ BeginRootWhenOpen(r)
       \/ \E p \in Root : ContinueRoot(p, r)
       \/ RetainRoot(r)
       \/ ReleaseRoot(r)
  \/ WaitForRootDrain
  \/ RootDrainTimeout
  \/ RootDrainReports
  \/ MarkGatewayRestartDraining
  \/ BeginRestartSignal
  \/ ClearRestartSignalFence
  \/ ResetGatewayWorkAdmission
  \/ BeginSuspend
  \/ \E g \in 1 .. MaxGeneration :
       \/ RollbackRestartSignal(g)
       \/ CommitSuspend(g)
       \/ \E phase \in {"preparing", "prepared"} : ReopenSuspend(g, phase)

AdmissionSpec == AdmissionInit /\ [][AdmissionNext]_admissionVars

-----------------------------------------------------------------------------
(* Properties.                                                             *)

\* A chain sleeps only before a closed door that can reopen: each of the ways
\* to reopen it, and the one-way close, wakes the chains parked before it.
ParkedMeansClosed ==
  \A r \in Root : rootState[r] = "parked" => Closed /\ ~restartDraining

\* An unresolved restart drain has a root to wait for, whether the last one is
\* released or the roots are retired by a reset.
DrainWaiterHasRoot == rootDrain = "waiting" => ActiveRoots # {}

\* The fences, leases and generations together are one door that keeps the
\* promise of AdmissionDoor, and its drain, in every step of whoever moves it.
Door == INSTANCE AdmissionDoor
  WITH Chain <- Root,
       door <- IF restartDraining THEN "closed" ELSE IF Closed THEN "shut" ELSE "open",
       place <- rootState,
       drain <- rootDrain
DoorIsKept == Door!Spec

\* Behind a closed door, once the last root is gone none appears: what the
\* restart drain or the suspension found idle stays idle, although live roots
\* may admit follow-ups through the closed door.
IdleStaysIdle ==
  [][Closed /\ ActiveRoots = {} => ActiveRoots' = {}]_admissionVars

=============================================================================
