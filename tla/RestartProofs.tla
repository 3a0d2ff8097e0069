----------------------------- MODULE RestartProofs -----------------------------
(***************************************************************************)
(* Theorems about RestartSignal, for any sets of emissions and chains.     *)
(***************************************************************************)
EXTENDS RestartSignal, WorkAdmissionProofs

\* The part of the types that is not the admission's.
SignalTypeOK ==
  /\ stage \in [Emitter ->
       {"idle", "preparing", "emitted", "unsent", "leaving", "done"}]
  /\ lease \in [Emitter -> Nat]
  /\ ownsFence \subseteq Emitter
  /\ fenceActive \subseteq Emitter
  /\ stale \subseteq Emitter
  /\ pendingLease \in Nat
  /\ unconsumed \in BOOLEAN
  /\ authorized \in Nat
  /\ handlers \in Nat
  /\ externals \in 0 .. MaxExternal
  /\ loop \in {"serving", "accepted", "draining", "resetting", "queued"}
  /\ drainMarked \in BOOLEAN

\* A pending lease is the one that closed the door, and a signal on its way has
\* a handler, unless the drain has taken over or a restart is accepted.
HandoverInv ==
  /\ SignalBehindDoor
  /\ pendingLease # 0 =>
       \/ restartDraining
       \/ restartSignalPending /\ pendingLease = restartSignalGeneration
  /\ unconsumed /\ ~restartDraining => handlers > 0 \/ loop # "serving"

\* A live emission that prepares is an active root, and a prepared suspension
\* has none.
PreparingInv ==
  /\ \A e \in fenceActive \ stale :
       stage[e] = "preparing" => rootState[e] = "active"
  /\ suspendPhase = "prepared" => ActiveRoots = {}
  /\ SuspensionDefersRestart

IInv ==
  /\ AdmissionInv
  /\ SignalTypeOK
  /\ HandoverInv
  /\ FenceHasOwner
  /\ PreparingInv

USE DEF admissionVars, fenceVars, signalVars, suspendVars, rootVars,
        emitterVars, signalState, loopVars

-----------------------------------------------------------------------------
(* What the operators on the fence do.                                     *)

\* Closing the fence keeps the admission invariant, and so does reopening it
\* with everybody woken.
LEMMA FenceKeepsAdmission ==
  ASSUME AdmissionInv,
         UNCHANGED <<restartDraining, suspendVars, references, rootDrain>>,
         restartSignalGeneration' \in Nat,
         restartSignalPending' \in BOOLEAN,
         \/ rootState' = Woken
         \/ rootState' = rootState /\ (restartSignalPending => restartSignalPending')
  PROVE  /\ AdmissionInv'
         /\ ActiveRoots' = ActiveRoots
         /\ \A r \in Root : rootState[r] = "active" => rootState'[r] = "active"
<1> USE DEF AdmissionInv
<1>1. /\ rootState' \in [Root -> {"new", "parked", "woken", "active",
                                  "released", "refused"}]
      /\ ActiveRoots' = ActiveRoots
      /\ \A r \in Root : rootState'[r] = "active" <=> rootState[r] = "active"
  BY WokenSleepsNot DEF AdmissionTypeOK, ActiveRoots
<1>2. AdmissionTypeOK'
  BY <1>1 DEF AdmissionTypeOK
<1>3. ActiveMeansReferenced' /\ DrainWaiterHasRoot'
  BY <1>1 DEF ActiveMeansReferenced, DrainWaiterHasRoot
<1>4. ParkedMeansClosed'
  BY WokenSleepsNot DEF ParkedMeansClosed, Closed
<1> QED BY <1>1, <1>2, <1>3, <1>4

\* A reopening never touches a fence that the drain has taken over.
LEMMA ReopenFacts ==
  ASSUME NEW condition \in BOOLEAN, AdmissionTypeOK, ReopenIf(condition)
  PROVE  /\ restartSignalGeneration' \in Nat
         /\ restartSignalPending' \in BOOLEAN
         /\ \/ rootState' = Woken
            \/ rootState' = rootState /\ (restartSignalPending => restartSignalPending')
         /\ condition /\ Reversible => ~restartSignalPending'
         /\ ~(condition /\ Reversible) => UNCHANGED signalVars
<1>1. CASE condition /\ Reversible
  <2>1. /\ restartSignalPending' = FALSE
        /\ restartSignalGeneration' = restartSignalGeneration + 1
        /\ rootState' = Woken
    BY <1>1 DEF ReopenIf
  <2>2. restartSignalGeneration' \in Nat
    BY <2>1 DEF AdmissionTypeOK
  <2> QED BY <1>1, <2>1, <2>2
<1>2. CASE ~(condition /\ Reversible)
  BY <1>2 DEF ReopenIf, AdmissionTypeOK
<1> QED BY <1>1, <1>2

\* A request leaves either no fence or one with a signal that has a handler.
LEMMA RequestFacts ==
  ASSUME AdmissionTypeOK, SignalTypeOK, HandoverInv, NEW result,
         Request(result), UNCHANGED <<restartDraining, loop>>
  PROVE  /\ restartSignalGeneration' \in Nat
         /\ restartSignalPending' \in BOOLEAN
         /\ \/ rootState' = Woken
            \/ rootState' = rootState /\ (restartSignalPending => restartSignalPending')
         /\ HandoverInv'
         /\ Reversible' => (unconsumed' /\ handlers' > 0) \/ loop' # "serving"
         /\ pendingLease' \in Nat
         /\ unconsumed' \in BOOLEAN
         /\ authorized' \in Nat /\ handlers' \in Nat
<1> USE DEF SignalTypeOK, AdmissionTypeOK
<1>1. CASE unconsumed /\ TakeLease /\ UNCHANGED <<unconsumed, authorized, handlers>>
  <2>1. UNCHANGED <<signalVars, rootState, pendingLease>>
    BY <1>1 DEF TakeLease, HandoverInv, SignalBehindDoor
  <2> QED BY <1>1, <2>1 DEF HandoverInv, SignalBehindDoor, Reversible
<1>2. CASE /\ ~unconsumed
           /\ pendingLease # 0 \/ ~restartDraining
           /\ TakeLease
           /\ unconsumed' = TRUE
           /\ authorized' = authorized + 1
           /\ handlers' = handlers + 1
  <2>1. handlers' > 0 /\ handlers' \in Nat /\ authorized' \in Nat /\ unconsumed'
    BY <1>2
  <2>2. CASE pendingLease # 0 \/ restartDraining
    <3>1. UNCHANGED <<signalVars, rootState, pendingLease>>
      BY <1>2, <2>2 DEF TakeLease
    <3> QED BY <1>2, <2>1, <2>2, <3>1 DEF HandoverInv, SignalBehindDoor, Reversible
  <2>3. CASE ~(pendingLease # 0 \/ restartDraining)
    <3>1. /\ restartSignalPending' = TRUE
          /\ restartSignalGeneration' = restartSignalGeneration + 1
          /\ pendingLease' = restartSignalGeneration + 1
          /\ rootState' = Woken \/ rootState' = rootState
      BY <1>2, <2>3 DEF TakeLease
    <3> QED BY <2>1, <2>3, <3>1 DEF HandoverInv, SignalBehindDoor, Reversible
  <2> QED BY <2>2, <2>3
<1>3. CASE /\ ~unconsumed
           /\ ClearPendingLease
           /\ UNCHANGED <<unconsumed, authorized, handlers>>
  <2>1. pendingLease' = 0 /\ ReopenIf(TRUE)
    BY <1>3 DEF ClearPendingLease
  <2> QED BY <1>3, <2>1, ReopenFacts DEF HandoverInv, SignalBehindDoor, Reversible
<1> QED BY <1>1, <1>2, <1>3 DEF Request

\* A rollback reopens the fence of the lease that the emission created, unless
\* a signal is on its way.
LEMMA RollbackFacts ==
  ASSUME AdmissionTypeOK, SignalTypeOK, HandoverInv, NEW e \in Emitter,
         RollbackFence(e),
         UNCHANGED <<restartDraining, unconsumed, handlers, loop>>
  PROVE  /\ restartSignalGeneration' \in Nat
         /\ restartSignalPending' \in BOOLEAN
         /\ \/ rootState' = Woken
            \/ rootState' = rootState /\ (restartSignalPending => restartSignalPending')
         /\ HandoverInv'
         /\ Reversible' =>
              \/ unconsumed' /\ handlers' > 0
              \/ loop' # "serving"
              \/ /\ UNCHANGED signalVars
                 /\ ~(e \in ownsFence /\ lease[e] = restartSignalGeneration)
         /\ pendingLease' \in Nat
         /\ fenceActive' \subseteq fenceActive
         /\ ~restartSignalPending => UNCHANGED signalVars
<1> USE DEF SignalTypeOK, AdmissionTypeOK
<1>1. CASE unconsumed \/ e \notin ownsFence
  <2>1. /\ UNCHANGED <<signalVars, rootState, pendingLease>>
        /\ fenceActive' \subseteq fenceActive
    BY <1>1 DEF RollbackFence
  <2> QED BY <1>1, <2>1 DEF HandoverInv, SignalBehindDoor, Reversible
<1>2. CASE ~unconsumed /\ e \in ownsFence
  <2>1. /\ fenceActive' = fenceActive \ {e}
        /\ ReopenIf(restartSignalGeneration = lease[e])
        /\ pendingLease' = IF pendingLease = lease[e] THEN 0 ELSE pendingLease
    BY <1>2 DEF RollbackFence
  <2>2. CASE restartSignalGeneration = lease[e] /\ Reversible
    <3>1. ~restartSignalPending' /\ pendingLease' = 0
      BY <2>1, <2>2, ReopenFacts DEF HandoverInv, Reversible
    <3>2. HandoverInv'
      BY <1>2, <3>1 DEF HandoverInv, SignalBehindDoor
    <3>3. restartSignalPending
      BY <2>2 DEF Reversible
    <3>4. /\ restartSignalGeneration' \in Nat /\ rootState' = Woken
          /\ restartSignalPending' \in BOOLEAN
      <4>1. /\ restartSignalGeneration' = restartSignalGeneration + 1
            /\ rootState' = Woken /\ restartSignalPending' = FALSE
        BY <2>1, <2>2 DEF ReopenIf
      <4>2. restartSignalGeneration' \in Nat
        BY <4>1
      <4> HIDE DEF AdmissionTypeOK, SignalTypeOK
      <4> QED BY <4>1, <4>2
    <3>5. pendingLease' \in Nat /\ fenceActive' \subseteq fenceActive
      BY <2>1, <3>1
    <3>6. ~Reversible'
      BY <3>1 DEF Reversible
    <3> HIDE DEF AdmissionTypeOK, SignalTypeOK
    <3> QED BY <3>2, <3>3, <3>4, <3>5, <3>6
  <2>3. CASE ~(restartSignalGeneration = lease[e] /\ Reversible)
    <3>1. UNCHANGED signalVars
      BY <2>1, <2>3, ReopenFacts
    <3> QED BY <1>2, <2>1, <2>3, <3>1, ReopenFacts
            DEF HandoverInv, SignalBehindDoor, Reversible
  <2> QED BY <2>2, <2>3
<1> QED BY <1>1, <1>2

-----------------------------------------------------------------------------
(* Emissions.                                                              *)

\* A step that changes the fence and the stage of one emission, which does not
\* start to prepare by it, keeps what holds of the emissions.
LEMMA EmitterStepKeepsInv ==
  ASSUME IInv, NEW e \in Emitter,
         UNCHANGED <<restartDraining, suspendVars, references, rootDrain, lease,
                     ownsFence, stale, loopVars>>,
         restartSignalGeneration' \in Nat,
         restartSignalPending' \in BOOLEAN,
         \/ rootState' = Woken
         \/ rootState' = rootState /\ (restartSignalPending => restartSignalPending'),
         HandoverInv',
         pendingLease' \in Nat, unconsumed' \in BOOLEAN,
         authorized' \in Nat, handlers' \in Nat,
         fenceActive' \subseteq fenceActive,
         NEW s \in {"preparing", "emitted", "unsent", "leaving"},
         stage' = [stage EXCEPT ![e] = s],
         s = "preparing" => stage[e] = "preparing",
         suspendPhase = "prepared" => ~unconsumed' /\ ~restartSignalPending'
  PROVE  AdmissionInv' /\ SignalTypeOK' /\ HandoverInv' /\ PreparingInv'
<1>1. /\ AdmissionInv'
      /\ ActiveRoots' = ActiveRoots
      /\ \A r \in Root : rootState[r] = "active" => rootState'[r] = "active"
  BY FenceKeepsAdmission DEF IInv
<1>2. SignalTypeOK'
  BY DEF IInv, SignalTypeOK
<1>3. \A f \in Emitter : stage'[f] = "preparing" => stage[f] = "preparing"
  BY DEF IInv, SignalTypeOK
<1>4. fenceActive \subseteq Emitter /\ Emitter \subseteq Root
  BY RootAssumption, EmitterAssumption DEF IInv, SignalTypeOK
<1>5. PreparingInv'
  BY <1>1, <1>3, <1>4 DEF IInv, PreparingInv, SuspensionDefersRestart
<1> QED BY <1>1, <1>2, <1>5

LEMMA PreparedKeepsInv ==
  ASSUME IInv, NEW e \in Emitter, NEW result \in Results, Prepared(e, result)
  PROVE  IInv'
<1> DEFINE s == IF result = "emitted" \/ (result = "coalesced" /\ unconsumed)
                THEN "emitted" ELSE "unsent"
<1>1. /\ stage[e] = "preparing"
      /\ stage' = [stage EXCEPT ![e] = s]
      /\ UNCHANGED <<restartDraining, suspendVars, references, rootDrain, lease,
                     ownsFence, fenceActive, stale, loopVars>>
  BY DEF Prepared
<1>2. CASE e \in fenceActive \ stale
  <2>1. Request(result)
    BY <1>2 DEF Prepared
  <2>2. /\ restartSignalGeneration' \in Nat
        /\ restartSignalPending' \in BOOLEAN
        /\ \/ rootState' = Woken
           \/ rootState' = rootState /\ (restartSignalPending => restartSignalPending')
        /\ HandoverInv'
        /\ Reversible' => (unconsumed' /\ handlers' > 0) \/ loop' # "serving"
        /\ pendingLease' \in Nat
        /\ unconsumed' \in BOOLEAN
        /\ authorized' \in Nat /\ handlers' \in Nat
    BY <1>1, <2>1, RequestFacts DEF IInv, AdmissionInv
  <2>3. suspendPhase # "prepared"
    BY <1>1, <1>2, EmitterAssumption, RootAssumption
       DEF IInv, PreparingInv, ActiveRoots
  <2>4. FenceHasOwner'
    BY <2>2 DEF FenceHasOwner
  <2>5. s \in {"preparing", "emitted", "unsent", "leaving"} /\ s # "preparing"
    OBVIOUS
  <2>6. AdmissionInv' /\ SignalTypeOK' /\ HandoverInv' /\ PreparingInv'
    BY <1>1, <2>2, <2>3, <2>5, EmitterStepKeepsInv
  <2> QED BY <2>4, <2>6 DEF IInv
<1>3. CASE e \notin fenceActive \ stale
  <2>1. UNCHANGED <<signalVars, rootState, signalState>> /\ s = "unsent"
    BY <1>3 DEF Prepared
  <2>2. HandoverInv'
    BY <1>1, <2>1 DEF IInv, HandoverInv, SignalBehindDoor
  <2>3. FenceHasOwner'
    <3>1. stage' = [stage EXCEPT ![e] = "unsent"]
      BY <1>1, <2>1
    <3>2. \A f \in Emitter : stage[f] \in {"preparing", "unsent"}
                             => stage'[f] \in {"preparing", "unsent"}
      BY <3>1 DEF IInv, SignalTypeOK
    <3> QED BY <1>1, <2>1, <3>2 DEF IInv, FenceHasOwner, Reversible, SignalTypeOK
  <2>4. AdmissionInv' /\ SignalTypeOK' /\ HandoverInv' /\ PreparingInv'
    BY <1>1, <2>1, <2>2, EmitterStepKeepsInv
       DEF IInv, AdmissionInv, AdmissionTypeOK, SignalTypeOK, PreparingInv,
           SuspensionDefersRestart
  <2> QED BY <2>3, <2>4 DEF IInv
<1> QED BY <1>2, <1>3

\* The hooks of a reload may refuse.
LEMMA PreparedRefusesKeepsInv ==
  ASSUME IInv, NEW e \in Emitter, PreparedRefuses(e)
  PROVE  IInv'
<1>1. /\ stage' = [stage EXCEPT ![e] = "unsent"]
      /\ UNCHANGED <<admissionVars, lease, ownsFence, fenceActive, stale,
                     signalState, loopVars>>
  BY DEF PreparedRefuses
<1>2. HandoverInv'
  BY <1>1 DEF IInv, HandoverInv, SignalBehindDoor
<1>3. FenceHasOwner'
  <2>1. \A f \in Emitter : stage[f] \in {"preparing", "unsent"}
                           => stage'[f] \in {"preparing", "unsent"}
    BY <1>1 DEF IInv, SignalTypeOK
  <2> QED BY <1>1, <2>1 DEF IInv, FenceHasOwner, Reversible, SignalTypeOK
<1>4. AdmissionInv' /\ SignalTypeOK' /\ HandoverInv' /\ PreparingInv'
  BY <1>1, <1>2, EmitterStepKeepsInv
     DEF IInv, AdmissionInv, AdmissionTypeOK, SignalTypeOK, PreparingInv,
         SuspensionDefersRestart
<1> QED BY <1>3, <1>4 DEF IInv

\* The finally block rolls back unless the signal was sent.
LEMMA FinishKeepsInv ==
  ASSUME IInv, NEW e \in Emitter, Finish(e)
  PROVE  IInv'
<1>1. /\ stage[e] \in {"emitted", "unsent"}
      /\ stage' = [stage EXCEPT ![e] = "leaving"]
      /\ UNCHANGED <<restartDraining, suspendVars, references, rootDrain, lease,
                     ownsFence, stale, unconsumed, authorized, handlers,
                     loopVars>>
  BY DEF Finish
<1>2. \A f \in Emitter : f # e => stage'[f] = stage[f]
  BY <1>1 DEF IInv, SignalTypeOK
<1>3. CASE stage[e] = "unsent"
  <2>1. RollbackFence(e)
    BY <1>3 DEF Finish
  <2>2. /\ restartSignalGeneration' \in Nat
        /\ restartSignalPending' \in BOOLEAN
        /\ \/ rootState' = Woken
           \/ rootState' = rootState /\ (restartSignalPending => restartSignalPending')
        /\ HandoverInv'
        /\ Reversible' =>
             \/ unconsumed' /\ handlers' > 0
             \/ loop' # "serving"
             \/ /\ UNCHANGED signalVars
                /\ ~(e \in ownsFence /\ lease[e] = restartSignalGeneration)
        /\ pendingLease' \in Nat
        /\ fenceActive' \subseteq fenceActive
        /\ ~restartSignalPending => UNCHANGED signalVars
    BY <1>1, <2>1, RollbackFacts DEF IInv, AdmissionInv
  <2>3. FenceHasOwner'
    BY <1>1, <1>2, <2>2 DEF IInv, FenceHasOwner, Reversible, SignalTypeOK
  <2>4. AdmissionInv' /\ SignalTypeOK' /\ HandoverInv' /\ PreparingInv'
    BY <1>1, <2>2, EmitterStepKeepsInv
       DEF IInv, SignalTypeOK, PreparingInv, SuspensionDefersRestart
  <2> QED BY <2>3, <2>4 DEF IInv
<1>4. CASE stage[e] = "emitted"
  <2>1. UNCHANGED <<signalVars, rootState, pendingLease, fenceActive>>
    BY <1>4 DEF Finish
  <2>2. HandoverInv'
    BY <1>1, <2>1 DEF IInv, HandoverInv, SignalBehindDoor
  <2>3. FenceHasOwner'
    BY <1>1, <1>2, <1>4, <2>1 DEF IInv, FenceHasOwner, Reversible, SignalTypeOK
  <2>4. AdmissionInv' /\ SignalTypeOK' /\ HandoverInv' /\ PreparingInv'
    BY <1>1, <2>1, <2>2, EmitterStepKeepsInv
       DEF IInv, AdmissionInv, AdmissionTypeOK, SignalTypeOK, PreparingInv,
           SuspensionDefersRestart
  <2> QED BY <2>3, <2>4 DEF IInv
<1> QED BY <1>1, <1>3, <1>4

\* The same rollback when a deferral is cancelled in the middle.
LEMMA CancelKeepsInv ==
  ASSUME IInv, NEW e \in Emitter, Cancel(e)
  PROVE  IInv'
<1>1. /\ stage[e] \in {"preparing", "unsent"}
      /\ RollbackFence(e)
      /\ UNCHANGED <<restartDraining, suspendVars, references, rootDrain, stage,
                     lease, ownsFence, stale, unconsumed, authorized, handlers,
                     loopVars>>
  BY DEF Cancel
<1>2. /\ restartSignalGeneration' \in Nat
      /\ restartSignalPending' \in BOOLEAN
      /\ \/ rootState' = Woken
         \/ rootState' = rootState /\ (restartSignalPending => restartSignalPending')
      /\ HandoverInv'
      /\ Reversible' =>
           \/ unconsumed' /\ handlers' > 0
           \/ loop' # "serving"
           \/ /\ UNCHANGED signalVars
              /\ ~(e \in ownsFence /\ lease[e] = restartSignalGeneration)
      /\ pendingLease' \in Nat
      /\ fenceActive' \subseteq fenceActive
      /\ ~restartSignalPending => UNCHANGED signalVars
  BY <1>1, RollbackFacts DEF IInv, AdmissionInv
<1>3. FenceHasOwner'
  BY <1>1, <1>2 DEF IInv, FenceHasOwner, Reversible, SignalTypeOK
<1>4. stage' = [stage EXCEPT ![e] = stage[e]]
  BY <1>1 DEF IInv, SignalTypeOK
<1>5. AdmissionInv' /\ SignalTypeOK' /\ HandoverInv' /\ PreparingInv'
  BY <1>1, <1>2, <1>4, EmitterStepKeepsInv
     DEF IInv, SignalTypeOK, PreparingInv, SuspensionDefersRestart
<1> QED BY <1>3, <1>5 DEF IInv

\* One turn of the loop before the door, and everything up to the first await.
LEMMA AttemptKeepsInv ==
  ASSUME IInv, NEW e \in Emitter, NEW idle \in BOOLEAN, Attempt(e, idle)
  PROVE  IInv'
<1> USE DEF IInv
<1>0. e \in Root /\ Emitter \subseteq Root
  BY RootAssumption, EmitterAssumption
<1>1. /\ rootState[e] \in {"new", "woken"}
      /\ UNCHANGED <<restartDraining, suspendVars, rootDrain, unconsumed,
                     authorized, handlers, loopVars>>
  BY DEF Attempt
<1>2. CASE DoorShut
  <2>1. /\ rootState' = [rootState EXCEPT ![e] =
             IF restartDraining THEN "refused" ELSE "parked"]
        /\ UNCHANGED <<signalVars, references, emitterVars, pendingLease>>
    BY <1>2 DEF Attempt
  <2>2. ActiveRoots' = ActiveRoots /\ rootState' \in [Root -> {"new", "parked",
                              "woken", "active", "released", "refused"}]
    BY <1>0, <1>1, <2>1 DEF ActiveRoots, AdmissionInv, AdmissionTypeOK
  <2>3. \A r \in Root : \/ rootState'[r] = rootState[r]
                        \/ r = e /\ rootState'[r] \in {"refused", "parked"}
    BY <1>0, <2>1 DEF AdmissionInv, AdmissionTypeOK
  <2>4. AdmissionTypeOK' /\ ActiveMeansReferenced' /\ DrainWaiterHasRoot'
    BY <1>1, <2>1, <2>2, <2>3 DEF AdmissionInv, AdmissionTypeOK,
                                  ActiveMeansReferenced, DrainWaiterHasRoot
  <2>5. ParkedMeansClosed'
    BY <1>0, <1>1, <1>2, <2>1 DEF AdmissionInv, AdmissionTypeOK,
                                  ParkedMeansClosed, DoorShut, Closed
  <2>6. SignalTypeOK' /\ HandoverInv' /\ FenceHasOwner'
    BY <1>1, <2>1 DEF SignalTypeOK, HandoverInv, SignalBehindDoor,
                      FenceHasOwner, Reversible
  <2>7. PreparingInv'
    BY <1>0, <1>1, <2>1, <2>2, <2>3 DEF PreparingInv, SuspensionDefersRestart,
                                        SignalTypeOK
  <2> QED BY <2>4, <2>5, <2>6, <2>7 DEF AdmissionInv
<1>3. CASE ~DoorShut
  <2>1. /\ rootState' = [rootState EXCEPT ![e] = "active"]
        /\ references' = [references EXCEPT ![e] = 1]
    BY <1>3 DEF Attempt
  <2>2. /\ ~restartDraining /\ ~restartSignalPending
        /\ suspendPhase = "accepting" /\ ~unconsumed /\ pendingLease = 0
    BY <1>3 DEF DoorShut, Closed, AdmissionInv, HandoverInv, SignalBehindDoor
  <2>3. \A r \in Root : /\ rootState'[r] = IF r = e THEN "active" ELSE rootState[r]
                        /\ references'[r] = IF r = e THEN 1 ELSE references[r]
    BY <1>0, <2>1 DEF AdmissionInv, AdmissionTypeOK
  <2>4. \A r \in Root : rootState'[r] # "parked"
    BY <2>2, <2>3 DEF AdmissionInv, ParkedMeansClosed, Closed
  <2>5. /\ rootState' \in [Root -> {"new", "parked", "woken", "active",
                                    "released", "refused"}]
        /\ references' \in [Root -> 0 .. MaxReferences]
    <3>1. 1 \in 0 .. MaxReferences
      BY GenerationAssumption
    <3> QED BY <2>1, <3>1 DEF AdmissionInv, AdmissionTypeOK
  <2>6. ActiveMeansReferenced' /\ DrainWaiterHasRoot' /\ ParkedMeansClosed'
    BY <1>0, <1>1, <2>3, <2>4 DEF AdmissionInv, ActiveMeansReferenced,
                        DrainWaiterHasRoot, ParkedMeansClosed, ActiveRoots
  <2>7. CASE e \in stale
    <3>1. /\ stage' = [stage EXCEPT ![e] = "leaving"]
          /\ UNCHANGED <<signalVars, lease, ownsFence, fenceActive, stale,
                         pendingLease>>
      BY <1>3, <2>7 DEF Attempt
    <3>2. AdmissionTypeOK'
      BY <1>1, <2>5, <3>1 DEF AdmissionInv, AdmissionTypeOK
    <3>3. SignalTypeOK'
      BY <1>1, <3>1 DEF SignalTypeOK
    <3>4. HandoverInv' /\ FenceHasOwner'
      BY <1>1, <2>2, <3>1 DEF HandoverInv, SignalBehindDoor, FenceHasOwner,
                              Reversible
    <3>5. PreparingInv'
      BY <1>0, <1>1, <2>2, <2>3, <2>7, <3>1
         DEF PreparingInv, SuspensionDefersRestart, SignalTypeOK
    <3> QED BY <2>6, <3>2, <3>3, <3>4, <3>5 DEF AdmissionInv
  <2>8. CASE e \notin stale
    <3>1. /\ restartSignalPending' = TRUE
          /\ restartSignalGeneration' = restartSignalGeneration + 1
          /\ lease' = [lease EXCEPT ![e] = restartSignalGeneration + 1]
          /\ pendingLease' = restartSignalGeneration + 1
          /\ ownsFence' = ownsFence \union {e}
          /\ fenceActive' = fenceActive \union {e}
          /\ stage' = [stage EXCEPT ![e] = IF idle THEN "preparing" ELSE "unsent"]
          /\ UNCHANGED stale
      BY <1>3, <2>2, <2>8 DEF Attempt
    <3>2. restartSignalGeneration' \in Nat /\ pendingLease' \in Nat
      BY <3>1 DEF AdmissionInv, AdmissionTypeOK
    <3>3. AdmissionTypeOK'
      BY <1>1, <2>5, <3>1, <3>2 DEF AdmissionInv, AdmissionTypeOK
    <3>4. SignalTypeOK'
      <4>1. lease' \in [Emitter -> Nat]
        BY <3>1, <3>2 DEF SignalTypeOK
      <4> QED BY <1>1, <3>1, <3>2, <4>1 DEF SignalTypeOK
    <3>5. HandoverInv'
      BY <1>1, <2>2, <3>1 DEF HandoverInv, SignalBehindDoor
    <3>6. FenceHasOwner'
      <4>1. /\ e \in ownsFence'
            /\ lease'[e] = restartSignalGeneration'
            /\ stage'[e] \in {"preparing", "unsent"}
        BY <3>1 DEF SignalTypeOK
      <4> QED BY <4>1 DEF FenceHasOwner
    <3>7. PreparingInv'
      <4>1. \A f \in Emitter : f # e => stage'[f] = stage[f]
        BY <3>1 DEF SignalTypeOK
      <4> QED BY <1>0, <1>1, <2>2, <2>3, <3>1, <4>1
              DEF PreparingInv, SuspensionDefersRestart, SignalTypeOK
    <3> QED BY <2>6, <3>3, <3>4, <3>5, <3>6, <3>7 DEF AdmissionInv
  <2> QED BY <2>7, <2>8
<1> QED BY <1>2, <1>3

-----------------------------------------------------------------------------
(* The other actors.                                                       *)

\* A step that leaves the fence and the emissions alone, wakes nobody who was
\* not active and activates nobody before a prepared suspension.
LEMMA RestKeepsInv ==
  ASSUME IInv, AdmissionInv',
         UNCHANGED <<restartDraining, signalVars, lease, ownsFence, fenceActive,
                     stale, signalState, loopVars>>,
         \A e \in Emitter : \/ rootState'[e] = rootState[e]
                            \/ stage[e] # "preparing",
         suspendPhase' = "prepared" => ActiveRoots' = {},
         stage' \in [Emitter ->
           {"idle", "preparing", "emitted", "unsent", "leaving", "done"}],
         \A e \in Emitter : \/ stage'[e] = stage[e]
                            \/ stage[e] = "leaving" /\ stage'[e] = "done",
         suspendPhase' = "prepared" =>
           suspendPhase = "prepared" \/ (~Closed /\ ActiveRoots = {})
  PROVE  IInv'
<1> USE DEF IInv
<1>1. SignalTypeOK'
  BY DEF SignalTypeOK
<1>2. HandoverInv'
  BY DEF HandoverInv, SignalBehindDoor
<1>3. FenceHasOwner'
  BY DEF FenceHasOwner, Reversible, SignalTypeOK
<1>4. \A e \in fenceActive \ stale :
        stage[e] = "preparing" => rootState[e] = "active" /\ e \in ActiveRoots
  BY RootAssumption, EmitterAssumption DEF PreparingInv, SignalTypeOK, ActiveRoots
<1>5. SuspensionDefersRestart'
  <2> SUFFICES ASSUME suspendPhase' = "prepared" PROVE SuspensionDefersRestart'
    BY DEF SuspensionDefersRestart
  <2>1. CASE suspendPhase = "prepared"
    BY <2>1 DEF PreparingInv, SuspensionDefersRestart, SignalTypeOK
  <2>2. CASE ~Closed /\ ActiveRoots = {}
    BY <1>4, <2>2 DEF SuspensionDefersRestart, Closed, HandoverInv,
                      SignalBehindDoor, SignalTypeOK
  <2> QED BY <2>1, <2>2
<1>6. PreparingInv'
  BY <1>5 DEF PreparingInv, SignalTypeOK
<1> QED BY <1>1, <1>2, <1>3, <1>6

LEMMA LeaveKeepsInv ==
  ASSUME IInv, NEW e \in Emitter, Leave(e)
  PROVE  IInv'
<1>0. e \in Root
  BY RootAssumption, EmitterAssumption
<1>1. /\ stage[e] = "leaving"
      /\ stage' = [stage EXCEPT ![e] = "done"]
      /\ UNCHANGED <<lease, ownsFence, fenceActive, stale, signalState, loopVars>>
  BY DEF Leave
<1>2. CASE UNCHANGED admissionVars
  <2>1. AdmissionInv' /\ ActiveRoots' = ActiveRoots
    BY <1>2 DEF IInv, AdmissionInv, AdmissionTypeOK, ActiveMeansReferenced,
                ParkedMeansClosed, Closed, DrainWaiterHasRoot, ActiveRoots
  <2> QED BY <1>1, <1>2, <2>1, RestKeepsInv DEF IInv, SignalTypeOK, PreparingInv
<1>3. CASE ReleaseRoot(e)
  <2>1. AdmissionInv'
    BY <1>0, <1>3, RootActionsKeepInv DEF IInv
  <2>2. /\ UNCHANGED fenceVars
        /\ rootState[e] = "active"
        /\ rootState' = [rootState EXCEPT ![e] =
             IF references[e] = 1 THEN "released" ELSE @]
    BY <1>3 DEF ReleaseRoot
  <2>3. suspendPhase # "prepared"
    BY <1>0, <2>2 DEF IInv, PreparingInv, ActiveRoots
  <2>4. \A f \in Emitter : f # e => rootState'[f] = rootState[f]
    BY <2>2, RootAssumption, EmitterAssumption
       DEF IInv, AdmissionInv, AdmissionTypeOK
  <2> QED BY <1>1, <2>1, <2>2, <2>3, <2>4, RestKeepsInv DEF IInv, SignalTypeOK
<1> QED BY <1>2, <1>3 DEF Leave

LEMMA RootStepKeepsInv ==
  ASSUME IInv, RootStep
  PROVE  IInv'
<1>1. UNCHANGED <<emitterVars, signalState, loopVars>>
  BY DEF RootStep
<1>2. PICK r \in Root \ Emitter :
        BeginRoot(r) \/ BeginRootWhenOpen(r) \/ ReleaseRoot(r)
  BY DEF RootStep
<1>3. AdmissionInv'
  BY <1>2, RootActionsKeepInv DEF IInv
<1>4. /\ UNCHANGED fenceVars
      /\ \E x \in {"refused", "parked", "released", "active"} :
            /\ rootState' = [rootState EXCEPT ![r] = x]
            /\ Closed /\ x = "active" => rootState[r] = "active"
  BY <1>2 DEF BeginRoot, BeginRootWhenOpen, ReleaseRoot, Admit
<1>5. \A q \in Root : q # r => rootState'[q] = rootState[q]
  BY <1>4 DEF IInv, AdmissionInv, AdmissionTypeOK
<1>6. suspendPhase' = "prepared" => ActiveRoots' = {}
  <2> SUFFICES ASSUME suspendPhase = "prepared" PROVE ActiveRoots' = {}
    BY <1>4
  <2>1. Closed /\ ActiveRoots = {}
    BY DEF Closed, IInv, PreparingInv
  <2>2. rootState'[r] # "active"
    BY <1>4, <2>1 DEF ActiveRoots, IInv, AdmissionInv, AdmissionTypeOK
  <2> QED BY <1>5, <2>1, <2>2 DEF ActiveRoots
<1>7. \A e \in Emitter : \/ rootState'[e] = rootState[e]
                         \/ stage[e] # "preparing"
  BY <1>5, RootAssumption, EmitterAssumption
<1>8. UNCHANGED <<restartDraining, signalVars, lease, ownsFence, fenceActive,
                  stale, signalState, loopVars>>
  BY <1>1, <1>4
<1>10. suspendPhase' = "prepared" =>
         suspendPhase = "prepared" \/ (~Closed /\ ActiveRoots = {})
  <2>1. suspendPhase' = suspendPhase
    BY <1>4
  <2> QED BY <2>1
<1>9. stage' \in [Emitter ->
        {"idle", "preparing", "emitted", "unsent", "leaving", "done"}]
  BY <1>1 DEF IInv, SignalTypeOK
<1>11. \A e \in Emitter : \/ stage'[e] = stage[e]
                          \/ stage[e] = "leaving" /\ stage'[e] = "done"
  BY <1>1
<1> QED BY <1>3, <1>6, <1>7, <1>8, <1>9, <1>10, <1>11, RestKeepsInv

LEMMA SuspensionKeepsInv ==
  ASSUME IInv, HoldSuspension \/ EndSuspension
  PROVE  IInv'
<1>1. CASE HoldSuspension
  <2>1. /\ ~Closed /\ ActiveRoots = {}
        /\ suspendPhase' = "prepared"
        /\ suspendGeneration' = suspendGeneration + 1
        /\ UNCHANGED <<restartDraining, signalVars, rootVars, emitterVars,
                       signalState, loopVars>>
    BY <1>1 DEF HoldSuspension
  <2>2. AdmissionInv' /\ ActiveRoots' = {}
    BY <2>1 DEF IInv, AdmissionInv, AdmissionTypeOK, ActiveMeansReferenced,
                ParkedMeansClosed, Closed, DrainWaiterHasRoot, ActiveRoots
  <2> QED BY <2>1, <2>2, RestKeepsInv DEF IInv, SignalTypeOK
<1>2. CASE EndSuspension
  <2>1. /\ ReopenSuspend(suspendGeneration, "prepared")
        /\ UNCHANGED <<emitterVars, signalState, loopVars>>
    BY <1>2 DEF EndSuspension
  <2>2. suspendGeneration \in Nat
    BY DEF IInv, AdmissionInv, AdmissionTypeOK
  <2>3. AdmissionInv'
    BY <2>1, <2>2, SuspendActionsKeepInv DEF IInv
  <2>4. /\ suspendPhase' = "accepting" /\ rootState' = Woken
        /\ UNCHANGED <<restartDraining, signalVars>>
        /\ suspendPhase = "prepared"
    BY <2>1 DEF ReopenSuspend
  <2>5. \A e \in Emitter : \/ rootState'[e] = rootState[e]
                           \/ stage[e] # "preparing" \/ e \notin fenceActive \ stale
    BY <2>4, RootAssumption, EmitterAssumption DEF Woken, IInv, PreparingInv
  <2>6. SignalTypeOK' /\ HandoverInv' /\ FenceHasOwner'
    BY <2>1, <2>4 DEF IInv, SignalTypeOK, HandoverInv, SignalBehindDoor,
                      FenceHasOwner, Reversible
  <2>7. PreparingInv'
    BY <2>1, <2>4, <2>5 DEF IInv, PreparingInv, SuspensionDefersRestart,
                            SignalTypeOK
  <2> QED BY <2>3, <2>6, <2>7 DEF IInv
<1> QED BY <1>1, <1>2

\* A step that changes the fence and no emission.
LEMMA FenceStepKeepsInv ==
  ASSUME IInv,
         UNCHANGED <<restartDraining, suspendVars, references, rootDrain,
                     emitterVars, externals>>,
         loop' \in {"serving", "accepted", "draining", "resetting", "queued"},
         drainMarked' \in BOOLEAN,
         restartSignalGeneration' \in Nat,
         restartSignalPending' \in BOOLEAN,
         \/ rootState' = Woken
         \/ rootState' = rootState /\ (restartSignalPending => restartSignalPending'),
         HandoverInv',
         Reversible' => (unconsumed' /\ handlers' > 0) \/ loop' # "serving",
         pendingLease' \in Nat, unconsumed' \in BOOLEAN,
         authorized' \in Nat, handlers' \in Nat,
         suspendPhase = "prepared" => ~unconsumed' /\ ~restartSignalPending'
  PROVE  IInv'
<1>1. /\ AdmissionInv'
      /\ ActiveRoots' = ActiveRoots
      /\ \A r \in Root : rootState[r] = "active" => rootState'[r] = "active"
  BY FenceKeepsAdmission DEF IInv
<1>2. SignalTypeOK'
  BY DEF IInv, SignalTypeOK
<1>3. FenceHasOwner'
  BY DEF FenceHasOwner
<1>4. fenceActive \subseteq Emitter /\ Emitter \subseteq Root
  BY RootAssumption, EmitterAssumption DEF IInv, SignalTypeOK
<1>5. PreparingInv'
  BY <1>1, <1>4 DEF IInv, PreparingInv, SuspensionDefersRestart
<1> QED BY <1>1, <1>2, <1>3, <1>5 DEF IInv

LEMMA DirectRequestKeepsInv ==
  ASSUME IInv, NEW r \in Requester, NEW result \in Results,
         DirectRequest(r, result)
  PROVE  IInv'
<1>1. /\ rootState[r] = "active"
      /\ Request(result)
      /\ UNCHANGED <<restartDraining, suspendVars, references, rootDrain,
                     emitterVars, loopVars>>
  BY DEF DirectRequest
<1>2. suspendPhase # "prepared"
  BY <1>1, EmitterAssumption DEF IInv, PreparingInv, ActiveRoots
<1>3. /\ restartSignalGeneration' \in Nat
      /\ restartSignalPending' \in BOOLEAN
      /\ \/ rootState' = Woken
         \/ rootState' = rootState /\ (restartSignalPending => restartSignalPending')
      /\ HandoverInv'
      /\ Reversible' => (unconsumed' /\ handlers' > 0) \/ loop' # "serving"
      /\ pendingLease' \in Nat
      /\ unconsumed' \in BOOLEAN
      /\ authorized' \in Nat /\ handlers' \in Nat
  BY <1>1, RequestFacts DEF IInv, AdmissionInv
<1>4. /\ loop' \in {"serving", "accepted", "draining", "resetting", "queued"}
      /\ drainMarked' \in BOOLEAN
  BY <1>1 DEF IInv, SignalTypeOK
<1> QED BY <1>1, <1>2, <1>3, <1>4, FenceStepKeepsInv

\* A handler that rejects the signal, or fails, reopens the fence.
LEMMA RejectionKeepsInv ==
  ASSUME IInv, HandleUnauthorized \/ HandlerFails
  PROVE  IInv'
<1>1. /\ handlers > 0 /\ handlers' = handlers - 1
      /\ unconsumed' = FALSE
      /\ authorized' = 0 \/ authorized' = authorized
      /\ pendingLease' = 0 /\ ReopenIf(TRUE)
      /\ UNCHANGED <<restartDraining, suspendVars, references, rootDrain,
                     emitterVars, externals, loop>>
      /\ drainMarked' = FALSE \/ drainMarked' = drainMarked
  BY DEF HandleUnauthorized, HandlerFails, ClearPendingLease
<1>2. handlers' \in Nat /\ authorized' \in Nat
  BY <1>1 DEF IInv, SignalTypeOK
<1>3. /\ restartSignalGeneration' \in Nat
      /\ restartSignalPending' \in BOOLEAN
      /\ \/ rootState' = Woken
         \/ rootState' = rootState /\ (restartSignalPending => restartSignalPending')
      /\ Reversible => ~restartSignalPending'
      /\ ~Reversible => UNCHANGED signalVars
  BY <1>1, ReopenFacts DEF IInv, AdmissionInv
<1>4. HandoverInv'
  BY <1>1 DEF HandoverInv, SignalBehindDoor
<1>5. ~Reversible'
  BY <1>1, <1>3 DEF Reversible
<1>6. suspendPhase = "prepared" => ~unconsumed' /\ ~restartSignalPending'
  BY <1>1, <1>3 DEF IInv, PreparingInv, SuspensionDefersRestart, Reversible
<1>7. /\ loop' \in {"serving", "accepted", "draining", "resetting", "queued"}
      /\ drainMarked' \in BOOLEAN
  BY <1>1 DEF IInv, SignalTypeOK
<1> QED BY <1>1, <1>2, <1>3, <1>4, <1>5, <1>6, <1>7, FenceStepKeepsInv

\* A signal from outside, which has a handler and nothing else.
LEMMA ExternalSignalKeepsInv ==
  ASSUME IInv, ExternalSignal
  PROVE  IInv'
<1>1. /\ externals < MaxExternal /\ externals' = externals + 1
      /\ handlers' = handlers + 1
      /\ UNCHANGED <<admissionVars, emitterVars, pendingLease, unconsumed,
                     authorized, loop, drainMarked>>
  BY DEF ExternalSignal
<1>2. AdmissionInv' /\ ActiveRoots' = ActiveRoots
  BY <1>1 DEF IInv, AdmissionInv, AdmissionTypeOK, ActiveMeansReferenced,
              ParkedMeansClosed, Closed, DrainWaiterHasRoot, ActiveRoots
<1>3. handlers' > 0 /\ handlers' \in Nat /\ externals' \in 0 .. MaxExternal
  BY <1>1, EmitterAssumption DEF IInv, SignalTypeOK
<1>4. SignalTypeOK'
  BY <1>1, <1>3 DEF IInv, SignalTypeOK
<1>5. HandoverInv' /\ FenceHasOwner'
  BY <1>1, <1>3 DEF IInv, HandoverInv, SignalBehindDoor, FenceHasOwner,
                    Reversible, SignalTypeOK
<1>6. PreparingInv'
  BY <1>1, <1>2 DEF IInv, PreparingInv, SuspensionDefersRestart
<1> QED BY <1>2, <1>4, <1>5, <1>6 DEF IInv

\* The drain takes the fence over, unless the run loop believes it has: by then
\* a restart is accepted.
LEMMA DrainKeepsInv ==
  ASSUME IInv, MarkDraining, UNCHANGED <<emitterVars, externals>>,
         restartDraining \/ ~drainMarked \/ UNCHANGED unconsumed,
         loop' \in {"accepted", "draining", "resetting", "queued"},
         pendingLease' = 0 \/ pendingLease' = pendingLease,
         unconsumed' = FALSE \/ unconsumed' = unconsumed,
         authorized' \in Nat, handlers' \in Nat
  PROVE  IInv'
<1>1. SignalTypeOK'
  <2>1. pendingLease' \in Nat
    BY DEF IInv, SignalTypeOK
  <2>2. unconsumed' \in BOOLEAN
    BY DEF IInv, SignalTypeOK
  <2>3. drainMarked' \in BOOLEAN
    BY DEF MarkDraining
  <2> QED BY <2>1, <2>2, <2>3 DEF IInv, SignalTypeOK
<1>2. FenceHasOwner'
  BY DEF FenceHasOwner
<1>3. CASE drainMarked \/ restartDraining
  <2>1. UNCHANGED admissionVars
    BY <1>3 DEF MarkDraining
  <2>2. AdmissionInv' /\ ActiveRoots' = ActiveRoots
    BY <2>1 DEF IInv, AdmissionInv, AdmissionTypeOK, ActiveMeansReferenced,
                ParkedMeansClosed, Closed, DrainWaiterHasRoot, ActiveRoots
  <2>3. HandoverInv'
    BY <2>1 DEF IInv, HandoverInv, SignalBehindDoor
  <2>4. PreparingInv'
    BY <2>1, <2>2 DEF IInv, PreparingInv, SuspensionDefersRestart
  <2> QED BY <1>1, <1>2, <2>2, <2>3, <2>4 DEF IInv
<1>4. CASE ~drainMarked /\ ~restartDraining
  <2>1. MarkGatewayRestartDraining
    BY <1>4 DEF MarkDraining
  <2>2. AdmissionInv'
    BY <2>1, FenceActionsKeepInv DEF IInv
  <2>3. /\ restartDraining' = TRUE /\ rootState' = Woken
        /\ suspendPhase' = "accepting"
    BY <2>1 DEF MarkGatewayRestartDraining, InvalidateSuspend
  <2>4. HandoverInv'
    BY <2>3 DEF HandoverInv, SignalBehindDoor
  <2>5. PreparingInv'
    BY <2>3, RootAssumption, EmitterAssumption
       DEF IInv, PreparingInv, SuspensionDefersRestart, SignalTypeOK, Woken
  <2> QED BY <1>1, <1>2, <2>2, <2>4, <2>5 DEF IInv
<1> QED BY <1>3, <1>4

\* An accepted restart is on its way.
LEMMA AcceptFacts ==
  ASSUME SignalTypeOK, Accept
  PROVE  loop' \in {"accepted", "draining", "resetting", "queued"}
BY DEF SignalTypeOK, Accept

\* A handler that accepts the signal starts the drain, or finds it started, or
\* skips it and reopens the fence.
LEMMA AcceptanceKeepsInv ==
  ASSUME IInv, HandleAuthorized \/ HandleIntent
  PROVE  IInv'
<1>1. /\ handlers > 0 /\ handlers' = handlers - 1
      /\ \/ authorized > 0 /\ authorized' = authorized - 1
         \/ authorized' = 0
      /\ Accept
      /\ UNCHANGED <<emitterVars, externals>>
  BY DEF HandleAuthorized, HandleIntent
<1>2. /\ handlers' \in Nat /\ authorized' \in Nat
      /\ loop' \in {"accepted", "draining", "resetting", "queued"}
  BY <1>1, AcceptFacts DEF IInv, SignalTypeOK
<1>3. CASE HandleIntent
  <2>1. MarkDraining /\ UNCHANGED <<pendingLease, unconsumed>>
    BY <1>3 DEF HandleIntent
  <2> QED BY <1>1, <1>2, <2>1, DrainKeepsInv
<1>4. CASE HandleAuthorized /\ (restartDraining \/ ~drainMarked)
  <2>1. MarkDraining /\ pendingLease' = 0 /\ unconsumed' = FALSE
    BY <1>4 DEF HandleAuthorized
  <2> QED BY <1>1, <1>2, <1>4, <2>1, DrainKeepsInv
<1>5. CASE HandleAuthorized /\ ~restartDraining /\ drainMarked
  <2>1. /\ pendingLease' = 0 /\ ReopenIf(TRUE) /\ unconsumed' = FALSE
        /\ UNCHANGED <<restartDraining, suspendVars, references, rootDrain,
                       emitterVars, externals, drainMarked>>
    BY <1>5 DEF HandleAuthorized, ClearPendingLease
  <2>2. /\ restartSignalGeneration' \in Nat
        /\ restartSignalPending' \in BOOLEAN
        /\ \/ rootState' = Woken
           \/ rootState' = rootState /\ (restartSignalPending => restartSignalPending')
        /\ Reversible => ~restartSignalPending'
        /\ ~Reversible => UNCHANGED signalVars
    BY <2>1, ReopenFacts DEF IInv, AdmissionInv
  <2>3. HandoverInv'
    BY <2>1 DEF HandoverInv, SignalBehindDoor
  <2>4. loop' # "serving"
    BY <1>2
  <2>5. suspendPhase = "prepared" => ~unconsumed' /\ ~restartSignalPending'
    BY <2>1, <2>2 DEF IInv, PreparingInv, SuspensionDefersRestart, Reversible
  <2>6. drainMarked' \in BOOLEAN
    BY <2>1 DEF IInv, SignalTypeOK
  <2> QED BY <1>2, <2>1, <2>2, <2>3, <2>4, <2>5, <2>6, FenceStepKeepsInv
<1> QED BY <1>3, <1>4, <1>5

\* The run loop goes on with an accepted restart.
LEMMA LoopKeepsInv ==
  ASSUME IInv, RunAcceptedRequest \/ NextIteration
  PROVE  IInv'
<1>1. CASE RunAcceptedRequest
  <2>1. /\ MarkDraining /\ loop' = "draining"
        /\ UNCHANGED <<emitterVars, signalState, externals>>
    BY <1>1 DEF RunAcceptedRequest
  <2>2. authorized' \in Nat /\ handlers' \in Nat
    BY <2>1 DEF IInv, SignalTypeOK
  <2> QED BY <2>1, <2>2, DrainKeepsInv
<1>2. CASE NextIteration
  <2>1. /\ loop' = "resetting" /\ drainMarked' = FALSE
        /\ UNCHANGED <<admissionVars, emitterVars, signalState, externals>>
    BY <1>2 DEF NextIteration
  <2>2. AdmissionInv' /\ ActiveRoots' = ActiveRoots
    BY <2>1 DEF IInv, AdmissionInv, AdmissionTypeOK, ActiveMeansReferenced,
                ParkedMeansClosed, Closed, DrainWaiterHasRoot, ActiveRoots
  <2>3. SignalTypeOK'
    BY <2>1 DEF IInv, SignalTypeOK
  <2>4. HandoverInv' /\ FenceHasOwner'
    BY <2>1 DEF IInv, HandoverInv, SignalBehindDoor, FenceHasOwner
  <2>5. PreparingInv'
    BY <2>1, <2>2 DEF IInv, PreparingInv, SuspensionDefersRestart
  <2> QED BY <2>2, <2>3, <2>4, <2>5 DEF IInv
<1> QED BY <1>1, <1>2

\* The next lifecycle starts with an open door and no signal; the emissions of
\* the old one are stale.
LEMMA LifecycleResetKeepsInv ==
  ASSUME IInv, LifecycleReset
  PROVE  IInv'
<1>1. /\ ResetGatewayWorkAdmission
      /\ pendingLease' = 0 /\ unconsumed' = FALSE /\ authorized' = 0
      /\ stale' = stale \union {e \in Emitter : \/ stage[e] # "idle"
                                                \/ rootState[e] # "new"}
      /\ loop' \in {"serving", "accepted"}
      /\ UNCHANGED <<stage, lease, ownsFence, fenceActive, handlers, externals,
                     drainMarked>>
  BY DEF LifecycleReset
<1>2. AdmissionInv'
  BY <1>1, FenceActionsKeepInv DEF IInv
<1>3. suspendPhase' = "accepting" /\ restartSignalPending' = FALSE
  BY <1>1 DEF ResetGatewayWorkAdmission, RetireRoots, InvalidateSuspend
<1>4. SignalTypeOK'
  <2>1. stale' \subseteq Emitter
    BY <1>1 DEF IInv, SignalTypeOK
  <2>2. pendingLease' \in Nat /\ authorized' \in Nat /\ unconsumed' \in BOOLEAN
    BY <1>1
  <2>3. UNCHANGED <<stage, lease, ownsFence, fenceActive, handlers, externals,
                    drainMarked>>
    BY <1>1
  <2>4. loop' \in {"serving", "accepted", "draining", "resetting", "queued"}
    BY <1>1
  <2> QED BY <2>1, <2>2, <2>3, <2>4 DEF IInv, SignalTypeOK
<1>5. HandoverInv' /\ FenceHasOwner'
  BY <1>1, <1>3 DEF HandoverInv, SignalBehindDoor, FenceHasOwner, Reversible
<1>6. PreparingInv'
  BY <1>1, <1>3 DEF IInv, PreparingInv, SuspensionDefersRestart, SignalTypeOK
<1> QED BY <1>2, <1>4, <1>5, <1>6 DEF IInv

-----------------------------------------------------------------------------

\* The fence, the signal behind it, the emissions and the admission agree.
THEOREM Invariance == Spec => []IInv
<1>1. Init => IInv
  <2> SUFFICES ASSUME Init PROVE IInv
    OBVIOUS
  <2>1. AdmissionInv
    <3>1. 0 \in 0 .. MaxReferences
      BY GenerationAssumption
    <3>2. AdmissionTypeOK
      BY <3>1 DEF Init, AdmissionInit, AdmissionTypeOK
    <3>3. ActiveMeansReferenced /\ ParkedMeansClosed /\ DrainWaiterHasRoot
      BY DEF Init, AdmissionInit, ActiveMeansReferenced, ParkedMeansClosed,
             DrainWaiterHasRoot
    <3> QED BY <3>2, <3>3 DEF AdmissionInv
  <2>2. SignalTypeOK
    <3>1. 0 \in 0 .. MaxExternal
      BY EmitterAssumption
    <3> QED BY <3>1 DEF Init, SignalTypeOK
  <2>3. HandoverInv /\ FenceHasOwner
    BY DEF Init, AdmissionInit, HandoverInv, SignalBehindDoor, FenceHasOwner,
           Reversible
  <2>4. PreparingInv
    BY DEF Init, AdmissionInit, PreparingInv, SuspensionDefersRestart
  <2> QED BY <2>1, <2>2, <2>3, <2>4 DEF IInv
<1>2. IInv /\ [Next]_vars => IInv'
  <2> SUFFICES ASSUME IInv, [Next]_vars PROVE IInv'
    OBVIOUS
  <2>1. CASE UNCHANGED vars
    <3>1. UNCHANGED <<admissionVars, emitterVars, signalState, loopVars>>
      BY <2>1 DEF vars
    <3>2. AdmissionInv' /\ ActiveRoots' = ActiveRoots
      BY <3>1 DEF IInv, AdmissionInv, ActiveMeansReferenced, Closed,
                  ParkedMeansClosed, DrainWaiterHasRoot, ActiveRoots,
                  AdmissionTypeOK
    <3> QED BY <3>1, <3>2, RestKeepsInv DEF IInv, SignalTypeOK, PreparingInv
  <2>2. ASSUME NEW e \in Emitter,
               \/ \E idle \in BOOLEAN : Attempt(e, idle)
               \/ \E result \in Results : Prepared(e, result)
               \/ PreparedRefuses(e)
               \/ Finish(e)
               \/ Leave(e)
               \/ Cancel(e)
        PROVE  IInv'
    BY <2>2, AttemptKeepsInv, PreparedKeepsInv, PreparedRefusesKeepsInv,
       FinishKeepsInv, LeaveKeepsInv, CancelKeepsInv
  <2>3. ASSUME NEW r \in Requester, NEW result \in Results,
               DirectRequest(r, result)
        PROVE  IInv'
    BY <2>3, DirectRequestKeepsInv
  <2>4. CASE HandleAuthorized \/ HandleIntent \/ HandleUnauthorized \/ HandlerFails
    BY <2>4, AcceptanceKeepsInv, RejectionKeepsInv
  <2>5. CASE \/ ExternalSignal \/ LifecycleReset
             \/ RunAcceptedRequest \/ NextIteration
    BY <2>5, ExternalSignalKeepsInv, LifecycleResetKeepsInv, LoopKeepsInv
  <2>6. CASE HoldSuspension \/ EndSuspension \/ RootStep
    BY <2>6, SuspensionKeepsInv, RootStepKeepsInv
  <2> QED BY <2>1, <2>2, <2>3, <2>4, <2>5, <2>6 DEF Next
<1> QED BY <1>1, <1>2, PTL DEF Spec

\* The types of the signal's state and of the admission under it.
THEOREM TypeCorrect == Spec => []TypeOK
<1>1. IInv => TypeOK
  BY DEF IInv, SignalTypeOK, AdmissionInv, TypeOK
<1> QED BY <1>1, Invariance, PTL

\* Until the run loop has decided on a sent signal nobody is admitted.
THEOREM SignalStaysBehindDoor == Spec => []SignalBehindDoor
<1>1. IInv => SignalBehindDoor
  BY DEF IInv, HandoverInv
<1> QED BY <1>1, Invariance, PTL

\* A closed fence has a handler, a preparing creator or an accepted restart that
\* will reopen it or turn it into the drain.
THEOREM FenceAlwaysHasOwner == Spec => []FenceHasOwner
<1>1. IInv => FenceHasOwner
  BY DEF IInv
<1> QED BY <1>1, Invariance, PTL

\* Nothing of a restart is under way while the host may freeze the process.
THEOREM RestartWaitsForSuspension == Spec => []SuspensionDefersRestart
<1>1. IInv => SuspensionDefersRestart
  BY DEF IInv, PreparingInv
<1> QED BY <1>1, Invariance, PTL

-----------------------------------------------------------------------------
(* The emissions, requests and handlers move the door of AdmissionDoor.    *)

\* The drain of a restart has ended the suspension it found, and none begins
\* behind it.
DrainEndsSuspension == restartDraining => suspendPhase = "accepting"

LEMMA DrainKeepsEndingSuspension ==
  ASSUME DrainEndsSuspension, [Next]_vars
  PROVE  DrainEndsSuspension'
<1>1. ASSUME UNCHANGED <<restartDraining, suspendPhase>>
      PROVE  DrainEndsSuspension'
  BY <1>1 DEF DrainEndsSuspension
<1>2. CASE UNCHANGED vars \/ ExternalSignal \/ NextIteration
  BY <1>1, <1>2 DEF vars, ExternalSignal, NextIteration
<1>3. ASSUME NEW e \in Emitter,
             \/ \E idle \in BOOLEAN : Attempt(e, idle)
             \/ \E result \in Results : Prepared(e, result)
             \/ PreparedRefuses(e)
             \/ Finish(e)
             \/ Cancel(e)
      PROVE  DrainEndsSuspension'
  BY <1>1, <1>3 DEF Attempt, Prepared, PreparedRefuses, Finish, Cancel
<1>4. ASSUME NEW e \in Emitter, Leave(e)
      PROVE  DrainEndsSuspension'
  BY <1>1, <1>4 DEF Leave, ReleaseRoot
<1>5. CASE \E r \in Requester, result \in Results : DirectRequest(r, result)
  BY <1>1, <1>5 DEF DirectRequest
<1>6. CASE HandleUnauthorized \/ HandlerFails
  BY <1>1, <1>6 DEF HandleUnauthorized, HandlerFails
<1>7. CASE HandleAuthorized \/ HandleIntent \/ RunAcceptedRequest
  <2>1. MarkDraining \/ UNCHANGED <<restartDraining, suspendPhase>>
    BY <1>7 DEF HandleAuthorized, HandleIntent, RunAcceptedRequest
  <2>2. CASE MarkDraining /\ (drainMarked \/ restartDraining)
    BY <1>1, <2>2 DEF MarkDraining
  <2>3. CASE MarkDraining /\ ~drainMarked /\ ~restartDraining
    BY <2>3 DEF MarkDraining, MarkGatewayRestartDraining, InvalidateSuspend,
                DrainEndsSuspension
  <2> QED BY <1>1, <2>1, <2>2, <2>3
<1>8. CASE LifecycleReset \/ HoldSuspension \/ EndSuspension
  BY <1>8 DEF LifecycleReset, ResetGatewayWorkAdmission, RetireRoots, Closed,
              HoldSuspension, EndSuspension, ReopenSuspend, DrainEndsSuspension
<1>9. CASE RootStep
  BY <1>1, <1>9 DEF RootStep, BeginRoot, BeginRootWhenOpen, ReleaseRoot, Admit
<1> QED BY <1>2, <1>3, <1>4, <1>5, <1>6, <1>7, <1>8, <1>9 DEF Next

\* A step on the fence of the signal, which spares the door of the restart.
LEMMA SignalFenceMovesDoor ==
  ASSUME AdmissionInv, UNCHANGED <<restartDraining, suspendVars, rootDrain>>,
         restartDraining => UNCHANGED <<signalVars, rootState>>,
         \/ rootState' = Woken
         \/ rootState' = rootState /\ (restartSignalPending => restartSignalPending')
  PROVE  [Door!Next]_(Door!vars)
<1>1. CASE restartDraining
  BY <1>1, StillDoor DEF Closed
<1>2. CASE ~restartDraining
  BY <1>2, FencesMoveDoor DEF Closed
<1> QED BY <1>1, <1>2

\* A request takes or reopens the fence only while no restart has it.
LEMMA RequestSparesDrain ==
  ASSUME NEW result, Request(result), restartDraining
  PROVE  UNCHANGED <<signalVars, rootState>>
BY DEF Request, TakeLease, ClearPendingLease, ReopenIf, Reversible

LEMMA RequestMovesDoor ==
  ASSUME IInv, NEW result, Request(result),
         UNCHANGED <<restartDraining, suspendVars, rootDrain, loop>>
  PROVE  [Door!Next]_(Door!vars)
BY RequestFacts, RequestSparesDrain, SignalFenceMovesDoor DEF IInv, AdmissionInv

LEMMA RollbackMovesDoor ==
  ASSUME IInv, NEW e \in Emitter, RollbackFence(e),
         UNCHANGED <<restartDraining, suspendVars, rootDrain, unconsumed, handlers,
                     loop>>
  PROVE  [Door!Next]_(Door!vars)
<1>1. restartDraining => UNCHANGED <<signalVars, rootState>>
  BY DEF RollbackFence, ReopenIf, Reversible
<1> QED BY <1>1, RollbackFacts, SignalFenceMovesDoor DEF IInv, AdmissionInv

\* An emission goes through the door, maybe shutting it behind itself, or
\* waits before it.
LEMMA AttemptUsesDoor ==
  ASSUME IInv, NEW e \in Emitter, NEW idle \in BOOLEAN, Attempt(e, idle)
  PROVE  [Door!Next]_(Door!vars)
<1>0. e \in Root /\ e \in Patient
  BY RootAssumption, EmitterAssumption
<1>1. /\ rootState[e] \in {"new", "woken"}
      /\ UNCHANGED <<restartDraining, suspendVars, rootDrain>>
  BY DEF Attempt
<1>2. CASE DoorShut
  <2>1. /\ rootState' = [rootState EXCEPT ![e] =
             IF restartDraining THEN "refused" ELSE "parked"]
        /\ UNCHANGED <<fenceVars, rootDrain>>
    BY <1>1, <1>2 DEF Attempt
  <2> QED BY <1>0, <1>1, <1>2, <2>1, RefusalUsesDoor DEF DoorShut
<1>3. CASE ~DoorShut
  <2>1. rootState' = [rootState EXCEPT ![e] = "active"]
    BY <1>3 DEF Attempt
  <2> QED BY <1>0, <1>1, <1>3, <2>1, AdmissionUsesDoor DEF DoorShut
<1> QED BY <1>2, <1>3

\* The other steps of an emission.
LEMMA EmissionUsesDoor ==
  ASSUME IInv, NEW e \in Emitter,
         \/ \E result \in Results : Prepared(e, result)
         \/ PreparedRefuses(e)
         \/ Finish(e)
         \/ Leave(e)
         \/ Cancel(e)
  PROVE  [Door!Next]_(Door!vars)
<1>1. ASSUME UNCHANGED <<fenceVars, rootState, rootDrain>>
      PROVE  [Door!Next]_(Door!vars)
  BY <1>1, StillDoor DEF Closed
<1>2. ASSUME NEW result \in Results, Prepared(e, result)
      PROVE  [Door!Next]_(Door!vars)
  <2>1. UNCHANGED <<restartDraining, suspendVars, rootDrain, loop>>
    BY <1>2 DEF Prepared
  <2>2. CASE e \in fenceActive \ stale
    BY <1>2, <2>1, <2>2, RequestMovesDoor DEF Prepared
  <2>3. CASE e \notin fenceActive \ stale
    BY <1>1, <1>2, <2>1, <2>3 DEF Prepared
  <2> QED BY <2>2, <2>3
<1>3. CASE PreparedRefuses(e)
  BY <1>1, <1>3 DEF PreparedRefuses
<1>4. CASE Finish(e)
  <2>1. /\ UNCHANGED <<restartDraining, suspendVars, rootDrain, unconsumed, handlers,
                       loop>>
        /\ RollbackFence(e) \/ UNCHANGED <<signalVars, rootState>>
    BY <1>4 DEF Finish
  <2>2. CASE RollbackFence(e)
    BY <2>1, <2>2, RollbackMovesDoor
  <2>3. CASE UNCHANGED <<signalVars, rootState>>
    BY <1>1, <2>1, <2>3
  <2> QED BY <2>1, <2>2, <2>3
<1>5. CASE Leave(e)
  <2>1. CASE ReleaseRoot(e)
    BY <2>1, RootActionsUseDoor, RootAssumption, EmitterAssumption DEF IInv
  <2>2. CASE UNCHANGED admissionVars
    BY <1>1, <2>2
  <2> QED BY <1>5, <2>1, <2>2 DEF Leave
<1>6. CASE Cancel(e)
  BY <1>6, RollbackMovesDoor DEF Cancel
<1> QED BY <1>2, <1>3, <1>4, <1>5, <1>6

\* The drain closes the door, or leaves it as it is.
LEMMA DrainMovesDoor ==
  ASSUME IInv, MarkDraining
  PROVE  [Door!Next]_(Door!vars)
<1>1. CASE drainMarked \/ restartDraining
  <2>1. UNCHANGED admissionVars
    BY <1>1 DEF MarkDraining
  <2> QED BY <2>1, StillDoor DEF Closed
<1>2. CASE ~drainMarked /\ ~restartDraining
  BY <1>2, RestartClosesDoor DEF MarkDraining
<1> QED BY <1>1, <1>2

\* The handlers of the run loop, and its steps up to the next lifecycle.
LEMMA HandlersMoveDoor ==
  ASSUME IInv,
         \/ HandleAuthorized \/ HandleIntent
         \/ HandleUnauthorized \/ HandlerFails
         \/ ExternalSignal \/ RunAcceptedRequest \/ NextIteration
  PROVE  [Door!Next]_(Door!vars)
<1>1. CASE ExternalSignal \/ NextIteration
  <2>1. UNCHANGED admissionVars
    BY <1>1 DEF ExternalSignal, NextIteration
  <2> QED BY <2>1, StillDoor DEF Closed
<1>2. CASE MarkDraining
  BY <1>2, DrainMovesDoor
<1>3. ASSUME ClearPendingLease, UNCHANGED <<restartDraining, suspendVars, rootDrain>>
      PROVE  [Door!Next]_(Door!vars)
  <2>1. ReopenIf(TRUE)
    BY <1>3 DEF ClearPendingLease
  <2>2. restartDraining => UNCHANGED <<signalVars, rootState>>
    BY <2>1 DEF ReopenIf, Reversible
  <2> QED BY <1>3, <2>1, <2>2, ReopenFacts, SignalFenceMovesDoor
          DEF IInv, AdmissionInv
<1>4. CASE HandleUnauthorized \/ HandlerFails
  BY <1>3, <1>4 DEF HandleUnauthorized, HandlerFails
<1>5. CASE HandleAuthorized
  BY <1>2, <1>3, <1>5 DEF HandleAuthorized
<1>6. CASE HandleIntent \/ RunAcceptedRequest
  BY <1>2, <1>6 DEF HandleIntent, RunAcceptedRequest
<1> QED BY <1>1, <1>4, <1>5, <1>6

\* A suspension, and the other roots.
LEMMA OthersUseDoor ==
  ASSUME IInv, DrainEndsSuspension,
         HoldSuspension \/ EndSuspension \/ RootStep
  PROVE  [Door!Next]_(Door!vars)
<1>1. CASE HoldSuspension
  <2>1. ~restartDraining /\ ~Closed
    BY <1>1 DEF HoldSuspension, Closed
  <2> QED BY <1>1, <2>1, FencesMoveDoor DEF HoldSuspension, IInv
<1>2. CASE EndSuspension
  <2>1. ReopenSuspend(suspendGeneration, "prepared")
    BY <1>2 DEF EndSuspension
  <2>2. CASE restartDraining
    <3>1. suspendPhase = "prepared" /\ suspendPhase = "accepting"
      BY <2>1, <2>2 DEF ReopenSuspend, DrainEndsSuspension
    <3> QED BY <3>1
  <2>3. CASE ~restartDraining
    BY <2>1, <2>3, FencesMoveDoor DEF ReopenSuspend, IInv
  <2> QED BY <2>2, <2>3
<1>3. CASE RootStep
  BY <1>3, RootActionsUseDoor DEF RootStep, IInv
<1> QED BY <1>1, <1>2, <1>3

\* Every step of the restart signal and of those beside it, the reset excepted.
LEMMA StepsUseDoor ==
  ASSUME IInv, DrainEndsSuspension, [Next]_vars
  PROVE  [Door!Next]_(Door!vars) \/ LifecycleReset
<1>1. CASE UNCHANGED vars
  BY <1>1, StillDoor DEF vars, Closed
<1>2. ASSUME NEW e \in Emitter,
             \/ \E idle \in BOOLEAN : Attempt(e, idle)
             \/ \E result \in Results : Prepared(e, result)
             \/ PreparedRefuses(e)
             \/ Finish(e)
             \/ Leave(e)
             \/ Cancel(e)
      PROVE  [Door!Next]_(Door!vars)
  BY <1>2, AttemptUsesDoor, EmissionUsesDoor
<1>3. ASSUME NEW r \in Requester, NEW result \in Results,
             DirectRequest(r, result)
      PROVE  [Door!Next]_(Door!vars)
  BY <1>3, RequestMovesDoor DEF DirectRequest
<1>4. CASE \/ HandleAuthorized \/ HandleIntent
           \/ HandleUnauthorized \/ HandlerFails
           \/ ExternalSignal \/ RunAcceptedRequest \/ NextIteration
  BY <1>4, HandlersMoveDoor
<1>5. CASE HoldSuspension \/ EndSuspension \/ RootStep
  BY <1>5, OthersUseDoor
<1> QED BY <1>1, <1>2, <1>3, <1>4, <1>5 DEF Next

\* Signals, drains, resets and suspensions keep one door: an emission that
\* shuts it goes through it first, a fence that reopens leaves nobody asleep,
\* and none of them touches the door of a restart.  Only the reset may find the
\* door open, after a restart that skipped its drain.
THEOREM RestartsKeepDoor == Spec => DoorIsKeptButReset
<1>1. Init => Door!Init
  BY DoorStartsOpen DEF Init
<1>2. Init => DrainEndsSuspension
  BY DEF Init, AdmissionInit, DrainEndsSuspension
<1>3. DrainEndsSuspension /\ [Next]_vars => DrainEndsSuspension'
  BY DrainKeepsEndingSuspension
<1>4. IInv /\ DrainEndsSuspension /\ [Next]_vars
        => [Door!Next \/ Door!Eviction]_(Door!vars)
  BY StepsUseDoor, ResetFindsDoor DEF LifecycleReset
<1> QED BY <1>1, <1>2, <1>3, <1>4, Invariance, PTL
           DEF Spec, DoorIsKeptButReset, Door!SpecButEviction

=============================================================================
