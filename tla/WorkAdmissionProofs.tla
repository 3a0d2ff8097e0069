------------------------- MODULE WorkAdmissionProofs -------------------------
(***************************************************************************)
(* Theorems about WorkAdmission, for any set of chains and any bounds.     *)
(***************************************************************************)
EXTENDS WorkAdmission, TLAPS

\* An active root holds a lease; what the types need to be inductive.
ActiveMeansReferenced ==
  \A r \in Root : rootState[r] = "active" => references[r] # 0

AdmissionInv ==
  /\ AdmissionTypeOK
  /\ ActiveMeansReferenced
  /\ ParkedMeansClosed
  /\ DrainWaiterHasRoot

USE DEF AdmissionTypeOK, admissionVars, fenceVars, signalVars, suspendVars,
        rootVars

-----------------------------------------------------------------------------

\* Whatever wakes the parked chains leaves none parked and the active roots
\* as they are.
LEMMA WokenSleepsNot ==
  ASSUME AdmissionTypeOK, rootState' = Woken
  PROVE  /\ rootState' \in [Root -> {"new", "parked", "woken", "active",
                                     "released", "refused"}]
         /\ \A r \in Root :
              /\ rootState'[r] # "parked"
              /\ rootState'[r] = "active" <=> rootState[r] = "active"
         /\ ActiveRoots' = ActiveRoots
<1>1. \A r \in Root : rootState'[r] = IF rootState[r] = "parked" THEN "woken"
                                      ELSE rootState[r]
  BY DEF Woken
<1>2. \A r \in Root :
        /\ rootState'[r] # "parked"
        /\ rootState'[r] = "active" <=> rootState[r] = "active"
  BY <1>1
<1>3. ActiveRoots' = ActiveRoots
  BY <1>2 DEF ActiveRoots
<1>4. rootState' \in [Root -> {"new", "parked", "woken", "active", "released",
                               "refused"}]
  BY DEF Woken
<1> QED BY <1>2, <1>3, <1>4

\* The actions of the roots keep the invariant.
LEMMA RootActionsKeepInv ==
  ASSUME AdmissionInv, NEW r \in Root,
         \/ BeginRoot(r)
         \/ BeginRootWhenOpen(r)
         \/ \E p \in Root : ContinueRoot(p, r)
         \/ RetainRoot(r)
         \/ ReleaseRoot(r)
  PROVE  AdmissionInv'
<1> USE RootAssumption, GenerationAssumption DEF AdmissionInv, ActiveRoots
<1>1. ASSUME Admit(r), ~Closed \/ ActiveRoots # {}, rootState[r] # "active"
      PROVE  AdmissionInv'
  BY <1>1 DEF Admit, Closed, ActiveMeansReferenced, ParkedMeansClosed,
              DrainWaiterHasRoot
<1>2. CASE BeginRoot(r)
  BY <1>1, <1>2 DEF BeginRoot, Closed, ActiveMeansReferenced,
                    ParkedMeansClosed, DrainWaiterHasRoot
<1>3. CASE BeginRootWhenOpen(r)
  BY <1>1, <1>3 DEF BeginRootWhenOpen, Closed, ActiveMeansReferenced,
                    ParkedMeansClosed, DrainWaiterHasRoot
<1>4. CASE \E p \in Root : ContinueRoot(p, r)
  BY <1>1, <1>4 DEF ContinueRoot
<1>5. CASE RetainRoot(r)
  BY <1>5 DEF RetainRoot, Closed, ActiveMeansReferenced, ParkedMeansClosed,
              DrainWaiterHasRoot
<1>6. CASE ReleaseRoot(r)
  <2> DEFINE last == references[r] = 1
  <2>1. /\ rootState[r] = "active"
        /\ references' = [references EXCEPT ![r] = @ - 1]
        /\ rootState' = [rootState EXCEPT ![r] = IF last THEN "released" ELSE @]
        /\ rootDrain' = IF last /\ ActiveRoots = {r} /\ rootDrain = "waiting"
                        THEN "woken" ELSE rootDrain
        /\ UNCHANGED fenceVars
    BY <1>6 DEF ReleaseRoot
  <2>2. AdmissionTypeOK' /\ ActiveMeansReferenced'
    BY <2>1 DEF ActiveMeansReferenced
  <2>3. ParkedMeansClosed'
    BY <2>1 DEF ParkedMeansClosed, Closed
  <2>4. DrainWaiterHasRoot'
    <3> SUFFICES ASSUME rootDrain' = "waiting" PROVE ActiveRoots' # {}
      BY DEF DrainWaiterHasRoot
    <3>1. rootDrain = "waiting" /\ ~(last /\ ActiveRoots = {r})
      BY <2>1
    <3>2. CASE ~last
      BY <2>1, <3>2
    <3>3. CASE ActiveRoots # {r}
      <4>1. PICK q \in Root : q # r /\ rootState[q] = "active"
        BY <2>1, <3>3
      <4> QED BY <2>1, <4>1
    <3> QED BY <3>1, <3>2, <3>3
  <2> QED BY <2>2, <2>3, <2>4
<1> QED BY <1>2, <1>3, <1>4, <1>5, <1>6


\* So do the actions of the drain that waits for the roots.
LEMMA DrainActionsKeepInv ==
  ASSUME AdmissionInv,
         WaitForRootDrain \/ RootDrainTimeout \/ RootDrainReports
  PROVE  AdmissionInv'
<1> USE DEF AdmissionInv, ActiveMeansReferenced, ParkedMeansClosed, Closed,
            DrainWaiterHasRoot, ActiveRoots
<1>1. CASE WaitForRootDrain
  BY <1>1 DEF WaitForRootDrain
<1>2. CASE RootDrainTimeout
  BY <1>2 DEF RootDrainTimeout
<1>3. CASE RootDrainReports
  BY <1>3 DEF RootDrainReports
<1> QED BY <1>1, <1>2, <1>3

\* So do the two fences of a restart and the reset of the lifecycle.
LEMMA FenceActionsKeepInv ==
  ASSUME AdmissionInv,
         \/ MarkGatewayRestartDraining
         \/ BeginRestartSignal
         \/ ClearRestartSignalFence
         \/ ResetGatewayWorkAdmission
  PROVE  AdmissionInv'
<1> USE DEF AdmissionInv
<1>1. CASE MarkGatewayRestartDraining
  <2>1. rootState' = Woken /\ UNCHANGED <<references, rootDrain>>
    BY <1>1 DEF MarkGatewayRestartDraining
  <2>2. AdmissionTypeOK'
    <3>1. /\ restartSignalGeneration' \in Nat
          /\ suspendGeneration' \in Nat
          /\ suspendPhase' \in {"accepting", "preparing", "prepared"}
      BY <1>1 DEF MarkGatewayRestartDraining, InvalidateSuspend
    <3>2. restartDraining' \in BOOLEAN /\ restartSignalPending' \in BOOLEAN
      BY <1>1 DEF MarkGatewayRestartDraining
    <3> QED BY <2>1, <3>1, <3>2, WokenSleepsNot
  <2> QED BY <2>1, <2>2, WokenSleepsNot
          DEF ActiveMeansReferenced, ParkedMeansClosed, DrainWaiterHasRoot
<1>2. CASE BeginRestartSignal
  BY <1>2 DEF BeginRestartSignal, ActiveMeansReferenced, ParkedMeansClosed,
              Closed, DrainWaiterHasRoot, ActiveRoots
<1>3. CASE ClearRestartSignalFence
  <2>1. rootState' = Woken /\ UNCHANGED <<references, rootDrain>>
    BY <1>3 DEF ClearRestartSignalFence
  <2>2. AdmissionTypeOK'
    <3>1. /\ restartSignalGeneration' \in Nat
          /\ UNCHANGED <<suspendGeneration, suspendPhase>>
      BY <1>3 DEF ClearRestartSignalFence
    <3>2. restartDraining' \in BOOLEAN /\ restartSignalPending' \in BOOLEAN
      BY <1>3 DEF ClearRestartSignalFence
    <3> QED BY <2>1, <3>1, <3>2, WokenSleepsNot
  <2> QED BY <2>1, <2>2, WokenSleepsNot
          DEF ActiveMeansReferenced, ParkedMeansClosed, DrainWaiterHasRoot
<1>4. CASE ResetGatewayWorkAdmission
  <2>1. /\ rootState' = [r \in Root |-> IF rootState[r] = "active"
                                        THEN "released" ELSE Woken[r]]
        /\ references' = [r \in Root |-> 0]
        /\ rootDrain' = IF rootDrain \in {"waiting", "woken"} THEN "woken"
                        ELSE "none"
    BY <1>4 DEF ResetGatewayWorkAdmission, RetireRoots
  <2>2. \A r \in Root : rootState'[r] # "active" /\ rootState'[r] # "parked"
    BY <2>1 DEF Woken
  <2>3. rootState' \in [Root -> {"new", "parked", "woken", "active",
                                 "released", "refused"}]
    BY <2>1 DEF Woken
  <2>4. references' \in [Root -> 0 .. MaxReferences]
    BY <2>1, GenerationAssumption
  <2>5. AdmissionTypeOK'
    <3>1. /\ restartSignalGeneration' \in Nat
          /\ suspendGeneration' \in Nat
          /\ suspendPhase' \in {"accepting", "preparing", "prepared"}
      BY <1>4 DEF ResetGatewayWorkAdmission, RetireRoots, InvalidateSuspend
    <3>2. restartDraining' \in BOOLEAN /\ restartSignalPending' \in BOOLEAN
      BY <1>4 DEF ResetGatewayWorkAdmission, RetireRoots
    <3> QED BY <2>1, <2>3, <2>4, <3>1, <3>2
  <2> QED BY <2>1, <2>2, <2>5
          DEF ActiveMeansReferenced, ParkedMeansClosed, DrainWaiterHasRoot
<1> QED BY <1>1, <1>2, <1>3, <1>4

\* So do the suspension leases, of whatever generation.
LEMMA SuspendActionsKeepInv ==
  ASSUME AdmissionInv, NEW g \in Nat,
         \/ BeginSuspend
         \/ CommitSuspend(g)
         \/ \E phase \in {"preparing", "prepared"} : ReopenSuspend(g, phase)
  PROVE  AdmissionInv'
<1> USE DEF AdmissionInv
<1>1. CASE BeginSuspend
  BY <1>1 DEF BeginSuspend, ActiveMeansReferenced, ParkedMeansClosed, Closed,
              DrainWaiterHasRoot, ActiveRoots
<1>2. CASE CommitSuspend(g)
  BY <1>2 DEF CommitSuspend, ActiveMeansReferenced, ParkedMeansClosed, Closed,
              DrainWaiterHasRoot, ActiveRoots
<1>3. ASSUME NEW phase \in {"preparing", "prepared"}, ReopenSuspend(g, phase)
      PROVE  AdmissionInv'
  <2>1. rootState' = Woken /\ UNCHANGED <<references, rootDrain>>
    BY <1>3 DEF ReopenSuspend
  <2>2. AdmissionTypeOK'
    BY <1>3, <2>1, WokenSleepsNot DEF ReopenSuspend
  <2> QED BY <2>1, <2>2, WokenSleepsNot
          DEF ActiveMeansReferenced, ParkedMeansClosed, DrainWaiterHasRoot
<1> QED BY <1>1, <1>2, <1>3

\* The invariant of the door and of those who wait before it or for the roots.
THEOREM AdmissionInvariance == AdmissionSpec => []AdmissionInv
<1>1. AdmissionInit => AdmissionInv
  <2> SUFFICES ASSUME AdmissionInit PROVE AdmissionInv
    OBVIOUS
  <2>1. AdmissionTypeOK
    <3>1. 0 \in 0 .. MaxReferences
      BY GenerationAssumption
    <3> QED BY <3>1 DEF AdmissionInit
  <2>2. ActiveMeansReferenced /\ ParkedMeansClosed /\ DrainWaiterHasRoot
    BY DEF AdmissionInit, ActiveMeansReferenced, ParkedMeansClosed,
           DrainWaiterHasRoot
  <2> QED BY <2>1, <2>2 DEF AdmissionInv
<1>2. AdmissionInv /\ [AdmissionNext]_admissionVars => AdmissionInv'
  <2> SUFFICES ASSUME AdmissionInv, [AdmissionNext]_admissionVars
               PROVE  AdmissionInv'
    OBVIOUS
  <2>1. CASE UNCHANGED admissionVars
    BY <2>1 DEF AdmissionInv, ActiveMeansReferenced, ParkedMeansClosed, Closed,
                DrainWaiterHasRoot, ActiveRoots
  <2>2. ASSUME NEW g \in 1 .. MaxGeneration, RollbackRestartSignal(g)
        PROVE  AdmissionInv'
    BY <2>2, FenceActionsKeepInv DEF RollbackRestartSignal
  <2>3. \A g \in 1 .. MaxGeneration : g \in Nat
    BY GenerationAssumption
  <2> QED BY <2>1, <2>2, <2>3, RootActionsKeepInv, DrainActionsKeepInv,
             FenceActionsKeepInv, SuspendActionsKeepInv DEF AdmissionNext
<1> QED BY <1>1, <1>2, PTL DEF AdmissionSpec

\* Every variable of the admission state keeps its type: in particular no
\* lease of a root is released more often than it was taken.
THEOREM AdmissionTypeCorrect == AdmissionSpec => []AdmissionTypeOK
<1>1. AdmissionInv => AdmissionTypeOK
  BY DEF AdmissionInv
<1> QED BY <1>1, AdmissionInvariance, PTL

\* Nobody sleeps before an open door: each operation that opens the door, and
\* the one-way close, resolves the waiters.
THEOREM NobodySleepsBeforeOpenDoor == AdmissionSpec => []ParkedMeansClosed
<1>1. AdmissionInv => ParkedMeansClosed
  BY DEF AdmissionInv
<1> QED BY <1>1, AdmissionInvariance, PTL

\* An unresolved drain has a root whose release will resolve it.
THEOREM DrainHasRootToWaitFor == AdmissionSpec => []DrainWaiterHasRoot
<1>1. AdmissionInv => DrainWaiterHasRoot
  BY DEF AdmissionInv
<1> QED BY <1>1, AdmissionInvariance, PTL

\* No root appears in an idle process behind a closed door, whatever operation
\* is called: what the drain or the suspension has counted stays true.
THEOREM IdleStaysIdleBehindDoor == AdmissionSpec => IdleStaysIdle
<1>1. AdmissionTypeOK /\ [AdmissionNext]_admissionVars
        => [Closed /\ ActiveRoots = {} => ActiveRoots' = {}]_admissionVars
  <2> SUFFICES ASSUME AdmissionTypeOK, AdmissionNext, Closed, ActiveRoots = {}
               PROVE  ActiveRoots' = {}
    OBVIOUS
  <2>1. ASSUME NEW r \in Root, BeginRoot(r) \/ BeginRootWhenOpen(r)
        PROVE  ActiveRoots' = {}
    <3>1. \/ rootState' = [rootState EXCEPT ![r] = "refused"]
          \/ rootState' = [rootState EXCEPT ![r] = "parked"]
      BY <2>1 DEF BeginRoot, BeginRootWhenOpen
    <3>2. \A q \in Root : rootState'[q] = "active" => rootState[q] = "active"
      BY <3>1
    <3> QED BY <3>2 DEF ActiveRoots
  <2>2. ASSUME NEW r \in Root,
               \/ \E p \in Root : ContinueRoot(p, r)
               \/ RetainRoot(r)
               \/ ReleaseRoot(r)
        PROVE  ActiveRoots' = {}
    BY <2>2 DEF ActiveRoots, ContinueRoot, RetainRoot, ReleaseRoot
  <2>3. ASSUME rootState' = rootState PROVE ActiveRoots' = {}
    BY <2>3 DEF ActiveRoots
  <2>4. CASE WaitForRootDrain \/ RootDrainTimeout \/ RootDrainReports
    BY <2>3, <2>4 DEF WaitForRootDrain, RootDrainTimeout, RootDrainReports
  <2>5. CASE BeginRestartSignal \/ BeginSuspend
    BY <2>3, <2>5 DEF BeginRestartSignal, BeginSuspend
  <2>6. ASSUME \A r \in Root : rootState'[r] = "active" => rootState[r] = "active"
        PROVE  ActiveRoots' = {}
    BY <2>6 DEF ActiveRoots
  <2>7. CASE MarkGatewayRestartDraining \/ ClearRestartSignalFence
    BY <2>6, <2>7 DEF MarkGatewayRestartDraining, ClearRestartSignalFence, Woken
  <2>8. CASE ResetGatewayWorkAdmission
    BY <2>6, <2>8 DEF ResetGatewayWorkAdmission, RetireRoots, Woken
  <2>9. ASSUME NEW g \in 1 .. MaxGeneration,
               \/ RollbackRestartSignal(g)
               \/ CommitSuspend(g)
               \/ \E phase \in {"preparing", "prepared"} : ReopenSuspend(g, phase)
        PROVE  ActiveRoots' = {}
    BY <2>3, <2>6, <2>9 DEF RollbackRestartSignal, ClearRestartSignalFence,
                            CommitSuspend, ReopenSuspend, Woken
  <2> QED BY <2>1, <2>2, <2>4, <2>5, <2>7, <2>8, <2>9 DEF AdmissionNext
<1> QED BY <1>1, AdmissionTypeCorrect, PTL DEF AdmissionSpec, IdleStaysIdle

-----------------------------------------------------------------------------
(* The fences are one door: every operation is a step of AdmissionDoor, or *)
(* changes nothing of it.                                                  *)

\* The gateway starts with an open door and everybody before it.
LEMMA DoorStartsOpen ==
  ASSUME AdmissionInit
  PROVE  Door!Init
BY DEF AdmissionInit, Door!Init, Closed

\* Nothing of the door moves unless a fence, a chain or the drain does.
LEMMA StillDoor ==
  ASSUME UNCHANGED <<restartDraining, rootState, rootDrain>>, Closed' = Closed
  PROVE  UNCHANGED Door!vars
BY DEF Door!vars

\* The sleepers of the code are those of the door.
LEMMA RousedIsWoken == Door!Roused = Woken
BY DEF Door!Roused, Woken

LEMMA InsideIsActive == Door!Inside = ActiveRoots
BY DEF Door!Inside, ActiveRoots

\* Before an open door there is nobody to wake.
LEMMA NobodyToWake ==
  ASSUME AdmissionInv, ~Closed
  PROVE  Woken = rootState
<1>1. rootState \in [Root -> {"new", "parked", "woken", "active", "released",
                              "refused"}]
  BY DEF AdmissionInv
<1>2. \A r \in Root : rootState[r] # "parked"
  BY DEF AdmissionInv, ParkedMeansClosed
<1> QED BY <1>1, <1>2 DEF Woken

\* The reversible fences: closing one leaves the chains alone, and reopening
\* one wakes them, whether or not another one is still closed.
LEMMA FencesMoveDoor ==
  ASSUME AdmissionInv, ~restartDraining,
         UNCHANGED <<restartDraining, rootDrain>>,
         \/ rootState' = Woken
         \/ rootState' = rootState /\ (Closed => Closed')
  PROVE  [Door!Next]_(Door!vars)
<1>1. CASE Closed /\ rootState' = Woken
  <2>1. Door!LetGo
    BY <1>1, RousedIsWoken DEF Door!LetGo
  <2> QED BY <2>1 DEF Door!Next
<1>2. CASE Closed /\ rootState' # Woken
  <2>1. rootState' = rootState /\ Closed' = Closed
    BY <1>2 DEF Closed
  <2> QED BY <2>1, StillDoor
<1>3. CASE ~Closed
  <2>1. rootState' = rootState
    BY <1>3, NobodyToWake
  <2>2. CASE Closed'
    <3>1. Door!Shut
      BY <1>3, <2>1, <2>2 DEF Door!Shut
    <3> QED BY <3>1 DEF Door!Next
  <2>3. CASE ~Closed'
    <3>1. Closed' = Closed
      BY <1>3, <2>3 DEF Closed
    <3> QED BY <2>1, <3>1, StillDoor
  <2> QED BY <2>2, <2>3
<1> QED BY <1>1, <1>2, <1>3

\* An admission goes through the open door, which the chain may shut behind it,
\* or follows a live root.
LEMMA AdmissionUsesDoor ==
  ASSUME NEW r \in Root, restartDraining' = restartDraining,
         rootState' = [rootState EXCEPT ![r] = "active"],
         rootDrain' = rootDrain,
         \/ rootState[r] \in {"new", "woken"} /\ ~Closed
         \/ rootState[r] = "new" /\ ActiveRoots # {} /\ Closed' = Closed
  PROVE  Door!Next
<1>1. CASE rootState[r] \in {"new", "woken"} /\ ~Closed
  <2>1. Door!Enter(r)
    BY <1>1 DEF Door!Enter, Door!AtDoor, Closed
  <2> QED BY <2>1 DEF Door!Next
<1>2. CASE rootState[r] = "new" /\ ActiveRoots # {} /\ Closed' = Closed
  <2>1. Door!Follow(r)
    BY <1>2, InsideIsActive DEF Door!Follow
  <2> QED BY <2>1 DEF Door!Next
<1> QED BY <1>1, <1>2

\* Behind a closed door a patient chain sleeps and any other is turned away;
\* behind that of a restart each one is.
LEMMA RefusalUsesDoor ==
  ASSUME NEW r \in Root, UNCHANGED <<fenceVars, rootDrain>>, Closed,
         rootState[r] \in {"new", "woken"},
         rootState' = [rootState EXCEPT ![r] =
           IF r \in Patient /\ ~restartDraining THEN "parked" ELSE "refused"]
  PROVE  Door!Next
<1>1. Closed' = Closed
  BY DEF Closed
<1>2. CASE r \in Patient /\ ~restartDraining
  <2>1. Door!Sleep(r)
    BY <1>1, <1>2 DEF Door!Sleep, Door!AtDoor
  <2> QED BY <2>1 DEF Door!Next
<1>3. CASE ~(r \in Patient /\ ~restartDraining)
  <2>1. Door!TurnAway(r)
    BY <1>1, <1>3 DEF Door!TurnAway, Door!AtDoor
  <2> QED BY <2>1 DEF Door!Next
<1> QED BY <1>2, <1>3

\* The chains before and behind the door.
LEMMA RootActionsUseDoor ==
  ASSUME AdmissionInv, NEW r \in Root,
         \/ BeginRoot(r)
         \/ BeginRootWhenOpen(r)
         \/ \E p \in Root : ContinueRoot(p, r)
         \/ RetainRoot(r)
         \/ ReleaseRoot(r)
  PROVE  [Door!Next]_(Door!vars)
<1>1. CASE BeginRoot(r)
  <2>1. CASE Closed
    BY <1>1, <2>1, RefusalUsesDoor DEF BeginRoot
  <2>2. CASE ~Closed
    BY <1>1, <2>2, AdmissionUsesDoor DEF BeginRoot, Admit
  <2> QED BY <2>1, <2>2
<1>2. CASE BeginRootWhenOpen(r)
  <2>1. CASE Closed
    BY <1>2, <2>1, RefusalUsesDoor DEF BeginRootWhenOpen
  <2>2. CASE ~Closed
    BY <1>2, <2>2, AdmissionUsesDoor DEF BeginRootWhenOpen, Admit
  <2> QED BY <2>1, <2>2
<1>3. CASE \E p \in Root : ContinueRoot(p, r)
  <2>1. /\ rootState[r] = "new" /\ ActiveRoots # {}
        /\ Admit(r)
    BY <1>3 DEF ContinueRoot, ActiveRoots
  <2>2. Closed' = Closed
    BY <2>1 DEF Admit, Closed
  <2> QED BY <2>1, <2>2, AdmissionUsesDoor DEF Admit
<1>4. CASE RetainRoot(r)
  BY <1>4, StillDoor DEF RetainRoot, Closed
<1>5. CASE ReleaseRoot(r)
  <2>1. UNCHANGED restartDraining /\ Closed' = Closed
    BY <1>5 DEF ReleaseRoot, Closed
  <2>2. CASE references[r] = 1
    <3>1. Door!Leave(r)
      BY <1>5, <2>1, <2>2, InsideIsActive DEF ReleaseRoot, Door!Leave
    <3> QED BY <3>1 DEF Door!Next
  <2>3. CASE references[r] # 1
    <3>1. rootState' = rootState /\ rootDrain' = rootDrain
      BY <1>5, <2>3 DEF ReleaseRoot, AdmissionInv
    <3> QED BY <2>1, <3>1, StillDoor
  <2> QED BY <2>2, <2>3
<1> QED BY <1>1, <1>2, <1>3, <1>4, <1>5

\* The drain of a restart.
LEMMA DrainActionsUseDoor ==
  ASSUME WaitForRootDrain \/ RootDrainTimeout \/ RootDrainReports
  PROVE  [Door!Next]_(Door!vars)
<1>1. UNCHANGED <<restartDraining, rootState>> /\ Closed' = Closed
  BY DEF WaitForRootDrain, RootDrainTimeout, RootDrainReports, Closed
<1>2. CASE WaitForRootDrain
  <2>1. Door!Wait
    BY <1>1, <1>2, InsideIsActive DEF WaitForRootDrain, Door!Wait
  <2> QED BY <2>1 DEF Door!Next
<1>3. CASE RootDrainTimeout
  <2>1. Door!GiveUp
    BY <1>1, <1>3 DEF RootDrainTimeout, Door!GiveUp
  <2> QED BY <2>1 DEF Door!Next
<1>4. CASE RootDrainReports
  <2>1. Door!Report
    BY <1>1, <1>4, InsideIsActive DEF RootDrainReports, Door!Report
  <2> QED BY <2>1 DEF Door!Next
<1> QED BY <1>2, <1>3, <1>4

\* The restart closes the door for good and turns the sleepers out.
LEMMA RestartClosesDoor ==
  ASSUME MarkGatewayRestartDraining
  PROVE  Door!Next
<1>1. Door!CloseForRestart
  BY RousedIsWoken DEF MarkGatewayRestartDraining, Door!CloseForRestart
<1> QED BY <1>1 DEF Door!Next

\* The next lifecycle begins with nobody inside and nobody asleep.
LEMMA ResetBeginsAnew ==
  ASSUME ResetGatewayWorkAdmission
  PROVE  Door!Anew
<1>1. ~restartDraining' /\ ~Closed'
  BY DEF ResetGatewayWorkAdmission, RetireRoots, InvalidateSuspend, Closed
<1> QED BY <1>1, RousedIsWoken
        DEF ResetGatewayWorkAdmission, RetireRoots, Door!Anew

\* It opens the door that a drain has closed.
LEMMA ResetOpensDoor ==
  ASSUME restartDraining, ResetGatewayWorkAdmission
  PROVE  Door!Next
<1>1. Door!Restart
  BY ResetBeginsAnew DEF Door!Restart
<1> QED BY <1>1 DEF Door!Next

\* One that no drain preceded puts out whoever is inside.
LEMMA ResetFindsDoor ==
  ASSUME ResetGatewayWorkAdmission
  PROVE  Door!Next \/ Door!Eviction
<1>1. CASE restartDraining
  BY <1>1, ResetOpensDoor
<1>2. CASE ~restartDraining
  <2>1. Door!Eviction
    BY <1>2, ResetBeginsAnew DEF Door!Eviction
  <2> QED BY <2>1
<1> QED BY <1>1, <1>2

\* Nobody gets into an idle process but through an open door.
LEMMA DoorKeepsIdle ==
  ASSUME AdmissionTypeOK, [Door!Next]_(Door!vars), Closed, ActiveRoots = {}
  PROVE  ActiveRoots' = {}
<1>1. ASSUME \A r \in Root : rootState'[r] = "active" => rootState[r] = "active"
      PROVE  ActiveRoots' = {}
  BY <1>1 DEF ActiveRoots
<1>2. CASE UNCHANGED Door!vars \/ Door!Shut \/ Door!Wait \/ Door!GiveUp \/ Door!Report
  BY <1>1, <1>2 DEF Door!vars, Door!Shut, Door!Wait, Door!GiveUp, Door!Report
<1>3. ASSUME NEW c \in Root,
             Door!Enter(c) \/ Door!Sleep(c) \/ Door!TurnAway(c)
             \/ Door!Follow(c) \/ Door!Leave(c)
      PROVE  ActiveRoots' = {}
  <2>1. ~Door!Enter(c) /\ ~Door!Follow(c)
    BY InsideIsActive DEF Door!Enter, Door!Follow, Closed
  <2>2. \E x \in {"parked", "refused", "released"} :
          rootState' = [rootState EXCEPT ![c] = x]
    BY <1>3, <2>1 DEF Door!Sleep, Door!TurnAway, Door!Leave
  <2> QED BY <1>1, <2>2
<1>4. CASE Door!LetGo \/ Door!CloseForRestart
  BY <1>1, <1>4, RousedIsWoken DEF Door!LetGo, Door!CloseForRestart, Woken
<1>5. CASE Door!Restart
  BY <1>1, <1>5, RousedIsWoken DEF Door!Restart, Door!Anew, Woken
<1> QED BY <1>2, <1>3, <1>4, <1>5 DEF Door!Next

=============================================================================
