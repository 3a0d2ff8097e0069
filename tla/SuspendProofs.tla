----------------------------- MODULE SuspendProofs -----------------------------
(***************************************************************************)
(* Theorems about SuspendCoordinator, for any sets of hosts and chains.    *)
(* The admission part of the invariant comes from WorkAdmissionProofs.     *)
(***************************************************************************)
EXTENDS SuspendCoordinator, WorkAdmissionProofs

\* What LeaseHonoured needs to be inductive: the held lease is committed and
\* paused, trusted by nobody once it is overdue, known to its holder only, and
\* no id is known before it is issued; the drain has no suspension beside it.
LeaseInv ==
  /\ Held => current.reopenFrom = "prepared" /\ schedulerPaused
  /\ Held /\ overdue => trusts = {}
  /\ Held => \A h \in Host : knownId[h] = current.id => h = request
  /\ \A h \in Host : knownId[h] <= suspendGeneration
  /\ restartDraining => suspendPhase = "accepting"

CoordinatorTypeOK ==
  /\ current \in Entry
  /\ retired \in Entry
  /\ request \in Host
  /\ overdue \in BOOLEAN
  /\ schedulerPaused \in BOOLEAN
  /\ knownId \in [Host -> Nat]
  /\ trusts \subseteq Host

CoordinatorInv ==
  /\ CoordinatorTypeOK
  /\ LeaseInv
  /\ FenceHasEntry
  /\ LeaseHonoured
  /\ PausedHasOwner
  /\ PreparedMeansIdle

IInv == AdmissionInv /\ CoordinatorInv

USE DEF admissionVars, fenceVars, signalVars, suspendVars, rootVars

-----------------------------------------------------------------------------

\* A lease that ends, or fails to, while nobody trusts it any more.
LEMMA EndingKeepsInv ==
  ASSUME IInv, NEW ok \in BOOLEAN, ResumeAndReopen(ok), current # NoEntry,
         UNCHANGED <<retired, request, overdue, knownId>>, trusts' = {}
  PROVE  IInv'
<1> USE DEF IInv, CoordinatorInv
<1>1. CASE ok
  <2>1. /\ ReopenSuspend(current.id, current.reopenFrom)
        /\ schedulerPaused' = FALSE
        /\ current' = NoEntry
    BY <1>1 DEF ResumeAndReopen
  <2>2. current.id \in Nat /\ current.reopenFrom \in {"preparing", "prepared"}
    BY DEF FenceHasEntry, CoordinatorTypeOK, Entry
  <2>3. AdmissionInv'
    BY <2>1, <2>2, SuspendActionsKeepInv
  <2>4. suspendPhase' = "accepting" /\ UNCHANGED suspendGeneration
    BY <2>1 DEF ReopenSuspend
  <2>5. current' \in Entry /\ ~Held'
    BY <2>1 DEF NoEntry, Entry, Held
  <2>6. CoordinatorTypeOK'
    BY <2>1, <2>5 DEF CoordinatorTypeOK
  <2>7. LeaseInv'
    BY <2>4, <2>5 DEF LeaseInv
  <2>8. /\ FenceHasEntry'
        /\ LeaseHonoured'
        /\ PausedHasOwner'
        /\ PreparedMeansIdle'
    BY <2>1, <2>4 DEF FenceHasEntry, LeaseHonoured, PausedHasOwner,
                      PreparedMeansIdle
  <2> QED BY <2>3, <2>6, <2>7, <2>8
<1>2. CASE ~ok
  <2>1. /\ current' = [current EXCEPT !.kind = "recovering"]
        /\ UNCHANGED <<admissionVars, schedulerPaused>>
    BY <1>2 DEF ResumeAndReopen
  <2>2. /\ current' \in Entry
        /\ ~Held'
        /\ current' # NoEntry'
        /\ current'.id = current.id
        /\ current'.reopenFrom = current.reopenFrom
    BY <2>1 DEF NoEntry, Entry, Held, CoordinatorTypeOK
  <2>3. AdmissionInv'
    BY <2>1 DEF AdmissionInv, ActiveMeansReferenced, ParkedMeansClosed, Closed,
                DrainWaiterHasRoot, ActiveRoots, AdmissionTypeOK
  <2>4. CoordinatorTypeOK'
    BY <2>1, <2>2 DEF CoordinatorTypeOK
  <2>5. LeaseInv'
    BY <2>1, <2>2 DEF LeaseInv
  <2>6. FenceHasEntry' /\ LeaseHonoured' /\ PausedHasOwner'
    BY <2>1, <2>2 DEF FenceHasEntry, LeaseHonoured, PausedHasOwner, NoEntry
  <2>7. PreparedMeansIdle'
    BY <2>1 DEF PreparedMeansIdle, ActiveRoots
  <2> QED BY <2>3, <2>4, <2>5, <2>6, <2>7
<1> QED BY <1>1, <1>2

\* The coordinator's part when the admission state is untouched but for the
\* chains, and no root has become active.
LEMMA StillKeepsInv ==
  ASSUME CoordinatorInv, UNCHANGED coordinatorVars, UNCHANGED suspendVars,
         restartDraining' = restartDraining,
         suspendPhase = "prepared" => ActiveRoots' \subseteq ActiveRoots
  PROVE  CoordinatorInv'
<1> USE DEF coordinatorVars, hostVars
<1>1. CoordinatorTypeOK' /\ LeaseInv'
  BY DEF CoordinatorInv, CoordinatorTypeOK, LeaseInv, Held
<1>2. FenceHasEntry' /\ LeaseHonoured' /\ PausedHasOwner'
  BY DEF CoordinatorInv, FenceHasEntry, LeaseHonoured, PausedHasOwner, Held,
         NoEntry
<1>3. PreparedMeansIdle'
  BY DEF CoordinatorInv, PreparedMeansIdle
<1> QED BY <1>1, <1>2, <1>3 DEF CoordinatorInv

\* Work that knows nothing of suspensions.
LEMMA RootStepKeepsInv ==
  ASSUME IInv, RootStep
  PROVE  IInv'
<1> USE DEF IInv
<1>1. UNCHANGED coordinatorVars
  BY DEF RootStep
<1>2. ASSUME NEW r \in Root, BeginRoot(r) \/ BeginRootWhenOpen(r) \/ ReleaseRoot(r)
      PROVE  IInv'
  <2>1. AdmissionInv'
    BY <1>2, RootActionsKeepInv
  <2>2. UNCHANGED suspendVars /\ restartDraining' = restartDraining
    BY <1>2 DEF BeginRoot, BeginRootWhenOpen, ReleaseRoot, Admit
  <2>3. ASSUME suspendPhase = "prepared"
        PROVE  ActiveRoots' \subseteq ActiveRoots
    <3>1. \E x \in {"refused", "parked", "released", "active"} :
            /\ rootState' = [rootState EXCEPT ![r] = x]
            /\ x = "active" => rootState[r] = "active"
      BY <1>2, <2>3 DEF BeginRoot, BeginRootWhenOpen, ReleaseRoot, Closed
    <3>2. rootState \in [Root -> {"new", "parked", "woken", "active",
                                  "released", "refused"}]
      BY DEF AdmissionInv, AdmissionTypeOK
    <3> QED BY <3>1, <3>2 DEF ActiveRoots
  <2> QED BY <1>1, <2>1, <2>2, <2>3, StillKeepsInv
<1>3. ASSUME NEW p \in Root \ Caller, NEW r \in Root \ Caller,
             ContinueRoot(p, r) \/ RetainRoot(r)
      PROVE  IInv'
  <2>1. AdmissionInv'
    BY <1>3, RootActionsKeepInv
  <2>2. UNCHANGED suspendVars /\ restartDraining' = restartDraining
    BY <1>3 DEF ContinueRoot, RetainRoot, Admit
  <2>3. ASSUME suspendPhase = "prepared" PROVE FALSE
    BY <1>3, <2>3 DEF CoordinatorInv, PreparedMeansIdle, ContinueRoot,
                      RetainRoot, ActiveRoots
  <2> QED BY <1>1, <2>1, <2>2, <2>3, StillKeepsInv
<1>4. CASE WaitForRootDrain \/ RootDrainTimeout \/ RootDrainReports
  <2>1. AdmissionInv'
    BY <1>4, DrainActionsKeepInv
  <2>2. UNCHANGED <<suspendVars, restartDraining, rootState>>
    BY <1>4 DEF WaitForRootDrain, RootDrainTimeout, RootDrainReports
  <2> QED BY <1>1, <2>1, <2>2, StillKeepsInv DEF ActiveRoots
<1>5. CASE BeginRestartSignal \/ ClearRestartSignalFence
  <2>1. AdmissionInv'
    BY <1>5, FenceActionsKeepInv
  <2>2. UNCHANGED <<suspendVars, restartDraining>>
    BY <1>5 DEF BeginRestartSignal, ClearRestartSignalFence
  <2>3. ActiveRoots' = ActiveRoots
    <3>1. CASE BeginRestartSignal
      BY <3>1 DEF BeginRestartSignal, ActiveRoots
    <3>2. CASE ClearRestartSignalFence
      BY <3>2, WokenSleepsNot DEF ClearRestartSignalFence, AdmissionInv
    <3> QED BY <1>5, <3>1, <3>2
  <2> QED BY <1>1, <2>1, <2>2, <2>3, StillKeepsInv
<1>6. ASSUME NEW r \in Root \ Caller, RetainRoot(r) PROVE IInv'
  BY <1>3, <1>6
<1> QED BY <1>2, <1>3, <1>4, <1>5, <1>6 DEF RootStep

\* Time runs out for the gateway and for the hosts alike.
LEMMA TimeRunsOutKeepsInv ==
  ASSUME IInv, TimeRunsOut
  PROVE  IInv'
<1>1. AdmissionInv'
  BY DEF IInv, TimeRunsOut, AdmissionInv, ActiveMeansReferenced,
         ParkedMeansClosed, Closed, DrainWaiterHasRoot, ActiveRoots,
         AdmissionTypeOK
<1>2. CoordinatorTypeOK' /\ LeaseInv'
  BY DEF IInv, CoordinatorInv, TimeRunsOut, CoordinatorTypeOK, LeaseInv, Held
<1>3. FenceHasEntry' /\ LeaseHonoured' /\ PausedHasOwner'
  BY DEF IInv, CoordinatorInv, TimeRunsOut, FenceHasEntry, LeaseHonoured,
         PausedHasOwner, NoEntry
<1>4. PreparedMeansIdle'
  BY DEF IInv, CoordinatorInv, TimeRunsOut, PreparedMeansIdle, ActiveRoots
<1> QED BY <1>1, <1>2, <1>3, <1>4 DEF IInv, CoordinatorInv

\* A host resumes: the holder, or one whose lease is over.
LEMMA ResumeKeepsInv ==
  ASSUME IInv, NEW h \in Host, NEW ok \in BOOLEAN, Resume(h, ok)
  PROVE  IInv'
<1>1. CASE Held /\ current.id = knownId[h]
  <2>1. trusts \subseteq {request} /\ h = request
    BY <1>1 DEF IInv, CoordinatorInv, LeaseInv, LeaseHonoured, CoordinatorTypeOK
  <2>2. trusts' = {}
    BY <2>1 DEF Resume
  <2>3. current # NoEntry
    BY <1>1 DEF Held, NoEntry
  <2> QED BY <1>1, <2>2, <2>3, EndingKeepsInv DEF Resume
<1>2. CASE ~(Held /\ current.id = knownId[h])
  <2>1. /\ UNCHANGED <<admissionVars, current, schedulerPaused>>
        /\ UNCHANGED <<retired, request, overdue, knownId>>
        /\ trusts' \subseteq trusts
    BY <1>2 DEF Resume
  <2>2. AdmissionInv'
    BY <2>1 DEF IInv, AdmissionInv, ActiveMeansReferenced, ParkedMeansClosed,
                Closed, DrainWaiterHasRoot, ActiveRoots, AdmissionTypeOK
  <2>3. CoordinatorTypeOK' /\ LeaseInv'
    BY <2>1 DEF IInv, CoordinatorInv, CoordinatorTypeOK, LeaseInv, Held
  <2>4. FenceHasEntry' /\ LeaseHonoured' /\ PausedHasOwner'
    BY <2>1 DEF IInv, CoordinatorInv, FenceHasEntry, LeaseHonoured,
                PausedHasOwner, NoEntry, Held
  <2>5. PreparedMeansIdle'
    BY <2>1 DEF IInv, CoordinatorInv, PreparedMeansIdle, ActiveRoots
  <2> QED BY <2>2, <2>3, <2>4, <2>5 DEF IInv, CoordinatorInv
<1> QED BY <1>1, <1>2

\* The expiry and the retries of a failed resume.
LEMMA TimersKeepInv ==
  ASSUME IInv, NEW ok \in BOOLEAN, ExpireHeld(ok) \/ RecoveryRetry(ok)
  PROVE  IInv'
<1>1. current # NoEntry
  BY DEF ExpireHeld, RecoveryRetry, Expired, Held, Recovering, NoEntry
<1>2. trusts = {}
  BY DEF ExpireHeld, RecoveryRetry, Expired, Held, Recovering, IInv,
         CoordinatorInv, LeaseInv, LeaseHonoured
<1> QED BY <1>1, <1>2, EndingKeepsInv DEF ExpireHeld, RecoveryRetry, hostVars

\* The holder renews its lease.
LEMMA PrepareAgainKeepsInv ==
  ASSUME IInv, NEW h \in Host, NEW own, NEW delivered \in BOOLEAN,
         PrepareAgain(h, own, delivered)
  PROVE  IInv'
<1>1. AdmissionInv'
  BY DEF IInv, PrepareAgain, AdmissionInv, ActiveMeansReferenced,
         ParkedMeansClosed, Closed, DrainWaiterHasRoot, ActiveRoots,
         AdmissionTypeOK
<1>2. /\ Held /\ ~overdue /\ request = h
      /\ UNCHANGED <<admissionVars, current, retired, request, overdue,
                     schedulerPaused>>
  BY DEF PrepareAgain
<1>3. current.id = suspendGeneration /\ current.id \in Nat
  BY <1>2 DEF IInv, CoordinatorInv, FenceHasEntry, CoordinatorTypeOK, Entry,
              Held, NoEntry
<1>4. \/ UNCHANGED <<knownId, trusts>>
      \/ /\ knownId' = [knownId EXCEPT ![h] = current.id]
         /\ trusts' = trusts \union {h}
  BY DEF PrepareAgain, Tell, hostVars
<1>5. CoordinatorTypeOK'
  BY <1>2, <1>3, <1>4 DEF IInv, CoordinatorInv, CoordinatorTypeOK
<1>6. LeaseInv'
  <2>1. knownId \in [Host -> Nat]
    BY DEF IInv, CoordinatorInv, CoordinatorTypeOK
  <2>2. \A k \in Host : \/ knownId'[k] = knownId[k]
                        \/ k = h /\ knownId'[k] = current.id
    BY <1>4, <2>1
  <2> QED BY <1>2, <1>3, <2>2
          DEF IInv, CoordinatorInv, LeaseInv, Held, CoordinatorTypeOK,
              AdmissionInv, AdmissionTypeOK
<1>7. LeaseHonoured'
  <2>1. current.reopenFrom = "prepared" /\ schedulerPaused
    BY <1>2 DEF IInv, CoordinatorInv, LeaseInv
  <2>2. suspendPhase = "prepared"
    BY <1>2, <2>1 DEF IInv, CoordinatorInv, FenceHasEntry, Held, NoEntry
  <2>3. \A k \in trusts' : knownId'[k] = current.id
    BY <1>4 DEF IInv, CoordinatorInv, LeaseHonoured, CoordinatorTypeOK
  <2> QED BY <1>2, <2>1, <2>2, <2>3 DEF LeaseHonoured, Held
<1>8. FenceHasEntry' /\ PausedHasOwner'
  BY <1>2 DEF IInv, CoordinatorInv, FenceHasEntry, PausedHasOwner, NoEntry
<1>9. PreparedMeansIdle'
  BY <1>2 DEF IInv, CoordinatorInv, PreparedMeansIdle, ActiveRoots
<1> QED BY <1>1, <1>5, <1>6, <1>7, <1>8, <1>9 DEF IInv, CoordinatorInv

\* A restart drain supersedes whatever suspension there is.
LEMMA RestartDrainKeepsInv ==
  ASSUME IInv, RestartDrain
  PROVE  IInv'
<1>1. AdmissionInv'
  BY FenceActionsKeepInv DEF IInv, RestartDrain
<1>2. /\ suspendPhase' = "accepting" /\ restartDraining'
      /\ suspendGeneration' >= suspendGeneration
      /\ suspendGeneration' \in Nat
  BY DEF IInv, RestartDrain, MarkGatewayRestartDraining, InvalidateSuspend,
         AdmissionInv, AdmissionTypeOK
<1>3. current' = NoEntry /\ current' \in Entry /\ ~Held' /\ trusts' = {}
  BY DEF RestartDrain, NoEntry, Entry, Held
<1>4. CoordinatorTypeOK'
  BY <1>3 DEF IInv, CoordinatorInv, CoordinatorTypeOK, RestartDrain
<1>5. LeaseInv'
  BY <1>2, <1>3 DEF IInv, CoordinatorInv, CoordinatorTypeOK, LeaseInv,
                    RestartDrain, AdmissionInv, AdmissionTypeOK
<1>6. PausedHasOwner'
  BY <1>2 DEF IInv, CoordinatorInv, PausedHasOwner, RestartDrain,
              MarkGatewayRestartDraining, NoEntry
<1>7. FenceHasEntry' /\ LeaseHonoured' /\ PreparedMeansIdle'
  BY <1>2, <1>3 DEF FenceHasEntry, LeaseHonoured, PreparedMeansIdle
<1> QED BY <1>1, <1>4, <1>5, <1>6, <1>7 DEF IInv, CoordinatorInv

\* The lifecycle is reset at the end of a drain.
LEMMA LifecycleResetKeepsInv ==
  ASSUME IInv, LifecycleReset
  PROVE  IInv'
<1>1. AdmissionInv'
  BY FenceActionsKeepInv DEF IInv, LifecycleReset
<1>2. suspendPhase' = "accepting" /\ suspendGeneration' = suspendGeneration + 1
  BY DEF LifecycleReset, ResetGatewayWorkAdmission, RetireRoots,
         InvalidateSuspend
<1>3. current = NoEntry /\ trusts = {}
  BY DEF IInv, CoordinatorInv, LeaseInv, FenceHasEntry, LifecycleReset,
         LeaseHonoured, Held, NoEntry
<1>4. current' = NoEntry /\ current' \in Entry /\ ~Held' /\ trusts' = {}
  BY <1>3 DEF LifecycleReset, NoEntry, Entry, Held, hostVars
<1>5. CoordinatorTypeOK'
  BY <1>4 DEF IInv, CoordinatorInv, CoordinatorTypeOK, LifecycleReset,
              hostVars, NoEntry, Entry
<1>6. LeaseInv'
  BY <1>2, <1>4 DEF IInv, CoordinatorInv, CoordinatorTypeOK, LeaseInv,
                    LifecycleReset, hostVars, AdmissionInv, AdmissionTypeOK
<1>7. FenceHasEntry' /\ LeaseHonoured' /\ PausedHasOwner' /\ PreparedMeansIdle'
  BY <1>2, <1>4 DEF FenceHasEntry, LeaseHonoured, PreparedMeansIdle,
                    PausedHasOwner, LifecycleReset
<1> QED BY <1>1, <1>5, <1>6, <1>7 DEF IInv, CoordinatorInv

\* A new suspension is held, or found impossible and taken back.
LEMMA PrepareKeepsInv ==
  ASSUME IInv, NEW h \in Host, NEW own \in {{}} \union {{r} : r \in Caller},
         NEW otherWork \in BOOLEAN, NEW ok \in BOOLEAN,
         NEW delivered \in BOOLEAN,
         Prepare(h, own, otherWork, ok, delivered)
  PROVE  IInv'
<1> USE DEF IInv
<1>1. /\ suspendPhase = "accepting" \/ Expired
      /\ ~restartDraining /\ ~restartSignalPending
      /\ UNCHANGED <<restartDraining, signalVars, references, rootDrain, retired>>
  BY DEF Prepare
<1>2. suspendGeneration \in Nat /\ knownId \in [Host -> Nat]
  BY DEF AdmissionInv, AdmissionTypeOK, CoordinatorInv, CoordinatorTypeOK
<1>3. trusts = {}
  BY <1>1 DEF CoordinatorInv, LeaseInv, LeaseHonoured, Expired, FenceHasEntry,
              Held, NoEntry
<1>4. \/ rootState' = Woken
      \/ rootState' = rootState /\ suspendPhase = "accepting"
  BY <1>1 DEF Prepare, Hold, BackOff
<1>5. ActiveRoots' = ActiveRoots
  BY <1>4, WokenSleepsNot DEF AdmissionInv, ActiveRoots
<1>6. suspendPhase' \in {"accepting", "preparing", "prepared"}
      /\ suspendGeneration' = suspendGeneration + 1
  BY DEF Prepare, Hold, BackOff
<1>7. AdmissionInv'
  <2>1. AdmissionTypeOK'
    <3>1. rootState' \in [Root -> {"new", "parked", "woken", "active",
                                   "released", "refused"}]
      BY <1>4, WokenSleepsNot DEF AdmissionInv, AdmissionTypeOK
    <3>2. suspendGeneration' \in Nat
      BY <1>2, <1>6
    <3> QED BY <1>1, <1>6, <3>1, <3>2 DEF AdmissionInv, AdmissionTypeOK
  <2>2. ActiveMeansReferenced'
    BY <1>1, <1>5 DEF AdmissionInv, ActiveMeansReferenced, ActiveRoots
  <2>3. ParkedMeansClosed'
    <3>1. \A r \in Root : rootState'[r] # "parked"
      BY <1>1, <1>4, WokenSleepsNot DEF AdmissionInv, ParkedMeansClosed, Closed
    <3> QED BY <3>1 DEF ParkedMeansClosed
  <2>4. DrainWaiterHasRoot'
    BY <1>1, <1>5 DEF AdmissionInv, DrainWaiterHasRoot
  <2> QED BY <2>1, <2>2, <2>3, <2>4 DEF AdmissionInv
<1>8. CASE IdleBut(own, otherWork)
  <2>1. Hold(h, delivered)
    BY <1>8 DEF Prepare
  <2>2. /\ current' = [kind |-> "held", id |-> suspendGeneration + 1,
                       reopenFrom |-> "prepared"]
        /\ request' = h /\ overdue' = FALSE /\ schedulerPaused' = TRUE
        /\ suspendPhase' = "prepared"
    BY <2>1 DEF Hold
  <2>3. \/ knownId' = knownId /\ trusts' = {}
        \/ /\ knownId' = [knownId EXCEPT ![h] = suspendGeneration + 1]
           /\ trusts' = {h}
    BY <1>3, <2>1 DEF Hold, Tell, hostVars
  <2>4. /\ current' \in Entry /\ Held' /\ current' # NoEntry'
        /\ current'.id = suspendGeneration + 1
        /\ current'.reopenFrom = "prepared"
    BY <1>2, <2>2 DEF Entry, Held, NoEntry
  <2>5. CoordinatorTypeOK'
    <3>1. knownId' \in [Host -> Nat]
      BY <1>2, <2>3
    <3> QED BY <1>1, <2>2, <2>3, <2>4, <3>1 DEF CoordinatorInv, CoordinatorTypeOK
  <2>6. \A k \in Host : \/ knownId'[k] = knownId[k]
                        \/ k = h /\ knownId'[k] = suspendGeneration + 1
    BY <1>2, <2>3
  <2>7. LeaseInv'
    <3>1. \A k \in Host : knownId[k] \in Nat /\ knownId[k] <= suspendGeneration
      BY <1>2 DEF CoordinatorInv, LeaseInv
    <3>2. \A k \in Host : /\ knownId'[k] <= suspendGeneration'
                          /\ knownId'[k] = current'.id => k = request'
      BY <1>2, <1>6, <2>2, <2>4, <2>6, <3>1
    <3> QED BY <1>1, <2>2, <2>4, <3>2 DEF LeaseInv
  <2>8. LeaseHonoured'
    BY <1>2, <2>2, <2>3, <2>4 DEF LeaseHonoured
  <2>9. FenceHasEntry' /\ PausedHasOwner'
    BY <1>6, <2>2, <2>4 DEF FenceHasEntry, PausedHasOwner
  <2>10. PreparedMeansIdle'
    BY <1>5, <1>8 DEF IdleBut, PreparedMeansIdle
  <2> QED BY <1>7, <2>5, <2>7, <2>8, <2>9, <2>10 DEF CoordinatorInv
<1>9. CASE ~IdleBut(own, otherWork)
  <2>1. BackOff(ok)
    BY <1>9 DEF Prepare
  <2>2. UNCHANGED <<request, overdue, knownId, trusts>>
    BY <2>1 DEF BackOff, hostVars
  <2>3. CASE ok
    <3>1. /\ current' = NoEntry /\ current' \in Entry /\ ~Held'
          /\ suspendPhase' = "accepting" /\ schedulerPaused' = FALSE
      BY <2>1, <2>3 DEF BackOff, NoEntry, Entry, Held
    <3>2. CoordinatorTypeOK'
      BY <1>1, <2>2, <3>1 DEF CoordinatorInv, CoordinatorTypeOK
    <3>3. LeaseInv'
      BY <1>2, <1>6, <2>2, <3>1 DEF CoordinatorInv, LeaseInv
    <3>4. FenceHasEntry' /\ LeaseHonoured' /\ PausedHasOwner' /\ PreparedMeansIdle'
      BY <1>3, <2>2, <3>1 DEF FenceHasEntry, LeaseHonoured, PausedHasOwner,
                              PreparedMeansIdle
    <3> QED BY <1>7, <3>2, <3>3, <3>4 DEF CoordinatorInv
  <2>4. CASE ~ok
    <3>1. /\ current' = [kind |-> "recovering", id |-> suspendGeneration + 1,
                         reopenFrom |-> "preparing"]
          /\ suspendPhase' = "preparing" /\ schedulerPaused' = TRUE
      BY <2>1, <2>4 DEF BackOff
    <3>2. /\ current' \in Entry /\ ~Held' /\ current' # NoEntry'
          /\ current'.id = suspendGeneration + 1
          /\ current'.reopenFrom = "preparing"
      BY <1>2, <3>1 DEF Entry, Held, NoEntry
    <3>3. CoordinatorTypeOK'
      BY <1>1, <2>2, <3>1, <3>2 DEF CoordinatorInv, CoordinatorTypeOK
    <3>4. LeaseInv'
      BY <1>1, <1>2, <1>6, <2>2, <3>2 DEF CoordinatorInv, LeaseInv
    <3>5. FenceHasEntry' /\ LeaseHonoured' /\ PausedHasOwner' /\ PreparedMeansIdle'
      BY <1>3, <1>6, <2>2, <3>1, <3>2
         DEF FenceHasEntry, LeaseHonoured, PausedHasOwner, PreparedMeansIdle
    <3> QED BY <1>7, <3>3, <3>4, <3>5 DEF CoordinatorInv
  <2> QED BY <2>3, <2>4
<1> QED BY <1>8, <1>9

-----------------------------------------------------------------------------

\* The door, the entry that will open it, the scheduler and the leases agree.
THEOREM Invariance == Spec => []IInv
<1>1. Init => IInv
  <2> SUFFICES ASSUME Init PROVE IInv
    OBVIOUS
  <2>1. AdmissionInv
    <3>1. 0 \in 0 .. MaxReferences
      BY GenerationAssumption
    <3>2. AdmissionTypeOK
      BY <3>1 DEF Init, AdmissionInit, AdmissionTypeOK
    <3>3. ActiveMeansReferenced /\ ParkedMeansClosed /\ DrainWaiterHasRoot
      BY DEF Init, AdmissionInit, ActiveMeansReferenced, ParkedMeansClosed,
             DrainWaiterHasRoot
    <3> QED BY <3>2, <3>3 DEF AdmissionInv
  <2>2. CoordinatorTypeOK
    BY DEF Init, CoordinatorTypeOK, NoEntry, Entry
  <2>3. LeaseInv
    BY DEF Init, AdmissionInit, LeaseInv, Held, NoEntry
  <2>4. FenceHasEntry /\ LeaseHonoured /\ PausedHasOwner /\ PreparedMeansIdle
    BY DEF Init, AdmissionInit, FenceHasEntry, LeaseHonoured, PausedHasOwner,
           PreparedMeansIdle
  <2> QED BY <2>1, <2>2, <2>3, <2>4 DEF IInv, CoordinatorInv
<1>2. IInv /\ [Next]_vars => IInv'
  <2> SUFFICES ASSUME IInv, [Next]_vars PROVE IInv'
    OBVIOUS
  <2>1. CASE UNCHANGED vars
    <3>1. AdmissionInv'
      BY <2>1 DEF vars, IInv, AdmissionInv, ActiveMeansReferenced, Closed,
                  ParkedMeansClosed, DrainWaiterHasRoot, ActiveRoots,
                  AdmissionTypeOK
    <3>2. CoordinatorInv'
      BY <2>1, StillKeepsInv DEF vars, IInv, ActiveRoots
    <3> QED BY <3>1, <3>2 DEF IInv
  <2>2. CASE RootStep
    BY <2>2, RootStepKeepsInv
  <2>3. CASE TimeRunsOut
    BY <2>3, TimeRunsOutKeepsInv
  <2>4. CASE RestartDrain
    BY <2>4, RestartDrainKeepsInv
  <2>5. CASE LifecycleReset
    BY <2>5, LifecycleResetKeepsInv
  <2>6. ASSUME NEW ok \in BOOLEAN,
               \/ ExpireHeld(ok)
               \/ RecoveryRetry(ok)
               \/ \E h \in Host : Resume(h, ok)
        PROVE  IInv'
    BY <2>6, TimersKeepInv, ResumeKeepsInv
  <2>7. ASSUME NEW h \in Host, NEW own \in {{}} \union {{r} : r \in Caller},
               NEW delivered \in BOOLEAN,
               \/ PrepareAgain(h, own, delivered)
               \/ \E otherWork, ok \in BOOLEAN :
                    Prepare(h, own, otherWork, ok, delivered)
        PROVE  IInv'
    BY <2>7, PrepareAgainKeepsInv, PrepareKeepsInv
  <2> QED BY <2>1, <2>2, <2>3, <2>4, <2>5, <2>6, <2>7 DEF Next
<1> QED BY <1>1, <1>2, PTL DEF Spec

\* The types of the coordinator and of the admission under it.
THEOREM TypeCorrect == Spec => []TypeOK
<1>1. IInv => TypeOK
  BY DEF IInv, CoordinatorInv, CoordinatorTypeOK, AdmissionInv, TypeOK
<1> QED BY <1>1, Invariance, PTL

\* A door closed by a suspension always has the entry that can reopen it.
THEOREM FenceAlwaysHasEntry == Spec => []FenceHasEntry
<1>1. IInv => FenceHasEntry
  BY DEF IInv, CoordinatorInv
<1> QED BY <1>1, Invariance, PTL

\* As long as a host's lease runs by its own clock the gateway keeps to it.
THEOREM LeasesAreHonoured == Spec => []LeaseHonoured
<1>1. IInv => LeaseHonoured
  BY DEF IInv, CoordinatorInv
<1> QED BY <1>1, Invariance, PTL

\* While a suspension is prepared no work is in flight but its own request.
THEOREM PreparedIsIdle == Spec => []PreparedMeansIdle
<1>1. IInv => PreparedMeansIdle
  BY DEF IInv, CoordinatorInv
<1> QED BY <1>1, Invariance, PTL

\* A paused scheduler has an entry or a lifecycle reset that will resume it.
THEOREM PausedSchedulerHasOwner == Spec => []PausedHasOwner
<1>1. IInv => PausedHasOwner
  BY DEF IInv, CoordinatorInv
<1> QED BY <1>1, Invariance, PTL

-----------------------------------------------------------------------------
(* The coordinator is one of those who move the door of AdmissionDoor.      *)

\* Work that knows nothing of suspensions.
LEMMA RootStepUsesDoor ==
  ASSUME IInv, RootStep
  PROVE  [Door!Next]_(Door!vars)
<1> USE DEF IInv
<1>1. CASE \E r \in Root : BeginRoot(r) \/ BeginRootWhenOpen(r) \/ ReleaseRoot(r)
  BY <1>1, RootActionsUseDoor
<1>2. CASE \E p, r \in Root \ Caller : ContinueRoot(p, r)
  BY <1>2, RootActionsUseDoor
<1>3. CASE \E r \in Root \ Caller : RetainRoot(r)
  BY <1>3, RootActionsUseDoor
<1>4. CASE WaitForRootDrain \/ RootDrainTimeout \/ RootDrainReports
  BY <1>4, DrainActionsUseDoor
<1>5. CASE BeginRestartSignal
  BY <1>5, FencesMoveDoor DEF BeginRestartSignal, Closed
<1>6. CASE ClearRestartSignalFence
  BY <1>6, FencesMoveDoor DEF ClearRestartSignalFence
<1> QED BY <1>1, <1>2, <1>3, <1>4, <1>5, <1>6 DEF RootStep

\* A lease that ends opens its own fence only, and no door of a restart.
LEMMA EndingMovesDoor ==
  ASSUME IInv, NEW ok \in BOOLEAN, ResumeAndReopen(ok), current # NoEntry
  PROVE  [Door!Next]_(Door!vars)
<1>1. CASE ok
  <2>1. ReopenSuspend(current.id, current.reopenFrom)
    BY <1>1 DEF ResumeAndReopen
  <2>2. ~restartDraining
    BY DEF IInv, CoordinatorInv, FenceHasEntry, LeaseInv
  <2> QED BY <2>1, <2>2, FencesMoveDoor DEF IInv, ReopenSuspend
<1>2. CASE ~ok
  BY <1>2, StillDoor DEF ResumeAndReopen, Closed
<1> QED BY <1>1, <1>2

\* A suspension closes its fence, or backs off: the chains that an expired one
\* let go find the door closed again.
LEMMA PrepareMovesDoor ==
  ASSUME IInv, NEW h, NEW own, NEW otherWork, NEW ok, NEW delivered,
         Prepare(h, own, otherWork, ok, delivered)
  PROVE  [Door!Next]_(Door!vars)
<1>1. /\ ~restartDraining
      /\ UNCHANGED <<restartDraining, rootDrain>>
  BY DEF Prepare
<1>2. Expired \/ ~Closed
  BY DEF Prepare, Closed
<1>3. \/ rootState' = Woken
      \/ rootState' = rootState /\ ~Expired
  BY DEF Prepare, Hold, BackOff
<1> QED BY <1>1, <1>2, <1>3, FencesMoveDoor DEF IInv

\* Every step of the coordinator and of the work around it.
LEMMA StepsUseDoor ==
  ASSUME IInv, [Next]_vars
  PROVE  [Door!Next]_(Door!vars)
<1>1. ASSUME UNCHANGED admissionVars
      PROVE  [Door!Next]_(Door!vars)
  BY <1>1, StillDoor DEF Closed
<1>2. CASE RootStep
  BY <1>2, RootStepUsesDoor
<1>3. CASE UNCHANGED vars \/ TimeRunsOut
  BY <1>1, <1>3 DEF vars, TimeRunsOut
<1>4. CASE RestartDrain
  BY <1>4, RestartClosesDoor DEF RestartDrain
<1>5. CASE LifecycleReset
  BY <1>5, ResetOpensDoor DEF LifecycleReset
<1>6. ASSUME NEW ok \in BOOLEAN, ExpireHeld(ok) \/ RecoveryRetry(ok)
      PROVE  [Door!Next]_(Door!vars)
  <2>1. ResumeAndReopen(ok) /\ current # NoEntry
    BY <1>6 DEF ExpireHeld, RecoveryRetry, Expired, Held, Recovering, NoEntry
  <2> QED BY <2>1, EndingMovesDoor
<1>7. ASSUME NEW ok \in BOOLEAN, NEW h \in Host, Resume(h, ok)
      PROVE  [Door!Next]_(Door!vars)
  <2>1. CASE Held /\ current.id = knownId[h]
    <3>1. ResumeAndReopen(ok) /\ current # NoEntry
      BY <1>7, <2>1 DEF Resume, Held, NoEntry
    <3> QED BY <3>1, EndingMovesDoor
  <2>2. CASE ~(Held /\ current.id = knownId[h])
    BY <1>1, <1>7, <2>2 DEF Resume
  <2> QED BY <2>1, <2>2
<1>8. ASSUME NEW h \in Host, NEW own \in {{}} \union {{r} : r \in Caller},
             NEW delivered \in BOOLEAN,
             \/ PrepareAgain(h, own, delivered)
             \/ \E otherWork, ok \in BOOLEAN :
                  Prepare(h, own, otherWork, ok, delivered)
      PROVE  [Door!Next]_(Door!vars)
  <2>1. CASE PrepareAgain(h, own, delivered)
    BY <1>1, <2>1 DEF PrepareAgain
  <2> QED BY <1>8, <2>1, PrepareMovesDoor
<1> QED BY <1>2, <1>3, <1>4, <1>5, <1>6, <1>7, <1>8 DEF Next

\* Suspensions, restarts and the work around them keep one door: nobody gets
\* in but through the open door or behind a live root, nobody is left asleep
\* before it, and the drain waits for those inside and for nothing else.
THEOREM SuspensionsKeepDoor == Spec => DoorIsKept
<1>1. Init => Door!Init
  BY DoorStartsOpen DEF Init
<1>2. IInv /\ [Next]_vars => [Door!Next]_(Door!vars)
  BY StepsUseDoor
<1> QED BY <1>1, <1>2, Invariance, PTL DEF Spec, DoorIsKept, Door!Spec

\* No root appears in an idle process behind a closed door: what a suspension
\* or a drain has counted stays true, because they keep one door.
THEOREM IdleStaysIdleInSuspension == Spec => IdleStaysIdle
<1>1. IInv /\ [Next]_vars
        => [Closed /\ ActiveRoots = {} => ActiveRoots' = {}]_admissionVars
  BY StepsUseDoor, DoorKeepsIdle DEF IInv, AdmissionInv
<1> QED BY <1>1, Invariance, PTL DEF Spec, IdleStaysIdle

=============================================================================
