---------------------- MODULE ComponentContractProofs ----------------------
(***************************************************************************)
(* ComponentReconciler implements ResourceContract: whatever the worker    *)
(* read and whenever, the status of a component resource is that of the    *)
(* generation it is stored with, or stays behind.                          *)
(***************************************************************************)
EXTENDS ComponentReconcilerProofs

\* What the mapping needs to know of the worker: a reconcile that goes on has read
\* a resource, so a write that is accepted is of a resource that is there.
WorkerHasResource == pc # "idle" => snap.live

\* A step that leaves the resource alone is one the contract does not see.
Unseen == cr' = cr /\ (pc' = "idle" \/ (pc # "idle" /\ snap' = snap) \/ (pc' = pc /\ snap' = snap))

\* An unseen step is a stuttering step of the contract.
LEMMA UnseenStutters ==
  ASSUME WorkerHasResource, Unseen
  PROVE  WorkerHasResource' /\ UNCHANGED Contract!vars
BY DEF WorkerHasResource, Unseen, Contract!vars

\* No create-or-update of an owned object changes the resource.
LEMMA ReconcileResourceUnseen ==
  ASSUME NEW o, NEW v, NEW fatal, NEW stage, NEW i, pc # "idle",
         reconcileResource(o, v, fatal, stage, i)
  PROVE  Unseen
BY DEF reconcileResource, Call, Goto, Return, Unseen

\* A status that is stored is a report on, or a rejection of, the resource as it is.
LEMMA StatusUpdateSeen ==
  ASSUME TypeOK, WorkerHasResource, pc # "idle", snap = cr, NEW new \in StatusType, NEW fails,
         StatusUpdate(new, fails),
         \/ new.observed = snap.gen /\ new.phase \in {"Running", "Progressing"}
         \/ new.observed = snap.status.observed /\ new.phase = "Error"
  PROVE  WorkerHasResource' /\ Contract!Next
<1>1. cr \in CRType /\ cr.live
  BY DEF WorkerHasResource, TypeOK
<1>2. cr' = [cr EXCEPT !.status = new] /\ pc' = "idle"
  BY DEF StatusUpdate, StoreCR, Return
<1>3. cr'.live /\ cr'.gen = cr.gen /\ cr'.status = new
  BY <1>1, <1>2 DEF CRType
<1>4. QED
  BY <1>1, <1>2, <1>3 DEF WorkerHasResource, Contract!Next, Contract!Report, Contract!Reject

\* Every stage of the controller keeps the contract.
LEMMA ReconcileKeeps ==
  ASSUME TypeOK, WorkerHasResource, Reconcile
  PROVE  WorkerHasResource' /\ [Contract!Next]_(Contract!vars)
<1>1. CASE Unseen
  BY <1>1, UnseenStutters
<1>2. CASE BeginReconcile
  <2>1. cr' = cr /\ (pc' # "idle" => snap'.live)
    BY <1>2 DEF BeginReconcile
  <2>2. QED
    BY <2>1 DEF WorkerHasResource, Contract!vars
<1>3. CASE RenderError
  <2>1. CASE FailedStatusUpdate
    BY <2>1, <1>1 DEF FailedStatusUpdate, Return, Unseen
  <2>2. CASE snap = cr /\ StatusUpdate([snap.status EXCEPT !.phase = "Error"], TRUE)
    <3>1. snap.status \in StatusType
      BY DEF TypeOK, CRType
    <3> DEFINE new == [snap.status EXCEPT !.phase = "Error"]
    <3>2. new \in StatusType /\ new.observed = snap.status.observed /\ new.phase = "Error"
      BY <3>1 DEF StatusType
    <3>3. pc # "idle"
      BY <1>3 DEF RenderError
    <3> HIDE DEF new
    <3>4. StatusUpdate(new, TRUE) /\ snap = cr
      BY <2>2 DEF new
    <3>5. QED
      BY <3>2, <3>3, <3>4, StatusUpdateSeen
  <2>3. QED
    BY <1>3, <2>1, <2>2 DEF RenderError
<1>4. CASE UpdateStatus
  <2>1. CASE FailedStatusUpdate
    BY <2>1, <1>1 DEF FailedStatusUpdate, Return, Unseen
  <2>2. ASSUME NEW fails \in BOOLEAN, snap = cr, StatusUpdate(NewStatus, fails)
        PROVE  WorkerHasResource' /\ Contract!Next
    <3>1. ConfigHash(snap.spec) \in HashType /\ snap.gen \in Nat /\ seen \in Nat
      BY SnapType, BuiltType DEF TypeOK
    <3>2. NewStatus \in StatusType /\ NewStatus.observed = snap.gen
          /\ NewStatus.phase \in {"Running", "Progressing"}
      BY <3>1 DEF NewStatus, StatusType
    <3>3. pc # "idle"
      BY <1>4 DEF UpdateStatus
    <3>4. QED
      BY <2>2, <3>2, <3>3, StatusUpdateSeen
  <2>3. QED
    BY <1>4, <2>1, <2>2 DEF UpdateStatus
<1>5. CASE ReconcileConfigMap \/ ReconcileServiceAccount \/ ReconcileHeadlessService
           \/ ReconcilePerPodService \/ ReconcileStatefulSet \/ ReconcileDeployment
  BY <1>1, <1>5, ReconcileResourceUnseen
  DEF ReconcileConfigMap, ReconcileServiceAccount, ReconcileHeadlessService,
      ReconcilePerPodService, ReconcileStatefulSet, ReconcileDeployment
<1>6. CASE ReconcileService \/ ReconcilePodMonitor \/ ReconcileStorkService \/ ReconcileStorkRoute
  BY <1>1, <1>6, ReconcileResourceUnseen
  DEF ReconcileService, ReconcilePodMonitor, ReconcileStorkService, ReconcileStorkRoute
<1>7. CASE reconcileHAConfigs
  BY <1>1, <1>7, ReconcileResourceUnseen DEF reconcileHAConfigs, Goto, Unseen
<1>8. CASE RejectPeers \/ ReadReadyReplicas \/ ensureSCCRoleBinding
  BY <1>1, <1>8
  DEF RejectPeers, ReadReadyReplicas, ensureSCCRoleBinding, Call, Goto, Return, Unseen
<1>9. QED
  BY <1>2, <1>3, <1>4, <1>5, <1>6, <1>7, <1>8 DEF Reconcile

\* Users do what the contract lets them; the rest does not touch the resource.
LEMMA EnvironmentKeeps ==
  ASSUME TypeOK, WorkerHasResource, Informers \/ Users \/ Cluster \/ Failures
  PROVE  WorkerHasResource' /\ [Contract!Next]_(Contract!vars)
<1>1. CASE Unseen
  BY <1>1, UnseenStutters
<1>2. CASE Informers \/ Cluster
  BY <1>1, <1>2
  DEF Informers, Cluster, SyncCR, SyncObject, GarbageCollect, Remove, PublishReady, RunPods,
      StartPod, PodReady, StopPod, worker, Unseen
<1>3. CASE Failures
  BY <1>1, <1>3
  DEF Failures, Restart, Return, Tamper, Remove, LosePod, RestartContainer, worker, Unseen
<1>4. CASE Users
  <2>1. cr \in CRType /\ pc' = pc /\ snap' = snap
    BY <1>4 DEF TypeOK, Users, CreateResource, EditSpec, DeleteResource, UserChange, worker
  <2>2. CASE CreateResource
    <3>1. ~cr.live /\ cr'.live /\ cr'.gen = 1 /\ cr'.status = NoStatus
      BY <2>2 DEF CreateResource, UserChange, StoreCR
    <3>2. NoStatus.observed = 0 /\ NoStatus.phase = ""
      BY DEF NoStatus
    <3>3. cr'.live = TRUE
      BY <2>2 DEF CreateResource, UserChange, StoreCR
    <3>4. Contract!Create
      BY <3>1, <3>2, <3>3 DEF Contract!Create, Contract!NoPhase
    <3>5. QED
      BY <2>1, <3>4 DEF WorkerHasResource, Contract!Next
  <2>3. CASE EditSpec
    <3>1. PICK s \in Specs : cr' = [cr EXCEPT !.gen = @ + 1, !.spec = s]
      BY <2>3 DEF EditSpec, UserChange, StoreCR
    <3>2. cr.live /\ cr'.live /\ cr'.gen = cr.gen + 1 /\ cr'.status = cr.status
      BY <2>1, <2>3, <3>1 DEF EditSpec, CRType
    <3>3. QED
      BY <2>1, <3>2 DEF WorkerHasResource, Contract!Next, Contract!Edit
  <2>4. CASE DeleteResource
    <3>1. cr.live /\ ~cr'.live
      BY <2>1, <2>4 DEF DeleteResource, UserChange, StoreCR, CRType
    <3>2. QED
      BY <2>1, <3>1 DEF WorkerHasResource, Contract!Next, Contract!Delete, Contract!NoPhase
  <2>5. QED
    BY <1>4, <2>2, <2>3, <2>4 DEF Users
<1>5. QED
  BY <1>2, <1>3, <1>4

\* Every step of the component maps to a step of the contract, or to none.
LEMMA NextKeeps ==
  ASSUME TypeOK, WorkerHasResource, [Next]_vars
  PROVE  WorkerHasResource' /\ [Contract!Next]_(Contract!vars)
<1>1. CASE Next
  BY <1>1, ReconcileKeeps, EnvironmentKeeps DEF Next
<1>2. CASE UNCHANGED vars
  BY <1>2, UnseenStutters DEF vars, Unseen
<1>3. QED
  BY <1>1, <1>2

\* The controller of a component keeps the contract of its resource, for every set
\* of specs, any informer lag and any number of users' edits, re-creations,
\* failures and restarts: a reconcile that worked from a stale copy never
\* reports on a generation it has not seen.
THEOREM ImplementsContract == Spec => KeepsContract
<1>1. Init => WorkerHasResource /\ Contract!Init
  BY DEF Init, NoCR, WorkerHasResource, Contract!Init, Contract!NoPhase
<1>2. Spec => []TypeOK
  BY TypeCorrect
<1>3. QED
  BY <1>1, <1>2, NextKeeps, PTL DEF Spec, KeepsContract, Contract!Spec
============================================================================
