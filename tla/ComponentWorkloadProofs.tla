---------------------- MODULE ComponentWorkloadProofs ----------------------
(***************************************************************************)
(* What the workload of a component resource can be relied on for: that of *)
(* a generation that was observed is the one its spec asks for, a          *)
(* StatefulSet does not ask for pods whose Services are missing, and a     *)
(* controller that has come to rest has built all that the spec asks for.  *)
(*                                                                         *)
(* All rest on the order of things: the copies of the resource that the   *)
(* informer and the worker hold only ever move forward, so that a worker   *)
(* never comes after one that had read a newer resource.                   *)
(***************************************************************************)
EXTENDS ComponentReconcilerProofs

\* x is the resource y, or an earlier state of it, or an earlier namesake.
Older(x, y) ==
  \/ x.uid < y.uid
  \/ /\ x.uid = y.uid /\ x.gen <= y.gen
     /\ x.gen = y.gen => x.spec = y.spec
     /\ y.live => x.live

\* x differs from the stored resource in its status at most.
SameGeneration(x) == x.live /\ x.uid = cr.uid /\ x.gen = cr.gen /\ x.spec = cr.spec

\* Of the worker, the cache and the API server each is at least as old as the next.
CopiesOlder ==
  /\ Older(crCache, cr)
  /\ pc # "idle" => Older(snap, crCache) /\ snap.live
  /\ cr.live => cr.uid > 0

\* A generation is observed by a worker that had read it from the cache, so cache
\* and workers have it from then on.
ObservedIsCached ==
  /\ cr.status.observed <= cr.gen
  /\ (cr.live /\ cr.status.observed = cr.gen) =>
       SameGeneration(crCache) /\ (pc # "idle" => SameGeneration(snap))

\* The worker is in the branch of Reconcile for the mode of its snapshot.
BranchFitsMode ==
  /\ pc = "deploy" => ~HAEnabled(snap.spec)
  /\ pc \in {"hl", "podsvc", "sts"} => HAEnabled(snap.spec)

\* The workload of x, if it is there, is as x asks.
WorkloadBuilt(x) ==
  LET w == WorkloadOf(x.spec)
  IN Present(w) => /\ obj[w].owner = x.uid
                   /\ \E k \in Orders : obj[w].val = Workload(x.spec, k)

\* The stages after the workload's.
LateStages == {"ready", "svc", "pm", "storksvc", "route", "status"}
WorkerHasBuilt == pc \in LateStages => WorkloadBuilt(snap)

WorkloadInv ==
  /\ TypeOK /\ CopiesOlder /\ ObservedIsCached /\ BranchFitsMode
  /\ WorkerHasBuilt /\ ObservedWorkloadIsCurrent

----------------------------------------------------------------------------
\* The workload of an observed generation

\* What the comparisons need to know of the copies of the resource.
LEMMA CopyTypes ==
  ASSUME TypeOK
  PROVE  \A x \in {cr, crCache, snap} :
           /\ x \in CRType /\ x.live \in BOOLEAN /\ x.uid \in Nat /\ x.gen \in Nat
           /\ x.spec \in SpecType /\ x.status.observed \in Nat
BY DEF TypeOK, CRType, StatusType

\* Copies of a copy are copies.
LEMMA OlderTransitive ==
  ASSUME NEW x \in CRType, NEW y \in CRType, NEW z \in CRType, Older(x, y), Older(y, z)
  PROVE  Older(x, z)
BY DEF Older, CRType

\* Every resource is a copy of itself.
LEMMA OlderReflexive == ASSUME NEW x \in CRType PROVE Older(x, x)
BY DEF Older, CRType

\* The API server's defaults make the mutated object differ from the one read, so
\* a caller that returns errors goes on only after writing the object.
LEMMA DefaultedEffect ==
  ASSUME TypeOK, NEW o \in Objects, Defaulted(o), NEW v, NEW stage, NEW i,
         reconcileResource(o, v, TRUE, stage, i)
  PROVE  Return \/ (Goto(stage, i) /\ obj' = [obj EXCEPT ![o] = [owner |-> snap.uid, val |-> v]])
BY DEF reconcileResource, Call

\* A step that leaves the resource but for its status alone, and does no more to
\* the workloads than remove them; the worker stays, ends its reconcile, or goes
\* on to a stage on the same side of the workload's.
Aside ==
  /\ cr'.live = cr.live /\ cr'.uid = cr.uid /\ cr'.gen = cr.gen /\ cr'.spec = cr.spec
  /\ cr'.status.observed = cr.status.observed
  /\ crCache' = crCache \/ crCache' = cr'
  /\ \A w \in Workloads : obj'[w] \in {obj[w], Absent}
  /\ \/ pc' = "idle"
     \/ pc' = pc /\ snap' = snap
     \/ /\ pc # "idle" /\ snap' = snap
        /\ pc' \in LateStages => pc \in LateStages
        /\ pc' = "deploy" => ~HAEnabled(snap.spec)
        /\ pc' \in {"hl", "podsvc", "sts"} => HAEnabled(snap.spec)

\* Such a step keeps WorkloadInv.
LEMMA AsideKeeps ==
  ASSUME WorkloadInv, TypeOK', Aside
  PROVE  WorkloadInv'
<1> USE CopyTypes DEF WorkloadInv
<1>1. CopiesOlder'
  <2>1. Older(crCache, cr)' /\ Older(crCache, crCache') /\ cr' \in CRType /\ crCache' \in CRType
    BY OlderReflexive DEF CopiesOlder, Older, Aside, TypeOK
  <2>2. (pc # "idle" => Older(snap, crCache) /\ snap.live)'
    <3>1. CASE pc' # "idle" /\ snap' = snap /\ pc # "idle"
      BY <2>1, <3>1, OlderTransitive DEF CopiesOlder
    <3> QED
      BY <3>1 DEF Aside
  <2> QED
    BY <2>1, <2>2 DEF CopiesOlder, Aside
<1>2. ObservedIsCached'
  BY DEF ObservedIsCached, SameGeneration, Aside
<1>3. BranchFitsMode'
  BY DEF BranchFitsMode, Aside
<1>4. \A x : WorkloadOf(x) \in Workloads
  BY DEF WorkloadOf, Workloads
<1>5. WorkerHasBuilt'
  <2> SUFFICES ASSUME pc' \in LateStages PROVE WorkloadBuilt(snap)'
    BY DEF WorkerHasBuilt
  <2>1. snap' = snap /\ pc \in LateStages
    BY DEF Aside, LateStages
  <2> QED
    BY <1>4, <2>1 DEF WorkerHasBuilt, WorkloadBuilt, Present, Aside
<1>6. ObservedWorkloadIsCurrent'
  BY <1>4 DEF ObservedWorkloadIsCurrent, Present, Aside
<1> QED
  BY <1>1, <1>2, <1>3, <1>5, <1>6

\* The stage that takes a request.
LEMMA BeginKeeps ==
  ASSUME WorkloadInv, TypeOK', BeginReconcile
  PROVE  WorkloadInv'
<1> USE CopyTypes DEF WorkloadInv
<1>1. /\ pc = "idle" /\ UNCHANGED <<cr, crCache, obj>>
      /\ \/ crCache.live /\ pc' = FirstStage(crCache.spec) /\ snap' = crCache
         \/ pc' = pc /\ snap' = snap
  BY DEF BeginReconcile
<1>2. FirstStage(crCache.spec) \in {"cm", "sa", "hacm"}
  BY DEF FirstStage
<1>3. CopiesOlder'
  BY <1>1, <1>2, OlderReflexive DEF CopiesOlder
<1>4. ObservedIsCached' /\ BranchFitsMode'
  BY <1>1, <1>2 DEF ObservedIsCached, SameGeneration, BranchFitsMode
<1>5. WorkerHasBuilt'
  BY <1>1, <1>2 DEF WorkerHasBuilt, LateStages
<1>6. ObservedWorkloadIsCurrent'
  BY <1>1 DEF ObservedWorkloadIsCurrent, Present
<1> QED
  BY <1>3, <1>4, <1>5, <1>6

\* The stage that writes the workload.
LEMMA WriteWorkloadKeeps ==
  ASSUME WorkloadInv, TypeOK', NEW w \in Workloads, w = WorkloadOf(snap.spec), NEW k \in Orders,
         pc \in {"deploy", "sts"},
         reconcileResource(w, Workload(snap.spec, k), TRUE, AfterWorkload(snap.spec), 0)
  PROVE  WorkloadInv'
<1> USE CopyTypes DEF WorkloadInv
<1> DEFINE v == Workload(snap.spec, k)
           new == [owner |-> snap.uid, val |-> v]
<1>1. w \in Objects /\ Defaulted(w)
  BY ObjectNames DEF Defaulted
<1>2. Effect(w, new, TRUE, AfterWorkload(snap.spec), 0)
  BY <1>1, ReconcileResourceEffect
<1>3. Return \/ (Goto(AfterWorkload(snap.spec), 0) /\ obj' = [obj EXCEPT ![w] = new])
  BY <1>1, DefaultedEffect
<1>4. new.owner = snap.uid /\ new.val = Workload(snap.spec, k)
  OBVIOUS
<1> HIDE DEF v, new
<1>5. AfterWorkload(snap.spec) \in LateStages
  BY DEF AfterWorkload, ServiceStage, MonitorStage, LastStage, LateStages
<1>6. obj = [x \in Objects |-> obj[x]] /\ Workloads \subseteq Objects
  BY ObjectNames DEF TypeOK, ObjectsOK
<1>7. /\ cr' = cr /\ crCache' = crCache
      /\ \A x \in Workloads : obj'[x] = obj[x] \/ (x = w /\ obj'[x] = new)
  BY <1>2, <1>6 DEF Effect
<1>8. \/ pc' = "idle"
      \/ pc' \in LateStages /\ snap' = snap /\ obj'[w] = new
  BY <1>1, <1>3, <1>5, <1>6 DEF Return, Goto
<1>9. CopiesOlder' /\ ObservedIsCached'
  BY <1>7, <1>8 DEF CopiesOlder, ObservedIsCached, SameGeneration
<1>10. BranchFitsMode'
  BY <1>8 DEF BranchFitsMode, LateStages
<1>11. WorkerHasBuilt'
  BY <1>4, <1>8 DEF WorkerHasBuilt, WorkloadBuilt, LateStages
<1>12. ObservedWorkloadIsCurrent'
  <2> SUFFICES ASSUME cr.live, cr.status.observed = cr.gen, obj'[WorkloadOf(cr.spec)] # Absent
               PROVE  /\ obj'[WorkloadOf(cr.spec)].owner = cr.uid
                      /\ \E j \in Orders : obj'[WorkloadOf(cr.spec)].val = Workload(cr.spec, j)
    BY <1>7 DEF ObservedWorkloadIsCurrent, Present
  <2>1. snap.uid = cr.uid /\ snap.spec = cr.spec
    BY DEF ObservedIsCached, SameGeneration
  <2>2. WorkloadOf(cr.spec) = w
    BY <2>1
  <2>3. CASE obj'[w] = new
    BY <1>4, <2>1, <2>2, <2>3
  <2>4. CASE obj'[w] = obj[w]
    BY <2>2, <2>4 DEF ObservedWorkloadIsCurrent, Present
  <2> QED
    BY <1>7, <2>3, <2>4
<1> QED
  BY <1>9, <1>10, <1>11, <1>12

\* The stage that stores the status, if the resource is still the one it read.
LEMMA StoreStatusKeeps ==
  ASSUME WorkloadInv, TypeOK', pc = "status", snap = cr, NEW fails,
         StatusUpdate(NewStatus, fails), obj' = obj
  PROVE  WorkloadInv'
<1> USE CopyTypes DEF WorkloadInv
<1>1. /\ cr' = [cr EXCEPT !.status = NewStatus] /\ crCache' \in {crCache, cr'} /\ pc' = "idle"
  BY DEF StatusUpdate, StoreCR, Return
<1>2. /\ cr'.live = cr.live /\ cr'.uid = cr.uid /\ cr'.gen = cr.gen /\ cr'.spec = cr.spec
      /\ cr'.status.observed = cr.gen
  BY <1>1 DEF CRType, NewStatus
<1>3. SameGeneration(crCache)
  BY DEF CopiesOlder, Older, SameGeneration
<1>4. CopiesOlder'
  BY <1>1, <1>2, OlderReflexive DEF CopiesOlder, Older
<1>5. ObservedIsCached'
  <2>1. cr'.live => SameGeneration(crCache)'
    BY <1>1, <1>2, <1>3 DEF SameGeneration
  <2> QED
    BY <1>1, <1>2, <2>1 DEF ObservedIsCached
<1>6. BranchFitsMode' /\ WorkerHasBuilt'
  BY <1>1 DEF BranchFitsMode, WorkerHasBuilt, LateStages
<1>7. ObservedWorkloadIsCurrent'
  BY <1>2 DEF ObservedWorkloadIsCurrent, WorkerHasBuilt, WorkloadBuilt, LateStages, Present
<1> QED
  BY <1>4, <1>5, <1>6, <1>7

\* Users: a new resource and a new generation are not observed yet.
LEMMA UsersKeep ==
  ASSUME WorkloadInv, TypeOK', Users
  PROVE  WorkloadInv'
<1> USE CopyTypes DEF WorkloadInv
<1>1. /\ UNCHANGED <<obj, pc, snap>> /\ crCache' \in {crCache, cr'}
  BY DEF Users, CreateResource, EditSpec, DeleteResource, UserChange, StoreCR, worker
<1>2. /\ Older(cr, cr') /\ (cr'.live => cr'.uid > 0) /\ cr'.status.observed <= cr'.gen
      /\ cr'.live => cr'.status.observed # cr'.gen
  <2>1. CASE CreateResource
    <3>1. PICK s \in Specs : cr' = [live |-> TRUE, uid |-> cr.uid + 1, gen |-> 1, spec |-> s,
                                    status |-> NoStatus]
      BY <2>1 DEF CreateResource, UserChange, StoreCR
    <3>2. cr'.live /\ cr'.uid = cr.uid + 1 /\ cr'.gen = 1 /\ cr'.status.observed = 0
      BY <3>1 DEF NoStatus
    <3> QED
      BY <3>2 DEF Older
  <2>2. CASE EditSpec
    <3>1. PICK s \in Specs : cr.live /\ cr' = [cr EXCEPT !.gen = @ + 1, !.spec = s]
      BY <2>2 DEF EditSpec, UserChange, StoreCR
    <3>2. cr'.live = cr.live /\ cr'.uid = cr.uid /\ cr'.gen = cr.gen + 1 /\ cr'.status = cr.status
      BY <3>1 DEF CRType
    <3> QED
      BY <3>1, <3>2 DEF Older, CopiesOlder, ObservedIsCached
  <2>3. CASE DeleteResource
    <3>1. cr' = [cr EXCEPT !.live = FALSE]
      BY <2>3 DEF DeleteResource, UserChange, StoreCR
    <3>2. /\ ~cr'.live /\ cr'.uid = cr.uid /\ cr'.gen = cr.gen /\ cr'.spec = cr.spec
          /\ cr'.status = cr.status
      BY <3>1 DEF CRType
    <3> QED
      BY <3>2 DEF Older, ObservedIsCached
  <2> QED
    BY <2>1, <2>2, <2>3 DEF Users
<1>3. cr' \in CRType /\ crCache' \in CRType
  BY DEF TypeOK
<1>4. Older(crCache, cr)' /\ Older(crCache, crCache')
  BY <1>1, <1>2, <1>3, OlderTransitive, OlderReflexive DEF CopiesOlder
<1>5. CopiesOlder'
  BY <1>1, <1>2, <1>3, <1>4, OlderTransitive DEF CopiesOlder
<1>6. ObservedIsCached' /\ ObservedWorkloadIsCurrent'
  BY <1>2 DEF ObservedIsCached, ObservedWorkloadIsCurrent
<1>7. BranchFitsMode' /\ WorkerHasBuilt'
  BY <1>1 DEF BranchFitsMode, WorkerHasBuilt, WorkloadBuilt, Present
<1> QED
  BY <1>5, <1>6, <1>7

\* What the StatefulSet and its pods need.
Peers == {HL, STS} \cup {PodSvc(i) : i \in Ordinals}

\* A step that does not write them and does not bring the worker further in writing
\* them; it may remove what belongs to nobody.
Bystander ==
  /\ cr'.live => cr'.uid > cr.uid \/ (cr.live /\ cr'.uid = cr.uid)
  /\ crCache.uid <= crCache'.uid
  /\ pc' # "idle" => snap' = IF pc = "idle" THEN crCache ELSE snap
  /\ pc' \in {"podsvc", "sts"} => pc' = pc /\ ord' = ord
  /\ \A o \in Peers : obj'[o] = obj[o] \/ (obj'[o] = Absent /\ Orphan(o))
  /\ budget'["tamper"] = budget["tamper"]

\* Where the stages lead.
LEMMA WorkloadStageOrder ==
  ASSUME NEW s
  PROVE  /\ {LastStage(s), MonitorStage(s), AfterStorkService(s), AfterReady(s), AfterWorkload(s)}
              \subseteq LateStages
         /\ {WorkloadStage(s), AfterServiceAccount(s)} \subseteq {"rb", "hl", "deploy"}
         /\ "deploy" \in {WorkloadStage(s), AfterServiceAccount(s)} => ~HAEnabled(s)
         /\ "hl" \in {WorkloadStage(s), AfterServiceAccount(s)} => HAEnabled(s)
BY DEF LastStage, MonitorStage, ServiceStage, AfterWorkload, AfterReady, AfterStorkService,
       WorkloadStage, AfterServiceAccount, LateStages

\* The stages that write no workload and no status of a reconcile's end.
LEMMA StagesAside ==
  ASSUME WorkloadInv, Reconcile, ~BeginReconcile, ~ReconcileStatefulSet, ~ReconcileDeployment,
         ~UpdateStatus
  PROVE  /\ Aside
         /\ ~ReconcileHeadlessService /\ ~ReconcilePerPodService => Bystander
<1> USE CopyTypes DEF WorkloadInv
<1>0. /\ obj = [x \in Objects |-> obj[x]] /\ budget \in [Events -> Nat]
      /\ Workloads \subseteq Objects /\ Peers \subseteq Objects
  BY ObjectNames DEF TypeOK, ObjectsOK, Peers
<1>1. ASSUME NEW o \in Objects \ Workloads, NEW v, NEW fatal \in BOOLEAN, NEW stage, NEW i,
             pc # "idle", stage # "idle",
             stage \in LateStages => pc \in LateStages,
             stage = "deploy" => ~HAEnabled(snap.spec),
             stage \in {"hl", "podsvc", "sts"} => HAEnabled(snap.spec),
             Effect(o, v, fatal, stage, i)
      PROVE  /\ Aside
             /\ o \notin Peers /\ stage \notin {"podsvc", "sts"} => Bystander
  <2>1. /\ \A x \in Workloads : obj'[x] = obj[x]
        /\ \A x \in Peers : x # o => obj'[x] = obj[x]
    BY <1>0, <1>1 DEF Effect
  <2>2. /\ UNCHANGED <<cr, crCache>>
        /\ pc' = "idle" \/ (pc' = stage /\ snap' = snap)
    BY <1>1 DEF Effect, Return, Goto
  <2>3. budget'["tamper"] = budget["tamper"]
    BY <1>0, <1>1 DEF Effect, Spend, Events
  <2>4. Aside
    BY <1>1, <2>1, <2>2 DEF Aside
  <2>5. o \notin Peers /\ stage \notin {"podsvc", "sts"} => Bystander
    BY <1>1, <2>1, <2>2, <2>3 DEF Bystander
  <2> QED
    BY <2>4, <2>5
<1>2. ASSUME NEW o \in Objects \ Workloads, NEW v, NEW fatal \in BOOLEAN, NEW stage, NEW i,
             pc # "idle", stage # "idle",
             stage \in LateStages => pc \in LateStages,
             stage = "deploy" => ~HAEnabled(snap.spec),
             stage \in {"hl", "podsvc", "sts"} => HAEnabled(snap.spec),
             reconcileResource(o, v, fatal, stage, i)
      PROVE  /\ Aside
             /\ o \notin Peers /\ stage \notin {"podsvc", "sts"} => Bystander
  <2>1. Effect(o, [owner |-> snap.uid, val |-> v], fatal, stage, i)
    BY <1>2, ReconcileResourceEffect
  <2> QED
    BY <1>1, <1>2, <2>1
<1>3. \A o \in {CM, SA, RB, Svc, PM, StorkSvc, Route} : o \in Objects \ Workloads /\ o \notin Peers
  BY ObjectNames DEF CM, SA, RB, HL, STS, Svc, PM, StorkSvc, Route, Peers, PodSvc
<1>4. \A i \in Ordinals : HACM(i) \notin Peers
  BY DEF HACM, HL, STS, Peers, PodSvc
<1>5. pc \in {"hacm", "podsvc"} => ord \in Ordinals
  BY SnapType, ConstantsAssumption DEF TypeOK, Ordinals
<1>6. CASE RenderError
  <2>1. UNCHANGED <<obj, budget>> \/ (obj' = obj /\ Spend("fault"))
    BY <1>6 DEF RenderError
  <2>2. /\ pc' = "idle"
        /\ \/ UNCHANGED <<cr, crCache>>
           \/ /\ cr' = [cr EXCEPT !.status = [cr.status EXCEPT !.phase = "Error"]]
              /\ crCache' \in {crCache, cr'}
    BY <1>6 DEF RenderError, StatusUpdate, FailedStatusUpdate, StoreCR, Return
  <2>3. /\ cr'.live = cr.live /\ cr'.uid = cr.uid /\ cr'.gen = cr.gen /\ cr'.spec = cr.spec
        /\ cr'.status.observed = cr.status.observed
    BY <2>2, ZenonT(60) DEF CRType, StatusType
  <2>4. budget'["tamper"] = budget["tamper"]
    BY <1>0, <2>1 DEF Spend, Events
  <2>5. crCache.uid <= crCache'.uid
    BY <2>2, <2>3 DEF CopiesOlder, Older
  <2> QED
    BY <2>1, <2>2, <2>3, <2>4, <2>5 DEF Aside, Bystander
<1>7. CASE ReconcileConfigMap
  <2> DEFINE stage == "sa"
  <2>1. pc = "cm" /\ stage = "sa" /\ reconcileResource(CM, snap.spec.cfg, TRUE, stage, 0)
    BY <1>7 DEF ReconcileConfigMap
  <2>2. /\ stage \notin {"idle", "deploy", "hl", "podsvc", "sts"} /\ pc # "idle"
        /\ stage \in LateStages => pc \in LateStages
    BY <2>1 DEF LateStages
  <2> HIDE DEF stage
  <2> QED
    BY <1>2, <1>3, <2>1, <2>2
<1>8. CASE reconcileHAConfigs
  <2>1. pc = "hacm" /\ HACM(ord) \in Objects \ Workloads /\ HACM(ord) \notin Peers
    BY <1>4, <1>5, <1>8, ObjectNames DEF reconcileHAConfigs
  <2> DEFINE more == ord + 1 < snap.spec.replicas
             stage == IF more THEN "hacm" ELSE "sa"
             i == IF more THEN ord + 1 ELSE 0
  <2>2. stage \in {"hacm", "sa"}
    OBVIOUS
  <2>3. CASE snap.spec.cfg \in Unrenderable
    <3>1. Goto(stage, i) /\ UNCHANGED <<cr, crCache, obj, budget>>
      BY <1>8, <2>3 DEF reconcileHAConfigs
    <3> HIDE DEF stage, i
    <3> QED
      BY <2>1, <2>2, <3>1 DEF Goto, Aside, Bystander, LateStages
  <2>4. CASE snap.spec.cfg \notin Unrenderable
    <3>1. reconcileResource(HACM(ord), snap.spec.cfg, FALSE, stage, i)
      BY <1>8, <2>4 DEF reconcileHAConfigs
    <3> HIDE DEF stage, i
    <3> QED
      BY <1>2, <2>1, <2>2, <3>1 DEF LateStages
  <2> QED
    BY <2>3, <2>4
<1>9. CASE ReconcileServiceAccount
  <2>1. pc = "sa" /\ reconcileResource(SA, Built, TRUE, AfterServiceAccount(snap.spec), 0)
    BY <1>9 DEF ReconcileServiceAccount
  <2>2. /\ AfterServiceAccount(snap.spec) \in {"rb", "hl", "deploy"}
        /\ AfterServiceAccount(snap.spec) = "deploy" => ~HAEnabled(snap.spec)
        /\ AfterServiceAccount(snap.spec) = "hl" => HAEnabled(snap.spec)
    BY WorkloadStageOrder
  <2> QED
    BY <1>2, <1>3, <2>1, <2>2 DEF LateStages
<1>10. CASE ensureSCCRoleBinding
  <2>1. /\ pc = "rb" /\ Goto(WorkloadStage(snap.spec), 0) /\ UNCHANGED <<cr, crCache>>
        /\ UNCHANGED budget \/ Spend("fault")
    BY <1>10 DEF ensureSCCRoleBinding, Call
  <2>2. \A x \in Objects : x # RB => obj'[x] = obj[x]
    BY <1>0, <1>10 DEF ensureSCCRoleBinding, Call
  <2>3. budget'["tamper"] = budget["tamper"]
    BY <1>0, <2>1 DEF Spend, Events
  <2>4. RB \notin Workloads
    BY ObjectNames
  <2> QED
    BY <1>0, <1>3, <2>1, <2>2, <2>3, <2>4, WorkloadStageOrder
       DEF Goto, Aside, Bystander, LateStages
<1>11. CASE ReconcileHeadlessService
  BY <1>2, <1>11, ObjectNames DEF ReconcileHeadlessService, LateStages, BranchFitsMode
<1>12. CASE ReconcilePerPodService
  <2>1. pc = "podsvc" /\ PodSvc(ord) \in Objects \ Workloads
    BY <1>5, <1>12, ObjectNames DEF ReconcilePerPodService
  <2> DEFINE more == ord + 1 < snap.spec.replicas
             stage == IF more THEN "podsvc" ELSE "sts"
             i == IF more THEN ord + 1 ELSE 0
  <2>2. reconcileResource(PodSvc(ord), Built, TRUE, stage, i)
    BY <1>12 DEF ReconcilePerPodService
  <2>3. stage \in {"podsvc", "sts"}
    OBVIOUS
  <2> HIDE DEF stage, i
  <2> QED
    BY <1>2, <1>12, <2>1, <2>2, <2>3 DEF LateStages, BranchFitsMode
<1>13. CASE RejectPeers
  BY <1>13 DEF RejectPeers, Return, Aside, Bystander
<1>14. CASE ReadReadyReplicas
  BY <1>14, WorkloadStageOrder DEF ReadReadyReplicas, Aside, Bystander, LateStages
<1>15. CASE ReconcileService
  <2>1. pc = "svc" /\ reconcileResource(Svc, Built, TRUE, MonitorStage(snap.spec), 0)
    BY <1>15 DEF ReconcileService
  <2>2. MonitorStage(snap.spec) \in LateStages
    BY WorkloadStageOrder
  <2> QED
    BY <1>2, <1>3, <2>1, <2>2 DEF LateStages
<1>16. CASE ReconcilePodMonitor
  <2> DEFINE stage == "storksvc"
  <2>1. pc = "pm" /\ stage = "storksvc" /\ reconcileResource(PM, Built, FALSE, stage, 0)
    BY <1>16 DEF ReconcilePodMonitor
  <2>2. /\ stage \notin {"idle", "deploy", "hl", "podsvc", "sts"} /\ pc # "idle"
        /\ stage \in LateStages => pc \in LateStages
    BY <2>1 DEF LateStages
  <2> HIDE DEF stage
  <2> QED
    BY <1>2, <1>3, <2>1, <2>2
<1>17. CASE ReconcileStorkService
  <2>1. pc = "storksvc" /\ reconcileResource(StorkSvc, Built, TRUE, AfterStorkService(snap.spec), 0)
    BY <1>17 DEF ReconcileStorkService
  <2>2. AfterStorkService(snap.spec) \in LateStages
    BY WorkloadStageOrder
  <2> QED
    BY <1>2, <1>3, <2>1, <2>2 DEF LateStages
<1>18. CASE ReconcileStorkRoute
  <2>1. pc = "route" /\ reconcileResource(Route, Built, FALSE, LastStage(snap.spec), 0)
    BY <1>18 DEF ReconcileStorkRoute
  <2>2. LastStage(snap.spec) \in LateStages
    BY WorkloadStageOrder
  <2> QED
    BY <1>2, <1>3, <2>1, <2>2 DEF LateStages
<1> QED
  BY <1>6, <1>7, <1>8, <1>9, <1>10, <1>11, <1>12, <1>13, <1>14, <1>15, <1>16, <1>17, <1>18
     DEF Reconcile

\* The informers, Kubernetes and the failures, unless somebody deletes an object by hand.
LEMMA EnvironmentAside ==
  ASSUME WorkloadInv, Informers \/ Cluster \/ Failures
  PROVE  Aside /\ (budget["tamper"] = 0 => Bystander)
<1> USE CopyTypes DEF WorkloadInv
<1>0. /\ obj = [x \in Objects |-> obj[x]] /\ budget \in [Events -> Nat]
      /\ Workloads \subseteq Objects /\ Peers \subseteq Objects /\ crCache.uid <= cr.uid
  BY ObjectNames DEF TypeOK, ObjectsOK, Peers, CopiesOlder, Older
<1>1. CASE SyncCR
  BY <1>0, <1>1 DEF SyncCR, Aside, Bystander, worker, cluster
<1>2. CASE \E o \in Objects : SyncObject(o)
  BY <1>2 DEF SyncObject, Aside, Bystander, worker, cluster
<1>3. CASE Restart
  <2>1. budget'["tamper"] = budget["tamper"]
    BY <1>0, <1>3 DEF Restart, Spend, Events
  <2> QED
    BY <1>0, <1>3, <2>1 DEF Restart, Return, Aside, Bystander, cluster
<1>4. ASSUME NEW o \in Objects, GarbageCollect(o) \/ Tamper(o)
      PROVE  Aside /\ (budget["tamper"] = 0 => Bystander)
  <2>1. /\ UNCHANGED <<cr, crCache, pc, snap, ord>> /\ obj' = [obj EXCEPT ![o] = Absent]
    BY <1>4 DEF GarbageCollect, Tamper, Remove, worker
  <2>2. Aside
    BY <1>0, <2>1 DEF Aside
  <2>3. ASSUME budget["tamper"] = 0 PROVE Orphan(o) /\ budget' = budget
    BY <1>0, <1>4, <2>3 DEF GarbageCollect, Tamper, Spend, Events
  <2>4. \A x \in Peers : obj'[x] = obj[x] \/ (obj'[x] = Absent /\ x = o)
    BY <1>0, <2>1
  <2> QED
    BY <1>0, <2>1, <2>2, <2>3, <2>4 DEF Bystander
<1>5. ASSUME UNCHANGED <<cr, crCache, obj, worker>>, budget'["tamper"] = budget["tamper"]
      PROVE  Aside /\ Bystander
  BY <1>5 DEF Aside, Bystander, worker
<1>6. CASE \E w \in Workloads : PublishReady(w) \/ RunPods(w)
  BY <1>5, <1>6 DEF PublishReady, RunPods, StartPod, PodReady, StopPod
<1>7. CASE \E w \in Workloads, i \in Ordinals : LosePod(w, i) \/ RestartContainer(w, i)
  <2>1. UNCHANGED <<cr, crCache, obj, worker>> /\ Spend("lose")
    BY <1>7 DEF LosePod, RestartContainer
  <2>2. budget'["tamper"] = budget["tamper"]
    BY <1>0, <2>1 DEF Spend, Events
  <2> QED
    BY <1>5, <2>1, <2>2
<1> QED
  BY <1>1, <1>2, <1>3, <1>4, <1>6, <1>7 DEF Informers, Cluster, Failures

\* Every step keeps WorkloadInv.
LEMMA NextWorkload == WorkloadInv /\ [Next]_vars => WorkloadInv'
<1> SUFFICES ASSUME WorkloadInv, [Next]_vars PROVE WorkloadInv'
  OBVIOUS
<1>1. TypeOK'
  BY NextType DEF WorkloadInv
<1>2. CASE BeginReconcile
  BY <1>1, <1>2, BeginKeeps
<1>3. CASE ReconcileStatefulSet
  <2>1. PICK k \in Orders :
          pc = "sts" /\ reconcileResource(STS, Workload(snap.spec, k), TRUE, AfterWorkload(snap.spec), 0)
    BY <1>3 DEF ReconcileStatefulSet
  <2>2. STS \in Workloads /\ STS = WorkloadOf(snap.spec)
    BY <2>1 DEF Workloads, WorkloadOf, WorkloadInv, BranchFitsMode
  <2> QED
    BY <1>1, <2>1, <2>2, WriteWorkloadKeeps
<1>4. CASE ReconcileDeployment
  <2>1. /\ pc = "deploy" /\ FixedOrder \in Orders
        /\ reconcileResource(Deploy, Workload(snap.spec, FixedOrder), TRUE,
                             AfterWorkload(snap.spec), 0)
    BY <1>4, ConstantsAssumption DEF ReconcileDeployment, FixedOrder
  <2>2. Deploy \in Workloads /\ Deploy = WorkloadOf(snap.spec)
    BY <2>1 DEF Workloads, WorkloadOf, WorkloadInv, BranchFitsMode
  <2> QED
    BY <1>1, <2>1, <2>2, WriteWorkloadKeeps
<1>5. CASE UpdateStatus
  <2>1. CASE snap = cr /\ \E fails \in BOOLEAN : StatusUpdate(NewStatus, fails)
    BY <1>1, <1>5, <2>1, StoreStatusKeeps DEF UpdateStatus
  <2>2. CASE FailedStatusUpdate
    <3>1. Aside
      BY <1>5, <2>2 DEF UpdateStatus, FailedStatusUpdate, Return, Aside
    <3> QED
      BY <1>1, <3>1, AsideKeeps
  <2> QED
    BY <1>5, <2>1, <2>2 DEF UpdateStatus
<1>6. CASE Reconcile /\ ~BeginReconcile /\ ~ReconcileStatefulSet /\ ~ReconcileDeployment
           /\ ~UpdateStatus
  BY <1>1, <1>6, StagesAside, AsideKeeps
<1>7. CASE Users
  BY <1>1, <1>7, UsersKeep
<1>8. CASE Informers \/ Cluster \/ Failures
  BY <1>1, <1>8, EnvironmentAside, AsideKeeps
<1>9. CASE UNCHANGED vars
  BY <1>1, <1>9, AsideKeeps DEF vars, Aside
<1> QED
  BY <1>2, <1>3, <1>4, <1>5, <1>6, <1>7, <1>8, <1>9 DEF Next

\* Initially there is neither a resource nor a workload.
LEMMA InitWorkload == Init => WorkloadInv
<1> SUFFICES ASSUME Init PROVE WorkloadInv
  OBVIOUS
<1>1. NoCR.uid = 0 /\ NoCR.gen = 0 /\ ~NoCR.live /\ NoCR.status.observed = 0
  BY DEF NoCR, NoStatus
<1>2. /\ cr = NoCR /\ crCache = NoCR /\ pc = "idle"
  BY DEF Init
<1> QED
  BY <1>1, <1>2, InitType, OlderReflexive, NoCRType
     DEF WorkloadInv, CopiesOlder, ObservedIsCached, BranchFitsMode, WorkerHasBuilt, LateStages,
         ObservedWorkloadIsCurrent

\* Once a generation was observed, the workload it asks for is, if it is there at
\* all, the one that was built from it and belongs to the living resource. It
\* holds with lagging informers, lost answers, restarts in the middle of a
\* reconcile, objects deleted by hand and a resource that is deleted and created
\* again under its name.
THEOREM ObservedWorkload == Spec => []ObservedWorkloadIsCurrent
<1>1. Init => WorkloadInv
  BY InitWorkload
<1>2. WorkloadInv /\ [Next]_vars => WorkloadInv'
  BY NextWorkload
<1>3. WorkloadInv => ObservedWorkloadIsCurrent
  BY DEF WorkloadInv
<1> QED
  BY <1>1, <1>2, <1>3, PTL DEF Spec

----------------------------------------------------------------------------
\* The Services of the peers

Owned(o) == obj[o].owner = cr.uid

\* The StatefulSet is of no newer resource than the worker, or the next one, knows.
StatefulSetBehind ==
  Present(STS) => /\ obj[STS].owner <= IF pc = "idle" THEN crCache.uid ELSE snap.uid
                  /\ obj[STS].val.n <= MaxReplicas

\* While the resource lives, its StatefulSet has its Services.
PeersOwned ==
  (cr.live /\ Present(STS) /\ Owned(STS)) =>
    Owned(HL) /\ \A i \in 0 .. (obj[STS].val.n - 1) : Owned(PodSvc(i))

\* What a worker that has read the living resource has written of them so far.
PeersWritten ==
  (cr.live /\ pc \in {"podsvc", "sts"} /\ snap.uid = cr.uid) =>
    /\ Owned(HL)
    /\ \A i \in 0 .. ((IF pc = "podsvc" THEN ord ELSE snap.spec.replicas) - 1) : Owned(PodSvc(i))

PeersInv ==
  /\ WorkloadInv /\ budget["tamper"] = 0
  /\ StatefulSetBehind /\ PeersOwned /\ PeersWritten

\* What the comparisons need to know.
LEMMA PeerFacts ==
  ASSUME PeersInv
  PROVE  /\ \A i \in Ordinals : PodSvc(i) \in Peers
         /\ HL \in Peers /\ STS \in Peers /\ HL # STS
         /\ \A i \in Ordinals : PodSvc(i) \notin {HL, STS}
         /\ \A i, j \in Ordinals : PodSvc(i) = PodSvc(j) => i = j
         /\ Peers \subseteq Objects /\ obj = [x \in Objects |-> obj[x]]
         /\ cr.live \in BOOLEAN /\ cr.uid \in Nat /\ crCache.uid \in Nat /\ snap.uid \in Nat
         /\ crCache.uid <= cr.uid /\ (pc # "idle" => snap.uid <= crCache.uid)
         /\ cr.live => cr.uid > 0
         /\ Present(STS) => obj[STS].owner \in Nat /\ obj[STS].val.n \in Nat
         /\ MaxReplicas \in Nat /\ ord \in Nat
         /\ snap.spec.replicas \in Nat /\ snap.spec.replicas <= MaxReplicas
         /\ pc = "podsvc" => ord < snap.spec.replicas
         /\ \A n \in Nat : n <= MaxReplicas => 0 .. (n - 1) \subseteq Ordinals
<1> USE CopyTypes DEF PeersInv, WorkloadInv
<1>1. /\ \A i \in Ordinals : PodSvc(i) \in Peers
      /\ HL \in Peers /\ STS \in Peers /\ HL # STS
      /\ \A i \in Ordinals : PodSvc(i) \notin {HL, STS}
      /\ \A i, j \in Ordinals : PodSvc(i) = PodSvc(j) => i = j
  BY DEF Peers, PodSvc, HL, STS
<1>2. Peers \subseteq Objects /\ obj = [x \in Objects |-> obj[x]]
  BY ObjectNames DEF Peers, TypeOK, ObjectsOK
<1>3. /\ crCache.uid <= cr.uid /\ (pc # "idle" => snap.uid <= crCache.uid)
      /\ cr.live => cr.uid > 0
  BY DEF CopiesOlder, Older
<1>4. Present(STS) => obj[STS].owner \in Nat /\ obj[STS].val.n \in Nat
  BY ObjectNames DEF TypeOK, ObjectsOK, ObjectType, Content, Workloads, WorkloadType, Present
<1>5. /\ MaxReplicas \in Nat /\ ord \in Nat
      /\ snap.spec.replicas \in Nat /\ snap.spec.replicas <= MaxReplicas
      /\ pc = "podsvc" => ord < snap.spec.replicas
  BY ConstantsAssumption, SnapType DEF TypeOK
<1>6. \A n \in Nat : n <= MaxReplicas => 0 .. (n - 1) \subseteq Ordinals
  BY <1>5 DEF Ordinals
<1> QED
  BY <1>1, <1>2, <1>3, <1>4, <1>5, <1>6

\* A bystander leaves the Services of a living resource alone.
LEMMA BystanderKeeps ==
  ASSUME PeersInv, WorkloadInv', Bystander
  PROVE  PeersInv'
<1> USE PeerFacts
<1>1. /\ budget'["tamper"] = 0 /\ cr'.uid \in Nat /\ crCache'.uid \in Nat
  BY DEF Bystander, PeersInv, WorkloadInv, TypeOK, CRType
<1>2. Present(STS)' => Present(STS) /\ obj'[STS] = obj[STS]
  BY DEF Bystander, Present
<1>3. StatefulSetBehind'
  BY <1>1, <1>2 DEF StatefulSetBehind, PeersInv, Bystander
<1>4. ASSUME NEW o \in Peers, cr.live, Owned(o) PROVE obj'[o] = obj[o]
  BY <1>4 DEF Bystander, Orphan, Owned
<1>5. PeersOwned'
  <2> SUFFICES ASSUME cr'.live, Present(STS)', obj'[STS].owner = cr'.uid
               PROVE  /\ obj'[HL].owner = cr'.uid
                      /\ \A i \in 0 .. (obj'[STS].val.n - 1) : obj'[PodSvc(i)].owner = cr'.uid
    BY DEF PeersOwned, Owned
  <2>1. obj[STS].owner <= cr.uid /\ obj[STS].val.n <= MaxReplicas
    BY <1>2 DEF StatefulSetBehind, PeersInv
  <2>2. cr.live /\ cr'.uid = cr.uid
    BY <1>1, <1>2, <2>1 DEF Bystander
  <2>3. Owned(HL) /\ \A i \in 0 .. (obj[STS].val.n - 1) : i \in Ordinals /\ Owned(PodSvc(i))
    BY <1>2, <2>1, <2>2 DEF PeersInv, PeersOwned, Owned
  <2> QED
    BY <1>2, <1>4, <2>2, <2>3 DEF Owned
<1>6. PeersWritten'
  <2> SUFFICES ASSUME cr'.live, pc' \in {"podsvc", "sts"}, snap'.uid = cr'.uid
               PROVE  /\ obj'[HL].owner = cr'.uid
                      /\ \A i \in 0 .. ((IF pc' = "podsvc" THEN ord' ELSE snap'.spec.replicas) - 1) :
                           obj'[PodSvc(i)].owner = cr'.uid
    BY DEF PeersWritten, Owned
  <2>1. pc' = pc /\ ord' = ord /\ snap' = snap
    BY DEF Bystander
  <2>2. cr.live /\ cr'.uid = cr.uid
    BY <1>1, <2>1 DEF Bystander
  <2>3. Owned(HL) /\ \A i \in 0 .. ((IF pc = "podsvc" THEN ord ELSE snap.spec.replicas) - 1) :
                       i \in Ordinals /\ Owned(PodSvc(i))
    BY <2>1, <2>2 DEF PeersInv, PeersWritten
  <2> QED
    BY <1>4, <2>1, <2>2, <2>3 DEF Owned
<1> QED
  BY <1>1, <1>3, <1>5, <1>6 DEF PeersInv

\* One call that writes an object the peers need: the object, if it was written,
\* belongs to the resource the worker read, and the worker goes on only then.
PeerWrite(o, v, stage, i) ==
  /\ UNCHANGED <<cr, crCache>> /\ budget'["tamper"] = budget["tamper"]
  /\ \A x \in Peers \ {o} : obj'[x] = obj[x]
  /\ obj'[o] \in {obj[o], [owner |-> snap.uid, val |-> v]}
  /\ \/ pc' = "idle"
     \/ /\ pc' = stage /\ ord' = i /\ snap' = snap
        /\ obj'[o] = [owner |-> snap.uid, val |-> v]

\* The objects the peers need get defaults, and the errors of writing them are returned.
LEMMA PeerWriteEffect ==
  ASSUME PeersInv, NEW o \in Peers, NEW v, NEW stage, NEW i,
         reconcileResource(o, v, TRUE, stage, i)
  PROVE  PeerWrite(o, v, stage, i)
<1> DEFINE w == [owner |-> snap.uid, val |-> v]
<1>1. o \in Objects /\ Defaulted(o) /\ TypeOK
  BY PeerFacts DEF Defaulted, Peers, Workloads, PeersInv, WorkloadInv
<1>2. Effect(o, w, TRUE, stage, i)
  BY <1>1, ReconcileResourceEffect
<1>3. Return \/ (Goto(stage, i) /\ obj' = [obj EXCEPT ![o] = w])
  BY <1>1, DefaultedEffect
<1> HIDE DEF w
<1>4. budget'["tamper"] = budget["tamper"]
  BY <1>1, <1>2 DEF Effect, Spend, Events, TypeOK
<1>5. /\ UNCHANGED <<cr, crCache>> /\ \A x \in Peers \ {o} : obj'[x] = obj[x]
      /\ obj'[o] \in {obj[o], w}
  BY <1>2, PeerFacts DEF Effect
<1>6. pc' = "idle" \/ (pc' = stage /\ ord' = i /\ snap' = snap /\ obj'[o] = w)
  BY <1>3, PeerFacts DEF Return, Goto
<1> QED
  BY <1>4, <1>5, <1>6 DEF PeerWrite, w

\* The Services and the StatefulSet are written in this order.
LEMMA PeerStagesKeep ==
  ASSUME PeersInv, WorkloadInv',
         ReconcileHeadlessService \/ ReconcilePerPodService \/ ReconcileStatefulSet
  PROVE  PeersInv'
<1> USE PeerFacts
<1>1. CASE ReconcileHeadlessService
  <2> DEFINE stage == IF snap.spec.replicas = 0 THEN "sts" ELSE "podsvc"
  <2>1. pc = "hl" /\ reconcileResource(HL, Built, TRUE, stage, 0)
    BY <1>1 DEF ReconcileHeadlessService
  <2>2. stage = "podsvc" \/ (stage = "sts" /\ snap.spec.replicas = 0)
    OBVIOUS
  <2> HIDE DEF stage
  <2>3. PeerWrite(HL, Built, stage, 0)
    BY <2>1, PeerWriteEffect
  <2>4. /\ UNCHANGED <<cr, crCache>> /\ budget'["tamper"] = 0
        /\ obj'[STS] = obj[STS] /\ \A i \in Ordinals : obj'[PodSvc(i)] = obj[PodSvc(i)]
        /\ obj'[HL] = obj[HL] \/ obj'[HL].owner = snap.uid
        /\ \/ pc' = "idle"
           \/ pc' = stage /\ ord' = 0 /\ snap' = snap /\ obj'[HL].owner = snap.uid
    BY <2>3 DEF PeerWrite, PeersInv
  <2>5. StatefulSetBehind'
    BY <2>1, <2>2, <2>4 DEF PeersInv, StatefulSetBehind, Present
  <2>6. PeersOwned'
    BY <2>1, <2>4 DEF PeersInv, StatefulSetBehind, PeersOwned, Owned, Present
  <2>7. PeersWritten'
    BY <2>2, <2>4 DEF PeersWritten, Owned
  <2> QED
    BY <2>4, <2>5, <2>6, <2>7 DEF PeersInv
<1>2. CASE ReconcilePerPodService
  <2> DEFINE more == ord + 1 < snap.spec.replicas
             stage == IF more THEN "podsvc" ELSE "sts"
             i == IF more THEN ord + 1 ELSE 0
  <2>1. pc = "podsvc" /\ reconcileResource(PodSvc(ord), Built, TRUE, stage, i)
    BY <1>2 DEF ReconcilePerPodService
  <2>2. /\ ord \in Ordinals
        /\ \/ stage = "podsvc" /\ i = ord + 1
           \/ stage = "sts" /\ snap.spec.replicas = ord + 1
    BY <2>1 DEF Ordinals
  <2> HIDE DEF stage, i
  <2>3. PeerWrite(PodSvc(ord), Built, stage, i)
    BY <2>1, <2>2, PeerWriteEffect
  <2>4. /\ UNCHANGED <<cr, crCache>> /\ budget'["tamper"] = 0
        /\ obj'[STS] = obj[STS] /\ obj'[HL] = obj[HL]
        /\ \A j \in Ordinals : \/ obj'[PodSvc(j)] = obj[PodSvc(j)]
                               \/ obj'[PodSvc(j)].owner = snap.uid
        /\ \/ pc' = "idle"
           \/ pc' = stage /\ ord' = i /\ snap' = snap /\ obj'[PodSvc(ord)].owner = snap.uid
    BY <2>2, <2>3 DEF PeerWrite, PeersInv
  <2>5. StatefulSetBehind'
    BY <2>1, <2>2, <2>4 DEF PeersInv, StatefulSetBehind, Present
  <2>6. PeersOwned'
    BY <2>1, <2>4 DEF PeersInv, StatefulSetBehind, PeersOwned, Owned, Present
  <2>7. PeersWritten'
    BY <2>1, <2>2, <2>4 DEF PeersInv, PeersWritten, Owned
  <2> QED
    BY <2>4, <2>5, <2>6, <2>7 DEF PeersInv
<1>3. CASE ReconcileStatefulSet
  <2>1. PICK k \in Orders :
          pc = "sts" /\ reconcileResource(STS, Workload(snap.spec, k), TRUE, AfterWorkload(snap.spec), 0)
    BY <1>3 DEF ReconcileStatefulSet
  <2> DEFINE v == Workload(snap.spec, k)
  <2>2. v.n = snap.spec.replicas
    BY DEF Workload
  <2> HIDE DEF v
  <2>3. PeerWrite(STS, v, AfterWorkload(snap.spec), 0)
    BY <2>1, PeerWriteEffect DEF v
  <2>4. AfterWorkload(snap.spec) \notin {"idle", "podsvc", "sts"}
    BY WorkloadStageOrder DEF LateStages
  <2>5. /\ UNCHANGED <<cr, crCache>> /\ budget'["tamper"] = 0
        /\ obj'[HL] = obj[HL] /\ \A i \in Ordinals : obj'[PodSvc(i)] = obj[PodSvc(i)]
        /\ \/ obj'[STS] = obj[STS]
           \/ obj'[STS].owner = snap.uid /\ obj'[STS].val.n = snap.spec.replicas
        /\ pc' = "idle" \/ (pc' \notin {"idle", "podsvc", "sts"} /\ snap' = snap)
    BY <2>2, <2>3, <2>4 DEF PeerWrite, PeersInv
  <2>6. StatefulSetBehind'
    BY <2>1, <2>5 DEF PeersInv, StatefulSetBehind, Present
  <2>7. PeersOwned'
    BY <2>1, <2>5 DEF PeersInv, StatefulSetBehind, PeersOwned, PeersWritten, Owned, Present
  <2>8. PeersWritten'
    BY <2>5 DEF PeersWritten
  <2> QED
    BY <2>5, <2>6, <2>7, <2>8 DEF PeersInv
<1> QED
  BY <1>1, <1>2, <1>3

\* Every step keeps PeersInv.
LEMMA NextPeers == PeersInv /\ [Next]_vars => PeersInv'
<1> SUFFICES ASSUME PeersInv, [Next]_vars PROVE PeersInv'
  OBVIOUS
<1> USE PeerFacts
<1>1. WorkloadInv /\ WorkloadInv' /\ TypeOK /\ TypeOK' /\ budget["tamper"] = 0
  BY NextWorkload DEF PeersInv, WorkloadInv
<1>2. CASE ReconcileHeadlessService \/ ReconcilePerPodService \/ ReconcileStatefulSet
  BY <1>1, <1>2, PeerStagesKeep
<1>3. CASE BeginReconcile
  <2>1. FirstStage(crCache.spec) \notin {"podsvc", "sts"}
    BY DEF FirstStage
  <2>2. Bystander
    BY <1>3, <2>1 DEF BeginReconcile, Bystander
  <2> QED
    BY <1>1, <2>2, BystanderKeeps
<1>4. CASE ReconcileDeployment
  <2>1. /\ Deploy \in Objects /\ Deploy \notin Peers
    BY ObjectNames DEF Deploy, Peers, HL, STS, PodSvc
  <2> DEFINE v == Workload(snap.spec, FixedOrder)
  <2>2. /\ pc = "deploy"
        /\ reconcileResource(Deploy, v, TRUE, AfterWorkload(snap.spec), 0)
    BY <1>4 DEF ReconcileDeployment
  <2> HIDE DEF v
  <2>3. Effect(Deploy, [owner |-> snap.uid, val |-> v], TRUE, AfterWorkload(snap.spec), 0)
    BY <1>1, <2>1, <2>2, ReconcileResourceEffect
  <2>4. AfterWorkload(snap.spec) \notin {"podsvc", "sts"}
    BY WorkloadStageOrder DEF LateStages
  <2>5. /\ UNCHANGED <<cr, crCache>> /\ \A x \in Peers : obj'[x] = obj[x]
        /\ pc' = "idle" \/ (pc' = AfterWorkload(snap.spec) /\ snap' = snap)
    BY <2>1, <2>3 DEF Effect, Return, Goto
  <2>6. budget'["tamper"] = budget["tamper"]
    BY <1>1, <2>3 DEF Effect, Spend, Events, TypeOK
  <2>7. Bystander
    BY <2>2, <2>4, <2>5, <2>6 DEF Bystander
  <2> QED
    BY <1>1, <2>7, BystanderKeeps
<1>5. CASE UpdateStatus
  <2>1. /\ pc' = "idle" /\ obj' = obj
        /\ \/ UNCHANGED <<cr, crCache>>
           \/ cr' = [cr EXCEPT !.status = NewStatus] /\ crCache' \in {crCache, cr'}
        /\ UNCHANGED budget \/ Spend("fault")
    BY <1>5 DEF UpdateStatus, StatusUpdate, FailedStatusUpdate, StoreCR, Return
  <2>2. cr'.live = cr.live /\ cr'.uid = cr.uid
    BY <1>1, <2>1 DEF TypeOK, CRType
  <2>3. budget'["tamper"] = budget["tamper"]
    BY <1>1, <2>1 DEF Spend, Events, TypeOK
  <2>4. Bystander
    BY <2>1, <2>2, <2>3 DEF Bystander
  <2> QED
    BY <1>1, <2>4, BystanderKeeps
<1>6. CASE /\ Reconcile /\ ~BeginReconcile /\ ~ReconcileStatefulSet /\ ~ReconcileDeployment
           /\ ~UpdateStatus /\ ~ReconcileHeadlessService /\ ~ReconcilePerPodService
  BY <1>1, <1>6, StagesAside, BystanderKeeps
<1>7. CASE Users
  <2>1. UNCHANGED <<obj, pc, snap, ord>> /\ crCache' \in {crCache, cr'}
    BY <1>7 DEF Users, CreateResource, EditSpec, DeleteResource, UserChange, StoreCR, worker
  <2>2. cr'.uid > cr.uid \/ (cr'.uid = cr.uid /\ (cr'.live => cr.live))
    <3>1. CASE CreateResource
      <4>1. cr'.uid = cr.uid + 1
        BY <3>1 DEF CreateResource, UserChange, StoreCR
      <4> QED
        BY <4>1
    <3>2. CASE EditSpec \/ DeleteResource
      BY <1>1, <3>2 DEF EditSpec, DeleteResource, UserChange, StoreCR, TypeOK, CRType
    <3> QED
      BY <1>7, <3>1, <3>2 DEF Users
  <2>3. budget'["tamper"] = budget["tamper"]
    BY <1>1, <1>7 DEF Users, CreateResource, EditSpec, DeleteResource, Spend, Events, TypeOK
  <2>4. cr'.uid \in Nat
    BY <1>1 DEF TypeOK, CRType
  <2>5. Bystander
    BY <2>1, <2>2, <2>3, <2>4 DEF Bystander
  <2> QED
    BY <1>1, <2>5, BystanderKeeps
<1>8. CASE Informers \/ Cluster \/ Failures
  BY <1>1, <1>8, EnvironmentAside, BystanderKeeps
<1>9. CASE UNCHANGED vars
  <2>1. Bystander
    BY <1>9 DEF vars, Bystander
  <2> QED
    BY <1>1, <2>1, BystanderKeeps
<1> QED
  BY <1>2, <1>3, <1>4, <1>5, <1>6, <1>7, <1>8, <1>9 DEF Next

\* As long as nobody deletes an object by hand, a StatefulSet never asks for a pod
\* whose Services are missing: not when the informers lag, when a scale-up is cut
\* short by a fault or a restart, nor when a worker that had read a deleted
\* namesake is still writing after the new resource was created.
THEOREM PeerServicesFirst ==
  ASSUME Budget["tamper"] = 0
  PROVE  Spec => []PeerServicesPrecedePods
<1>1. Init => PeersInv
  <2> SUFFICES ASSUME Init PROVE PeersInv
    OBVIOUS
  <2>1. WorkloadInv /\ obj[STS] = Absent /\ pc = "idle" /\ budget["tamper"] = 0
    BY InitWorkload, ObjectNames DEF Init
  <2> QED
    BY <2>1 DEF PeersInv, StatefulSetBehind, PeersOwned, PeersWritten, Present
<1>2. PeersInv /\ [Next]_vars => PeersInv'
  BY NextPeers
<1>3. PeersInv => PeerServicesPrecedePods
  <2> SUFFICES ASSUME PeersInv, Present(STS), cr.live, obj[STS].owner = cr.uid
               PROVE  Present(HL) /\ \A i \in 0 .. (obj[STS].val.n - 1) : Present(PodSvc(i))
    BY DEF PeerServicesPrecedePods
  <2>1. Owned(HL) /\ \A i \in 0 .. (obj[STS].val.n - 1) : Owned(PodSvc(i))
    BY DEF PeersInv, PeersOwned, Owned
  <2>2. cr.uid > 0 /\ cr.uid \in Nat
    BY PeerFacts
  <2>3. Absent.owner = 0
    BY DEF Absent
  <2> QED
    BY <2>1, <2>2, <2>3 DEF Owned, Present
<1> QED
  BY <1>1, <1>2, <1>3, PTL DEF Spec

----------------------------------------------------------------------------
\* Nothing is forgotten

\* An informer that does not lag holds what the API server holds.
CachesExact ==
  /\ CR \notin Lagging => crCache = cr
  /\ \A o \in Objects \ Lagging : cache[o] = obj[o]

\* The resource changes in the cache only together with a request.
WorkerIsCurrent == (~queued /\ pc # "idle") => snap = crCache

\* A worker at this stage and ordinal has not come to o yet.
Ahead(s, o, stage, i) ==
  \/ stage = "cm"
  \/ stage \in {"hacm", "sa"} /\ o # CM
  \/ stage \in {"rb", "hl", "deploy"} /\ o \notin {CM, SA}
  \/ stage = "podsvc" /\ (o \in {STS, Svc, StorkSvc} \/ \E j \in Ordinals : j >= i /\ o = PodSvc(j))
  \/ stage = "sts" /\ o \in {STS, Svc, StorkSvc}
  \/ (stage = "svc" \/ (stage = "ready" /\ s.kind = "dhcp4")) /\ o \in {Svc, StorkSvc}
  \/ stage \in {"pm", "storksvc"} /\ o = StorkSvc

\* The stages up to the one that rejects an unusable spec.
Unchecked(s) ==
  IF HAEnabled(s) THEN {"hacm", "sa", "rb", "hl", "podsvc", "sts"} ELSE {"cm"}

\* Without a request, what the worker has passed, and after it everything, is as
\* the cached resource asks.
PassedIsBuilt ==
  (~queued /\ crCache.live) =>
    \A o \in Required(crCache.spec) \ Lagging :
      BuiltFor(crCache, o) \/ Ahead(crCache.spec, o, pc, ord)

PassedIsValid ==
  (~queued /\ crCache.live) => Valid(crCache.spec) \/ pc \in Unchecked(crCache.spec)

\* A reconcile that ends without a request has stored its status.
ObservedAtRest ==
  (~queued /\ pc = "idle" /\ crCache.live /\ crCache = cr) => cr.status.observed = cr.gen

QuietInv ==
  /\ WorkloadInv /\ CachesExact /\ WorkerIsCurrent
  /\ PassedIsBuilt /\ PassedIsValid /\ ObservedAtRest

\* The required objects are watched.
LEMMA RequiredWatched ==
  ASSUME NEW s \in SpecType, NEW o \in Required(s)
  PROVE  o \in Objects /\ Watched(o) /\ o # Route
<1>1. s.replicas \in Nat /\ s.replicas <= MaxReplicas /\ MaxReplicas \in Nat
  BY ConstantsAssumption DEF SpecType
<1>2. \A i \in 0 .. (s.replicas - 1) : i \in Ordinals
  BY <1>1 DEF Ordinals
<1>3. o \in {HL, STS, CM, Deploy, SA, Svc, StorkSvc} \/ \E i \in Ordinals : o = PodSvc(i)
  BY <1>2 DEF Required
<1> QED
  BY <1>3, ObjectNames DEF Watched, RB, Route, HL, STS, CM, Deploy, SA, Svc, StorkSvc, PodSvc

\* A step that leaves no request behind, and does not touch what it could have
\* caused one for; a worker passes an object only if it is built.
Onward ==
  /\ ~queued /\ crCache' = crCache
  /\ \A o \in Objects \ Lagging : Watched(o) => obj'[o] = obj[o]
  /\ pc' # "idle" => pc # "idle" /\ snap' = snap
  /\ crCache.live =>
       /\ \A o \in Required(crCache.spec) \ Lagging :
            Ahead(crCache.spec, o, pc, ord) =>
              BuiltFor(crCache, o) \/ Ahead(crCache.spec, o, pc', ord')
       /\ pc \in Unchecked(crCache.spec) =>
            Valid(crCache.spec) \/ pc' \in Unchecked(crCache.spec)

\* Such a step keeps what is said of times without a request.
LEMMA OnwardKeeps ==
  ASSUME QuietInv, ~queued' => Onward
  PROVE  WorkerIsCurrent' /\ PassedIsBuilt' /\ PassedIsValid'
<1> SUFFICES ASSUME ~queued', Onward
             PROVE  WorkerIsCurrent' /\ PassedIsBuilt' /\ PassedIsValid'
  BY DEF WorkerIsCurrent, PassedIsBuilt, PassedIsValid
<1>1. WorkerIsCurrent'
  BY DEF QuietInv, WorkerIsCurrent, Onward
<1>2. PassedIsValid'
  BY DEF QuietInv, PassedIsValid, Onward
<1>3. PassedIsBuilt'
  <2> SUFFICES ASSUME crCache.live, NEW o \in Required(crCache.spec) \ Lagging
               PROVE  \/ obj'[o].owner = crCache.uid /\ obj'[o].val \in Desired(crCache.spec, o)
                      \/ Ahead(crCache.spec, o, pc', ord')
    BY DEF PassedIsBuilt, BuiltFor, Onward
  <2>1. o \in Objects \ Lagging /\ Watched(o)
    BY RequiredWatched, CopyTypes DEF QuietInv, WorkloadInv
  <2>2. obj'[o] = obj[o]
    BY <2>1 DEF Onward
  <2>3. BuiltFor(crCache, o) \/ Ahead(crCache.spec, o, pc, ord)
    BY DEF QuietInv, PassedIsBuilt, Onward
  <2>4. BuiltFor(crCache, o) \/ Ahead(crCache.spec, o, pc', ord')
    BY <2>3 DEF Onward
  <2> QED
    BY <2>2, <2>4 DEF BuiltFor
<1> QED
  BY <1>1, <1>2, <1>3

\* A call that leaves no request behind has not changed a watched object, and if
\* its errors are returned then the object is the desired one.
LEMMA CallQuiet ==
  ASSUME TypeOK, CachesExact, NEW o \in Objects, NEW v, NEW fatal \in BOOLEAN, NEW stage, NEW i,
         reconcileResource(o, v, fatal, stage, i), ~queued'
  PROVE  /\ ~queued /\ Goto(stage, i) /\ UNCHANGED <<cr, crCache>>
         /\ \A x \in Objects \ Lagging : Watched(x) => obj'[x] = obj[x]
         /\ fatal /\ o \notin Lagging /\ Watched(o) => obj[o] = [owner |-> snap.uid, val |-> v]
<1> DEFINE w == [owner |-> snap.uid, val |-> v]
           same == Got(o) = w /\ ~Defaulted(o)
           current == Got(o) = obj[o]
<1>0. /\ queued \in BOOLEAN /\ obj = [x \in Objects |-> obj[x]]
      /\ o \notin Lagging /\ Watched(o) => Got(o) = obj[o]
  BY DEF TypeOK, ObjectsOK, CachesExact, Watched, Got
<1> HIDE DEF w
<1>1. ASSUME NEW changes \in BOOLEAN, NEW fails \in BOOLEAN, Call(o, w, changes, fails, fatal, stage, i)
      PROVE  /\ ~queued /\ Goto(stage, i) /\ UNCHANGED <<cr, crCache>>
             /\ \A x \in Objects \ Lagging : Watched(x) => obj'[x] = obj[x]
             /\ ~(fails /\ fatal)
             /\ changes /\ o \notin Lagging /\ Watched(o) => obj[o] = w
  <2>1. ~queued /\ ~(changes /\ Notified(o, w)) /\ ~(fails /\ fatal)
    BY <1>0, <1>1 DEF Call
  <2>2. Goto(stage, i) /\ UNCHANGED <<cr, crCache>>
    BY <1>1, <2>1 DEF Call
  <2>3. changes /\ o \notin Lagging /\ Watched(o) => obj[o] = w
    BY <2>1 DEF Notified
  <2>4. \A x \in Objects \ Lagging : Watched(x) => obj'[x] = obj[x]
    <3>1. CASE ~changes
      BY <1>1, <3>1 DEF Call
    <3>2. CASE changes
      <4>1. obj' = [obj EXCEPT ![o] = w]
        BY <1>1, <3>2 DEF Call
      <4>2. \A x \in Objects : obj'[x] = IF x = o THEN w ELSE obj[x]
        BY <1>0, <4>1
      <4> QED
        BY <2>3, <3>2, <4>2
    <3> QED
      BY <3>1, <3>2
  <2> QED
    BY <2>1, <2>2, <2>3, <2>4
<1>2. \/ same /\ Call(o, w, FALSE, FALSE, fatal, stage, i)
      \/ Call(o, w, TRUE, FALSE, fatal, stage, i)
      \/ \E changes \in BOOLEAN : Call(o, w, changes, TRUE, fatal, stage, i)
  BY DEF reconcileResource, w
<1>3. CASE same /\ Call(o, w, FALSE, FALSE, fatal, stage, i)
  BY <1>0, <1>1, <1>3 DEF w
<1>4. CASE Call(o, w, TRUE, FALSE, fatal, stage, i)
  BY <1>1, <1>4 DEF w
<1>5. CASE \E changes \in BOOLEAN : Call(o, w, changes, TRUE, fatal, stage, i)
  BY <1>1, <1>5
<1> QED
  BY <1>2, <1>3, <1>4, <1>5

\* A stage that writes o goes onward, when of what is required nothing but o lies
\* between it and the next stage.
LEMMA StageOnward ==
  ASSUME QuietInv, ~queued', pc # "idle", NEW o \in Objects, NEW v, NEW fatal \in BOOLEAN,
         NEW stage, NEW i, stage # "idle", reconcileResource(o, v, fatal, stage, i),
         fatal => v \in Desired(snap.spec, o),
         \A x \in Required(snap.spec) : Ahead(snap.spec, x, pc, ord) =>
           (fatal /\ x = o) \/ Ahead(snap.spec, x, stage, i),
         pc \in Unchecked(snap.spec) => Valid(snap.spec) \/ stage \in Unchecked(snap.spec)
  PROVE  Onward /\ pc' # "idle"
<1>1. /\ ~queued /\ Goto(stage, i) /\ UNCHANGED <<cr, crCache>>
      /\ \A x \in Objects \ Lagging : Watched(x) => obj'[x] = obj[x]
      /\ fatal /\ o \notin Lagging /\ Watched(o) => obj[o] = [owner |-> snap.uid, val |-> v]
  BY CallQuiet DEF QuietInv, WorkloadInv
<1>2. pc' = stage /\ ord' = i /\ snap' = snap
  BY <1>1 DEF Goto
<1>3. snap = crCache
  BY <1>1 DEF QuietInv, WorkerIsCurrent
<1>4. ASSUME NEW x \in Required(crCache.spec) \ Lagging, Ahead(crCache.spec, x, pc, ord)
      PROVE  BuiltFor(crCache, x) \/ Ahead(crCache.spec, x, stage, i)
  <2>1. Watched(x)
    BY RequiredWatched, CopyTypes DEF QuietInv, WorkloadInv
  <2>2. (fatal /\ x = o) \/ Ahead(crCache.spec, x, stage, i)
    BY <1>3, <1>4
  <2>3. fatal /\ x = o => BuiltFor(crCache, x)
    BY <1>1, <1>3, <2>1 DEF BuiltFor
  <2> QED
    BY <2>2, <2>3
<1> QED
  BY <1>1, <1>2, <1>3, <1>4 DEF Onward

\* The objects are written in the order of Required: between one stage and the next
\* there is nothing required but what the stage writes.
LEMMA AheadOrder ==
  ASSUME NEW s \in SpecType, NEW x \in Required(s)
  PROVE  /\ Ahead(s, x, FirstStage(s), 0)
         /\ x = CM \/ Ahead(s, x, "sa", 0)
         /\ Ahead(s, x, "sa", 0) => x = SA \/ Ahead(s, x, AfterServiceAccount(s), 0)
         /\ Ahead(s, x, "rb", 0) => Ahead(s, x, WorkloadStage(s), 0)
         /\ ~HAEnabled(s) /\ Ahead(s, x, "deploy", 0) => x = Deploy \/ Ahead(s, x, AfterWorkload(s), 0)
         /\ HAEnabled(s) /\ Ahead(s, x, "hl", 0) =>
              x = HL \/ Ahead(s, x, IF s.replicas = 0 THEN "sts" ELSE "podsvc", 0)
         /\ Ahead(s, x, "sts", 0) => x = STS \/ Ahead(s, x, AfterWorkload(s), 0)
         /\ Ahead(s, x, "ready", 0) => Ahead(s, x, AfterReady(s), 0)
         /\ Ahead(s, x, "svc", 0) => x = Svc \/ Ahead(s, x, MonitorStage(s), 0)
         /\ Ahead(s, x, "pm", 0) => Ahead(s, x, "storksvc", 0)
         /\ Ahead(s, x, "storksvc", 0) => x = StorkSvc
<1>1. /\ s.replicas \in Nat /\ s.replicas <= MaxReplicas /\ MaxReplicas \in Nat
      /\ s.svc \in BOOLEAN /\ s.stork \in BOOLEAN /\ s.ha \in BOOLEAN
  BY ConstantsAssumption DEF SpecType
<1>2. \A i \in 0 .. (s.replicas - 1) : i \in Ordinals /\ i >= 0 /\ s.replicas # 0
  BY <1>1 DEF Ordinals
<1>3. /\ HAEnabled(s) => x # CM /\ x # Deploy
      /\ ~HAEnabled(s) => x \in {CM, Deploy, SA, Svc, StorkSvc}
      /\ HAEnabled(s) => x \in {HL, STS, SA, Svc, StorkSvc} \/ \E i \in 0 .. (s.replicas - 1) : x = PodSvc(i)
      /\ x = Svc => s.svc
      /\ x = StorkSvc => s.stork
  BY DEF Required, HL, STS, CM, Deploy, SA, Svc, StorkSvc, PodSvc
<1>4. /\ Ahead(s, x, FirstStage(s), 0)
      /\ x = CM \/ Ahead(s, x, "sa", 0)
  BY <1>3 DEF Ahead, FirstStage
<1>5. /\ Ahead(s, x, "sa", 0) => x = SA \/ Ahead(s, x, AfterServiceAccount(s), 0)
      /\ Ahead(s, x, "rb", 0) => Ahead(s, x, WorkloadStage(s), 0)
  BY DEF Ahead, AfterServiceAccount, WorkloadStage
<1>6. /\ x \in {Svc, StorkSvc} => Ahead(s, x, ServiceStage(s), 0) /\ Ahead(s, x, AfterWorkload(s), 0)
      /\ Ahead(s, x, "svc", 0) => x = Svc \/ Ahead(s, x, MonitorStage(s), 0)
  BY <1>1, <1>3 DEF Ahead, AfterWorkload, ServiceStage, MonitorStage
<1>7. /\ ~HAEnabled(s) /\ Ahead(s, x, "deploy", 0) => x \in {Deploy, Svc, StorkSvc}
      /\ Ahead(s, x, "sts", 0) => x \in {STS, Svc, StorkSvc}
      /\ Ahead(s, x, "ready", 0) => s.kind = "dhcp4" /\ x \in {Svc, StorkSvc}
      /\ Ahead(s, x, "pm", 0) => Ahead(s, x, "storksvc", 0)
      /\ Ahead(s, x, "storksvc", 0) => x = StorkSvc
  BY <1>3 DEF Ahead
<1>8. HAEnabled(s) /\ Ahead(s, x, "hl", 0) =>
        x = HL \/ Ahead(s, x, IF s.replicas = 0 THEN "sts" ELSE "podsvc", 0)
  <2> SUFFICES ASSUME HAEnabled(s), Ahead(s, x, "hl", 0), x # HL
               PROVE  Ahead(s, x, IF s.replicas = 0 THEN "sts" ELSE "podsvc", 0)
    OBVIOUS
  <2>1. x # SA
    BY DEF Ahead
  <2>2. CASE x \in {STS, Svc, StorkSvc}
    BY <2>2 DEF Ahead
  <2>3. CASE \E i \in 0 .. (s.replicas - 1) : x = PodSvc(i)
    BY <1>2, <2>3 DEF Ahead
  <2> QED
    BY <1>3, <2>1, <2>2, <2>3
<1> QED
  BY <1>4, <1>5, <1>6, <1>7, <1>8 DEF AfterReady

\* The loop over the per-pod Services passes one Service at a time.
LEMMA AheadLoop ==
  ASSUME NEW s \in SpecType, NEW x \in Required(s), NEW i \in Nat, i < s.replicas,
         Ahead(s, x, "podsvc", i), x # PodSvc(i)
  PROVE  IF i + 1 < s.replicas THEN Ahead(s, x, "podsvc", i + 1) ELSE Ahead(s, x, "sts", 0)
<1>1. s.replicas \in Nat
  BY ConstantsAssumption DEF SpecType
<1>2. CASE x \in {STS, Svc, StorkSvc}
  BY <1>2 DEF Ahead
<1>3. CASE \E j \in Ordinals : j >= i /\ x = PodSvc(j)
  <2>1. PICK j \in Ordinals : j >= i /\ x = PodSvc(j)
    BY <1>3
  <2>2. j < s.replicas
    <3>1. PICK k \in 0 .. (s.replicas - 1) : x = PodSvc(k)
      BY <2>1 DEF Required, HL, STS, CM, Deploy, SA, Svc, StorkSvc, PodSvc
    <3>2. j = k
      BY <2>1, <3>1 DEF PodSvc
    <3> QED
      BY <1>1, <3>2
  <2>3. j # i /\ j \in Nat
    BY <2>1 DEF Ordinals
  <2>4. j >= i + 1 /\ i + 1 < s.replicas
    BY <1>1, <2>1, <2>2, <2>3
  <2>5. Ahead(s, x, "podsvc", i + 1)
    BY <2>1, <2>4 DEF Ahead
  <2> QED
    BY <2>4, <2>5
<1> QED
  BY <1>2, <1>3 DEF Ahead

\* Every stage between the first and the last goes onward, or leaves a request.
LEMMA StagesOnward ==
  ASSUME QuietInv, Reconcile, ~BeginReconcile, ~UpdateStatus, ~queued'
  PROVE  Onward /\ pc' # "idle"
<1> DEFINE s == snap.spec
<1>0. /\ TypeOK /\ s \in SpecType /\ s.replicas \in Nat /\ BranchFitsMode
      /\ pc \notin {"hacm", "podsvc"} => ord = 0
      /\ pc \in {"hacm", "podsvc"} => ord \in Nat /\ ord < s.replicas /\ ord \in Ordinals
  BY SnapType, ConstantsAssumption DEF QuietInv, WorkloadInv, TypeOK, Ordinals
<1> HIDE DEF s
<1>1. ~RenderError /\ ~RejectPeers
  BY DEF RenderError, RejectPeers, StatusUpdate, FailedStatusUpdate
<1>2. CASE ReconcileConfigMap
  <2>1. /\ pc = "cm" /\ s.cfg \notin Unrenderable
        /\ reconcileResource(CM, s.cfg, TRUE, "sa", 0)
    BY <1>2 DEF ReconcileConfigMap, s
  <2>2. s.cfg \in Desired(s, CM) /\ CM \in Objects
    BY ObjectNames DEF Desired
  <2>3. Valid(s) \/ "sa" \in Unchecked(s)
    BY <2>1 DEF Valid, Unchecked
  <2> QED
    BY <1>0, <2>1, <2>2, <2>3, AheadOrder, StageOnward DEF s
<1>3. CASE reconcileHAConfigs
  <2> DEFINE more == ord + 1 < snap.spec.replicas
             stage == IF more THEN "hacm" ELSE "sa"
             i == IF more THEN ord + 1 ELSE 0
  <2>1. /\ pc = "hacm" /\ HACM(ord) \in Objects
        /\ IF snap.spec.cfg \in Unrenderable
             THEN Goto(stage, i) /\ UNCHANGED <<crCache, obj, queued>>
             ELSE reconcileResource(HACM(ord), snap.spec.cfg, FALSE, stage, i)
    BY <1>0, <1>3, ObjectNames DEF reconcileHAConfigs
  <2>2. stage \in {"hacm", "sa"}
    OBVIOUS
  <2> HIDE DEF stage, i
  <2>3. \A x \in Required(s) : Ahead(s, x, pc, ord) => Ahead(s, x, stage, i)
    BY <2>1, <2>2 DEF Ahead
  <2>4. pc \in Unchecked(s) => stage \in Unchecked(s)
    BY <2>1, <2>2 DEF Unchecked
  <2>5. CASE snap.spec.cfg \in Unrenderable
    <3>1. /\ pc' = stage /\ ord' = i /\ snap' = snap /\ crCache' = crCache /\ obj' = obj /\ ~queued
      BY <2>1, <2>5 DEF Goto
    <3>2. snap = crCache
      BY <2>1, <3>1 DEF QuietInv, WorkerIsCurrent
    <3> QED
      BY <2>1, <2>2, <2>3, <2>4, <3>1, <3>2 DEF Onward, s
  <2>6. CASE snap.spec.cfg \notin Unrenderable
    <3>1. reconcileResource(HACM(ord), snap.spec.cfg, FALSE, stage, i)
      BY <2>1, <2>6
    <3> QED
      BY <2>1, <2>2, <2>3, <2>4, <3>1, StageOnward DEF s
  <2> QED
    BY <2>5, <2>6
<1>4. CASE ReconcileServiceAccount
  <2>1. pc = "sa" /\ reconcileResource(SA, Built, TRUE, AfterServiceAccount(s), 0)
    BY <1>4 DEF ReconcileServiceAccount, s
  <2>2. Built \in Desired(s, SA) /\ SA \in Objects
    BY ObjectNames DEF Desired, CM, SA
  <2>3. /\ "sa" \in Unchecked(s) => AfterServiceAccount(s) \in Unchecked(s)
        /\ AfterServiceAccount(s) # "idle"
    BY DEF Unchecked, AfterServiceAccount, WorkloadStage
  <2> QED
    BY <1>0, <2>1, <2>2, <2>3, AheadOrder, StageOnward DEF s
<1>5. CASE ensureSCCRoleBinding
  <2>1. /\ pc = "rb" /\ Goto(WorkloadStage(s), 0) /\ crCache' = crCache /\ ~queued
    BY <1>0, <1>5 DEF ensureSCCRoleBinding, Call, s, TypeOK
  <2>2. \A x \in Objects : Watched(x) => obj'[x] = obj[x]
    BY <1>0, <1>5 DEF ensureSCCRoleBinding, Call, TypeOK, ObjectsOK, Watched
  <2>3. "rb" \in Unchecked(s) => WorkloadStage(s) \in Unchecked(s)
    BY DEF Unchecked, WorkloadStage
  <2>4. snap = crCache /\ ord = 0 /\ WorkloadStage(s) # "idle"
    BY <1>0, <2>1 DEF QuietInv, WorkerIsCurrent, WorkloadStage
  <2>5. pc' = WorkloadStage(s) /\ ord' = 0 /\ snap' = snap
    BY <2>1 DEF Goto
  <2> QED
    BY <1>0, <2>1, <2>2, <2>3, <2>4, <2>5, AheadOrder DEF Onward, s
<1>6. CASE ReconcileHeadlessService
  <2> DEFINE stage == IF s.replicas = 0 THEN "sts" ELSE "podsvc"
  <2>1. pc = "hl" /\ HAEnabled(s) /\ reconcileResource(HL, Built, TRUE, stage, 0)
    BY <1>0, <1>6 DEF ReconcileHeadlessService, BranchFitsMode, s
  <2>2. Built \in Desired(s, HL) /\ HL \in Objects
    BY ObjectNames DEF Desired, CM, HL
  <2>3. stage \in Unchecked(s) /\ stage # "idle"
    BY <2>1 DEF Unchecked
  <2>4. \A x \in Required(s) : Ahead(s, x, "hl", 0) => x = HL \/ Ahead(s, x, stage, 0)
    BY <1>0, <2>1, AheadOrder
  <2> HIDE DEF stage
  <2> QED
    BY <1>0, <2>1, <2>2, <2>3, <2>4, StageOnward DEF s
<1>7. CASE ReconcilePerPodService
  <2> DEFINE more == ord + 1 < s.replicas
             stage == IF more THEN "podsvc" ELSE "sts"
             i == IF more THEN ord + 1 ELSE 0
  <2>1. /\ pc = "podsvc" /\ HAEnabled(s) /\ ord \in Nat /\ ord < s.replicas
        /\ reconcileResource(PodSvc(ord), Built, TRUE, stage, i)
    BY <1>0, <1>7 DEF ReconcilePerPodService, BranchFitsMode, s
  <2>2. PodSvc(ord) \in Objects /\ Built \in Desired(s, PodSvc(ord))
    BY <1>0, <2>1, ObjectNames DEF Desired, CM, PodSvc
  <2>3. stage \in Unchecked(s) /\ stage # "idle"
    BY <2>1 DEF Unchecked
  <2>4. \A x \in Required(s) : Ahead(s, x, "podsvc", ord) => x = PodSvc(ord) \/ Ahead(s, x, stage, i)
    <3> SUFFICES ASSUME NEW x \in Required(s), Ahead(s, x, "podsvc", ord), x # PodSvc(ord)
                 PROVE  Ahead(s, x, stage, i)
      OBVIOUS
    <3>1. IF more THEN Ahead(s, x, "podsvc", ord + 1) ELSE Ahead(s, x, "sts", 0)
      BY <1>0, <2>1, AheadLoop
    <3> QED
      BY <3>1
  <2> HIDE DEF stage, i
  <2> QED
    BY <2>1, <2>2, <2>3, <2>4, StageOnward DEF s
<1>8. CASE ReconcileStatefulSet
  <2>1. PICK k \in Orders :
          /\ pc = "sts" /\ HAEnabled(s) /\ s.cfg \notin BadPeers
          /\ reconcileResource(STS, Workload(s, k), TRUE, AfterWorkload(s), 0)
    BY <1>0, <1>8 DEF ReconcileStatefulSet, BranchFitsMode, s
  <2>2. Workload(s, k) \in Desired(s, STS) /\ STS \in Objects
    BY ObjectNames DEF Desired, Workloads
  <2>3. Valid(s) /\ AfterWorkload(s) # "idle"
    BY <2>1, WorkloadStageOrder DEF Valid, LateStages
  <2> QED
    BY <1>0, <2>1, <2>2, <2>3, AheadOrder, StageOnward DEF s
<1>9. CASE ReconcileDeployment
  <2>1. /\ pc = "deploy" /\ ~HAEnabled(s)
        /\ reconcileResource(Deploy, Workload(s, FixedOrder), TRUE, AfterWorkload(s), 0)
    BY <1>0, <1>9 DEF ReconcileDeployment, BranchFitsMode, s
  <2>2. FixedOrder \in Orders
    BY ConstantsAssumption DEF FixedOrder
  <2>3. Workload(s, FixedOrder) \in Desired(s, Deploy) /\ Deploy \in Objects
    BY <2>2, ObjectNames DEF Desired, Workloads
  <2>4. "deploy" \notin Unchecked(s) /\ AfterWorkload(s) # "idle"
    BY WorkloadStageOrder DEF Unchecked, LateStages
  <2> QED
    BY <1>0, <2>1, <2>3, <2>4, AheadOrder, StageOnward DEF s
<1>10. CASE ReadReadyReplicas
  <2>1. /\ pc = "ready" /\ pc' = AfterReady(s) /\ UNCHANGED <<crCache, obj, queued, snap, ord>>
    BY <1>10 DEF ReadReadyReplicas, s
  <2>2. "ready" \notin Unchecked(s) /\ AfterReady(s) # "idle"
    BY WorkloadStageOrder DEF Unchecked, LateStages
  <2>3. snap = crCache /\ ord = 0
    BY <1>0, <2>1 DEF QuietInv, WorkerIsCurrent
  <2> QED
    BY <1>0, <2>1, <2>2, <2>3, AheadOrder DEF Onward, s
<1>11. CASE ReconcileService
  <2>1. pc = "svc" /\ reconcileResource(Svc, Built, TRUE, MonitorStage(s), 0)
    BY <1>11 DEF ReconcileService, s
  <2>2. Built \in Desired(s, Svc) /\ Svc \in Objects
    BY ObjectNames DEF Desired, CM, Svc
  <2>3. "svc" \notin Unchecked(s) /\ MonitorStage(s) # "idle"
    BY WorkloadStageOrder DEF Unchecked, LateStages
  <2> QED
    BY <1>0, <2>1, <2>2, <2>3, AheadOrder, StageOnward DEF s
<1>12. CASE ReconcilePodMonitor
  <2>1. pc = "pm" /\ reconcileResource(PM, Built, FALSE, "storksvc", 0) /\ PM \in Objects
    BY <1>12, ObjectNames DEF ReconcilePodMonitor
  <2>2. "pm" \notin Unchecked(s)
    BY DEF Unchecked
  <2> QED
    BY <1>0, <2>1, <2>2, AheadOrder, StageOnward DEF s
<1>13. CASE ReconcileStorkService
  <2>1. pc = "storksvc" /\ reconcileResource(StorkSvc, Built, TRUE, AfterStorkService(s), 0)
    BY <1>13 DEF ReconcileStorkService, s
  <2>2. Built \in Desired(s, StorkSvc) /\ StorkSvc \in Objects
    BY ObjectNames DEF Desired, CM, StorkSvc
  <2>3. "storksvc" \notin Unchecked(s) /\ AfterStorkService(s) # "idle"
    BY WorkloadStageOrder DEF Unchecked, LateStages
  <2> QED
    BY <1>0, <2>1, <2>2, <2>3, AheadOrder, StageOnward DEF s
<1>14. CASE ReconcileStorkRoute
  <2>1. pc = "route" /\ reconcileResource(Route, Built, FALSE, LastStage(s), 0) /\ Route \in Objects
    BY <1>14, ObjectNames DEF ReconcileStorkRoute, s
  <2>2. "route" \notin Unchecked(s) /\ LastStage(s) # "idle"
    BY WorkloadStageOrder DEF Unchecked, LateStages
  <2>3. \A x : ~Ahead(s, x, "route", 0)
    BY DEF Ahead
  <2> QED
    BY <1>0, <2>1, <2>2, <2>3, StageOnward DEF s
<1> QED
  BY <1>1, <1>2, <1>3, <1>4, <1>5, <1>6, <1>7, <1>8, <1>9, <1>10, <1>11, <1>12, <1>13, <1>14
     DEF Reconcile

\* A step that changes the resource, or an object whose informer keeps up, changes the
\* cached copy with it.
Mirrored ==
  /\ CR \notin Lagging => (crCache' = cr' \/ UNCHANGED <<cr, crCache>>)
  /\ \A o \in Objects \ Lagging : cache'[o] = obj'[o] \/ (obj'[o] = obj[o] /\ cache'[o] = cache[o])

\* Such a step keeps the caches exact.
LEMMA MirroredKeeps == ASSUME CachesExact, Mirrored PROVE CachesExact'
BY DEF CachesExact, Mirrored

\* A create-or-update call does.
LEMMA CallMirrored ==
  ASSUME TypeOK, NEW o \in Objects, NEW w, NEW changes \in BOOLEAN, NEW fails \in BOOLEAN,
         NEW fatal \in BOOLEAN, NEW stage, NEW i, Call(o, w, changes, fails, fatal, stage, i)
  PROVE  Mirrored
<1>0. obj = [x \in Objects |-> obj[x]] /\ cache = [x \in Objects |-> cache[x]]
  BY DEF TypeOK, ObjectsOK
<1>1. CASE ~changes
  BY <1>1 DEF Call, Mirrored
<1>2. CASE changes
  <2>1. /\ UNCHANGED <<cr, crCache>> /\ obj' = [obj EXCEPT ![o] = w]
        /\ cache' = IF o \in Lagging THEN cache ELSE [cache EXCEPT ![o] = w]
    BY <1>2 DEF Call, CacheAfter
  <2> QED
    BY <1>0, <2>1 DEF Mirrored
<1> QED
  BY <1>1, <1>2

\* reconcileResource does.
LEMMA ReconcileResourceMirrored ==
  ASSUME TypeOK, NEW o \in Objects, NEW v, NEW fatal \in BOOLEAN, NEW stage, NEW i,
         reconcileResource(o, v, fatal, stage, i)
  PROVE  Mirrored
<1> DEFINE w == [owner |-> snap.uid, val |-> v]
<1>1. PICK changes \in BOOLEAN, fails \in BOOLEAN : Call(o, w, changes, fails, fatal, stage, i)
  BY DEF reconcileResource
<1> QED
  BY <1>1, CallMirrored

\* Every stage does.
LEMMA StagesMirrored == ASSUME TypeOK, Reconcile PROVE Mirrored
<1>0. pc \in {"hacm", "podsvc"} => HACM(ord) \in Objects /\ PodSvc(ord) \in Objects
  BY SnapType, ConstantsAssumption, ObjectNames DEF TypeOK, Ordinals
<1>1. CASE BeginReconcile
  BY <1>1 DEF BeginReconcile, Mirrored
<1>2. CASE RenderError \/ UpdateStatus
  BY <1>2 DEF RenderError, UpdateStatus, StatusUpdate, FailedStatusUpdate, StoreCR, Mirrored
<1>3. CASE RejectPeers \/ ReadReadyReplicas
  BY <1>3 DEF RejectPeers, ReadReadyReplicas, Mirrored
<1>4. CASE ensureSCCRoleBinding
  <2> DEFINE w == [owner |-> 0, val |-> Built]
  <2>1. PICK changes \in BOOLEAN, fails \in BOOLEAN :
          Call(RB, w, changes, fails, FALSE, WorkloadStage(snap.spec), 0)
    BY <1>4 DEF ensureSCCRoleBinding
  <2> QED
    BY <2>1, CallMirrored, ObjectNames
<1>5. CASE reconcileHAConfigs
  <2> DEFINE more == ord + 1 < snap.spec.replicas
             stage == IF more THEN "hacm" ELSE "sa"
             i == IF more THEN ord + 1 ELSE 0
  <2>1. CASE snap.spec.cfg \in Unrenderable
    BY <1>5, <2>1 DEF reconcileHAConfigs, Mirrored
  <2>2. CASE reconcileResource(HACM(ord), snap.spec.cfg, FALSE, stage, i) /\ pc = "hacm"
    <3> HIDE DEF stage, i
    <3> QED
      BY <1>0, <2>2, ReconcileResourceMirrored
  <2> QED
    BY <1>5, <2>1, <2>2 DEF reconcileHAConfigs
<1>6. CASE ReconcilePerPodService
  <2> DEFINE more == ord + 1 < snap.spec.replicas
             stage == IF more THEN "podsvc" ELSE "sts"
             i == IF more THEN ord + 1 ELSE 0
  <2>1. pc = "podsvc" /\ reconcileResource(PodSvc(ord), Built, TRUE, stage, i)
    BY <1>6 DEF ReconcilePerPodService
  <2> HIDE DEF stage, i
  <2> QED
    BY <1>0, <2>1, ReconcileResourceMirrored
<1>7. CASE \/ ReconcileConfigMap \/ ReconcileServiceAccount \/ ReconcileHeadlessService
           \/ ReconcileStatefulSet \/ ReconcileDeployment \/ ReconcileService
           \/ ReconcilePodMonitor \/ ReconcileStorkService \/ ReconcileStorkRoute
  <2>1. \E o \in Objects, v \in {snap.spec.cfg, Built} \cup {Workload(snap.spec, k) : k \in Orders},
          fatal \in BOOLEAN, stage \in Stages : reconcileResource(o, v, fatal, stage, 0)
    <3>1. FixedOrder \in Orders
      BY ConstantsAssumption DEF FixedOrder
    <3>2. {LastStage(snap.spec), MonitorStage(snap.spec), AfterWorkload(snap.spec),
           AfterStorkService(snap.spec), AfterServiceAccount(snap.spec)} \subseteq Stages
      BY WorkloadStageOrder DEF LateStages, Stages
    <3>3. "sa" \in Stages /\ "sts" \in Stages /\ "podsvc" \in Stages /\ "storksvc" \in Stages
      BY DEF Stages
    <3> QED
      BY <1>7, <3>1, <3>2, <3>3, ObjectNames
         DEF ReconcileConfigMap, ReconcileServiceAccount, ReconcileHeadlessService,
             ReconcileStatefulSet, ReconcileDeployment, ReconcileService, ReconcilePodMonitor,
             ReconcileStorkService, ReconcileStorkRoute
  <2> QED
    BY <2>1, ReconcileResourceMirrored
<1> QED
  BY <1>1, <1>2, <1>3, <1>4, <1>5, <1>6, <1>7 DEF Reconcile

\* Users, informers, Kubernetes and failures do not let the worker pass anything, and
\* what they change of what it has built leaves a request.
LEMMA EnvironmentQuiet ==
  ASSUME QuietInv, TypeOK', Informers \/ Users \/ Cluster \/ Failures
  PROVE  /\ Mirrored
         /\ ~queued' => Onward /\ UNCHANGED <<pc, queued, crCache>> /\ (cr' = cr \/ Users)
<1>0. /\ TypeOK /\ obj = [x \in Objects |-> obj[x]] /\ cache = [x \in Objects |-> cache[x]]
      /\ queued \in BOOLEAN
  BY DEF QuietInv, WorkloadInv, TypeOK, ObjectsOK
<1> DEFINE Goal == /\ Mirrored
                   /\ ~queued' => Onward /\ UNCHANGED <<pc, queued, crCache>> /\ (cr' = cr \/ Users)
<1>1. ASSUME UNCHANGED <<cr, crCache, obj, cache, worker>>, queued' \in {queued, TRUE}
      PROVE  Goal
  BY <1>0, <1>1 DEF Mirrored, Onward, worker
<1>2. CASE SyncCR
  BY <1>2 DEF SyncCR, Mirrored
<1>3. ASSUME NEW o \in Objects, SyncObject(o) PROVE Goal
  <2>1. \A x \in Objects \ Lagging : cache'[x] = obj'[x] \/ cache'[x] = cache[x]
    BY <1>0, <1>3 DEF SyncObject
  <2>2. /\ UNCHANGED <<cr, crCache, obj, pc, snap, ord>> /\ (~queued' => queued' = queued)
    BY <1>0, <1>3 DEF SyncObject, worker
  <2> QED
    BY <2>1, <2>2 DEF Mirrored, Onward
<1>4. CASE Restart
  BY <1>4 DEF Restart, Mirrored
<1>5. ASSUME NEW o \in Objects, GarbageCollect(o) \/ Tamper(o) PROVE Goal
  <2>1. Remove(o) /\ obj[o] # Absent
    BY <1>5 DEF GarbageCollect, Tamper, Present
  <2>2. /\ UNCHANGED <<cr, crCache, pc, snap, ord>>
        /\ \A x \in Objects : obj'[x] = IF x = o THEN Absent ELSE obj[x]
        /\ \A x \in Objects \ Lagging : cache'[x] = IF x = o THEN Absent ELSE cache[x]
    BY <1>0, <2>1 DEF Remove, CacheAfter, worker
  <2>3. ~queued' => ~queued /\ ~(o \notin Lagging /\ Watched(o))
    BY <1>0, <2>1 DEF Remove, Notified
  <2>4. ~queued' => queued' = queued
    BY <1>0, <2>1 DEF Remove
  <2>5. Mirrored
    BY <2>2 DEF Mirrored
  <2> QED
    BY <2>2, <2>3, <2>4, <2>5 DEF Onward
<1>6. CASE \E w \in Workloads : PublishReady(w) \/ RunPods(w)
  BY <1>1, <1>6 DEF PublishReady, RunPods, StartPod, PodReady, StopPod
<1>7. CASE \E w \in Workloads, i \in Ordinals : LosePod(w, i) \/ RestartContainer(w, i)
  BY <1>1, <1>7 DEF LosePod, RestartContainer
<1>8. CASE Users
  <2>1. PICK new : UserChange(new)
    BY <1>8 DEF Users, CreateResource, EditSpec, DeleteResource
  <2>2. Mirrored
    BY <2>1 DEF UserChange, StoreCR, Mirrored
  <2>3. ~queued' => UNCHANGED <<crCache, obj, queued, pc, snap, ord>>
    BY <1>0, <2>1 DEF UserChange, StoreCR, worker
  <2> QED
    BY <1>8, <2>2, <2>3 DEF Onward
<1> QED
  BY <1>2, <1>3, <1>4, <1>5, <1>6, <1>7, <1>8 DEF Informers, Cluster, Failures

\* Users leave no resource behind that was cached before and is not observed.
LEMMA UsersNewer ==
  ASSUME QuietInv, Users, crCache' = crCache, cr' = crCache
  PROVE  ~crCache.live
<1> USE CopyTypes DEF QuietInv, WorkloadInv
<1>1. Older(crCache, cr)
  BY DEF CopiesOlder
<1>2. CASE CreateResource
  <2>1. cr'.uid = cr.uid + 1
    BY <1>2 DEF CreateResource, UserChange, StoreCR
  <2> QED
    BY <1>1, <2>1 DEF Older
<1>3. CASE EditSpec
  <2>1. PICK s \in Specs : cr' = [cr EXCEPT !.gen = @ + 1, !.spec = s]
    BY <1>3 DEF EditSpec, UserChange, StoreCR
  <2>2. cr'.uid = cr.uid /\ cr'.gen = cr.gen + 1
    BY <2>1 DEF CRType
  <2> QED
    BY <1>1, <2>2 DEF Older
<1>4. CASE DeleteResource
  BY <1>4 DEF DeleteResource, UserChange, StoreCR, CRType
<1> QED
  BY <1>2, <1>3, <1>4 DEF Users

\* Every step keeps QuietInv.
LEMMA NextQuiet == QuietInv /\ [Next]_vars => QuietInv'
<1> SUFFICES ASSUME QuietInv, [Next]_vars PROVE QuietInv'
  OBVIOUS
<1>1. WorkloadInv' /\ TypeOK /\ TypeOK'
  BY NextWorkload DEF QuietInv, WorkloadInv
<1>2. CASE BeginReconcile
  <2>1. Mirrored
    BY <1>1, <1>2, StagesMirrored DEF Reconcile
  <2>2. /\ UNCHANGED <<cr, crCache, obj, ord>> /\ pc = "idle"
        /\ \/ crCache.live /\ pc' = FirstStage(crCache.spec) /\ snap' = crCache
           \/ ~crCache.live /\ UNCHANGED <<pc, snap>>
    BY <1>1, <1>2 DEF BeginReconcile, TypeOK, CRType
  <2>3. crCache.spec \in SpecType /\ ord = 0
    BY <1>1, <2>2, CopyTypes DEF TypeOK
  <2>4. FirstStage(crCache.spec) # "idle"
    BY DEF FirstStage
  <2>5. Valid(crCache.spec) \/ FirstStage(crCache.spec) \in Unchecked(crCache.spec)
    BY DEF Valid, Unchecked, FirstStage
  <2>6. WorkerIsCurrent' /\ ObservedAtRest'
    BY <2>2, <2>4 DEF WorkerIsCurrent, ObservedAtRest
  <2>7. PassedIsValid'
    BY <2>2, <2>5 DEF PassedIsValid
  <2>8. PassedIsBuilt'
    BY <2>2, <2>3, AheadOrder DEF PassedIsBuilt
  <2> QED
    BY <1>1, <2>1, <2>6, <2>7, <2>8, MirroredKeeps DEF QuietInv
<1>3. CASE UpdateStatus
  <2>1. Mirrored
    BY <1>1, <1>3, StagesMirrored DEF Reconcile
  <2>2. ASSUME ~queued' PROVE Onward /\ cr'.status.observed = cr'.gen
    <3>1. /\ pc = "status" /\ snap = cr /\ StatusUpdate(NewStatus, FALSE) /\ obj' = obj /\ ~queued
      BY <1>1, <1>3, <2>2 DEF UpdateStatus, StatusUpdate, FailedStatusUpdate, TypeOK
    <3>2. /\ cr' = [cr EXCEPT !.status = NewStatus] /\ pc' = "idle"
          /\ crCache' = IF CR \in Lagging THEN crCache ELSE cr'
          /\ CR \in Lagging \/ NewStatus = cr.status
      BY <1>1, <2>2, <3>1 DEF StatusUpdate, StoreCR, Return, TypeOK
    <3>3. cr'.gen = cr.gen /\ cr'.status = NewStatus
      BY <1>1, <3>2 DEF TypeOK, CRType
    <3>4. NewStatus.observed = snap.gen
      BY DEF NewStatus
    <3>5. crCache' = crCache
      <4>1. CASE CR \in Lagging
        BY <3>2, <4>1
      <4>2. CASE CR \notin Lagging
        <5>1. cr' = cr
          BY <1>1, <3>2, <4>2 DEF TypeOK, CRType
        <5> QED
          BY <3>2, <4>2, <5>1 DEF QuietInv, CachesExact
      <4> QED
        BY <4>1, <4>2
    <3>6. /\ \A x : ~Ahead(crCache.spec, x, "status", ord)
          /\ "status" \notin Unchecked(crCache.spec)
      BY DEF Ahead, Unchecked
    <3> QED
      BY <3>1, <3>2, <3>3, <3>4, <3>5, <3>6 DEF Onward
  <2>3. WorkerIsCurrent' /\ PassedIsBuilt' /\ PassedIsValid'
    BY <2>2, OnwardKeeps
  <2>4. ObservedAtRest'
    BY <2>2 DEF ObservedAtRest
  <2> QED
    BY <1>1, <2>1, <2>3, <2>4, MirroredKeeps DEF QuietInv
<1>4. CASE Reconcile /\ ~BeginReconcile /\ ~UpdateStatus
  <2>1. Mirrored
    BY <1>1, <1>4, StagesMirrored
  <2>2. ~queued' => Onward /\ pc' # "idle"
    BY <1>4, StagesOnward
  <2>3. WorkerIsCurrent' /\ PassedIsBuilt' /\ PassedIsValid'
    BY <2>2, OnwardKeeps
  <2>4. ObservedAtRest'
    BY <2>2 DEF ObservedAtRest
  <2> QED
    BY <1>1, <2>1, <2>3, <2>4, MirroredKeeps DEF QuietInv
<1>5. CASE Informers \/ Users \/ Cluster \/ Failures
  <2>1. Mirrored
    BY <1>1, <1>5, EnvironmentQuiet
  <2>2. ~queued' => Onward /\ UNCHANGED <<pc, queued, crCache>> /\ (cr' = cr \/ Users)
    BY <1>1, <1>5, EnvironmentQuiet
  <2>3. WorkerIsCurrent' /\ PassedIsBuilt' /\ PassedIsValid'
    BY <2>2, OnwardKeeps
  <2>4. ObservedAtRest'
    BY <2>2, UsersNewer DEF ObservedAtRest, QuietInv
  <2> QED
    BY <1>1, <2>1, <2>3, <2>4, MirroredKeeps DEF QuietInv
<1>6. CASE UNCHANGED vars
  <2>1. CachesExact'
    BY <1>6 DEF vars, QuietInv, CachesExact
  <2>2. WorkerIsCurrent' /\ ObservedAtRest' /\ PassedIsValid'
    BY <1>6 DEF vars, QuietInv, WorkerIsCurrent, ObservedAtRest, PassedIsValid
  <2>3. PassedIsBuilt'
    BY <1>6 DEF vars, QuietInv, PassedIsBuilt, BuiltFor
  <2> QED
    BY <1>1, <2>1, <2>2, <2>3 DEF QuietInv
<1> QED
  BY <1>2, <1>3, <1>4, <1>5, <1>6 DEF Next

\* A component resource for which nothing is queued and nothing runs is done: its spec
\* is usable, its generation observed, and every object it needs is there, owned by
\* it and built from its spec. So no fault, refused write, restart, deletion by hand
\* or edit in the middle of a reconcile is ever forgotten; an object whose informer
\* lags is excepted, for it may be made and deleted by hand between two of its looks.
THEOREM NothingForgotten == Spec => []QuietMeansBuilt
<1>1. Init => QuietInv
  <2> SUFFICES ASSUME Init PROVE QuietInv
    OBVIOUS
  <2>1. WorkloadInv /\ ~crCache.live /\ pc = "idle" /\ crCache = cr /\ cache = obj
    BY InitWorkload DEF Init, NoCR
  <2> QED
    BY <2>1 DEF QuietInv, CachesExact, WorkerIsCurrent, PassedIsBuilt, PassedIsValid, ObservedAtRest
<1>2. QuietInv /\ [Next]_vars => QuietInv'
  BY NextQuiet
<1>3. QuietInv => QuietMeansBuilt
  <2> SUFFICES ASSUME QuietInv, cr.live, crCache = cr, pc = "idle", ~queued
               PROVE  /\ Valid(cr.spec) /\ cr.status.observed = cr.gen
                      /\ \A o \in Required(cr.spec) \ Lagging : BuiltFor(cr, o)
    BY DEF QuietMeansBuilt
  <2>1. \A o : ~Ahead(cr.spec, o, "idle", ord)
    BY DEF Ahead
  <2>2. "idle" \notin Unchecked(cr.spec)
    BY DEF Unchecked
  <2> QED
    BY <2>1, <2>2 DEF QuietInv, PassedIsBuilt, PassedIsValid, ObservedAtRest
<1> QED
  BY <1>1, <1>2, <1>3, PTL DEF Spec
============================================================================
