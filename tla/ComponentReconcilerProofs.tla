--------------------- MODULE ComponentReconcilerProofs ---------------------
(***************************************************************************)
(* Theorems about ComponentReconciler, for every set of specs, every       *)
(* number of replicas, any lag of the informers and any number of faults.  *)
(***************************************************************************)
EXTENDS ComponentReconciler, FiniteSetTheorems, TLAPS

----------------------------------------------------------------------------
\* Facts about the constant part of the model

\* The names of the objects that the invariants tell apart are distinct objects.
LEMMA ObjectNames ==
  /\ {CM, SA, RB, HL, Deploy, STS, Svc, PM, StorkSvc, Route} \subseteq Objects
  /\ Workloads \subseteq Objects
  /\ {CM, SA, RB, HL, Svc, PM, StorkSvc, Route} \cap Workloads = {}
  /\ \A i \in Ordinals : /\ HACM(i) \in Objects \ Workloads
                         /\ PodSvc(i) \in Objects \ Workloads
BY DEF Objects, Workloads, CM, SA, RB, HL, Deploy, STS, Svc, PM, StorkSvc, Route, HACM, PodSvc

\* NoCR, the value of the resource before it is created, has the type of a resource.
LEMMA NoCRType == NoCR \in CRType /\ NoStatus \in StatusType /\ NoCR.spec.cfg = 0
BY ConstantsAssumption
   DEF NoCR, CRType, NoStatus, StatusType, NoHash, HashType, BlankSpec, SpecType, Kinds

\* What the builders produce has the type of a hash and of a workload.
LEMMA BuiltType ==
  ASSUME NEW s \in SpecType, NEW k \in Nat
  PROVE  ConfigHash(s) \in HashType /\ Workload(s, k) \in WorkloadType
<1>1. s.replicas \in Nat
  BY ConstantsAssumption DEF SpecType
<1>2. ConfigHash(s) \in HashType
  BY <1>1 DEF SpecType, ConfigHash, HashType
<1> QED
  BY <1>1, <1>2 DEF SpecType, Workload, PodTemplate, WorkloadType, TemplateType

\* Ready pods are counted by a natural number.
LEMMA ReadyPodsType == ASSUME NEW w PROVE ReadyPods(w) \in Nat
<1>1. IsFiniteSet(Ordinals)
  BY FS_Interval, ConstantsAssumption DEF Ordinals
<1>2. IsFiniteSet({i \in Ordinals : pods[w][i].ready})
  BY <1>1, FS_Subset
<1> QED
  BY <1>2, FS_CardinalityType DEF ReadyPods

----------------------------------------------------------------------------
\* Type correctness

\* What one call of reconcileResource may do, without saying why: it writes only
\* over a copy that is current, and a caller that returns errors goes on only
\* when the object was written or the copy read already was the desired one.
Effect(o, w, fatal, stage, i) ==
  /\ \/ obj' = obj /\ cache' = cache
     \/ /\ Got(o) = obj[o] /\ obj' = [obj EXCEPT ![o] = w]
        /\ cache' = cache \/ cache' = [cache EXCEPT ![o] = w]
  /\ \/ Return
     \/ /\ Goto(stage, i)
        /\ fatal => obj'[o] = w \/ Got(o) = w
  /\ queued' \in BOOLEAN
  /\ UNCHANGED budget \/ Spend("fault")
  /\ UNCHANGED <<cr, crCache, ready, pods>>

\* reconcileResource has that effect.
LEMMA ReconcileResourceEffect ==
  ASSUME TypeOK, NEW o \in Objects, NEW v, NEW fatal \in BOOLEAN, NEW stage, NEW i,
         reconcileResource(o, v, fatal, stage, i)
  PROVE  Effect(o, [owner |-> snap.uid, val |-> v], fatal, stage, i)
<1> DEFINE w == [owner |-> snap.uid, val |-> v]
           same == Got(o) = w /\ ~Defaulted(o)
           current == Got(o) = obj[o]
<1>0. queued \in BOOLEAN /\ obj = [x \in Objects |-> obj[x]] /\ Notified(o, w) \in BOOLEAN
  BY DEF TypeOK, ObjectsOK, Notified, Watched
<1> HIDE DEF w
<1>1. CASE same /\ Call(o, w, FALSE, FALSE, fatal, stage, i) /\ UNCHANGED budget
  BY <1>0, <1>1 DEF Call, Effect, w
<1>2. CASE current /\ Call(o, w, TRUE, FALSE, fatal, stage, i) /\ UNCHANGED budget
  BY <1>0, <1>2 DEF Call, CacheAfter, Effect, w
<1>3. CASE Call(o, w, FALSE, TRUE, fatal, stage, i) /\ UNCHANGED budget
  BY <1>0, <1>3 DEF Call, Effect, w
<1>4. CASE Spend("fault") /\ \E done \in {FALSE, current} : Call(o, w, done, TRUE, fatal, stage, i)
  <2>1. CASE Call(o, w, FALSE, TRUE, fatal, stage, i)
    BY <1>0, <1>4, <2>1 DEF Call, Effect, w
  <2>2. CASE current /\ Call(o, w, TRUE, TRUE, fatal, stage, i)
    BY <1>0, <1>4, <2>2 DEF Call, CacheAfter, Effect, w
  <2>3. Call(o, w, FALSE, TRUE, fatal, stage, i) \/ (current /\ Call(o, w, TRUE, TRUE, fatal, stage, i))
    <3>1. PICK done \in {FALSE, current} : Call(o, w, done, TRUE, fatal, stage, i)
      BY <1>4
    <3>2. CASE done = FALSE
      BY <3>1, <3>2
    <3>3. CASE done = TRUE /\ current
      BY <3>1, <3>3
    <3> QED
      BY <3>1, <3>2, <3>3
  <2> QED
    BY <2>1, <2>2, <2>3
<1> QED
  BY <1>1, <1>2, <1>3, <1>4 DEF reconcileResource, w

\* Spending leaves a budget.
LEMMA SpendType ==
  ASSUME TypeOK, NEW e \in Events, UNCHANGED budget \/ Spend(e)
  PROVE  budget' \in [Events -> Nat]
BY DEF TypeOK, Spend

\* reconcileResource, when what it writes has the type of the object, keeps the types.
LEMMA EffectType ==
  ASSUME TypeOK, NEW o \in Objects, NEW v \in Content(o), NEW fatal \in BOOLEAN,
         NEW stage \in Stages, NEW i \in Nat,
         IF stage \in {"hacm", "podsvc"} THEN i < snap.spec.replicas ELSE i = 0,
         Effect(o, [owner |-> snap.uid, val |-> v], fatal, stage, i)
  PROVE  TypeOK'
<1> DEFINE w == [owner |-> snap.uid, val |-> v]
<1>1. w \in ObjectType(o) /\ w.val # None
  BY ConstantsAssumption DEF TypeOK, CRType, ObjectType, Content
<1> HIDE DEF w
<1>2. ObjectsOK(obj)' /\ ObjectsOK(cache)'
  BY <1>1 DEF TypeOK, Effect, ObjectsOK, w
<1>3. /\ pc' \in Stages \cup {"idle"} /\ ord' \in Nat /\ seen' \in Nat /\ snap' \in CRType
      /\ IF pc' \in {"hacm", "podsvc"} THEN ord' < snap'.spec.replicas ELSE ord' = 0
  BY NoCRType DEF TypeOK, Effect, Return, Goto, Stages
<1>4. budget' \in [Events -> Nat]
  BY SpendType DEF Effect, Events
<1> QED
  BY <1>2, <1>3, <1>4 DEF TypeOK, Effect

\* What the worker's facts say of the snapshot it works from.
LEMMA SnapType ==
  ASSUME TypeOK
  PROVE  /\ snap.spec \in SpecType /\ snap.spec.replicas \in Nat /\ snap.spec.cfg \in Nat
         /\ snap.spec.replicas <= MaxReplicas /\ snap.uid \in Nat /\ snap.gen \in Nat
         /\ snap.spec.svc \in BOOLEAN /\ snap.spec.stork \in BOOLEAN
BY ConstantsAssumption DEF TypeOK, CRType, SpecType

\* Every successor of a stage that is not a loop is a stage that is not a loop.
LEMMA StageType ==
  ASSUME NEW s \in SpecType
  PROVE  /\ {LastStage(s), MonitorStage(s), ServiceStage(s), AfterWorkload(s), AfterReady(s),
             AfterStorkService(s), WorkloadStage(s), AfterServiceAccount(s)}
              \subseteq Stages \ {"hacm", "podsvc"}
         /\ FirstStage(s) \in Stages \ {"podsvc"}
         /\ FirstStage(s) = "hacm" => s.replicas # 0
BY DEF LastStage, MonitorStage, ServiceStage, AfterWorkload, AfterReady, AfterStorkService,
       WorkloadStage, AfterServiceAccount, FirstStage, Stages

\* A status update, successful or not, keeps the types.
LEMMA StatusUpdateType ==
  ASSUME TypeOK, NEW new \in StatusType, NEW fails \in BOOLEAN,
         StatusUpdate(new, fails) \/ FailedStatusUpdate,
         UNCHANGED <<obj, cache, ready, pods>>, budget' \in [Events -> Nat]
  PROVE  TypeOK'
<1>1. cr' \in CRType /\ crCache' \in CRType
  BY DEF TypeOK, StatusUpdate, FailedStatusUpdate, StoreCR, CRType
<1>2. queued' \in BOOLEAN
  BY DEF TypeOK, StatusUpdate, FailedStatusUpdate
<1>3. /\ pc' = "idle" /\ ord' = 0 /\ seen' = 0 /\ snap' \in CRType
  BY NoCRType DEF StatusUpdate, FailedStatusUpdate, Return
<1> QED
  BY <1>1, <1>2, <1>3 DEF TypeOK, ObjectsOK

\* Every stage of Reconcile keeps the types.
LEMMA ReconcileType == ASSUME TypeOK, Reconcile PROVE TypeOK'
<1> DEFINE Plain == Stages \ {"hacm", "podsvc"}
           s == snap.spec
<1>1. \A o \in Objects : \A v \in Content(o), fatal \in BOOLEAN, stage \in Plain :
        reconcileResource(o, v, fatal, stage, 0) => TypeOK'
  <2> TAKE o \in Objects
  <2> TAKE v \in Content(o), fatal \in BOOLEAN, stage \in Plain
  <2> HAVE reconcileResource(o, v, fatal, stage, 0)
  <2>1. Effect(o, [owner |-> snap.uid, val |-> v], fatal, stage, 0)
    BY ReconcileResourceEffect
  <2> QED
    BY <2>1, EffectType
<1>2. \A i \in Nat : (pc \in {"hacm", "podsvc"} /\ i = ord) => i \in Ordinals
  BY SnapType, ConstantsAssumption DEF TypeOK, Ordinals
<1>3. /\ {"sa", "sts", "storksvc", "status"} \subseteq Plain
      /\ {LastStage(s), MonitorStage(s), AfterStorkService(s), AfterServiceAccount(s),
          AfterWorkload(s), WorkloadStage(s), AfterReady(s)} \subseteq Plain
  BY SnapType, StageType DEF Stages
<1>4. /\ s.cfg \in Content(CM) /\ \A i \in Ordinals : s.cfg \in Content(HACM(i))
      /\ \A o \in Objects \ Workloads : Built \in Content(o)
      /\ \A k \in Orders : Workload(s, k) \in Content(Deploy) /\ Workload(s, k) \in Content(STS)
  BY SnapType, BuiltType, ObjectNames, ConstantsAssumption DEF Content, Built, Workloads
<1> HIDE DEF Plain
<1>5. CASE BeginReconcile
  <2>1. crCache.spec \in SpecType /\ crCache.spec.replicas \in Nat
    BY ConstantsAssumption DEF TypeOK, CRType, SpecType
  <2>2. /\ FirstStage(crCache.spec) \in Stages \ {"podsvc"}
        /\ FirstStage(crCache.spec) = "hacm" => crCache.spec.replicas # 0
    BY <2>1, StageType
  <2>3. ord = 0 /\ pc = "idle"
    BY <1>5 DEF BeginReconcile, TypeOK
  <2>4. /\ pc' \in Stages \cup {"idle"} /\ snap' \in CRType /\ ord' = 0
        /\ pc' # "podsvc" /\ (pc' = "hacm" => 0 < snap'.spec.replicas)
    BY <1>5, <2>1, <2>2, <2>3 DEF BeginReconcile, TypeOK
  <2> QED
    BY <1>5, <2>4 DEF BeginReconcile, TypeOK, ObjectsOK
<1>6. CASE RenderError
  <2>1. [snap.status EXCEPT !.phase = "Error"] \in StatusType
    BY DEF TypeOK, CRType, StatusType
  <2>2. budget' \in [Events -> Nat]
    BY <1>6, SpendType DEF RenderError, Events
  <2>3. StatusUpdate([snap.status EXCEPT !.phase = "Error"], TRUE) \/ FailedStatusUpdate
    BY <1>6 DEF RenderError
  <2> HIDE DEF s
  <2> QED
    BY <1>6, <2>1, <2>2, <2>3, StatusUpdateType DEF RenderError
<1>7. CASE ReconcileConfigMap
  BY <1>7, <1>1, <1>3, <1>4, ObjectNames DEF ReconcileConfigMap
<1>8. CASE reconcileHAConfigs
  <2>1. ord \in Ordinals /\ ord \in Nat /\ HACM(ord) \in Objects
    BY <1>8, <1>2, ObjectNames DEF reconcileHAConfigs, TypeOK
  <2> DEFINE more == ord + 1 < s.replicas
             stage == IF more THEN "hacm" ELSE "sa"
             i == IF more THEN ord + 1 ELSE 0
  <2>2. /\ stage \in Stages /\ i \in Nat
        /\ IF stage \in {"hacm", "podsvc"} THEN i < s.replicas ELSE i = 0
    BY <2>1 DEF Stages
  <2>3. CASE s.cfg \in Unrenderable
    BY <1>8, <2>2, <2>3 DEF reconcileHAConfigs, Goto, TypeOK, ObjectsOK
  <2>4. CASE s.cfg \notin Unrenderable
    <3>1. reconcileResource(HACM(ord), s.cfg, FALSE, stage, i)
      BY <1>8, <2>4 DEF reconcileHAConfigs
    <3> HIDE DEF stage, i
    <3>2. Effect(HACM(ord), [owner |-> snap.uid, val |-> s.cfg], FALSE, stage, i)
      BY <2>1, <3>1, ReconcileResourceEffect
    <3> QED
      BY <1>4, <2>1, <2>2, <3>2, EffectType
  <2> QED
    BY <2>3, <2>4
<1>9. CASE ReconcileServiceAccount
  BY <1>9, <1>1, <1>3, <1>4, ObjectNames DEF ReconcileServiceAccount
<1>10. CASE ensureSCCRoleBinding
  <2> DEFINE w == [owner |-> 0, val |-> Built]
  <2>1. w \in ObjectType(RB) /\ w.val # None
    BY ObjectNames, ConstantsAssumption DEF ObjectType, Content, Built
  <2>2. budget' \in [Events -> Nat]
    BY <1>10, SpendType DEF ensureSCCRoleBinding, Events
  <2>3. /\ ObjectsOK(obj)' /\ ObjectsOK(cache)' /\ queued' \in BOOLEAN
        /\ Goto(WorkloadStage(s), 0) /\ UNCHANGED <<cr, crCache, ready, pods>>
    BY <1>10, <2>1, ObjectNames
       DEF ensureSCCRoleBinding, Call, CacheAfter, ObjectsOK, TypeOK, Notified, Watched
  <2> QED
    BY <1>3, <2>2, <2>3 DEF Goto, TypeOK, Plain
<1>11. CASE ReconcileHeadlessService
  <2> DEFINE stage == IF s.replicas = 0 THEN "sts" ELSE "podsvc"
  <2>1. Effect(HL, [owner |-> snap.uid, val |-> Built], TRUE, stage, 0)
    BY <1>11, ReconcileResourceEffect, ObjectNames DEF ReconcileHeadlessService
  <2>2. stage \in Stages /\ IF stage \in {"hacm", "podsvc"} THEN 0 < s.replicas ELSE 0 = 0
    BY SnapType DEF Stages
  <2> HIDE DEF stage
  <2> QED
    BY <1>4, <2>1, <2>2, EffectType, ObjectNames
<1>12. CASE ReconcilePerPodService
  <2>1. ord \in Ordinals /\ ord \in Nat /\ PodSvc(ord) \in Objects \ Workloads
    BY <1>12, <1>2, ObjectNames DEF ReconcilePerPodService, TypeOK
  <2> DEFINE more == ord + 1 < s.replicas
             stage == IF more THEN "podsvc" ELSE "sts"
             i == IF more THEN ord + 1 ELSE 0
  <2>2. /\ stage \in Stages /\ i \in Nat
        /\ IF stage \in {"hacm", "podsvc"} THEN i < s.replicas ELSE i = 0
    BY <2>1 DEF Stages
  <2>3. Effect(PodSvc(ord), [owner |-> snap.uid, val |-> Built], TRUE, stage, i)
    BY <1>12, <2>1, ReconcileResourceEffect DEF ReconcilePerPodService
  <2> HIDE DEF stage, i
  <2> QED
    BY <1>4, <2>1, <2>2, <2>3, EffectType
<1>13. CASE RejectPeers
  BY <1>13, NoCRType DEF RejectPeers, Return, TypeOK, ObjectsOK
<1>14. CASE ReconcileStatefulSet
  BY <1>14, <1>1, <1>3, <1>4, ObjectNames DEF ReconcileStatefulSet
<1>15. CASE ReconcileDeployment
  <2>1. FixedOrder \in Orders
    BY ConstantsAssumption DEF FixedOrder
  <2> QED
    BY <1>15, <1>1, <1>3, <1>4, <2>1, ObjectNames DEF ReconcileDeployment
<1>16. CASE ReadReadyReplicas
  <2>1. seen' \in Nat /\ pc' \in Plain
    BY <1>16, <1>3 DEF ReadReadyReplicas, TypeOK, WorkloadOf, Workloads
  <2>2. ord = 0
    BY <1>16 DEF ReadReadyReplicas, TypeOK
  <2> QED
    BY <1>16, <2>1, <2>2 DEF ReadReadyReplicas, TypeOK, ObjectsOK, Plain
<1>17. CASE ReconcileService
  BY <1>17, <1>1, <1>3, <1>4, ObjectNames DEF ReconcileService
<1>18. CASE ReconcilePodMonitor
  BY <1>18, <1>1, <1>3, <1>4, ObjectNames DEF ReconcilePodMonitor
<1>19. CASE ReconcileStorkService
  BY <1>19, <1>1, <1>3, <1>4, ObjectNames DEF ReconcileStorkService
<1>20. CASE ReconcileStorkRoute
  BY <1>20, <1>1, <1>3, <1>4, ObjectNames DEF ReconcileStorkRoute
<1>21. CASE UpdateStatus
  <2>1. NewStatus \in StatusType
    BY SnapType, BuiltType DEF NewStatus, StatusType, TypeOK
  <2>2. budget' \in [Events -> Nat]
    BY <1>21, SpendType DEF UpdateStatus, Events
  <2> QED
    BY <1>21, <2>1, <2>2, StatusUpdateType DEF UpdateStatus
<1> QED
  BY <1>5, <1>6, <1>7, <1>8, <1>9, <1>10, <1>11, <1>12, <1>13, <1>14, <1>15, <1>16, <1>17,
     <1>18, <1>19, <1>20, <1>21 DEF Reconcile

\* So do the informers, a restart and the users.
LEMMA EnvironmentType ==
  ASSUME TypeOK, Informers \/ Users \/ Restart
  PROVE  TypeOK'
<1>1. CASE SyncCR
  BY <1>1 DEF SyncCR, worker, cluster, TypeOK, ObjectsOK
<1>2. CASE \E o \in Objects : SyncObject(o)
  <2>1. PICK o \in Objects : SyncObject(o)
    BY <1>2
  <2>2. ObjectsOK(cache)' /\ queued' \in BOOLEAN
    BY <2>1 DEF SyncObject, TypeOK, ObjectsOK, Watched
  <2> QED
    BY <2>1, <2>2 DEF SyncObject, worker, cluster, TypeOK, ObjectsOK
<1>3. CASE Restart
  <2>1. budget' \in [Events -> Nat]
    BY <1>3, SpendType DEF Restart, Events
  <2> QED
    BY <1>3, <2>1, NoCRType DEF Restart, Return, cluster, TypeOK, ObjectsOK
<1>4. ASSUME NEW new \in CRType, UserChange(new), budget' \in [Events -> Nat]
      PROVE  TypeOK'
  BY <1>4 DEF UserChange, StoreCR, worker, cluster, TypeOK, ObjectsOK
<1>5. CASE CreateResource
  <2>1. PICK s \in Specs : UserChange([live |-> TRUE, uid |-> cr.uid + 1, gen |-> 1,
                                       spec |-> s, status |-> NoStatus])
    BY <1>5 DEF CreateResource
  <2>2. [live |-> TRUE, uid |-> cr.uid + 1, gen |-> 1, spec |-> s, status |-> NoStatus] \in CRType
    BY NoCRType, ConstantsAssumption DEF TypeOK, CRType
  <2>3. budget' \in [Events -> Nat]
    BY <1>5, SpendType DEF CreateResource, Events
  <2> QED
    BY <1>4, <2>1, <2>2, <2>3
<1>6. CASE EditSpec
  <2>1. PICK s \in Specs : UserChange([cr EXCEPT !.gen = @ + 1, !.spec = s])
    BY <1>6 DEF EditSpec
  <2>2. [cr EXCEPT !.gen = @ + 1, !.spec = s] \in CRType
    <3>1. cr \in CRType /\ s \in SpecType
      BY ConstantsAssumption DEF TypeOK
    <3>2. [cr EXCEPT !.gen = @ + 1] \in CRType
      BY <3>1 DEF CRType
    <3>3. [[cr EXCEPT !.gen = @ + 1] EXCEPT !.spec = s] \in CRType
      BY <3>1, <3>2 DEF CRType
    <3> QED
      BY <3>3
  <2>3. budget' \in [Events -> Nat]
    BY <1>6, SpendType DEF EditSpec, Events
  <2> QED
    BY <1>4, <2>1, <2>2, <2>3
<1>7. CASE DeleteResource
  <2>1. [cr EXCEPT !.live = FALSE] \in CRType
    BY DEF TypeOK, CRType
  <2>2. budget' \in [Events -> Nat]
    BY <1>7, SpendType DEF DeleteResource, Events
  <2> QED
    BY <1>4, <1>7, <2>1, <2>2 DEF DeleteResource
<1> QED
  BY <1>1, <1>2, <1>3, <1>5, <1>6, <1>7 DEF Informers, Users

\* And Kubernetes: collection, deletion by hand, and the life of the pods.
LEMMA ClusterType ==
  ASSUME TypeOK, Cluster \/ (\E o \in Objects : Tamper(o))
                         \/ (\E w \in Workloads, i \in Ordinals : LosePod(w, i) \/ RestartContainer(w, i))
  PROVE  TypeOK'
<1>1. ASSUME NEW o \in Objects, Remove(o), budget' \in [Events -> Nat]
      PROVE  TypeOK'
  <2>1. Absent \in ObjectType(o)
    BY DEF Absent, ObjectType
  <2>2. ObjectsOK(obj)' /\ ObjectsOK(cache)'
    BY <1>1, <2>1 DEF Remove, CacheAfter, TypeOK, ObjectsOK
  <2>3. queued' \in BOOLEAN /\ ready' \in [Workloads -> Nat]
    BY <1>1 DEF Remove, Notified, Watched, TypeOK
  <2> QED
    BY <1>1, <2>2, <2>3 DEF Remove, worker, TypeOK
<1>2. CASE \E o \in Objects : GarbageCollect(o)
  <2>1. PICK o \in Objects : Remove(o) /\ UNCHANGED budget
    BY <1>2 DEF GarbageCollect
  <2> QED
    BY <1>1, <2>1 DEF TypeOK
<1>3. CASE \E o \in Objects : Tamper(o)
  <2>1. PICK o \in Objects : Remove(o) /\ Spend("tamper")
    BY <1>3 DEF Tamper
  <2>2. budget' \in [Events -> Nat]
    BY <2>1, SpendType DEF Events
  <2> QED
    BY <1>1, <2>1, <2>2
<1>4. ASSUME NEW w \in Workloads, NEW i \in Ordinals, NEW p \in PodType,
             pods' = [pods EXCEPT ![w][i] = p], budget' \in [Events -> Nat],
             UNCHANGED <<cr, crCache, obj, cache, queued, worker, ready>>
      PROVE  TypeOK'
  BY <1>4 DEF TypeOK, ObjectsOK, worker
<1>5. NoPod \in PodType
  BY DEF NoPod, PodType
<1>6. ASSUME NEW w \in Workloads, NEW i \in Ordinals, StartPod(w, i)
      PROVE  TypeOK'
  <2>1. obj[w].val \in WorkloadType /\ obj[w].val # None
    BY <1>6 DEF StartPod, Present, TypeOK, ObjectsOK, ObjectType, Content, Workloads, Objects
  <2>2. ConfigMapOf(w, i) \in Objects \ Workloads
    BY ObjectNames DEF ConfigMapOf
  <2>3. ConfigMapOf(w, i) \in Mounted(w)
    <3>1. i \in 0 .. (obj[w].val.n - 1)
      BY <1>6, <2>1, ConstantsAssumption DEF StartPod, WorkloadType, Ordinals
    <3> QED
      BY <3>1 DEF ConfigMapOf, Mounted
  <2>4. obj[ConfigMapOf(w, i)].val \in Nat
    BY <1>6, <2>2, <2>3 DEF StartPod, Present, TypeOK, ObjectsOK, ObjectType, Content
  <2>5. [tpl |-> obj[w].val.tpl, ready |-> FALSE, cfg |-> obj[ConfigMapOf(w, i)].val] \in PodType
    BY <2>1, <2>4 DEF PodType, WorkloadType
  <2> QED
    BY <1>4, <1>6, <2>5 DEF StartPod, TypeOK
<1>7. ASSUME NEW w \in Workloads, NEW i \in Ordinals, PodReady(w, i)
      PROVE  TypeOK'
  <2>1. pods' = [pods EXCEPT ![w][i] = [pods[w][i] EXCEPT !.ready = TRUE]]
    BY <1>7, Zenon DEF PodReady
  <2>2. pods[w][i] \in PodType
    BY DEF TypeOK
  <2>3. [pods[w][i] EXCEPT !.ready = TRUE] \in PodType
    BY <2>2 DEF PodType
  <2> QED
    BY <1>4, <1>7, <2>1, <2>3 DEF PodReady, TypeOK
<1>8. ASSUME NEW w \in Workloads, NEW i \in Ordinals, StopPod(w, i) \/ LosePod(w, i)
      PROVE  TypeOK'
  <2>1. budget' \in [Events -> Nat]
    BY <1>8, SpendType DEF StopPod, LosePod, TypeOK, Events
  <2> QED
    BY <1>4, <1>5, <1>8, <2>1 DEF StopPod, LosePod
<1>10. ASSUME NEW w \in Workloads, NEW i \in Ordinals, RestartContainer(w, i)
      PROVE  TypeOK'
  <2>1. PICK c \in {pods[w][i].cfg} \cup (IF w = Deploy /\ Present(CM) THEN {obj[CM].val} ELSE {}) :
          pods' = [pods EXCEPT ![w][i] = [tpl |-> pods[w][i].tpl, cfg |-> c, ready |-> FALSE]]
    BY <1>10 DEF RestartContainer
  <2>2. pods[w][i] \in PodType
    BY DEF TypeOK
  <2>3. c \in Nat
    BY <2>1, <2>2, ObjectNames DEF PodType, Present, TypeOK, ObjectsOK, ObjectType, Content
  <2>4. [tpl |-> pods[w][i].tpl, cfg |-> c, ready |-> FALSE] \in PodType
    BY <2>2, <2>3 DEF PodType
  <2>5. budget' \in [Events -> Nat]
    BY <1>10, SpendType DEF RestartContainer, Events
  <2> QED
    BY <1>4, <1>10, <2>1, <2>4, <2>5 DEF RestartContainer
<1>9. ASSUME NEW w \in Workloads, PublishReady(w)
      PROVE  TypeOK'
  BY <1>9, ReadyPodsType DEF PublishReady, worker, TypeOK, ObjectsOK
<1> QED
  BY <1>2, <1>3, <1>6, <1>7, <1>8, <1>9, <1>10 DEF Cluster, RunPods

\* The types hold initially.
LEMMA InitType == Init => TypeOK
<1> SUFFICES ASSUME Init PROVE TypeOK
  OBVIOUS
<1>1. \A o \in Objects : Absent \in ObjectType(o)
  BY DEF Absent, ObjectType
<1>2. NoPod \in PodType
  BY DEF NoPod, PodType
<1>3. ObjectsOK(obj) /\ ObjectsOK(cache)
  BY <1>1 DEF Init, ObjectsOK
<1> QED
  BY <1>2, <1>3, NoCRType, ConstantsAssumption DEF Init, TypeOK

\* Every step keeps the types.
LEMMA NextType == TypeOK /\ [Next]_vars => TypeOK'
<1> SUFFICES ASSUME TypeOK, [Next]_vars PROVE TypeOK'
  OBVIOUS
<1>1. CASE Next
  BY <1>1, ReconcileType, EnvironmentType, ClusterType DEF Next, Failures
<1>2. CASE UNCHANGED vars
  BY <1>2 DEF vars, TypeOK, ObjectsOK
<1> QED
  BY <1>1, <1>2

\* The API server, the caches, the worker and the pods are always well typed:
\* whatever the interleaving, no stage runs past the ordinals of the snapshot it
\* works from, and no object is half written.
THEOREM TypeCorrect == Spec => []TypeOK
BY InitType, NextType, PTL DEF Spec

----------------------------------------------------------------------------
\* The configuration a Deployment pod runs
\*
\* DeploymentPodsRunHashedConfig is not inductive: it says nothing of the
\* ConfigMap and the template a pod starts from. ConfigInv orders the numbers of
\* the configurations found along the way, from the pods back to the resource.

\* What the worker, or the next reconcile, is bound to write at most.
Horizon == IF pc = "idle" THEN crCache.spec.cfg ELSE snap.spec.cfg

\* Copies of the resource are behind the resource.
CopiesBehind ==
  /\ snap.spec.cfg <= crCache.spec.cfg /\ crCache.spec.cfg <= cr.spec.cfg
  /\ cr.uid = 0 => ~cr.live /\ cr.spec.cfg = 0

\* The worker's stage fits the mode of its snapshot.
StageFitsMode ==
  /\ pc = "deploy" => ~HAEnabled(snap.spec)
  /\ pc = "hacm" => HAEnabled(snap.spec)

\* Nothing in the API server is ahead of the Horizon, and the cached ConfigMap is
\* behind the stored one.
ObjectsBehind ==
  /\ Present(CM) => obj[CM].val <= Horizon
  /\ Present(CM) /\ cache[CM] # Absent => cache[CM].val <= obj[CM].val
  /\ Present(Deploy) => /\ ~obj[Deploy].val.tpl.hash.ha
                        /\ obj[Deploy].val.tpl.hash.cfg <= Horizon

\* The ConfigMap is written before the template that names its hash.
TemplateBehindConfigMap ==
  /\ Present(CM) /\ Present(Deploy) => obj[Deploy].val.tpl.hash.cfg <= obj[CM].val
  /\ (pc \notin {"idle", "cm", "hacm"} /\ ~HAEnabled(snap.spec) /\ Present(CM))
       => obj[CM].val = snap.spec.cfg

\* A pod has loaded a configuration between the one its template names and the
\* one the resource asks for, and would load such a one if it started again.
PodsBetween ==
  \A i \in Ordinals : pods[Deploy][i] # NoPod =>
    /\ pods[Deploy][i].tpl \in TemplateType /\ ~pods[Deploy][i].tpl.hash.ha
    /\ pods[Deploy][i].tpl.hash.cfg <= Horizon
    /\ Present(CM) => pods[Deploy][i].tpl.hash.cfg <= obj[CM].val
    /\ pods[Deploy][i].tpl.hash.cfg <= pods[Deploy][i].cfg
    /\ pods[Deploy][i].cfg <= cr.spec.cfg

ConfigInv ==
  /\ TypeOK /\ CopiesBehind /\ StageFitsMode /\ ObjectsBehind
  /\ TemplateBehindConfigMap /\ PodsBetween

\* The numbers that ConfigInv compares are numbers.
LEMMA ConfigNumbers ==
  ASSUME TypeOK
  PROVE  /\ cr.spec.cfg \in Nat /\ crCache.spec.cfg \in Nat /\ snap.spec.cfg \in Nat
         /\ Present(CM) => obj[CM].val \in Nat
         /\ cache[CM] # Absent => cache[CM].val \in Nat
         /\ Present(Deploy) => /\ obj[Deploy].val \in WorkloadType
                               /\ obj[Deploy].val.tpl \in TemplateType
                               /\ obj[Deploy].val.tpl.hash \in HashType
                               /\ obj[Deploy].val.tpl.hash.cfg \in Nat
<1>1. obj[CM] \in ObjectType(CM) /\ cache[CM] \in ObjectType(CM) /\ obj[Deploy] \in ObjectType(Deploy)
  BY ObjectNames DEF TypeOK, ObjectsOK
<1>2. /\ Present(CM) => obj[CM].val # None
      /\ cache[CM] # Absent => cache[CM].val # None
      /\ Present(Deploy) => obj[Deploy].val # None
  BY ObjectNames DEF TypeOK, ObjectsOK, Present
<1>3. cr.spec.cfg \in Nat /\ crCache.spec.cfg \in Nat /\ snap.spec.cfg \in Nat
  BY DEF TypeOK, CRType, SpecType
<1>4. Present(CM) => obj[CM].val \in Nat
  BY <1>1, <1>2, ObjectNames DEF ObjectType, Content
<1>5. cache[CM] # Absent => cache[CM].val \in Nat
  BY <1>1, <1>2, ObjectNames DEF ObjectType, Content
<1>6. Present(Deploy) => obj[Deploy].val \in WorkloadType
  BY <1>1, <1>2 DEF ObjectType, Content, Workloads
<1> QED
  BY <1>3, <1>4, <1>5, <1>6 DEF WorkloadType, TemplateType, HashType

\* ConfigInv implies the property.
LEMMA ConfigInvImplies == ConfigInv => DeploymentPodsRunHashedConfig
<1> SUFFICES ASSUME ConfigInv, NEW i \in Ordinals, pods[Deploy][i] # NoPod,
                    pods[Deploy][i].tpl.hash = ConfigHash(cr.spec)
             PROVE  pods[Deploy][i].cfg = cr.spec.cfg
  BY DEF DeploymentPodsRunHashedConfig, PodRunsHashedConfig
<1>1. /\ ~ConfigHash(cr.spec).ha /\ ConfigHash(cr.spec).cfg <= pods[Deploy][i].cfg
      /\ pods[Deploy][i].cfg <= cr.spec.cfg
  BY DEF ConfigInv, PodsBetween
<1>2. ConfigHash(cr.spec).cfg = cr.spec.cfg
  BY <1>1 DEF ConfigHash
<1>3. cr.spec.cfg \in Nat /\ pods[Deploy][i].cfg \in Nat
  BY ConfigNumbers, ObjectNames DEF ConfigInv, TypeOK, PodType, Workloads
<1> QED
  BY <1>1, <1>2, <1>3

\* What a step that leaves the pods alone must show: the Horizon does not move
\* back, and a new ConfigMap holds the configuration of the Horizon.
LEMMA PodsKept ==
  ASSUME ConfigInv, TypeOK', pods' = pods, cr.spec.cfg <= cr'.spec.cfg, Horizon <= Horizon',
         Present(CM)' => \/ Present(CM) /\ obj'[CM] = obj[CM]
                         \/ obj'[CM].val = Horizon
  PROVE  PodsBetween'
<1> SUFFICES ASSUME NEW i \in Ordinals, pods[Deploy][i] # NoPod
             PROVE  /\ pods[Deploy][i].tpl \in TemplateType /\ ~pods[Deploy][i].tpl.hash.ha
                    /\ pods[Deploy][i].tpl.hash.cfg <= Horizon'
                    /\ Present(CM)' => pods[Deploy][i].tpl.hash.cfg <= obj'[CM].val
                    /\ pods[Deploy][i].tpl.hash.cfg <= pods[Deploy][i].cfg
                    /\ pods[Deploy][i].cfg <= cr'.spec.cfg
  BY DEF PodsBetween
<1>1. cr'.spec.cfg \in Nat /\ Horizon \in Nat /\ Horizon' \in Nat
  BY ConfigNumbers DEF ConfigInv, TypeOK, CRType, SpecType, Horizon
<1>2. pods[Deploy][i].cfg \in Nat
  BY DEF ConfigInv, TypeOK, PodType, Workloads
<1>3. pods[Deploy][i].tpl.hash.cfg \in Nat
  BY DEF ConfigInv, PodsBetween, TemplateType, HashType
<1> QED
  BY <1>1, <1>2, <1>3, ConfigNumbers DEF ConfigInv, PodsBetween

\* A step of the worker that touches neither the ConfigMap nor the Deployment,
\* and either ends the reconcile or goes on to a later stage.
Elsewhere ==
  /\ pc \notin {"idle", "cm"}
  /\ obj'[CM] = obj[CM] /\ obj'[Deploy] = obj[Deploy] /\ cache'[CM] = cache[CM]
  /\ \/ Return
     \/ /\ snap' = snap /\ pc' \notin {"idle", "cm"}
        /\ pc' = "deploy" => ~HAEnabled(snap.spec)
        /\ pc' = "hacm" => HAEnabled(snap.spec)
  /\ pods' = pods
  /\ cr'.uid = cr.uid /\ cr'.live = cr.live /\ cr'.spec = cr.spec
  /\ crCache'.spec = crCache.spec \/ crCache'.spec = cr.spec

\* Such a step keeps ConfigInv.
LEMMA ElsewhereConfig ==
  ASSUME ConfigInv, TypeOK', Elsewhere
  PROVE  ConfigInv'
<1> USE ConfigNumbers DEF ConfigInv
<1>1. CopiesBehind'
  BY NoCRType DEF CopiesBehind, Elsewhere, Return
<1>2. StageFitsMode'
  BY DEF StageFitsMode, Elsewhere, Return
<1>3. ObjectsBehind'
  BY DEF ObjectsBehind, CopiesBehind, Horizon, Present, Elsewhere, Return
<1>4. TemplateBehindConfigMap'
  BY DEF TemplateBehindConfigMap, StageFitsMode, Present, Elsewhere, Return
<1>5. Horizon <= Horizon'
  BY DEF CopiesBehind, Horizon, Elsewhere, Return
<1>6. PodsBetween'
  BY <1>5, PodsKept DEF Elsewhere, Present
<1> QED
  BY <1>1, <1>2, <1>3, <1>4, <1>6

\* The stage that writes the ConfigMap.
LEMMA ConfigMapConfig ==
  ASSUME ConfigInv, TypeOK', ReconcileConfigMap
  PROVE  ConfigInv'
<1> DEFINE w == [owner |-> snap.uid, val |-> snap.spec.cfg]
<1> USE ConfigNumbers DEF ConfigInv
<1>1. pc = "cm" /\ Effect(CM, w, TRUE, "sa", 0)
  BY ReconcileResourceEffect, ObjectNames DEF ReconcileConfigMap
<1>2. CM \in Objects /\ Deploy \in Objects /\ CM # Deploy /\ CM # Route
  BY ObjectNames DEF CM, Deploy, Route, Workloads
<1>3. Got(CM) = cache[CM] /\ w # Absent
  BY <1>2, ConstantsAssumption DEF Got, Absent
<1> HIDE DEF w
<1>4. /\ obj = [x \in Objects |-> obj[x]] /\ cache = [x \in Objects |-> cache[x]]
  BY DEF TypeOK, ObjectsOK
<1>5. /\ obj'[Deploy] = obj[Deploy]
      /\ \/ obj'[CM] = obj[CM] /\ cache'[CM] = cache[CM]
         \/ obj'[CM] = w /\ cache[CM] = obj[CM] /\ cache'[CM] \in {w, cache[CM]}
  BY <1>1, <1>2, <1>3, <1>4 DEF Effect
<1>6. w.val = snap.spec.cfg
  BY DEF w
<1>7. \/ pc' = "idle" /\ snap' = NoCR
      \/ pc' = "sa" /\ snap' = snap /\ (obj'[CM] = w \/ cache[CM] = w)
  BY <1>1, <1>3 DEF Effect, Return, Goto
<1>8. cr' = cr /\ crCache' = crCache /\ pods' = pods
  BY <1>1 DEF Effect
<1>9. CopiesBehind'
  BY <1>7, <1>8, NoCRType DEF CopiesBehind
<1>10. StageFitsMode'
  BY <1>7 DEF StageFitsMode
<1>11. ObjectsBehind'
  BY <1>1, <1>5, <1>6, <1>7, <1>8 DEF ObjectsBehind, CopiesBehind, Horizon, Present
<1>12. TemplateBehindConfigMap'
  BY <1>1, <1>3, <1>5, <1>6, <1>7, <1>8
     DEF TemplateBehindConfigMap, ObjectsBehind, Horizon, Present
<1>13. Horizon = snap.spec.cfg /\ Horizon <= Horizon'
  BY <1>1, <1>7, <1>8 DEF CopiesBehind, Horizon
<1>14. PodsBetween'
  BY <1>5, <1>6, <1>8, <1>13, PodsKept DEF Present
<1> QED
  BY <1>9, <1>10, <1>11, <1>12, <1>14

\* The stage that writes the Deployment.
LEMMA DeploymentConfig ==
  ASSUME ConfigInv, TypeOK', ReconcileDeployment
  PROVE  ConfigInv'
<1> DEFINE w == [owner |-> snap.uid, val |-> Workload(snap.spec, FixedOrder)]
<1> USE ConfigNumbers DEF ConfigInv
<1>1. pc = "deploy" /\ Effect(Deploy, w, TRUE, AfterWorkload(snap.spec), 0)
  BY ReconcileResourceEffect, ObjectNames DEF ReconcileDeployment
<1>2. CM \in Objects /\ Deploy \in Objects /\ CM # Deploy
  BY ObjectNames DEF CM, Deploy, Workloads
<1>3. ~HAEnabled(snap.spec)
  BY <1>1 DEF StageFitsMode
<1>4. ~w.val.tpl.hash.ha /\ w.val.tpl.hash.cfg = snap.spec.cfg
  BY <1>3 DEF Workload, PodTemplate, ConfigHash
<1> HIDE DEF w
<1>5. /\ obj = [x \in Objects |-> obj[x]] /\ cache = [x \in Objects |-> cache[x]]
  BY DEF TypeOK, ObjectsOK
<1>6. /\ obj'[CM] = obj[CM] /\ cache'[CM] = cache[CM]
      /\ obj'[Deploy] \in {w, obj[Deploy]}
  BY <1>1, <1>2, <1>5 DEF Effect
<1>7. AfterWorkload(snap.spec) \notin {"idle", "cm", "hacm", "deploy"}
  BY DEF AfterWorkload, ServiceStage, MonitorStage, LastStage
<1>8. \/ pc' = "idle" /\ snap' = NoCR
      \/ pc' \notin {"idle", "cm", "hacm", "deploy"} /\ snap' = snap
  BY <1>1, <1>7 DEF Effect, Return, Goto
<1>9. cr' = cr /\ crCache' = crCache /\ pods' = pods
  BY <1>1 DEF Effect
<1>10. CopiesBehind'
  BY <1>8, <1>9, NoCRType DEF CopiesBehind
<1>11. StageFitsMode'
  BY <1>8 DEF StageFitsMode
<1>12. ObjectsBehind'
  BY <1>1, <1>4, <1>6, <1>8, <1>9 DEF ObjectsBehind, CopiesBehind, Horizon, Present
<1>13. TemplateBehindConfigMap'
  BY <1>1, <1>3, <1>4, <1>6, <1>8, <1>9 DEF TemplateBehindConfigMap, Present
<1>14. Horizon <= Horizon'
  BY <1>1, <1>8, <1>9 DEF CopiesBehind, Horizon
<1>15. PodsBetween'
  BY <1>6, <1>9, <1>14, PodsKept DEF Present
<1> QED
  BY <1>10, <1>11, <1>12, <1>13, <1>15

\* Where the other stages lead.
LEMMA StageOrder ==
  ASSUME NEW s
  PROVE  /\ {LastStage(s), MonitorStage(s), AfterStorkService(s), AfterReady(s), AfterWorkload(s)}
              \cap {"idle", "cm", "hacm", "deploy"} = {}
         /\ {WorkloadStage(s), AfterServiceAccount(s)} \cap {"idle", "cm", "hacm"} = {}
         /\ "deploy" \in {WorkloadStage(s), AfterServiceAccount(s)} => ~HAEnabled(s)
BY DEF LastStage, MonitorStage, ServiceStage, AfterWorkload, AfterReady, AfterStorkService,
       WorkloadStage, AfterServiceAccount

\* Every other stage works elsewhere.
LEMMA OtherStages ==
  ASSUME ConfigInv, Reconcile,
         ~BeginReconcile, ~RenderError, ~ReconcileConfigMap, ~ReconcileDeployment
  PROVE  Elsewhere
<1> USE DEF ConfigInv
<1>0. /\ obj = [x \in Objects |-> obj[x]] /\ cache = [x \in Objects |-> cache[x]]
      /\ CM \in Objects /\ Deploy \in Objects
  BY ObjectNames DEF TypeOK, ObjectsOK
<1>1. ASSUME NEW o \in Objects \ {CM, Deploy}, NEW v, NEW fatal \in BOOLEAN, NEW stage, NEW i,
             pc \notin {"idle", "cm"}, stage \notin {"idle", "cm"},
             stage = "deploy" => ~HAEnabled(snap.spec),
             stage = "hacm" => HAEnabled(snap.spec),
             reconcileResource(o, v, fatal, stage, i)
      PROVE  Elsewhere
  <2>1. Effect(o, [owner |-> snap.uid, val |-> v], fatal, stage, i)
    BY <1>1, ReconcileResourceEffect
  <2>2. obj'[CM] = obj[CM] /\ obj'[Deploy] = obj[Deploy] /\ cache'[CM] = cache[CM]
    BY <1>0, <1>1, <2>1 DEF Effect
  <2> QED
    BY <1>1, <2>1, <2>2 DEF Effect, Elsewhere, Goto
<1>2. {SA, RB, HL, STS, Svc, PM, StorkSvc, Route} \cap {CM, Deploy} = {}
  BY DEF SA, RB, HL, STS, Svc, PM, StorkSvc, Route, CM, Deploy
<1>3. \A i \in Ordinals : HACM(i) \notin {CM, Deploy} /\ PodSvc(i) \notin {CM, Deploy}
  BY DEF HACM, PodSvc, CM, Deploy
<1>4. pc \in {"hacm", "podsvc"} => ord \in Ordinals
  BY SnapType, ConstantsAssumption DEF TypeOK, Ordinals
<1>5. CASE reconcileHAConfigs
  <2>1. pc = "hacm" /\ HAEnabled(snap.spec) /\ HACM(ord) \in Objects \ {CM, Deploy}
    BY <1>3, <1>4, <1>5, ObjectNames DEF reconcileHAConfigs, StageFitsMode
  <2>2. CASE snap.spec.cfg \in Unrenderable
    BY <1>5, <2>1, <2>2 DEF reconcileHAConfigs, Goto, Elsewhere
  <2>3. CASE snap.spec.cfg \notin Unrenderable
    <3> DEFINE more == ord + 1 < snap.spec.replicas
               stage == IF more THEN "hacm" ELSE "sa"
               i == IF more THEN ord + 1 ELSE 0
    <3>1. reconcileResource(HACM(ord), snap.spec.cfg, FALSE, stage, i)
      BY <1>5, <2>3 DEF reconcileHAConfigs
    <3>2. stage \in {"hacm", "sa"}
      OBVIOUS
    <3> HIDE DEF stage, i
    <3> QED
      BY <1>1, <2>1, <3>1, <3>2
  <2> QED
    BY <2>2, <2>3
<1>6. CASE ReconcileServiceAccount
  BY <1>1, <1>2, <1>6, ObjectNames, StageOrder DEF ReconcileServiceAccount
<1>7. CASE ensureSCCRoleBinding
  <2>1. /\ pc = "rb" /\ Goto(WorkloadStage(snap.spec), 0)
        /\ UNCHANGED <<cr, crCache, ready, pods>>
    BY <1>7 DEF ensureSCCRoleBinding, Call
  <2>2. obj'[CM] = obj[CM] /\ obj'[Deploy] = obj[Deploy] /\ cache'[CM] = cache[CM]
    BY <1>0, <1>2, <1>7 DEF ensureSCCRoleBinding, Call, CacheAfter
  <2> QED
    BY <2>1, <2>2, StageOrder DEF Goto, Elsewhere
<1>8. CASE ReconcileHeadlessService
  BY <1>1, <1>2, <1>8, ObjectNames DEF ReconcileHeadlessService
<1>9. CASE ReconcilePerPodService
  <2>1. pc = "podsvc" /\ PodSvc(ord) \in Objects \ {CM, Deploy}
    BY <1>3, <1>4, <1>9, ObjectNames DEF ReconcilePerPodService
  <2> DEFINE more == ord + 1 < snap.spec.replicas
             stage == IF more THEN "podsvc" ELSE "sts"
             i == IF more THEN ord + 1 ELSE 0
  <2>2. reconcileResource(PodSvc(ord), Built, TRUE, stage, i)
    BY <1>9 DEF ReconcilePerPodService
  <2>3. stage \in {"podsvc", "sts"}
    OBVIOUS
  <2> HIDE DEF stage, i
  <2> QED
    BY <1>1, <2>1, <2>2, <2>3
<1>10. CASE RejectPeers
  BY <1>10 DEF RejectPeers, Elsewhere
<1>11. CASE ReconcileStatefulSet
  BY <1>1, <1>2, <1>11, ObjectNames, StageOrder DEF ReconcileStatefulSet
<1>12. CASE ReadReadyReplicas
  BY <1>12, StageOrder DEF ReadReadyReplicas, Elsewhere
<1>13. CASE ReconcileService
  BY <1>1, <1>2, <1>13, ObjectNames, StageOrder DEF ReconcileService
<1>14. CASE ReconcilePodMonitor
  BY <1>1, <1>2, <1>14, ObjectNames DEF ReconcilePodMonitor
<1>15. CASE ReconcileStorkService
  BY <1>1, <1>2, <1>15, ObjectNames, StageOrder DEF ReconcileStorkService
<1>16. CASE ReconcileStorkRoute
  BY <1>1, <1>2, <1>16, ObjectNames, StageOrder DEF ReconcileStorkRoute
<1>17. CASE UpdateStatus
  <2>1. pc = "status" /\ UNCHANGED <<obj, cache, pods>>
    BY <1>17 DEF UpdateStatus
  <2>2. Return /\ cr'.uid = cr.uid /\ cr'.live = cr.live /\ cr'.spec = cr.spec
        /\ (crCache'.spec = crCache.spec \/ crCache'.spec = cr.spec)
    BY <1>17 DEF UpdateStatus, StatusUpdate, FailedStatusUpdate, StoreCR, TypeOK, CRType
  <2> QED
    BY <2>1, <2>2 DEF Elsewhere
<1> QED
  BY <1>5, <1>6, <1>7, <1>8, <1>9, <1>10, <1>11, <1>12, <1>13, <1>14, <1>15, <1>16, <1>17
     DEF Reconcile

\* Taking a request, and the status of a configuration that cannot be rendered.
LEMMA EndsConfig ==
  ASSUME ConfigInv, TypeOK', BeginReconcile \/ RenderError
  PROVE  ConfigInv'
<1> USE ConfigNumbers DEF ConfigInv
<1>1. CASE BeginReconcile
  <2>1. /\ pc = "idle" /\ UNCHANGED <<cr, crCache, obj, cache, pods>>
        /\ \/ pc' = FirstStage(crCache.spec) /\ snap' = crCache
           \/ pc' = pc /\ snap' = snap
    BY <1>1 DEF BeginReconcile
  <2>2. /\ FirstStage(crCache.spec) \in {"cm", "sa", "hacm"}
        /\ FirstStage(crCache.spec) # "cm" => HAEnabled(crCache.spec)
    BY DEF FirstStage
  <2>3. CopiesBehind' /\ StageFitsMode'
    BY <2>1, <2>2 DEF CopiesBehind, StageFitsMode
  <2>4. ObjectsBehind'
    BY <2>1, <2>2 DEF ObjectsBehind, Horizon, Present
  <2>5. TemplateBehindConfigMap'
    BY <2>1, <2>2 DEF TemplateBehindConfigMap, Present
  <2>6. Horizon <= Horizon'
    BY <2>1, <2>2 DEF Horizon
  <2>7. PodsBetween'
    BY <2>1, <2>6, PodsKept DEF Present
  <2> QED
    BY <2>3, <2>4, <2>5, <2>7
<1>2. CASE RenderError
  <2>1. pc = "cm" /\ UNCHANGED <<obj, cache, pods>>
    BY <1>2 DEF RenderError
  <2>2. /\ pc' = "idle" /\ snap' = NoCR
        /\ cr'.uid = cr.uid /\ cr'.live = cr.live /\ cr'.spec = cr.spec
        /\ (crCache'.spec = crCache.spec \/ crCache'.spec = cr.spec)
    BY <1>2 DEF RenderError, StatusUpdate, FailedStatusUpdate, StoreCR, Return, TypeOK, CRType
  <2>3. CopiesBehind' /\ StageFitsMode'
    BY <2>1, <2>2, NoCRType DEF CopiesBehind, StageFitsMode
  <2>4. ObjectsBehind'
    BY <2>1, <2>2 DEF ObjectsBehind, CopiesBehind, Horizon, Present
  <2>5. TemplateBehindConfigMap'
    BY <2>1, <2>2 DEF TemplateBehindConfigMap, Present
  <2>6. Horizon <= Horizon'
    BY <2>1, <2>2 DEF CopiesBehind, Horizon
  <2>7. PodsBetween'
    BY <2>1, <2>2, <2>6, PodsKept DEF Present
  <2> QED
    BY <2>3, <2>4, <2>5, <2>7
<1> QED
  BY <1>1, <1>2

\* The informers, a restart and, if no user returns to an earlier configuration,
\* the users.
LEMMA EnvironmentConfig ==
  ASSUME ~Reverts, ConfigInv, TypeOK', Informers \/ Users \/ Restart
  PROVE  ConfigInv'
<1> USE ConfigNumbers DEF ConfigInv
<1>1. CASE SyncCR
  <2>1. crCache' = cr /\ UNCHANGED <<cr, obj, cache, pc, snap, pods>>
    BY <1>1 DEF SyncCR, worker, cluster
  <2>2. CopiesBehind' /\ StageFitsMode'
    BY <2>1 DEF CopiesBehind, StageFitsMode
  <2>3. ObjectsBehind'
    BY <2>1 DEF ObjectsBehind, CopiesBehind, Horizon, Present
  <2>4. Horizon <= Horizon'
    BY <2>1 DEF CopiesBehind, Horizon
  <2>5. PodsBetween'
    BY <2>1, <2>4, PodsKept DEF Present
  <2> QED
    BY <2>1, <2>2, <2>3, <2>5 DEF TemplateBehindConfigMap, Present
<1>2. CASE \E o \in Objects : SyncObject(o)
  <2>1. PICK o \in Objects : SyncObject(o)
    BY <1>2
  <2>2. /\ cache'[CM] \in {cache[CM], obj[CM]}
        /\ UNCHANGED <<cr, crCache, obj, pc, snap, pods>>
    BY <2>1, ObjectNames DEF SyncObject, worker, cluster, TypeOK, ObjectsOK
  <2>3. CopiesBehind' /\ StageFitsMode'
    BY <2>2 DEF CopiesBehind, StageFitsMode
  <2>4. ObjectsBehind'
    BY <2>2 DEF ObjectsBehind, Horizon, Present
  <2> QED
    BY <2>2, <2>3, <2>4 DEF TemplateBehindConfigMap, PodsBetween, Horizon, Present
<1>3. CASE Restart
  <2>1. /\ pc' = "idle" /\ snap' = NoCR /\ crCache' = cr /\ cache' = obj
        /\ UNCHANGED <<cr, obj, pods>>
    BY <1>3 DEF Restart, Return, cluster
  <2>2. CopiesBehind' /\ StageFitsMode'
    BY <2>1, NoCRType DEF CopiesBehind, StageFitsMode
  <2>3. ObjectsBehind'
    BY <2>1 DEF ObjectsBehind, CopiesBehind, Horizon, Present
  <2>4. Horizon <= Horizon'
    BY <2>1 DEF CopiesBehind, Horizon
  <2>5. PodsBetween'
    BY <2>1, <2>4, PodsKept DEF Present
  <2> QED
    BY <2>1, <2>2, <2>3, <2>5 DEF TemplateBehindConfigMap, Present
<1>4. CASE Users
  <2>1. /\ UNCHANGED <<obj, cache, pc, snap, pods>>
        /\ crCache' \in {crCache, cr'}
    BY <1>4 DEF Users, CreateResource, EditSpec, DeleteResource, UserChange, StoreCR, worker, cluster
  <2>2. /\ cr.spec.cfg <= cr'.spec.cfg
        /\ cr'.uid = 0 => ~cr'.live /\ cr'.spec.cfg = 0
    <3>1. CASE CreateResource
      <4>1. PICK s \in Specs : /\ MayWrite(s)
                               /\ cr' = [live |-> TRUE, uid |-> cr.uid + 1, gen |-> 1,
                                         spec |-> s, status |-> NoStatus]
        BY <3>1 DEF CreateResource, UserChange, StoreCR
      <4>2. s.cfg \in Nat /\ cr.uid \in Nat
        BY ConstantsAssumption DEF SpecType, TypeOK, CRType
      <4> QED
        BY <4>1, <4>2 DEF MayWrite, CopiesBehind
    <3>2. CASE EditSpec
      <4>1. PICK s \in Specs : MayWrite(s) /\ cr' = [cr EXCEPT !.gen = @ + 1, !.spec = s]
        BY <3>2 DEF EditSpec, UserChange, StoreCR
      <4>2. cr.live /\ cr'.uid = cr.uid /\ cr'.spec = s
        BY <3>2, <4>1 DEF EditSpec, TypeOK, CRType
      <4> QED
        BY <4>1, <4>2 DEF MayWrite, CopiesBehind
    <3>3. CASE DeleteResource
      <4>1. cr' = [cr EXCEPT !.live = FALSE]
        BY <3>3 DEF DeleteResource, UserChange, StoreCR
      <4>2. cr'.uid = cr.uid /\ cr'.spec = cr.spec /\ ~cr'.live
        BY <4>1 DEF TypeOK, CRType
      <4> QED
        BY <4>2 DEF CopiesBehind
    <3> QED
      BY <1>4, <3>1, <3>2, <3>3 DEF Users
  <2>3. cr'.spec.cfg \in Nat
    BY DEF TypeOK, CRType, SpecType
  <2>4. CopiesBehind' /\ StageFitsMode'
    BY <2>1, <2>2, <2>3 DEF CopiesBehind, StageFitsMode
  <2>5. ObjectsBehind'
    BY <2>1, <2>2, <2>3 DEF ObjectsBehind, CopiesBehind, Horizon, Present
  <2>6. Horizon <= Horizon'
    BY <2>1, <2>2, <2>3 DEF CopiesBehind, Horizon
  <2>7. PodsBetween'
    BY <2>1, <2>2, <2>6, PodsKept DEF Present
  <2> QED
    BY <2>1, <2>4, <2>5, <2>7 DEF TemplateBehindConfigMap, Present
<1> QED
  BY <1>1, <1>2, <1>3, <1>4 DEF Informers

\* Collection, deletion by hand and the life of the pods.
LEMMA ClusterConfig ==
  ASSUME ConfigInv, TypeOK',
         Cluster \/ (\E o \in Objects : Tamper(o))
                 \/ (\E w \in Workloads, i \in Ordinals : LosePod(w, i) \/ RestartContainer(w, i))
  PROVE  ConfigInv'
<1> USE ConfigNumbers DEF ConfigInv
<1>1. ASSUME NEW o \in Objects, Remove(o)
      PROVE  ConfigInv'
  <2>1. /\ obj'[CM] \in {obj[CM], Absent} /\ obj'[Deploy] \in {obj[Deploy], Absent}
        /\ cache'[CM] \in {cache[CM], Absent}
    BY <1>1, ObjectNames DEF Remove, CacheAfter, TypeOK, ObjectsOK
  <2>2. UNCHANGED <<cr, crCache, pc, snap, pods>>
    BY <1>1 DEF Remove, worker
  <2>3. CopiesBehind' /\ StageFitsMode' /\ PodsBetween'
    BY <2>1, <2>2 DEF CopiesBehind, StageFitsMode, PodsBetween, Horizon, Present
  <2>4. ObjectsBehind'
    BY <2>1, <2>2 DEF ObjectsBehind, Horizon, Present
  <2>5. TemplateBehindConfigMap'
    BY <2>1, <2>2 DEF TemplateBehindConfigMap, Present
  <2> QED
    BY <2>3, <2>4, <2>5
<1>2. ASSUME UNCHANGED <<cr, crCache, obj, cache, worker>>, PodsBetween'
      PROVE  ConfigInv'
  BY <1>2 DEF worker, CopiesBehind, StageFitsMode, ObjectsBehind, Horizon,
              TemplateBehindConfigMap, Present
<1>3. ASSUME NEW w \in Workloads, NEW i \in Ordinals, StartPod(w, i)
      PROVE  PodsBetween'
  <2>1. pods' = [pods EXCEPT ![w][i] = [tpl |-> obj[w].val.tpl, ready |-> FALSE,
                                        cfg |-> obj[ConfigMapOf(w, i)].val]]
    BY <1>3 DEF StartPod
  <2>2. CASE w = STS
    <3>1. pods'[Deploy] = pods[Deploy]
      BY <2>1, <2>2 DEF TypeOK, STS, Deploy, Workloads
    <3> QED
      BY <1>3, <3>1 DEF StartPod, PodsBetween, Horizon, Present, worker
  <2>3. CASE w = Deploy
    <3>1. Present(CM) /\ Present(Deploy) /\ ConfigMapOf(w, i) = CM
      BY <1>3, <2>3 DEF StartPod, Mounted, ConfigMapOf, STS, Deploy
    <3>2. /\ obj[Deploy].val.tpl \in TemplateType /\ ~obj[Deploy].val.tpl.hash.ha
          /\ obj[Deploy].val.tpl.hash.cfg <= Horizon
          /\ obj[Deploy].val.tpl.hash.cfg <= obj[CM].val /\ obj[CM].val <= cr.spec.cfg
      BY <3>1 DEF TemplateBehindConfigMap, ObjectsBehind, CopiesBehind, Horizon
    <3>3. \A j \in Ordinals : pods'[Deploy][j] =
            IF j = i THEN [tpl |-> obj[Deploy].val.tpl, ready |-> FALSE, cfg |-> obj[CM].val]
                     ELSE pods[Deploy][j]
      BY <2>1, <2>3, <3>1 DEF TypeOK, Workloads
    <3>4. cr' = cr /\ obj' = obj /\ Horizon' = Horizon
      BY <1>3 DEF StartPod, Horizon, worker
    <3> QED
      BY <3>2, <3>3, <3>4 DEF PodsBetween, Present
  <2> QED
    BY <2>2, <2>3 DEF Workloads
<1>4. ASSUME NEW w \in Workloads, NEW i \in Ordinals, PodReady(w, i)
      PROVE  PodsBetween'
  <2>1. pods' = [pods EXCEPT ![w][i] = [pods[w][i] EXCEPT !.ready = TRUE]]
    BY <1>4, Zenon DEF PodReady
  <2>2. /\ pods[w][i] \in PodType /\ pods[w][i] # NoPod
        /\ cr' = cr /\ obj' = obj /\ Horizon' = Horizon
    BY <1>4 DEF PodReady, TypeOK, Horizon, worker
  <2>3. /\ [pods[w][i] EXCEPT !.ready = TRUE].tpl = pods[w][i].tpl
        /\ [pods[w][i] EXCEPT !.ready = TRUE].cfg = pods[w][i].cfg
    BY <2>2 DEF PodType
  <2> DEFINE p == [pods[w][i] EXCEPT !.ready = TRUE]
  <2>4. pods' = [pods EXCEPT ![w][i] = p] /\ p.tpl = pods[w][i].tpl /\ p.cfg = pods[w][i].cfg
    BY <2>1, <2>3
  <2> HIDE DEF p
  <2>5. \A j \in Ordinals :
          \/ pods'[Deploy][j] = pods[Deploy][j]
          \/ /\ pods[Deploy][j] # NoPod
             /\ pods'[Deploy][j].tpl = pods[Deploy][j].tpl
             /\ pods'[Deploy][j].cfg = pods[Deploy][j].cfg
    BY <2>2, <2>4 DEF TypeOK, Workloads
  <2> QED
    BY <2>2, <2>5 DEF PodsBetween, Present
<1>5. ASSUME NEW w \in Workloads, NEW i \in Ordinals, StopPod(w, i) \/ LosePod(w, i)
      PROVE  PodsBetween'
  <2>1. cr' = cr /\ obj' = obj /\ Horizon' = Horizon
    BY <1>5 DEF StopPod, LosePod, Horizon, worker
  <2>2. \A j \in Ordinals : pods'[Deploy][j] \in {pods[Deploy][j], NoPod}
    BY <1>5 DEF StopPod, LosePod, TypeOK, Workloads
  <2> QED
    BY <2>1, <2>2 DEF PodsBetween, Present
<1>10. ASSUME NEW w \in Workloads, NEW i \in Ordinals, RestartContainer(w, i)
      PROVE  PodsBetween'
  <2>1. /\ pods[w][i] # NoPod
        /\ cr' = cr /\ obj' = obj /\ Horizon' = Horizon
    BY <1>10 DEF RestartContainer, Horizon, worker
  <2>2. PICK c \in {pods[w][i].cfg} \cup (IF w = Deploy /\ Present(CM) THEN {obj[CM].val} ELSE {}) :
          pods' = [pods EXCEPT ![w][i] = [tpl |-> pods[w][i].tpl, cfg |-> c, ready |-> FALSE]]
    BY <1>10 DEF RestartContainer
  <2>3. \A j \in Ordinals :
          \/ pods'[Deploy][j] = pods[Deploy][j]
          \/ /\ w = Deploy /\ j = i
             /\ pods'[Deploy][j].tpl = pods[Deploy][j].tpl /\ pods'[Deploy][j].cfg = c
    BY <2>2 DEF TypeOK, Workloads
  <2>4. Present(CM) => obj[CM].val <= cr.spec.cfg
    BY DEF ObjectsBehind, CopiesBehind, Horizon
  <2> QED
    BY <2>1, <2>2, <2>3, <2>4 DEF PodsBetween, Present
<1>6. CASE \E w \in Workloads : RunPods(w)
  <2>1. PICK w \in Workloads, i \in Ordinals : StartPod(w, i) \/ PodReady(w, i) \/ StopPod(w, i)
    BY <1>6 DEF RunPods
  <2>2. PodsBetween'
    BY <2>1, <1>3, <1>4, <1>5
  <2>3. UNCHANGED <<cr, crCache, obj, cache, worker>>
    BY <2>1 DEF StartPod, PodReady, StopPod
  <2> QED
    BY <1>2, <2>2, <2>3
<1>7. CASE \E w \in Workloads, i \in Ordinals : LosePod(w, i) \/ RestartContainer(w, i)
  <2>1. UNCHANGED <<cr, crCache, obj, cache, worker>>
    BY <1>7 DEF LosePod, RestartContainer
  <2> QED
    BY <1>2, <1>5, <1>7, <1>10, <2>1
<1>8. CASE \E w \in Workloads : PublishReady(w)
  <2>1. UNCHANGED <<cr, crCache, obj, cache, worker, pods>>
    BY <1>8 DEF PublishReady
  <2> QED
    BY <1>2, <2>1 DEF PodsBetween, Horizon, Present, worker
<1>9. CASE \E o \in Objects : GarbageCollect(o) \/ Tamper(o)
  BY <1>1, <1>9 DEF GarbageCollect, Tamper
<1> QED
  BY <1>6, <1>7, <1>8, <1>9 DEF Cluster

\* Initially nothing is there.
LEMMA InitConfig == Init => ConfigInv
<1> SUFFICES ASSUME Init PROVE ConfigInv
  OBVIOUS
<1>1. /\ obj[CM] = Absent /\ obj[Deploy] = Absent
      /\ \A i \in Ordinals : pods[Deploy][i] = NoPod
  BY ObjectNames DEF Init, Workloads
<1> QED
  BY <1>1, InitType, NoCRType
     DEF Init, ConfigInv, CopiesBehind, StageFitsMode, ObjectsBehind, Present,
         TemplateBehindConfigMap, PodsBetween, NoCR

\* Every step keeps ConfigInv, as long as users do not return to an earlier
\* configuration.
LEMMA NextConfig == ASSUME ~Reverts PROVE ConfigInv /\ [Next]_vars => ConfigInv'
<1> SUFFICES ASSUME ConfigInv, [Next]_vars PROVE ConfigInv'
  OBVIOUS
<1>1. TypeOK'
  BY NextType DEF ConfigInv
<1>2. CASE Reconcile
  BY <1>1, <1>2, EndsConfig, ConfigMapConfig, DeploymentConfig, OtherStages, ElsewhereConfig
<1>3. CASE Informers \/ Users \/ Restart
  BY <1>1, <1>3, EnvironmentConfig
<1>4. CASE Cluster \/ (\E o \in Objects : Tamper(o))
                   \/ (\E w \in Workloads, i \in Ordinals : LosePod(w, i) \/ RestartContainer(w, i))
  BY <1>1, <1>4, ClusterConfig
<1>5. CASE UNCHANGED vars
  BY <1>1, <1>5 DEF vars, ConfigInv, CopiesBehind, StageFitsMode, ObjectsBehind, Horizon,
     Present, TemplateBehindConfigMap, PodsBetween
<1> QED
  BY <1>2, <1>3, <1>4, <1>5 DEF Next, Failures

\* Whatever the lag, the faults, the restarts and the pods that die: as long as
\* users only move on to new configurations, a Deployment pod annotated with the
\* hash of the current spec has loaded the current configuration.
THEOREM HashNamesLoadedConfig ==
  ASSUME ~Reverts
  PROVE  Spec => []DeploymentPodsRunHashedConfig
<1>1. Init => ConfigInv
  BY InitConfig
<1>2. ConfigInv /\ [Next]_vars => ConfigInv'
  BY NextConfig
<1>3. ConfigInv => DeploymentPodsRunHashedConfig
  BY ConfigInvImplies
<1> QED
  BY <1>1, <1>2, <1>3, PTL DEF Spec
============================================================================
