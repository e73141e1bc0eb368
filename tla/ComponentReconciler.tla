------------------------ MODULE ComponentReconciler ------------------------
(***************************************************************************)
(* One Kea component custom resource (KeaDhcp4Server, KeaDhcp6Server,      *)
(* KeaControlAgent or KeaDhcpDdns), its controller, the objects the        *)
(* controller owns in the API server, and the pods that run from them.     *)
(*                                                                         *)
(* A reconcile is not atomic: it reads the resource once, from an informer *)
(* cache that may lag, and then creates or updates one object after the    *)
(* other, while users edit the resource, the API server refuses or loses   *)
(* requests, pods die, objects are deleted and the operator restarts.      *)
(* Each stage of Reconcile is an action; the value of pc is the stage the  *)
(* worker is about to execute.                                             *)
(***************************************************************************)
EXTENDS Naturals, FiniteSets

CONSTANTS
  Specs,        \* the custom resource specs a user may write
  MaxReplicas,  \* bound on spec.replicas
  OpenShift,    \* platform.Detector found the OpenShift API
  DefaultNs,    \* the resource lives in the operator's default namespace
  Lagging,      \* the objects (and the resource itself) whose informer may lag
  Orders,       \* the orders in which Go may iterate over the HA peer map
  Reverts,      \* may a user return to a configuration used before?
  Unrenderable, \* configurations the renderer rejects
  BadPeers,     \* configurations with an HA peer URL ValidateHostname rejects
  Budget,       \* how often each event of the environment may happen
  None          \* no value

Kinds == {"dhcp4", "dhcp6", "ctrl-agent", "ddns"}
Ordinals == 0 .. (MaxReplicas - 1)
Events == {"create", "edit", "delete", "fault", "lose", "tamper", "restart"}

\* What the properties need of a spec. cfg numbers the rendered configuration,
\* svc stands for an HTTP control socket (dhcp4, dhcp6), the listening port
\* (ddns) or the always present HTTP endpoint (ctrl-agent).
SpecType == [kind: Kinds, ha: BOOLEAN, replicas: 0 .. MaxReplicas, cfg: Nat,
             svc: BOOLEAN, stork: BOOLEAN]

\* The config-hash annotation, the pod template that carries it, and the spec of
\* a Deployment or StatefulSet.
HashType == [ha: BOOLEAN, cfg: Nat, n: Nat]
TemplateType == [hash: HashType, stork: BOOLEAN, order: Nat]
WorkloadType == [n: Nat, tpl: TemplateType]

CR == <<"cr", 0>>
CM == <<"cm", 0>>
SA == <<"sa", 0>>
RB == <<"rb", 0>>
HL == <<"hl", 0>>
Deploy == <<"deploy", 0>>
STS == <<"sts", 0>>
Svc == <<"svc", 0>>
PM == <<"pm", 0>>
StorkSvc == <<"storksvc", 0>>
Route == <<"route", 0>>
HACM(i) == <<"hacm", i>>
PodSvc(i) == <<"podsvc", i>>

Objects == {CM, SA, RB, HL, Deploy, STS, Svc, PM, StorkSvc, Route}
             \cup {HACM(i) : i \in Ordinals} \cup {PodSvc(i) : i \in Ordinals}
Workloads == {Deploy, STS}

ASSUME ConstantsAssumption ==
  /\ MaxReplicas \in Nat
  /\ Specs \subseteq SpecType
  /\ \A s \in Specs : /\ s.ha => s.kind = "dhcp4"
                      /\ s.stork => s.kind \in {"dhcp4", "dhcp6"}
                      /\ s.kind = "ctrl-agent" => s.svc
  /\ OpenShift \in BOOLEAN /\ DefaultNs \in BOOLEAN /\ Reverts \in BOOLEAN
  /\ Orders \subseteq Nat /\ Orders # {}
  /\ Lagging \subseteq Objects \cup {CR}
  /\ Unrenderable \subseteq Nat /\ BadPeers \subseteq Nat
  /\ Budget \in [Events -> Nat]
  /\ None \notin Nat \cup WorkloadType

VARIABLES
  cr,       \* the custom resource in the API server
  crCache,  \* the controller's cached copy of it
  obj,      \* the owned objects in the API server
  cache,    \* the controller's cached copies of them
  queued,   \* the resource's request is in the work queue
  pc,       \* the stage of the reconcile in progress, "idle" if none
  snap,     \* the resource as that reconcile read it
  ord,      \* the ordinal the loop of the stage is at
  seen,     \* the ready replicas that reconcile has read
  ready,    \* status.readyReplicas of the workloads
  pods,     \* the pods, one slot per workload and ordinal
  budget    \* what is left of Budget

worker == <<pc, snap, ord, seen>>
cluster == <<pods, ready>>
vars == <<cr, crCache, obj, cache, queued, pc, snap, ord, seen, ready, pods, budget>>

----------------------------------------------------------------------------
\* What the controller builds from a spec

HAEnabled(s) == s.kind = "dhcp4" /\ s.ha

\* The hash of the rendered configuration; in HA mode a hash over the hashes
\* of the ordinals that could be rendered.
ConfigHash(s) ==
  IF ~HAEnabled(s) THEN [ha |-> FALSE, cfg |-> s.cfg, n |-> 1]
  ELSE IF s.cfg \in Unrenderable \/ s.replicas = 0 THEN [ha |-> TRUE, cfg |-> 0, n |-> 0]
  ELSE [ha |-> TRUE, cfg |-> s.cfg, n |-> s.replicas]

\* The pod template: the annotation with the hash, the sidecar, and the order in
\* which BuildStatefulSet wrote the peers into the init script.
PodTemplate(s, k) == [hash |-> ConfigHash(s), stork |-> s.stork, order |-> k]

\* The Deployment or StatefulSet.
Workload(s, k) == [n |-> s.replicas, tpl |-> PodTemplate(s, k)]

WorkloadOf(s) == IF HAEnabled(s) THEN STS ELSE Deploy

\* Two peers give the map two iteration orders; a Deployment has no such map.
FixedOrder == CHOOSE k \in Orders : TRUE

Built == 0
Absent == [owner |-> 0, val |-> None]
Present(o) == obj[o] # Absent

NoHash == [ha |-> FALSE, cfg |-> 0, n |-> 0]
NoStatus == [phase |-> "", cond |-> "", observed |-> 0, hash |-> NoHash, ready |-> 0]
NoPod == [tpl |-> None, cfg |-> 0, ready |-> FALSE]
BlankSpec == [kind |-> "dhcp4", ha |-> FALSE, replicas |-> 0, cfg |-> 0,
              svc |-> FALSE, stork |-> FALSE]
NoCR == [live |-> FALSE, uid |-> 0, gen |-> 0, spec |-> BlankSpec, status |-> NoStatus]

----------------------------------------------------------------------------
\* The order of the stages of Reconcile

LastStage(s) == IF s.kind = "dhcp4" THEN "status" ELSE "ready"
MonitorStage(s) == IF s.stork THEN "pm" ELSE LastStage(s)
ServiceStage(s) == IF s.svc THEN "svc" ELSE MonitorStage(s)
WorkloadStage(s) == IF HAEnabled(s) THEN "hl" ELSE "deploy"
AfterServiceAccount(s) == IF OpenShift /\ DefaultNs THEN "rb" ELSE WorkloadStage(s)
AfterWorkload(s) == IF s.kind = "dhcp4" THEN "ready" ELSE ServiceStage(s)
AfterReady(s) == IF s.kind = "dhcp4" THEN ServiceStage(s) ELSE "status"
AfterStorkService(s) == IF OpenShift THEN "route" ELSE LastStage(s)
FirstStage(s) ==
  IF ~HAEnabled(s) THEN "cm" ELSE IF s.replicas = 0 THEN "sa" ELSE "hacm"

Stages == {"cm", "hacm", "sa", "rb", "hl", "podsvc", "deploy", "sts", "ready",
           "svc", "pm", "storksvc", "route", "status"}

Goto(stage, i) == pc' = stage /\ ord' = i /\ UNCHANGED <<snap, seen>>
Return == pc' = "idle" /\ ord' = 0 /\ snap' = NoCR /\ seen' = 0

Spend(e) == budget[e] > 0 /\ budget' = [budget EXCEPT ![e] = @ - 1]

----------------------------------------------------------------------------
\* The API server and the informers

\* Owned kinds are watched; the RoleBinding and the Route are not.
WatchedWithoutServiceAccount(o) == o \notin {RB, Route, SA}
Watched(o) == o \notin {RB, Route}

\* The Get of CreateOrUpdate: from the informer cache, except for the
\* unstructured Route, which the client reads from the API server.
Got(o) == IF o = Route THEN obj[o] ELSE cache[o]

\* The API server fills in defaults the builders leave out of these kinds, so
\* that the mutated object always differs from the one read.
Defaulted(o) == o \in Workloads \cup {HL, Svc, StorkSvc, Route} \cup {PodSvc(i) : i \in Ordinals}

CacheAfter(o, w) == IF o \in Lagging THEN cache ELSE [cache EXCEPT ![o] = w]
Notified(o, w) == o \notin Lagging /\ Watched(o) /\ w # obj[o]

CallErrorDropped(o, w, changes, fails, fatal, stage, i) ==
  /\ obj' = IF changes THEN [obj EXCEPT ![o] = w] ELSE obj
  /\ cache' = IF changes THEN CacheAfter(o, w) ELSE cache
  /\ queued' = (queued \/ (changes /\ Notified(o, w)))
  /\ IF fails /\ fatal THEN Return ELSE Goto(stage, i)
  /\ UNCHANGED <<cr, crCache, ready, pods>>

\* One create-or-update call: does it change the object, does it return an
\* error, and does the caller return that error or only log it.
Call(o, w, changes, fails, fatal, stage, i) ==
  /\ obj' = IF changes THEN [obj EXCEPT ![o] = w] ELSE obj
  /\ cache' = IF changes THEN CacheAfter(o, w) ELSE cache
  /\ queued' = (queued \/ (changes /\ Notified(o, w)) \/ (fails /\ fatal))
  /\ IF fails /\ fatal THEN Return ELSE Goto(stage, i)
  /\ UNCHANGED <<cr, crCache, ready, pods>>

reconcileResourceNotAdopting(o, v, fatal, stage, i) ==
  LET w == [owner |-> IF Got(o) = Absent THEN snap.uid ELSE Got(o).owner, val |-> v]
      same == Got(o) = w /\ ~Defaulted(o)
      current == Got(o) = obj[o]
  IN \/ /\ same
        /\ Call(o, w, FALSE, FALSE, fatal, stage, i) /\ UNCHANGED budget
     \/ /\ ~same /\ current
        /\ Call(o, w, TRUE, FALSE, fatal, stage, i) /\ UNCHANGED budget
     \/ /\ ~same /\ ~current
        /\ Call(o, w, FALSE, TRUE, fatal, stage, i) /\ UNCHANGED budget
     \/ /\ ~same /\ Spend("fault")
        /\ \E done \in {FALSE, current} : Call(o, w, done, TRUE, fatal, stage, i)

\* reconcileResource: nothing to do when the object read already is the desired
\* one; else a Create or an Update, which the API server accepts only if the
\* copy read is current (AlreadyExists, Conflict and NotFound are errors). A
\* faulty request may be lost, or be carried out and its answer lost.
reconcileResource(o, v, fatal, stage, i) ==
  LET w == [owner |-> snap.uid, val |-> v]
      same == Got(o) = w /\ ~Defaulted(o)
      current == Got(o) = obj[o]
  IN \/ /\ same
        /\ Call(o, w, FALSE, FALSE, fatal, stage, i) /\ UNCHANGED budget
     \/ /\ ~same /\ current
        /\ Call(o, w, TRUE, FALSE, fatal, stage, i) /\ UNCHANGED budget
     \/ /\ ~same /\ ~current
        /\ Call(o, w, FALSE, TRUE, fatal, stage, i) /\ UNCHANGED budget
     \/ /\ ~same /\ Spend("fault")
        /\ \E done \in {FALSE, current} : Call(o, w, done, TRUE, fatal, stage, i)

\* A change of the custom resource, and the event it causes.
StoreCR(new) ==
  /\ cr' = new
  /\ crCache' = IF CR \in Lagging THEN crCache ELSE new

StatusUpdate(new, fails) ==
  /\ StoreCR([cr EXCEPT !.status = new])
  /\ queued' = (queued \/ fails \/ (CR \notin Lagging /\ new # cr.status))
  /\ Return

FailedStatusUpdateIgnored ==
  /\ Return
  /\ UNCHANGED <<cr, crCache, queued>>

FailedStatusUpdate ==
  /\ queued' = TRUE
  /\ Return
  /\ UNCHANGED <<cr, crCache>>

----------------------------------------------------------------------------
\* The controller

BeginReconcileOfDeleted ==
  /\ pc = "idle" /\ queued
  /\ queued' = FALSE
  /\ pc' = FirstStage(crCache.spec) /\ snap' = crCache
  /\ UNCHANGED <<cr, crCache, obj, cache, ord, seen, ready, pods, budget>>

\* Take the request and fetch the resource; it may be gone.
BeginReconcile ==
  /\ pc = "idle" /\ queued
  /\ queued' = FALSE
  /\ IF crCache.live
       THEN pc' = FirstStage(crCache.spec) /\ snap' = crCache
       ELSE UNCHANGED <<pc, snap>>
  /\ UNCHANGED <<cr, crCache, obj, cache, ord, seen, ready, pods, budget>>

\* Standard mode, the configuration cannot be rendered: record it in the status
\* if the API server lets it, and return the error.
RenderError ==
  /\ pc = "cm" /\ snap.spec.cfg \in Unrenderable
  /\ \/ snap = cr /\ StatusUpdate([snap.status EXCEPT !.phase = "Error"], TRUE)
                  /\ UNCHANGED budget
     \/ snap # cr /\ FailedStatusUpdate /\ UNCHANGED budget
     \/ FailedStatusUpdate /\ Spend("fault")
  /\ UNCHANGED <<obj, cache, ready, pods>>

ReconcileConfigMapLogged ==
  /\ pc = "cm" /\ snap.spec.cfg \notin Unrenderable
  /\ reconcileResource(CM, snap.spec.cfg, FALSE, "sa", 0)

ReconcileConfigMap ==
  /\ pc = "cm" /\ snap.spec.cfg \notin Unrenderable
  /\ reconcileResource(CM, snap.spec.cfg, TRUE, "sa", 0)

\* HA mode: one ConfigMap per ordinal. Neither a render error nor a failed write
\* leaves the loop.
reconcileHAConfigs ==
  /\ pc = "hacm"
  /\ LET more == ord + 1 < snap.spec.replicas
         stage == IF more THEN "hacm" ELSE "sa"
         i == IF more THEN ord + 1 ELSE 0
     IN IF snap.spec.cfg \in Unrenderable
          THEN Goto(stage, i) /\ UNCHANGED <<cr, crCache, obj, cache, queued, ready, pods, budget>>
          ELSE reconcileResource(HACM(ord), snap.spec.cfg, FALSE, stage, i)

ReconcileServiceAccount ==
  /\ pc = "sa"
  /\ reconcileResource(SA, Built, TRUE, AfterServiceAccount(snap.spec), 0)

\* Only created, never updated, without an owner; an error is only logged.
ensureSCCRoleBinding ==
  /\ pc = "rb"
  /\ LET w == [owner |-> 0, val |-> Built]
         absent == cache[RB] = Absent
         stage == WorkloadStage(snap.spec)
     IN \/ Call(RB, w, absent, FALSE, FALSE, stage, 0) /\ UNCHANGED budget
        \/ absent /\ Spend("fault") /\ Call(RB, w, FALSE, TRUE, FALSE, stage, 0)

ReconcileHeadlessService ==
  /\ pc = "hl"
  /\ reconcileResource(HL, Built, TRUE, IF snap.spec.replicas = 0 THEN "sts" ELSE "podsvc", 0)

ReconcilePerPodServiceLogged ==
  /\ pc = "podsvc"
  /\ LET more == ord + 1 < snap.spec.replicas
     IN reconcileResource(PodSvc(ord), Built, FALSE, IF more THEN "podsvc" ELSE "sts",
                          IF more THEN ord + 1 ELSE 0)

ReconcilePerPodService ==
  /\ pc = "podsvc"
  /\ LET more == ord + 1 < snap.spec.replicas
     IN reconcileResource(PodSvc(ord), Built, TRUE, IF more THEN "podsvc" ELSE "sts",
                          IF more THEN ord + 1 ELSE 0)

\* A peer URL whose host is not a host name stops the reconcile here.
RejectPeers ==
  /\ pc = "sts" /\ snap.spec.cfg \in BadPeers
  /\ queued' = TRUE
  /\ Return
  /\ UNCHANGED <<cr, crCache, obj, cache, ready, pods, budget>>

ReconcileStatefulSetLogged ==
  /\ pc = "sts" /\ snap.spec.cfg \notin BadPeers
  /\ \E k \in Orders :
       reconcileResource(STS, Workload(snap.spec, k), FALSE, AfterWorkload(snap.spec), 0)

ReconcileStatefulSet ==
  /\ pc = "sts" /\ snap.spec.cfg \notin BadPeers
  /\ \E k \in Orders :
       reconcileResource(STS, Workload(snap.spec, k), TRUE, AfterWorkload(snap.spec), 0)

ReconcileDeployment ==
  /\ pc = "deploy"
  /\ reconcileResource(Deploy, Workload(snap.spec, FixedOrder), TRUE, AfterWorkload(snap.spec), 0)

\* The readyReplicas of the workload as cached; 0 if it cannot be read.
ReadReadyReplicas ==
  /\ pc = "ready"
  /\ LET w == WorkloadOf(snap.spec)
     IN seen' = IF cache[w] = Absent THEN 0 ELSE ready[w]
  /\ pc' = AfterReady(snap.spec)
  /\ UNCHANGED <<cr, crCache, obj, cache, queued, snap, ord, ready, pods, budget>>

ReconcileService ==
  /\ pc = "svc"
  /\ reconcileResource(Svc, Built, TRUE, MonitorStage(snap.spec), 0)

ReconcilePodMonitor ==
  /\ pc = "pm"
  /\ reconcileResource(PM, Built, FALSE, "storksvc", 0)

ReconcileStorkService ==
  /\ pc = "storksvc"
  /\ reconcileResource(StorkSvc, Built, TRUE, AfterStorkService(snap.spec), 0)

ReconcileStorkRoute ==
  /\ pc = "route"
  /\ reconcileResource(Route, Built, FALSE, LastStage(snap.spec), 0)

NewStatusReadyPhase ==
  LET all == seen > 0 /\ seen = snap.spec.replicas
  IN [phase |-> IF all THEN "Ready" ELSE "Progressing",
      cond |-> IF all THEN "True" ELSE "False",
      observed |-> snap.gen, hash |-> ConfigHash(snap.spec), ready |-> seen]

NewStatusOneTooMany ==
  LET all == seen > snap.spec.replicas
  IN [phase |-> IF all THEN "Running" ELSE "Progressing",
      cond |-> IF all THEN "True" ELSE "False",
      observed |-> snap.gen, hash |-> ConfigHash(snap.spec), ready |-> seen]

\* Running needs every replica ready, and at least one.
NewStatus ==
  LET all == seen > 0 /\ seen = snap.spec.replicas
  IN [phase |-> IF all THEN "Running" ELSE "Progressing",
      cond |-> IF all THEN "True" ELSE "False",
      observed |-> snap.gen, hash |-> ConfigHash(snap.spec), ready |-> seen]

UpdateStatusByPatch ==
  /\ pc = "status"
  /\ StatusUpdate(NewStatus, FALSE)
  /\ UNCHANGED <<obj, cache, ready, pods, budget>>

UpdateStatus ==
  /\ pc = "status"
  /\ \/ snap = cr /\ StatusUpdate(NewStatus, FALSE) /\ UNCHANGED budget
     \/ snap # cr /\ FailedStatusUpdate /\ UNCHANGED budget
     \/ FailedStatusUpdate /\ Spend("fault")
     \/ snap = cr /\ StatusUpdate(NewStatus, TRUE) /\ Spend("fault")
  /\ UNCHANGED <<obj, cache, ready, pods>>

Reconcile ==
  \/ BeginReconcile \/ RenderError \/ ReconcileConfigMap \/ reconcileHAConfigs
  \/ ReconcileServiceAccount \/ ensureSCCRoleBinding \/ ReconcileHeadlessService
  \/ ReconcilePerPodService \/ RejectPeers \/ ReconcileStatefulSet \/ ReconcileDeployment
  \/ ReadReadyReplicas \/ ReconcileService \/ ReconcilePodMonitor
  \/ ReconcileStorkService \/ ReconcileStorkRoute \/ UpdateStatus

----------------------------------------------------------------------------
\* The informers, the operator process and the users

SyncCR ==
  /\ crCache # cr
  /\ crCache' = cr
  /\ queued' = TRUE
  /\ UNCHANGED <<cr, obj, cache, worker, cluster, budget>>

SyncObject(o) ==
  /\ cache[o] # obj[o]
  /\ cache' = [cache EXCEPT ![o] = obj[o]]
  /\ queued' = (queued \/ Watched(o))
  /\ UNCHANGED <<cr, crCache, obj, worker, cluster, budget>>

\* The process ends in the middle of anything; the next one lists everything.
Restart ==
  /\ Spend("restart")
  /\ Return
  /\ crCache' = cr /\ cache' = obj /\ queued' = TRUE
  /\ UNCHANGED <<cr, obj, cluster>>

\* Without Reverts, configurations are numbered in the order they are written.
MayWrite(s) ==
  /\ s \in Specs
  /\ cr.uid > 0 => s.kind = cr.spec.kind
  /\ Reverts \/ cr.uid = 0 \/ s.cfg \in {cr.spec.cfg, cr.spec.cfg + 1}

UserChange(new) ==
  /\ StoreCR(new)
  /\ queued' = (queued \/ CR \notin Lagging)
  /\ UNCHANGED <<obj, cache, worker, cluster>>

CreateResource ==
  /\ ~cr.live /\ Spend("create")
  /\ \E s \in Specs : /\ MayWrite(s)
                      /\ UserChange([live |-> TRUE, uid |-> cr.uid + 1, gen |-> 1,
                                     spec |-> s, status |-> NoStatus])

EditSpec ==
  /\ cr.live /\ Spend("edit")
  /\ \E s \in Specs \ {cr.spec} : /\ MayWrite(s)
                                  /\ UserChange([cr EXCEPT !.gen = @ + 1, !.spec = s])

DeleteResource ==
  /\ cr.live /\ Spend("delete")
  /\ UserChange([cr EXCEPT !.live = FALSE])

----------------------------------------------------------------------------
\* Kubernetes: garbage collection, the workload controllers and the kubelet

Remove(o) ==
  /\ obj' = [obj EXCEPT ![o] = Absent]
  /\ cache' = CacheAfter(o, Absent)
  /\ queued' = (queued \/ Notified(o, Absent))
  /\ ready' = IF o \in Workloads THEN [ready EXCEPT ![o] = 0] ELSE ready
  /\ UNCHANGED <<cr, crCache, worker, pods>>

Orphan(o) == obj[o].owner # 0 /\ ~(cr.live /\ obj[o].owner = cr.uid)

GarbageCollect(o) ==
  /\ Present(o) /\ Orphan(o)
  /\ Remove(o) /\ UNCHANGED budget

\* Somebody deletes an object by hand.
Tamper(o) ==
  /\ Present(o) /\ Spend("tamper")
  /\ Remove(o)

\* The ConfigMap a pod reads its configuration from, and the ones its volumes
\* name: a StatefulSet pod mounts those of all ordinals.
ConfigMapOf(w, i) == IF w = STS THEN HACM(i) ELSE CM
Mounted(w) == IF w = STS THEN {HACM(j) : j \in 0 .. (obj[w].val.n - 1)} ELSE {CM}

StartPod(w, i) ==
  /\ pods[w][i] = NoPod
  /\ Present(w) /\ i < obj[w].val.n
  /\ Present(SA) /\ \A o \in Mounted(w) : Present(o)
  /\ pods' = [pods EXCEPT ![w][i] = [tpl |-> obj[w].val.tpl, ready |-> FALSE,
                                     cfg |-> obj[ConfigMapOf(w, i)].val]]
  /\ UNCHANGED <<cr, crCache, obj, cache, queued, worker, ready, budget>>

PodReady(w, i) ==
  /\ pods[w][i] # NoPod /\ ~pods[w][i].ready
  /\ pods' = [pods EXCEPT ![w][i].ready = TRUE]
  /\ UNCHANGED <<cr, crCache, obj, cache, queued, worker, ready, budget>>

Wanted(w, i) == Present(w) /\ i < obj[w].val.n /\ pods[w][i].tpl = obj[w].val.tpl

\* Scale down, rolling update, or the workload is gone.
StopPod(w, i) ==
  /\ pods[w][i] # NoPod /\ ~Wanted(w, i)
  /\ pods' = [pods EXCEPT ![w][i] = NoPod]
  /\ UNCHANGED <<cr, crCache, obj, cache, queued, worker, ready, budget>>

LosePod(w, i) ==
  /\ pods[w][i] # NoPod /\ Spend("lose")
  /\ pods' = [pods EXCEPT ![w][i] = NoPod]
  /\ UNCHANGED <<cr, crCache, obj, cache, queued, worker, ready>>

\* A container that dies starts again inside its pod. In a Deployment pod it reads
\* the volume of the ConfigMap, as fresh as the kubelet has made it; in a
\* StatefulSet pod the copy that the init container made.
RestartContainer(w, i) ==
  /\ pods[w][i] # NoPod /\ Spend("lose")
  /\ \E c \in {pods[w][i].cfg} \cup (IF w = Deploy /\ Present(CM) THEN {obj[CM].val} ELSE {}) :
       pods' = [pods EXCEPT ![w][i] = [tpl |-> pods[w][i].tpl, cfg |-> c, ready |-> FALSE]]
  /\ UNCHANGED <<cr, crCache, obj, cache, queued, worker, ready>>

ReadyPods(w) == Cardinality({i \in Ordinals : pods[w][i].ready})

\* The workload controller publishes its status, which is an event.
PublishReady(w) ==
  /\ Present(w) /\ ready[w] # ReadyPods(w)
  /\ ready' = [ready EXCEPT ![w] = ReadyPods(w)]
  /\ queued' = TRUE
  /\ UNCHANGED <<cr, crCache, obj, cache, worker, pods, budget>>

----------------------------------------------------------------------------
Init ==
  /\ cr = NoCR /\ crCache = NoCR
  /\ obj = [o \in Objects |-> Absent] /\ cache = [o \in Objects |-> Absent]
  /\ queued = FALSE
  /\ pc = "idle" /\ snap = NoCR /\ ord = 0 /\ seen = 0
  /\ ready = [w \in Workloads |-> 0]
  /\ pods = [w \in Workloads |-> [i \in Ordinals |-> NoPod]]
  /\ budget = Budget

Informers == SyncCR \/ \E o \in Objects : SyncObject(o)
Users == CreateResource \/ EditSpec \/ DeleteResource
RunPods(w) == \E i \in Ordinals : StartPod(w, i) \/ PodReady(w, i) \/ StopPod(w, i)
Cluster ==
  \/ \E o \in Objects : GarbageCollect(o)
  \/ \E w \in Workloads : PublishReady(w) \/ RunPods(w)
Failures ==
  \/ Restart
  \/ \E o \in Objects : Tamper(o)
  \/ \E w \in Workloads, i \in Ordinals : LosePod(w, i) \/ RestartContainer(w, i)

Next == Reconcile \/ Informers \/ Users \/ Cluster \/ Failures

Spec == Init /\ [][Next]_vars

\* The work queue hands out every request, informers catch up, and Kubernetes'
\* controllers act on what they see; users and failures are under no obligation.
Fairness ==
  /\ WF_vars(Reconcile)
  /\ WF_vars(SyncCR)
  /\ \A o \in Lagging \ {CR} : WF_vars(SyncObject(o))
  /\ WF_vars(\E o \in Objects : GarbageCollect(o))
  /\ \A w \in Workloads : WF_vars(PublishReady(w)) /\ WF_vars(RunPods(w))

FairSpec == Spec /\ Fairness

----------------------------------------------------------------------------
\* Properties

Content(o) == IF o \in Workloads THEN WorkloadType ELSE Nat
ObjectType(o) ==
  [owner: Nat, val: Content(o) \cup {None}]
StatusType == [phase: {"", "Running", "Progressing", "Error"}, cond: {"", "True", "False"},
               observed: Nat, hash: HashType, ready: Nat]
CRType == [live: BOOLEAN, uid: Nat, gen: Nat, spec: SpecType, status: StatusType]
PodType == [tpl: TemplateType \cup {None}, cfg: Nat, ready: BOOLEAN]

\* A ConfigMap holds a configuration, a workload a pod template.
ObjectsOK(f) ==
  /\ f = [o \in Objects |-> f[o]]
  /\ \A o \in Objects : f[o] \in ObjectType(o) /\ (f[o].val = None => f[o] = Absent)

\* Every variable has its type (state of the API server, the informers, the
\* worker and the pods).
TypeOK ==
  /\ cr \in CRType /\ crCache \in CRType /\ snap \in CRType
  /\ ObjectsOK(obj) /\ ObjectsOK(cache)
  /\ queued \in BOOLEAN
  /\ pc \in Stages \cup {"idle"}
  /\ ord \in Nat
  /\ IF pc \in {"hacm", "podsvc"} THEN ord < snap.spec.replicas ELSE ord = 0
  /\ seen \in Nat
  /\ ready \in [Workloads -> Nat]
  /\ pods \in [Workloads -> [Ordinals -> PodType]]
  /\ budget \in [Events -> Nat]

PodRunsHashedConfig(w, i) ==
  (pods[w][i] # NoPod /\ pods[w][i].tpl.hash = ConfigHash(cr.spec))
    => pods[w][i].cfg = cr.spec.cfg

\* A Deployment pod whose config-hash annotation is the hash of the current spec
\* has loaded the current configuration: the ConfigMap is written before the
\* template that names its hash, whatever fails or restarts in between.
DeploymentPodsRunHashedConfig == \A i \in Ordinals : PodRunsHashedConfig(Deploy, i)

\* The same of a StatefulSet pod and the ConfigMap of its ordinal.
StatefulSetPodsRunHashedConfig == \A i \in Ordinals : PodRunsHashedConfig(STS, i)

\* Once the status says that the current generation was observed, the workload
\* of that generation, unless somebody deleted it, is the one the spec asks
\* for and belongs to this resource, not to a deleted namesake.
ObservedWorkloadIsCurrent ==
  (cr.live /\ cr.status.observed = cr.gen) =>
    LET w == WorkloadOf(cr.spec)
    IN Present(w) => /\ obj[w].owner = cr.uid
                     /\ \E k \in Orders : obj[w].val = Workload(cr.spec, k)

\* A StatefulSet never asks for a pod before the Services exist through which
\* that pod's init container resolves its peers: they are created first, also
\* when a scale-up is cut short.
PeerServicesPrecedePods ==
  (Present(STS) /\ cr.live /\ obj[STS].owner = cr.uid) =>
    Present(HL) /\ \A i \in 0 .. (obj[STS].val.n - 1) : Present(PodSvc(i))

\* The objects whose errors Reconcile returns, and therefore retries.
Required(s) ==
  (IF HAEnabled(s) THEN {HL, STS} \cup {PodSvc(i) : i \in 0 .. (s.replicas - 1)}
                   ELSE {CM, Deploy})
    \cup {SA} \cup (IF s.svc THEN {Svc} ELSE {}) \cup (IF s.stork THEN {StorkSvc} ELSE {})

Valid(s) == s.cfg \notin (IF HAEnabled(s) THEN BadPeers ELSE Unrenderable)

\* What the spec asks of such an object.
Desired(s, o) ==
  CASE o = CM -> {s.cfg} [] o \in Workloads -> {Workload(s, k) : k \in Orders} [] OTHER -> {Built}

BuiltFor(x, o) == obj[o].owner = x.uid /\ obj[o].val \in Desired(x.spec, o)

\* No work is forgotten: when nothing is queued, no reconcile is under way and the
\* resource is cached as it is, its spec is usable, its generation was observed,
\* and every required object whose informer keeps up is there as the spec asks, a
\* leftover of a deleted namesake included. What went wrong before, a lost or
\* refused request, a stale read, a restart, a deletion by hand, has left
\* a request behind.
QuietMeansBuilt ==
  (cr.live /\ crCache = cr /\ pc = "idle" /\ ~queued) =>
    /\ Valid(cr.spec) /\ cr.status.observed = cr.gen
    /\ \A o \in Required(cr.spec) \ Lagging : BuiltFor(cr, o)

PodCurrent(w, i) ==
  pods[w][i] # NoPod /\ pods[w][i].ready /\ pods[w][i].cfg = cr.spec.cfg

Deployed ==
  /\ \A o \in Required(cr.spec) : obj[o].owner = cr.uid
  /\ LET w == WorkloadOf(cr.spec)
     IN /\ obj[w].val \in {Workload(cr.spec, k) : k \in Orders}
        /\ \A i \in Ordinals : IF i < cr.spec.replicas THEN PodCurrent(w, i)
                                                      ELSE pods[w][i] = NoPod
  /\ cr.status.observed = cr.gen
  /\ cr.status.phase = IF cr.spec.replicas > 0 THEN "Running" ELSE "Progressing"

\* When users and failures come to rest, a resource with a usable spec ends up,
\* and stays, deployed: every object there, every pod on the current
\* configuration and ready, the status saying so.
Converges == <>[](cr.live /\ Valid(cr.spec) => Deployed)

\* What a deleted resource owned is collected, also what a reconcile that had
\* read it before the deletion creates afterwards.
DeletedIsCollected ==
  <>[](~cr.live => /\ \A o \in Objects \ {RB} : ~Present(o)
                   /\ \A w \in Workloads, i \in Ordinals : pods[w][i] = NoPod)

\* A resource with a usable spec is reconciled to the end again and again, or
\* needs no reconcile: its status never stays behind its generation.
StatusCatchesUp ==
  []<>(cr.live /\ Valid(cr.spec) => cr.status.observed = cr.gen)

\* What the documentation says of rollouts, and fails for HA servers:
\* the pod template of a workload changes only when the spec it was built from
\* asks for another configuration, or turns the sidecar on or off.
TemplateChangesWithSpec ==
  [][\A w \in Workloads :
       (obj[w].val # None /\ obj'[w].val # None /\ obj'[w].val.tpl # obj[w].val.tpl) =>
         \/ obj'[w].val.tpl.hash # obj[w].val.tpl.hash
         \/ obj'[w].val.tpl.stork # obj[w].val.tpl.stork]_vars

\* The resource as its clients see it, and the contract its controller keeps:
\* a status is only ever stored with the generation it was computed from, and
\* never over a newer one, whatever the cache held when the reconcile began.
Contract ==
  INSTANCE ResourceContract
    WITH Phases <- {"Running", "Progressing"}, live <- cr.live,
         gen <- IF cr.live THEN cr.gen ELSE 0,
         observed <- IF cr.live THEN cr.status.observed ELSE 0,
         phase <- IF cr.live THEN cr.status.phase ELSE ""

\* The status of a component resource keeps ResourceContract: the write at the end of a
\* reconcile is refused unless the resource is still the one that was read, so a
\* status is never of an older generation or of a deleted namesake.
KeepsContract == Contract!Spec
============================================================================
