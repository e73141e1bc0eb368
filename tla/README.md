# Verification of the Kea DHCP operator

TLA+ models of the operator in `src/internal`, TLC runs over small instances of
them, and TLAPS proofs. The system is a set of Kubernetes controllers. Each one
reads a custom resource and writes the objects that run a Kea daemon, one API
request after the other. Users, failures and Kubernetes itself act in between.

## The system

| Part | State | Operations | Talks to |
|---|---|---|---|
| `KeaDhcp4Server` controller (`internal/controller/keadhcp4server_controller.go`) | none of its own: the resource's status, the owned objects | `Reconcile`: ConfigMap(s), ServiceAccount, SCC RoleBinding, Deployment or StatefulSet with its Services, control Service, PodMonitor, Stork Service and Route, status | API server through a cached client; work queue |
| `KeaDhcp6Server`, `KeaControlAgent`, `KeaDhcpDdns` controllers | same | same stages, no HA, other order at the end | same |
| create-or-update (`reconciler.go`) | none | `reconcileResource`, `reconcileRoute`, `buildMutateFn`, `setCondition` | called by every controller |
| builders (`internal/resources`) | none | pure functions from parameters to objects | called by the controllers |
| renderers (`internal/kea`) | none | pure functions from spec to JSON | called by the controllers |
| `KeaStorkServer` controller | generated Secrets | `Reconcile`; DHCP controllers are re-queued by its events and read its token | DHCP controllers, Secrets |
| `KeaServer` controller (umbrella) | child resources | creates, updates, deletes children, aggregates their status | the other controllers, through the children |
| start-up (`cmd/main.go`, `setup.go`, `internal/platform`) | namespace, SCC, ClusterRole | `EnsureDefaultNamespace`, `EnsureSCC`, `EnsureSCCClusterRole`, `IsOpenShift` | API server, before the manager starts |
| console plugin (`console-plugin/`) | none | proxies lease queries to the Kea agents; React pages | Kea control channel |

What is hard here is the same for every controller:

- a reconcile is a sequence of independent requests, so it can stop anywhere (a
  refused request, a lost answer, an operator restart) and starts again from a
  fresh read;
- it reads from informer caches that lag behind the API server, each at its own
  pace;
- some errors are returned, which brings the request back, and some are only
  logged, which does not;
- Kubernetes acts on every intermediate state: pods start, the garbage collector
  removes objects of deleted owners, a resource is re-created under its old name.

The `hazards` of `PROJECT.json` list where each of these bites, and the
properties that would notice.

## Modules

| Module | Models |
|---|---|
| `ComponentReconciler` | one component resource of any of the four kinds (DHCPv4, DHCPv6, control agent, DDNS) and everything around it |
| `StorkServer` | a `KeaStorkServer`, its generated Secrets, its pod and database, and the Stork agent of a DHCP server that registers with it |
| `KeaServer` | the umbrella resource and the component resources it creates |
| `PodConfig` | from the spec of a component to the configuration its Kea process loads: renderers, placeholders, the scripts of the containers |
| `StartUp` | one or more instances of the operator, from process start to running controllers |
| `ResourceContract` | abstract: what a client may conclude from the status of any of the custom resources |
| `MC...` | small constants for TLC |
| `ComponentReconcilerProofs`, `ComponentWorkloadProofs`, `ComponentContractProofs` | theorems about `ComponentReconciler` |
| `StorkServerProofs`, `KeaServerProofs`, `PodConfigProofs`, `StartUpProofs`, `ResourceContractProofs` | theorems about the module of that name |

The modules meet at resources: `KeaServer` writes the specs that
`ComponentReconciler` and `StorkServer` react to and reads the statuses they
write, and sees no more of them than that; what they may expect of each other is
`ResourceContract`, which all three implement. `StorkServer` holds the part of a
DHCP server's reconcile that `ComponentReconciler` abstracts to "has a sidecar".
`PodConfig` opens what `ComponentReconciler` keeps as a number, the
configuration, and takes for granted what that module shows, that the objects
come to be those of the current spec. `StartUp` ends where the others begin.

### ComponentReconciler

State and code:

| Variable | Stands for |
|---|---|
| `cr`, `crCache` | the custom resource in the API server and in the informer cache |
| `obj`, `cache` | the owned objects, by name, in the API server and in the cache |
| `queued` | the request of the resource is in the work queue |
| `pc`, `snap`, `ord`, `seen` | the reconcile in progress: next stage, resource as read, loop index, ready replicas read |
| `ready` | `status.readyReplicas` of the workloads |
| `pods` | one slot per workload and ordinal: template it was started from, configuration it loaded, readiness |
| `budget` | what is left of the bounds on users and failures |

Each stage of `Reconcile` is an action. `BeginReconcile` is the fetch and its
NotFound return; `RenderError` the early return with a status write;
`ReconcileConfigMap`, `reconcileHAConfigs`, `ReconcileServiceAccount`,
`ensureSCCRoleBinding`, `ReconcileHeadlessService`, `ReconcilePerPodService`,
`RejectPeers`, `ReconcileStatefulSet`, `ReconcileDeployment`, `ReadReadyReplicas`,
`ReconcileService`, `ReconcilePodMonitor`, `ReconcileStorkService`,
`ReconcileStorkRoute` and `UpdateStatus` the stages in the order the code has
them. `FirstStage`, `AfterWorkload`, `AfterReady` and the like give the order
for each kind: the DHCPv4 controller reads the ready replicas right after the
workload, the others just before the status.

`reconcileResource` is `controllerutil.CreateOrUpdate`: it reads the object from
the cache, does nothing if the mutated object equals it, and otherwise sends a
Create or an Update, which the API server accepts only if the copy read is
current. A request may fail, and a failed request may have been carried out.
`fatal` says whether the caller returns the error, which re-queues the request,
or logs it. Adoption is by name, as in `SetControllerReference`: a namesake
takes the object over.

Around the controller, from how the code uses them (marked external in the map):
informers (`SyncCR`, `SyncObject`), the operator process (`Restart`), users
(`CreateResource`, `EditSpec`, `DeleteResource`, `Tamper`), the garbage collector,
the workload controllers and the kubelet (`StartPod`, `PodReady`, `StopPod`,
`PublishReady`), and what breaks (`LosePod`, `RestartContainer`).

Abstractions:

- The rendered configuration is a number, its hash that number with the mode and
  the number of ordinals hashed: SHA-256 is taken as injective.
- Services, the ServiceAccount, the PodMonitor and the Route are there or not; a
  ConfigMap holds a configuration; a workload holds its replicas, hash, sidecar
  and the order of the peers in the init script.
- A cached copy is current if it equals the object. The code compares resource
  versions; a cache goes only forward and one worker handles a key at a time, so
  the two agree.
- An informer jumps to the version in the API server. Versions in between are
  only missed chances to be behind, which a later `SyncObject` gives as well.
- A container that restarts in a Deployment pod may read a newer ConfigMap from
  its volume; in a StatefulSet pod it keeps the copy the init container made.
- `ResolveStorkParams` never returns an error, so that branch is left out. A
  renderer error is practically unreachable (`json.MarshalIndent` of plain maps)
  but the code handles it, so the model does (`Unrenderable`).

### StorkServer

Two secrets, the admin password and the agents' token, exist in several copies:
the Secret, its cached copy, the environment of the server's pod, the database
(password), the pod template and the pod of the DHCP server (token).

| Variable | Stands for |
|---|---|
| `srv`, `srvCache`, `obj`, `cache`, `queued` | the resource, its objects, their cached copies, the request |
| `pc`, `snap`, `gen`, `seen` | the reconcile: stage, resource as read, secret just generated, ready replicas |
| `server`, `ready`, `db` | the server's pod with the values its environment took, the Deployment's `readyReplicas`, the admin password in PostgreSQL |
| `dqueued`, `dpc`, `found`, `tokenRead` | the DHCP server's reconcile, from discovery to the write of the sidecar |
| `agentTpl`, `agent` | the sidecar in the DHCP server's pod template and in its pod |

Actions follow `Reconcile`: `BeginReconcile`, `ReconcileServiceAccount`,
`GetAdminSecret` and `ReconcileAdminSecret` (a read that decides, then a
create-or-update that reads again), the same for the token,
`ReconcileDeployment`, `ReconcileService`, `ReconcileRoute` (its errors are only
logged), `ReadReadyReplicas`, `UpdateStatus`. The DHCP side is
`resolveStorkServer`, `resolveSecretValue` (whose error is dropped) and
`ReconcileAgent`. `SetAdminPassword` is the wrapper script in the server's pod:
the password of the Secret if it logs in, otherwise the default one, otherwise
nothing. It also fails as a whole: the script stops waiting for the server after 60
tries and ignores a login or a change that is refused, and `server.set` remembers
which it was. Events of the resource reach both controllers (`enqueueStorkDependents`).

Abstractions:

- A random value is one that is in use nowhere else. `Values` bounds them and has
  more members than there are copies, so `Generate` is never the step that stops
  a run.
- An error of `rand.Read` or of a `Get` other than NotFound has the effect of a
  failed write at the same stage, which the model has.
- Of the spec only the port is kept. There is one replica, as the type's comment
  expects: several would read the same Secrets and share the database, so the copies
  that the properties compare are those of one, and `status.phase` compares
  the ready replicas with 1. The database outlives everything.
- One DHCP server, without `serverURL` and `storkServerRef`, stands for all of
  them; its pod is replaced in one step. `Dependents = FALSE` leaves it out, in
  the runs that are about the Secrets only.

### KeaServer

| Variable | Stands for |
|---|---|
| `ks`, `ksCache`, `queued` | the umbrella resource, its cached copy, its request |
| `child`, `childCache` | the component resources with the children's names: owner, section, status |
| `pc`, `snap`, `pos`, `readySet` | the reconcile: stage, resource as read, component it is at, components found ready |

`ReconcileChild` is `reconcileDhcp4` and its four copies, in the order of
`Order`: `DeleteChild` without a section, by name and whoever owns the child;
`CreateOrUpdate` with one. The first error ends the reconcile. `ReadChild` is one
`isChildReady`, `NewStatusFor` the aggregation. `Watched` says which events of a
child bring the owner back: those where it has an owner before or after.

The children's controllers appear as `ReportChild` and `GoDown`: a child reports
Error when its configuration cannot be rendered, Progressing and then Running
otherwise, and may fall back. A status may be that of an earlier section, as it
may be in the code. Users edit, delete and pre-create children.

### PodConfig

| Variable | Stands for |
|---|---|
| `spec`, `past` | the part of the spec that decides what Kea loads; the specs the resource has had before, which only a property reads |
| `secret` | the Secrets referred to, by version, 0 if absent |
| `svc`, `dns` | the ClusterIP of each per-pod Service, and what the name server says it is |
| `pod`, `lives` | per ordinal: template, address, environment, file as copied and as edited so far, hosts still to be resolved, address on the secondary network; how many pods there were |
| `budget` | what is left of the bounds |

Operators follow the code from left to right. `dbCredentialEnvVars`,
`secretKeyRefEnvVar`, `HostsDBsCreds` and `ResolvedSecret` are the controllers'
choice of variables and placeholders; `RenderDhcp4`, `RenderDhcp6`, `RenderDdns`,
`RenderCtrlAgent` with `renderHAHooks`, `fillPeerURLs` and
`renderDatabaseConfig` the renderers; `PeerHostnameMap`, `PeerAddresses` and
`Template` the pod template; `ReplaceHost`, `ReplacePlaceholders`, `DeploymentFile`
and `AssignedAddress` what the scripts do; `computeNADAddresses` what the status
says of it. Actions are the steps of a pod: `StartPod`, `CreateContainer` (which
waits for the Secrets), `ResolveThisServer`, `ResolvePeer`, `ResolveFails`,
`ExpandSecrets`, `StartKea`, `RestartExited`, and around them `KeaDies`,
`LosePod`, `StopPod`, `EditSpec`, `WriteSecret`, `PublishDNS`, `RenumberService`.

Abstractions:

- A text is a tagged value: a placeholder and the value that replaces it are
  different values, so forgetting the replacement shows. `sed` replaces whole
  values: that one variable's name can be a prefix of another's
  (`KEA_TSIG_SECRET_1` and `_10`) and that a credential may hold characters that
  are special to `sed` is left out.
- Whatever only renames fields (subnets, pools, options, timers, hooks) is one
  setting of each sort the helpers of `internal/kea/config.go` tell apart: a
  pointer, which is written if set, zero or not; a text and a list, which are
  written unless empty.
- An address on the secondary network is its last byte. The pod's shell adds in
  integers, the status in bytes.
- `KeaAccepts` is external and says of Kea only what the operator's comments
  rely on: peer URLs have numeric addresses and name this server.
- HA does not change during a run (in `ha` it does), nor does the kind.
- The field `copied` of a pod, the configuration its container copied before the
  scripts edit it, is there for the properties and proofs; no guard reads it.

### StartUp

| Variable | Stands for |
|---|---|
| `pc`, `isOpenShift` | per instance: where it is, what its detector remembers |
| `exists` | namespace, SCC and ClusterRole, any of which may be there at first |
| `lease` | the leader's lease |

`main` is `IsOpenShift`, `EnsureDefaultNamespace`, `GetSCC` and `CreateSCC`
(`EnsureSCC`), `GetClusterRole` and `CreateClusterRole` (`EnsureSCCClusterRole`),
`RegisterControllers`; an error exits the process and `Start` is the kubelet. `BecomeLeader`,
`SyncCaches` and `LeaseRunsOut` are controller-runtime, external: a lease is
not given back on exit (the code does not ask for that) but runs out, and a
controller whose watched kind is not served never has its caches filled and
takes the manager down.

### ResourceContract

Generation, observed generation and phase of a resource that users create, edit
and delete: a report is about the generation the resource has at the time, or
it is not made. `ComponentReconciler`, `StorkServer` and `KeaServer` instantiate it
with the fields of their resource (`Contract`), 0 and the empty phase when there
is none, and `KeepsContract` is its specification. What makes it hold is the
optimistic lock of `Status().Update`: the reconcile read the resource long
before. A patch would break it, which is the mutant.

## Runs

`CHECK_DEADLOCK FALSE` but in `startup_no_podmonitor`: once users and failures are
spent, the system rightly comes to rest. Deadlocks that matter are refuted by the
liveness properties instead. Every bound is an entry of `Budget`, or `MaxReplicas`,
`Tries` or the number of `Instances`.

| Run | Bounds | Shows |
|---|---|---|
| `standard` | each kind, 1 replica, 2 configurations, Stork, informers of the resource and ConfigMap lag, 1 edit, 1 fault, 1 pod or container lost, OpenShift | `TypeOK`, `DeploymentPodsRunHashedConfig`, `Converges` |
| `lifecycle` | 2 creations, 1 edit, 1 deletion, 1 fault, 1 object deleted by hand, 1 restart, informer of the resource lags, one configuration cannot be rendered | `ObservedWorkloadIsCurrent`, `QuietMeansBuilt`, `DeletedIsCollected`, `Converges`, `KeepsContract` |
| `ha` | HA turned on and off, 1 or 2 replicas, 3 configurations (one unrenderable, one with bad peers), both map orders, 1 edit, 1 fault | `PeerServicesPrecedePods`, `ObservedWorkloadIsCurrent`, `StatusCatchesUp` |
| `ha_config_lost` (violation) | HA, 1 replica, 1 edit, 1 fault | a swallowed ConfigMap error leaves pods with the new hash on the old configuration |
| `ha_map_order` (violation) | HA, 2 replicas, no edit, no failure | the pod template changes though the spec does not |
| `stork` | 2 ports, the creation and one of: an edit, a fault, a lost pod, a restart; informer of the resource lags, with a DHCP server | `TypeOK`, `AgentsRegister`, `AdminCanLogIn`, `KeepsContract` |
| `stork_lifecycle` | 2 creations, 1 deletion, 1 fault, 1 object deleted by hand, 1 restart, 4 of these together, informer of the admin Secret lags | `KnownSecretsKept` |
| `umbrella` | 2 components (one with two sections, one of them broken), 2 creations, 1 edit, 1 deletion, 1 fault, 1 child changed or deleted by hand, 1 pre-created, 1 failing, 1 restart, 3 of these together, informers of the resource and one child lag | `TypeOK`, `QuietMeansDone`, `ChildrenFollow`, `StatusAggregates`, `Settles`, `KeepsContract` |
| `pod_config` | 14 specs of all kinds, 3 of them HA; 2 ordinals, 2 tries per host name, 2 Secrets, one perhaps absent at first; 2 of: up to two edits, a lost pod, a restarted container, a Service renumbered, a Secret written | `TypeOK`, `PeersAreReachable`, `HACredentialsExpanded`, `ReportedAddressIsAssigned`, `PodsFollowSpec` |
| `pod_placeholders` (violation) | Deployments, no accident | Kea is given the placeholders instead of the credentials |
| `startup` | 3 instances, OpenShift, leader election, any objects there before, 2 faults, 1 crash | `TypeOK`, `SetUpPrecedesControllers`, `ComesUp` |
| `startup_no_podmonitor` (violation) | 2 instances, no failure, PodMonitor not served | no instance ever runs its controllers |

"Together" is `Budget["any"]`, the creation included: every kind of event
happens, and every combination of that many. It is what keeps the state space
small. Three are enough for delete and re-create, and for two accidents during
one life. `stork` has two controllers and two kinds of pods to interleave and
takes one accident; a second one multiplies its states by four. In `pod_config`
two are enough for an accident while the pods of an edit start, and two tries
for an answer between two of them. Both may be edits, the second one to a third
spec or back to the first. The invariants of this run are
proved for any number of edits. Three instances in `startup` are
one that makes the SCC, one that loses the race for it and one that finds it.

Some properties carry a condition because without it the code breaks them; each
is part of the formula, not of the bounds, and the case it leaves out is in the
hazard list. `AgentsRegister` and `AdminCanLogIn` are about the first Secret
of its name (`IsFirst`: not created again, nothing deleted by hand, its informer does not
lag): a token generated anew does not reach the server's running pod, nor a password
the database. `AdminCanLogIn` allows the default password while the pod whose script
failed is the one that runs. `KnownSecretsKept` begins when the informer has seen
the Secret and no reconcile that missed it is about to write (`Known`).
`StatusAggregates` speaks of configured components only: `dhcp4Ready` of a
component without a section can stay true when a child nobody owned was deleted.
`PodsFollowSpec` is about specs whose pods can start (`Startable`) and that the
resource has not had before (`past`): with an edit that is undone, a pod may keep the
configuration in between under the template of the first. It excuses a
pod that ran out of tries for a host name: nobody but who deletes the pod can
help it. `QuietMeansDone` leaves out a child whose informer lags: if a child that
nobody owns is made and removed between two looks of the informer, no event says
so. `QuietMeansBuilt` leaves out lagging objects for the same reason: one
that is made and deleted by hand between two looks leaves no event in the model, whose
informers go straight to the present state. `PeersAreReachable` is about host names of the StatefulSet's form, as
`docs/crds.md` demands of them, in the configuration that the pod has copied, be it
newer than its template. `HACredentialsExpanded` is about pods that copied the
configuration of their template (`HasOwnConfig`): that is needed once an edit can be
undone, since a pod of the first spec that copied the configuration of the second
has the current template again. `ReportedAddressIsAssigned` is about subnets whose
addresses do not pass the last byte and peers without an address of their own.

Two configurations, one edit and one fault suffice for the races that matter: a
stale worker, a current one, and one request between them that goes wrong. The
theorems below carry the safety results to every bound.

Fairness: the work queue hands out requests (`Reconcile`), informers catch up,
the garbage collector and the workload controllers act. That is what
controller-runtime and Kubernetes promise of a running cluster. Nothing is
assumed of users and failures; the budget makes them stop eventually. In
`PodConfig` the kubelet and the workload controllers go on (`RunPod`, `StopPod`) and
the name server learns of Services (`PublishDNS`), but not within any number of
tries; each pod is run on its own (`RunPod(i)`), since kubelets do not wait for each
other. In `StartUp` a process that is up runs on, one that exited is started
again, however often, and the lease of one that is gone runs out.

## Proofs

`ComponentReconcilerProofs`, checked by TLAPS:

- `TypeCorrect`: `Spec => []TypeOK` for all constants that satisfy
  `ConstantsAssumption`.
- `HashNamesLoadedConfig`: if users do not return to an earlier configuration
  (`~Reverts`), `Spec => []DeploymentPodsRunHashedConfig`, for any number of
  replicas, failures, restarts, deletions, edits and any informer lag.

The property is not inductive: that a pod with the current hash has the current
configuration depends on how the pod, the template, the ConfigMap, the worker
and the resource lag behind each other. `ConfigInv` says so, as a chain of
configuration numbers: the cached resource, the snapshot and the ConfigMap are
never ahead of the resource (`CopiesBehind`, `ObjectsBehind`); past the ConfigMap
stage the snapshot's configuration is not ahead of the stored ConfigMap
(`StageFitsMode`, `Horizon`); the template is not ahead of the ConfigMap
(`TemplateBehindConfigMap`); a pod's configuration lies between its template's
and the resource's (`PodsBetween`). If the annotation is the current hash, the
ends of the last interval meet. Each action has a lemma for each group of
conjuncts it can disturb; `ReconcileResourceEffect` summarises what a
create-or-update does to the state, so that the stages need not expand it.

`ComponentWorkloadProofs`:

- `ObservedWorkload`: `Spec => []ObservedWorkloadIsCurrent`. Alone the property says
  nothing of the worker that is about to write a workload, or of the copy it read.
  `WorkloadInv` adds the order of the copies: the worker's is an earlier state of
  the cache's and that of the stored resource (`Older`: an earlier namesake, or an
  earlier generation of this one; `CopiesOlder`); a generation that was observed had
  been read by a worker, so cache and worker have reached it (`ObservedIsCached`);
  the worker is in the branch for the mode of its copy (`BranchFitsMode`), and after
  the workload's stage the workload, if still there, is that of its copy
  (`WorkerHasBuilt`). Steps that do no more to the workloads than remove them are
  proved together (`Aside`).
- `PeerServicesFirst`: if nobody deletes objects by hand (`Budget["tamper"] = 0`),
  `Spec => []PeerServicesPrecedePods`. Without the assumption it is false: a Service
  is deleted and the pod that needs it is still asked for. `PeersInv` adds
  that the StatefulSet is of no newer resource than the worker's, or the next
  worker's (`StatefulSetBehind`), that the Services are not only there but belong to
  the living resource, so that the garbage collector leaves them (`PeersOwned`), and
  that a worker in the loop has written those of the ordinals behind it
  (`PeersWritten`).
- `NothingForgotten`: `Spec => []QuietMeansBuilt`, the safety half of `Converges`: in
  a state where the controller would do nothing more, nothing more is to be done.
  A reconcile stops half way for many reasons, so the property says nothing of the
  states in between; `QuietInv` does, for times when no request is queued. Informers
  that do not lag hold what the API server holds (`CachesExact`); the worker has read
  the resource as it is cached (`WorkerIsCurrent`); what it has passed is as that
  resource asks (`PassedIsBuilt`, with `Ahead` for what is yet to come); it is past
  the check of the spec only with a usable one (`PassedIsValid`); and it ends by
  storing its status (`ObservedAtRest`). A step either leaves a request or is `Onward`:
  it changes nothing watched, and a worker passes an object only if it is
  the desired one. `CallQuiet` is why: whatever a create-or-update call changes is
  an event, and whatever it fails at is returned. `AheadOrder` says that the stages
  visit every required object. `CopiesOlder` is needed for users with a lagging
  cache: an edit never leads back to the copy that is cached.

`StorkServerProofs`:

- `TypeCorrect`, and `ImplementsContract`: `Spec => KeepsContract`, as for the
  components below.
- `KnownSecrets`: `Spec => KnownSecretsKept`, for any set of lagging informers, those
  of the Secrets included. `Known` is what makes the action property inductive: the
  copy the informer has is the Secret, and no worker is at the stage that writes it.
  A step spares a Secret if it only ever removes it and leads no worker to that stage
  (`Spares`), which is true of every step but two: the stage before, which goes there
  only when the cache has no Secret, and the stage itself, which `Known` rules out. A
  namesake finds the Secret in the cache and generates nothing.

`ComponentContractProofs`:

- `ImplementsContract`: `Spec => KeepsContract`, the refinement, for all constants.
  Every step of `ComponentReconciler` that touches the resource is one of the
  contract's under the mapping, the others stutter. The status write needs an
  invariant (`WorkerHasResource`): a worker past its first stage has a
  resource as its snapshot, so that a snapshot equal to the
  stored resource is a living one, with the generation the report names.

`KeaServerProofs`, for every sequence of components:

- `TypeCorrect`, with `WorkerReads` for the position in the loops, and
  `ImplementsContract`: `Spec => KeepsContract`.
- `NothingForgotten`: `Spec => []QuietMeansDone`, the safety half of
  `ChildrenFollow`: in a state where the controller would do nothing more, nothing
  more is to be done. Inductive is `DoneInv`: the cache of a child that does not lag is
  the child (`ChildrenCached`); a living resource has a UID of its own
  (`UidsGiven`); while nothing is queued the worker has read the resource as it is
  cached (`WorkerIsCurrent`), and the children it has been through, or all of them
  when it is past them, are as the spec asks (`ProgressKept`). What disturbs a child either is an event of an owned child, or
  makes one that nobody owns where no section asks for it.

`PodConfigProofs`, for any set of specs, replicas, tries, edits and accidents:

- `TypeCorrect`, `PeersReachable`: `Spec => []PeersAreReachable`,
  `CredentialsInPlace`: `Spec => []HACredentialsExpanded`, `AddressReported`:
  `Spec => []ReportedAddressIsAssigned`. All four rest on one inductive invariant,
  `IInv`, which says of every pod what its scripts have done so far: its template
  is that of a spec that asked for its ordinal (`HasTemplate`); it copied the
  configuration of some HA spec, maybe a newer one (`HasCopied`); each peer in the
  file is as copied or at an address the script may have put there
  (`PeersResolved`, `Resolves`); its environment has its template's variables, with
  a value each Secret has had (`HasEnvironment`); after the script each credential
  is as copied, or the value of its variable (`CredsExpanded`); and Kea runs only
  with a file it accepts (`Accepted`). `Frame` shows that nobody but a pod itself
  disturbs these: addresses and versions only grow.
- The theorems then look at the operators. `AcceptedPeers`: no host name is left in
  a file that Kea accepts. `VariablesOf`, `CredsOf`: a placeholder at a place of
  the configuration names a variable that is taken from the Secret of the database
  at that place, however entries with and without credentials are mixed.
  `CurrentPod`: a running pod of the current template is one of the current
  replicas.

`ResourceContractProofs`, what the contract is worth to a client:

- `Grounded`: `Spec => []StatusIsGrounded`, by `GroundedInv`, which adds that a
  living resource has a positive generation, else `Report` could observe
  generation 0.
- `StatusNeverGoesBack`: `Spec => NeverBack`, since no observed generation is
  ahead of the present one. With the three `ImplementsContract` both hold of the
  status of every custom resource.

`StartUpProofs`:

- `TypeCorrect`, and `SetUpFirst`: `Spec => []SetUpPrecedesControllers` for any
  number of instances, failures and crashes. Inductive is `SetUpInv`: what each
  stage has behind it (`MadeSure`) exists, and nothing is ever removed.

Only model-checked: liveness (`Converges`, `DeletedIsCollected`,
`StatusCatchesUp`, `AgentsRegister`, `AdminCanLogIn`, `ChildrenFollow`,
`StatusAggregates`, `Settles`, `PodsFollowSpec`, `ComesUp`), which TLAPS cannot
prove. Every invariant and every action property of a passing run is a theorem.

## What the runs disagree with

Four runs are violations on purpose, each against a sentence of the
repository; `findings` quotes them. Seen as well, without a run of their own:

- HA turned on or off leaves the workload of the other mode in place
  (`keadhcp4server_controller.go:268` and after); `docs/crds.md:256` says the operator
  switches from a Deployment to a StatefulSet.
- Running is reported for a new generation while `readyReplicas` still counts
  pods of the old template (`keadhcp4server_controller.go:539`); `common_types.go:545`
  reserves Progressing for a component that is still converging.
- When the informer of Secrets lags, `reconcileResource` updates an existing
  admin Secret with a new password (`keastorkserver_controller.go:150`); the
  comment at line 142 says a password is generated on first creation only.
  `KnownSecretsKept` is what remains true.
- A `KeaStorkServer` that is deleted and created again gets a new admin password
  that the database, which outlives it, does not know (`stork_server.go:204`);
  `keastorkserver_types.go:93` says the Secret contains the admin credentials. The
  same holds, until the pod is replaced, when the script fails: nothing reports it.
- `common_types.go:495` says `storkServerRef` overrides `serverURL`;
  `resolveDhcp4StorkAgent` does not look at it when `serverURL` is set.
- `internal/platform/detect.go:50` says the result is cached after the first
  successful probe; a failed one is cached too.
- `status.nadAddresses` is computed from the subnet alone
  (`keadhcp4server_controller.go:536`): without an interface, and with other
  addresses when peers have their own; `keadhcp4server_types.go:400` says it has
  the addresses assigned, and only with an interface.
- A Deployment with a secondary interface and credentials joins a command of
  several arguments into one line for `exec` (`deployment.go:327`), which is not
  the command any more (`ExecsKea`).
- A peer URL with a host of the user's gets the address of the per-pod Service
  in its place (`PeerHostnameMap`); `docs/ha.md:128` says it may be set freely,
  `docs/crds.md:432` that it must have the StatefulSet's form.

## Not modelled, and the plan

Not modelled:

- the console plugin: its backend forwards one request to a Kea agent and keeps
  nothing, its front end is presentation;
- the manifests, which are data;
- in the builders, labels, ports, security contexts, affinity and the bodies of
  Services, PodMonitor and Route; in the renderers, the names of fields;
- deep copies, which are generated.

Next, in this order:

1. The safety half of `AgentsRegister` and `DeletedIsCollected`.
2. What the status may say of the children (`StatusAggregates`) at rest.
