---------------------------- MODULE StorkServer ----------------------------
(***************************************************************************)
(* A KeaStorkServer resource, its controller, and a DHCP server resource   *)
(* whose Stork agent sidecar registers with that server.                   *)
(*                                                                         *)
(* The controller generates two secrets, the admin password and the token  *)
(* agents register with, and keeps them in Secrets. The password also ends *)
(* up in the server's database, which outlives everything here, and the    *)
(* token in two kinds of pods: those of the server read the Secret when    *)
(* they start; those of the agents get the value that the DHCP controller  *)
(* last read through its cache, in their pod template. Nothing but the     *)
(* order of the stages and the events of the resource keeps these copies   *)
(* equal.                                                                  *)
(***************************************************************************)
EXTENDS Naturals

CONSTANTS
  Ports,      \* the ports a user may give the server
  NewPorts,   \* the ones among them that it is created with
  Values,     \* the random passwords and tokens
  OpenShift,  \* platform.Detector found the OpenShift API
  Dependents, \* is there a DHCP server with a Stork agent in the namespace?
  Lagging,    \* the objects (and the resource) whose informer may lag
  Budget,     \* how often each event of the environment may happen
  None        \* no value

Secrets == {"admin", "token"}
Objects == Secrets \cup {"sa", "deploy", "svc", "route"}
\* What the environment may do, and "any" for all of it together.
Events == {"create", "edit", "delete", "fault", "lose", "tamper", "restart", "any"}

ASSUME ConstantsAssumption ==
  /\ Ports \subseteq Nat \ {0} /\ NewPorts \subseteq Ports
  /\ Values \subseteq Nat \ {0}
  /\ OpenShift \in BOOLEAN /\ Dependents \in BOOLEAN
  /\ Lagging \subseteq Objects \cup {"cr"}
  /\ Budget \in [Events -> Nat]
  /\ None \notin Nat

VARIABLES
  srv,       \* the KeaStorkServer in the API server
  srvCache,  \* the cached copy of it
  obj,       \* the owned objects in the API server
  cache,     \* the cached copies of them
  queued,    \* its request is in the controller's work queue
  pc,        \* the stage of the reconcile in progress, "idle" if none
  snap,      \* the resource as that reconcile read it
  gen,       \* the password or token that reconcile has generated
  seen,      \* the ready replicas it has read
  ready,     \* status.readyReplicas of the server's Deployment
  server,    \* the server's pod
  db,        \* the admin password in the server's database
  dqueued,   \* the DHCP server's request is in that controller's work queue
  dpc,       \* the stage of the DHCP server's reconcile
  found,     \* the Stork server that reconcile discovered: its port
  tokenRead, \* the token it read
  agentTpl,  \* the sidecar in the DHCP server's pod template
  agent,     \* the sidecar in the DHCP server's pod
  budget     \* what is left of Budget

stork == <<pc, snap, gen, seen>>
dhcp == <<dpc, found, tokenRead>>
agents == <<agentTpl, agent>>
serverPod == <<ready, server, db>>
vars == <<srv, srvCache, obj, cache, queued, stork, serverPod, dqueued, dhcp, agents, budget>>

Absent == [owner |-> 0, val |-> None]
Present(o) == obj[o] # Absent
Built == 0

NoStatus == [phase |-> "", observed |-> 0, ready |-> 0, url |-> ""]
NoServer == [live |-> FALSE, uid |-> 0, gen |-> 0, port |-> 0, status |-> NoStatus]
NoPod == [port |-> 0, admin |-> 0, token |-> 0, ready |-> FALSE, set |-> "no"]
\* A sidecar without a server runs for Prometheus only; token 0 is no token.
Alone == [port |-> 0, token |-> 0]
\* The password the database is set up with.
DefaultPassword == 0

Spend(e) ==
  /\ budget[e] > 0 /\ budget["any"] > 0
  /\ budget' = [budget EXCEPT ![e] = @ - 1, !["any"] = @ - 1]

Goto(stage) == pc' = stage /\ gen' = 0 /\ UNCHANGED <<snap, seen>>
Return == pc' = "idle" /\ snap' = NoServer /\ gen' = 0 /\ seen' = 0

----------------------------------------------------------------------------
\* The API server

Watched(o) == o # "route"
Got(o) == IF o = "route" THEN obj[o] ELSE cache[o]
Defaulted(o) == o \in {"deploy", "svc", "route"}

CacheAfter(o, w) == IF o \in Lagging THEN cache ELSE [cache EXCEPT ![o] = w]
Notified(o, w) == o \notin Lagging /\ Watched(o) /\ w # obj[o]

\* One create-or-update call and what its caller makes of an error.
Call(o, w, changes, fails, fatal, stage) ==
  /\ obj' = IF changes THEN [obj EXCEPT ![o] = w] ELSE obj
  /\ cache' = IF changes THEN CacheAfter(o, w) ELSE cache
  /\ queued' = (queued \/ (changes /\ Notified(o, w)) \/ (fails /\ fatal))
  /\ IF fails /\ fatal THEN Return ELSE Goto(stage)
  /\ UNCHANGED <<srv, srvCache, serverPod, dqueued, dhcp, agents>>

\* reconcileResource reads the object (again), and writes what it was given.
reconcileResource(o, v, fatal, stage) ==
  LET w == [owner |-> snap.uid, val |-> v]
      same == Got(o) = w /\ ~Defaulted(o)
      current == Got(o) = obj[o]
  IN \/ /\ same
        /\ Call(o, w, FALSE, FALSE, fatal, stage) /\ UNCHANGED budget
     \/ /\ ~same /\ current
        /\ Call(o, w, TRUE, FALSE, fatal, stage) /\ UNCHANGED budget
     \/ /\ ~same /\ ~current
        /\ Call(o, w, FALSE, TRUE, fatal, stage) /\ UNCHANGED budget
     \/ /\ ~same /\ Spend("fault")
        /\ \E done \in {FALSE, current} : Call(o, w, done, TRUE, fatal, stage)

\* The events of a KeaStorkServer go to its own controller and, mapped by
\* enqueueStorkDependents, to every DHCP server with a Stork agent.
enqueueStorkDependentsOnSpec(new) ==
  dqueued' = (dqueued \/ (Dependents /\ (new.gen # srv.gen \/ new.live # srv.live)))

enqueueStorkDependents(new) == dqueued' = (dqueued \/ Dependents)

\* A write of the resource, and whether its answer is lost.
StoreServer(new, fails) ==
  LET event == "cr" \notin Lagging /\ new # srv
  IN /\ srv' = new
     /\ srvCache' = IF event THEN new ELSE srvCache
     /\ queued' = (queued \/ event \/ fails)
     /\ IF event THEN enqueueStorkDependents(new) ELSE UNCHANGED dqueued

----------------------------------------------------------------------------
\* The controller of the KeaStorkServer

BeginReconcile ==
  /\ pc = "idle" /\ queued
  /\ queued' = FALSE
  /\ IF srvCache.live THEN pc' = "sa" /\ snap' = srvCache ELSE UNCHANGED <<pc, snap>>
  /\ UNCHANGED <<srv, srvCache, obj, cache, gen, seen, serverPod, dqueued, dhcp, agents, budget>>

ReconcileServiceAccount ==
  /\ pc = "sa"
  /\ reconcileResource("sa", Built, TRUE, "admin")

\* Where a password or token may be found; a random one is none of these.
InUse(o) ==
  {obj[o].val, cache[o].val} \cup
    (IF o = "admin" THEN {server.admin, db}
                    ELSE {server.token, tokenRead, agentTpl.token, agent.token})

\* Values is a bound: it has more members than there are places.
Generate(o) == Values \ InUse(o) # {} /\ gen' = CHOOSE v \in Values \ InUse(o) : TRUE

GetSecretUnlessOwned(o, write, next) ==
  /\ pc = o
  /\ IF cache[o].owner # snap.uid
       THEN pc' = write /\ Generate(o) /\ UNCHANGED <<snap, seen>>
       ELSE Goto(next)
  /\ UNCHANGED <<srv, srvCache, obj, cache, queued, serverPod, dqueued, dhcp, agents, budget>>

\* The Get that decides whether to generate. A Secret that is found is left
\* as it is, whoever owns it.
GetSecret(o, write, next) ==
  /\ pc = o
  /\ IF cache[o] = Absent
       THEN pc' = write /\ Generate(o) /\ UNCHANGED <<snap, seen>>
       ELSE Goto(next)
  /\ UNCHANGED <<srv, srvCache, obj, cache, queued, serverPod, dqueued, dhcp, agents, budget>>

GetAdminSecret == GetSecret("admin", "create admin", "token")

ReconcileAdminSecret ==
  /\ pc = "create admin"
  /\ reconcileResource("admin", gen, TRUE, "token")

GetTokenSecret == GetSecret("token", "create token", "deploy")

ReconcileTokenSecret ==
  /\ pc = "create token"
  /\ reconcileResource("token", gen, TRUE, "deploy")

\* The pod template names the Secrets, so it changes with the port only.
ReconcileDeployment ==
  /\ pc = "deploy"
  /\ reconcileResource("deploy", snap.port, TRUE, "svc")

ReconcileService ==
  /\ pc = "svc"
  /\ reconcileResource("svc", snap.port, TRUE, IF OpenShift THEN "route" ELSE "ready")

ReconcileRoute ==
  /\ pc = "route"
  /\ reconcileResource("route", Built, FALSE, "ready")

ReadReadyReplicas ==
  /\ pc = "ready"
  /\ seen' = IF cache["deploy"] = Absent THEN 0 ELSE ready
  /\ pc' = "status"
  /\ UNCHANGED <<srv, srvCache, obj, cache, queued, snap, gen, serverPod, dqueued, dhcp,
                 agents, budget>>

NewStatusReadyPhase ==
  [phase |-> IF seen = 1 THEN "Ready" ELSE "Progressing",
   observed |-> snap.gen, ready |-> seen,
   url |-> IF ~OpenShift THEN snap.status.url
           ELSE IF Present("route") THEN "route" ELSE "guess"]

\* The URL is a guess until the Route can be read.
NewStatus ==
  [phase |-> IF seen = 1 THEN "Running" ELSE "Progressing",
   observed |-> snap.gen, ready |-> seen,
   url |-> IF ~OpenShift THEN snap.status.url
           ELSE IF Present("route") THEN "route" ELSE "guess"]

UpdateStatusByPatch ==
  /\ pc = "status"
  /\ StoreServer([srv EXCEPT !.status = NewStatus], FALSE)
  /\ Return
  /\ UNCHANGED <<obj, cache, serverPod, dhcp, agents, budget>>

UpdateStatus ==
  /\ pc = "status"
  /\ \/ /\ snap = srv /\ UNCHANGED budget
        /\ StoreServer([srv EXCEPT !.status = NewStatus], FALSE)
     \/ /\ snap = srv /\ Spend("fault")
        /\ StoreServer([srv EXCEPT !.status = NewStatus], TRUE)
     \/ /\ snap # srv /\ UNCHANGED budget
        /\ queued' = TRUE /\ UNCHANGED <<srv, srvCache, dqueued>>
     \/ /\ Spend("fault")
        /\ queued' = TRUE /\ UNCHANGED <<srv, srvCache, dqueued>>
  /\ Return
  /\ UNCHANGED <<obj, cache, serverPod, dhcp, agents>>

Reconcile ==
  \/ BeginReconcile \/ ReconcileServiceAccount \/ GetAdminSecret \/ ReconcileAdminSecret
  \/ GetTokenSecret \/ ReconcileTokenSecret \/ ReconcileDeployment \/ ReconcileService
  \/ ReconcileRoute \/ ReadReadyReplicas \/ UpdateStatus

----------------------------------------------------------------------------
\* The controller of the DHCP server, as far as its Stork agent is concerned

dhcpLeaves == UNCHANGED <<srv, srvCache, obj, cache, queued, stork, serverPod, agent>>

\* resolveStorkServer: the server in the namespace, if the cache has one.
resolveStorkServer ==
  /\ dpc = "idle" /\ dqueued
  /\ dqueued' = FALSE
  /\ IF srvCache.live THEN found' = srvCache.port /\ dpc' = "token"
                      ELSE found' = 0 /\ dpc' = "write"
  /\ tokenRead' = 0
  /\ dhcpLeaves /\ UNCHANGED <<agentTpl, budget>>

\* resolveSecretValue: a token that cannot be read is none; the error is dropped.
resolveSecretValue ==
  /\ dpc = "token"
  /\ tokenRead' = IF cache["token"] = Absent THEN 0 ELSE cache["token"].val
  /\ dpc' = "write"
  /\ dhcpLeaves /\ UNCHANGED <<dqueued, found, agentTpl, budget>>

\* The sidecar goes into the workload, whose event brings the request back. A
\* write that fails does, too.
ReconcileAgent ==
  /\ dpc = "write"
  /\ LET new == [port |-> found, token |-> tokenRead]
     IN \/ /\ agentTpl' = new
           /\ dqueued' = (dqueued \/ new # agentTpl)
           /\ UNCHANGED budget
        \/ /\ Spend("fault")
           /\ agentTpl' \in {agentTpl, new}
           /\ dqueued' = TRUE
  /\ dpc' = "idle" /\ found' = 0 /\ tokenRead' = 0
  /\ dhcpLeaves

ReconcileDhcp == resolveStorkServer \/ resolveSecretValue \/ ReconcileAgent

----------------------------------------------------------------------------
\* Informers, the operator process, users

SyncServer ==
  /\ srvCache # srv
  /\ srvCache' = srv /\ queued' = TRUE /\ enqueueStorkDependents(srv)
  /\ UNCHANGED <<srv, obj, cache, stork, serverPod, dhcp, agents, budget>>

SyncObject(o) ==
  /\ cache[o] # obj[o]
  /\ cache' = [cache EXCEPT ![o] = obj[o]]
  /\ queued' = (queued \/ Watched(o))
  /\ UNCHANGED <<srv, srvCache, obj, stork, serverPod, dqueued, dhcp, agents, budget>>

\* Both controllers run in the same process.
Restart ==
  /\ Spend("restart")
  /\ Return /\ dpc' = "idle" /\ found' = 0 /\ tokenRead' = 0
  /\ srvCache' = srv /\ cache' = obj /\ queued' = TRUE /\ dqueued' = Dependents
  /\ UNCHANGED <<srv, obj, serverPod, agents>>

UserChange(new) ==
  /\ StoreServer(new, FALSE)
  /\ UNCHANGED <<obj, cache, stork, serverPod, dhcp, agents>>

CreateServer ==
  /\ ~srv.live /\ Spend("create")
  /\ \E p \in NewPorts : UserChange([live |-> TRUE, uid |-> srv.uid + 1, gen |-> 1,
                                     port |-> p, status |-> NoStatus])

EditPort ==
  /\ srv.live /\ Spend("edit")
  /\ \E p \in Ports \ {srv.port} : UserChange([srv EXCEPT !.gen = @ + 1, !.port = p])

DeleteServer ==
  /\ srv.live /\ Spend("delete")
  /\ UserChange([srv EXCEPT !.live = FALSE])

----------------------------------------------------------------------------
\* Kubernetes and the pods

Remove(o) ==
  /\ obj' = [obj EXCEPT ![o] = Absent]
  /\ cache' = CacheAfter(o, Absent)
  /\ queued' = (queued \/ Notified(o, Absent))
  /\ ready' = IF o = "deploy" THEN 0 ELSE ready
  /\ UNCHANGED <<srv, srvCache, stork, server, db, dqueued, dhcp, agents>>

GarbageCollect(o) ==
  /\ Present(o) /\ ~(srv.live /\ obj[o].owner = srv.uid)
  /\ Remove(o) /\ UNCHANGED budget

Tamper(o) ==
  /\ Present(o) /\ Spend("tamper")
  /\ Remove(o)

podLeaves == UNCHANGED <<srv, srvCache, obj, cache, stork, dqueued, dhcp>>

\* The environment variables take the values the Secrets have now.
StartServer ==
  /\ server = NoPod
  /\ \A o \in {"deploy", "sa"} \cup Secrets : Present(o)
  /\ server' = [port |-> obj["deploy"].val, admin |-> obj["admin"].val,
                token |-> obj["token"].val, ready |-> FALSE, set |-> "no"]
  /\ podLeaves /\ UNCHANGED <<queued, ready, db, agents, budget>>

ServerReady ==
  /\ server # NoPod /\ ~server.ready
  /\ server' = [server EXCEPT !.ready = TRUE]
  /\ podLeaves /\ UNCHANGED <<queued, ready, db, agents, budget>>

SetAdminPasswordNoFallback ==
  /\ server # NoPod /\ server.set = "no"
  /\ server' = [server EXCEPT !.set = "done"]
  /\ podLeaves /\ UNCHANGED <<queued, ready, db, agents, budget>>

\* The wrapper script, once in the life of a container: if the password of the
\* Secret does not log in, log in with the default one and change it. When the
\* server is not up after the last try, or a request fails, the script goes on.
SetAdminPassword ==
  /\ server # NoPod /\ server.set = "no"
  /\ \/ /\ server' = [server EXCEPT !.set = "done"]
        /\ db' = IF db = DefaultPassword THEN server.admin ELSE db
        /\ UNCHANGED budget
     \/ /\ Spend("fault")
        /\ server' = [server EXCEPT !.set = "failed"] /\ UNCHANGED db
  /\ podLeaves /\ UNCHANGED <<queued, ready, agents>>

StopServer ==
  /\ server # NoPod /\ ~(Present("deploy") /\ obj["deploy"].val = server.port)
  /\ server' = NoPod
  /\ podLeaves /\ UNCHANGED <<queued, ready, db, agents, budget>>

LoseServer ==
  /\ server # NoPod /\ Spend("lose")
  /\ server' = NoPod
  /\ podLeaves /\ UNCHANGED <<queued, ready, db, agents>>

ReadyPods == IF server.ready THEN 1 ELSE 0

PublishReady ==
  /\ Present("deploy") /\ ready # ReadyPods
  /\ ready' = ReadyPods /\ queued' = TRUE
  /\ podLeaves /\ UNCHANGED <<server, db, agents, budget>>

\* The DHCP server's pod is replaced when its template changes.
RollAgent ==
  /\ agent # agentTpl
  /\ agent' = agentTpl
  /\ podLeaves /\ UNCHANGED <<queued, serverPod, agentTpl, budget>>

----------------------------------------------------------------------------
Init ==
  /\ srv = NoServer /\ srvCache = NoServer
  /\ obj = [o \in Objects |-> Absent] /\ cache = [o \in Objects |-> Absent]
  /\ queued = FALSE /\ pc = "idle" /\ snap = NoServer /\ gen = 0 /\ seen = 0
  /\ ready = 0 /\ server = NoPod /\ db = DefaultPassword
  /\ dqueued = Dependents /\ dpc = "idle" /\ found = 0 /\ tokenRead = 0
  /\ agentTpl = Alone /\ agent = Alone
  /\ budget = Budget

Informers == SyncServer \/ \E o \in Objects : SyncObject(o)
Users == CreateServer \/ EditPort \/ DeleteServer
RunServer == StartServer \/ ServerReady \/ SetAdminPassword \/ StopServer
Cluster == (\E o \in Objects : GarbageCollect(o)) \/ RunServer \/ PublishReady \/ RollAgent
Failures == Restart \/ LoseServer \/ \E o \in Objects : Tamper(o)

Next == Reconcile \/ ReconcileDhcp \/ Informers \/ Users \/ Cluster \/ Failures

Spec == Init /\ [][Next]_vars

\* As for the component controllers; the two controllers have a worker each.
Fairness ==
  /\ WF_vars(Reconcile) /\ WF_vars(ReconcileDhcp)
  /\ WF_vars(SyncServer) /\ \A o \in Lagging \ {"cr"} : WF_vars(SyncObject(o))
  /\ WF_vars(\E o \in Objects : GarbageCollect(o))
  /\ WF_vars(RunServer) /\ WF_vars(PublishReady) /\ WF_vars(RollAgent)

FairSpec == Spec /\ Fairness

----------------------------------------------------------------------------
\* Properties

Stages == {"idle", "sa", "admin", "create admin", "token", "create token", "deploy", "svc",
           "route", "ready", "status"}
StatusType == [phase: {"", "Running", "Progressing"}, observed: Nat, ready: {0, 1},
               url: {"", "guess", "route"}]
ServerType == [live: BOOLEAN, uid: Nat, gen: Nat, port: Nat, status: StatusType]
ObjectType == [owner: Nat, val: Nat \cup {None}]
SidecarType == [port: Nat, token: Nat]

\* Every variable has its type.
TypeOK ==
  /\ srv \in ServerType /\ srvCache \in ServerType /\ snap \in ServerType
  /\ obj \in [Objects -> ObjectType] /\ cache \in [Objects -> ObjectType]
  /\ \A o \in Objects : /\ obj[o].val = None => obj[o] = Absent
                        /\ cache[o].val = None => cache[o] = Absent
  /\ queued \in BOOLEAN /\ dqueued \in BOOLEAN
  /\ pc \in Stages /\ gen \in Nat /\ seen \in {0, 1} /\ ready \in {0, 1}
  /\ server \in [port: Nat, admin: Nat, token: Nat, ready: BOOLEAN,
                set: {"no", "done", "failed"}]
  /\ db \in Nat
  /\ dpc \in {"idle", "token", "write"} /\ found \in Nat /\ tokenRead \in Nat
  /\ agentTpl \in SidecarType /\ agent \in SidecarType
  /\ budget \in [Events -> Nat]

\* The stage that writes a Secret which the stage before did not find.
Writing(o) == IF o = "admin" THEN "create admin" ELSE "create token"

\* The informer has the Secret as it is, and no reconcile that missed it is about to
\* write one.
Known(o) == Present(o) /\ cache[o] = obj[o] /\ pc # Writing(o)

\* Once the controller knows of a password or token, that is the one until somebody
\* deletes the Secret: whatever is edited, fails, is restarted, or deleted and created
\* again under the same name, no reconcile generates another in its place. Before
\* the informer has seen the Secret, one may.
KnownSecretsKept ==
  [][\A o \in Secrets :
       Known(o) => obj'[o] = Absent \/ (obj'[o] = obj[o] /\ Known(o)')]_vars

\* The Secret is the first of its name: the resource was not created again, nothing
\* was deleted by hand, and the informer does not lag, so that none was overwritten.
IsFirst(o) == srv.uid = 1 /\ budget["tamper"] = Budget["tamper"] /\ o \notin Lagging

\* Agents find the server: in the end the sidecar has the port of the resource
\* and the token that the server's pod accepts, as long as it is the first one; a
\* later one need not reach pods that run.
AgentsRegister ==
  <>[](srv.live /\ IsFirst("token") =>
         /\ agent = [port |-> srv.port, token |-> server.token]
         /\ server.token # 0 /\ server.port = srv.port)

\* The first Secret that the status names logs the admin in, in the end, whatever
\* went wrong while it was generated and pods started and stopped: the password in
\* the database is that of the Secret, or still the default one and the script of
\* the pod that runs has failed. (The database does not learn of a later Secret.)
AdminCanLogIn ==
  <>[](srv.live /\ IsFirst("admin") =>
         db = obj["admin"].val \/ (db = DefaultPassword /\ server.set = "failed"))

\* The resource as its clients see it, and the contract its controller keeps:
\* a status is only ever stored with the generation it was computed from, and
\* never over a newer one, whatever the cache held when the reconcile began.
Contract ==
  INSTANCE ResourceContract
    WITH Phases <- {"Running", "Progressing"}, live <- srv.live,
         gen <- IF srv.live THEN srv.gen ELSE 0,
         observed <- IF srv.live THEN srv.status.observed ELSE 0,
         phase <- IF srv.live THEN srv.status.phase ELSE ""

\* The status of a KeaStorkServer keeps ResourceContract: the write at the end of a
\* reconcile is refused unless the resource is still the one that was read, so a
\* status is never of an older generation or of a deleted namesake.
KeepsContract == Contract!Spec
============================================================================
