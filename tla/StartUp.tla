------------------------------ MODULE StartUp ------------------------------
(***************************************************************************)
(* The start of the operator, in one or more instances at a time (replicas *)
(* of its Deployment, or the old and the new pod of a rollout): find out   *)
(* the platform, make the namespace and, on OpenShift, the security        *)
(* context constraints (SCC) and their ClusterRole, register the           *)
(* controllers, become the leader, and fill the caches. An error on the    *)
(* way ends the process, and the kubelet starts it again.                  *)
(***************************************************************************)
EXTENDS Naturals, FiniteSets

CONSTANTS
  Instances,       \* the instances of the operator
  OpenShift,       \* the cluster serves the API group route.openshift.io
  LeaderElection,  \* the flag --leader-elect
  PodMonitorCRD,   \* the cluster serves monitoring.coreos.com
  Budget,          \* how often each event of the environment may happen
  None             \* no instance

Objects == {"namespace", "scc", "clusterrole"}
Events == {"fault", "crash"}

ASSUME ConstantsAssumption ==
  /\ IsFiniteSet(Instances) /\ None \notin Instances
  /\ OpenShift \in BOOLEAN /\ LeaderElection \in BOOLEAN /\ PodMonitorCRD \in BOOLEAN
  /\ Budget \in [Events -> Nat]

VARIABLES
  pc,          \* where each instance is
  isOpenShift, \* what each instance takes the platform for
  exists,      \* the objects in the API server
  lease,       \* the instance that holds the leader's lease
  budget       \* what is left of Budget

vars == <<pc, isOpenShift, exists, lease, budget>>

Stages == {"detect", "namespace", "getSCC", "createSCC", "getRole", "createRole", "register",
           "elect", "sync", "active"}

Spend(e) == budget[e] > 0 /\ budget' = [budget EXCEPT ![e] = @ - 1]

Goto(p, stage) == pc' = [pc EXCEPT ![p] = stage]
Exit(p) == pc' = [pc EXCEPT ![p] = "down"]

----------------------------------------------------------------------------
\* The kubelet starts the process.
Start(p) ==
  /\ pc[p] = "down" /\ Goto(p, "detect")
  /\ UNCHANGED <<isOpenShift, exists, lease, budget>>

IsOpenShiftOrUnknown(p) ==
  /\ pc[p] = "detect" /\ Goto(p, "namespace")
  /\ \/ isOpenShift' = [isOpenShift EXCEPT ![p] = OpenShift] /\ UNCHANGED budget
     \/ isOpenShift' = [isOpenShift EXCEPT ![p] = None] /\ Spend("fault")
  /\ UNCHANGED <<exists, lease>>

\* The detector asks once; an error means that this is not OpenShift.
IsOpenShift(p) ==
  /\ pc[p] = "detect" /\ Goto(p, "namespace")
  /\ \/ isOpenShift' = [isOpenShift EXCEPT ![p] = OpenShift] /\ UNCHANGED budget
     \/ isOpenShift' = [isOpenShift EXCEPT ![p] = FALSE] /\ Spend("fault")
  /\ UNCHANGED <<exists, lease>>

\* A Create: it is carried out, or refused because the object is there; or it
\* fails, carried out or not, and the process ends.
Create(p, o, acceptsExisting, next) ==
  \/ /\ exists' = exists \cup {o} /\ UNCHANGED budget
     /\ IF o \in exists /\ ~acceptsExisting THEN Exit(p) ELSE Goto(p, next)
  \/ /\ Spend("fault") /\ exists' \in {exists, exists \cup {o}}
     /\ Exit(p)

EnsureDefaultNamespaceStrictly(p) ==
  /\ pc[p] = "namespace"
  /\ Create(p, "namespace", FALSE, IF isOpenShift[p] THEN "getSCC" ELSE "register")
  /\ UNCHANGED <<isOpenShift, lease>>

EnsureDefaultNamespace(p) ==
  /\ pc[p] = "namespace"
  /\ Create(p, "namespace", TRUE, IF isOpenShift[p] THEN "getSCC" ELSE "register")
  /\ UNCHANGED <<isOpenShift, lease>>

\* EnsureSCC: an error of the Get ends the process, and so does an SCC another
\* instance has made since.
GetSCC(p) ==
  /\ pc[p] = "getSCC"
  /\ \/ Goto(p, IF "scc" \in exists THEN "getRole" ELSE "createSCC") /\ UNCHANGED budget
     \/ Exit(p) /\ Spend("fault")
  /\ UNCHANGED <<isOpenShift, exists, lease>>

CreateSCCLogged(p) ==
  /\ pc[p] = "createSCC"
  /\ \/ exists' = exists \cup {"scc"} /\ UNCHANGED budget
     \/ Spend("fault") /\ UNCHANGED exists
  /\ Goto(p, "getRole")
  /\ UNCHANGED <<isOpenShift, lease>>

CreateSCC(p) ==
  /\ pc[p] = "createSCC"
  /\ Create(p, "scc", FALSE, "getRole")
  /\ UNCHANGED <<isOpenShift, lease>>

\* EnsureSCCClusterRole: any error of the Get is taken for an absent role.
GetClusterRole(p) ==
  /\ pc[p] = "getRole"
  /\ \/ Goto(p, IF "clusterrole" \in exists THEN "register" ELSE "createRole") /\ UNCHANGED budget
     \/ Goto(p, "createRole") /\ Spend("fault")
  /\ UNCHANGED <<isOpenShift, exists, lease>>

CreateClusterRole(p) ==
  /\ pc[p] = "createRole"
  /\ Create(p, "clusterrole", TRUE, "register")
  /\ UNCHANGED <<isOpenShift, lease>>

\* Controllers and health checks are registered, the manager starts.
RegisterControllers(p) ==
  /\ pc[p] = "register" /\ Goto(p, "elect")
  /\ UNCHANGED <<isOpenShift, exists, lease, budget>>

----------------------------------------------------------------------------
\* The manager

\* With leader election the controllers of one instance are started.
BecomeLeader(p) ==
  /\ pc[p] = "elect" /\ (LeaderElection => lease = None)
  /\ lease' = IF LeaderElection THEN p ELSE lease
  /\ Goto(p, "sync")
  /\ UNCHANGED <<isOpenShift, exists, budget>>

\* The controllers of KeaDhcp4Server and KeaDhcp6Server watch PodMonitors: when
\* the kind is not served, their caches never fill and the manager gives up.
SyncCaches(p) ==
  /\ pc[p] = "sync"
  /\ IF PodMonitorCRD THEN Goto(p, "active") ELSE Exit(p)
  /\ UNCHANGED <<isOpenShift, exists, lease, budget>>

\* The lease is not given back; it runs out when its holder is gone.
LeaseRunsOut ==
  /\ lease # None /\ pc[lease] \notin {"sync", "active"}
  /\ lease' = None
  /\ UNCHANGED <<pc, isOpenShift, exists, budget>>

Crash(p) ==
  /\ pc[p] # "down" /\ Spend("crash") /\ Exit(p)
  /\ UNCHANGED <<isOpenShift, exists, lease>>

Init ==
  /\ pc = [p \in Instances |-> "down"]
  /\ isOpenShift = [p \in Instances |-> FALSE]
  /\ exists \in SUBSET Objects
  /\ lease = None
  /\ budget = Budget

Step(p) ==
  \/ Start(p) \/ IsOpenShift(p) \/ EnsureDefaultNamespace(p) \/ GetSCC(p) \/ CreateSCC(p)
  \/ GetClusterRole(p) \/ CreateClusterRole(p) \/ RegisterControllers(p)
  \/ BecomeLeader(p) \/ SyncCaches(p)

Next == LeaseRunsOut \/ \E p \in Instances : Step(p) \/ Crash(p)

Spec == Init /\ [][Next]_vars

\* Processes run, and are started again however often they have exited.
FairSpec == Spec /\ WF_vars(LeaseRunsOut) /\ \A p \in Instances : WF_vars(Step(p))

----------------------------------------------------------------------------
\* Properties

\* Every variable has its type.
TypeOK ==
  /\ pc \in [Instances -> Stages \cup {"down"}]
  /\ isOpenShift \in [Instances -> BOOLEAN]
  /\ exists \subseteq Objects
  /\ lease \in Instances \cup {None}
  /\ budget \in [Events -> Nat]

\* An instance whose controllers run has made sure of, or found, all its pods
\* need: the namespace and, where it takes the cluster for OpenShift, the SCC
\* and the ClusterRole that lets it be used, although it may have been another
\* instance that made them, or an earlier life of its own whose request failed.
SetUpPrecedesControllers ==
  \A p \in Instances : pc[p] \in {"elect", "sync", "active"} =>
    /\ "namespace" \in exists
    /\ isOpenShift[p] => {"scc", "clusterrole"} \subseteq exists

\* When failures come to rest the operator runs, and no instance exits again and
\* again: whoever lost the race for the SCC finds it at the next start. Either
\* one instance leads and the others wait, or all run.
ComesUp ==
  <>[](/\ \A p \in Instances : pc[p] \in {"elect", "active"}
       /\ \E p \in Instances : pc[p] = "active"
       /\ ~LeaderElection => \A p \in Instances : pc[p] = "active")
============================================================================
