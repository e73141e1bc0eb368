------------------------- MODULE StorkServerProofs -------------------------
(***************************************************************************)
(* Theorems about StorkServer, for any set of ports, any lag of the        *)
(* informers and any number of edits, faults and restarts.                 *)
(***************************************************************************)
EXTENDS StorkServer, TLAPS

----------------------------------------------------------------------------
\* Type correctness

PodType == [port: Nat, admin: Nat, token: Nat, ready: BOOLEAN, set: {"no", "done", "failed"}]

\* The parts of TypeOK that the actions leave alone or change together.
ServerOK == srv \in ServerType /\ srvCache \in ServerType
WorkerOK == snap \in ServerType /\ pc \in Stages /\ gen \in Nat /\ seen \in {0, 1}
ObjectsOK(f) ==
  /\ f \in [Objects -> ObjectType]
  /\ \A o \in Objects : f[o].val = None => f[o] = Absent
PodOK == ready \in {0, 1} /\ server \in PodType /\ db \in Nat
DhcpOK == dpc \in {"idle", "token", "write"} /\ found \in Nat /\ tokenRead \in Nat
AgentsOK == agentTpl \in SidecarType /\ agent \in SidecarType
BudgetOK == budget \in [Events -> Nat]

\* All of them together.
Parts ==
  /\ ServerOK /\ WorkerOK /\ ObjectsOK(obj) /\ ObjectsOK(cache)
  /\ queued \in BOOLEAN /\ dqueued \in BOOLEAN
  /\ PodOK /\ DhcpOK /\ AgentsOK /\ BudgetOK

\* They make up TypeOK, before a step and after it.
LEMMA TypeParts == (TypeOK <=> Parts) /\ (TypeOK' <=> Parts')
BY DEF Parts, TypeOK, ServerOK, WorkerOK, ObjectsOK, PodOK, DhcpOK, AgentsOK, BudgetOK, PodType

\* What is there before anything is created has its type.
LEMMA NothingType ==
  /\ NoServer \in ServerType /\ NoStatus \in StatusType /\ NoPod \in PodType
  /\ Alone \in SidecarType /\ Absent \in ObjectType
<1>1. NoStatus \in StatusType
  BY DEF NoStatus, StatusType
<1>2. NoServer \in ServerType
  BY <1>1 DEF NoServer, ServerType
<1> QED
  BY <1>1, <1>2 DEF NoPod, PodType, Alone, SidecarType, Absent, ObjectType

\* Spending leaves a budget.
LEMMA SpendType ==
  ASSUME TypeOK, NEW e \in Events \ {"any"}, Spend(e)
  PROVE  budget' \in [Events -> Nat]
<1>1. budget \in [Events -> Nat] /\ "any" \in Events /\ e # "any"
      /\ budget[e] > 0 /\ budget["any"] > 0
      /\ budget' = [budget EXCEPT ![e] = @ - 1, !["any"] = @ - 1]
  BY DEF Spend, TypeOK, Events
<1> QED
  BY <1>1

\* A create-or-update writes what it was given, or nothing.
LEMMA WriteType ==
  ASSUME TypeOK, NEW o \in Objects, NEW v \in Nat, NEW fatal \in BOOLEAN, NEW stage \in Stages,
         reconcileResource(o, v, fatal, stage)
  PROVE  TypeOK'
<1> DEFINE w == [owner |-> snap.uid, val |-> v]
<1>1. w \in ObjectType /\ w.val # None
  BY ConstantsAssumption DEF TypeOK, ServerType, ObjectType
<1>2. /\ \E changes \in BOOLEAN, fails \in BOOLEAN : Call(o, w, changes, fails, fatal, stage)
      /\ UNCHANGED budget \/ Spend("fault")
  BY DEF reconcileResource
<1> HIDE DEF w
<1>3. PICK changes \in BOOLEAN, fails \in BOOLEAN : Call(o, w, changes, fails, fatal, stage)
  BY <1>2
<1>4. ObjectsOK(obj) /\ ObjectsOK(cache) /\ WorkerOK /\ queued \in BOOLEAN
  BY TypeParts DEF Parts
<1>5. ObjectsOK(obj)' /\ ObjectsOK(cache)'
  BY <1>1, <1>3, <1>4 DEF Call, CacheAfter, ObjectsOK
<1>6. WorkerOK'
  <2>1. Return \/ Goto(stage)
    BY <1>3 DEF Call
  <2>2. CASE Return
    BY <2>2, NothingType DEF Return, WorkerOK, Stages
  <2>3. CASE Goto(stage)
    BY <2>3, <1>4 DEF Goto, WorkerOK
  <2> QED
    BY <2>1, <2>2, <2>3
<1>7. queued' \in BOOLEAN
  BY <1>3, <1>4 DEF Call, Notified, Watched
<1>8. BudgetOK'
  BY <1>2, SpendType, TypeParts DEF Parts, BudgetOK, Events
<1>9. UNCHANGED <<srv, srvCache, ready, server, db, dqueued, dpc, found, tokenRead, agentTpl, agent>>
  BY <1>3 DEF Call, serverPod, dhcp, agents
<1>10. ServerOK' /\ dqueued' \in BOOLEAN /\ PodOK' /\ DhcpOK' /\ AgentsOK'
  BY <1>9, TypeParts DEF Parts, ServerOK, PodOK, DhcpOK, AgentsOK
<1> QED
  BY <1>5, <1>6, <1>7, <1>8, <1>10, TypeParts DEF Parts

\* A write of the resource keeps its type.
LEMMA StoreServerType ==
  ASSUME TypeOK, NEW new \in ServerType, NEW fails \in BOOLEAN, StoreServer(new, fails)
  PROVE  ServerOK' /\ queued' \in BOOLEAN /\ dqueued' \in BOOLEAN
BY ConstantsAssumption DEF StoreServer, enqueueStorkDependents, TypeOK, ServerOK

\* The status of a reconcile has the type of a status.
LEMMA NewStatusType ==
  ASSUME TypeOK
  PROVE  LET new == [srv EXCEPT !.status = NewStatus]
         IN /\ new \in ServerType /\ new.live = srv.live /\ new.uid = srv.uid
            /\ new.gen = srv.gen /\ new.status.observed = snap.gen
            /\ new.status.phase \in {"Running", "Progressing"}
<1>1. snap.status.url \in {"", "guess", "route"} /\ snap.gen \in Nat /\ seen \in {0, 1}
  BY DEF TypeOK, ServerType, StatusType
<1>2. /\ NewStatus \in StatusType /\ NewStatus.observed = snap.gen
      /\ NewStatus.phase \in {"Running", "Progressing"}
  BY <1>1 DEF NewStatus, StatusType
<1> DEFINE st == NewStatus
<1> HIDE DEF st
<1>3. /\ st \in StatusType /\ st.observed = snap.gen /\ st.phase \in {"Running", "Progressing"}
  BY <1>2 DEF st
<1>4. srv \in ServerType
  BY DEF TypeOK
<1>5. LET new == [srv EXCEPT !.status = st]
      IN /\ new \in ServerType /\ new.live = srv.live /\ new.uid = srv.uid
         /\ new.gen = srv.gen /\ new.status = st
  BY <1>3, <1>4 DEF ServerType
<1> QED
  BY <1>3, <1>5 DEF st

\* The controller of the Stork server keeps the types.
LEMMA ReconcileType == ASSUME TypeOK, Reconcile PROVE TypeOK'
<1>0. snap.port \in Nat /\ gen \in Nat
  BY DEF TypeOK, ServerType
<1>1. CASE BeginReconcile
  <2>1. WorkerOK' /\ queued' \in BOOLEAN
    BY <1>1, TypeParts DEF Parts, BeginReconcile, WorkerOK, ServerOK, Stages
  <2>2. UNCHANGED <<srv, srvCache, obj, cache, ready, server, db, dqueued, dpc, found, tokenRead,
                    agentTpl, agent, budget>>
    BY <1>1 DEF BeginReconcile, serverPod, dhcp, agents
  <2> QED
    BY <2>1, <2>2, TypeParts DEF Parts, ServerOK, ObjectsOK, PodOK, DhcpOK, AgentsOK, BudgetOK
<1>2. CASE ReconcileServiceAccount
  BY <1>2, WriteType DEF ReconcileServiceAccount, Objects, Stages, Built
<1>3. ASSUME NEW o \in Secrets, NEW write \in Stages, NEW next \in Stages, GetSecret(o, write, next)
      PROVE  TypeOK'
  <2>1. PICK v : v \in Values \cup {0} /\ gen' = v /\ pc' \in {write, next} /\ UNCHANGED <<snap, seen>>
    BY <1>3 DEF GetSecret, Generate, Goto
  <2>2. v \in Nat
    BY <2>1, ConstantsAssumption
  <2>3. WorkerOK'
    BY <1>3, <2>1, <2>2, TypeParts DEF Parts, WorkerOK
  <2>4. UNCHANGED <<srv, srvCache, obj, cache, queued, ready, server, db, dqueued, dpc, found,
                    tokenRead, agentTpl, agent, budget>>
    BY <1>3 DEF GetSecret, serverPod, dhcp, agents
  <2> QED
    BY <2>3, <2>4, TypeParts DEF Parts, ServerOK, ObjectsOK, PodOK, DhcpOK, AgentsOK, BudgetOK
<1>4. CASE GetAdminSecret \/ GetTokenSecret
  BY <1>3, <1>4 DEF GetAdminSecret, GetTokenSecret, Secrets, Stages
<1>5. CASE ReconcileAdminSecret
  BY <1>0, <1>5, WriteType DEF ReconcileAdminSecret, Objects, Secrets, Stages
<1>6. CASE ReconcileTokenSecret
  BY <1>0, <1>6, WriteType DEF ReconcileTokenSecret, Objects, Secrets, Stages
<1>7. CASE ReconcileDeployment
  BY <1>0, <1>7, WriteType DEF ReconcileDeployment, Objects, Stages
<1>8. CASE ReconcileService
  BY <1>0, <1>8, WriteType DEF ReconcileService, Objects, Stages
<1>9. CASE ReconcileRoute
  BY <1>9, WriteType DEF ReconcileRoute, Objects, Stages, Built
<1>10. CASE ReadReadyReplicas
  <2>1. WorkerOK'
    BY <1>10, TypeParts DEF Parts, ReadReadyReplicas, WorkerOK, PodOK, Stages
  <2>2. UNCHANGED <<srv, srvCache, obj, cache, queued, ready, server, db, dqueued, dpc, found,
                    tokenRead, agentTpl, agent, budget>>
    BY <1>10 DEF ReadReadyReplicas, serverPod, dhcp, agents
  <2> QED
    BY <2>1, <2>2, TypeParts DEF Parts, ServerOK, ObjectsOK, PodOK, DhcpOK, AgentsOK, BudgetOK
<1>11. CASE UpdateStatus
  <2> DEFINE new == [srv EXCEPT !.status = NewStatus]
  <2>1. new \in ServerType
    BY NewStatusType
  <2>2. /\ \/ \E fails \in BOOLEAN : StoreServer(new, fails)
           \/ queued' = TRUE /\ UNCHANGED <<srv, srvCache, dqueued>>
        /\ UNCHANGED budget \/ Spend("fault")
        /\ Return
        /\ UNCHANGED <<obj, cache, ready, server, db, dpc, found, tokenRead, agentTpl, agent>>
    BY <1>11 DEF UpdateStatus, serverPod, dhcp, agents
  <2> HIDE DEF new
  <2>3. ServerOK' /\ queued' \in BOOLEAN /\ dqueued' \in BOOLEAN
    BY <2>1, <2>2, StoreServerType, TypeParts DEF Parts, ServerOK
  <2>4. WorkerOK'
    BY <2>2, NothingType DEF Return, WorkerOK, Stages
  <2>5. BudgetOK'
    BY <2>2, SpendType, TypeParts DEF Parts, BudgetOK, Events
  <2> QED
    BY <2>2, <2>3, <2>4, <2>5, TypeParts DEF Parts, ObjectsOK, PodOK, DhcpOK, AgentsOK
<1> QED
  BY <1>1, <1>2, <1>4, <1>5, <1>6, <1>7, <1>8, <1>9, <1>10, <1>11 DEF Reconcile

\* So does that of the DHCP server.
LEMMA ReconcileDhcpType == ASSUME TypeOK, ReconcileDhcp PROVE TypeOK'
<1>0. UNCHANGED <<srv, srvCache, obj, cache, queued, pc, snap, gen, seen, ready, server, db, agent>>
  BY DEF ReconcileDhcp, resolveStorkServer, resolveSecretValue, ReconcileAgent, dhcpLeaves,
         stork, serverPod
<1>1. ServerOK' /\ WorkerOK' /\ ObjectsOK(obj)' /\ ObjectsOK(cache)' /\ queued' \in BOOLEAN /\ PodOK'
  BY <1>0, TypeParts DEF Parts, ServerOK, WorkerOK, ObjectsOK, PodOK
<1>2. CASE resolveStorkServer
  <2>1. srvCache.port \in Nat
    BY DEF TypeOK, ServerType
  <2>2. /\ found' = srvCache.port \/ found' = 0
        /\ dpc' = "token" \/ dpc' = "write"
        /\ tokenRead' = 0 /\ dqueued' = FALSE
    BY <1>2 DEF resolveStorkServer
  <2>3. DhcpOK' /\ dqueued' \in BOOLEAN
    <3>1. found' \in Nat /\ tokenRead' \in Nat
      BY <2>1, <2>2
    <3>2. dpc' \in {"idle", "token", "write"} /\ dqueued' \in BOOLEAN
      BY <2>2
    <3> QED
      BY <3>1, <3>2 DEF DhcpOK
  <2>4. UNCHANGED <<agentTpl, agent, budget>>
    BY <1>0, <1>2 DEF resolveStorkServer
  <2>5. AgentsOK' /\ BudgetOK'
    BY <2>4, TypeParts DEF Parts, AgentsOK, BudgetOK
  <2> QED
    BY <1>1, <2>3, <2>5, TypeParts DEF Parts
<1>3. CASE resolveSecretValue
  <2>1. cache["token"] # Absent => cache["token"].val \in Nat
    BY DEF TypeOK, ObjectType, Objects, Secrets
  <2>2. DhcpOK'
    BY <1>3, <2>1, TypeParts DEF Parts, resolveSecretValue, DhcpOK
  <2> QED
    BY <1>0, <1>1, <1>3, <2>2, TypeParts DEF Parts, resolveSecretValue, AgentsOK, BudgetOK
<1>4. CASE ReconcileAgent
  <2>1. [port |-> found, token |-> tokenRead] \in SidecarType
    BY DEF TypeOK, SidecarType
  <2>2. AgentsOK' /\ DhcpOK' /\ dqueued' \in BOOLEAN
    BY <1>0, <1>4, <2>1, TypeParts DEF Parts, ReconcileAgent, AgentsOK, DhcpOK
  <2>3. BudgetOK'
    BY <1>4, SpendType, TypeParts DEF Parts, ReconcileAgent, BudgetOK, Events
  <2> QED
    BY <1>1, <2>2, <2>3, TypeParts DEF Parts
<1> QED
  BY <1>2, <1>3, <1>4 DEF ReconcileDhcp

\* So do the informers, a restart and the users.
LEMMA EnvironmentType ==
  ASSUME TypeOK, Informers \/ Restart \/ Users
  PROVE  TypeOK'
<1>1. CASE SyncServer
  <2>1. UNCHANGED <<srv, obj, cache, pc, snap, gen, seen, ready, server, db, dpc, found, tokenRead,
                    agentTpl, agent, budget>>
    BY <1>1 DEF SyncServer, stork, serverPod, dhcp, agents
  <2>2. ServerOK' /\ queued' \in BOOLEAN /\ dqueued' \in BOOLEAN
    BY <1>1, TypeParts, ConstantsAssumption DEF Parts, SyncServer, enqueueStorkDependents, ServerOK
  <2> QED
    BY <2>1, <2>2, TypeParts DEF Parts, WorkerOK, ObjectsOK, PodOK, DhcpOK, AgentsOK, BudgetOK
<1>2. CASE \E o \in Objects : SyncObject(o)
  <2>1. UNCHANGED <<srv, srvCache, obj, pc, snap, gen, seen, ready, server, db, dqueued, dpc, found,
                    tokenRead, agentTpl, agent, budget>>
    BY <1>2 DEF SyncObject, stork, serverPod, dhcp, agents
  <2>2. ObjectsOK(cache)' /\ queued' \in BOOLEAN
    BY <1>2, TypeParts DEF Parts, SyncObject, ObjectsOK, Watched
  <2> QED
    BY <2>1, <2>2, TypeParts DEF Parts, ServerOK, WorkerOK, ObjectsOK, PodOK, DhcpOK, AgentsOK, BudgetOK
<1>3. CASE Restart
  <2>1. UNCHANGED <<srv, obj, ready, server, db, agentTpl, agent>>
    BY <1>3 DEF Restart, serverPod, agents
  <2>2. WorkerOK' /\ DhcpOK' /\ BudgetOK'
    BY <1>3, NothingType, SpendType
       DEF Restart, Return, WorkerOK, DhcpOK, BudgetOK, Stages, Events
  <2>3. ServerOK' /\ ObjectsOK(cache)' /\ queued' \in BOOLEAN /\ dqueued' \in BOOLEAN
    BY <1>3, TypeParts, ConstantsAssumption DEF Parts, Restart, ServerOK, ObjectsOK
  <2> QED
    BY <2>1, <2>2, <2>3, TypeParts DEF Parts, ObjectsOK, PodOK, AgentsOK
<1>4. ASSUME NEW new \in ServerType, NEW e \in Events \ {"any"}, Spend(e), UserChange(new)
      PROVE  TypeOK'
  <2>1. UNCHANGED <<obj, cache, pc, snap, gen, seen, ready, server, db, dpc, found, tokenRead,
                    agentTpl, agent>>
    BY <1>4 DEF UserChange, stork, serverPod, dhcp, agents
  <2>2. ServerOK' /\ queued' \in BOOLEAN /\ dqueued' \in BOOLEAN
    BY <1>4, StoreServerType DEF UserChange
  <2>3. BudgetOK'
    BY <1>4, SpendType DEF BudgetOK
  <2> QED
    BY <2>1, <2>2, <2>3, TypeParts DEF Parts, WorkerOK, ObjectsOK, PodOK, DhcpOK, AgentsOK
<1>5. srv \in ServerType /\ srv.uid \in Nat /\ srv.gen \in Nat /\ Ports \subseteq Nat /\ NewPorts \subseteq Nat
  BY ConstantsAssumption DEF TypeOK, ServerType
<1>6. srv.uid + 1 \in Nat /\ srv.gen + 1 \in Nat /\ 1 \in Nat
  BY <1>5
<1>7. CASE CreateServer
  <2>1. \A p \in NewPorts : [live |-> TRUE, uid |-> srv.uid + 1, gen |-> 1, port |-> p,
                             status |-> NoStatus] \in ServerType
    BY <1>5, <1>6, NothingType DEF ServerType
  <2> QED
    BY <1>4, <1>7, <2>1 DEF CreateServer, Events
<1>8. CASE EditPort
  <2>1. \A p \in Ports : [srv EXCEPT !.gen = @ + 1, !.port = p] \in ServerType
    BY <1>5, <1>6 DEF ServerType
  <2> QED
    BY <1>4, <1>8, <2>1 DEF EditPort, Events
<1>9. CASE DeleteServer
  <2>1. [srv EXCEPT !.live = FALSE] \in ServerType
    BY <1>5 DEF ServerType
  <2> QED
    BY <1>4, <1>9, <2>1 DEF DeleteServer, Events
<1> QED
  BY <1>1, <1>2, <1>3, <1>7, <1>8, <1>9 DEF Informers, Users

\* So do the cluster and the pods.
LEMMA ClusterType ==
  ASSUME TypeOK, Cluster \/ LoseServer \/ \E o \in Objects : Tamper(o)
  PROVE  TypeOK'
<1>1. ASSUME NEW o \in Objects, GarbageCollect(o) \/ Tamper(o)
      PROVE  TypeOK'
  <2>1. Remove(o) /\ (UNCHANGED budget \/ Spend("tamper"))
    BY <1>1 DEF GarbageCollect, Tamper
  <2>2. UNCHANGED <<srv, srvCache, pc, snap, gen, seen, server, db, dqueued, dpc, found, tokenRead,
                    agentTpl, agent>>
    BY <2>1 DEF Remove, stork, dhcp, agents
  <2>3. ObjectsOK(obj)' /\ ObjectsOK(cache)'
    BY <2>1, TypeParts, NothingType DEF Parts, Remove, CacheAfter, ObjectsOK
  <2>4. queued' \in BOOLEAN /\ PodOK'
    BY <2>1, <2>2, TypeParts DEF Parts, Remove, Notified, Watched, PodOK
  <2>5. BudgetOK'
    BY <2>1, SpendType, TypeParts DEF Parts, BudgetOK, Events
  <2> QED
    BY <2>2, <2>3, <2>4, <2>5, TypeParts DEF Parts, ServerOK, WorkerOK, DhcpOK, AgentsOK
<1>2. ASSUME podLeaves, PodOK', AgentsOK', BudgetOK', queued' \in BOOLEAN
      PROVE  TypeOK'
  <2>1. UNCHANGED <<srv, srvCache, obj, cache, pc, snap, gen, seen, dqueued, dpc, found, tokenRead>>
    BY <1>2 DEF podLeaves, stork, dhcp
  <2> QED
    BY <1>2, <2>1, TypeParts DEF Parts, ServerOK, WorkerOK, ObjectsOK, DhcpOK
<1>3. CASE StartServer
  <2>1. /\ obj["deploy"].val \in Nat /\ obj["admin"].val \in Nat /\ obj["token"].val \in Nat
    BY <1>3 DEF StartServer, Present, TypeOK, ObjectType, Objects, Secrets
  <2>2. PodOK'
    BY <1>3, <2>1, TypeParts DEF Parts, StartServer, PodOK, PodType
  <2> QED
    BY <1>2, <1>3, <2>2, TypeParts DEF Parts, StartServer, AgentsOK, BudgetOK, agents
<1>4. CASE ServerReady \/ SetAdminPassword \/ StopServer
  <2>1. server \in PodType /\ db \in Nat /\ ready \in {0, 1}
    BY TypeParts DEF Parts, PodOK
  <2>2. server.admin \in Nat /\ [server EXCEPT !.ready = TRUE] \in PodType
        /\ [server EXCEPT !.set = "done"] \in PodType
        /\ [server EXCEPT !.set = "failed"] \in PodType
    BY <2>1 DEF PodType
  <2>3. PodOK'
    BY <1>4, <2>1, <2>2, NothingType DEF ServerReady, SetAdminPassword, StopServer, PodOK
  <2>4. BudgetOK'
    BY <1>4, SpendType, TypeParts
       DEF Parts, ServerReady, SetAdminPassword, StopServer, BudgetOK, Events
  <2> QED
    BY <1>2, <1>4, <2>3, <2>4, TypeParts
       DEF Parts, ServerReady, SetAdminPassword, StopServer, AgentsOK, agents
<1>5. CASE LoseServer
  <2>1. PodOK' /\ BudgetOK'
    BY <1>5, TypeParts, NothingType, SpendType DEF Parts, LoseServer, PodOK, BudgetOK, Events
  <2> QED
    BY <1>2, <1>5, <2>1, TypeParts DEF Parts, LoseServer, AgentsOK, agents
<1>6. CASE PublishReady
  BY <1>2, <1>6, TypeParts DEF Parts, PublishReady, ReadyPods, PodOK, AgentsOK, BudgetOK, agents
<1>7. CASE RollAgent
  BY <1>2, <1>7, TypeParts DEF Parts, RollAgent, PodOK, AgentsOK, BudgetOK, serverPod
<1> QED
  BY <1>1, <1>3, <1>4, <1>5, <1>6, <1>7 DEF Cluster, RunServer

\* Initially nothing is there.
LEMMA InitType == Init => TypeOK
<1> SUFFICES ASSUME Init PROVE TypeOK
  OBVIOUS
<1>1. ServerOK /\ WorkerOK /\ PodOK /\ DhcpOK /\ AgentsOK /\ BudgetOK
  BY NothingType, ConstantsAssumption
  DEF Init, ServerOK, WorkerOK, PodOK, DhcpOK, AgentsOK, BudgetOK, Stages, DefaultPassword
<1>2. ObjectsOK(obj) /\ ObjectsOK(cache) /\ queued \in BOOLEAN /\ dqueued \in BOOLEAN
  BY NothingType, ConstantsAssumption DEF Init, ObjectsOK
<1> QED
  BY <1>1, <1>2, TypeParts DEF Parts

\* Every step keeps the types.
LEMMA NextType == TypeOK /\ [Next]_vars => TypeOK'
<1>1. ASSUME TypeOK, UNCHANGED vars PROVE TypeOK'
  BY <1>1 DEF vars, stork, dhcp, agents, serverPod, TypeOK
<1> QED
  BY <1>1, ReconcileType, ReconcileDhcpType, EnvironmentType, ClusterType DEF Next, Failures

\* Every variable of StorkServer has its type in every reachable state: in
\* particular, what a pod of the server and an agent's template get from a Secret
\* is a value, never a Secret that is missing.
THEOREM TypeCorrect == Spec => []TypeOK
BY InitType, NextType, PTL DEF Spec

----------------------------------------------------------------------------
\* The contract of the resource

\* A reconcile works on a resource that there was.
WorkerReads == pc # "idle" => snap.live

\* The worker's copy is taken when a reconcile begins and is left alone until it ends.
LEMMA CopyKept == ASSUME WorkerReads, [Next]_vars PROVE WorkerReads'
<1>1. CASE UNCHANGED <<pc, snap>>
  BY <1>1 DEF WorkerReads
<1>2. CASE Return
  BY <1>2 DEF Return, WorkerReads
<1>3. ASSUME pc # "idle", snap' = snap PROVE WorkerReads'
  BY <1>3 DEF WorkerReads
<1>4. CASE BeginReconcile
  BY <1>4 DEF BeginReconcile, WorkerReads
<1>5. ASSUME NEW o, NEW v, NEW fatal, NEW stage, pc # "idle", reconcileResource(o, v, fatal, stage)
      PROVE  WorkerReads'
  <2>1. Return \/ Goto(stage)
    BY <1>5 DEF reconcileResource, Call
  <2> QED
    BY <1>2, <1>3, <1>5, <2>1 DEF Goto
<1>6. CASE GetAdminSecret \/ GetTokenSecret \/ ReadReadyReplicas
  BY <1>3, <1>6 DEF GetAdminSecret, GetTokenSecret, GetSecret, Goto, ReadReadyReplicas
<1>7. CASE ReconcileServiceAccount
  BY <1>5, <1>7 DEF ReconcileServiceAccount
<1>8. CASE ReconcileAdminSecret
  <2> DEFINE v == gen
  <2>1. pc # "idle" /\ reconcileResource("admin", v, TRUE, "token")
    BY <1>8 DEF ReconcileAdminSecret
  <2> HIDE DEF v
  <2> QED
    BY <1>5, <2>1
<1>9. CASE ReconcileTokenSecret
  <2> DEFINE v == gen
  <2>1. pc # "idle" /\ reconcileResource("token", v, TRUE, "deploy")
    BY <1>9 DEF ReconcileTokenSecret
  <2> HIDE DEF v
  <2> QED
    BY <1>5, <2>1
<1>10. CASE ReconcileDeployment
  <2> DEFINE v == snap.port
  <2>1. pc # "idle" /\ reconcileResource("deploy", v, TRUE, "svc")
    BY <1>10 DEF ReconcileDeployment
  <2> HIDE DEF v
  <2> QED
    BY <1>5, <2>1
<1>11. CASE ReconcileService
  <2> DEFINE v == snap.port
             stage == IF OpenShift THEN "route" ELSE "ready"
  <2>1. pc # "idle" /\ reconcileResource("svc", v, TRUE, stage)
    BY <1>11 DEF ReconcileService
  <2> HIDE DEF v, stage
  <2> QED
    BY <1>5, <2>1
<1>12. CASE ReconcileRoute
  BY <1>5, <1>12 DEF ReconcileRoute
<1>13. CASE UpdateStatus \/ Restart
  BY <1>2, <1>13 DEF UpdateStatus, Restart
<1>14. CASE ReconcileDhcp \/ Informers \/ Users
  BY <1>1, <1>14
  DEF ReconcileDhcp, resolveStorkServer, resolveSecretValue, ReconcileAgent, dhcpLeaves, stork,
      Informers, SyncServer, SyncObject, Users, CreateServer, EditPort, DeleteServer, UserChange
<1>15. CASE Cluster \/ LoseServer \/ \E o \in Objects : Tamper(o)
  BY <1>1, <1>15
  DEF Cluster, GarbageCollect, Tamper, Remove, RunServer, StartServer, ServerReady,
      SetAdminPassword, StopServer, PublishReady, RollAgent, LoseServer, podLeaves, stork
<1>16. CASE UNCHANGED vars
  BY <1>1, <1>16 DEF vars, stork
<1> QED
  BY <1>4, <1>6, <1>7, <1>8, <1>9, <1>10, <1>11, <1>12, <1>13, <1>14, <1>15, <1>16
  DEF Next, Reconcile, Failures

\* A status that is stored is a report on the resource as it is.
LEMMA StatusSeen ==
  ASSUME TypeOK, WorkerReads, UpdateStatus
  PROVE  [Contract!Next]_(Contract!vars)
<1> DEFINE new == [srv EXCEPT !.status = NewStatus]
<1>1. /\ new.live = srv.live /\ new.gen = srv.gen /\ new.status.observed = snap.gen
      /\ new.status.phase \in {"Running", "Progressing"}
  BY NewStatusType
<1>2. srv' = srv \/ (snap = srv /\ srv' = new)
  BY DEF UpdateStatus, StoreServer
<1> HIDE DEF new
<1>3. snap.live
  BY DEF WorkerReads, UpdateStatus
<1>4. CASE srv' = srv
  BY <1>4 DEF Contract!vars
<1>5. CASE snap = srv /\ srv' = new
  <2>1. /\ srv.live /\ srv'.live = srv.live /\ srv'.gen = srv.gen /\ srv'.status.observed = srv.gen
        /\ srv'.status.phase \in {"Running", "Progressing"}
    BY <1>1, <1>3, <1>5
  <2> QED
    BY <2>1 DEF Contract!Next, Contract!Report
<1> QED
  BY <1>2, <1>4, <1>5

\* Users do what the contract lets them.
LEMMA UsersSeen == ASSUME TypeOK, Users PROVE Contract!Next
<1>1. srv \in ServerType
  BY DEF TypeOK
<1>2. CASE CreateServer
  <2>1. ~srv.live /\ srv'.live = TRUE /\ srv'.gen = 1 /\ srv'.status = NoStatus
    BY <1>2 DEF CreateServer, UserChange, StoreServer
  <2>2. NoStatus.observed = 0 /\ NoStatus.phase = ""
    BY DEF NoStatus
  <2>3. Contract!Create
    BY <2>1, <2>2 DEF Contract!Create, Contract!NoPhase
  <2> QED
    BY <2>3 DEF Contract!Next
<1>3. CASE EditPort
  <2>1. PICK p \in Ports : srv' = [srv EXCEPT !.gen = @ + 1, !.port = p]
    BY <1>3 DEF EditPort, UserChange, StoreServer
  <2>2. srv.live /\ srv'.live = srv.live /\ srv'.gen = srv.gen + 1 /\ srv'.status = srv.status
    BY <1>1, <1>3, <2>1 DEF EditPort, ServerType
  <2> QED
    BY <2>2 DEF Contract!Next, Contract!Edit
<1>4. CASE DeleteServer
  <2>1. srv' = [srv EXCEPT !.live = FALSE] /\ srv.live
    BY <1>4 DEF DeleteServer, UserChange, StoreServer
  <2>2. srv'.live = FALSE
    BY <1>1, <2>1 DEF ServerType
  <2> QED
    BY <2>1, <2>2 DEF Contract!Next, Contract!Delete, Contract!NoPhase
<1> QED
  BY <1>2, <1>3, <1>4 DEF Users

\* Every step maps to a step of the contract, or to none.
LEMMA NextSeen == ASSUME TypeOK, WorkerReads, [Next]_vars PROVE [Contract!Next]_(Contract!vars)
<1>1. CASE UpdateStatus
  BY <1>1, StatusSeen
<1>2. CASE Users
  BY <1>2, UsersSeen
<1>3. CASE srv' = srv
  BY <1>3 DEF Contract!vars
<1>4. CASE ReconcileServiceAccount \/ ReconcileAdminSecret \/ ReconcileTokenSecret
           \/ ReconcileDeployment \/ ReconcileService \/ ReconcileRoute
  BY <1>3, <1>4
  DEF ReconcileServiceAccount, ReconcileAdminSecret, ReconcileTokenSecret, ReconcileDeployment,
      ReconcileService, ReconcileRoute, reconcileResource, Call
<1>5. CASE BeginReconcile \/ GetAdminSecret \/ GetTokenSecret \/ ReadReadyReplicas
  BY <1>3, <1>5 DEF BeginReconcile, GetAdminSecret, GetTokenSecret, GetSecret, ReadReadyReplicas
<1>6. CASE ReconcileDhcp \/ Informers \/ Restart
  BY <1>3, <1>6
  DEF ReconcileDhcp, resolveStorkServer, resolveSecretValue, ReconcileAgent, dhcpLeaves,
      Informers, SyncServer, SyncObject, Restart
<1>7. CASE Cluster \/ LoseServer \/ \E o \in Objects : Tamper(o)
  BY <1>3, <1>7
  DEF Cluster, GarbageCollect, Tamper, Remove, RunServer, StartServer, ServerReady,
      SetAdminPassword, StopServer, PublishReady, RollAgent, LoseServer, podLeaves
<1> QED
  BY <1>1, <1>2, <1>3, <1>4, <1>5, <1>6, <1>7 DEF Next, Reconcile, Failures, vars

\* The controller of a KeaStorkServer keeps the contract of its resource: the
\* status it stores is of the generation the resource then has, however old the
\* copy it had read was, and never lands on a namesake created since.
THEOREM ImplementsContract == Spec => KeepsContract
<1>1. Init => Contract!Init
  BY DEF Init, NoServer, Contract!Init, Contract!NoPhase
<1>2. Init => WorkerReads
  BY DEF Init, WorkerReads
<1> QED
  BY <1>1, <1>2, InitType, NextType, CopyKept, NextSeen, PTL DEF Spec, KeepsContract, Contract!Spec

----------------------------------------------------------------------------
\* A Secret the controller knows of is kept

\* What a step may do to a known Secret: leave it, and known, or remove it.
Keeps(o) == Known(o) => obj'[o] = Absent \/ (obj'[o] = obj[o] /\ Known(o)')

\* A step that does not write the Secret, and leads no worker to the stage that does.
Spares(o) ==
  /\ obj'[o] \in {obj[o], Absent}
  /\ obj'[o] = obj[o] => cache'[o] \in {cache[o], obj[o]}
  /\ pc' # pc => pc' # Writing(o)

\* Such a step keeps a known Secret.
LEMMA SparesKeeps ==
  ASSUME NEW o \in Secrets, Spares(o)
  PROVE  Keeps(o)
BY DEF Spares, Keeps, Known, Present

\* A create-or-update of another object is such a step.
LEMMA WriteSpares ==
  ASSUME TypeOK, NEW o \in Secrets, NEW p \in Objects \ {o}, NEW v, NEW fatal \in BOOLEAN,
         NEW stage, stage # Writing(o), Writing(o) # "idle", reconcileResource(p, v, fatal, stage)
  PROVE  Spares(o)
<1> DEFINE w == [owner |-> snap.uid, val |-> v]
<1>1. PICK changes \in BOOLEAN, fails \in BOOLEAN : Call(p, w, changes, fails, fatal, stage)
  BY DEF reconcileResource
<1> HIDE DEF w
<1>2. pc' \in {"idle", stage}
  BY <1>1 DEF Call, Return, Goto
<1>3. obj'[o] = obj[o] /\ cache'[o] = cache[o]
  <2>1. obj' \in {obj, [obj EXCEPT ![p] = w]} /\ cache' \in {cache, CacheAfter(p, w)}
    BY <1>1 DEF Call
  <2> QED
    BY <2>1 DEF CacheAfter, TypeOK, Objects
<1> QED
  BY <1>2, <1>3 DEF Spares

\* The stages of the controller: only the one before leads to the stage that writes
\* a Secret, and only when the cache has none.
LEMMA ReconcileKeeps ==
  ASSUME TypeOK, Reconcile, NEW o \in Secrets
  PROVE  Keeps(o)
<1>0. Secrets \subseteq Objects /\ Writing(o) # "idle" /\ o \in {"admin", "token"}
      /\ Writing(o) \in {"create admin", "create token"}
  BY DEF Secrets, Objects, Writing
<1>1. CASE BeginReconcile \/ ReadReadyReplicas \/ UpdateStatus
  <2>1. Spares(o)
    BY <1>0, <1>1 DEF BeginReconcile, ReadReadyReplicas, UpdateStatus, Return, Spares
  <2> QED
    BY <2>1, SparesKeeps
<1>2. CASE ReconcileServiceAccount
  BY <1>0, <1>2, WriteSpares, SparesKeeps DEF ReconcileServiceAccount, Objects
<1>3. CASE GetAdminSecret \/ GetTokenSecret
  <2>1. UNCHANGED <<obj, cache>>
    BY <1>3 DEF GetAdminSecret, GetTokenSecret, GetSecret
  <2>2. ASSUME Known(o) PROVE pc' # Writing(o)
    BY <1>0, <1>3, <2>2 DEF GetAdminSecret, GetTokenSecret, GetSecret, Goto, Known, Present, Writing
  <2> QED
    BY <2>1, <2>2 DEF Keeps, Known, Present
<1>4. CASE ReconcileAdminSecret
  <2>1. CASE o = "admin"
    BY <1>4, <2>1 DEF ReconcileAdminSecret, Keeps, Known, Writing
  <2>2. CASE o # "admin"
    BY <1>0, <1>4, <2>2, WriteSpares, SparesKeeps DEF ReconcileAdminSecret, Objects, Secrets
  <2> QED
    BY <2>1, <2>2
<1>5. CASE ReconcileTokenSecret
  <2>1. CASE o = "token"
    BY <1>5, <2>1 DEF ReconcileTokenSecret, Keeps, Known, Writing
  <2>2. CASE o # "token"
    BY <1>0, <1>5, <2>2, WriteSpares, SparesKeeps DEF ReconcileTokenSecret, Objects, Secrets
  <2> QED
    BY <2>1, <2>2
<1>6. CASE ReconcileDeployment
  <2> DEFINE port == snap.port
  <2>1. reconcileResource("deploy", port, TRUE, "svc")
    BY <1>6 DEF ReconcileDeployment
  <2> HIDE DEF port
  <2> QED
    BY <1>0, <2>1, WriteSpares, SparesKeeps DEF Objects
<1>7. CASE ReconcileService
  <2> DEFINE port == snap.port
             stage == IF OpenShift THEN "route" ELSE "ready"
  <2>1. reconcileResource("svc", port, TRUE, stage) /\ stage \in {"route", "ready"}
    BY <1>7 DEF ReconcileService
  <2> HIDE DEF port, stage
  <2> QED
    BY <1>0, <2>1, WriteSpares, SparesKeeps DEF Objects
<1>8. CASE ReconcileRoute
  BY <1>0, <1>8, WriteSpares, SparesKeeps DEF ReconcileRoute, Objects
<1> QED
  BY <1>1, <1>2, <1>3, <1>4, <1>5, <1>6, <1>7, <1>8 DEF Reconcile

\* Deleting an object, by hand or by the garbage collector.
LEMMA RemoveSpares ==
  ASSUME TypeOK, NEW o \in Secrets, NEW p \in Objects, Remove(p)
  PROVE  Spares(o)
<1>1. pc' = pc /\ obj' = [obj EXCEPT ![p] = Absent] /\ cache' = CacheAfter(p, Absent)
  BY DEF Remove, stork
<1>2. o \in Objects /\ obj \in [Objects -> ObjectType] /\ cache \in [Objects -> ObjectType]
  BY DEF TypeOK, Secrets, Objects
<1>3. obj'[o] \in {obj[o], Absent} /\ (p # o => cache'[o] = cache[o])
  BY <1>1, <1>2 DEF CacheAfter
<1>4. p = o => cache'[o] \in {cache[o], Absent} /\ obj'[o] = Absent
  BY <1>1, <1>2 DEF CacheAfter
<1> QED
  BY <1>1, <1>3, <1>4 DEF Spares

\* The other steps write no Secret, and no worker starts at the stage that does.
LEMMA OthersSpare ==
  ASSUME TypeOK, ReconcileDhcp \/ Informers \/ Users \/ Cluster \/ Failures, NEW o \in Secrets
  PROVE  Spares(o)
<1>1. CASE ReconcileDhcp
  BY <1>1 DEF ReconcileDhcp, resolveStorkServer, resolveSecretValue, ReconcileAgent, dhcpLeaves,
             stork, Spares
<1>2. CASE SyncServer
  BY <1>2 DEF SyncServer, stork, Spares
<1>3. ASSUME NEW p \in Objects, SyncObject(p) PROVE Spares(o)
  BY <1>3 DEF SyncObject, stork, Spares, TypeOK, Secrets, Objects
<1>4. CASE Users
  BY <1>4 DEF Users, CreateServer, EditPort, DeleteServer, UserChange, stork, Spares
<1>5. ASSUME NEW p \in Objects, GarbageCollect(p) \/ Tamper(p) PROVE Spares(o)
  BY <1>5, RemoveSpares DEF GarbageCollect, Tamper
<1>6. CASE RunServer \/ PublishReady \/ RollAgent \/ LoseServer
  BY <1>6 DEF RunServer, StartServer, ServerReady, SetAdminPassword, StopServer, PublishReady,
             RollAgent, LoseServer, podLeaves, stork, Spares
<1>7. CASE Restart
  BY <1>7 DEF Restart, Return, Spares, Writing
<1> QED
  BY <1>1, <1>2, <1>3, <1>4, <1>5, <1>6, <1>7 DEF Informers, Cluster, Failures

\* Once the informer has seen a password or token, and no reconcile is left that
\* missed it, the controller of the Stork server never puts another in its place,
\* for any number of failures, restarts and namesakes, however far any informer
\* lags, that of the Secrets included.
THEOREM KnownSecrets == Spec => KnownSecretsKept
<1>1. ASSUME TypeOK, [Next]_vars, NEW o \in Secrets PROVE Keeps(o)
  <2>1. CASE Reconcile
    BY <1>1, <2>1, ReconcileKeeps
  <2>2. CASE ReconcileDhcp \/ Informers \/ Users \/ Cluster \/ Failures
    BY <1>1, <2>2, OthersSpare, SparesKeeps
  <2>3. CASE UNCHANGED vars
    BY <2>3 DEF vars, stork, Keeps, Known, Present
  <2> QED
    BY <1>1, <2>1, <2>2, <2>3 DEF Next
<1>2. TypeOK /\ [Next]_vars => [\A o \in Secrets : Keeps(o)]_vars
  BY <1>1
<1> QED
  BY <1>2, InitType, NextType, PTL DEF Spec, KnownSecretsKept, Keeps
============================================================================
