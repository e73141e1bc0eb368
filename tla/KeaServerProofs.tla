-------------------------- MODULE KeaServerProofs --------------------------
(***************************************************************************)
(* Theorems about KeaServer, for every sequence of components, every set   *)
(* of sections, any lag of the informers and any number of edits, faults   *)
(* and restarts.                                                           *)
(***************************************************************************)
EXTENDS KeaServer, TLAPS

----------------------------------------------------------------------------
\* Type correctness

\* A reconcile under way is at a component, and has read a resource that was there.
WorkerReads == pc # "idle" => pos \in 1 .. Len(Order) /\ snap.live

TypeInv == TypeOK /\ WorkerReads

\* The components are what the positions of Order hold.
LEMMA Positions ==
  /\ Len(Order) \in Nat \ {0}
  /\ \A n \in 1 .. Len(Order) : Order[n] \in Components
  /\ \A c \in Components : \E n \in 1 .. Len(Order) : c = Order[n]
BY ConstantsAssumption DEF Components

\* What is stored before anything is created has its type.
LEMMA NothingType ==
  /\ NoServer \in ServerType /\ NoChild \in ChildType /\ ~NoServer.live
  /\ \A u \in Nat : [NoServer EXCEPT !.uid = u] \in ServerType /\ ~[NoServer EXCEPT !.uid = u].live
<1>1. NoStatus \in [phase: {"", "Pending", "Running", "Progressing"}, observed: Nat,
                    readySet: SUBSET Components]
  BY DEF NoStatus
<1>2. [c \in Components |-> 0] \in Specs
  BY DEF Specs
<1>3. NoServer \in ServerType /\ ~NoServer.live
  BY <1>1, <1>2 DEF NoServer, ServerType
<1>4. NoChild \in ChildType
  BY DEF NoChild, NoChildStatus, ChildType
<1> QED
  BY <1>3, <1>4 DEF ServerType

\* The sections a spec may have.
LEMMA SectionType ==
  /\ \A s \in Specs, c \in Components : s[c] \in Nat
  /\ \A c \in Components : Versions[c] \subseteq Nat
BY ConstantsAssumption DEF Specs

\* Spending leaves a budget.
LEMMA SpendType ==
  ASSUME TypeOK, NEW e \in Events \ {"any"}, Spend(e)
  PROVE  budget' \in [Events -> Nat]
<1>1. CASE budget["any"] = 1
  BY <1>1 DEF Spend
<1>2. CASE budget["any"] # 1
  <2>1. budget \in [Events -> Nat] /\ "any" \in Events /\ e # "any"
        /\ budget[e] > 0 /\ budget["any"] > 0
        /\ budget' = [budget EXCEPT ![e] = @ - 1, !["any"] = @ - 1]
    BY <1>2 DEF Spend, TypeOK, Events
  <2> QED
    BY <2>1
<1> QED
  BY <1>1, <1>2

\* Storing a child keeps the children's types.
LEMMA StoreChildType ==
  ASSUME TypeOK, NEW c \in Components, NEW new \in ChildType, NEW requeue \in BOOLEAN,
         StoreChild(c, new, requeue)
  PROVE  /\ child' \in [Components -> ChildType] /\ childCache' \in [Components -> ChildType]
         /\ queued' \in BOOLEAN
BY DEF StoreChild, Watched, TypeOK

\* Storing the resource keeps its type.
LEMMA StoreServerType ==
  ASSUME TypeOK, NEW new \in ServerType, NEW fails \in BOOLEAN, StoreServer(new, fails)
  PROVE  ks' \in ServerType /\ ksCache' \in ServerType /\ queued' \in BOOLEAN
BY DEF StoreServer, TypeOK

\* The worker goes on to a component, or ends.
LEMMA ProceedType ==
  ASSUME TypeInv, NEW stage \in {"child", "read"}, NEW next \in {"read", "status"},
         pc # "idle", Proceed(stage, next)
  PROVE  /\ snap' \in ServerType /\ pc' \in {"child", "read", "status"}
         /\ pos' \in 1 .. Len(Order) /\ snap'.live
BY Positions DEF TypeInv, TypeOK, WorkerReads, Proceed

\* The end of a reconcile has a type, too.
LEMMA ReturnType ==
  ASSUME Return
  PROVE  snap' \in ServerType /\ pc' = "idle" /\ pos' \in 0 .. Len(Order) /\ readySet' = {}
BY Positions, NothingType DEF Return

\* A request for a child keeps the types, whatever comes of it.
LEMMA RequestType ==
  ASSUME TypeInv, NEW c \in Components, NEW new \in ChildType, NEW accepted \in BOOLEAN,
         pc # "idle", Request(c, new, accepted), UNCHANGED <<ks, ksCache>>
  PROVE  TypeInv'
<1> USE DEF TypeInv
<1>1. CASE accepted /\ StoreChild(c, new, FALSE) /\ Proceed("child", "read")
           /\ UNCHANGED <<readySet, budget>>
  <2>1. /\ child' \in [Components -> ChildType] /\ childCache' \in [Components -> ChildType]
        /\ queued' \in BOOLEAN
    BY <1>1, StoreChildType
  <2>2. /\ snap' \in ServerType /\ pc' \in {"child", "read", "status"}
        /\ pos' \in 1 .. Len(Order) /\ snap'.live
    BY <1>1, ProceedType
  <2>3. pos' \in 0 .. Len(Order)
    BY <2>2, Positions
  <2> QED
    BY <1>1, <2>1, <2>2, <2>3 DEF TypeOK, WorkerReads
<1>2. CASE ~accepted /\ queued' = TRUE /\ Return /\ UNCHANGED <<child, childCache, budget>>
  BY <1>2, ReturnType DEF TypeOK, WorkerReads
<1>3. CASE Spend("fault") /\ Return
           /\ \E done \in {FALSE, accepted} : StoreChild(c, IF done THEN new ELSE child[c], TRUE)
  <2>1. PICK x \in {new, child[c]} : StoreChild(c, x, TRUE)
    BY <1>3
  <2>2. x \in ChildType
    BY DEF TypeOK
  <2>3. budget' \in [Events -> Nat]
    BY <1>3, SpendType DEF Events
  <2> QED
    BY <1>3, <2>1, <2>2, <2>3, StoreChildType, ReturnType DEF TypeOK, WorkerReads
<1> QED
  BY <1>1, <1>2, <1>3 DEF Request

\* What the section makes of the cached child.
LEMMA UpdatedChild ==
  ASSUME TypeOK, NEW c \in Components
  PROVE  LET old == childCache[c]
             new == [old EXCEPT !.live = TRUE, !.owner = snap.uid, !.spec = snap.spec[c]]
         IN /\ new \in ChildType
            /\ new.live /\ new.owner = snap.uid /\ new.spec = snap.spec[c]
<1>1. childCache[c] \in ChildType /\ snap.uid \in Nat /\ snap.spec[c] \in Nat
  BY SectionType DEF TypeOK, ServerType
<1> QED
  BY <1>1 DEF ChildType

\* The status of a reconcile has the type of a status.
LEMMA NewStatusType ==
  ASSUME TypeOK
  PROVE  LET new == [ks EXCEPT !.status = NewStatusFor(snap.spec, snap.gen, readySet)]
         IN /\ new \in ServerType /\ new.live = ks.live /\ new.uid = ks.uid /\ new.gen = ks.gen
            /\ new.spec = ks.spec /\ new.status.observed = snap.gen
            /\ new.status.phase \in {"Pending", "Running", "Progressing"}
<1> DEFINE st == NewStatusFor(snap.spec, snap.gen, readySet)
<1>1. /\ st \in [phase: {"", "Pending", "Running", "Progressing"}, observed: Nat,
                 readySet: SUBSET Components]
      /\ st.observed = snap.gen /\ st.phase \in {"Pending", "Running", "Progressing"}
  BY DEF NewStatusFor, TypeOK, ServerType
<1> HIDE DEF st
<1> QED
  BY <1>1 DEF TypeOK, ServerType, st

\* The controller keeps the types.
LEMMA ReconcileType == ASSUME TypeInv, Reconcile PROVE TypeInv'
<1> USE DEF TypeInv
<1>1. CASE BeginReconcile
  <2>1. 1 \in 1 .. Len(Order) /\ 1 \in 0 .. Len(Order)
    BY Positions
  <2> QED
    BY <1>1, <2>1 DEF BeginReconcile, TypeOK, WorkerReads
<1>2. CASE ReconcileChild
  <2> DEFINE c == Order[pos]
  <2>1. c \in Components /\ pc = "child" /\ UNCHANGED <<ks, ksCache>>
    BY <1>2, Positions DEF ReconcileChild, WorkerReads
  <2>2. CASE snap.spec[c] = 0 /\ DeleteChild(c)
    <3>1. CASE childCache[c].live
      <4>1. Request(c, NoChild, child[c].live) /\ child[c].live \in BOOLEAN
        BY <2>1, <2>2, <3>1 DEF DeleteChild, TypeOK, ChildType
      <4> HIDE DEF c
      <4> QED
        BY <2>1, <4>1, NothingType, RequestType
    <3>2. CASE ~childCache[c].live
      BY <2>1, <2>2, <3>2, ProceedType DEF DeleteChild, TypeOK, WorkerReads
    <3> QED
      BY <3>1, <3>2
  <2>3. CASE snap.spec[c] # 0 /\ CreateOrUpdate(c)
    <3> DEFINE old == childCache[c]
               new == [old EXCEPT !.live = TRUE, !.owner = snap.uid, !.spec = snap.spec[c]]
    <3>1. new \in ChildType
      BY <2>1, UpdatedChild
    <3>2. \/ UNCHANGED <<child, childCache, queued, readySet, budget>> /\ Proceed("child", "read")
          \/ Request(c, new, old = child[c])
      BY <2>3 DEF CreateOrUpdate
    <3> HIDE DEF c, new, old
    <3>3. CASE Request(c, new, old = child[c])
      BY <2>1, <3>1, <3>3, RequestType
    <3>4. CASE UNCHANGED <<child, childCache, queued, readySet, budget>> /\ Proceed("child", "read")
      BY <2>1, <3>4, ProceedType DEF TypeOK, WorkerReads
    <3> QED
      BY <3>2, <3>3, <3>4
  <2> QED
    BY <1>2, <2>2, <2>3 DEF ReconcileChild
<1>3. CASE ReadChild
  <2>1. Order[pos] \in Components
    BY <1>3, Positions DEF ReadChild, WorkerReads
  <2>2. readySet' \subseteq Components
    BY <1>3, <2>1 DEF ReadChild, TypeOK
  <2> QED
    BY <1>3, <2>2, ProceedType DEF ReadChild, TypeOK, WorkerReads
<1>4. CASE UpdateStatus
  <2> DEFINE new == [ks EXCEPT !.status = NewStatusFor(snap.spec, snap.gen, readySet)]
  <2>1. new \in ServerType /\ ks \in ServerType
    BY NewStatusType DEF TypeOK
  <2>2. /\ \/ \E w \in {ks, new}, fails \in BOOLEAN : StoreServer(w, fails)
           \/ queued' = TRUE /\ UNCHANGED <<ks, ksCache>>
        /\ UNCHANGED budget \/ Spend("fault")
        /\ Return /\ UNCHANGED <<child, childCache>>
    BY <1>4 DEF UpdateStatus
  <2> HIDE DEF new
  <2>3. ks' \in ServerType /\ ksCache' \in ServerType /\ queued' \in BOOLEAN
    BY <2>1, <2>2, StoreServerType DEF TypeOK
  <2>4. budget' \in [Events -> Nat]
    BY <2>2, SpendType DEF Events, TypeOK
  <2> QED
    BY <2>2, <2>3, <2>4, ReturnType DEF TypeOK, WorkerReads
<1> QED
  BY <1>1, <1>2, <1>3, <1>4 DEF Reconcile

\* What users may store has the type of a resource.
LEMMA UserServerType ==
  ASSUME TypeOK, NEW s \in Specs
  PROVE  /\ [live |-> TRUE, uid |-> ks.uid + 1, gen |-> 1, spec |-> s, status |-> NoStatus] \in ServerType
         /\ [ks EXCEPT !.gen = @ + 1, !.spec = s] \in ServerType
<1>1. NoStatus \in [phase: {"", "Pending", "Running", "Progressing"}, observed: Nat,
                    readySet: SUBSET Components]
  BY DEF NoStatus
<1>2. ks \in ServerType /\ ks.uid \in Nat /\ ks.gen \in Nat
  BY DEF TypeOK, ServerType
<1>3. ks.uid + 1 \in Nat /\ ks.gen + 1 \in Nat /\ 1 \in Nat
  BY <1>2
<1> QED
  BY <1>1, <1>2, <1>3 DEF ServerType

\* A step that stores a child and leaves the worker and the resource alone.
ChildStep(c) ==
  /\ \E new \in ChildType : StoreChild(c, new, FALSE)
  /\ UNCHANGED <<ks, ksCache, worker>>
  /\ UNCHANGED budget \/ \E e \in Events \ {"any"} : Spend(e)

\* What the children's controllers, users and the garbage collector do to a child is such a step.
LEMMA ChildSteps ==
  ASSUME TypeOK, NEW c \in Components,
         Tamper(c) \/ CreateStandalone(c) \/ ReportChild(c) \/ GoDown(c) \/ GarbageCollect(c)
  PROVE  ChildStep(c)
<1>1. child[c] \in ChildType /\ NoChild \in ChildType
  BY NothingType DEF TypeOK
<1>2. CASE Tamper(c)
  <2>1. PICK new \in {NoChild} \cup {[child[c] EXCEPT !.spec = v] : v \in Versions[c] \ {child[c].spec}} :
          StoreChild(c, new, FALSE)
    BY <1>2 DEF Tamper
  <2>2. \A v \in Versions[c] : [child[c] EXCEPT !.spec = v] \in ChildType
    BY <1>1, SectionType DEF ChildType
  <2>3. new \in ChildType
    BY <1>1, <2>1, <2>2
  <2> QED
    BY <1>2, <2>1, <2>3 DEF Tamper, ChildStep, Events
<1>3. CASE CreateStandalone(c)
  <2>1. PICK v \in Versions[c] : StoreChild(c, [NoChild EXCEPT !.live = TRUE, !.spec = v], FALSE)
    BY <1>3 DEF CreateStandalone
  <2>2. [NoChild EXCEPT !.live = TRUE, !.spec = v] \in ChildType
    BY <1>1, <2>1, SectionType DEF ChildType
  <2> QED
    BY <1>3, <2>1, <2>2 DEF CreateStandalone, ChildStep, Events
<1>4. CASE ReportChild(c)
  <2>1. PICK s \in {[child[c].status EXCEPT !.phase = "Error"], Running, Progressing} :
          StoreChild(c, [child[c] EXCEPT !.status = s], FALSE)
    BY <1>4 DEF ReportChild
  <2>2. s \in [phase: {"", "Running", "Progressing", "Error"}, cond: {"", "True", "False"}]
    <3>1. /\ child[c].status \in [phase: {"", "Running", "Progressing", "Error"},
                                  cond: {"", "True", "False"}]
      BY <1>1 DEF ChildType
    <3>2. [child[c].status EXCEPT !.phase = "Error"]
            \in [phase: {"", "Running", "Progressing", "Error"}, cond: {"", "True", "False"}]
      BY <3>1
    <3>3. {Running, Progressing}
            \subseteq [phase: {"", "Running", "Progressing", "Error"}, cond: {"", "True", "False"}]
      BY DEF Running, Progressing
    <3>4. s = [child[c].status EXCEPT !.phase = "Error"] \/ s \in {Running, Progressing}
      BY <2>1
    <3> QED
      BY <3>2, <3>3, <3>4, Zenon
  <2>3. [child[c] EXCEPT !.status = s] \in ChildType
    BY <1>1, <2>2 DEF ChildType
  <2> QED
    BY <1>4, <2>1, <2>3 DEF ReportChild, ChildStep
<1>5. CASE GoDown(c)
  <2>1. [child[c] EXCEPT !.status = Progressing] \in ChildType
    BY <1>1 DEF ChildType, Progressing
  <2> QED
    BY <1>5, <2>1 DEF GoDown, ChildStep, Events
<1>6. CASE GarbageCollect(c)
  BY <1>1, <1>6 DEF GarbageCollect, ChildStep
<1> QED
  BY <1>2, <1>3, <1>4, <1>5, <1>6

\* Everybody else keeps the types.
LEMMA EnvironmentType ==
  ASSUME TypeInv, Informers \/ Users \/ Children \/ Restart
  PROVE  TypeInv'
<1> USE DEF TypeInv
<1>1. CASE Informers
  BY <1>1 DEF Informers, SyncServer, SyncChild, Watched, TypeOK, WorkerReads, worker
<1>2. CASE Restart
  BY <1>2, SpendType, ReturnType DEF Restart, TypeOK, WorkerReads, Events
<1>3. ASSUME NEW new \in ServerType, NEW e \in Events \ {"any"}, Spend(e), UserChange(new)
      PROVE  TypeInv'
  BY <1>3, StoreServerType, SpendType DEF UserChange, TypeOK, WorkerReads, worker
<1>4. CASE CreateServer
  BY <1>3, <1>4, UserServerType DEF CreateServer, Events
<1>5. CASE EditSpec
  BY <1>3, <1>5, UserServerType DEF EditSpec, Events
<1>6. CASE DeleteServer
  <2>1. ks.uid \in Nat
    BY DEF TypeOK, ServerType
  <2> QED
    BY <1>3, <1>6, <2>1, NothingType DEF DeleteServer, Events
<1>7. ASSUME NEW c \in Components, ChildStep(c) PROVE TypeInv'
  BY <1>7, StoreChildType, SpendType DEF ChildStep, TypeOK, WorkerReads, worker
<1> QED
  BY <1>1, <1>2, <1>4, <1>5, <1>6, <1>7, ChildSteps DEF Users, Children

\* Initially nothing is there.
LEMMA InitType == Init => TypeInv
<1>1. 0 \in 0 .. Len(Order)
  BY Positions
<1> QED
  BY <1>1, NothingType, ConstantsAssumption, ZenonT(60) DEF Init, TypeInv, TypeOK, WorkerReads

\* Every step keeps the types.
LEMMA NextType == TypeInv /\ [Next]_vars => TypeInv'
<1>1. ASSUME TypeInv, UNCHANGED vars PROVE TypeInv'
  BY <1>1 DEF TypeInv, vars, TypeOK, WorkerReads, worker
<1> QED
  BY <1>1, ReconcileType, EnvironmentType DEF Next

\* Every variable of KeaServer has its type in every reachable state, for every
\* sequence of components: in particular, the loops over the components never
\* leave it.
THEOREM TypeCorrect == Spec => []TypeOK
<1>1. TypeInv => TypeOK
  BY DEF TypeInv
<1> QED
  BY <1>1, InitType, NextType, PTL DEF Spec

----------------------------------------------------------------------------
\* The contract of the resource

\* A status that is stored is a report on the resource as it is.
LEMMA StatusSeen ==
  ASSUME TypeInv, UpdateStatus
  PROVE  [Contract!Next]_(Contract!vars)
<1> DEFINE new == [ks EXCEPT !.status = NewStatusFor(snap.spec, snap.gen, readySet)]
<1>1. /\ new.live = ks.live /\ new.gen = ks.gen /\ new.status.observed = snap.gen
      /\ new.status.phase \in {"Pending", "Running", "Progressing"}
  BY NewStatusType DEF TypeInv
<1>2. ks' = ks \/ (snap = ks /\ ks' = new)
  BY DEF UpdateStatus, StoreServer
<1> HIDE DEF new
<1>3. snap.live
  BY DEF TypeInv, WorkerReads, UpdateStatus
<1>4. CASE ks' = ks
  BY <1>4 DEF Contract!vars
<1>5. CASE snap = ks /\ ks' = new
  <2>1. /\ ks.live /\ ks'.live = ks.live /\ ks'.gen = ks.gen /\ ks'.status.observed = ks.gen
        /\ ks'.status.phase \in {"Pending", "Running", "Progressing"}
    BY <1>1, <1>3, <1>5
  <2> QED
    BY <2>1 DEF Contract!Next, Contract!Report
<1> QED
  BY <1>2, <1>4, <1>5

\* Users do what the contract lets them.
LEMMA UsersSeen ==
  ASSUME TypeInv, CreateServer \/ EditSpec \/ DeleteServer
  PROVE  Contract!Next
<1>1. ks \in ServerType
  BY DEF TypeInv, TypeOK
<1>2. CASE CreateServer
  <2>1. ~ks.live /\ ks'.live = TRUE /\ ks'.gen = 1 /\ ks'.status = NoStatus
    BY <1>2 DEF CreateServer, UserChange, StoreServer
  <2>2. NoStatus.observed = 0 /\ NoStatus.phase = ""
    BY DEF NoStatus
  <2>3. Contract!Create
    BY <2>1, <2>2 DEF Contract!Create, Contract!NoPhase
  <2> QED
    BY <2>3 DEF Contract!Next
<1>3. CASE EditSpec
  <2>1. PICK s \in Specs : ks' = [ks EXCEPT !.gen = @ + 1, !.spec = s]
    BY <1>3 DEF EditSpec, UserChange, StoreServer
  <2>2. ks.live /\ ks'.live = ks.live /\ ks'.gen = ks.gen + 1 /\ ks'.status = ks.status
    BY <1>1, <1>3, <2>1 DEF EditSpec, ServerType
  <2> QED
    BY <2>2 DEF Contract!Next, Contract!Edit
<1>4. CASE DeleteServer
  <2>1. ks' = [NoServer EXCEPT !.uid = ks.uid] /\ ks.live /\ ks.uid \in Nat
    BY <1>1, <1>4 DEF DeleteServer, UserChange, StoreServer, ServerType
  <2>2. ks'.live = FALSE
    BY <2>1 DEF NoServer
  <2> QED
    BY <2>1, <2>2 DEF Contract!Next, Contract!Delete, Contract!NoPhase
<1> QED
  BY <1>2, <1>3, <1>4

\* Every step maps to a step of the contract, or to none.
LEMMA NextSeen == ASSUME TypeInv, [Next]_vars PROVE [Contract!Next]_(Contract!vars)
<1>1. CASE UpdateStatus
  BY <1>1, StatusSeen
<1>2. CASE CreateServer \/ EditSpec \/ DeleteServer
  BY <1>2, UsersSeen
<1>3. CASE ks' = ks
  BY <1>3 DEF Contract!vars
<1>4. CASE BeginReconcile \/ ReconcileChild \/ ReadChild \/ Informers \/ Children \/ Restart
  BY <1>3, <1>4
  DEF BeginReconcile, ReconcileChild, ReadChild, Informers, SyncServer, SyncChild, Children,
      ReportChild, GoDown, GarbageCollect, Restart
<1>5. CASE \E c \in Components : Tamper(c) \/ CreateStandalone(c)
  BY <1>3, <1>5 DEF Tamper, CreateStandalone
<1> QED
  BY <1>1, <1>2, <1>3, <1>4, <1>5 DEF Next, Reconcile, Users, vars

\* The controller of a KeaServer keeps the contract of its resource: whatever it
\* has read of the resource and of the children, and whenever, it never reports on
\* a generation, or on a namesake, that it has not seen.
THEOREM ImplementsContract == Spec => KeepsContract
<1>1. Init => Contract!Init
  BY DEF Init, NoServer, Contract!Init, Contract!NoPhase
<1> QED
  BY <1>1, InitType, NextType, NextSeen, PTL DEF Spec, KeepsContract, Contract!Spec

----------------------------------------------------------------------------
\* No work is forgotten

\* The child y of component c is what the copy x of the resource asks for.
Fits(x, c, y) ==
  IF x.spec[c] = 0 THEN y.live => y.owner = 0
  ELSE y.live /\ y.owner = x.uid /\ y.spec = x.spec[c]

\* The children whose informer keeps up are cached as they are.
ChildrenCached == \A c \in Components \ Lagging : childCache[c] = child[c]

\* A resource that was created has a uid, so a child it owns is watched.
UidsGiven ==
  /\ ks.live => ks.uid > 0
  /\ ksCache.live => ksCache.uid > 0

\* Everything that could change what the worker has to do is an event, so while
\* nothing is queued the worker has read the resource as it is cached.
WorkerIsCurrent == (pc # "idle" /\ ~queued) => snap = ksCache

\* And the components the worker has gone through are as it left them.
ProgressKept ==
  (ksCache.live /\ ~queued) =>
    \A n \in 1 .. Len(Order) :
      (Order[n] \notin Lagging /\ (pc = "child" => n < pos)) =>
        Fits(ksCache, Order[n], child[Order[n]])

DoneInv == TypeInv /\ ChildrenCached /\ UidsGiven /\ WorkerIsCurrent /\ ProgressKept

\* What DoneInv needs to know of the types.
LEMMA DoneTypes ==
  ASSUME TypeInv
  PROVE  /\ ks \in ServerType /\ ksCache \in ServerType
         /\ ks.uid \in Nat /\ ksCache.uid \in Nat /\ queued \in BOOLEAN
         /\ child = [c \in Components |-> child[c]]
         /\ childCache = [c \in Components |-> childCache[c]]
         /\ \A c \in Components : child[c] \in ChildType /\ child[c].live \in BOOLEAN
BY DEF TypeInv, TypeOK, ServerType, ChildType

\* What a change of a child leaves: either an event queues the resource, or the
\* other children and the child's part in ProgressKept stay as they were.
LEMMA StoreChildKeeps ==
  ASSUME DoneInv, TypeInv', NEW c \in Components, NEW new, NEW requeue \in BOOLEAN,
         StoreChild(c, new, requeue)
  PROVE  /\ ChildrenCached'
         /\ \A d \in Components \ {c} : child'[d] = child[d]
         /\ child'[c] = new
         /\ ~queued' => ~queued
         /\ (~queued' /\ c \notin Lagging) => new = child[c] \/ (child[c].owner = 0 /\ new.owner = 0)
<1> USE DoneTypes DEF DoneInv
<1>1. /\ child' = [child EXCEPT ![c] = new]
      /\ childCache' = IF c \notin Lagging /\ new # child[c]
                         THEN [childCache EXCEPT ![c] = new] ELSE childCache
      /\ queued' = (queued \/ requeue \/ (c \notin Lagging /\ new # child[c] /\ Watched(child[c], new)))
  BY DEF StoreChild
<1>2. ChildrenCached'
  BY <1>1 DEF ChildrenCached
<1>3. (~queued' /\ c \notin Lagging) => new = child[c] \/ (child[c].owner = 0 /\ new.owner = 0)
  BY <1>1 DEF Watched
<1> QED
  BY <1>1, <1>2, <1>3

\* A change that nobody is told of cannot undo what the worker has done.
LEMMA ChildStepKeeps ==
  ASSUME DoneInv, TypeInv', NEW c \in Components, ChildStep(c)
  PROVE  DoneInv'
<1> USE DEF DoneInv
<1>1. PICK new \in ChildType : StoreChild(c, new, FALSE)
  BY DEF ChildStep
<1>2. UNCHANGED <<ks, ksCache, pc, snap, pos>>
  BY DEF ChildStep, worker
<1>3. /\ ChildrenCached' /\ \A d \in Components \ {c} : child'[d] = child[d]
      /\ child'[c] = new /\ (~queued' => ~queued)
      /\ (~queued' /\ c \notin Lagging) => new = child[c] \/ (child[c].owner = 0 /\ new.owner = 0)
  BY <1>1, StoreChildKeeps
<1>4. UidsGiven' /\ WorkerIsCurrent'
  BY <1>2, <1>3 DEF UidsGiven, WorkerIsCurrent
<1>5. ProgressKept'
  <2> SUFFICES ASSUME ksCache.live, ~queued', NEW n \in 1 .. Len(Order), Order[n] \notin Lagging,
                      pc = "child" => n < pos
               PROVE  Fits(ksCache', Order[n], child'[Order[n]])
    BY <1>2 DEF ProgressKept
  <2>1. Fits(ksCache, Order[n], child[Order[n]]) /\ Order[n] \in Components /\ ksCache.uid > 0
    BY <1>3, Positions DEF ProgressKept, UidsGiven
  <2>2. CASE child'[Order[n]] = child[Order[n]]
    BY <1>2, <2>1, <2>2 DEF Fits
  <2>3. CASE Order[n] = c /\ child[c].owner = 0 /\ child'[c].owner = 0
    BY <1>2, <2>1, <2>3, DoneTypes DEF Fits
  <2> QED
    BY <1>3, <2>1, <2>2, <2>3
<1> QED
  BY <1>3, <1>4, <1>5

\* The worker goes on when the child of its component is as the section asks.
LEMMA WorkerGoesOn ==
  ASSUME DoneInv, TypeInv', pc = "child", Proceed("child", "read"), UNCHANGED <<ks, ksCache>>,
         ChildrenCached', ~queued' => ~queued,
         \A d \in Components \ {Order[pos]} : child'[d] = child[d],
         (~queued' /\ Order[pos] \notin Lagging) => Fits(snap, Order[pos], child'[Order[pos]])
  PROVE  DoneInv'
<1> USE DEF DoneInv
<1>1. /\ snap' = snap /\ pos \in 1 .. Len(Order)
      /\ \/ pc' = "child" /\ pos' = pos + 1
         \/ pc' = "read" /\ pos = Len(Order)
  BY Positions DEF Proceed, TypeInv, WorkerReads
<1>2. UidsGiven' /\ WorkerIsCurrent'
  BY <1>1 DEF UidsGiven, WorkerIsCurrent
<1>3. ProgressKept'
  <2> SUFFICES ASSUME ksCache.live, ~queued', NEW n \in 1 .. Len(Order), Order[n] \notin Lagging,
                      pc' = "child" => n < pos'
               PROVE  Fits(ksCache', Order[n], child'[Order[n]])
    BY DEF ProgressKept
  <2>1. snap = ksCache /\ snap' = ksCache'
    BY <1>1 DEF WorkerIsCurrent
  <2>2. CASE Order[n] = Order[pos]
    BY <2>1, <2>2
  <2>3. CASE Order[n] # Order[pos]
    <3>1. n < pos
      BY <1>1, <2>3, Positions
    <3>2. child'[Order[n]] = child[Order[n]]
      BY <2>3, Positions
    <3>3. Fits(ksCache, Order[n], child[Order[n]])
      BY <3>1 DEF ProgressKept
    <3> QED
      BY <3>2, <3>3 DEF Fits
  <2> QED
    BY <2>2, <2>3
<1> QED
  BY <1>2, <1>3

\* A reconcile that ends early leaves the resource queued.
LEMMA WorkerEnds ==
  ASSUME DoneInv, TypeInv', ChildrenCached', UidsGiven', queued'
  PROVE  DoneInv'
BY DEF DoneInv, WorkerIsCurrent, ProgressKept

\* The stage that brings a child in line with its section.
LEMMA ReconcileChildKeeps ==
  ASSUME DoneInv, TypeInv', ReconcileChild
  PROVE  DoneInv'
<1> USE DEF DoneInv
<1> DEFINE c == Order[pos]
<1>1. c \in Components /\ pc = "child" /\ UNCHANGED <<ks, ksCache>> /\ UidsGiven'
  BY Positions DEF ReconcileChild, TypeInv, WorkerReads, UidsGiven
<1>2. ASSUME NEW new, NEW accepted \in BOOLEAN, Request(c, new, accepted),
             IF snap.spec[c] = 0 THEN ~new.live
             ELSE new.live /\ new.owner = snap.uid /\ new.spec = snap.spec[c]
      PROVE  DoneInv'
  <2>1. CASE accepted /\ StoreChild(c, new, FALSE) /\ Proceed("child", "read")
    <3> HIDE DEF c
    <3>1. /\ ChildrenCached' /\ \A d \in Components \ {c} : child'[d] = child[d]
          /\ child'[c] = new /\ (~queued' => ~queued)
      BY <1>1, <2>1, StoreChildKeeps
    <3>2. snap' = snap
      BY <2>1 DEF Proceed
    <3>3. Fits(snap, c, child'[c])
      BY <1>2, <3>1, <3>2 DEF Fits
    <3> QED
      BY <1>1, <2>1, <3>1, <3>3, WorkerGoesOn DEF c
  <2>2. CASE queued' = TRUE /\ UNCHANGED <<child, childCache>>
    <3>1. ChildrenCached'
      BY <2>2 DEF ChildrenCached
    <3> QED
      BY <1>1, <2>2, <3>1, WorkerEnds
  <2>3. CASE \E done \in {FALSE, accepted} : StoreChild(c, IF done THEN new ELSE child[c], TRUE)
    <3>1. PICK x : StoreChild(c, x, TRUE)
      BY <2>3
    <3> HIDE DEF c
    <3>2. ChildrenCached' /\ queued'
      BY <1>1, <3>1, StoreChildKeeps DEF StoreChild
    <3> QED
      BY <1>1, <3>2, WorkerEnds
  <2> QED
    BY <1>2, <2>1, <2>2, <2>3 DEF Request
<1>3. ASSUME UNCHANGED <<child, childCache, queued>>, Proceed("child", "read"),
             c \notin Lagging => Fits(snap, c, child[c])
      PROVE  DoneInv'
  <2>1. ChildrenCached' /\ snap' = snap
    BY <1>3 DEF ChildrenCached, Proceed
  <2>2. c \notin Lagging => Fits(snap, c, child'[c])
    BY <1>3, <2>1 DEF Fits
  <2> QED
    BY <1>1, <1>3, <2>1, <2>2, WorkerGoesOn
<1>4. CASE snap.spec[c] = 0 /\ DeleteChild(c)
  <2>1. CASE childCache[c].live
    <3>1. Request(c, NoChild, child[c].live) /\ child[c].live \in BOOLEAN
      BY <1>1, <1>4, <2>1, DoneTypes DEF DeleteChild
    <3>2. ~NoChild.live
      BY DEF NoChild
    <3> HIDE DEF c
    <3> QED
      BY <1>2, <1>4, <3>1, <3>2
  <2>2. CASE ~childCache[c].live
    <3>1. UNCHANGED <<child, childCache, queued>> /\ Proceed("child", "read")
      BY <1>4, <2>2 DEF DeleteChild
    <3>2. c \notin Lagging => Fits(snap, c, child[c])
      BY <1>1, <1>4, <2>2 DEF ChildrenCached, Fits
    <3> HIDE DEF c
    <3> QED
      BY <1>3, <3>1, <3>2
  <2> QED
    BY <2>1, <2>2
<1>5. CASE snap.spec[c] # 0 /\ CreateOrUpdate(c)
  <2> DEFINE old == childCache[c]
             new == [old EXCEPT !.live = TRUE, !.owner = snap.uid, !.spec = snap.spec[c]]
  <2>1. new.live /\ new.owner = snap.uid /\ new.spec = snap.spec[c]
    BY <1>1, UpdatedChild DEF TypeInv
  <2>2. \/ new = old /\ UNCHANGED <<child, childCache, queued>> /\ Proceed("child", "read")
        \/ Request(c, new, old = child[c])
    BY <1>5 DEF CreateOrUpdate
  <2>3. c \notin Lagging => old = child[c]
    BY <1>1 DEF ChildrenCached
  <2> HIDE DEF c, new, old
  <2>4. CASE new = old /\ UNCHANGED <<child, childCache, queued>> /\ Proceed("child", "read")
    BY <1>3, <1>5, <2>1, <2>3, <2>4 DEF Fits
  <2>5. CASE Request(c, new, old = child[c])
    BY <1>2, <1>5, <2>1, <2>5
  <2> QED
    BY <2>2, <2>4, <2>5
<1> QED
  BY <1>4, <1>5 DEF ReconcileChild

\* A change of the resource: either an event queues it, or it is cached as before.
LEMMA StoreServerKeeps ==
  ASSUME DoneInv, TypeInv', NEW new, NEW fails \in BOOLEAN, StoreServer(new, fails),
         new.live => new.uid > 0, UNCHANGED <<child, childCache>>,
         pc' = "idle" \/ (pc' = pc /\ snap' = snap /\ pos' = pos), pc # "child" \/ pc' = pc
  PROVE  DoneInv'
<1> USE DoneTypes DEF DoneInv
<1>1. ChildrenCached'
  BY DEF ChildrenCached
<1>2. /\ ks' = new /\ ksCache' \in {ksCache, new}
      /\ queued' \/ (ksCache' = ksCache /\ ~queued)
  BY DEF StoreServer
<1>3. UidsGiven'
  BY <1>2 DEF UidsGiven
<1>4. CASE queued'
  BY <1>1, <1>3, <1>4, WorkerEnds
<1>5. CASE ksCache' = ksCache /\ ~queued
  <2>1. WorkerIsCurrent'
    BY <1>5 DEF WorkerIsCurrent
  <2>2. ProgressKept'
    BY <1>5 DEF ProgressKept, Fits
  <2> QED
    BY <1>1, <1>3, <2>1, <2>2
<1> QED
  BY <1>2, <1>4, <1>5

\* Every step keeps DoneInv.
LEMMA NextDone == DoneInv /\ [Next]_vars => DoneInv'
<1> SUFFICES ASSUME DoneInv, [Next]_vars PROVE DoneInv'
  OBVIOUS
<1>0. TypeInv /\ TypeInv' /\ TypeOK
  BY NextType DEF DoneInv, TypeInv
<1> USE DEF DoneInv
<1>1. CASE BeginReconcile
  <2>1. /\ UNCHANGED <<ks, ksCache, child, childCache>>
        /\ \/ pc' = "child" /\ snap' = ksCache /\ pos' = 1
           \/ ~ksCache.live /\ pc' = "idle"
    BY <1>1 DEF BeginReconcile
  <2>2. ChildrenCached' /\ UidsGiven' /\ WorkerIsCurrent'
    BY <2>1 DEF ChildrenCached, UidsGiven, WorkerIsCurrent
  <2>3. ProgressKept'
    BY <2>1 DEF ProgressKept
  <2> QED
    BY <1>0, <2>2, <2>3
<1>2. CASE ReconcileChild
  BY <1>0, <1>2, ReconcileChildKeeps
<1>3. CASE ReadChild
  <2>1. /\ UNCHANGED <<ks, ksCache, child, childCache, queued, snap>>
        /\ pc = "read" /\ pc' \in {"read", "status"}
    BY <1>3 DEF ReadChild, Proceed
  <2> QED
    BY <1>0, <2>1 DEF ChildrenCached, UidsGiven, WorkerIsCurrent, ProgressKept, Fits
<1>4. CASE UpdateStatus
  <2> DEFINE new == [ks EXCEPT !.status = NewStatusFor(snap.spec, snap.gen, readySet)]
  <2>1. new.live = ks.live /\ new.uid = ks.uid
    BY <1>0, NewStatusType
  <2>2. /\ \/ \E w \in {ks, new}, fails \in BOOLEAN : StoreServer(w, fails)
           \/ queued' = TRUE /\ UNCHANGED <<ks, ksCache>>
        /\ pc = "status" /\ pc' = "idle" /\ UNCHANGED <<child, childCache>>
    BY <1>4 DEF UpdateStatus, Return
  <2> HIDE DEF new
  <2>3. CASE queued' = TRUE /\ UNCHANGED <<ks, ksCache>>
    BY <1>0, <2>2, <2>3, WorkerEnds DEF ChildrenCached, UidsGiven
  <2>4. CASE \E w \in {ks, new}, fails \in BOOLEAN : StoreServer(w, fails)
    BY <1>0, <2>1, <2>2, <2>4, StoreServerKeeps DEF UidsGiven
  <2> QED
    BY <2>2, <2>3, <2>4
<1>5. CASE SyncServer
  BY <1>0, <1>5, WorkerEnds DEF SyncServer, ChildrenCached, UidsGiven
<1>6. CASE \E c \in Components : SyncChild(c)
  <2>1. PICK c \in Components : SyncChild(c)
    BY <1>6
  <2>2. /\ UNCHANGED <<ks, ksCache, child, pc, snap, pos>> /\ (~queued' => ~queued)
        /\ childCache' = [childCache EXCEPT ![c] = child[c]]
    BY <2>1 DEF SyncChild, worker
  <2>3. ChildrenCached'
    BY <1>0, <2>2, DoneTypes DEF ChildrenCached
  <2>4. UidsGiven' /\ WorkerIsCurrent'
    BY <2>2 DEF UidsGiven, WorkerIsCurrent
  <2>5. ProgressKept'
    BY <2>2 DEF ProgressKept, Fits
  <2> QED
    BY <1>0, <2>3, <2>4, <2>5
<1>7. CASE CreateServer \/ EditSpec \/ DeleteServer
  <2>1. PICK new : StoreServer(new, FALSE) /\ (new.live => new.uid > 0)
    <3>1. ks \in ServerType /\ ks.uid \in Nat
      BY <1>0, DoneTypes
    <3>2. CASE CreateServer
      <4>1. PICK s \in Specs : StoreServer([live |-> TRUE, uid |-> ks.uid + 1, gen |-> 1, spec |-> s,
                                            status |-> NoStatus], FALSE)
        BY <3>2 DEF CreateServer, UserChange
      <4>2. ks.uid + 1 > 0
        BY <3>1
      <4> DEFINE new == [live |-> TRUE, uid |-> ks.uid + 1, gen |-> 1, spec |-> s,
                         status |-> NoStatus]
      <4>3. new.uid = ks.uid + 1
        OBVIOUS
      <4> HIDE DEF new
      <4>4. StoreServer(new, FALSE)
        BY <4>1 DEF new
      <4> QED
        BY <4>2, <4>3, <4>4
    <3>3. CASE EditSpec
      <4>1. PICK s \in Specs : StoreServer([ks EXCEPT !.gen = @ + 1, !.spec = s], FALSE)
        BY <3>3 DEF EditSpec, UserChange
      <4>2. [ks EXCEPT !.gen = @ + 1, !.spec = s].uid = ks.uid /\ ks.live
        BY <3>1, <3>3 DEF ServerType, EditSpec
      <4> QED
        BY <4>1, <4>2 DEF UidsGiven
    <3>4. CASE DeleteServer
      <4>1. StoreServer([NoServer EXCEPT !.uid = ks.uid], FALSE)
        BY <3>4 DEF DeleteServer, UserChange
      <4> QED
        BY <3>1, <4>1, NothingType
    <3> QED
      BY <1>7, <3>2, <3>3, <3>4
  <2>2. UNCHANGED <<child, childCache, pc, snap, pos>>
    BY <1>7 DEF CreateServer, EditSpec, DeleteServer, UserChange, worker
  <2> QED
    BY <1>0, <2>1, <2>2, StoreServerKeeps
<1>8. CASE \E c \in Components : \/ Tamper(c) \/ CreateStandalone(c) \/ ReportChild(c)
                                 \/ GoDown(c) \/ GarbageCollect(c)
  BY <1>0, <1>8, ChildSteps, ChildStepKeeps
<1>9. CASE Restart
  BY <1>0, <1>9, WorkerEnds DEF Restart, ChildrenCached, UidsGiven
<1>10. CASE UNCHANGED vars
  BY <1>0, <1>10
  DEF vars, worker, ChildrenCached, UidsGiven, WorkerIsCurrent, ProgressKept, Fits
<1> QED
  BY <1>1, <1>2, <1>3, <1>4, <1>5, <1>6, <1>7, <1>8, <1>9, <1>10
     DEF Next, Reconcile, Informers, Users, Children

\* No work is forgotten: whatever users do to the resource and to its children,
\* and whatever is lost or refused, a KeaServer whose controller has nothing left
\* to do has the children its sections ask for, as far as the informers of the
\* children keep up.
THEOREM NothingForgotten == Spec => []QuietMeansDone
<1>1. Init => DoneInv
  <2> SUFFICES ASSUME Init PROVE DoneInv
    OBVIOUS
  <2> QED
    BY InitType, NothingType
    DEF Init, DoneInv, ChildrenCached, UidsGiven, WorkerIsCurrent, ProgressKept
<1>2. DoneInv => QuietMeansDone
  <2> SUFFICES ASSUME DoneInv, ks.live, ksCache = ks, pc = "idle", ~queued,
                      NEW c \in Components \ Lagging
               PROVE  Follows(c)
    BY DEF QuietMeansDone
  <2>1. Fits(ksCache, c, child[c])
    BY Positions DEF DoneInv, ProgressKept
  <2> QED
    BY <2>1 DEF Follows, Fits
<1> QED
  BY <1>1, <1>2, NextDone, PTL DEF Spec
============================================================================
