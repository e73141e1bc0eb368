----------------------------- MODULE KeaServer -----------------------------
(***************************************************************************)
(* A KeaServer, the umbrella resource, its controller, and the component   *)
(* resources the controller creates, updates and deletes as its children.  *)
(*                                                                         *)
(* The controller goes through the components in a fixed order, then reads *)
(* the children's statuses in the same order and writes its own. The       *)
(* children live a life of their own: their controllers write their        *)
(* statuses, users edit and delete them, or have created one of the same   *)
(* name before.                                                            *)
(***************************************************************************)
EXTENDS Naturals, Sequences

CONSTANTS
  Order,    \* the components, in the order Reconcile goes through them
  Versions, \* what each component's section may say; 0 stands for no section
  Broken,   \* the sections whose configuration cannot be rendered
  Lagging,  \* the children (and the resource, "cr") whose informer may lag
  Budget    \* how often each event of the environment may happen

Components == {Order[n] : n \in 1 .. Len(Order)}
\* What the environment may do, and "any" for all of it together.
Events == {"create", "edit", "delete", "fault", "tamper", "standalone", "down", "restart", "any"}

ASSUME ConstantsAssumption ==
  /\ Order \in Seq({"dhcp4", "dhcp6", "ctrl-agent", "ddns", "stork-server"}) /\ Order # <<>>
  /\ \A m, n \in 1 .. Len(Order) : Order[m] = Order[n] => m = n
  /\ Versions \in [Components -> SUBSET (Nat \ {0})]
  /\ Broken \subseteq Nat
  /\ Lagging \subseteq Components \cup {"cr"}
  /\ Budget \in [Events -> Nat]

VARIABLES
  ks,          \* the KeaServer in the API server
  ksCache,     \* the cached copy of it
  child,       \* the children in the API server
  childCache,  \* the cached copies of them
  queued,      \* the KeaServer's request is in the work queue
  pc,          \* "idle", "child" (the children are reconciled), "read" or "status"
  snap,        \* the KeaServer as the reconcile read it
  pos,         \* the position in Order
  readySet,    \* the components found ready
  budget       \* what is left of Budget

worker == <<pc, snap, pos, readySet>>
vars == <<ks, ksCache, child, childCache, queued, worker, budget>>

Specs == {s \in [Components -> {0} \cup UNION {Versions[c] : c \in Components}] :
            \A c \in Components : s[c] \in Versions[c] \cup {0}}
NoChildStatus == [phase |-> "", cond |-> ""]
NoChild == [live |-> FALSE, owner |-> 0, spec |-> 0, status |-> NoChildStatus]
NoStatus == [phase |-> "", observed |-> 0, readySet |-> {}]
NoServer == [live |-> FALSE, uid |-> 0, gen |-> 0, spec |-> [c \in Components |-> 0],
             status |-> NoStatus]

\* Once the events are used up altogether it does not matter which were.
Spend(e) ==
  /\ budget[e] > 0 /\ budget["any"] > 0
  /\ budget' = IF budget["any"] = 1 THEN [f \in Events |-> 0]
               ELSE [budget EXCEPT ![e] = @ - 1, !["any"] = @ - 1]

Return == pc' = "idle" /\ snap' = NoServer /\ pos' = 0 /\ readySet' = {}

----------------------------------------------------------------------------
\* The API server

WatchedSpecOnly(old, new) ==
  (old.owner # 0 \/ new.owner # 0) /\ <<new.live, new.spec>> # <<old.live, old.spec>>

\* Children are watched by their owner: an event of a child that has none, and
\* had none before, goes nowhere.
Watched(old, new) == old.owner # 0 \/ new.owner # 0

\* A change of a child, and the event it causes.
StoreChild(c, new, requeue) ==
  LET event == c \notin Lagging /\ new # child[c]
  IN /\ child' = [child EXCEPT ![c] = new]
     /\ childCache' = IF event THEN [childCache EXCEPT ![c] = new] ELSE childCache
     /\ queued' = (queued \/ requeue \/ (event /\ Watched(child[c], new)))

StoreServer(new, fails) ==
  LET event == "cr" \notin Lagging /\ new # ks
  IN /\ ks' = new
     /\ ksCache' = IF event THEN new ELSE ksCache
     /\ queued' = (queued \/ event \/ fails)

----------------------------------------------------------------------------
\* The controller

BeginReconcile ==
  /\ pc = "idle" /\ queued
  /\ queued' = FALSE
  /\ IF ksCache.live THEN pc' = "child" /\ snap' = ksCache /\ pos' = 1
                     ELSE UNCHANGED <<pc, snap, pos>>
  /\ UNCHANGED <<ks, ksCache, child, childCache, readySet, budget>>

\* On to the next component, or from the last to the first of the next stage.
Proceed(stage, next) ==
  /\ IF pos < Len(Order) THEN pc' = stage /\ pos' = pos + 1 ELSE pc' = next /\ pos' = 1
  /\ UNCHANGED snap

RequestErrorLogged(c, new, accepted) ==
  /\ Proceed("child", "read") /\ UNCHANGED readySet
  /\ \/ accepted /\ StoreChild(c, new, FALSE) /\ UNCHANGED budget
     \/ ~accepted /\ UNCHANGED <<child, childCache, queued, budget>>
     \/ /\ Spend("fault")
        /\ \E done \in {FALSE, accepted} : StoreChild(c, IF done THEN new ELSE child[c], FALSE)

\* The answer to a request that would turn the child into new: done, refused, or
\* lost with the request carried out or not.
Request(c, new, accepted) ==
  \/ /\ accepted /\ StoreChild(c, new, FALSE)
     /\ Proceed("child", "read") /\ UNCHANGED <<readySet, budget>>
  \/ /\ ~accepted /\ queued' = TRUE
     /\ Return /\ UNCHANGED <<child, childCache, budget>>
  \/ /\ Spend("fault")
     /\ \E done \in {FALSE, accepted} : StoreChild(c, IF done THEN new ELSE child[c], TRUE)
     /\ Return

DeleteChildBlindly(c) == Request(c, NoChild, child[c].live)

\* No section: delete the child the cache has, by name and whoever owns it.
DeleteChild(c) ==
  IF childCache[c].live
    THEN Request(c, NoChild, child[c].live)
    ELSE UNCHANGED <<child, childCache, queued, readySet, budget>> /\ Proceed("child", "read")

CreateOrUpdateConflictIgnored(c) ==
  LET old == childCache[c]
      new == [old EXCEPT !.live = TRUE, !.owner = snap.uid, !.spec = snap.spec[c]]
  IN IF new = old \/ old # child[c]
       THEN UNCHANGED <<child, childCache, queued, readySet, budget>> /\ Proceed("child", "read")
       ELSE Request(c, new, TRUE)

\* A section: create the child, or update the copy the cache has, which the
\* API server accepts only if that copy is current.
CreateOrUpdate(c) ==
  LET old == childCache[c]
      new == [old EXCEPT !.live = TRUE, !.owner = snap.uid, !.spec = snap.spec[c]]
  IN IF new = old
       THEN UNCHANGED <<child, childCache, queued, readySet, budget>> /\ Proceed("child", "read")
       ELSE Request(c, new, old = child[c])

ReconcileChild ==
  /\ pc = "child"
  /\ LET c == Order[pos]
     IN IF snap.spec[c] = 0 THEN DeleteChild(c) ELSE CreateOrUpdate(c)
  /\ UNCHANGED <<ks, ksCache>>

\* A child without a Ready condition counts as ready when it is Running.
isChildReady(c) ==
  /\ childCache[c].live
  /\ childCache[c].status.phase = "Running"
  /\ childCache[c].status.cond \in {"True", ""}

ReadChild ==
  /\ pc = "read"
  /\ LET c == Order[pos]
     IN readySet' = IF isChildReady(c) THEN readySet \cup {c} ELSE readySet
  /\ Proceed("read", "status")
  /\ UNCHANGED <<ks, ksCache, child, childCache, queued, budget>>

Configured(s) == {c \in Components : s[c] # 0}

NewStatusForReady(s, g, r) ==
  [phase |-> IF Configured(s) = {} THEN "Pending"
             ELSE IF Configured(s) \subseteq r THEN "Ready" ELSE "Progressing",
   observed |-> g, readySet |-> r]

NewStatusFor(s, g, r) ==
  [phase |-> IF Configured(s) = {} THEN "Pending"
             ELSE IF Configured(s) \subseteq r THEN "Running" ELSE "Progressing",
   observed |-> g, readySet |-> r]

UpdateStatusByPatch ==
  /\ pc = "status"
  /\ StoreServer([ks EXCEPT !.status = NewStatusFor(snap.spec, snap.gen, readySet)], FALSE)
  /\ Return
  /\ UNCHANGED <<child, childCache, budget>>

UpdateStatus ==
  /\ pc = "status"
  /\ LET new == [ks EXCEPT !.status = NewStatusFor(snap.spec, snap.gen, readySet)]
     IN \/ snap = ks /\ StoreServer(new, FALSE) /\ UNCHANGED budget
        \/ snap # ks /\ queued' = TRUE /\ UNCHANGED <<ks, ksCache, budget>>
        \/ \E w \in {ks} \cup (IF snap = ks THEN {new} ELSE {}) :
             StoreServer(w, TRUE) /\ Spend("fault")
  /\ Return
  /\ UNCHANGED <<child, childCache>>

Reconcile == BeginReconcile \/ ReconcileChild \/ ReadChild \/ UpdateStatus

----------------------------------------------------------------------------
\* The children's controllers and pods, as far as their statuses tell

Running == [phase |-> "Running", cond |-> "True"]
Progressing == [phase |-> "Progressing", cond |-> "False"]

\* A child's controller reports that the configuration cannot be rendered, that
\* all pods are ready, or, when it starts on a spec, that they are not yet.
ReportChild(c) ==
  /\ child[c].live
  /\ \E s \in IF child[c].spec \in Broken THEN {[child[c].status EXCEPT !.phase = "Error"]}
              ELSE IF child[c].status \in {Running, Progressing} THEN {Running}
              ELSE {Running, Progressing} :
       /\ s # child[c].status
       /\ StoreChild(c, [child[c] EXCEPT !.status = s], FALSE)
  /\ UNCHANGED <<ks, ksCache, worker, budget>>

\* Pods fail, or are rolled.
GoDown(c) ==
  /\ child[c].live /\ child[c].status = Running /\ Spend("down")
  /\ StoreChild(c, [child[c] EXCEPT !.status = Progressing], FALSE)
  /\ UNCHANGED <<ks, ksCache, worker>>

----------------------------------------------------------------------------
\* Informers, the operator process, users, the garbage collector

SyncServer ==
  /\ ksCache # ks
  /\ ksCache' = ks /\ queued' = TRUE
  /\ UNCHANGED <<ks, child, childCache, worker, budget>>

SyncChild(c) ==
  /\ childCache[c] # child[c]
  /\ childCache' = [childCache EXCEPT ![c] = child[c]]
  /\ queued' = (queued \/ Watched(childCache[c], child[c]))
  /\ UNCHANGED <<ks, ksCache, child, worker, budget>>

Restart ==
  /\ Spend("restart")
  /\ Return /\ ksCache' = ks /\ childCache' = child /\ queued' = TRUE
  /\ UNCHANGED <<ks, child>>

UserChange(new) == StoreServer(new, FALSE) /\ UNCHANGED <<child, childCache, worker>>

CreateServer ==
  /\ ~ks.live /\ Spend("create")
  /\ \E s \in Specs : UserChange([live |-> TRUE, uid |-> ks.uid + 1, gen |-> 1, spec |-> s,
                                  status |-> NoStatus])

EditSpec ==
  /\ ks.live /\ Spend("edit")
  /\ \E s \in Specs \ {ks.spec} : UserChange([ks EXCEPT !.gen = @ + 1, !.spec = s])

DeleteServer ==
  /\ ks.live /\ Spend("delete")
  /\ UserChange([NoServer EXCEPT !.uid = ks.uid])

\* Somebody changes or deletes a child by hand.
Tamper(c) ==
  /\ child[c].live /\ Spend("tamper")
  /\ \E new \in {NoChild} \cup {[child[c] EXCEPT !.spec = v] : v \in Versions[c] \ {child[c].spec}} :
       StoreChild(c, new, FALSE)
  /\ UNCHANGED <<ks, ksCache, worker>>

\* Somebody creates a component resource that has the name of a child.
CreateStandalone(c) ==
  /\ ~child[c].live /\ Spend("standalone")
  /\ \E v \in Versions[c] : StoreChild(c, [NoChild EXCEPT !.live = TRUE, !.spec = v], FALSE)
  /\ UNCHANGED <<ks, ksCache, worker>>

GarbageCollect(c) ==
  /\ child[c].live /\ child[c].owner # 0 /\ ~(ks.live /\ child[c].owner = ks.uid)
  /\ StoreChild(c, NoChild, FALSE)
  /\ UNCHANGED <<ks, ksCache, worker, budget>>

----------------------------------------------------------------------------
Init ==
  /\ ks = NoServer /\ ksCache = NoServer
  /\ child = [c \in Components |-> NoChild] /\ childCache = [c \in Components |-> NoChild]
  /\ queued = FALSE /\ pc = "idle" /\ snap = NoServer /\ pos = 0 /\ readySet = {}
  /\ budget = Budget

Users == CreateServer \/ EditSpec \/ DeleteServer \/ \E c \in Components : Tamper(c) \/ CreateStandalone(c)
Informers == SyncServer \/ \E c \in Components : SyncChild(c)
Children == \E c \in Components : ReportChild(c) \/ GoDown(c) \/ GarbageCollect(c)

Next == Reconcile \/ Informers \/ Users \/ Children \/ Restart

Spec == Init /\ [][Next]_vars

\* The work queue, the informers, the garbage collector and the children's
\* controllers go on; users and failures are under no obligation.
Fairness ==
  /\ WF_vars(Reconcile) /\ WF_vars(SyncServer)
  /\ WF_vars(\E c \in Components : SyncChild(c))
  /\ WF_vars(\E c \in Components : ReportChild(c))
  /\ WF_vars(\E c \in Components : GarbageCollect(c))

FairSpec == Spec /\ Fairness

----------------------------------------------------------------------------
\* Properties

ChildType == [live: BOOLEAN, owner: Nat, spec: Nat,
              status: [phase: {"", "Running", "Progressing", "Error"}, cond: {"", "True", "False"}]]
ServerType == [live: BOOLEAN, uid: Nat, gen: Nat, spec: Specs,
               status: [phase: {"", "Pending", "Running", "Progressing"}, observed: Nat,
                        readySet: SUBSET Components]]

\* Every variable has its type.
TypeOK ==
  /\ ks \in ServerType /\ ksCache \in ServerType /\ snap \in ServerType
  /\ child \in [Components -> ChildType] /\ childCache \in [Components -> ChildType]
  /\ queued \in BOOLEAN
  /\ pc \in {"idle", "child", "read", "status"}
  /\ pos \in 0 .. Len(Order)
  /\ readySet \subseteq Components
  /\ budget \in [Events -> Nat]

\* The child is what its section asks for; without a section nobody's child at most.
Follows(c) ==
  IF ks.spec[c] = 0 THEN child[c].live => child[c].owner = 0
  ELSE child[c].live /\ child[c].owner = ks.uid /\ child[c].spec = ks.spec[c]

\* No work is forgotten: when nothing is queued, no reconcile is under way and the
\* resource is cached as it is, every child whose informer keeps up is as its
\* section asks, whatever users, faults and restarts did to it before.
QuietMeansDone ==
  (ks.live /\ ksCache = ks /\ pc = "idle" /\ ~queued) =>
    \A c \in Components \ Lagging : Follows(c)

\* Removing a section deletes that child, and setting one creates or updates it,
\* whatever was done to the child by hand: in the end the children are the
\* sections of the spec and belong to the resource.
ChildrenFollow ==
  <>[](ks.live => \A c \in Components : Follows(c))

\* The status comes to say of the current generation and its sections what the
\* children's statuses say, although nobody tells the resource when it has read
\* too early. (Of a component without a section it may say anything: a child
\* nobody owns can be deleted unnoticed.)
StatusAggregates ==
  LET running == {c \in Configured(ks.spec) : child[c].status.phase = "Running"}
  IN <>[](ks.live => [ks.status EXCEPT !.readySet = @ \cap Configured(ks.spec)]
                       = NewStatusFor(ks.spec, ks.gen, running))

\* The controller comes to rest: neither its own writes and their events nor
\* refused requests keep it reconciling. Then a KeaServer that is gone has no
\* children, not even those a reconcile under way created after the deletion.
Settles ==
  <>[](/\ pc = "idle" /\ ~queued
       /\ ~ks.live => \A c \in Components : child[c].live => child[c].owner = 0)

\* The resource as its clients see it, and the contract its controller keeps:
\* a status is only ever stored with the generation it was computed from, and
\* never over a newer one, whatever the cache held when the reconcile began.
Contract ==
  INSTANCE ResourceContract
    WITH Phases <- {"Pending", "Running", "Progressing"}, live <- ks.live,
         gen <- IF ks.live THEN ks.gen ELSE 0,
         observed <- IF ks.live THEN ks.status.observed ELSE 0,
         phase <- IF ks.live THEN ks.status.phase ELSE ""

\* The status of a KeaServer keeps ResourceContract: the write at the end of a
\* reconcile is refused unless the resource is still the one that was read, so a
\* status is never of an older generation or of a deleted namesake.
KeepsContract == Contract!Spec
============================================================================
