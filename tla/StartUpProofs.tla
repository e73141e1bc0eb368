--------------------------- MODULE StartUpProofs ---------------------------
(***************************************************************************)
(* For any number of instances, failures and crashes: what an instance     *)
(* needs is there before its controllers run.                              *)
(***************************************************************************)
EXTENDS StartUp, TLAPS

\* The initial states are well typed.
LEMMA InitType == Init => TypeOK
BY ConstantsAssumption DEF Init, TypeOK, Stages

\* An event that is spent leaves the budget a function to the naturals.
LEMMA SpendType ==
  ASSUME TypeOK, NEW e \in Events, UNCHANGED budget \/ Spend(e)
  PROVE  budget' \in [Events -> Nat]
BY DEF TypeOK, Spend

\* Every stage of an instance's start keeps the types.
LEMMA StepType == ASSUME TypeOK, NEW p \in Instances, Step(p) PROVE TypeOK'
<1>1. budget' \in [Events -> Nat]
  BY SpendType
  DEF Step, Start, IsOpenShift, EnsureDefaultNamespace, GetSCC, CreateSCC, GetClusterRole,
      CreateClusterRole, RegisterControllers, BecomeLeader, SyncCaches, Create, Events
<1>2. pc' \in [Instances -> Stages \cup {"down"}]
  BY DEF TypeOK, Step, Start, IsOpenShift, EnsureDefaultNamespace, GetSCC, CreateSCC, GetClusterRole,
      CreateClusterRole, RegisterControllers, BecomeLeader, SyncCaches, Create, Goto, Exit, Stages
<1>3. exists' \subseteq Objects
  BY DEF TypeOK, Step, Start, IsOpenShift, EnsureDefaultNamespace, GetSCC, CreateSCC, GetClusterRole,
      CreateClusterRole, RegisterControllers, BecomeLeader, SyncCaches, Create, Objects
<1>4. isOpenShift' \in [Instances -> BOOLEAN]
  BY ConstantsAssumption
  DEF TypeOK, Step, Start, IsOpenShift, EnsureDefaultNamespace, GetSCC, CreateSCC, GetClusterRole,
      CreateClusterRole, RegisterControllers, BecomeLeader, SyncCaches
<1>5. lease' \in Instances \cup {None}
  BY DEF TypeOK, Step, Start, IsOpenShift, EnsureDefaultNamespace, GetSCC, CreateSCC, GetClusterRole,
      CreateClusterRole, RegisterControllers, BecomeLeader, SyncCaches
<1>6. QED
  BY <1>1, <1>2, <1>3, <1>4, <1>5 DEF TypeOK

\* Every step keeps the types.
LEMMA NextType == ASSUME TypeOK, [Next]_vars PROVE TypeOK'
<1>1. CASE LeaseRunsOut
  BY <1>1 DEF TypeOK, LeaseRunsOut
<1>2. ASSUME NEW p \in Instances, Crash(p) PROVE TypeOK'
  BY <1>2, SpendType DEF TypeOK, Crash, Exit, Events
<1>3. CASE UNCHANGED vars
  BY <1>3 DEF TypeOK, vars
<1>4. QED
  BY <1>1, <1>2, <1>3, StepType DEF Next

\* Every reachable state of the start-up is well typed; in particular an instance
\* always takes the platform for one thing or the other.
THEOREM TypeCorrect == Spec => []TypeOK
BY InitType, NextType, PTL DEF Spec

----------------------------------------------------------------------------
\* What an instance that has come this far has made sure of. Objects are never
\* removed, so it stays true while other instances go on.
Controllers == {"elect", "sync", "active"}
MadeSure(p) ==
  /\ pc[p] \notin {"down", "detect", "namespace"} => "namespace" \in exists
  /\ pc[p] \in {"getRole", "createRole"} => "scc" \in exists
  /\ pc[p] \in {"register"} \cup Controllers =>
       (isOpenShift[p] => {"scc", "clusterrole"} \subseteq exists)

SetUpInv == \A p \in Instances : MadeSure(p)

\* A step of one instance leaves the others' assurances alone.
LEMMA OthersKeep ==
  ASSUME TypeOK, NEW p \in Instances, NEW q \in Instances, q # p, MadeSure(q),
         Step(p) \/ Crash(p)
  PROVE  MadeSure(q)'
<1>1. pc'[q] = pc[q] /\ isOpenShift'[q] = isOpenShift[q]
  BY DEF TypeOK, Step, Start, IsOpenShift, EnsureDefaultNamespace, GetSCC, CreateSCC, GetClusterRole,
      CreateClusterRole, RegisterControllers, BecomeLeader, SyncCaches, Crash, Create, Goto, Exit
<1>2. exists \subseteq exists'
  BY DEF Step, Start, IsOpenShift, EnsureDefaultNamespace, GetSCC, CreateSCC, GetClusterRole,
      CreateClusterRole, RegisterControllers, BecomeLeader, SyncCaches, Crash, Create
<1>3. QED
  BY <1>1, <1>2 DEF MadeSure

\* An instance that exits has nothing to be sure of.
LEMMA ExitKeeps == ASSUME TypeOK, NEW p \in Instances, Exit(p) PROVE MadeSure(p)'
BY DEF TypeOK, Exit, MadeSure, Controllers

\* A Create that does not end the process has made the object, or found it.
LEMMA CreateEnsures ==
  ASSUME TypeOK, NEW p \in Instances, NEW o, NEW accepts, NEW next, Create(p, o, accepts, next)
  PROVE  Exit(p) \/ (exists' = exists \cup {o} /\ pc'[p] = next)
BY DEF TypeOK, Create, Goto

\* Each stage makes sure of what the next one relies on.
LEMMA StepKeeps ==
  ASSUME TypeOK, NEW p \in Instances, MadeSure(p), Step(p)
  PROVE  MadeSure(p)'
<1>1. CASE Exit(p)
  BY <1>1, ExitKeeps
<1>2. CASE Start(p) \/ IsOpenShift(p)
  BY <1>2 DEF TypeOK, Start, IsOpenShift, Goto, MadeSure, Controllers
<1>3. CASE EnsureDefaultNamespace(p)
  <2>1. /\ Create(p, "namespace", TRUE, (IF isOpenShift[p] THEN "getSCC" ELSE "register"))
        /\ isOpenShift' = isOpenShift
    BY <1>3 DEF EnsureDefaultNamespace, MadeSure
  <2>2. CASE exists' = exists \cup {"namespace"} /\ pc'[p] = (IF isOpenShift[p] THEN "getSCC" ELSE "register")
    BY <2>1, <2>2 DEF MadeSure, Controllers
  <2>3. QED
    BY <1>1, <2>1, <2>2, CreateEnsures
<1>4. CASE GetSCC(p)
  BY <1>1, <1>4 DEF TypeOK, GetSCC, Goto, MadeSure, Controllers
<1>5. CASE CreateSCC(p)
  <2>1. /\ Create(p, "scc", FALSE, "getRole")
        /\ isOpenShift' = isOpenShift /\ "namespace" \in exists
    BY <1>5 DEF CreateSCC, MadeSure
  <2>2. CASE exists' = exists \cup {"scc"} /\ pc'[p] = "getRole"
    BY <2>1, <2>2 DEF MadeSure, Controllers
  <2>3. QED
    BY <1>1, <2>1, <2>2, CreateEnsures
<1>6. CASE GetClusterRole(p)
  BY <1>6 DEF TypeOK, GetClusterRole, Goto, MadeSure, Controllers
<1>7. CASE CreateClusterRole(p)
  <2>1. /\ Create(p, "clusterrole", TRUE, "register")
        /\ isOpenShift' = isOpenShift /\ {"namespace", "scc"} \subseteq exists
    BY <1>7 DEF CreateClusterRole, MadeSure
  <2>2. CASE exists' = exists \cup {"clusterrole"} /\ pc'[p] = "register"
    BY <2>1, <2>2 DEF MadeSure, Controllers
  <2>3. QED
    BY <1>1, <2>1, <2>2, CreateEnsures
<1>8. CASE RegisterControllers(p) \/ BecomeLeader(p) \/ SyncCaches(p)
  BY <1>1, <1>8
  DEF TypeOK, RegisterControllers, BecomeLeader, SyncCaches, Goto, MadeSure, Controllers
<1>9. QED
  BY <1>2, <1>3, <1>4, <1>5, <1>6, <1>7, <1>8 DEF Step

\* Every step of the start-up keeps what the instances have made sure of.
LEMMA NextSetUp == ASSUME TypeOK, SetUpInv, [Next]_vars PROVE SetUpInv'
<1>1. CASE LeaseRunsOut \/ UNCHANGED vars
  BY <1>1 DEF LeaseRunsOut, vars, SetUpInv, MadeSure
<1>2. ASSUME NEW p \in Instances, Step(p) \/ Crash(p) PROVE SetUpInv'
  <2>1. MadeSure(p)'
    BY <1>2, StepKeeps, ExitKeeps DEF SetUpInv, Crash
  <2>2. QED
    BY <1>2, <2>1, OthersKeep DEF SetUpInv
<1>3. QED
  BY <1>1, <1>2 DEF Next

\* However many instances of the operator start at once, whatever requests fail or
\* are carried out without an answer and whenever they crash, an instance runs its
\* controllers only when the namespace, the SCC and its ClusterRole are there.
THEOREM SetUpFirst == Spec => []SetUpPrecedesControllers
<1>1. Init => SetUpInv
  BY DEF Init, SetUpInv, MadeSure, Controllers
<1>2. SetUpInv => SetUpPrecedesControllers
  BY DEF SetUpInv, MadeSure, SetUpPrecedesControllers, Controllers
<1>3. QED
  BY <1>1, <1>2, InitType, NextType, NextSetUp, PTL DEF Spec
============================================================================
