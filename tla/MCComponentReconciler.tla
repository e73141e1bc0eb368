----------------------- MODULE MCComponentReconciler -----------------------
(***************************************************************************)
(* Instances of ComponentReconciler for TLC.                               *)
(***************************************************************************)
EXTENDS ComponentReconciler

CONSTANTS
  MCKinds,     \* the kinds of resource in the run
  MCHA,        \* the values of spec.highAvailability != nil
  MCReplicas,  \* the values of spec.replicas
  MCConfigs,   \* the configurations
  MCSvc,       \* the values of svc, for the kinds that have the choice
  MCStork,     \* the values of stork.enabled, for the kinds that have it
  MCCreate, MCEdit, MCDelete, MCFault, MCLose, MCTamper, MCRestart

MCSpecs ==
  {s \in [kind: MCKinds, ha: MCHA, replicas: MCReplicas, cfg: MCConfigs, svc: BOOLEAN,
           stork: BOOLEAN] :
     /\ s.ha => s.kind = "dhcp4"
     /\ s.svc \in (IF s.kind = "ctrl-agent" THEN {TRUE} ELSE MCSvc)
     /\ s.stork \in (IF s.kind \in {"dhcp4", "dhcp6"} THEN MCStork ELSE {FALSE})}

\* HA servers, and one without HA to turn it on and off.
MCToggleSpecs == {s \in MCSpecs : s.ha \/ (s.replicas = 1 /\ s.cfg = 1)}

MCBudget ==
  [e \in Events |->
     CASE e = "create" -> MCCreate [] e = "edit" -> MCEdit [] e = "delete" -> MCDelete
       [] e = "fault" -> MCFault [] e = "lose" -> MCLose [] e = "tamper" -> MCTamper
       [] e = "restart" -> MCRestart]

\* The informers of the resource and of its ConfigMap lag.
MCLagConfig == {CR, CM}
MCLagNone == {}
MCLagCR == {CR}
============================================================================
