---------------------------- MODULE MCKeaServer ----------------------------
(***************************************************************************)
(* Instances of KeaServer for TLC.                                         *)
(***************************************************************************)
EXTENDS KeaServer

CONSTANTS MCCreate, MCEdit, MCDelete, MCFault, MCTamper, MCStandalone, MCDown, MCRestart, MCAny

MCBudget ==
  [e \in Events |->
     CASE e = "create" -> MCCreate [] e = "edit" -> MCEdit [] e = "delete" -> MCDelete
       [] e = "fault" -> MCFault [] e = "tamper" -> MCTamper
       [] e = "standalone" -> MCStandalone [] e = "down" -> MCDown
       [] e = "restart" -> MCRestart [] e = "any" -> MCAny]

MCOrder == <<"dhcp4", "stork-server">>
MCVersions == [c \in Components |-> IF c = "dhcp4" THEN {1, 2} ELSE {1}]
============================================================================
