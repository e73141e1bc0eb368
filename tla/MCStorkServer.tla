--------------------------- MODULE MCStorkServer ---------------------------
(***************************************************************************)
(* Instances of StorkServer for TLC.                                       *)
(***************************************************************************)
EXTENDS StorkServer

CONSTANTS MCCreate, MCEdit, MCDelete, MCFault, MCLose, MCTamper, MCRestart, MCAny

MCBudget ==
  [e \in Events |->
     CASE e = "create" -> MCCreate [] e = "edit" -> MCEdit [] e = "delete" -> MCDelete
       [] e = "fault" -> MCFault [] e = "lose" -> MCLose [] e = "tamper" -> MCTamper
       [] e = "restart" -> MCRestart [] e = "any" -> MCAny]
============================================================================
