----------------------------- MODULE MCStartUp -----------------------------
(***************************************************************************)
(* Instances of StartUp for TLC.                                           *)
(***************************************************************************)
EXTENDS StartUp

CONSTANTS MCFault, MCCrash

MCBudget == [e \in Events |-> IF e = "fault" THEN MCFault ELSE MCCrash]
============================================================================
