-------------------------- MODULE ResourceContract --------------------------
(***************************************************************************)
(* What the status of a custom resource of this operator may be relied on  *)
(* for, by kubectl, by the console and by the controller of a parent       *)
(* resource: an abstract specification that the controllers' modules are   *)
(* shown to implement.                                                     *)
(*                                                                         *)
(* Users create, edit and delete the resource, each edit begins a new      *)
(* generation. A controller reads the resource at one time and reports at  *)
(* a later one, but a report is about the generation the resource then     *)
(* has, or it is not made.                                                 *)
(***************************************************************************)
EXTENDS Naturals

CONSTANT Phases  \* the phases a report may give

VARIABLES
  live,      \* the resource is there
  gen,       \* metadata.generation, 0 when it is not
  observed,  \* status.observedGeneration
  phase      \* status.phase

vars == <<live, gen, observed, phase>>

NoPhase == ""  \* nothing was reported yet

Init == live = FALSE /\ gen = 0 /\ observed = 0 /\ phase = NoPhase

Create ==
  /\ ~live
  /\ live' = TRUE /\ gen' = 1 /\ observed' = 0 /\ phase' = NoPhase

Edit ==
  /\ live /\ gen' = gen + 1
  /\ UNCHANGED <<live, observed, phase>>

Delete ==
  /\ live
  /\ live' = FALSE /\ gen' = 0 /\ observed' = 0 /\ phase' = NoPhase

Report ==
  /\ live /\ observed' = gen /\ phase' \in Phases
  /\ UNCHANGED <<live, gen>>

\* The spec cannot be rendered: the generation observed stays what it was.
Reject ==
  /\ live /\ phase' = "Error"
  /\ UNCHANGED <<live, gen, observed>>

Next == Create \/ Edit \/ Delete \/ Report \/ Reject

Spec == Init /\ [][Next]_vars

----------------------------------------------------------------------------
\* A status is of a generation that there has been, and one that says anything
\* but that the spec is wrong is of some generation.
StatusIsGrounded ==
  /\ gen \in Nat /\ observed \in Nat /\ observed <= gen
  /\ phase \in {NoPhase, "Error"} \/ observed > 0

\* While the resource lives, its status never goes back to an older generation.
NeverBack == [][live /\ live' => observed' >= observed]_vars
=============================================================================
