----------------------- MODULE ResourceContractProofs -----------------------
(***************************************************************************)
(* What a client may conclude from ResourceContract, whichever of the      *)
(* operator's resources it looks at.                                       *)
(***************************************************************************)
EXTENDS ResourceContract, TLAPS

\* StatusIsGrounded is not inductive: a report is grounded because a resource that
\* is there has a generation.
GroundedInv == StatusIsGrounded /\ (live => gen > 0)

\* Every step of the contract keeps GroundedInv, and none takes a status back.
LEMMA NextGrounded ==
  ASSUME GroundedInv, [Next]_vars
  PROVE  GroundedInv' /\ (live /\ live' => observed' >= observed)
<1> USE DEF GroundedInv, StatusIsGrounded
<1>1. CASE Create
  BY <1>1 DEF Create
<1>2. CASE Edit
  BY <1>2 DEF Edit
<1>3. CASE Delete
  BY <1>3 DEF Delete
<1>4. CASE Report
  BY <1>4 DEF Report
<1>5. CASE Reject
  BY <1>5 DEF Reject
<1>6. CASE UNCHANGED vars
  BY <1>6 DEF vars
<1>7. QED
  BY <1>1, <1>2, <1>3, <1>4, <1>5, <1>6 DEF Next

\* A controller that keeps the contract never reports on a generation that has not
\* been, and a phase other than Error stands for a generation that was observed.
THEOREM Grounded == Spec => []StatusIsGrounded
<1>1. Init => GroundedInv
  BY DEF Init, GroundedInv, StatusIsGrounded
<1>2. GroundedInv => StatusIsGrounded
  BY DEF GroundedInv
<1>3. QED
  BY <1>1, <1>2, NextGrounded, PTL DEF Spec

\* The status of a living resource never goes back to an older generation, however
\* late the reconcile that writes it.
THEOREM StatusNeverGoesBack == Spec => NeverBack
<1>1. Init => GroundedInv
  BY DEF Init, GroundedInv, StatusIsGrounded
<1>2. QED
  BY <1>1, NextGrounded, PTL DEF Spec, NeverBack
=============================================================================
