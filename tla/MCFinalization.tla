--------------------------- MODULE MCFinalization ---------------------------
(***************************************************************************)
(* What TLC runs.                                                          *)
(***************************************************************************)
EXTENDS FinalizationInvariants, TLC

\* The names are interchangeable in the runs where all or none are NamedPods.
Symmetry == Permutations(Names)

\* Without the passes of the FluentPVC reconciler: all they change is the
\* finalizer of the FluentPVC, which nobody reads as long as the FluentPVC is
\* not deleted.  For the runs where it cannot be.
ClaimNext == ClusterStep \/ MutatorStep \/ BindingStep \/ PVCStep

ClaimSpec == Init /\ [][ClaimNext]_vars

FairClaimSpec == ClaimSpec /\ Fairness
=============================================================================
