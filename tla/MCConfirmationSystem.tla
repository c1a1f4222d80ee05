------------------------ MODULE MCConfirmationSystem ------------------------
(***************************************************************************)
(* Instances of ConfirmationSystem for TLC.                                *)
(***************************************************************************)
EXTENDS ConfirmationSystem, TLC

\* Subscriptions, workers and replicas are interchangeable.
Symmetry == Permutations(Id) \cup Permutations(Worker) \cup Permutations(Replica)
=============================================================================
