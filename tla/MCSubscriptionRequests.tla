----------------------- MODULE MCSubscriptionRequests -----------------------
(***************************************************************************)
(* Instances of SubscriptionRequests for TLC.                              *)
(***************************************************************************)
EXTENDS SubscriptionRequests, TLC

\* Calls, emails and repositories are interchangeable.
Symmetry == Permutations(Request) \cup Permutations(Email) \cup Permutations(Repo)
=============================================================================
