--------------------------- MODULE MCReleaseSystem ---------------------------
(***************************************************************************)
(* Instances of ReleaseSystem for TLC.                                     *)
(***************************************************************************)
EXTENDS ReleaseSystem, TLC

\* Subscriptions, subscribers, repositories, trackers and workers are
\* interchangeable.
Symmetry ==
    Permutations(Subscription) \cup Permutations(Subscriber) \cup Permutations(Repo)
        \cup Permutations(Tracker) \cup Permutations(Worker)
=============================================================================
