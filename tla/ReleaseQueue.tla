---------------------------- MODULE ReleaseQueue ----------------------------
(***************************************************************************)
(* The part of the broker that carries release notifications: a message is *)
(* an announcement, one subscription and one tag of its repository.        *)
(***************************************************************************)
EXTENDS Naturals, FiniteSets

CONSTANTS Subscription, \* subscriptions that may ever be created
          Repo,         \* repositories on GitHub
          Tracker,      \* processes of the release tracker
          Worker,       \* processes of the notification worker
          MaxTag,       \* releases a repository publishes in a behaviour (bound)
          MaxFaults,
          None          \* untracked, or not confirmed yet

VARIABLES queue, dead, dropped, faults

queueVars == <<queue, dead, dropped>>

\* Releases of a repository in the order they appear; 0 is no release, the
\* empty tag of the database.
Tag == 0..MaxTag

Announcement == Subscription \X Tag

ASSUME MaxTagAssumption == MaxTag \in Nat \ {0}
ASSUME BudgetAssumption == MaxFaults \in Nat
ASSUME UntrackedAssumption == None \notin Repo \cup Tag \cup Announcement

INSTANCE Broker WITH Id <- Announcement, Replica <- Tracker
=============================================================================
