-------------------------- MODULE EnsureRepository --------------------------
(***************************************************************************)
(* POST of the release tracker that makes sure a repository is tracked,    *)
(* called by the subscription service before it creates a subscription.    *)
(* Requests for the same repository run concurrently: nothing is locked    *)
(* between the lookup, the calls to GitHub and the INSERT.                 *)
(*                                                                         *)
(* A request is known by the subscription it is to lead to.  A name that   *)
(* GitHub does not know ends the request with no change.                   *)
(***************************************************************************)
EXTENDS RepositoryStore

VARIABLE ensure

\* "Tracked": the caller has the id.  "Done": it has gone on to create the
\* subscription.
EnsureState ==
    [pc : {"Idle", "Looking", "Creating", "Tracked", "Done"},
     repo : Repo \cup {None}, tag : Tag]

EnsureIdle == [pc |-> "Idle", repo |-> None, tag |-> 0]

EnsureAt(i, pc, repo, tag) ==
    ensure' = [ensure EXCEPT ![i] = [pc |-> pc, repo |-> repo, tag |-> tag]]

EnsureTypeOK == ensure \in [Subscription -> EnsureState]

EnsureInit == ensure = [i \in Subscription |-> EnsureIdle]

\* A call fails, its caller gives up, or the process dies.
EnsureFailed(i) ==
    /\ ensure' = [ensure EXCEPT ![i] = EnsureIdle]
    /\ Fault

GetByName(i, r) ==
    /\ ensure[i].pc = "Idle"
    /\ EnsureAt(i, IF Tracked(r) THEN "Tracked" ELSE "Looking", r, 0)
    /\ NoFault
    /\ UNCHANGED <<repositoryVars, queueVars>>

\* RepositoryExists and LatestTag.  A repository without releases (404) is
\* tracked with the empty tag.
LookUp(i) ==
    /\ ensure[i].pc = "Looking"
    /\ \/ EnsureAt(i, "Creating", ensure[i].repo, latest[ensure[i].repo]) /\ NoFault
       \/ EnsureFailed(i)
    /\ UNCHANGED <<repositoryVars, queueVars>>

\* A failed INSERT may have been applied.
CreateRepository(i) ==
    /\ ensure[i].pc = "Creating"
    /\ \/ /\ Create(ensure[i].repo, ensure[i].tag)
          /\ EnsureAt(i, "Tracked", ensure[i].repo, 0)
          /\ NoFault
       \/ /\ Create(ensure[i].repo, ensure[i].tag) \/ UNCHANGED repositoryVars
          /\ EnsureFailed(i)
    /\ UNCHANGED queueVars

EnsureNext(i) ==
    \/ \E r \in Repo : GetByName(i, r)
    \/ LookUp(i)
    \/ CreateRepository(i)
=============================================================================
