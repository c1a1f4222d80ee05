---------------------------- MODULE ReleaseSystem ----------------------------
(***************************************************************************)
(* Releases on their way from GitHub to confirmed subscribers: the release *)
(* tracker with its requests and its scanners, the subscriptions, the      *)
(* queue and the notification workers.                                     *)
(*                                                                         *)
(* Of the subscriptions it keeps what SubscriptionRows promises, which the *)
(* confirmation machinery implements (ConfirmationSystem!RowsSpec).        *)
(***************************************************************************)
EXTENDS EnsureRepository, ReleaseScanner, ReleaseDelivery

CONSTANT Subscriber

Key == Subscriber \X Repo

ASSUME KeyAssumption == None \notin Key

VARIABLES row, key,
          since  \* latest release when a subscription was confirmed (history)

subscriptionVars == <<row, key, since>>

vars == <<repositoryVars, queueVars, faults, ensure, scanner, deliveryVars, subscriptionVars>>

Rows == INSTANCE SubscriptionRows WITH Id <- Subscription

TypeOK ==
    /\ RepositoryTypeOK
    /\ BrokerTypeOK
    /\ EnsureTypeOK
    /\ ScannerTypeOK
    /\ DeliveryTypeOK
    /\ row \in [Subscription -> {"Absent", "Pending", "Active"}]
    /\ key \in [Subscription -> Key \cup {None}]
    /\ since \in [Subscription -> Tag \cup {None}]

Init ==
    /\ RepositoryInit
    /\ BrokerInit
    /\ EnsureInit
    /\ ScannerInit
    /\ DeliveryInit
    /\ Rows!Init
    /\ since = [i \in Subscription |-> None]

-----------------------------------------------------------------------------
(* Subscriptions *)

\* The repository is tracked; a key that has a row is refused.
Subscribe(i) ==
    /\ ensure[i].pc = "Tracked"
    /\ \E u \in Subscriber : Rows!Insert(i, <<u, ensure[i].repo>>)
    /\ EnsureAt(i, "Done", ensure[i].repo, 0)
    /\ UNCHANGED since

Confirm(i) ==
    /\ Rows!Activate(i)
    /\ since' = [since EXCEPT ![i] = IF @ = None THEN latest[key[i][2]] ELSE @]
    /\ UNCHANGED ensure

\* The owner unsubscribes, or the saga is compensated.
Leave(i) == Rows!Delete(i) /\ UNCHANGED <<ensure, since>>

SubscriptionNext(i) ==
    /\ Subscribe(i) \/ Confirm(i) \/ Leave(i)
    /\ NoFault
    /\ UNCHANGED <<repositoryVars, queueVars, scanner, deliveryVars>>

\* Mutant of ActiveSubscribers: the repository is not asked for.
ActiveAnywhere(r) == {i \in Subscription : row[i] = "Active"}

\* Mutant of ActiveSubscribers: also those who have left.
EverSubscribed(r) == {i \in Subscription : key[i] # None /\ key[i][2] = r}

\* WHERE repository_id = $1 AND subscription_status = Active.
ActiveSubscribers(r) == {i \in Subscription : row[i] = "Active" /\ key[i][2] = r}

-----------------------------------------------------------------------------
(* Processes *)

EnsureStep(i) ==
    EnsureNext(i) /\ UNCHANGED <<scanner, deliveryVars, subscriptionVars>>

ScannerStep(t) ==
    /\ \/ GetAll(t)
       \/ LatestTag(t)
       \/ ListActiveByRepository(t, ActiveSubscribers(scanner[t].repo))
       \/ PublishNotification(t)
       \/ StoreTag(t)
    /\ UNCHANGED <<ensure, deliveryVars, subscriptionVars>>

DeliveryStep(w) ==
    DeliveryNext(w) /\ UNCHANGED <<repositoryVars, ensure, scanner, subscriptionVars>>

GitHubNext ==
    /\ \E r \in Repo : PublishRelease(r)
    /\ NoFault
    /\ UNCHANGED <<queueVars, ensure, scanner, deliveryVars, subscriptionVars>>

FaultNext ==
    \/ /\ \E t \in Tracker : CrashTracker(t)
       /\ UNCHANGED <<ensure, deliveryVars, subscriptionVars>>
    \/ /\ \E w \in Worker : DeliveryFault(w)
       /\ UNCHANGED <<repositoryVars, ensure, scanner, subscriptionVars>>

Next ==
    \/ \E i \in Subscription : SubscriptionNext(i) \/ EnsureStep(i)
    \/ \E t \in Tracker : ScannerStep(t)
    \/ \E w \in Worker : DeliveryStep(w)
    \/ GitHubNext
    \/ FaultNext

Spec == Init /\ [][Next]_vars

\* The tracker's scheduler ticks and the worker takes deliveries; releases,
\* users and faults are under no obligation.
Fairness ==
    /\ \A t \in Tracker : WF_vars(ScannerStep(t))
    /\ \A w \in Worker : WF_vars(DeliveryStep(w))

FairSpec == Spec /\ Fairness

-----------------------------------------------------------------------------
(* Safety *)

\* The announcement is on its way to the subscriber, has reached them, or has
\* been set aside where an operator can find it.
AnnouncementOut(a) ==
    \/ queue["Released"][a] > 0
    \/ \E w \in Worker : Holds(w, a)
    \/ a \in emailed
    \/ a \in dead

\* The announcement is out, or JSONPublisher took it for confirmed when it was
\* not.
Told(a) == AnnouncementOut(a) \/ a \in dropped

\* Once the tracker has stored a release, everyone who confirmed before it
\* appeared, and is still subscribed, has been told of it.
NoReleaseMissed ==
    \A i \in Subscription :
        row[i] = "Active" /\ seen[key[i][2]] > since[i] => Told(<<i, seen[key[i][2]]>>)

\* A release the subscription may be told of: it is confirmed, and the release
\* exists.
Announceable(a) == since[a[1]] # None /\ a[2] \in 1..latest[key[a[1]][2]]

\* Only the confirmed are told, and only of releases there are.
AnnouncedWasConfirmed ==
    \A a \in Announcement : AnnouncementOut(a) => Announceable(a)

\* The scan has yet to announce the release to the subscriber.
ToTell(t, a) ==
    /\ scanner[t].pc = "Publishing" /\ scanner[t].tag = a[2]
    /\ a[1] \in scanner[t].subs

Sending(w, a) == deliverer[w].pc = "Sending" /\ deliverer[w].cur = a

\* With one tracker, telling someone twice of the same release takes a fault:
\* as long as none happened, what was emailed is neither queued nor in the
\* hands of a worker again, and what is out is not announced again.
RepeatTakesFault ==
    faults = MaxFaults =>
        \A a \in Announcement :
            /\ a \in emailed =>
                 queue["Released"][a] = 0 /\ \A w \in Worker : ~Sending(w, a)
            /\ AnnouncementOut(a) => \A t \in Tracker : ~ToTell(t, a)

\* With one tracker, the stored tag never goes back to an older release.
SeenNeverGoesBack ==
    [][\A r \in Repo : Tracked(r) => Tracked(r)' /\ seen'[r] >= seen[r]]_vars

\* However requests and scans interleave, the tag of a tracked repository moves
\* only when a scan that has gone through its whole list stores the one it
\* announced.
TagMovesWithScan ==
    [][\A r \in Repo : Tracked(r) /\ seen'[r] # seen[r] =>
         \E t \in Tracker :
           /\ scanner[t].pc = "Publishing" /\ scanner[t].subs = {}
           /\ scanner[t].repo = r /\ scanner[t].tag = seen'[r]]_vars

\* A scan may still announce to somebody who left after it read the list, but
\* only releases that were out when they left: no later one is ever announced.
LeaversHearNoLaterRelease ==
    \A i \in Subscription : \A n \in 1..MaxTag :
        []((row[i] = "Absent" /\ key[i] # None /\ latest[key[i][2]] < n)
            => []~AnnouncementOut(<<i, n>>))

-----------------------------------------------------------------------------
(* The inductive invariant *)

Announcing(t) == scanner[t].pc \in {"Listing", "Publishing"}

\* What a process has at hand fits what it is doing.
HandsFit ==
    /\ \A w \in Worker : deliverer[w].pc = "Idle" <=> deliverer[w].cur = None
    /\ \A w \in Worker : deliverer[w].pc = "Handled" => deliverer[w].cur \in emailed
    /\ \A i \in Subscription : ensure[i].pc # "Idle" => ensure[i].repo \in Repo
    /\ \A t \in Tracker : Announcing(t) => scanner[t].repo \in Repo

\* Every tag stored or about to be is a release GitHub has.
TagsAreReleases ==
    /\ \A r \in Repo : Tracked(r) => seen[r] <= latest[r]
    /\ \A i \in Subscription :
         ensure[i].pc = "Creating" => ensure[i].tag <= latest[ensure[i].repo]
    /\ \A t \in Tracker :
         Announcing(t) => scanner[t].tag \in 1..latest[scanner[t].repo]

\* A row's repository is tracked, and only confirmed rows have a date of
\* confirmation.
RowsAreTracked ==
    /\ \A i \in Subscription : ensure[i].pc = "Tracked" => Tracked(ensure[i].repo)
    /\ \A i \in Subscription : row[i] # "Absent" => key[i] # None /\ Tracked(key[i][2])
    /\ \A i \in Subscription : key[i] = None => since[i] = None
    /\ \A i \in Subscription : row[i] = "Pending" => since[i] = None
    /\ \A i \in Subscription : row[i] = "Active" => since[i] # None

\* A scan that is about to store a tag has told everyone it concerns, or still
\* has them on its list; the list holds subscribers of the repository only.
ScansTell ==
    \A t \in Tracker : scanner[t].pc = "Publishing" =>
        /\ \A i \in Subscription :
             /\ row[i] = "Active" /\ key[i][2] = scanner[t].repo
             /\ scanner[t].tag > since[i]
             => i \in scanner[t].subs \/ Told(<<i, scanner[t].tag>>)
        /\ \A i \in scanner[t].subs : since[i] # None /\ key[i][2] = scanner[t].repo

\* Also what a worker still handles after its channel closed is announceable.
HeldIsAnnounceable ==
    \A w \in Worker : deliverer[w].cur # None => Announceable(deliverer[w].cur)

IInv ==
    /\ TypeOK
    /\ HandsFit
    /\ TagsAreReleases
    /\ RowsAreTracked
    /\ ScansTell
    /\ HeldIsAnnounceable
    /\ NoReleaseMissed
    /\ AnnouncedWasConfirmed

-----------------------------------------------------------------------------
(* Liveness *)

\* The announcements that make up for a release missed by i.
Newer(i) == {<<i, t>> : t \in {u \in Tag : u > since[i]}}

\* A release that appears while someone is subscribed reaches them, or is
\* superseded by a later one that does, unless they unsubscribe first or an
\* operator finds a dead letter; and unless the tracker's publisher is closed
\* or has lost the message.
ReleaseReachesSubscriber ==
    \A i \in Subscription :
        (row[i] = "Active" /\ latest[key[i][2]] > since[i]) ~>
            \/ row[i] # "Active"
            \/ Newer(i) \cap (emailed \cup dead \cup dropped) # {}
            \/ \A t \in Tracker : scanner[t].publisher = "Closed"

-----------------------------------------------------------------------------
(* What the documentation promises and the code does not keep *)


\* "Release notifications must not be missed": a broken channel to the broker
\* delays a notification, it does not end them all.
ReleaseIsAnnounced ==
    \A i \in Subscription :
        (row[i] = "Active" /\ latest[key[i][2]] > since[i]) ~>
            \/ row[i] # "Active"
            \/ Newer(i) \cap (emailed \cup dead \cup dropped) # {}
=============================================================================
