------------------------ MODULE ReleaseSystem_proofs ------------------------
(***************************************************************************)
(* Theorems about ReleaseSystem for any sets of subscriptions, subscribers *)
(* and repositories, any number of trackers, workers, releases and faults. *)
(***************************************************************************)
EXTENDS ReleaseSystem, TLAPS

(***************************************************************************)
(* Types.  The queue, the requests, the scanners and the workers keep      *)
(* theirs under every step that touches them.                              *)
(***************************************************************************)
LEMMA PublishType ==
    ASSUME BrokerTypeOK, NEW k \in Kind, NEW a \in Announcement, NEW pub \in Publisher, NEW cancelled,
           PublishOk(k, a, pub) \/ PublishErr(k, a, pub, cancelled)
    PROVE  BrokerTypeOK'
  BY DEF BrokerTypeOK, PublishOk, PublishErr, Enqueue, Fault, NoFault, Kind

LEMMA DeliveryType ==
    ASSUME BrokerTypeOK, NEW a \in Announcement, Fault \/ NoFault,
           \/ Deliver("Released", a) \/ DeadLetter(a) \/ Requeue("Released", a)
           \/ UNCHANGED queueVars
    PROVE  BrokerTypeOK'
  BY DEF BrokerTypeOK, Deliver, DeadLetter, Requeue, Enqueue, Fault, NoFault, Kind, queueVars

LEMMA QuietType ==
    ASSUME BrokerTypeOK, Fault \/ NoFault, UNCHANGED queueVars
    PROVE  BrokerTypeOK'
  BY DEF BrokerTypeOK, Fault, NoFault, queueVars

LEMMA SubscriptionTypes ==
    ASSUME TypeOK, HandsFit, RowsAreTracked, NEW i \in Subscription, SubscriptionNext(i)
    PROVE  TypeOK'
<1>1. RepositoryTypeOK' /\ BrokerTypeOK' /\ ScannerTypeOK' /\ DeliveryTypeOK'
  BY QuietType DEF SubscriptionNext, TypeOK, RepositoryTypeOK, repositoryVars, ScannerTypeOK,
     DeliveryTypeOK, deliveryVars
<1>2. CASE Subscribe(i)
  <2>1. ensure[i].repo \in Repo
    BY <1>2 DEF Subscribe, HandsFit
  <2>2. PICK u \in Subscriber : Rows!Insert(i, <<u, ensure[i].repo>>)
    BY <1>2 DEF Subscribe
  <2>3. <<u, ensure[i].repo>> \in Key
    BY <2>1 DEF Key
  <2>4. EnsureTypeOK'
    BY <1>2, <2>1, MaxTagAssumption DEF Subscribe, TypeOK, EnsureTypeOK, EnsureAt, EnsureState, Tag
  <2> QED
    BY <1>1, <1>2, <2>2, <2>3, <2>4 DEF Subscribe, TypeOK, Rows!Insert
<1>3. CASE Confirm(i)
  <2>1. key[i] \in Key
    BY <1>3 DEF Confirm, Rows!Activate, RowsAreTracked, TypeOK
  <2>2. latest[key[i][2]] \in Tag
    BY <2>1 DEF Key, TypeOK, RepositoryTypeOK
  <2> QED
    BY <1>1, <1>3, <2>2 DEF Confirm, TypeOK, Rows!Activate, EnsureTypeOK
<1>4. CASE Leave(i)
  BY <1>1, <1>4 DEF Leave, TypeOK, Rows!Delete, EnsureTypeOK
<1> QED
  BY <1>2, <1>3, <1>4 DEF SubscriptionNext

LEMMA EnsureTypes ==
    ASSUME TypeOK, HandsFit, NEW i \in Subscription, EnsureStep(i)
    PROVE  TypeOK'
<1>1. ScannerTypeOK' /\ DeliveryTypeOK' /\ UNCHANGED <<row, key, since>>
  BY DEF EnsureStep, TypeOK, ScannerTypeOK, DeliveryTypeOK, deliveryVars, subscriptionVars
<1>2. 0 \in Tag /\ EnsureIdle \in EnsureState
  BY MaxTagAssumption DEF Tag, EnsureIdle, EnsureState
<1>3. BrokerTypeOK'
  BY QuietType DEF EnsureStep, EnsureNext, GetByName, LookUp, CreateRepository, EnsureFailed,
     TypeOK
<1>4. RepositoryTypeOK'
  BY DEF EnsureStep, EnsureNext, GetByName, LookUp, CreateRepository, Create, repositoryVars,
     TypeOK, RepositoryTypeOK, EnsureTypeOK, EnsureState
<1>5. EnsureTypeOK'
  <2>1. CASE \E r \in Repo : GetByName(i, r)
    BY <1>2, <2>1 DEF GetByName, EnsureAt, TypeOK, EnsureTypeOK, EnsureState
  <2>2. CASE LookUp(i)
    <3>1. ensure[i].repo \in Repo
      BY <2>2 DEF LookUp, HandsFit
    <3>2. latest[ensure[i].repo] \in Tag
      BY <3>1 DEF TypeOK, RepositoryTypeOK
    <3> QED
      BY <1>2, <2>2, <3>1, <3>2 DEF LookUp, EnsureFailed, EnsureAt, TypeOK, EnsureTypeOK,
         EnsureState
  <2>3. CASE CreateRepository(i)
    <3>1. ensure[i].repo \in Repo
      BY <2>3 DEF CreateRepository, HandsFit
    <3> QED
      BY <1>2, <2>3, <3>1 DEF CreateRepository, EnsureFailed, EnsureAt, TypeOK, EnsureTypeOK,
         EnsureState
  <2> QED
    BY <2>1, <2>2, <2>3 DEF EnsureStep, EnsureNext
<1> QED
  BY <1>1, <1>3, <1>4, <1>5 DEF TypeOK

\* What ScannerAt and ScanNext leave is a state of a scanner.
LEMMA ScannerAtType ==
    ASSUME ScannerTypeOK, NEW t \in Tracker, NEW pc \in {"Idle", "Scanning", "Listing", "Publishing"},
           NEW todo \in SUBSET (Repo \X Tag), NEW r \in Repo \cup {None}, NEW tag \in Tag,
           NEW subs \in SUBSET Subscription, NEW pub \in Publisher,
           ScannerAt(t, pc, todo, r, tag, subs, pub)
    PROVE  ScannerTypeOK'
  BY DEF ScannerAt, ScannerTypeOK, ScannerState

LEMMA ScanNextType ==
    ASSUME ScannerTypeOK, NEW t \in Tracker, NEW todo \in SUBSET (Repo \X Tag), NEW pub \in Publisher,
           ScanNext(t, todo, pub)
    PROVE  ScannerTypeOK'
  BY MaxTagAssumption DEF ScanNext, ScannerAt, ScannerTypeOK, ScannerState, Tag

LEMMA ScannerTypes ==
    ASSUME TypeOK, HandsFit, NEW t \in Tracker, ScannerStep(t)
    PROVE  TypeOK'
<1>1. EnsureTypeOK' /\ DeliveryTypeOK' /\ UNCHANGED <<row, key, since>>
  BY DEF ScannerStep, TypeOK, EnsureTypeOK, DeliveryTypeOK, deliveryVars, subscriptionVars
<1>2. /\ scanner[t] \in ScannerState
      /\ scanner[t].todo \in SUBSET (Repo \X Tag) /\ scanner[t].subs \in SUBSET Subscription
      /\ scanner[t].publisher \in Publisher /\ scanner[t].tag \in Tag
      /\ scanner[t].repo \in Repo \cup {None}
      /\ 0 \in Tag
  BY MaxTagAssumption DEF TypeOK, ScannerTypeOK, ScannerState, Tag
<1>3. ScannerTypeOK /\ BrokerTypeOK /\ RepositoryTypeOK
  BY DEF TypeOK
<1>4. CASE GetAll(t)
  <2>1. {<<r, seen[r]>> : r \in {q \in Repo : Tracked(q)}} \in SUBSET (Repo \X Tag)
    BY <1>3 DEF RepositoryTypeOK, Tracked
  <2>2. ScannerTypeOK'
    BY <1>2, <1>3, <1>4, <2>1, ScannerAtType DEF GetAll
  <2> QED
    BY <1>1, <1>3, <1>4, <2>2, QuietType DEF GetAll, TypeOK, RepositoryTypeOK, repositoryVars
<1>5. CASE LatestTag(t)
  <2>1. PICK known \in scanner[t].todo :
          \/ ScanNext(t, scanner[t].todo \ {known}, scanner[t].publisher)
          \/ ScannerAt(t, "Listing", scanner[t].todo \ {known}, known[1], latest[known[1]], {},
                       scanner[t].publisher)
          \/ \E left \in {scanner[t].todo \ {known}, {}} : ScanNext(t, left, scanner[t].publisher)
    BY <1>5 DEF LatestTag
  <2>2. known[1] \in Repo /\ latest[known[1]] \in Tag
    BY <1>2, <1>3 DEF RepositoryTypeOK
  <2>3. scanner[t].todo \ {known} \in SUBSET (Repo \X Tag) /\ {} \in SUBSET (Repo \X Tag)
    BY <1>2
  <2>4. ScannerTypeOK'
    BY <1>2, <1>3, <2>1, <2>2, <2>3, ScannerAtType, ScanNextType
  <2> QED
    BY <1>1, <1>3, <1>5, <2>4, QuietType DEF LatestTag, TypeOK, RepositoryTypeOK, repositoryVars
<1>6. CASE ListActiveByRepository(t, ActiveSubscribers(scanner[t].repo))
  <2>1. ActiveSubscribers(scanner[t].repo) \in SUBSET Subscription
    BY DEF ActiveSubscribers
  <2>2. ScannerTypeOK'
    BY <1>2, <1>3, <1>6, <2>1, ScannerAtType, ScanNextType DEF ListActiveByRepository
  <2> QED
    BY <1>1, <1>3, <1>6, <2>2, QuietType DEF ListActiveByRepository, TypeOK, RepositoryTypeOK,
       repositoryVars
<1>7. CASE PublishNotification(t)
  <2>1. PICK i \in scanner[t].subs :
          \/ /\ PublishOk("Released", <<i, scanner[t].tag>>, scanner[t].publisher)
             /\ ScannerAt(t, "Publishing", scanner[t].todo, scanner[t].repo, scanner[t].tag,
                          scanner[t].subs \ {i}, scanner[t].publisher)
          \/ /\ PublishErr("Released", <<i, scanner[t].tag>>, scanner[t].publisher, FALSE)
             /\ \E after \in AfterPublishErr(scanner[t].publisher) :
                  ScanNext(t, scanner[t].todo, after)
    BY <1>7 DEF PublishNotification
  <2>2. <<i, scanner[t].tag>> \in Announcement /\ "Released" \in Kind
    BY <1>2 DEF Announcement, Kind
  <2>3. BrokerTypeOK'
    BY <1>2, <1>3, <2>1, <2>2, PublishType
  <2>4. AfterPublishErr(scanner[t].publisher) \subseteq Publisher
    BY <1>2 DEF AfterPublishErr, Publisher
  <2>5. scanner[t].subs \ {i} \in SUBSET Subscription
    BY <1>2
  <2>6. ScannerTypeOK'
    BY <1>2, <1>3, <2>1, <2>4, <2>5, ScannerAtType, ScanNextType
  <2> QED
    BY <1>1, <1>3, <1>7, <2>3, <2>6 DEF PublishNotification, TypeOK, RepositoryTypeOK,
       repositoryVars
<1>8. CASE StoreTag(t)
  <2>1. scanner[t].repo \in Repo
    BY <1>8 DEF StoreTag, HandsFit, Announcing
  <2>2. RepositoryTypeOK'
    BY <1>2, <1>3, <1>8, <2>1 DEF StoreTag, UpdateTag, RepositoryTypeOK, repositoryVars
  <2>3. ScannerTypeOK'
    BY <1>2, <1>3, <1>8, ScanNextType DEF StoreTag
  <2> QED
    BY <1>1, <1>3, <1>8, <2>2, <2>3, QuietType DEF StoreTag, TypeOK
<1> QED
  BY <1>4, <1>5, <1>6, <1>7, <1>8 DEF ScannerStep

LEMMA DeliveryTypes ==
    ASSUME TypeOK, HandsFit, NEW w \in Worker,
           \/ DeliveryStep(w)
           \/ DeliveryFault(w) /\ UNCHANGED <<repositoryVars, ensure, scanner, subscriptionVars>>
    PROVE  TypeOK'
<1>1. RepositoryTypeOK' /\ EnsureTypeOK' /\ ScannerTypeOK' /\ UNCHANGED <<row, key, since>>
  BY DEF DeliveryStep, TypeOK, RepositoryTypeOK, repositoryVars, EnsureTypeOK, ScannerTypeOK,
     subscriptionVars
<1>2. BrokerTypeOK /\ DeliveryTypeOK /\ deliverer[w] \in DelivererState
  BY DEF TypeOK, DeliveryTypeOK
<1>3. deliverer[w].pc # "Idle" \/ deliverer[w].cur # None => deliverer[w].cur \in Announcement
  BY <1>2 DEF HandsFit, DelivererState
<1>4. BrokerTypeOK'
  <2>1. CASE DeliverRelease(w)
    BY <1>2, <2>1, DeliveryType DEF DeliverRelease
  <2>2. CASE SettleRelease(w)
    BY <1>2, <1>3, <2>2, DeliveryType DEF SettleRelease
  <2>3. CASE CrashDeliverer(w) \/ LoseDelivererChannel(w)
    <3>1. Fault
      BY <2>3 DEF CrashDeliverer, LoseDelivererChannel
    <3>2. UNCHANGED queueVars
          \/ (deliverer[w].cur \in Announcement /\ Requeue("Released", deliverer[w].cur))
      BY <1>3, <2>3 DEF CrashDeliverer, LoseDelivererChannel, ReturnRelease
    <3> QED
      BY <1>2, <3>1, <3>2, DeliveryType, QuietType
  <2>4. CASE SendRelease(w) \/ RestartDeliverer(w)
    BY <1>2, <2>4, QuietType DEF SendRelease, RestartDeliverer
  <2> QED
    BY <2>1, <2>2, <2>3, <2>4 DEF DeliveryStep, DeliveryNext, DeliveryFault
<1>5. DeliveryTypeOK'
  <2> USE <1>2 DEF DelivererAt, DelivererState, DeliveryTypeOK
  <2>1. CASE DeliverRelease(w) \/ SettleRelease(w)
    BY <2>1 DEF DeliverRelease, SettleRelease
  <2>2. CASE SendRelease(w)
    BY <1>3, <2>2 DEF SendRelease
  <2>3. CASE RestartDeliverer(w) \/ CrashDeliverer(w)
    <3>1. DelivererStarted \in DelivererState
      BY DEF DelivererStarted
    <3>2. deliverer' = [deliverer EXCEPT ![w] = DelivererStarted] /\ UNCHANGED emailed
      BY <2>3 DEF RestartDeliverer, CrashDeliverer
    <3> QED
      BY <3>1, <3>2
  <2>4. CASE LoseDelivererChannel(w)
    BY <2>4 DEF LoseDelivererChannel
  <2> QED
    BY <2>1, <2>2, <2>3, <2>4 DEF DeliveryStep, DeliveryNext, DeliveryFault
<1> QED
  BY <1>1, <1>4, <1>5 DEF TypeOK

LEMMA OtherTypes ==
    ASSUME TypeOK,
           \/ GitHubNext
           \/ \E t \in Tracker : CrashTracker(t) /\ UNCHANGED <<ensure, deliveryVars, subscriptionVars>>
           \/ UNCHANGED vars
    PROVE  TypeOK'
<1>1. EnsureTypeOK' /\ DeliveryTypeOK' /\ UNCHANGED <<row, key, since>>
  BY DEF GitHubNext, vars, TypeOK, EnsureTypeOK, DeliveryTypeOK, deliveryVars, subscriptionVars
<1>2. BrokerTypeOK'
  BY QuietType DEF GitHubNext, CrashTracker, vars, TypeOK, NoFault
<1>3. RepositoryTypeOK'
  BY MaxTagAssumption DEF GitHubNext, PublishRelease, CrashTracker, vars, TypeOK,
     RepositoryTypeOK, repositoryVars, Tag
<1>4. ScannerTypeOK'
  BY MaxTagAssumption DEF GitHubNext, CrashTracker, vars, TypeOK, ScannerTypeOK, ScannerStarted,
     ScannerState, Publisher, Tag
<1> QED
  BY <1>1, <1>2, <1>3, <1>4 DEF TypeOK

LEMMA TypeStep ==
    ASSUME TypeOK, HandsFit, RowsAreTracked, [Next]_vars
    PROVE  TypeOK'
  BY SubscriptionTypes, EnsureTypes, ScannerTypes, DeliveryTypes, OtherTypes DEF Next, FaultNext

(***************************************************************************)
(* What no step takes back: a confirmation and its date, the releases      *)
(* there are, a row of the table of repositories, and that someone has     *)
(* been told.                                                              *)
(***************************************************************************)
LEMMA DatesStay ==
    ASSUME TypeOK, RowsAreTracked, [Next]_vars, NEW i \in Subscription, since[i] # None
    PROVE  since'[i] = since[i] /\ key'[i] = key[i]
<1>1. CASE \E j \in Subscription : SubscriptionNext(j)
  <2>1. PICK j \in Subscription : Subscribe(j) \/ Confirm(j) \/ Leave(j)
    BY <1>1 DEF SubscriptionNext
  <2>2. key[i] # None
    BY DEF RowsAreTracked
  <2>3. CASE Subscribe(j)
    BY <2>2, <2>3 DEF Subscribe, Rows!Insert, TypeOK
  <2>4. CASE Confirm(j)
    BY <2>4 DEF Confirm, Rows!Activate, TypeOK
  <2>5. CASE Leave(j)
    BY <2>5 DEF Leave, Rows!Delete
  <2> QED
    BY <2>1, <2>3, <2>4, <2>5
<1>2. CASE UNCHANGED subscriptionVars
  BY <1>2 DEF subscriptionVars
<1> QED
  BY <1>1, <1>2 DEF Next, EnsureStep, ScannerStep, DeliveryStep, GitHubNext, FaultNext, vars,
     subscriptionVars

LEMMA ReleasesStay ==
    ASSUME TypeOK, [Next]_vars, NEW r \in Repo
    PROVE  latest'[r] >= latest[r] /\ (Tracked(r) => Tracked(r)')
<1>1. latest[r] \in Nat
  BY MaxTagAssumption DEF TypeOK, RepositoryTypeOK, Tag
<1>2. CASE UNCHANGED repositoryVars
  BY <1>1, <1>2 DEF repositoryVars, Tracked
<1>3. CASE GitHubNext
  BY <1>1, <1>3 DEF GitHubNext, PublishRelease, Tracked, TypeOK, RepositoryTypeOK
<1>4. CASE \E i \in Subscription : EnsureStep(i)
  BY <1>1, <1>4, UntrackedAssumption DEF EnsureStep, EnsureNext, GetByName, LookUp,
     CreateRepository, Create, repositoryVars, Tracked, TypeOK, RepositoryTypeOK, EnsureTypeOK,
     EnsureState
<1>5. CASE \E t \in Tracker : ScannerStep(t)
  <2>1. PICK t \in Tracker : ScannerStep(t)
    BY <1>5
  <2>2. UNCHANGED repositoryVars \/ UpdateTag(scanner[t].repo, scanner[t].tag)
    BY <2>1 DEF ScannerStep, GetAll, LatestTag, ListActiveByRepository, PublishNotification,
       StoreTag
  <2>3. scanner[t].tag \in Tag
    BY DEF TypeOK, ScannerTypeOK, ScannerState
  <2> QED
    BY <1>1, <1>2, <2>2, <2>3, UntrackedAssumption DEF UpdateTag, Tracked, TypeOK, RepositoryTypeOK
<1> QED
  BY <1>2, <1>3, <1>4, <1>5 DEF Next, SubscriptionNext, DeliveryStep, CrashTracker, FaultNext, vars

\* A worker that stops handling an announcement has sent it, set it aside or
\* given it back.
LEMMA DeliveryKeeps ==
    ASSUME TypeOK, HandsFit, NEW w \in Worker, NEW a \in Announcement,
           DeliveryNext(w) \/ DeliveryFault(w),
           AnnouncementOut(a)
    PROVE  AnnouncementOut(a)'
<1> USE DEF AnnouncementOut, Holds
<1>0. /\ queue \in [Kind -> [Announcement -> Nat]] /\ "Released" \in Kind
      /\ queue["Released"] \in [Announcement -> Nat]
      /\ deliverer \in [Worker -> DelivererState]
  BY DEF TypeOK, BrokerTypeOK, DeliveryTypeOK, Kind
<1>1. CASE DeliverRelease(w)
  BY <1>0, <1>1, UntrackedAssumption DEF DeliverRelease, Deliver, DelivererAt, HandsFit
<1>2. CASE SendRelease(w)
  BY <1>0, <1>2 DEF SendRelease, DelivererAt, queueVars
<1>3. CASE SettleRelease(w)
  BY <1>0, <1>3 DEF SettleRelease, DelivererAt, DeadLetter, queueVars, HandsFit
<1>4. CASE CrashDeliverer(w)
  BY <1>0, <1>4, UntrackedAssumption DEF CrashDeliverer, ReturnRelease, Requeue, Enqueue,
     queueVars, HandsFit, DelivererStarted
<1>5. CASE LoseDelivererChannel(w)
  BY <1>0, <1>5, UntrackedAssumption DEF LoseDelivererChannel, ReturnRelease, Requeue, Enqueue,
     queueVars, HandsFit, DelivererState
<1>6. CASE RestartDeliverer(w)
  BY <1>0, <1>6 DEF RestartDeliverer, DelivererStarted, queueVars
<1> QED
  BY <1>1, <1>2, <1>3, <1>4, <1>5, <1>6 DEF DeliveryNext, DeliveryFault

LEMMA OutStays ==
    ASSUME TypeOK, HandsFit, [Next]_vars, NEW a \in Announcement, AnnouncementOut(a)
    PROVE  AnnouncementOut(a)'
<1>1. CASE \E w \in Worker : DeliveryNext(w) \/ DeliveryFault(w)
  BY <1>1, DeliveryKeeps
<1>2. CASE UNCHANGED <<queueVars, deliveryVars>>
  BY <1>2 DEF AnnouncementOut, Holds, queueVars, deliveryVars
<1>3. CASE \E t \in Tracker : PublishNotification(t) /\ UNCHANGED deliveryVars
  <2>1. PICK t \in Tracker : PublishNotification(t) /\ UNCHANGED deliveryVars
    BY <1>3
  <2>2. dead' = dead
    BY <2>1 DEF PublishNotification, PublishOk, PublishErr
  <2>3. queue["Released"][a] > 0 => queue'["Released"][a] > 0
    BY <2>1 DEF PublishNotification, PublishOk, PublishErr, Enqueue, TypeOK, BrokerTypeOK, Kind
  <2> QED
    BY <2>1, <2>2, <2>3 DEF AnnouncementOut, Holds, deliveryVars
<1> QED
  BY <1>1, <1>2, <1>3 DEF Next, SubscriptionNext, EnsureStep, EnsureNext, GetByName, LookUp,
     CreateRepository, ScannerStep, GetAll, LatestTag, ListActiveByRepository, StoreTag,
     CrashTracker, DeliveryStep, GitHubNext, FaultNext, vars

LEMMA ToldStays ==
    ASSUME TypeOK, HandsFit, [Next]_vars, NEW a \in Announcement, Told(a)
    PROVE  Told(a)'
<1>1. dropped \subseteq dropped'
  BY DEF Next, SubscriptionNext, EnsureStep, EnsureNext, GetByName, LookUp, CreateRepository,
     ScannerStep, GetAll, LatestTag, ListActiveByRepository, PublishNotification, StoreTag,
     CrashTracker, PublishOk, PublishErr, DeliveryStep, DeliveryNext, DeliveryFault,
     DeliverRelease, SendRelease, SettleRelease, RestartDeliverer, CrashDeliverer,
     LoseDelivererChannel, ReturnRelease, Deliver, DeadLetter, Requeue, GitHubNext, FaultNext,
     queueVars, vars
<1> QED
  BY <1>1, OutStays DEF Told

LEMMA LatestIsNat ==
    ASSUME TypeOK, HandsFit, RowsAreTracked, [Next]_vars, NEW r \in Repo
    PROVE  latest[r] \in Nat /\ latest'[r] \in Nat
  BY TypeStep, MaxTagAssumption DEF TypeOK, RepositoryTypeOK, Tag

LEMMA AnnounceableStays ==
    ASSUME TypeOK, HandsFit, RowsAreTracked, [Next]_vars, NEW a \in Announcement, Announceable(a)
    PROVE  Announceable(a)'
<1>1. /\ a[1] \in Subscription /\ a[2] \in Nat
      /\ key[a[1]] \in Key
  BY MaxTagAssumption DEF Announcement, Tag, Announceable, RowsAreTracked, TypeOK
<1>2. /\ key[a[1]][2] \in Repo
      /\ latest[key[a[1]][2]] \in Nat /\ latest'[key[a[1]][2]] \in Nat
  BY <1>1, LatestIsNat DEF Key
<1> QED
  BY <1>1, <1>2, DatesStay, ReleasesStay DEF Announceable

(***************************************************************************)
(* The inductive step, one group of steps after the other.  What a group   *)
(* cannot disturb follows from the lemmas above.                           *)
(***************************************************************************)
Stays ==
    /\ \A i \in Subscription : since[i] # None => since'[i] = since[i] /\ key'[i] = key[i]
    /\ \A r \in Repo : latest[r] \in Nat /\ latest'[r] \in Nat /\ latest'[r] >= latest[r]
    /\ \A r \in Repo : Tracked(r) => Tracked(r)'
    /\ \A a \in Announcement : Told(a) => Told(a)'
    /\ \A a \in Announcement : Announceable(a) => Announceable(a)'

LEMMA WhatStays ==
    ASSUME IInv, [Next]_vars
    PROVE  TypeOK' /\ Stays
  BY TypeStep, LatestIsNat, DatesStay, ReleasesStay, ToldStays, AnnounceableStays DEF IInv, Stays

\* Announcements that are out, or at hand, stay announceable when none is added.
LEMMA NoNewAnnouncement ==
    ASSUME IInv, Stays, UNCHANGED <<queueVars, deliveryVars>>
    PROVE  AnnouncedWasConfirmed' /\ HeldIsAnnounceable'
<1>1. \A a \in Announcement : AnnouncementOut(a)' => AnnouncementOut(a)
  BY DEF AnnouncementOut, Holds, queueVars, deliveryVars
<1>2. AnnouncedWasConfirmed'
  BY <1>1 DEF AnnouncedWasConfirmed, IInv, Stays
<1>3. HeldIsAnnounceable'
  <2> SUFFICES ASSUME NEW w \in Worker, deliverer'[w].cur # None
               PROVE  Announceable(deliverer[w].cur)'
    BY DEF HeldIsAnnounceable
  <2>1. deliverer' = deliverer /\ deliverer[w].cur \in Announcement
    BY DEF deliveryVars, IInv, TypeOK, DeliveryTypeOK, DelivererState
  <2> QED
    BY <2>1 DEF HeldIsAnnounceable, IInv, Stays
<1> QED
  BY <1>2, <1>3

LEMMA SubscriptionKeeps ==
    ASSUME IInv, Stays, TypeOK', NEW i \in Subscription, SubscriptionNext(i)
    PROVE  IInv'
<1> USE DEF IInv
<1>0. /\ UNCHANGED <<repositoryVars, queueVars, scanner, deliveryVars>>
      /\ UNCHANGED <<seen, latest, deliverer>>
  BY DEF SubscriptionNext, repositoryVars, deliveryVars
<1>1. HandsFit'
  <2>1. \A j \in Subscription : ensure'[j].pc # "Idle" => ensure'[j].repo \in Repo
    BY DEF SubscriptionNext, Subscribe, Confirm, Leave, EnsureAt, HandsFit, TypeOK, EnsureTypeOK
  <2> QED
    BY <1>0, <2>1 DEF HandsFit, Announcing, deliveryVars
<1>2. TagsAreReleases'
  BY <1>0 DEF SubscriptionNext, Subscribe, Confirm, Leave, EnsureAt, TagsAreReleases,
     Announcing, Tracked, TypeOK, EnsureTypeOK
<1>3. CASE Subscribe(i)
  <2>1. PICK u \in Subscriber : Rows!Insert(i, <<u, ensure[i].repo>>)
    BY <1>3 DEF Subscribe
  <2>2. /\ ensure[i].repo \in Repo /\ Tracked(ensure[i].repo)
        /\ <<u, ensure[i].repo>> \in Key
    BY <1>3 DEF Subscribe, HandsFit, RowsAreTracked, Key
  <2>3. /\ key[i] = None /\ since[i] = None /\ UNCHANGED since
        /\ row' = [row EXCEPT ![i] = "Pending"] /\ key' = [key EXCEPT ![i] = <<u, ensure[i].repo>>]
        /\ ensure' = [ensure EXCEPT ![i] = [pc |-> "Done", repo |-> ensure[i].repo, tag |-> 0]]
    BY <1>3, <2>1 DEF Subscribe, Rows!Insert, RowsAreTracked, EnsureAt
  <2>4. RowsAreTracked'
    BY <1>0, <2>2, <2>3, KeyAssumption DEF RowsAreTracked, Tracked, TypeOK, EnsureTypeOK
  <2>5. NoReleaseMissed'
    BY <1>0, <2>3 DEF NoReleaseMissed, TypeOK, Told, AnnouncementOut, Holds, queueVars,
       deliveryVars
  <2>6. ScansTell'
    <3>1. \A j \in Subscription :
            since[j] # None \/ row'[j] = "Active" => row'[j] = row[j] /\ key'[j] = key[j]
      BY <2>3 DEF TypeOK
    <3>2. \A t \in Tracker : scanner[t].subs \subseteq Subscription
      BY DEF TypeOK, ScannerTypeOK, ScannerState
    <3>3. \A j, tag : Told(<<j, tag>>)' <=> Told(<<j, tag>>)
      BY <1>0 DEF Told, AnnouncementOut, Holds, queueVars, deliveryVars
    <3>4. SUFFICES ASSUME NEW t \in Tracker, scanner[t].pc = "Publishing"
                   PROVE  /\ \A j \in Subscription :
                               /\ row'[j] = "Active" /\ key'[j][2] = scanner[t].repo
                               /\ scanner[t].tag > since[j]
                               => j \in scanner[t].subs \/ Told(<<j, scanner[t].tag>>)
                          /\ \A j \in scanner[t].subs : since[j] # None /\ key'[j][2] = scanner[t].repo
      BY <1>0, <2>3, <3>3 DEF ScansTell
    <3>5. \A j \in scanner[t].subs : since[j] # None /\ key'[j][2] = scanner[t].repo
      BY <3>1, <3>2, <3>4 DEF ScansTell
    <3> QED
      BY <3>1, <3>4, <3>5 DEF ScansTell
  <2> QED
    BY <1>0, <1>1, <1>2, <2>4, <2>5, <2>6, NoNewAnnouncement
<1>4. CASE Confirm(i)
  <2>1. /\ key[i] \in Key /\ key[i][2] \in Repo /\ Tracked(key[i][2])
        /\ latest[key[i][2]] \in Tag
    BY <1>4 DEF Confirm, Rows!Activate, RowsAreTracked, Key, TypeOK, RepositoryTypeOK
  <2>2. /\ UNCHANGED <<key, ensure>>
        /\ row' = [row EXCEPT ![i] = "Active"]
        /\ since' = [since EXCEPT ![i] = IF @ = None THEN latest[key[i][2]] ELSE @]
        /\ row[i] # "Absent"
    BY <1>4 DEF Confirm, Rows!Activate
  <2>3. latest[key[i][2]] # None /\ latest[key[i][2]] \in Nat
    BY <2>1, UntrackedAssumption, MaxTagAssumption DEF Tag
  <2>4. RowsAreTracked'
    BY <1>0, <2>1, <2>2, <2>3 DEF RowsAreTracked, Tracked, TypeOK
  <2>5. NoReleaseMissed'
    <3> SUFFICES ASSUME NEW j \in Subscription, row'[j] = "Active", seen[key[j][2]] > since'[j]
                 PROVE  Told(<<j, seen[key[j][2]]>>)
      BY <1>0, <2>2 DEF NoReleaseMissed, Told, AnnouncementOut, Holds, queueVars, deliveryVars
    <3>1. CASE since[j] # None
      <4>1. row[j] = "Active" /\ since'[j] = since[j]
        BY <2>2, <3>1 DEF RowsAreTracked, TypeOK
      <4> QED
        BY <4>1 DEF NoReleaseMissed
    <3>2. CASE since[j] = None
      <4>1. j = i /\ since'[j] = latest[key[i][2]]
        BY <2>2, <3>2 DEF RowsAreTracked, TypeOK
      <4>2. seen[key[i][2]] <= latest[key[i][2]] /\ seen[key[i][2]] \in Nat
        BY <2>1, MaxTagAssumption DEF TagsAreReleases, Tracked, TypeOK, RepositoryTypeOK, Tag
      <4> QED
        BY <2>3, <4>1, <4>2
    <3> QED
      BY <3>1, <3>2
  <2>6. ScansTell'
    <3> SUFFICES ASSUME NEW t \in Tracker, scanner[t].pc = "Publishing"
                 PROVE  /\ \A j \in Subscription :
                             /\ row'[j] = "Active" /\ key[j][2] = scanner[t].repo
                             /\ scanner[t].tag > since'[j]
                             => j \in scanner[t].subs \/ Told(<<j, scanner[t].tag>>)
                        /\ \A j \in scanner[t].subs : since'[j] # None /\ key[j][2] = scanner[t].repo
      BY <1>0, <2>2 DEF ScansTell, Told, AnnouncementOut, Holds, queueVars, deliveryVars
    <3>1. \A j \in scanner[t].subs : since'[j] # None /\ key[j][2] = scanner[t].repo
      BY <2>2, <2>3 DEF ScansTell, TypeOK, ScannerTypeOK, ScannerState
    <3>2. SUFFICES ASSUME NEW j \in Subscription, row'[j] = "Active",
                          key[j][2] = scanner[t].repo, scanner[t].tag > since'[j]
                   PROVE  j \in scanner[t].subs \/ Told(<<j, scanner[t].tag>>)
      BY <3>1
    <3>3. CASE since[j] # None
      <4>1. row[j] = "Active" /\ since'[j] = since[j]
        BY <2>2, <3>2, <3>3 DEF RowsAreTracked, TypeOK
      <4> QED
        BY <3>2, <4>1 DEF ScansTell
    <3>4. CASE since[j] = None
      <4>1. j = i /\ since'[j] = latest[key[i][2]]
        BY <2>2, <3>2, <3>4 DEF RowsAreTracked, TypeOK
      <4>2. scanner[t].tag \in 1..latest[key[i][2]]
        BY <3>2, <4>1 DEF TagsAreReleases, Announcing
      <4> QED
        BY <2>3, <3>2, <4>1, <4>2
    <3> QED
      BY <3>3, <3>4
  <2> QED
    BY <1>0, <1>1, <1>2, <2>4, <2>5, <2>6, NoNewAnnouncement
<1>5. CASE Leave(i)
  <2>1. UNCHANGED <<key, ensure, since>> /\ row' = [row EXCEPT ![i] = "Absent"]
    BY <1>5 DEF Leave, Rows!Delete
  <2>2. RowsAreTracked'
    BY <1>0, <2>1 DEF RowsAreTracked, Tracked, TypeOK
  <2>3. NoReleaseMissed'
    BY <1>0, <2>1 DEF NoReleaseMissed, TypeOK, Told, AnnouncementOut, Holds, queueVars,
       deliveryVars
  <2>4. ScansTell'
    BY <1>0, <2>1 DEF ScansTell, TypeOK, Told, AnnouncementOut, Holds, queueVars, deliveryVars
  <2> QED
    BY <1>0, <1>1, <1>2, <2>2, <2>3, <2>4, NoNewAnnouncement
<1> QED
  BY <1>3, <1>4, <1>5 DEF SubscriptionNext

LEMMA EnsureKeeps ==
    ASSUME IInv, Stays, TypeOK', NEW i \in Subscription, EnsureStep(i)
    PROVE  IInv'
<1> USE DEF IInv
<1>0. /\ UNCHANGED <<queueVars, scanner, deliveryVars, deliverer, emailed, queue, dead, dropped>>
      /\ UNCHANGED <<row, key, since, latest>>
  BY DEF EnsureStep, EnsureNext, GetByName, LookUp, CreateRepository, Create, repositoryVars,
     queueVars, deliveryVars, subscriptionVars
<1>1. \A r \in Repo :
        /\ latest[r] \in Nat
        /\ Tracked(r) => seen'[r] = seen[r] /\ seen[r] \in Nat
  BY MaxTagAssumption DEF EnsureStep, EnsureNext, GetByName, LookUp, CreateRepository, Create,
     repositoryVars, Tracked, TypeOK, RepositoryTypeOK, Tag
<1>2. ensure \in [Subscription -> EnsureState]
  BY DEF TypeOK, EnsureTypeOK
<1>3. HandsFit'
  <2>1. \A j \in Subscription : ensure'[j].pc # "Idle" => ensure'[j].repo \in Repo
    BY <1>2 DEF EnsureStep, EnsureNext, GetByName, LookUp, CreateRepository, EnsureFailed,
       EnsureAt, EnsureIdle, HandsFit
  <2> QED
    BY <1>0, <2>1 DEF HandsFit, Announcing
<1>4. TagsAreReleases'
  <2>1. \A j \in Subscription :
          ensure'[j].pc = "Creating" => ensure'[j].tag <= latest[ensure'[j].repo]
    <3>1. CASE LookUp(i)
      <4>0. ensure[i].repo \in Repo
        BY <3>1 DEF LookUp, HandsFit
      <4>1. latest[ensure[i].repo] \in Nat
        BY <1>1, <4>0
      <4> QED
        BY <1>2, <3>1, <4>1 DEF LookUp, EnsureFailed, EnsureAt, EnsureIdle, TagsAreReleases
    <3>2. CASE (\E r \in Repo : GetByName(i, r)) \/ CreateRepository(i)
      BY <1>2, <3>2 DEF GetByName, CreateRepository, EnsureFailed, EnsureAt, EnsureIdle,
         TagsAreReleases
    <3> QED
      BY <3>1, <3>2 DEF EnsureStep, EnsureNext
  <2>2. \A r \in Repo : seen'[r] # None => seen'[r] <= latest[r]
    <3>1. CASE UNCHANGED seen
      BY <3>1 DEF TagsAreReleases, Tracked
    <3>2. CASE CreateRepository(i) /\ Create(ensure[i].repo, ensure[i].tag)
      BY <3>2 DEF CreateRepository, Create, TagsAreReleases, Tracked, HandsFit, TypeOK,
         RepositoryTypeOK
    <3> QED
      BY <3>1, <3>2 DEF EnsureStep, EnsureNext, GetByName, LookUp, CreateRepository, repositoryVars
  <2> QED
    BY <1>0, <2>1, <2>2 DEF TagsAreReleases, Announcing, Tracked
<1>5. RowsAreTracked'
  <2>1. \A j \in Subscription : ensure'[j].pc = "Tracked" => seen'[ensure'[j].repo] # None
    <3>1. CASE \E r \in Repo : GetByName(i, r)
      BY <1>2, <3>1 DEF GetByName, EnsureAt, Tracked, RowsAreTracked, repositoryVars
    <3>2. CASE LookUp(i)
      BY <1>2, <3>2 DEF LookUp, EnsureFailed, EnsureAt, EnsureIdle, Tracked, RowsAreTracked,
         repositoryVars
    <3>3. CASE CreateRepository(i)
      <4>1. ensure[i].repo \in Repo /\ ensure[i].tag # None
        BY <1>2, <3>3, UntrackedAssumption DEF CreateRepository, HandsFit, EnsureState
      <4>2. \A r \in Repo : Tracked(r) => seen'[r] # None
        BY DEF Stays, Tracked
      <4>3. CASE /\ Create(ensure[i].repo, ensure[i].tag)
                 /\ EnsureAt(i, "Tracked", ensure[i].repo, 0)
        <5>1. seen'[ensure[i].repo] # None
          BY <4>1, <4>3 DEF Create, Tracked, TypeOK, RepositoryTypeOK
        <5> QED
          BY <1>2, <4>2, <4>3, <5>1 DEF EnsureAt, RowsAreTracked, HandsFit
      <4>4. CASE EnsureFailed(i)
        BY <1>2, <4>2, <4>4 DEF EnsureFailed, EnsureIdle, RowsAreTracked, HandsFit
      <4> QED
        BY <3>3, <4>3, <4>4 DEF CreateRepository
    <3> QED
      BY <3>1, <3>2, <3>3 DEF EnsureStep, EnsureNext
  <2>2. \A j \in Subscription : row[j] # "Absent" => key[j] # None /\ seen'[key[j][2]] # None
    BY DEF RowsAreTracked, Stays, Tracked, TypeOK, Key
  <2> QED
    BY <1>0, <2>1, <2>2 DEF RowsAreTracked, Tracked
<1>6. NoReleaseMissed'
  <2>1. \A j \in Subscription : row[j] = "Active" => seen'[key[j][2]] = seen[key[j][2]]
    <3> SUFFICES ASSUME NEW j \in Subscription, row[j] = "Active"
                 PROVE  seen'[key[j][2]] = seen[key[j][2]]
      OBVIOUS
    <3>1. key[j] \in Key /\ Tracked(key[j][2])
      BY DEF RowsAreTracked, TypeOK
    <3>2. key[j][2] \in Repo
      BY <3>1 DEF Key
    <3> QED
      BY <1>1, <3>1, <3>2
  <2> QED
    BY <1>0, <2>1 DEF NoReleaseMissed, Told, AnnouncementOut, Holds
<1>7. ScansTell'
  BY <1>0 DEF ScansTell, Told, AnnouncementOut, Holds
<1> QED
  BY <1>0, <1>3, <1>4, <1>5, <1>6, <1>7, NoNewAnnouncement

LEMMA GitHubKeeps ==
    ASSUME IInv, Stays, TypeOK', GitHubNext
    PROVE  IInv'
<1> USE DEF IInv
<1>0. /\ UNCHANGED <<queueVars, ensure, scanner, deliveryVars, deliverer, emailed, queue, dead, dropped>>
      /\ UNCHANGED <<row, key, since, seen>>
  BY DEF GitHubNext, PublishRelease, queueVars, deliveryVars, subscriptionVars
<1>1. HandsFit'
  BY <1>0 DEF HandsFit, Announcing
<1>2. TagsAreReleases'
  <2>1. \A r \in Repo : Tracked(r) => seen[r] <= latest'[r]
    BY MaxTagAssumption DEF TagsAreReleases, Stays, TypeOK, RepositoryTypeOK, Tracked, Tag
  <2>2. \A i \in Subscription : ensure[i].pc = "Creating" => ensure[i].tag <= latest'[ensure[i].repo]
    BY MaxTagAssumption DEF TagsAreReleases, Stays, HandsFit, TypeOK, EnsureTypeOK, EnsureState,
       Tag
  <2>3. \A t \in Tracker : Announcing(t) => scanner[t].tag \in 1..latest'[scanner[t].repo]
    BY DEF TagsAreReleases, Stays, HandsFit
  <2> QED
    BY <1>0, <2>1, <2>2, <2>3 DEF TagsAreReleases, Tracked, Announcing
<1>3. RowsAreTracked' /\ NoReleaseMissed' /\ ScansTell'
  BY <1>0 DEF RowsAreTracked, Tracked, NoReleaseMissed, ScansTell, Told, AnnouncementOut, Holds
<1> QED
  BY <1>0, <1>1, <1>2, <1>3, NoNewAnnouncement

LEMMA DeliveryKeepsInvariant ==
    ASSUME IInv, Stays, TypeOK', NEW w \in Worker, DeliveryNext(w) \/ DeliveryFault(w),
           UNCHANGED <<repositoryVars, ensure, scanner, subscriptionVars>>
    PROVE  IInv'
<1> USE DEF IInv
<1>0. /\ UNCHANGED <<row, key, since, seen, latest, ensure, scanner>>
      /\ deliverer \in [Worker -> DelivererState] /\ emailed \subseteq Announcement
      /\ deliverer' \in [Worker -> DelivererState]
      /\ queue \in [Kind -> [Announcement -> Nat]] /\ "Released" \in Kind
  BY DEF repositoryVars, subscriptionVars, TypeOK, DeliveryTypeOK, BrokerTypeOK, Kind
<1>1. \A v \in Worker : v # w => deliverer'[v] = deliverer[v]
  BY <1>0 DEF DeliveryNext, DeliverRelease, SendRelease, SettleRelease, RestartDeliverer,
     DeliveryFault, CrashDeliverer, LoseDelivererChannel, DelivererAt
<1>2. emailed \subseteq emailed'
  BY DEF DeliveryNext, DeliverRelease, SendRelease, SettleRelease, RestartDeliverer,
     DeliveryFault, CrashDeliverer, LoseDelivererChannel
<1>3. HandsFit'
  <2>1. /\ deliverer'[w].pc = "Idle" <=> deliverer'[w].cur = None
        /\ deliverer'[w].pc = "Handled" => deliverer'[w].cur \in emailed'
    BY <1>0, UntrackedAssumption DEF DeliveryNext, DeliverRelease, SendRelease, SettleRelease,
       RestartDeliverer, DeliveryFault, CrashDeliverer, LoseDelivererChannel, DelivererAt,
       DelivererStarted, HandsFit, DelivererState
  <2> QED
    BY <1>0, <1>1, <1>2, <2>1 DEF HandsFit, Announcing
<1>4. TagsAreReleases' /\ RowsAreTracked'
  BY <1>0 DEF TagsAreReleases, RowsAreTracked, Tracked, Announcing
<1>5. NoReleaseMissed'
  <2>1. \A i \in Subscription : row[i] = "Active" => <<i, seen[key[i][2]]>> \in Announcement
    BY DEF RowsAreTracked, Tracked, TypeOK, RepositoryTypeOK, Key, Announcement
  <2> QED
    BY <1>0, <2>1 DEF NoReleaseMissed, Stays
<1>6. ScansTell'
  <2>1. \A i \in Subscription, t \in Tracker : <<i, scanner[t].tag>> \in Announcement
    BY DEF TypeOK, ScannerTypeOK, ScannerState, Announcement
  <2> QED
    BY <1>0, <2>1 DEF ScansTell, Stays
<1>7. deliverer'[w].cur \in {None, deliverer[w].cur}
      \/ \E a \in Announcement : AnnouncementOut(a) /\ deliverer'[w].cur = a
  <2>1. CASE DeliverRelease(w)
    BY <1>0, <2>1 DEF DeliverRelease, DelivererAt, Deliver, AnnouncementOut
  <2>2. CASE SendRelease(w) \/ SettleRelease(w) \/ RestartDeliverer(w)
    BY <1>0, <2>2 DEF SendRelease, SettleRelease, RestartDeliverer, DelivererAt, DelivererStarted
  <2>3. CASE CrashDeliverer(w)
    BY <1>0, <2>3 DEF CrashDeliverer, DelivererStarted
  <2>4. CASE LoseDelivererChannel(w)
    BY <1>0, <2>4 DEF LoseDelivererChannel, DelivererState
  <2> QED
    BY <2>1, <2>2, <2>3, <2>4 DEF DeliveryNext, DeliveryFault
<1>8. HeldIsAnnounceable'
  <2> SUFFICES ASSUME NEW v \in Worker, deliverer'[v].cur # None
               PROVE  Announceable(deliverer[v].cur)'
    BY DEF HeldIsAnnounceable
  <2>1. deliverer'[v].cur \in Announcement
    BY <1>0 DEF DelivererState
  <2>2. Announceable(deliverer'[v].cur)
    BY <1>1, <1>7, <2>1 DEF HeldIsAnnounceable, AnnouncedWasConfirmed
  <2>3. \A a \in Announcement : Announceable(a) => Announceable(a)'
    BY DEF Stays
  <2> QED
    BY <2>1, <2>2, <2>3
<1>9. AnnouncedWasConfirmed'
  <2> SUFFICES ASSUME NEW a \in Announcement, AnnouncementOut(a)'
               PROVE  Announceable(a)'
    BY DEF AnnouncedWasConfirmed
  <2>1. CASE AnnouncementOut(a)
    BY <2>1 DEF AnnouncedWasConfirmed, Stays
  <2>2. CASE \E v \in Worker : Holds(v, a)'
    BY <1>8, <2>2, UntrackedAssumption DEF HeldIsAnnounceable, Holds
  <2>3. CASE a = deliverer[w].cur
    BY <2>3, UntrackedAssumption DEF HeldIsAnnounceable, Stays
  <2>4. CASE a \in emailed' \cup dead' \/ queue'["Released"][a] > 0
    <3>1. (a \in emailed' => a \in emailed) \/ a = deliverer[w].cur
      BY DEF DeliveryNext, DeliverRelease, SendRelease, SettleRelease, RestartDeliverer,
         DeliveryFault, CrashDeliverer, LoseDelivererChannel
    <3>2. (a \in dead' => a \in dead) \/ a = deliverer[w].cur
      BY DEF DeliveryNext, DeliverRelease, SendRelease, SettleRelease, RestartDeliverer,
         DeliveryFault, CrashDeliverer, LoseDelivererChannel, ReturnRelease, Deliver,
         DeadLetter, Requeue, queueVars
    <3>3. (queue'["Released"][a] > 0 => queue["Released"][a] > 0) \/ a = deliverer[w].cur
      BY <1>0 DEF DeliveryNext, DeliverRelease, SendRelease, SettleRelease, RestartDeliverer,
         DeliveryFault, CrashDeliverer, LoseDelivererChannel, ReturnRelease, Deliver,
         DeadLetter, Requeue, Enqueue, queueVars
    <3> QED
      BY <2>1, <2>3, <2>4, <3>1, <3>2, <3>3 DEF AnnouncementOut
  <2> QED
    BY <2>2, <2>3, <2>4 DEF AnnouncementOut
<1> QED
  BY <1>3, <1>4, <1>5, <1>6, <1>8, <1>9

\* A step that only takes a scanner away from what it announces, or leaves the
\* scanners alone, and keeps the tables.
LEMMA ScannerAsideKeeps ==
    ASSUME IInv, Stays, TypeOK', NEW t \in Tracker,
           UNCHANGED <<repositoryVars, queueVars, ensure, deliveryVars, subscriptionVars>>,
           \A s \in Tracker : Announcing(s)' => scanner'[s] = scanner[s] /\ Announcing(s)
    PROVE  IInv'
<1> USE DEF IInv
<1>0. UNCHANGED <<row, key, since, seen, latest, deliverer, emailed, queue, dead, dropped>>
  BY DEF repositoryVars, queueVars, deliveryVars, subscriptionVars
<1>1. HandsFit'
  BY <1>0 DEF HandsFit
<1>2. TagsAreReleases' /\ RowsAreTracked' /\ NoReleaseMissed'
  BY <1>0 DEF TagsAreReleases, RowsAreTracked, Tracked, NoReleaseMissed, Told, AnnouncementOut,
     Holds
<1>3. ScansTell'
  BY <1>0 DEF ScansTell, Announcing, Told, AnnouncementOut, Holds
<1> QED
  BY <1>1, <1>2, <1>3, NoNewAnnouncement

\* The scanner starts to announce a release GitHub has, to nobody so far.
LEMMA LatestTagKeeps ==
    ASSUME IInv, Stays, TypeOK', NEW t \in Tracker, LatestTag(t),
           UNCHANGED <<ensure, deliveryVars, subscriptionVars>>
    PROVE  IInv'
<1> USE DEF IInv
<1>0. /\ UNCHANGED <<repositoryVars, queueVars>>
      /\ UNCHANGED <<row, key, since, seen, latest, deliverer, emailed, queue, dead, dropped>>
      /\ scanner \in [Tracker -> ScannerState] /\ scanner[t].todo \subseteq Repo \X Tag
  BY DEF LatestTag, repositoryVars, queueVars, deliveryVars, subscriptionVars, TypeOK,
     ScannerTypeOK, ScannerState
<1>1. PICK known \in scanner[t].todo :
        \/ ScanNext(t, scanner[t].todo \ {known}, scanner[t].publisher)
        \/ /\ latest[known[1]] \notin {0, known[2]}
           /\ ScannerAt(t, "Listing", scanner[t].todo \ {known}, known[1], latest[known[1]], {},
                        scanner[t].publisher)
        \/ \E left \in {scanner[t].todo \ {known}, {}} : ScanNext(t, left, scanner[t].publisher)
  BY DEF LatestTag
<1>2. known[1] \in Repo /\ latest[known[1]] \in Nat
  BY <1>0 DEF Stays
<1>3. CASE \E left : ScanNext(t, left, scanner[t].publisher)
  BY <1>0, <1>3, ScannerAsideKeeps DEF ScanNext, ScannerAt, Announcing
<1>4. CASE /\ latest[known[1]] # 0
           /\ ScannerAt(t, "Listing", scanner[t].todo \ {known}, known[1], latest[known[1]], {},
                        scanner[t].publisher)
  <2>1. /\ scanner'[t].pc = "Listing" /\ scanner'[t].repo = known[1]
        /\ scanner'[t].tag = latest[known[1]]
        /\ \A s \in Tracker : s # t => scanner'[s] = scanner[s]
    BY <1>0, <1>4 DEF ScannerAt
  <2>2. HandsFit'
    BY <1>0, <1>2, <2>1 DEF HandsFit, Announcing
  <2>3. TagsAreReleases'
    BY <1>0, <1>2, <1>4, <2>1 DEF TagsAreReleases, Tracked, Announcing
  <2>4. RowsAreTracked' /\ NoReleaseMissed'
    BY <1>0 DEF RowsAreTracked, Tracked, NoReleaseMissed, Told, AnnouncementOut, Holds
  <2>5. ScansTell'
    <3>1. \A a : Told(a)' <=> Told(a)
      BY <1>0 DEF Told, AnnouncementOut, Holds
    <3> QED
      BY <1>0, <2>1, <3>1 DEF ScansTell
  <2> QED
    BY <1>0, <2>2, <2>3, <2>4, <2>5, NoNewAnnouncement
<1> QED
  BY <1>1, <1>3, <1>4

\* All active subscriptions of the repository are on the list.
LEMMA ListKeeps ==
    ASSUME IInv, Stays, TypeOK', NEW t \in Tracker,
           ListActiveByRepository(t, ActiveSubscribers(scanner[t].repo)),
           UNCHANGED <<ensure, deliveryVars, subscriptionVars>>
    PROVE  IInv'
<1> USE DEF IInv
<1>0. /\ UNCHANGED <<repositoryVars, queueVars>>
      /\ UNCHANGED <<row, key, since, seen, latest, deliverer, emailed, queue, dead, dropped>>
      /\ scanner \in [Tracker -> ScannerState]
  BY DEF ListActiveByRepository, repositoryVars, queueVars, deliveryVars, subscriptionVars,
     TypeOK, ScannerTypeOK
<1>1. CASE ScanNext(t, scanner[t].todo, scanner[t].publisher)
  BY <1>0, <1>1, ScannerAsideKeeps DEF ScanNext, ScannerAt, Announcing
<1>2. CASE ScannerAt(t, "Publishing", scanner[t].todo, scanner[t].repo, scanner[t].tag,
                     ActiveSubscribers(scanner[t].repo), scanner[t].publisher)
  <2>1. /\ scanner'[t].pc = "Publishing" /\ scanner'[t].repo = scanner[t].repo
        /\ scanner'[t].tag = scanner[t].tag /\ scanner'[t].subs = ActiveSubscribers(scanner[t].repo)
        /\ \A s \in Tracker : s # t => scanner'[s] = scanner[s]
    BY <1>0, <1>2 DEF ScannerAt
  <2>2. Announcing(t)
    BY DEF ListActiveByRepository, Announcing
  <2>3. HandsFit' /\ TagsAreReleases'
    BY <1>0, <2>1, <2>2 DEF HandsFit, TagsAreReleases, Tracked, Announcing
  <2>4. RowsAreTracked' /\ NoReleaseMissed'
    BY <1>0 DEF RowsAreTracked, Tracked, NoReleaseMissed, Told, AnnouncementOut, Holds
  <2>5. ScansTell'
    <3>1. \A a : Told(a)' <=> Told(a)
      BY <1>0 DEF Told, AnnouncementOut, Holds
    <3>2. \A j \in ActiveSubscribers(scanner[t].repo) : since[j] # None /\ key[j][2] = scanner[t].repo
      BY DEF ActiveSubscribers, RowsAreTracked
    <3>3. \A j \in Subscription : row[j] = "Active" /\ key[j][2] = scanner[t].repo
                                  => j \in ActiveSubscribers(scanner[t].repo)
      BY DEF ActiveSubscribers
    <3> QED
      BY <1>0, <2>1, <3>1, <3>2, <3>3 DEF ScansTell
  <2> QED
    BY <1>0, <2>3, <2>4, <2>5, NoNewAnnouncement
<1> QED
  BY <1>1, <1>2 DEF ListActiveByRepository

\* Whoever is taken off the list has been told; what is announced is a release
\* there is, to someone who confirmed.
LEMMA PublishKeeps ==
    ASSUME IInv, Stays, TypeOK', NEW t \in Tracker, PublishNotification(t),
           UNCHANGED <<ensure, deliveryVars, subscriptionVars>>
    PROVE  IInv'
<1> USE DEF IInv
<1>0. /\ UNCHANGED <<row, key, since, seen, latest, deliverer, emailed, ensure>>
      /\ scanner \in [Tracker -> ScannerState]
      /\ scanner[t].subs \subseteq Subscription /\ scanner[t].tag \in Tag
      /\ queue \in [Kind -> [Announcement -> Nat]] /\ "Released" \in Kind
  BY DEF PublishNotification, repositoryVars, deliveryVars, subscriptionVars, TypeOK,
     ScannerTypeOK, ScannerState, BrokerTypeOK, Kind
<1>1. PICK i \in scanner[t].subs :
        \/ /\ PublishOk("Released", <<i, scanner[t].tag>>, scanner[t].publisher)
           /\ ScannerAt(t, "Publishing", scanner[t].todo, scanner[t].repo, scanner[t].tag,
                        scanner[t].subs \ {i}, scanner[t].publisher)
        \/ /\ PublishErr("Released", <<i, scanner[t].tag>>, scanner[t].publisher, FALSE)
           /\ \E after : ScanNext(t, scanner[t].todo, after)
  BY DEF PublishNotification
<1>2. <<i, scanner[t].tag>> \in Announcement /\ Announceable(<<i, scanner[t].tag>>)
  <2>1. Announcing(t) /\ scanner[t].pc = "Publishing"
    BY DEF PublishNotification, Announcing
  <2> QED
    BY <1>0, <2>1 DEF ScansTell, TagsAreReleases, Announceable, Announcement
<1>3. AnnouncedWasConfirmed'
  <2> SUFFICES ASSUME NEW a \in Announcement, AnnouncementOut(a)'
               PROVE  Announceable(a)'
    BY DEF AnnouncedWasConfirmed
  <2>1. AnnouncementOut(a) \/ a = <<i, scanner[t].tag>>
    BY <1>0, <1>1, <1>2 DEF PublishOk, PublishErr, Enqueue, AnnouncementOut, Holds
  <2> QED
    BY <1>2, <2>1 DEF AnnouncedWasConfirmed, Stays
<1>4. HeldIsAnnounceable'
  BY <1>0 DEF HeldIsAnnounceable, Announceable
<1>5. RowsAreTracked'
  BY <1>0 DEF RowsAreTracked, Tracked
<1>6. NoReleaseMissed'
  <2>1. \A j \in Subscription : row[j] = "Active" => <<j, seen[key[j][2]]>> \in Announcement
    BY DEF RowsAreTracked, Tracked, TypeOK, RepositoryTypeOK, Key, Announcement
  <2> QED
    BY <1>0, <2>1 DEF NoReleaseMissed, Stays
<1>7. \A j \in Subscription, s \in Tracker : <<j, scanner[s].tag>> \in Announcement
  BY <1>0 DEF ScannerState, Announcement
<1>8. CASE \E after : ScanNext(t, scanner[t].todo, after)
  <2>1. \A s \in Tracker : Announcing(s)' => scanner'[s] = scanner[s] /\ Announcing(s)
    BY <1>0, <1>8 DEF ScanNext, ScannerAt, Announcing
  <2>2. HandsFit' /\ TagsAreReleases'
    BY <1>0, <2>1 DEF HandsFit, TagsAreReleases, Tracked
  <2>3. ScansTell'
    BY <1>0, <1>7, <2>1 DEF ScansTell, Stays, Announcing
  <2> QED
    BY <1>3, <1>4, <1>5, <1>6, <2>2, <2>3
<1>9. CASE /\ PublishOk("Released", <<i, scanner[t].tag>>, scanner[t].publisher)
           /\ ScannerAt(t, "Publishing", scanner[t].todo, scanner[t].repo, scanner[t].tag,
                        scanner[t].subs \ {i}, scanner[t].publisher)
  <2>1. /\ scanner[t].pc = "Publishing" /\ scanner'[t].pc = "Publishing"
        /\ scanner'[t].repo = scanner[t].repo /\ scanner'[t].tag = scanner[t].tag
        /\ scanner'[t].subs = scanner[t].subs \ {i}
        /\ \A s \in Tracker : s # t => scanner'[s] = scanner[s]
    BY <1>0, <1>9 DEF ScannerAt, PublishNotification
  <2>2. HandsFit' /\ TagsAreReleases'
    BY <1>0, <2>1 DEF HandsFit, TagsAreReleases, Tracked, Announcing
  <2>3. Told(<<i, scanner[t].tag>>)'
    <3>1. CASE dropped' = dropped \cup {<<i, scanner[t].tag>>}
      BY <2>1, <3>1 DEF Told
    <3>2. CASE Enqueue("Released", <<i, scanner[t].tag>>)
      BY <1>0, <1>2, <2>1, <3>2 DEF Enqueue, Told, AnnouncementOut
    <3> QED
      BY <1>9, <3>1, <3>2 DEF PublishOk
  <2>4. ScansTell'
    <3>1. \A j \in Subscription :
            j \in scanner[t].subs \/ Told(<<j, scanner[t].tag>>)
            => j \in scanner'[t].subs \/ Told(<<j, scanner[t].tag>>)'
      BY <1>7, <2>1, <2>3 DEF Stays
    <3> QED
      BY <1>0, <1>7, <2>1, <3>1 DEF ScansTell, Stays
  <2> QED
    BY <1>3, <1>4, <1>5, <1>6, <2>2, <2>4
<1> QED
  BY <1>1, <1>8, <1>9

\* The tag is stored when the list is empty: everyone it concerns has been told.
LEMMA StoreTagKeeps ==
    ASSUME IInv, Stays, TypeOK', NEW t \in Tracker, StoreTag(t),
           UNCHANGED <<ensure, deliveryVars, subscriptionVars>>
    PROVE  IInv'
<1> USE DEF IInv
<1>0. /\ UNCHANGED queueVars
      /\ UNCHANGED <<row, key, since, latest, deliverer, emailed, queue, dead, dropped>>
      /\ scanner \in [Tracker -> ScannerState]
      /\ ScanNext(t, scanner[t].todo, scanner[t].publisher)
  BY DEF StoreTag, UpdateTag, repositoryVars, queueVars, deliveryVars, subscriptionVars, TypeOK,
     ScannerTypeOK
<1>1. \A s \in Tracker : Announcing(s)' => scanner'[s] = scanner[s] /\ Announcing(s)
  BY <1>0 DEF ScanNext, ScannerAt, Announcing
<1>2. CASE UNCHANGED repositoryVars
  BY <1>0, <1>1, <1>2, ScannerAsideKeeps
<1>3. CASE UpdateTag(scanner[t].repo, scanner[t].tag)
  <2>1. /\ scanner[t].pc = "Publishing" /\ scanner[t].subs = {} /\ Announcing(t)
        /\ scanner[t].repo \in Repo /\ scanner[t].tag \in 1..latest[scanner[t].repo]
        /\ scanner[t].tag \in Tag
    BY <1>0 DEF StoreTag, Announcing, HandsFit, TagsAreReleases, ScannerState
  <2>2. seen' = [seen EXCEPT ![scanner[t].repo] = scanner[t].tag] /\ seen \in [Repo -> Tag \cup {None}]
    BY <1>3 DEF UpdateTag, TypeOK, RepositoryTypeOK
  <2>3. HandsFit'
    BY <1>0, <1>1 DEF HandsFit
  <2>4. TagsAreReleases'
    <3>1. \A r \in Repo : seen'[r] # None => seen'[r] <= latest[r]
      BY <2>1, <2>2 DEF TagsAreReleases, Tracked
    <3> QED
      BY <1>0, <1>1, <3>1 DEF TagsAreReleases, Tracked
  <2>5. RowsAreTracked'
    <3>1. \A j \in Subscription : ensure[j].pc = "Tracked" => Tracked(ensure[j].repo)'
      BY DEF RowsAreTracked, HandsFit, Stays
    <3>2. \A j \in Subscription : row[j] # "Absent" => Tracked(key[j][2])'
      <4>1. \A j \in Subscription : key[j] # None => key[j][2] \in Repo
        BY DEF TypeOK, Key
      <4> QED
        BY <1>0, <4>1 DEF RowsAreTracked, Stays, Tracked
    <3> QED
      BY <1>0, <3>1, <3>2 DEF RowsAreTracked
  <2>6. NoReleaseMissed'
    <3> SUFFICES ASSUME NEW j \in Subscription, row[j] = "Active", seen'[key[j][2]] > since[j]
                 PROVE  Told(<<j, seen'[key[j][2]]>>)
      BY <1>0 DEF NoReleaseMissed, Told, AnnouncementOut, Holds
    <3>1. key[j][2] \in Repo
      BY DEF RowsAreTracked, TypeOK, Key
    <3>2. CASE key[j][2] = scanner[t].repo
      BY <2>1, <2>2, <3>1, <3>2 DEF ScansTell
    <3>3. CASE key[j][2] # scanner[t].repo
      BY <2>2, <3>1, <3>3 DEF NoReleaseMissed
    <3> QED
      BY <3>2, <3>3
  <2>7. ScansTell'
    BY <1>0, <1>1 DEF ScansTell, Announcing, Told, AnnouncementOut, Holds
  <2> QED
    BY <1>0, <2>3, <2>4, <2>5, <2>6, <2>7, NoNewAnnouncement
<1> QED
  BY <1>2, <1>3 DEF StoreTag

LEMMA InvariantStep ==
    ASSUME IInv, [Next]_vars
    PROVE  IInv'
<1>1. TypeOK' /\ Stays
  BY WhatStays
<1>2. CASE \E t \in Tracker : ScannerStep(t)
  <2>1. PICK t \in Tracker : ScannerStep(t)
    BY <1>2
  <2>2. CASE GetAll(t)
    <3>1. \A s \in Tracker : Announcing(s)' => scanner'[s] = scanner[s] /\ Announcing(s)
      BY <2>2 DEF GetAll, ScannerAt, Announcing, IInv, TypeOK, ScannerTypeOK
    <3> QED
      BY <1>1, <2>1, <2>2, <3>1, ScannerAsideKeeps DEF GetAll, ScannerStep
  <2> QED
    BY <1>1, <2>1, <2>2, LatestTagKeeps, ListKeeps, PublishKeeps, StoreTagKeeps DEF ScannerStep
<1>3. CASE \E t \in Tracker : CrashTracker(t) /\ UNCHANGED <<ensure, deliveryVars, subscriptionVars>>
  <2>1. PICK t \in Tracker : CrashTracker(t) /\ UNCHANGED <<ensure, deliveryVars, subscriptionVars>>
    BY <1>3
  <2>2. \A s \in Tracker : Announcing(s)' => scanner'[s] = scanner[s] /\ Announcing(s)
    BY <2>1 DEF CrashTracker, ScannerStarted, Announcing, IInv, TypeOK, ScannerTypeOK
  <2> QED
    BY <1>1, <2>1, <2>2, ScannerAsideKeeps DEF CrashTracker
<1>4. CASE \E w \in Worker : /\ DeliveryNext(w) \/ DeliveryFault(w)
                             /\ UNCHANGED <<repositoryVars, ensure, scanner, subscriptionVars>>
  BY <1>1, <1>4, DeliveryKeepsInvariant
<1>5. CASE UNCHANGED vars
  BY <1>1, <1>5 DEF vars, repositoryVars, queueVars, deliveryVars, subscriptionVars, IInv,
     HandsFit, TagsAreReleases, RowsAreTracked, Tracked, ScansTell, HeldIsAnnounceable,
     NoReleaseMissed, AnnouncedWasConfirmed, Announceable, Told, AnnouncementOut, Holds,
     Announcing
<1> QED
  BY <1>1, <1>2, <1>3, <1>4, <1>5, SubscriptionKeeps, EnsureKeeps, GitHubKeeps DEF Next,
     DeliveryStep, FaultNext

LEMMA InvariantInit ==
    ASSUME Init
    PROVE  IInv
<1>1. TypeOK
  <2>0. 0 \in Tag /\ (\A r \in Repo : latest[r] \in {0, 1} => latest[r] \in Nat)
    BY MaxTagAssumption DEF Tag
  <2>1. RepositoryTypeOK
    BY MaxTagAssumption DEF Init, RepositoryInit, RepositoryTypeOK, Tag
  <2>2. BrokerTypeOK
    BY BudgetAssumption DEF Init, BrokerInit, BrokerTypeOK, FaultsInit
  <2>3. EnsureTypeOK /\ DeliveryTypeOK
    BY <2>0 DEF Init, EnsureInit, EnsureTypeOK, EnsureIdle, EnsureState, DeliveryInit,
       DeliveryTypeOK, DelivererStarted, DelivererState
  <2>4. ScannerTypeOK
    BY <2>0 DEF Init, ScannerInit, ScannerTypeOK, ScannerStarted, ScannerState, Publisher
  <2> QED
    BY <2>1, <2>2, <2>3, <2>4 DEF Init, TypeOK, Rows!Init
<1>2. HandsFit /\ TagsAreReleases /\ RowsAreTracked /\ ScansTell
  BY DEF Init, HandsFit, TagsAreReleases, RowsAreTracked, ScansTell, RepositoryInit, Tracked,
     EnsureInit, EnsureIdle, ScannerInit, ScannerStarted, Announcing, DeliveryInit,
     DelivererStarted, Rows!Init
<1>3. HeldIsAnnounceable /\ NoReleaseMissed
  BY DEF Init, DeliveryInit, DelivererStarted, HeldIsAnnounceable, NoReleaseMissed, Rows!Init
<1>4. AnnouncedWasConfirmed
  BY UntrackedAssumption DEF Init, DeliveryInit, DelivererStarted, BrokerInit, Kind,
     AnnouncedWasConfirmed, AnnouncementOut, Holds
<1> QED
  BY <1>1, <1>2, <1>3, <1>4 DEF IInv

-----------------------------------------------------------------------------
(* Theorems *)

\* The inductive invariant holds of every reachable state.
THEOREM ReleaseInvariance == Spec => []IInv
  BY InvariantInit, InvariantStep, PTL DEF Spec

\* Every variable keeps its type: nothing but a tag is ever stored for a tag.
THEOREM ReleaseTypes == Spec => []TypeOK
  BY ReleaseInvariance, PTL DEF IInv

\* Whatever fails, however many trackers scan at once: a stored tag means that
\* everyone who confirmed before the release has been told of it, as far as
\* the publisher's confirmations can be believed.
THEOREM NoReleaseIsMissed == Spec => []NoReleaseMissed
  BY ReleaseInvariance, PTL DEF IInv

\* Nobody is told who never confirmed, and of no release that does not exist.
THEOREM OnlyTheConfirmedAreTold == Spec => []AnnouncedWasConfirmed
  BY ReleaseInvariance, PTL DEF IInv

-----------------------------------------------------------------------------
(***************************************************************************)
(* One tracker.  Only its own scan changes a stored tag, so what it is to  *)
(* store is never older.                                                   *)
(***************************************************************************)
OneTracker == \A t, u \in Tracker : t = u

\* The scan has the rows still to be scanned as they are, and what it announces
\* is newer than the row.
Fresh(t) ==
    /\ \A known \in scanner[t].todo : Tracked(known[1]) /\ known[2] = seen[known[1]]
    /\ Announcing(t) => /\ Tracked(scanner[t].repo)
                        /\ seen[scanner[t].repo] < scanner[t].tag
                        /\ \A known \in scanner[t].todo : known[1] # scanner[t].repo

ScansAreFresh == \A t \in Tracker : Fresh(t)

\* A row changes its tag only to what a scan announced.
LEMMA TagsChange ==
    ASSUME IInv, [Next]_vars, NEW r \in Repo, Tracked(r)
    PROVE  \/ seen'[r] = seen[r]
           \/ \E t \in Tracker : /\ StoreTag(t) /\ Announcing(t)
                                 /\ scanner[t].repo = r /\ seen'[r] = scanner[t].tag
<1> USE DEF IInv
<1>1. CASE \E t \in Tracker : StoreTag(t)
  BY <1>1 DEF StoreTag, UpdateTag, Announcing, repositoryVars, TypeOK, RepositoryTypeOK
<1>2. CASE \E i \in Subscription : EnsureStep(i)
  BY <1>2 DEF EnsureStep, EnsureNext, GetByName, LookUp, CreateRepository, Create, Tracked,
     repositoryVars, TypeOK, RepositoryTypeOK
<1>3. CASE UNCHANGED seen
  BY <1>3
<1> QED
  BY <1>1, <1>2, <1>3 DEF Next, SubscriptionNext, ScannerStep, GetAll, LatestTag,
     ListActiveByRepository, PublishNotification, DeliveryStep, GitHubNext, PublishRelease,
     CrashTracker, FaultNext, vars, repositoryVars

\* Requests and scans interleave freely, also those of several trackers: only a
\* scan that is through with its list moves a stored tag.
THEOREM TagsMoveWithScans == Spec => TagMovesWithScan
<1>1. IInv /\ [Next]_vars =>
        \A r \in Repo : Tracked(r) /\ seen'[r] # seen[r] =>
          \E t \in Tracker :
            /\ scanner[t].pc = "Publishing" /\ scanner[t].subs = {}
            /\ scanner[t].repo = r /\ scanner[t].tag = seen'[r]
  BY TagsChange DEF StoreTag
<1> QED
  BY <1>1, ReleaseInvariance, PTL DEF Spec, TagMovesWithScan

LEMMA FreshStep ==
    ASSUME OneTracker, IInv, ScansAreFresh, [Next]_vars
    PROVE  ScansAreFresh'
<1> USE DEF IInv
<1>0. Stays
  BY WhatStays
<1> SUFFICES ASSUME NEW t \in Tracker
             PROVE  Fresh(t)'
  BY DEF ScansAreFresh
<1>1. /\ scanner[t].todo \subseteq Repo \X Tag
      /\ \A known \in scanner[t].todo : /\ known[1] \in Repo /\ Tracked(known[1])
                                        /\ known[2] = seen[known[1]]
      /\ Announcing(t) => scanner[t].repo \in Repo /\ Tracked(scanner[t].repo)
      /\ Announcing(t) => seen[scanner[t].repo] < scanner[t].tag
      /\ Announcing(t) => \A known \in scanner[t].todo : known[1] # scanner[t].repo
      /\ scanner \in [Tracker -> ScannerState] /\ seen \in [Repo -> Tag \cup {None}]
  BY DEF ScansAreFresh, Fresh, HandsFit, TypeOK, RepositoryTypeOK, ScannerTypeOK, ScannerState
<1>2. CASE /\ scanner'[t].todo \subseteq scanner[t].todo /\ ~Announcing(t)'
           /\ \A known \in scanner[t].todo : seen'[known[1]] = seen[known[1]]
  BY <1>1, <1>2 DEF Fresh, Tracked
<1>3. CASE /\ scanner'[t].todo = scanner[t].todo /\ Announcing(t) /\ UNCHANGED seen
           /\ scanner'[t].repo = scanner[t].repo /\ scanner'[t].tag = scanner[t].tag
  BY <1>1, <1>3 DEF Fresh, Tracked
<1>4. CASE \E s \in Tracker : ScannerStep(s)
  <2>1. ScannerStep(t)
    BY <1>4 DEF OneTracker
  <2>2. CASE GetAll(t)
    <3>1. /\ scanner'[t].todo = {<<r, seen[r]>> : r \in {q \in Repo : Tracked(q)}}
          /\ scanner'[t].pc = "Scanning" /\ UNCHANGED seen
      BY <1>1, <2>2 DEF GetAll, ScannerAt, repositoryVars
    <3> QED
      BY <3>1 DEF Fresh, Tracked, Announcing
  <2>3. CASE LatestTag(t)
    <3>1. PICK known \in scanner[t].todo :
            \/ \E left \in {scanner[t].todo \ {known}, {}} : ScanNext(t, left, scanner[t].publisher)
            \/ /\ latest[known[1]] # known[2]
               /\ ScannerAt(t, "Listing", scanner[t].todo \ {known}, known[1], latest[known[1]], {},
                            scanner[t].publisher)
      BY <2>3 DEF LatestTag
    <3>2. /\ known[1] \in Repo /\ Tracked(known[1]) /\ known[2] = seen[known[1]]
          /\ seen[known[1]] <= latest[known[1]]
          /\ seen[known[1]] \in Nat /\ latest[known[1]] \in Nat
      BY <1>1, MaxTagAssumption DEF TagsAreReleases, Tracked, Tag, TypeOK, RepositoryTypeOK
    <3>3. UNCHANGED seen
      BY <2>3 DEF LatestTag, repositoryVars
    <3>4. CASE \E left \in {scanner[t].todo \ {known}, {}} : ScanNext(t, left, scanner[t].publisher)
      BY <1>1, <1>2, <3>3, <3>4 DEF ScanNext, ScannerAt, Announcing
    <3>5. CASE /\ latest[known[1]] # known[2]
               /\ ScannerAt(t, "Listing", scanner[t].todo \ {known}, known[1], latest[known[1]], {},
                            scanner[t].publisher)
      <4>1. /\ scanner'[t].todo = scanner[t].todo \ {known}
            /\ scanner'[t].repo = known[1] /\ scanner'[t].tag = latest[known[1]]
        BY <1>1, <3>5 DEF ScannerAt
      <4>2. seen[known[1]] < latest[known[1]]
        BY <3>2, <3>5
      <4>3. \A other \in scanner[t].todo \ {known} : other[1] # known[1]
        BY <1>1
      <4> QED
        BY <1>1, <3>2, <3>3, <4>1, <4>2, <4>3 DEF Fresh, Tracked
    <3> QED
      BY <3>1, <3>4, <3>5
  <2>4. CASE ListActiveByRepository(t, ActiveSubscribers(scanner[t].repo))
    <3>1. Announcing(t) /\ UNCHANGED seen
      BY <2>4 DEF ListActiveByRepository, Announcing, repositoryVars
    <3> QED
      BY <1>1, <1>2, <1>3, <2>4, <3>1 DEF ListActiveByRepository, ScanNext, ScannerAt, Announcing
  <2>5. CASE PublishNotification(t)
    <3>1. Announcing(t) /\ UNCHANGED seen
      BY <2>5 DEF PublishNotification, Announcing, repositoryVars
    <3>2. \/ \E after : ScanNext(t, scanner[t].todo, after)
          \/ \E left : ScannerAt(t, "Publishing", scanner[t].todo, scanner[t].repo, scanner[t].tag,
                                left, scanner[t].publisher)
      BY <2>5 DEF PublishNotification
    <3> QED
      BY <1>1, <1>2, <1>3, <3>1, <3>2 DEF ScanNext, ScannerAt, Announcing
  <2>6. CASE StoreTag(t)
    <3>1. scanner'[t].todo = scanner[t].todo /\ ~Announcing(t)' /\ Announcing(t)
      BY <1>1, <2>6 DEF StoreTag, ScanNext, ScannerAt, Announcing
    <3>2. \A known \in scanner[t].todo : seen'[known[1]] = seen[known[1]]
      BY <1>1, <2>6, <3>1 DEF StoreTag, UpdateTag, repositoryVars
    <3> QED
      BY <1>2, <3>1, <3>2
  <2> QED
    BY <2>1, <2>2, <2>3, <2>4, <2>5, <2>6 DEF ScannerStep
<1>5. CASE UNCHANGED scanner /\ (\A r \in Repo : Tracked(r) => seen'[r] = seen[r])
  BY <1>0, <1>1, <1>5 DEF Fresh, Announcing, Stays
<1>6. CASE \E s \in Tracker : CrashTracker(s)
  <2>1. CrashTracker(t)
    BY <1>6 DEF OneTracker
  <2> QED
    BY <1>1, <1>2, <2>1 DEF CrashTracker, ScannerStarted, Announcing, repositoryVars
<1>7. UNCHANGED scanner \/ (\E s \in Tracker : ScannerStep(s) \/ CrashTracker(s))
  BY DEF Next, SubscriptionNext, EnsureStep, DeliveryStep, GitHubNext, FaultNext, vars
<1>8. \A s \in Tracker : StoreTag(s) /\ Announcing(s) => scanner' # scanner
  BY <1>1 DEF StoreTag, ScanNext, ScannerAt, Announcing
<1> QED
  BY <1>4, <1>5, <1>6, <1>7, <1>8, TagsChange

LEMMA FreshInit == Init => ScansAreFresh
  BY DEF Init, ScannerInit, ScannerStarted, ScansAreFresh, Fresh, Announcing

\* With one tracker, no row of the table of repositories goes back to an older
\* release: the answer of GitHub a scan stores is not older than the row.
THEOREM OneTrackerNeverGoesBack ==
    ASSUME OneTracker
    PROVE  Spec => SeenNeverGoesBack
<1>1. IInv /\ ScansAreFresh /\ [Next]_vars => ScansAreFresh'
  BY FreshStep
<1>2. IInv /\ ScansAreFresh /\ [Next]_vars
      => \A r \in Repo : Tracked(r) => Tracked(r)' /\ seen'[r] >= seen[r]
  <2> SUFFICES ASSUME IInv, ScansAreFresh, [Next]_vars, NEW r \in Repo, Tracked(r)
               PROVE  Tracked(r)' /\ seen'[r] >= seen[r]
    OBVIOUS
  <2>1. Tracked(r)'
    BY WhatStays DEF Stays
  <2>2. seen[r] \in Nat /\ \A t \in Tracker : scanner[t].tag \in Nat
    BY MaxTagAssumption DEF IInv, TypeOK, RepositoryTypeOK, ScannerTypeOK, ScannerState,
       Tracked, Tag
  <2> QED
    BY <2>1, <2>2, TagsChange DEF ScansAreFresh, Fresh
<1> QED
  BY <1>1, <1>2, FreshInit, ReleaseInvariance, PTL DEF Spec, SeenNeverGoesBack
-----------------------------------------------------------------------------
(***************************************************************************)
(* One tracker, and no fault yet.  A release that is out for a subscriber  *)
(* was announced by an earlier scan, which has stored its tag, or by this  *)
(* one, which has taken them off its list; and there is one copy of it.    *)
(***************************************************************************)
NothingFailed ==
    /\ \A t \in Tracker : scanner[t].publisher = "Good"
    /\ \A w \in Worker : deliverer[w].open

\* The announcement is on the queue, in the hands of one worker, or sent.
OnePlace(a) ==
    /\ queue["Released"][a] <= 1
    /\ \A v, w \in Worker : Sending(v, a) /\ Sending(w, a) => v = w
    /\ \A w \in Worker : Sending(w, a) => queue["Released"][a] = 0 /\ a \notin emailed
    /\ a \in emailed => queue["Released"][a] = 0

\* The scan has announced the release to the subscriber.
HasTold(t, a) ==
    /\ scanner[t].pc = "Publishing" /\ scanner[t].tag = a[2]
    /\ scanner[t].repo = key[a[1]][2] /\ a[1] \notin scanner[t].subs

ToldInTurn(a) ==
    AnnouncementOut(a) =>
        \/ Tracked(key[a[1]][2]) /\ a[2] <= seen[key[a[1]][2]]
        \/ \E t \in Tracker : HasTold(t, a)

ToldOnce(a) == OnePlace(a) /\ ToldInTurn(a)

RepeatInv ==
    /\ faults <= MaxFaults
    /\ faults = MaxFaults => NothingFailed /\ \A a \in Announcement : ToldOnce(a)

\* What is out is not announced again: a stored tag is older than what the scan
\* announces, and a scan takes whom it told off its list.
LEMMA NotToldAgain ==
    ASSUME OneTracker, IInv, ScansAreFresh, NEW a \in Announcement, NEW t \in Tracker,
           AnnouncementOut(a), ToldInTurn(a)
    PROVE  ~ToTell(t, a)
<1> SUFFICES ASSUME ToTell(t, a)
             PROVE  FALSE
  OBVIOUS
<1>1. /\ Announcing(t) /\ scanner[t].repo = key[a[1]][2] /\ scanner[t].tag = a[2]
      /\ a[1] \in scanner[t].subs
  BY DEF ToTell, Announcing, IInv, ScansTell
<1>2. ~ \E u \in Tracker : HasTold(u, a)
  BY <1>1 DEF OneTracker, HasTold
<1>3. /\ scanner[t].repo \in Repo /\ scanner[t].tag \in Nat /\ seen[scanner[t].repo] \in Nat
      /\ seen[scanner[t].repo] < scanner[t].tag
  BY <1>1 DEF ScansAreFresh, Fresh, Tracked, IInv, HandsFit, TypeOK, ScannerTypeOK,
     ScannerState, RepositoryTypeOK, Tag
<1> QED
  BY <1>1, <1>2, <1>3 DEF ToldInTurn

\* Who has been told stays told, in their turn.
LEMMA TurnStays ==
    ASSUME IInv, Stays, NEW a \in Announcement, ToldInTurn(a),
           AnnouncementOut(a)' => AnnouncementOut(a),
           \A r \in Repo : Tracked(r) => seen'[r] = seen[r],
           \A t \in Tracker : scanner[t].pc = "Publishing" =>
             /\ scanner'[t].pc = "Publishing" /\ scanner'[t].tag = scanner[t].tag
             /\ scanner'[t].repo = scanner[t].repo /\ scanner'[t].subs \subseteq scanner[t].subs
    PROVE  ToldInTurn(a)'
<1> SUFFICES ASSUME AnnouncementOut(a)
             PROVE  \/ Tracked(key[a[1]][2])' /\ a[2] <= seen'[key'[a[1]][2]]
                    \/ \E t \in Tracker : HasTold(t, a)'
  BY DEF ToldInTurn
<1>1. a[1] \in Subscription /\ since[a[1]] # None
  BY DEF IInv, AnnouncedWasConfirmed, Announceable, Announcement
<1>2. key'[a[1]] = key[a[1]] /\ key[a[1]][2] \in Repo
  BY <1>1 DEF Stays, IInv, RowsAreTracked, TypeOK, Key
<1>3. CASE Tracked(key[a[1]][2]) /\ a[2] <= seen[key[a[1]][2]]
  BY <1>2, <1>3 DEF Tracked
<1>4. CASE \E t \in Tracker : HasTold(t, a)
  BY <1>2, <1>4 DEF HasTold
<1> QED
  BY <1>3, <1>4 DEF ToldInTurn

\* What a step without a fault leaves as it is.
LEMMA PlaceStays ==
    ASSUME NEW a \in Announcement, OnePlace(a), queue'["Released"][a] = queue["Released"][a],
           a \in emailed' => a \in emailed, \A w \in Worker : Sending(w, a)' => Sending(w, a)
    PROVE  OnePlace(a)'
  BY DEF OnePlace

LEMMA OnlyRowsChange ==
    ASSUME IInv, Stays, NothingFailed, \A a \in Announcement : ToldOnce(a),
           UNCHANGED <<queueVars, deliveryVars, scanner>>,
           \A r \in Repo : Tracked(r) => seen'[r] = seen[r]
    PROVE  NothingFailed' /\ \A a \in Announcement : ToldOnce(a)'
<1>1. \A a \in Announcement : /\ AnnouncementOut(a)' <=> AnnouncementOut(a)
                              /\ \A w \in Worker : Sending(w, a)' <=> Sending(w, a)
  BY DEF AnnouncementOut, Holds, Sending, queueVars, deliveryVars
<1>2. \A a \in Announcement : OnePlace(a)' /\ ToldInTurn(a)'
  BY <1>1, PlaceStays, TurnStays DEF ToldOnce, queueVars, deliveryVars
<1> QED
  BY <1>2 DEF NothingFailed, ToldOnce, deliveryVars

LEMMA ScanIsFaultless ==
    ASSUME OneTracker, IInv, Stays, ScansAreFresh, NEW t \in Tracker, ScannerStep(t), ~Fault,
           NothingFailed, \A a \in Announcement : ToldOnce(a)
    PROVE  NothingFailed' /\ \A a \in Announcement : ToldOnce(a)'
<1>0. /\ scanner \in [Tracker -> ScannerState] /\ seen \in [Repo -> Tag \cup {None}]
      /\ queue \in [Kind -> [Announcement -> Nat]] /\ "Released" \in Kind
      /\ UNCHANGED <<deliverer, emailed>>
      /\ scanner[t].publisher = "Good" /\ \A u \in Tracker : u = t
  BY DEF IInv, TypeOK, ScannerTypeOK, RepositoryTypeOK, BrokerTypeOK, Kind, ScannerStep,
     deliveryVars, NothingFailed, OneTracker
<1>1. \A a \in Announcement, w \in Worker : Sending(w, a)' <=> Sending(w, a)
  BY <1>0 DEF Sending
<1>2. ASSUME scanner'[t].publisher = "Good"
      PROVE  NothingFailed'
  BY <1>0, <1>2 DEF NothingFailed
<1>3. ASSUME UNCHANGED queueVars
      PROVE  \A a \in Announcement : OnePlace(a)' /\ (AnnouncementOut(a)' <=> AnnouncementOut(a))
  BY <1>0, <1>1, <1>3, PlaceStays DEF ToldOnce, AnnouncementOut, Holds, queueVars
<1>4. CASE \/ GetAll(t) \/ LatestTag(t)
           \/ ListActiveByRepository(t, ActiveSubscribers(scanner[t].repo))
  <2>1. UNCHANGED queueVars /\ UNCHANGED seen /\ scanner[t].pc # "Publishing"
    BY <1>4 DEF GetAll, LatestTag, ListActiveByRepository, repositoryVars
  <2>2. scanner'[t].publisher = "Good"
    BY <1>0, <1>4 DEF GetAll, LatestTag, ListActiveByRepository, ScanNext, ScannerAt
  <2>3. \A a \in Announcement : ToldInTurn(a)'
    BY <1>0, <1>3, <2>1, TurnStays DEF ToldOnce
  <2> QED
    BY <1>2, <1>3, <2>1, <2>2, <2>3 DEF ToldOnce
<1>5. CASE PublishNotification(t)
  <2>1. PICK i \in scanner[t].subs :
          /\ PublishOk("Released", <<i, scanner[t].tag>>, "Good")
          /\ ScannerAt(t, "Publishing", scanner[t].todo, scanner[t].repo, scanner[t].tag,
                       scanner[t].subs \ {i}, "Good")
    BY <1>0, <1>5 DEF PublishNotification, PublishErr
  <2>0. PICK a \in Announcement : a = <<i, scanner[t].tag>>
    BY <1>0 DEF ScannerState, Announcement
  <2>2. /\ i = a[1] /\ a[2] = scanner[t].tag /\ ToTell(t, a) /\ scanner[t].repo = key[i][2]
        /\ queue' = [queue EXCEPT !["Released"][a] = @ + 1]
        /\ UNCHANGED <<dead, seen>>
    BY <1>0, <1>5, <2>0, <2>1
    DEF PublishNotification, ToTell, PublishOk, Enqueue, ScannerState, Announcement, IInv,
        ScansTell, repositoryVars
  <2>3. /\ scanner[t].pc = "Publishing" /\ scanner'[t].pc = "Publishing"
        /\ scanner'[t].tag = scanner[t].tag /\ scanner'[t].repo = scanner[t].repo
        /\ scanner'[t].subs = scanner[t].subs \ {i} /\ scanner'[t].publisher = "Good"
    BY <1>0, <2>1, <2>2 DEF ScannerAt, ToTell
  <2>4. ~AnnouncementOut(a)
    BY <2>2, NotToldAgain DEF ToldOnce
  <2>5. ToldOnce(a)'
    <3>1. queue["Released"][a] = 0 /\ a \notin emailed /\ \A w \in Worker : ~Sending(w, a)
      BY <1>0, <2>4 DEF AnnouncementOut, Holds, NothingFailed, Sending
    <3>2. queue'["Released"][a] = 1 /\ a \notin emailed' /\ \A w \in Worker : ~Sending(w, a)'
      BY <1>0, <1>1, <2>2, <3>1
    <3>3. OnePlace(a)'
      BY <3>2 DEF OnePlace
    <3>4. HasTold(t, a)'
      <4>1. key'[i] = key[i]
        BY <2>2 DEF ToTell, IInv, ScansTell, Stays, Announcement
      <4> QED
        BY <2>2, <2>3, <4>1 DEF HasTold
    <3> QED
      BY <3>3, <3>4 DEF ToldOnce, ToldInTurn
  <2>6. ASSUME NEW b \in Announcement, b # a
        PROVE  ToldOnce(b)'
    <3>1. queue'["Released"][b] = queue["Released"][b]
      BY <1>0, <2>2, <2>6
    <3>2. AnnouncementOut(b)' <=> AnnouncementOut(b)
      BY <1>0, <2>2, <3>1 DEF AnnouncementOut, Holds
    <3>3. ToldInTurn(b)'
      BY <1>0, <2>2, <2>3, <3>2, TurnStays DEF ToldOnce
    <3> QED
      BY <1>0, <1>1, <3>1, <3>3, PlaceStays DEF ToldOnce
  <2> QED
    BY <1>2, <2>3, <2>5, <2>6
<1>6. CASE StoreTag(t)
  <2>1. /\ UNCHANGED queueVars /\ scanner'[t].publisher = "Good"
        /\ seen' = [seen EXCEPT ![scanner[t].repo] = scanner[t].tag]
    BY <1>0, <1>6 DEF StoreTag, ScanNext, ScannerAt, UpdateTag
  <2>2. Announcing(t) /\ scanner[t].repo \in Repo /\ scanner[t].tag \in Nat
        /\ seen[scanner[t].repo] \in Nat /\ seen[scanner[t].repo] < scanner[t].tag
    BY <1>0, <1>6 DEF StoreTag, Announcing, IInv, HandsFit, ScansAreFresh, Fresh, Tracked,
       ScannerState, Tag
  <2>3. ASSUME NEW a \in Announcement, AnnouncementOut(a)
        PROVE  Tracked(key[a[1]][2])' /\ a[2] <= seen'[key'[a[1]][2]]
    <3>1. a[1] \in Subscription /\ a[2] \in Nat /\ since[a[1]] # None
      BY <2>3 DEF IInv, AnnouncedWasConfirmed, Announceable, Announcement
    <3>2. key'[a[1]] = key[a[1]] /\ key[a[1]][2] \in Repo
      BY <3>1 DEF Stays, IInv, RowsAreTracked, TypeOK, Key
    <3>3. CASE Tracked(key[a[1]][2]) /\ a[2] <= seen[key[a[1]][2]]
      <4>1. CASE key[a[1]][2] = scanner[t].repo
        BY <1>0, <2>1, <2>2, <3>1, <3>2, <3>3, UntrackedAssumption DEF Tracked, ScannerState
      <4>2. CASE key[a[1]][2] # scanner[t].repo
        BY <2>1, <3>2, <3>3, <4>2 DEF Tracked
      <4> QED
        BY <4>1, <4>2
    <3>4. CASE HasTold(t, a)
      BY <1>0, <2>1, <3>1, <3>2, <3>4, UntrackedAssumption DEF HasTold, Tracked, ScannerState
    <3> QED
      BY <1>0, <2>3, <3>3, <3>4 DEF ToldOnce, ToldInTurn
  <2>4. \A a \in Announcement : ToldInTurn(a)'
    BY <1>3, <2>1, <2>3 DEF ToldInTurn
  <2> QED
    BY <1>2, <1>3, <2>1, <2>4 DEF ToldOnce
<1> QED
  BY <1>4, <1>5, <1>6 DEF ScannerStep

LEMMA DelivererIsFaultless ==
    ASSUME IInv, Stays, NEW w \in Worker, DeliveryStep(w), ~Fault,
           NothingFailed, \A a \in Announcement : ToldOnce(a)
    PROVE  NothingFailed' /\ \A a \in Announcement : ToldOnce(a)'
<1>0. /\ deliverer \in [Worker -> DelivererState] /\ emailed \in SUBSET Announcement
      /\ queue \in [Kind -> [Announcement -> Nat]] /\ "Released" \in Kind
      /\ UNCHANGED <<scanner, seen>> /\ deliverer[w].open
  BY DEF IInv, TypeOK, DeliveryTypeOK, BrokerTypeOK, Kind, DeliveryStep, repositoryVars,
     NothingFailed
<1>1. ASSUME NEW pc, NEW cur, DelivererAt(w, pc, cur)
      PROVE  /\ NothingFailed'
             /\ \A a : Sending(w, a)' <=> pc = "Sending" /\ cur = a
             /\ \A v \in Worker, a \in Announcement : v # w => (Sending(v, a)' <=> Sending(v, a))
             /\ \A v \in Worker, a \in Announcement : v # w => (Holds(v, a)' <=> Holds(v, a))
             /\ \A a : Holds(w, a)' <=> cur = a
  BY <1>0, <1>1 DEF DelivererAt, NothingFailed, Sending, Holds
<1>2. ASSUME \A a \in Announcement : AnnouncementOut(a)' => AnnouncementOut(a)
      PROVE  \A a \in Announcement : ToldInTurn(a)'
  BY <1>0, <1>2, TurnStays DEF ToldOnce
<1>4. CASE DeliverRelease(w)
  <2>1. PICK a \in Announcement :
          /\ queue["Released"][a] > 0 /\ DelivererAt(w, "Sending", a)
          /\ queue' = [queue EXCEPT !["Released"][a] = @ - 1] /\ UNCHANGED <<dead, emailed>>
          /\ deliverer[w].pc = "Idle"
    BY <1>4 DEF DeliverRelease, Deliver
  <2>2. OnePlace(a)'
    <3>1. /\ queue["Released"][a] = 1 /\ queue'["Released"][a] = 0
          /\ a \notin emailed /\ \A v \in Worker : ~Sending(v, a)
      BY <1>0, <2>1 DEF ToldOnce, OnePlace
    <3> QED
      BY <1>1, <2>1, <3>1 DEF OnePlace
  <2>3. ASSUME NEW b \in Announcement, b # a
        PROVE  OnePlace(b)' /\ (AnnouncementOut(b)' => AnnouncementOut(b))
    BY <1>1, <2>1, <2>3, PlaceStays DEF ToldOnce, AnnouncementOut
  <2>4. AnnouncementOut(a)
    BY <2>1 DEF AnnouncementOut
  <2> QED
    BY <1>1, <1>2, <2>1, <2>2, <2>3, <2>4 DEF ToldOnce
<1>5. CASE SendRelease(w)
  <2>1. /\ UNCHANGED queueVars /\ deliverer[w].pc = "Sending"
        /\ emailed' \in {emailed, emailed \cup {deliverer[w].cur}}
        /\ \E pc \in {"Handled", "Errored"} : DelivererAt(w, pc, deliverer[w].cur)
    BY <1>5 DEF SendRelease
  <2>2. /\ Sending(w, deliverer[w].cur) /\ \A a : ~Sending(w, a)'
        /\ AnnouncementOut(deliverer[w].cur)
    BY <1>0, <1>1, <2>1 DEF Sending, AnnouncementOut, Holds
  <2>3. ASSUME NEW a \in Announcement
        PROVE  OnePlace(a)' /\ (AnnouncementOut(a)' => AnnouncementOut(a))
    <3>1. CASE a = deliverer[w].cur
      BY <1>1, <2>1, <2>2, <3>1 DEF ToldOnce, OnePlace, queueVars
    <3>2. CASE a # deliverer[w].cur
      BY <1>1, <2>1, <3>2 DEF ToldOnce, OnePlace, AnnouncementOut, queueVars
    <3> QED
      BY <3>1, <3>2
  <2> QED
    BY <1>1, <1>2, <2>1, <2>3 DEF ToldOnce
<1>6. CASE SettleRelease(w)
  <2>1. /\ UNCHANGED <<queue, emailed>> /\ dead' \in {dead, dead \cup {deliverer[w].cur}}
        /\ DelivererAt(w, "Idle", None)
        /\ Holds(w, deliverer[w].cur)
    BY <1>0, <1>6 DEF SettleRelease, DeadLetter, queueVars, Holds
  <2>2. ASSUME NEW a \in Announcement
        PROVE  OnePlace(a)' /\ (AnnouncementOut(a)' => AnnouncementOut(a))
    <3>1. OnePlace(a)'
      BY <1>1, <2>1, PlaceStays DEF ToldOnce
    <3>2. a # None
      BY <2>2, UntrackedAssumption
    <3>3. AnnouncementOut(a)' => AnnouncementOut(a)
      BY <1>1, <2>1, <3>2 DEF AnnouncementOut
    <3> QED
      BY <3>1, <3>3
  <2> QED
    BY <1>1, <1>2, <2>1, <2>2 DEF ToldOnce
<1>7. ~RestartDeliverer(w)
  BY <1>0 DEF RestartDeliverer
<1> QED
  BY <1>4, <1>5, <1>6, <1>7 DEF DeliveryStep, DeliveryNext

LEMMA RequestsAreFaultless ==
    ASSUME IInv, Stays, ~Fault, NothingFailed, \A a \in Announcement : ToldOnce(a),
           \/ \E i \in Subscription : SubscriptionNext(i) \/ EnsureStep(i)
           \/ GitHubNext
           \/ UNCHANGED vars
    PROVE  NothingFailed' /\ \A a \in Announcement : ToldOnce(a)'
<1>1. CASE \E i \in Subscription : EnsureStep(i)
  <2>1. UNCHANGED <<queueVars, deliveryVars, scanner>>
    BY <1>1 DEF EnsureStep, EnsureNext, GetByName, LookUp, CreateRepository
  <2>2. \A r \in Repo : Tracked(r) => seen'[r] = seen[r]
    BY <1>1 DEF EnsureStep, EnsureNext, GetByName, LookUp, CreateRepository, Create,
       repositoryVars, IInv, TypeOK, RepositoryTypeOK
  <2> QED
    BY <2>1, <2>2, OnlyRowsChange
<1>2. CASE UNCHANGED <<queueVars, deliveryVars, scanner, seen>>
  BY <1>2, OnlyRowsChange
<1> QED
  BY <1>1, <1>2 DEF SubscriptionNext, GitHubNext, PublishRelease, vars, repositoryVars

LEMMA RepeatStep == OneTracker /\ IInv /\ ScansAreFresh /\ RepeatInv /\ [Next]_vars => RepeatInv'
<1> SUFFICES ASSUME OneTracker, IInv, ScansAreFresh, RepeatInv, [Next]_vars
             PROVE  RepeatInv'
  OBVIOUS
<1>1. FaultNext => Fault
  BY DEF FaultNext, CrashTracker, DeliveryFault, CrashDeliverer, LoseDelivererChannel
<1>2. Fault \/ NoFault
  <2>1. ASSUME NEW i \in Subscription, SubscriptionNext(i) \/ EnsureStep(i)
        PROVE  Fault \/ NoFault
    BY <2>1 DEF SubscriptionNext, EnsureStep, EnsureNext, GetByName, LookUp, CreateRepository,
       EnsureFailed
  <2>2. ASSUME NEW t \in Tracker, ScannerStep(t)
        PROVE  Fault \/ NoFault
    BY <2>2 DEF ScannerStep, GetAll, LatestTag, ListActiveByRepository, PublishNotification,
       StoreTag, PublishOk, PublishErr
  <2>3. ASSUME NEW w \in Worker, DeliveryStep(w)
        PROVE  Fault \/ NoFault
    BY <2>3 DEF DeliveryStep, DeliveryNext, DeliverRelease, SendRelease, SettleRelease,
       RestartDeliverer
  <2> QED
    BY <1>1, <2>1, <2>2, <2>3 DEF Next, GitHubNext, vars, NoFault
<1>3. faults' <= MaxFaults /\ (faults' = MaxFaults => faults = MaxFaults /\ ~Fault)
  BY <1>2, BudgetAssumption DEF IInv, TypeOK, BrokerTypeOK, RepeatInv, Fault, NoFault
<1>4. ASSUME faults' = MaxFaults
      PROVE  NothingFailed' /\ \A a \in Announcement : ToldOnce(a)'
  <2>1. faults = MaxFaults /\ ~Fault /\ NothingFailed /\ \A a \in Announcement : ToldOnce(a)
    BY <1>3, <1>4 DEF RepeatInv
  <2>2. Stays
    BY WhatStays
  <2> QED
    BY <1>1, <2>1, <2>2, ScanIsFaultless, DelivererIsFaultless, RequestsAreFaultless DEF Next
<1> QED
  BY <1>3, <1>4 DEF RepeatInv

LEMMA RepeatInit == Init => RepeatInv
<1> SUFFICES ASSUME Init
             PROVE  RepeatInv
  OBVIOUS
<1>1. faults <= MaxFaults /\ NothingFailed
  BY BudgetAssumption DEF Init, BrokerInit, FaultsInit, ScannerInit, ScannerStarted,
     DeliveryInit, DelivererStarted, NothingFailed
<1>2. ASSUME NEW a \in Announcement
      PROVE  ToldOnce(a)
  <2>1. queue["Released"][a] = 0 /\ a \notin emailed /\ a \notin dead
    BY DEF Init, BrokerInit, DeliveryInit, Kind
  <2>2. \A w \in Worker : deliverer[w].cur # a /\ deliverer[w].pc = "Idle"
    BY UntrackedAssumption DEF Init, DeliveryInit, DelivererStarted
  <2> QED
    BY <2>1, <2>2 DEF ToldOnce, OnePlace, ToldInTurn, AnnouncementOut, Holds, Sending
<1> QED
  BY <1>1, <1>2 DEF RepeatInv

\* With one tracker, nobody is told twice of the same release, however many
\* workers there are and however requests, releases and scans interleave, before
\* something has failed.
THEOREM OneNoticeWithoutFault ==
    ASSUME OneTracker
    PROVE  Spec => []RepeatTakesFault
<1>1. IInv /\ ScansAreFresh /\ [Next]_vars => ScansAreFresh'
  BY FreshStep
<1>2. IInv /\ ScansAreFresh /\ RepeatInv /\ [Next]_vars => RepeatInv'
  BY RepeatStep
<1>3. IInv /\ ScansAreFresh /\ RepeatInv => RepeatTakesFault
  <2> SUFFICES ASSUME IInv, ScansAreFresh, RepeatInv, faults = MaxFaults, NEW a \in Announcement
               PROVE  /\ a \in emailed =>
                           queue["Released"][a] = 0 /\ \A w \in Worker : ~Sending(w, a)
                      /\ AnnouncementOut(a) => \A t \in Tracker : ~ToTell(t, a)
    BY DEF RepeatTakesFault
  <2>1. OnePlace(a) /\ ToldInTurn(a)
    BY DEF RepeatInv, ToldOnce
  <2> QED
    BY <2>1, NotToldAgain DEF OnePlace
<1> QED
  BY <1>1, <1>2, <1>3, FreshInit, RepeatInit, ReleaseInvariance, PTL DEF Spec
-----------------------------------------------------------------------------
(***************************************************************************)
(* Those who have left.  A release that appears later is neither at hand   *)
(* nor on any list for them, and no list they are on is read any more.     *)
(***************************************************************************)
Spared(i, n) ==
    /\ row[i] = "Absent" /\ key[i] # None
    /\ ~AnnouncementOut(<<i, n>>)
    /\ \A w \in Worker : deliverer[w].cur # <<i, n>>
    /\ \A t \in Tracker : ~ /\ scanner[t].pc = "Publishing" /\ scanner[t].tag = n
                            /\ i \in scanner[t].subs

LEMMA LeaversAreSpared ==
    ASSUME IInv, NEW i \in Subscription, NEW n \in 1..MaxTag,
           row[i] = "Absent", key[i] # None, latest[key[i][2]] < n
    PROVE  Spared(i, n)
<1> USE DEF IInv
<1>1. ~Announceable(<<i, n>>) /\ <<i, n>> \in Announcement /\ <<i, n>> # None
  <2>1. key[i] \in Key /\ key[i][2] \in Repo /\ latest[key[i][2]] \in Nat
    BY MaxTagAssumption DEF TypeOK, Key, RepositoryTypeOK, Tag
  <2>2. <<i, n>> \in Announcement
    BY MaxTagAssumption DEF Announcement, Tag
  <2> QED
    BY <2>1, <2>2, MaxTagAssumption, UntrackedAssumption DEF Announceable
<1>2. ~AnnouncementOut(<<i, n>>)
  BY <1>1 DEF AnnouncedWasConfirmed
<1>3. \A w \in Worker : deliverer[w].cur # <<i, n>>
  BY <1>1 DEF HeldIsAnnounceable
<1>4. ASSUME NEW t \in Tracker, scanner[t].pc = "Publishing", scanner[t].tag = n, i \in scanner[t].subs
      PROVE  FALSE
  <2>1. Announcing(t) /\ key[i][2] = scanner[t].repo /\ key[i][2] \in Repo
    BY <1>4 DEF Announcing, ScansTell, TypeOK, Key
  <2> QED
    BY <1>4, <2>1, MaxTagAssumption DEF TagsAreReleases, TypeOK, RepositoryTypeOK, Tag
<1> QED
  BY <1>2, <1>3, <1>4 DEF Spared

\* One lemma per process that could disturb it.
LEMMA DeliverySpares ==
    ASSUME IInv, NEW i \in Subscription, NEW n \in 1..MaxTag, Spared(i, n), NEW w \in Worker,
           DeliveryNext(w) \/ DeliveryFault(w),
           UNCHANGED <<repositoryVars, ensure, scanner, subscriptionVars>>
    PROVE  Spared(i, n)'
<1> USE DEF IInv, AnnouncementOut, Holds, Spared
<1>0. /\ queue \in [Kind -> [Announcement -> Nat]] /\ "Released" \in Kind
      /\ queue["Released"] \in [Announcement -> Nat]
      /\ deliverer \in [Worker -> DelivererState]
      /\ <<i, n>> \in Announcement /\ <<i, n>> # None
      /\ UNCHANGED <<row, key, scanner>>
  BY MaxTagAssumption, UntrackedAssumption DEF TypeOK, BrokerTypeOK, DeliveryTypeOK, Kind,
     Announcement, Tag, subscriptionVars
<1>1. CASE DeliverRelease(w)
  <2>1. PICK a \in Announcement : Deliver("Released", a) /\ DelivererAt(w, "Sending", a)
    BY <1>1 DEF DeliverRelease
  <2>2. a # <<i, n>> /\ UNCHANGED <<dead, emailed>>
    BY <1>0, <1>1, <2>1 DEF DeliverRelease, Deliver
  <2>3. queue'["Released"][<<i, n>>] = queue["Released"][<<i, n>>]
    BY <1>0, <2>1, <2>2 DEF Deliver
  <2>4. \A v \in Worker : deliverer'[v].cur # <<i, n>>
    BY <1>0, <2>1, <2>2 DEF DelivererAt
  <2> QED
    BY <1>0, <2>2, <2>3, <2>4
<1>2. CASE SendRelease(w)
  BY <1>0, <1>2 DEF SendRelease, DelivererAt, queueVars
<1>3. CASE SettleRelease(w)
  BY <1>0, <1>3 DEF SettleRelease, DelivererAt, DeadLetter, queueVars
<1>4. CASE CrashDeliverer(w)
  BY <1>0, <1>4 DEF CrashDeliverer, ReturnRelease, Requeue, Enqueue, queueVars, DelivererStarted
<1>5. CASE LoseDelivererChannel(w)
  BY <1>0, <1>5 DEF LoseDelivererChannel, ReturnRelease, Requeue, Enqueue, queueVars,
     DelivererState
<1>6. CASE RestartDeliverer(w)
  BY <1>0, <1>6 DEF RestartDeliverer, DelivererStarted, queueVars
<1> QED
  BY <1>1, <1>2, <1>3, <1>4, <1>5, <1>6 DEF DeliveryNext, DeliveryFault

LEMMA ScannerSpares ==
    ASSUME IInv, NEW i \in Subscription, NEW n \in 1..MaxTag, Spared(i, n), NEW t \in Tracker,
           ScannerStep(t) \/ (CrashTracker(t) /\ UNCHANGED <<ensure, deliveryVars, subscriptionVars>>)
    PROVE  Spared(i, n)'
<1> USE DEF IInv
<1>0. /\ scanner \in [Tracker -> ScannerState]
      /\ queue \in [Kind -> [Announcement -> Nat]] /\ "Released" \in Kind
      /\ <<i, n>> \in Announcement
      /\ UNCHANGED <<row, key, deliverer, emailed>>
  BY MaxTagAssumption DEF TypeOK, BrokerTypeOK, Kind, ScannerTypeOK, Announcement, Tag,
     subscriptionVars, deliveryVars, ScannerStep
<1>1. ASSUME \/ scanner'[t].pc # "Publishing"
             \/ scanner'[t].subs = ActiveSubscribers(scanner[t].repo)
             \/ /\ scanner[t].pc = "Publishing" /\ scanner'[t].tag = scanner[t].tag
                /\ scanner'[t].subs \subseteq scanner[t].subs,
             \A s \in Tracker : s # t => scanner'[s] = scanner[s]
      PROVE  \A s \in Tracker : ~ /\ scanner'[s].pc = "Publishing" /\ scanner'[s].tag = n
                                  /\ i \in scanner'[s].subs
  BY <1>1 DEF Spared, ActiveSubscribers
<1>2. ASSUME UNCHANGED queueVars \/ \E j \in scanner[t].subs : scanner[t].pc = "Publishing" /\
               /\ \/ PublishOk("Released", <<j, scanner[t].tag>>, scanner[t].publisher)
                  \/ PublishErr("Released", <<j, scanner[t].tag>>, scanner[t].publisher, FALSE)
      PROVE  ~AnnouncementOut(<<i, n>>)'
  <2>1. \A j \in scanner[t].subs : scanner[t].pc = "Publishing" =>
          <<j, scanner[t].tag>> # <<i, n>>
    BY DEF Spared
  <2>2. dead' = dead /\ queue'["Released"][<<i, n>>] = queue["Released"][<<i, n>>]
    BY <1>0, <1>2, <2>1 DEF queueVars, PublishOk, PublishErr, Enqueue
  <2> QED
    BY <1>0, <2>2 DEF Spared, AnnouncementOut, Holds
<1>3. CASE PublishNotification(t)
  <2>1. PICK j \in scanner[t].subs :
          LET a == <<j, scanner[t].tag>>
          IN  \/ /\ PublishOk("Released", a, scanner[t].publisher)
                 /\ ScannerAt(t, "Publishing", scanner[t].todo, scanner[t].repo, scanner[t].tag,
                              scanner[t].subs \ {j}, scanner[t].publisher)
              \/ /\ PublishErr("Released", a, scanner[t].publisher, FALSE)
                 /\ \E after \in AfterPublishErr(scanner[t].publisher) :
                      ScanNext(t, scanner[t].todo, after)
    BY <1>3 DEF PublishNotification
  <2>2. scanner[t].pc = "Publishing"
    BY <1>3 DEF PublishNotification
  <2>3. ~AnnouncementOut(<<i, n>>)'
    BY <1>2, <2>1, <2>2
  <2>4. /\ \A s \in Tracker : s # t => scanner'[s] = scanner[s]
        /\ \/ scanner'[t].pc # "Publishing"
           \/ /\ scanner'[t].tag = scanner[t].tag
              /\ scanner'[t].subs \subseteq scanner[t].subs
    <3>1. CASE ScannerAt(t, "Publishing", scanner[t].todo, scanner[t].repo, scanner[t].tag,
                         scanner[t].subs \ {j}, scanner[t].publisher)
      BY <1>0, <3>1 DEF ScannerAt
    <3>2. CASE \E after : ScanNext(t, scanner[t].todo, after)
      BY <1>0, <3>2 DEF ScanNext, ScannerAt
    <3> QED
      BY <2>1, <3>1, <3>2
  <2> QED
    BY <1>0, <1>1, <2>2, <2>3, <2>4 DEF Spared
<1>4. CASE UNCHANGED queueVars /\ ~PublishNotification(t)
  <2>1. ~AnnouncementOut(<<i, n>>)'
    BY <1>2, <1>4
  <2>2. /\ \A s \in Tracker : s # t => scanner'[s] = scanner[s]
        /\ \/ scanner'[t].pc # "Publishing"
           \/ scanner'[t].subs = ActiveSubscribers(scanner[t].repo)
    BY <1>0, <1>4 DEF ScannerStep, GetAll, LatestTag, ListActiveByRepository, StoreTag,
       CrashTracker, ScannerStarted, ScannerAt, ScanNext
  <2> QED
    BY <1>0, <1>1, <2>1, <2>2 DEF Spared
<1> QED
  BY <1>3, <1>4 DEF ScannerStep, GetAll, LatestTag, ListActiveByRepository, StoreTag, CrashTracker

LEMMA SparedStays ==
    ASSUME IInv, [Next]_vars, NEW i \in Subscription, NEW n \in 1..MaxTag, Spared(i, n)
    PROVE  Spared(i, n)'
<1>1. CASE UNCHANGED <<queueVars, scanner, deliveryVars, subscriptionVars>>
  BY <1>1 DEF Spared, AnnouncementOut, Holds, queueVars, deliveryVars, subscriptionVars
<1>2. CASE \E j \in Subscription : SubscriptionNext(j)
  <2>1. row'[i] = row[i] /\ key'[i] = key[i]
    BY <1>2 DEF IInv, TypeOK, Spared, SubscriptionNext, Subscribe, Confirm, Leave, Rows!Insert,
       Rows!Activate, Rows!Delete
  <2> QED
    BY <1>2, <2>1 DEF SubscriptionNext, Spared, AnnouncementOut, Holds, queueVars, deliveryVars
<1>3. CASE \E j \in Subscription : EnsureStep(j)
  BY <1>1, <1>3 DEF EnsureStep, EnsureNext, GetByName, LookUp, CreateRepository
<1> QED
  BY <1>1, <1>2, <1>3, DeliverySpares, ScannerSpares DEF Next, DeliveryStep, GitHubNext,
     FaultNext, vars

\* Whoever leaves hears of no release that appears afterwards, whatever list a
\* scan still holds.
THEOREM LeaversAreLeftAlone == Spec => LeaversHearNoLaterRelease
<1>1. ASSUME NEW i \in Subscription, NEW n \in 1..MaxTag
      PROVE  Spec => []((row[i] = "Absent" /\ key[i] # None /\ latest[key[i][2]] < n)
                          => []~AnnouncementOut(<<i, n>>))
  <2>1. IInv /\ row[i] = "Absent" /\ key[i] # None /\ latest[key[i][2]] < n => Spared(i, n)
    BY LeaversAreSpared
  <2>2. IInv /\ [Next]_vars /\ Spared(i, n) => Spared(i, n)'
    BY SparedStays
  <2>3. Spared(i, n) => ~AnnouncementOut(<<i, n>>)
    BY DEF Spared
  <2> QED
    BY <2>1, <2>2, <2>3, ReleaseInvariance, PTL DEF Spec
<1> QED
  BY <1>1 DEF LeaversHearNoLaterRelease
=============================================================================
