--------------------------- MODULE ReleaseScanner ---------------------------
(***************************************************************************)
(* ScanRepositories.Execute, run by the scheduler of a release tracker:    *)
(* read all repositories, and for each one ask GitHub for the latest tag,  *)
(* ask the subscription service who is subscribed, publish one message per *)
(* subscriber, and only then store the tag.  One process never runs two    *)
(* scans at once; nothing keeps two processes from it.                     *)
(***************************************************************************)
EXTENDS RepositoryStore

VARIABLE scanner

\* todo: the rows read by GetAll and not scanned yet, with the tag they had.
\* repo and tag: what is being announced, to the subscribers left in subs.
ScannerState ==
    [pc : {"Idle", "Scanning", "Listing", "Publishing"},
     todo : SUBSET (Repo \X Tag), repo : Repo \cup {None}, tag : Tag,
     subs : SUBSET Subscription, publisher : Publisher]

ScannerStarted ==
    [pc |-> "Idle", todo |-> {}, repo |-> None, tag |-> 0, subs |-> {}, publisher |-> "Good"]

ScannerAt(t, pc, todo, repo, tag, subs, publisher) ==
    scanner' = [scanner EXCEPT ![t] =
                  [pc |-> pc, todo |-> todo, repo |-> repo, tag |-> tag, subs |-> subs,
                   publisher |-> publisher]]

ScannerTypeOK == scanner \in [Tracker -> ScannerState]

ScannerInit == scanner = [t \in Tracker |-> ScannerStarted]

\* On to the next repository, or to the next tick.
ScanNext(t, todo, publisher) ==
    ScannerAt(t, IF todo = {} THEN "Idle" ELSE "Scanning", todo, None, 0, {}, publisher)

\* A failed or empty SELECT ends the scan and changes nothing.
GetAll(t) ==
    /\ scanner[t].pc = "Idle"
    /\ \E r \in Repo : Tracked(r)
    /\ ScannerAt(t, "Scanning", {<<r, seen[r]>> : r \in {q \in Repo : Tracked(q)}},
                 None, 0, {}, scanner[t].publisher)
    /\ NoFault
    /\ UNCHANGED <<repositoryVars, queueVars>>

\* The answer of GitHub is compared with the tag GetAll read, not with the one
\* the row has now.  No release is an error that skips the repository, too many
\* requests is one that ends the scan.
LatestTag(t) ==
    /\ scanner[t].pc = "Scanning"
    /\ \E known \in scanner[t].todo :
         LET r    == known[1]
             rest == scanner[t].todo \ {known}
         IN  \/ /\ latest[r] \in {0, known[2]}
                /\ ScanNext(t, rest, scanner[t].publisher)
                /\ NoFault
             \/ /\ latest[r] \notin {0, known[2]}
                /\ ScannerAt(t, "Listing", rest, r, latest[r], {}, scanner[t].publisher)
                /\ NoFault
             \/ /\ \E left \in {rest, {}} : ScanNext(t, left, scanner[t].publisher)
                /\ Fault
    /\ UNCHANGED <<repositoryVars, queueVars>>

\* active: the subscriptions the subscription service answers.
ListActiveByRepository(t, active) ==
    /\ scanner[t].pc = "Listing"
    /\ \/ /\ ScannerAt(t, "Publishing", scanner[t].todo, scanner[t].repo, scanner[t].tag,
                       active, scanner[t].publisher)
          /\ NoFault
       \/ ScanNext(t, scanner[t].todo, scanner[t].publisher) /\ Fault
    /\ UNCHANGED <<repositoryVars, queueVars>>

\* Mutant of PublishNotification: a failed publish is logged and passed over.
PublishNotificationAnyway(t) ==
    /\ scanner[t].pc = "Publishing"
    /\ \E i \in scanner[t].subs :
         LET a == <<i, scanner[t].tag>>
         IN  /\ \/ PublishOk("Released", a, scanner[t].publisher)
                \/ PublishErr("Released", a, scanner[t].publisher, FALSE)
             /\ ScannerAt(t, "Publishing", scanner[t].todo, scanner[t].repo, scanner[t].tag,
                          scanner[t].subs \ {i}, scanner[t].publisher)
    /\ UNCHANGED repositoryVars

\* An error leaves the rest of the subscribers to the next scan.
PublishNotification(t) ==
    /\ scanner[t].pc = "Publishing"
    /\ \E i \in scanner[t].subs :
         LET a == <<i, scanner[t].tag>>
         IN  \/ /\ PublishOk("Released", a, scanner[t].publisher)
                /\ ScannerAt(t, "Publishing", scanner[t].todo, scanner[t].repo, scanner[t].tag,
                             scanner[t].subs \ {i}, scanner[t].publisher)
             \/ /\ PublishErr("Released", a, scanner[t].publisher, FALSE)
                /\ \E after \in AfterPublishErr(scanner[t].publisher) :
                     ScanNext(t, scanner[t].todo, after)
    /\ UNCHANGED repositoryVars

\* The error of an UPDATE is only logged.
StoreTag(t) ==
    /\ scanner[t].pc = "Publishing" /\ scanner[t].subs = {}
    /\ \/ UpdateTag(scanner[t].repo, scanner[t].tag) /\ NoFault
       \/ UNCHANGED repositoryVars /\ Fault
    /\ ScanNext(t, scanner[t].todo, scanner[t].publisher)
    /\ UNCHANGED queueVars

\* The process dies or is stopped, and is started again.
CrashTracker(t) ==
    /\ scanner' = [scanner EXCEPT ![t] = ScannerStarted]
    /\ Fault
    /\ UNCHANGED <<repositoryVars, queueVars>>
=============================================================================
