------------------------ MODULE SubscriptionRequests ------------------------
(***************************************************************************)
(* The calls users and the release tracker make to the subscription        *)
(* service, over HTTP and gRPC, from the handler through the use case to   *)
(* its statements and back to the status they are answered with.  Calls    *)
(* run concurrently and nothing is locked between their statements.        *)
(*                                                                         *)
(* A call that subscribes creates at most one row, so the row, its token   *)
(* and the call have the same name.                                        *)
(***************************************************************************)
EXTENDS Faults

CONSTANTS Request, Email, Repo,
          None     \* a missing or malformed argument; no key

ASSUME NoneAssumption == None \notin Request \cup Email \cup Repo \cup Email \X Repo

VARIABLES subscribers,  \* emails in the table of subscribers
          tracked,      \* repositories in the release tracker's table
          row, key,     \* the table of subscriptions, as in SubscriptionRows
          confirmed,    \* rows that have been active (history)
          pc,           \* what a call does next
          call,         \* its operation, transport and arguments
          todo, shown,  \* rows a list has read, and those it has described
          lasting,      \* rows active ever since a list was asked for (history)
          answer        \* the status it was answered with

rowVars == <<row, key, confirmed>>

storeVars == <<subscribers, tracked, rowVars>>

listVars == <<todo, shown, lasting>>

callVars == <<pc, call, listVars, answer>>

vars == <<storeVars, callVars, faults>>

Key == Email \X Repo

Transport == {"HTTP", "gRPC"}

Operation == {"None", "Subscribe", "Confirm", "Unsubscribe", "List", "ListByRepository"}

Location ==
    {"New", "Registering", "Creating", "Tracking", "Starting", "Confirming", "Deleting",
     "Reading", "Describing", "Answered"}

\* The gRPC codes; HTTP has a status of the same meaning for each.
Code ==
    {"OK", "InvalidArgument", "NotFound", "ResourceExhausted", "AlreadyExists", "Internal"}

\* "known": the email was a subscriber's when the call arrived (history).
Call ==
    [op : Operation, via : Transport, email : Email \cup {None}, repo : Repo \cup {None},
     token : Request \cup {None}, known : BOOLEAN]

Args(op, via, e, g, t, known) ==
    [op |-> op, via |-> via, email |-> e, repo |-> g, token |-> t, known |-> known]

NoCall == Args("None", "HTTP", None, None, None, FALSE)

TypeOK ==
    /\ subscribers \subseteq Email
    /\ tracked \subseteq Repo
    /\ row \in [Request -> {"Absent", "Pending", "Active"}]
    /\ key \in [Request -> Key \cup {None}]
    /\ confirmed \subseteq Request
    /\ pc \in [Request -> Location]
    /\ call \in [Request -> Call]
    /\ todo \in [Request -> SUBSET Request]
    /\ shown \in [Request -> SUBSET Request]
    /\ lasting \in [Request -> SUBSET Request]
    /\ answer \in [Request -> Code \cup {"None"}]
    /\ faults \in 0..MaxFaults

Init ==
    /\ subscribers = {}
    /\ tracked = {}
    /\ row = [r \in Request |-> "Absent"]
    /\ key = [r \in Request |-> None]
    /\ confirmed = {}
    /\ pc = [r \in Request |-> "New"]
    /\ call = [r \in Request |-> NoCall]
    /\ todo = [r \in Request |-> {}]
    /\ shown = [r \in Request |-> {}]
    /\ lasting = [r \in Request |-> {}]
    /\ answer = [r \in Request |-> "None"]
    /\ FaultsInit

-----------------------------------------------------------------------------
(* The tables *)

HasRow(i) == row[i] # "Absent"

Active(i) == row[i] = "Active"

KeyOf(r) == <<call[r].email, call[r].repo>>

KeyTaken(k) == \E i \in Request : HasRow(i) /\ key[i] = k

\* Mutant of ActiveByEmail: the status is not asked for.
AllByEmail(e) == {i \in Request : HasRow(i) /\ key[i][1] = e}

\* SELECT ... WHERE email = $1 AND subscription_status = Active.
ActiveByEmail(e) == {i \in Request : Active(i) /\ key[i][1] = e}

\* SELECT ... WHERE repository_id = $1 AND subscription_status = Active.
ActiveByRepository(g) == {i \in Request : Active(i) /\ key[i][2] = g}

\* No row that leaves is active any more.
ForgetLasting(i) ==
    /\ lasting' = [r \in Request |-> lasting[r] \ {i}]
    /\ UNCHANGED <<todo, shown>>

SetActive(i) ==
    /\ row' = [row EXCEPT ![i] = "Active"]
    /\ confirmed' = confirmed \cup {i}
    /\ UNCHANGED <<key, listVars>>

Delete(i) ==
    /\ row' = [row EXCEPT ![i] = "Absent"]
    /\ ForgetLasting(i)
    /\ UNCHANGED <<key, confirmed>>

Insert(r) ==
    /\ row' = [row EXCEPT ![r] = "Pending"]
    /\ key' = [key EXCEPT ![r] = KeyOf(r)]
    /\ UNCHANGED confirmed

-----------------------------------------------------------------------------
(* Handlers *)

\* The status an outcome of the use case is answered with.  HTTP has no case
\* for an unknown token when it unsubscribes, and neither transport has one
\* for any error of a list.
StatusOf(r, outcome) ==
    IF \/ call[r].op = "Unsubscribe" /\ call[r].via = "HTTP" /\ outcome # "OK"
       \/ call[r].op \in {"List", "ListByRepository"} /\ outcome # "OK"
      THEN "Internal"
      ELSE outcome

Answer(r, outcome) ==
    /\ pc' = [pc EXCEPT ![r] = "Answered"]
    /\ answer' = [answer EXCEPT ![r] = StatusOf(r, outcome)]

Go(r, location) ==
    /\ pc' = [pc EXCEPT ![r] = location]
    /\ UNCHANGED answer

\* The handler has its arguments: it refuses them or calls the use case.
Receive(r, args, refused, location) ==
    /\ pc[r] = "New"
    /\ call' = [call EXCEPT ![r] = args]
    /\ IF refused
         THEN /\ pc' = [pc EXCEPT ![r] = "Answered"]
              /\ answer' = [answer EXCEPT ![r] = "InvalidArgument"]
         ELSE Go(r, location)
    /\ NoFault
    /\ UNCHANGED storeVars

\* SubscribeRequest.Validate refuses a malformed email or repository.
ReceiveSubscribe(r) ==
    /\ \E via \in Transport, e \in Email \cup {None}, g \in Repo \cup {None} :
         Receive(r, Args("Subscribe", via, e, g, None, e \in subscribers),
                 None \in {e, g}, "Registering")
    /\ UNCHANGED listVars

\* A token is known from the email only; one that was never issued finds no
\* row, like one whose row has gone.
ReceiveToken(r) ==
    /\ \E via \in Transport, t \in {i \in Request : key[i] # None} \cup {None} :
         \/ Receive(r, Args("Confirm", via, None, None, t, FALSE),
                    t = None, "Confirming")
         \/ Receive(r, Args("Unsubscribe", via, None, None, t, FALSE),
                    t = None, "Deleting")
    /\ UNCHANGED listVars

\* Only HTTP asks for an email; gRPC lists the subscriptions of nobody.
ReceiveList(r) ==
    \E via \in Transport, e \in Email \cup {None} :
        /\ Receive(r, Args("List", via, e, None, None, FALSE),
                   e = None /\ via = "HTTP", "Reading")
        /\ lasting' = [lasting EXCEPT ![r] = ActiveByEmail(e)]
        /\ UNCHANGED <<todo, shown>>

ReceiveListByRepository(r) ==
    \E via \in Transport, g \in Repo \cup {None} :
        /\ Receive(r, Args("ListByRepository", via, None, g, None, FALSE), g = None, "Reading")
        /\ lasting' = [lasting EXCEPT ![r] = ActiveByRepository(g)]
        /\ UNCHANGED <<todo, shown>>

-----------------------------------------------------------------------------
(* SubscribeToRepository *)

\* A statement or call fails, or its context is cancelled.
Fails(r) == Answer(r, "Internal") /\ Fault

GetByEmail(r) ==
    /\ pc[r] = "Registering"
    /\ \/ Go(r, IF call[r].email \in subscribers THEN "Tracking" ELSE "Creating") /\ NoFault
       \/ Fails(r)
    /\ UNCHANGED <<storeVars, call, listVars>>

\* The UNIQUE email refuses the second INSERT of two calls that both found
\* nothing, and the use case has no case for it.
CreateSubscriber(r) ==
    /\ pc[r] = "Creating"
    /\ \/ /\ call[r].email \in subscribers
          /\ Answer(r, "Internal") /\ NoFault
          /\ UNCHANGED subscribers
       \/ /\ call[r].email \notin subscribers
          /\ subscribers' = subscribers \cup {call[r].email}
          /\ Go(r, "Tracking") /\ NoFault
       \/ /\ subscribers' = subscribers \cup {call[r].email} \/ UNCHANGED subscribers
          /\ Fails(r)
    /\ UNCHANGED <<tracked, rowVars, call, listVars>>

\* Mutant of EnsureTracked: an error of the tracker is not the caller's.
EnsureTrackedIgnored(r) ==
    /\ pc[r] = "Tracking"
    /\ \/ tracked' = tracked \cup {call[r].repo}
       \/ UNCHANGED tracked
    /\ Go(r, "Starting") /\ NoFault
    /\ UNCHANGED <<subscribers, rowVars, call, listVars>>

\* The tracker asks GitHub about a repository it has no row of, and GitHub may
\* not know it or refuse to tell.  A lost answer may follow the INSERT.
EnsureTracked(r) ==
    /\ pc[r] = "Tracking"
    /\ \/ /\ tracked' = tracked \cup {call[r].repo}
          /\ Go(r, "Starting") /\ NoFault
       \/ /\ call[r].repo \notin tracked
          /\ \E outcome \in {"NotFound", "ResourceExhausted"} : Answer(r, outcome)
          /\ NoFault
          /\ UNCHANGED tracked
       \/ /\ tracked' = tracked \cup {call[r].repo} \/ UNCHANGED tracked
          /\ Fails(r)
    /\ UNCHANGED <<subscribers, rowVars, call, listVars>>

\* Mutant of StartSubscriptionConfirmation: a conflict is an error like others.
StartWithoutConflict(r) ==
    /\ pc[r] = "Starting"
    /\ IF KeyTaken(KeyOf(r))
         THEN Answer(r, "Internal") /\ NoFault /\ UNCHANGED rowVars
         ELSE Insert(r) /\ Answer(r, "OK") /\ NoFault
    /\ UNCHANGED <<subscribers, tracked, call, listVars>>

\* Mutant of StartSubscriptionConfirmation: a pending row does not conflict.
StartBesidePending(r) ==
    /\ pc[r] = "Starting"
    /\ IF \E i \in Request : Active(i) /\ key[i] = KeyOf(r)
         THEN Answer(r, "AlreadyExists") /\ NoFault /\ UNCHANGED rowVars
         ELSE Insert(r) /\ Answer(r, "OK") /\ NoFault
    /\ UNCHANGED <<subscribers, tracked, call, listVars>>

\* Mutant of StartSubscriptionConfirmation: the conflict is found, and no error.
StartQuietly(r) ==
    /\ pc[r] = "Starting"
    /\ IF KeyTaken(KeyOf(r)) THEN UNCHANGED rowVars ELSE Insert(r)
    /\ Answer(r, "OK") /\ NoFault
    /\ UNCHANGED <<subscribers, tracked, call, listVars>>

\* The transaction: a key that has a row is refused.  One that fails may have
\* been committed.
StartSubscriptionConfirmation(r) ==
    /\ pc[r] = "Starting"
    /\ \/ /\ KeyTaken(KeyOf(r))
          /\ Answer(r, "AlreadyExists") /\ NoFault
          /\ UNCHANGED rowVars
       \/ /\ ~KeyTaken(KeyOf(r))
          /\ Insert(r)
          /\ Answer(r, "OK") /\ NoFault
       \/ /\ (~KeyTaken(KeyOf(r)) /\ Insert(r)) \/ UNCHANGED rowVars
          /\ Fails(r)
    /\ UNCHANGED <<subscribers, tracked, call, listVars>>

-----------------------------------------------------------------------------
(* ConfirmSubscription, UnsubscribeFromRepository *)

\* One UPDATE; the number of rows it changed tells an unknown token.
Activate(r) ==
    /\ pc[r] = "Confirming"
    /\ LET i == call[r].token
       IN  \/ HasRow(i) /\ SetActive(i) /\ Answer(r, "OK") /\ NoFault
           \/ /\ ~HasRow(i)
              /\ Answer(r, "NotFound") /\ NoFault
              /\ UNCHANGED <<rowVars, listVars>>
           \/ /\ (HasRow(i) /\ SetActive(i)) \/ UNCHANGED <<rowVars, listVars>>
              /\ Fails(r)
    /\ UNCHANGED <<subscribers, tracked, call>>

\* Mutant of DeleteByToken: nobody looks at the number of rows.
DeleteUnchecked(r) ==
    /\ pc[r] = "Deleting"
    /\ Delete(call[r].token)
    /\ Answer(r, "OK") /\ NoFault
    /\ UNCHANGED <<subscribers, tracked, call>>

\* One DELETE.
DeleteByToken(r) ==
    /\ pc[r] = "Deleting"
    /\ LET i == call[r].token
       IN  \/ HasRow(i) /\ Delete(i) /\ Answer(r, "OK") /\ NoFault
           \/ /\ ~HasRow(i)
              /\ Answer(r, "NotFound") /\ NoFault
              /\ UNCHANGED <<rowVars, listVars>>
           \/ /\ (HasRow(i) /\ Delete(i)) \/ UNCHANGED <<rowVars, listVars>>
              /\ Fails(r)
    /\ UNCHANGED <<subscribers, tracked, call>>

-----------------------------------------------------------------------------
(* ListSubscriptions, ListActiveSubscriptionsByRepository *)

\* One SELECT; the repositories of a user's list are looked up afterwards.
ReadActive(r) ==
    /\ pc[r] = "Reading"
    /\ \/ /\ call[r].op = "List"
          /\ todo' = [todo EXCEPT ![r] = ActiveByEmail(call[r].email)]
          /\ Go(r, "Describing") /\ NoFault
          /\ UNCHANGED shown
       \/ /\ call[r].op = "ListByRepository"
          /\ shown' = [shown EXCEPT ![r] = ActiveByRepository(call[r].repo)]
          /\ Answer(r, "OK") /\ NoFault
          /\ UNCHANGED todo
       \/ Fails(r) /\ UNCHANGED <<todo, shown>>
    /\ UNCHANGED <<storeVars, call, lasting>>

\* Mutant of GetRepository: a row whose repository is not to be had is left out.
GetRepositoryOrSkip(r) ==
    /\ pc[r] = "Describing"
    /\ \E i \in todo[r] :
         /\ todo' = [todo EXCEPT ![r] = @ \ {i}]
         /\ \/ shown' = [shown EXCEPT ![r] = @ \cup {i}] /\ NoFault
            \/ UNCHANGED shown /\ Fault
    /\ UNCHANGED <<storeVars, pc, answer, call, lasting>>

\* The release tracker describes one row after the other; one it cannot
\* describe is the end of the list.
GetRepository(r) ==
    /\ pc[r] = "Describing"
    /\ \E i \in todo[r] :
         \/ /\ key[i][2] \in tracked
            /\ todo' = [todo EXCEPT ![r] = @ \ {i}]
            /\ shown' = [shown EXCEPT ![r] = @ \cup {i}]
            /\ NoFault
            /\ UNCHANGED <<pc, answer>>
         \/ /\ key[i][2] \notin tracked
            /\ Answer(r, "NotFound") /\ NoFault
            /\ UNCHANGED <<todo, shown>>
         \/ Fails(r) /\ UNCHANGED <<todo, shown>>
    /\ UNCHANGED <<storeVars, call, lasting>>

EndOfList(r) ==
    /\ pc[r] = "Describing" /\ todo[r] = {}
    /\ Answer(r, "OK")
    /\ NoFault
    /\ UNCHANGED <<storeVars, call, listVars>>

-----------------------------------------------------------------------------

\* The confirmation workflow compensates a subscription.
Compensate(i) ==
    /\ HasRow(i)
    /\ Delete(i)
    /\ NoFault
    /\ UNCHANGED <<subscribers, tracked, pc, call, answer>>

Receives(r) ==
    \/ ReceiveSubscribe(r)
    \/ ReceiveToken(r)
    \/ ReceiveList(r)
    \/ ReceiveListByRepository(r)

Handles(r) ==
    \/ GetByEmail(r)
    \/ CreateSubscriber(r)
    \/ EnsureTracked(r)
    \/ StartSubscriptionConfirmation(r)
    \/ Activate(r)
    \/ DeleteByToken(r)
    \/ ReadActive(r)
    \/ GetRepository(r)
    \/ EndOfList(r)

Next == \E r \in Request : Receives(r) \/ Handles(r) \/ Compensate(r)

Spec == Init /\ [][Next]_vars

-----------------------------------------------------------------------------
(* Safety *)

Answered(r, op, code) == call[r].op = op /\ answer[r] = code

\* Nothing but the order of the calls keeps a row from naming a subscriber or
\* a repository that does not exist: the tables of repositories are another
\* service's, without a foreign key.
RowsHaveParents ==
    \A i \in Request : key[i] # None => key[i][1] \in subscribers /\ key[i][2] \in tracked

\* Who is told that they subscribed has had a row of their own, who is refused
\* has not: no answer is another call's.
SubscribeIsTruthful ==
    \A r \in Request :
        /\ Answered(r, "Subscribe", "OK") => key[r] = KeyOf(r)
        /\ answer[r] \notin {"None", "OK", "Internal"} => key[r] = None

\* Of any number of calls with the same token, by link, by repeated click or
\* by both transports, one is told that it unsubscribed.
OneUnsubscribes ==
    \A q, r \in Request :
        /\ Answered(q, "Unsubscribe", "OK") /\ Answered(r, "Unsubscribe", "OK")
        /\ call[q].token = call[r].token
        => q = r

\* A list shows everything that was active all along, in spite of the calls it
\* takes, and nothing that was never confirmed.
ListIsComplete ==
    \A r \in Request :
        answer[r] = "OK" => lasting[r] \subseteq shown[r]

ListedWereConfirmed ==
    \A r \in Request : todo[r] \cup shown[r] \subseteq confirmed

\* Without a fault, only a new subscriber's call fails: it lost the race for
\* its email, and a retry cannot lose it again.  (Unsubscribing over HTTP with
\* an unknown token is answered as a failure, too.)
RetryCannotLoseAgain ==
    faults = MaxFaults =>
        \A r \in Request : answer[r] = "Internal" =>
            \/ call[r].op = "Subscribe" /\ ~call[r].known /\ call[r].email \in subscribers
            \/ call[r].op = "Unsubscribe" /\ call[r].via = "HTTP"

-----------------------------------------------------------------------------
(* The abstract specification *)

Rows == INSTANCE SubscriptionRows WITH Id <- Request

\* However calls interleave, the table does what the rest of the system relies
\* on: one row per subscriber and repository.
RowsSpec == Rows!Spec

-----------------------------------------------------------------------------
(* The inductive invariant *)

\* What a call is about to do fits its operation and its arguments.
CallsFit ==
    \A r \in Request :
        /\ pc[r] # "Answered" => answer[r] = "None" /\ key[r] = None
        /\ pc[r] = "New" => call[r].op = "None"
        /\ pc[r] \in {"Registering", "Creating", "Tracking", "Starting"} =>
             call[r].op = "Subscribe" /\ KeyOf(r) \in Key
        /\ pc[r] = "Confirming" => call[r].op = "Confirm"
        /\ pc[r] = "Deleting" => call[r].op = "Unsubscribe"
        /\ pc[r] \in {"Confirming", "Deleting"} =>
             call[r].token \in Request /\ key[call[r].token] # None
        /\ pc[r] = "Reading" => call[r].op \in {"List", "ListByRepository"}
        /\ pc[r] = "Describing" => call[r].op = "List"

\* What a subscribing call has found or made is still there.
ParentsStay ==
    \A r \in Request :
        /\ call[r].known => call[r].email \in subscribers
        /\ pc[r] = "Creating" => ~call[r].known
        /\ pc[r] \in {"Tracking", "Starting"} => call[r].email \in subscribers
        /\ pc[r] = "Starting" => call[r].repo \in tracked

RowsFit ==
    \A i \in Request :
        /\ HasRow(i) \/ i \in confirmed => key[i] # None
        /\ Active(i) => i \in confirmed

\* A row somebody unsubscribed has gone for good.
UnsubscribedIsGone ==
    \A r \in Request :
        Answered(r, "Unsubscribe", "OK") =>
            LET i == call[r].token
            IN  i \in Request /\ key[i] # None /\ ~HasRow(i)

\* A list under way has, or is going to read, what was active all along.
ListsFit ==
    \A r \in Request :
        /\ pc[r] \notin {"Reading", "Describing", "Answered"} => lasting[r] = {}
        /\ pc[r] = "Reading" /\ call[r].op = "List" =>
             lasting[r] \subseteq ActiveByEmail(call[r].email)
        /\ pc[r] = "Reading" /\ call[r].op = "ListByRepository" =>
             lasting[r] \subseteq ActiveByRepository(call[r].repo)
        /\ pc[r] = "Describing" => lasting[r] \subseteq todo[r] \cup shown[r]

IInv ==
    /\ TypeOK
    /\ CallsFit
    /\ ParentsStay
    /\ RowsFit
    /\ UnsubscribedIsGone
    /\ ListsFit
    /\ RowsHaveParents
    /\ SubscribeIsTruthful
    /\ OneUnsubscribes
    /\ ListIsComplete
    /\ ListedWereConfirmed
    /\ RetryCannotLoseAgain
=============================================================================
