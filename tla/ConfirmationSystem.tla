------------------------- MODULE ConfirmationSystem -------------------------
(***************************************************************************)
(* The confirmation of subscriptions across the two services: users, the   *)
(* subscription service's database, its outbox relays and saga consumers,  *)
(* the broker, and the notification workers.                               *)
(*                                                                         *)
(*   Subscribe -> row, saga and outbox message in one transaction          *)
(*   relay     -> confirmation request on the queue                        *)
(*   worker    -> email, then a result on the result queue                 *)
(*   consumer  -> saga completed, or row deleted and saga compensated      *)
(*                                                                         *)
(* Meanwhile the owner of a mailed token may confirm or unsubscribe.       *)
(***************************************************************************)
EXTENDS OutboxRelay, NotificationWorker, SagaConsumer

vars == <<storeVars, brokerVars, faults, relay, worker, mailed, consumer>>

TypeOK ==
    /\ StoreTypeOK
    /\ BrokerTypeOK
    /\ RelayTypeOK
    /\ WorkerTypeOK
    /\ ConsumerTypeOK

Init ==
    /\ StoreInit
    /\ BrokerInit
    /\ RelayInit
    /\ WorkerInit
    /\ ConsumerInit

-----------------------------------------------------------------------------
(* Users.  A request that is refused (already subscribed, unknown token)    *)
(* changes nothing and is not a step.                                       *)

Subscribe(i) ==
    /\ \E k \in Key : StartSubscriptionConfirmation(i, k)
    /\ NoFault
    /\ UNCHANGED <<brokerVars, relay, workerVars, consumer>>

\* The token is known from the email only.
Confirm(i) ==
    /\ i \in mailed
    /\ Activate(i)
    /\ NoFault
    /\ UNCHANGED <<brokerVars, relay, workerVars, consumer>>

Unsubscribe(i) ==
    /\ i \in mailed
    /\ DeleteByToken(i)
    /\ NoFault
    /\ UNCHANGED <<brokerVars, relay, workerVars, consumer>>

UserNext == \E i \in Id : Subscribe(i) \/ Confirm(i) \/ Unsubscribe(i)

-----------------------------------------------------------------------------
(* Processes *)

\* A subscription-service process dies: its relay forgets the batch, the
\* delivery its consumer holds goes back to the queue.
CrashReplica(r) ==
    /\ ReturnResult(r)
    /\ relay' = [relay EXCEPT ![r] = RelayStarted]
    /\ consumer' = [consumer EXCEPT ![r] = ConsumerStarted]
    /\ Fault
    /\ UNCHANGED storeVars

\* A consumer whose deliveries closed returns an error, which ends the
\* process wherever its relay is; it is started again.
RestartReplica(r) ==
    /\ consumer[r].pc = "Idle" /\ ~consumer[r].open
    /\ relay' = [relay EXCEPT ![r] = RelayStarted]
    /\ consumer' = [consumer EXCEPT ![r] = ConsumerStarted]
    /\ NoFault
    /\ UNCHANGED <<storeVars, brokerVars>>

RelayStep(r) == RelayNext(r) /\ UNCHANGED <<workerVars, consumer>>

ConsumerStep(r) ==
    \/ ConsumerNext(r) /\ UNCHANGED <<relay, workerVars>>
    \/ RestartReplica(r) /\ UNCHANGED workerVars

WorkerStep(w) == WorkerNext(w) /\ UNCHANGED <<storeVars, relay, consumer>>

FaultNext ==
    \/ \E r \in Replica : LoseConsumerChannel(r) /\ UNCHANGED <<relay, workerVars>>
    \/ \E r \in Replica : CrashReplica(r) /\ UNCHANGED workerVars
    \/ \E w \in Worker : WorkerFault(w) /\ UNCHANGED <<storeVars, relay, consumer>>

Next ==
    \/ UserNext
    \/ \E r \in Replica : RelayStep(r)
    \/ \E r \in Replica : ConsumerStep(r)
    \/ \E w \in Worker : WorkerStep(w)
    \/ FaultNext

Spec == Init /\ [][Next]_vars

\* The scheduler ticks, consumers take deliveries and ended processes are
\* started again; users and faults are under no obligation.
Fairness ==
    /\ \A r \in Replica : WF_vars(RelayStep(r)) /\ WF_vars(ConsumerStep(r))
    /\ \A w \in Worker : WF_vars(WorkerStep(w))

FairSpec == Spec /\ Fairness

-----------------------------------------------------------------------------
(* Where the confirmation of a subscription is *)

\* A result of subscription i is on its way to the saga, has reached it, or
\* has been set aside where an operator can find it.
ResultOut(i) ==
    \/ \E k \in Result : queue[k][i] > 0
    \/ \E r \in Replica : consumer[r].cur = i /\ consumer[r].open
    \/ i \in dead
    \/ i \in dropped
    \/ Terminal(i)

\* The request is on its way to a worker or in its hands, or has led to a
\* result.
RequestOut(i) ==
    \/ queue["Requested"][i] > 0
    \/ \E w \in Worker : Owns(w, i)
    \/ ResultOut(i)

-----------------------------------------------------------------------------
(* Safety *)

\* No saga is forgotten: while one is Started, its outbox message is still to
\* be published or has visibly failed, or a message about it is queued,
\* being handled or dead-lettered.  The one exception is a message JSONPublisher
\* took for confirmed when it was not.
NoSagaForgotten ==
    \A i \in Id :
        saga[i] = "Started" => outbox[i] \in {"Pending", "Failed"} \/ RequestOut(i)

\* A saga completes only after the SMTP server took the confirmation email.
CompletedWasMailed ==
    \A i \in Id : saga[i] = "Completed" => i \in mailed

\* Compensation leaves no row behind, and no later click, duplicate or
\* redelivery brings one back.
CompensatedHasNoRow ==
    \A i \in Id : saga[i] = "Compensated" => ~HasRow(i)

\* An outbox message fails exactly when its attempts are used up, also when
\* two relays count the failures of the same message.
FailedAfterAllAttempts ==
    \A i \in Id :
        /\ outbox[i] = "Pending" => attempts[i] < MaxAttempts
        /\ outbox[i] = "Failed" => attempts[i] = MaxAttempts

\* With one replica, a second confirmation email takes a fault: as long as
\* none happened, a mailed subscription has no request left to be handled.
DuplicateTakesFault ==
    faults = MaxFaults =>
        \A i \in mailed : /\ queue["Requested"][i] = 0
                          /\ \A w \in Worker : worker[w].pc = "Sending" => worker[w].cur # i

-----------------------------------------------------------------------------
(* The inductive invariant *)

\* What a process has at hand fits what it is doing.
HandsFit ==
    /\ \A r \in Replica :
         relay[r].pc \in {"Marking", "Recording"} => relay[r].cur \in relay[r].batch
    /\ \A w \in Worker : worker[w].pc = "Idle" <=> worker[w].cur = None
    /\ \A r \in Replica : consumer[r].pc = "Idle" <=> consumer[r].cur = None

\* Nothing exists before the transaction that creates a subscription, and a
\* row lives as long as its saga allows.
RowsHaveSagas ==
    \A i \in Id :
        /\ HasRow(i) => saga[i] \in {"Started", "Completed"}
        /\ saga[i] = "None" <=> outbox[i] = "None"

MessagesHaveSagas ==
    \A i \in Id : saga[i] = "None" =>
        /\ \A k \in Kind : queue[k][i] = 0
        /\ \A r \in Replica : i \notin relay[r].batch /\ consumer[r].cur # i
        /\ \A w \in Worker : worker[w].cur # i
        /\ i \notin mailed

\* A Succeeded result, wherever it is, comes after an accepted email.
SucceededWasMailed ==
    \A i \in Id :
        \/ queue["Succeeded"][i] > 0
        \/ \E w \in Worker : worker[w].cur = i /\ worker[w].pc = "Accepted"
        \/ \E r \in Replica : consumer[r].cur = i /\ consumer[r].kind = "Succeeded"
        \/ saga[i] = "Completed"
        => i \in mailed

\* Whoever is about to forget a message has passed the subscription on.
PassedOn ==
    /\ \A i \in Id : outbox[i] = "Published" => RequestOut(i)
    /\ \A r \in Replica : relay[r].pc = "Marking" => RequestOut(relay[r].cur)
    /\ \A w \in Worker : worker[w].pc = "Handled" => ResultOut(worker[w].cur)
    /\ \A r \in Replica : consumer[r].pc = "Handled" => Terminal(consumer[r].cur)

\* Everything the safety theorems rest on; it holds initially and every step
\* keeps it.
IInv ==
    /\ TypeOK
    /\ HandsFit
    /\ RowsHaveSagas
    /\ MessagesHaveSagas
    /\ SucceededWasMailed
    /\ PassedOn

-----------------------------------------------------------------------------
(* What the documentation promises and the code does not keep *)

\* "Notification jobs survive worker restarts after they are accepted by the
\* broker": a worker that is stopping sets no job aside.
StoppingKeepsJobs ==
    [][\A w \in Worker, i \in Id :
         worker[w].cur = i /\ worker[w].stopping /\ i \notin dead => i \notin dead']_vars

\* "compensating pending subscription": compensation deletes no row its owner
\* has confirmed.
CompensatesOnlyPending ==
    [][\A i \in Id : row[i] = "Active" /\ ~HasRow(i)' => Unsubscribe(i)]_vars

-----------------------------------------------------------------------------
(* What a step may never do *)

\* The outcome of a saga is final, whatever late, duplicated or contradicting
\* results arrive.
SagaOutcomeIsFinal ==
    [][\A i \in Id : Terminal(i) => saga'[i] = saga[i]]_vars

\* A message marked as published is never pending or failed again: no failure
\* recorded late, by this relay or another, takes it back.
PublishedIsFinal ==
    [][\A i \in Id : outbox[i] = "Published" => outbox'[i] = "Published"]_vars

\* A subscription disappears only because its owner unsubscribed, or because
\* its own saga is compensated in the same step.
RowLeavesWithReason ==
    [][\A i \in Id : HasRow(i) /\ ~HasRow(i)' =>
         \/ Unsubscribe(i)
         \/ saga[i] = "Started" /\ saga'[i] = "Compensated"]_vars

-----------------------------------------------------------------------------
(* The abstract specifications, on the variables of the same name *)

Lifecycle == INSTANCE ConfirmationLifecycle

\* What users see of the whole machinery is the abstract lifecycle: every step
\* of a relay, worker or consumer is one of its steps or invisible.
LifecycleSpec == Lifecycle!Spec

Rows == INSTANCE SubscriptionRows

\* The rows alone do what the release tracker's side of the system is built
\* on: one row per key, never activated or deleted before it is inserted.
RowsSpec == Rows!Spec

-----------------------------------------------------------------------------
(* Liveness *)

\* Once faults stop, every started saga ends, or has left something for an
\* operator: a failed outbox message or a dead letter (or is one JSONPublisher
\* lost).
SagaSettles ==
    \A i \in Id :
        saga[i] = "Started" ~>
            Terminal(i) \/ outbox[i] = "Failed" \/ i \in dead \cup dropped
=============================================================================
