---------------------------- MODULE SagaConsumer ----------------------------
(***************************************************************************)
(* The subscription service's consumer of saga results: deliver a result,  *)
(* run its handler in one transaction, acknowledge.  Every replica has one *)
(* consumer on the shared result queue.                                    *)
(***************************************************************************)
EXTENDS SubscriptionStore, Broker

VARIABLE consumer

ConsumerState ==
    [pc : {"Idle", "Handling", "Handled", "Errored"},
     cur : Id \cup {None}, kind : Result, open : BOOLEAN]

ConsumerStarted ==
    [pc |-> "Idle", cur |-> None, kind |-> "Succeeded", open |-> TRUE]

ConsumerAt(r, pc, cur, kind) ==
    consumer' = [consumer EXCEPT ![r] =
                   [pc |-> pc, cur |-> cur, kind |-> kind, open |-> consumer[r].open]]

ConsumerTypeOK == consumer \in [Replica -> ConsumerState]

ConsumerInit == consumer = [r \in Replica |-> ConsumerStarted]

DeliverResult(r) ==
    /\ consumer[r].pc = "Idle" /\ consumer[r].open
    /\ \E k \in Result, i \in Id :
         /\ Deliver(k, i)
         /\ ConsumerAt(r, "Handling", i, k)
    /\ NoFault
    /\ UNCHANGED storeVars

\* HandleSubscriptionConfirmationSucceeded / Failed on the database.
RunSagaTransaction(r, ok) ==
    IF consumer[r].kind = "Succeeded"
      THEN CompleteSubscriptionConfirmation(consumer[r].cur, ok)
      ELSE CompensateSubscription(consumer[r].cur, ok)

\* The transaction decides, or the database call fails: rolled back, or
\* committed with the answer lost.
HandleResult(r) ==
    /\ consumer[r].pc = "Handling"
    /\ \/ \E ok \in BOOLEAN :
            /\ RunSagaTransaction(r, ok)
            /\ ConsumerAt(r, IF ok THEN "Handled" ELSE "Errored",
                          consumer[r].cur, consumer[r].kind)
            /\ NoFault
       \/ /\ UNCHANGED storeVars \/ RunSagaTransaction(r, TRUE)
          /\ ConsumerAt(r, "Errored", consumer[r].cur, consumer[r].kind)
          /\ Fault
    /\ UNCHANGED brokerVars

SettleResult(r) ==
    /\ consumer[r].pc \in {"Handled", "Errored"}
    /\ IF consumer[r].pc = "Errored" /\ consumer[r].open
         THEN DeadLetter(consumer[r].cur)
         ELSE UNCHANGED brokerVars
    /\ ConsumerAt(r, "Idle", None, "Succeeded")
    /\ NoFault
    /\ UNCHANGED storeVars

ReturnResult(r) ==
    IF consumer[r].cur # None /\ consumer[r].open
      THEN Requeue(consumer[r].kind, consumer[r].cur)
      ELSE UNCHANGED brokerVars

\* The broker closes the consumer's channel; the handler runs on.
LoseConsumerChannel(r) ==
    /\ consumer[r].open
    /\ ReturnResult(r)
    /\ consumer' = [consumer EXCEPT ![r].open = FALSE]
    /\ Fault
    /\ UNCHANGED storeVars

ConsumerNext(r) ==
    \/ DeliverResult(r)
    \/ HandleResult(r)
    \/ SettleResult(r)
=============================================================================
