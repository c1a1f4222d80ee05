------------------------------- MODULE Broker -------------------------------
(***************************************************************************)
(* RabbitMQ as the services use it: durable queues of persistent messages, *)
(* manual acknowledgements, dead-letter queues nobody consumes, and        *)
(* publisher confirms read by JSONPublisher.                               *)
(*                                                                         *)
(* A message is its routing key (Kind) and what it is about, an Id.        *)
(* Several consumers, redelivery and republication reorder and duplicate   *)
(* messages, so a queue is a bag: how many copies of each message wait.    *)
(* Publishers declare the notification queue and the service that asks for *)
(* a confirmation has declared the result queue before, so both queues     *)
(* exist when a message is routed.                                         *)
(***************************************************************************)
EXTENDS Identifiers, Faults

VARIABLES queue,     \* copies waiting, by kind and Id
          dead,      \* Ids with a message in the dead-letter queues
          dropped    \* Ids with a message reported as published that the broker
                     \* never stored (history)

brokerVars == <<queue, dead, dropped>>

Kind   == {"Requested", "Succeeded", "Failed", "Released"}
Result == {"Succeeded", "Failed"}

BrokerTypeOK ==
    /\ queue \in [Kind -> [Id -> Nat]]
    /\ dead \in SUBSET Id
    /\ dropped \in SUBSET Id
    /\ faults \in Nat

BrokerInit ==
    /\ queue = [k \in Kind |-> [i \in Id |-> 0]]
    /\ dead = {}
    /\ dropped = {}
    /\ FaultsInit

Enqueue(k, i) == queue' = [queue EXCEPT ![k][i] = @ + 1]

-----------------------------------------------------------------------------
(* JSONPublisher.Publish, as its callers see it.  It reads one confirmation  *)
(* from a channel of capacity one.  After a publish that timed out, the      *)
(* confirmation it did not wait for may still arrive there ("Lagging"), and  *)
(* every later call then takes the confirmation of an earlier message for    *)
(* its own.  A channel or connection that breaks is never opened again       *)
(* ("Closed"): every later call fails until the process is started anew.     *)

Publisher == {"Good", "Lagging", "Closed"}

\* Publish returns nil: the broker stored the message, or a lagging publisher
\* read an earlier message's confirmation and this message never arrived.
PublishOk(k, i, publisher) ==
    \/ /\ publisher # "Closed"
       /\ Enqueue(k, i)
       /\ NoFault
       /\ UNCHANGED <<dead, dropped>>
    \/ /\ publisher = "Lagging"
       /\ dropped' = dropped \cup {i}
       /\ Fault
       /\ UNCHANGED <<queue, dead>>

\* Publish returns an error: the channel is or gets closed, the broker refused,
\* no confirmation came in time, or the caller's context is cancelled.  Unless
\* the channel was closed before, the broker may have stored the message.
PublishErr(k, i, publisher, cancelled) ==
    /\ \/ publisher # "Closed" /\ Enqueue(k, i)
       \/ UNCHANGED queue
    /\ IF publisher = "Closed" \/ cancelled THEN NoFault ELSE Fault
    /\ UNCHANGED <<dead, dropped>>

AfterPublishErr(publisher) ==
    IF publisher = "Closed" THEN {"Closed"} ELSE {publisher, "Lagging", "Closed"}

-----------------------------------------------------------------------------
(* Deliveries *)

Deliver(k, i) ==
    /\ queue[k][i] > 0
    /\ queue' = [queue EXCEPT ![k][i] = @ - 1]
    /\ UNCHANGED <<dead, dropped>>

\* Nack(requeue = false): the dead-letter exchange takes the message.
DeadLetter(i) ==
    /\ dead' = dead \cup {i}
    /\ UNCHANGED <<queue, dropped>>

\* The channel of an unacknowledged delivery closed.
Requeue(k, i) ==
    /\ Enqueue(k, i)
    /\ UNCHANGED <<dead, dropped>>
=============================================================================
