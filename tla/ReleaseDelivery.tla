--------------------------- MODULE ReleaseDelivery ---------------------------
(***************************************************************************)
(* The notification worker's handling of release notifications.  The same  *)
(* processes handle confirmation requests (NotificationWorker); one        *)
(* delivery at a time, and nothing of one is kept for the next.            *)
(***************************************************************************)
EXTENDS ReleaseQueue

VARIABLES deliverer,  \* [Worker -> what it is doing]
          emailed     \* announcements the SMTP server took

deliveryVars == <<deliverer, emailed>>

DelivererState ==
    [pc : {"Idle", "Sending", "Handled", "Errored"},
     cur : Announcement \cup {None}, open : BOOLEAN]

DelivererStarted == [pc |-> "Idle", cur |-> None, open |-> TRUE]

DelivererAt(w, pc, cur) ==
    deliverer' = [deliverer EXCEPT ![w] =
                    [pc |-> pc, cur |-> cur, open |-> deliverer[w].open]]

DeliveryTypeOK ==
    /\ deliverer \in [Worker -> DelivererState]
    /\ emailed \in SUBSET Announcement

DeliveryInit ==
    /\ deliverer = [w \in Worker |-> DelivererStarted]
    /\ emailed = {}

Holds(w, a) == deliverer[w].cur = a /\ deliverer[w].open

DeliverRelease(w) ==
    /\ deliverer[w].pc = "Idle" /\ deliverer[w].open
    /\ \E a \in Announcement : Deliver("Released", a) /\ DelivererAt(w, "Sending", a)
    /\ NoFault
    /\ UNCHANGED emailed

\* Send returns nil, or an error although the server may have taken the email.
SendRelease(w) ==
    /\ deliverer[w].pc = "Sending"
    /\ \/ /\ emailed' = emailed \cup {deliverer[w].cur}
          /\ DelivererAt(w, "Handled", deliverer[w].cur)
       \/ /\ emailed' = emailed \cup {deliverer[w].cur} \/ UNCHANGED emailed
          /\ DelivererAt(w, "Errored", deliverer[w].cur)
    /\ NoFault
    /\ UNCHANGED queueVars

\* Mutant of SettleRelease: what could not be sent is acknowledged.
AcknowledgeAlways(w) ==
    /\ deliverer[w].pc \in {"Handled", "Errored"}
    /\ UNCHANGED queueVars
    /\ DelivererAt(w, "Idle", None)
    /\ NoFault
    /\ UNCHANGED emailed

\* Ack, or Nack without requeue; on a closed channel both only log.
SettleRelease(w) ==
    /\ deliverer[w].pc \in {"Handled", "Errored"}
    /\ IF deliverer[w].pc = "Errored" /\ deliverer[w].open
         THEN DeadLetter(deliverer[w].cur)
         ELSE UNCHANGED queueVars
    /\ DelivererAt(w, "Idle", None)
    /\ NoFault
    /\ UNCHANGED emailed

\* Mutant of ReturnRelease: deliveries are acknowledged when they are pushed.
ForgetRelease(w) == UNCHANGED queueVars

ReturnRelease(w) ==
    IF deliverer[w].cur # None /\ deliverer[w].open
      THEN Requeue("Released", deliverer[w].cur)
      ELSE UNCHANGED queueVars

\* The process dies, and its restart policy starts a new one.
CrashDeliverer(w) ==
    /\ ReturnRelease(w)
    /\ deliverer' = [deliverer EXCEPT ![w] = DelivererStarted]
    /\ Fault
    /\ UNCHANGED emailed

\* The broker closes the consumer's channel; the handler runs on.
LoseDelivererChannel(w) ==
    /\ deliverer[w].open
    /\ ReturnRelease(w)
    /\ deliverer' = [deliverer EXCEPT ![w].open = FALSE]
    /\ Fault
    /\ UNCHANGED emailed

\* Subscribe returns because the deliveries are closed (or, without loss, after
\* SIGTERM), and the process is started again.
RestartDeliverer(w) ==
    /\ deliverer[w].pc = "Idle" /\ ~deliverer[w].open
    /\ deliverer' = [deliverer EXCEPT ![w] = DelivererStarted]
    /\ NoFault
    /\ UNCHANGED <<queueVars, emailed>>

DeliveryNext(w) ==
    \/ DeliverRelease(w)
    \/ SendRelease(w)
    \/ SettleRelease(w)
    \/ RestartDeliverer(w)

DeliveryFault(w) ==
    \/ CrashDeliverer(w)
    \/ LoseDelivererChannel(w)
=============================================================================
