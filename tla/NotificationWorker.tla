------------------------- MODULE NotificationWorker -------------------------
(***************************************************************************)
(* The notification worker's handling of confirmation requests: deliver a  *)
(* request, send the email, publish the result, acknowledge.  A worker     *)
(* process handles one delivery at a time; several processes may consume   *)
(* the same queue.  The SMTP client's own retries are inside one Send.     *)
(*                                                                         *)
(* Deliveries the broker has pushed to a worker that is not handling them  *)
(* yet count as queued: they go back to the queue when the channel closes. *)
(***************************************************************************)
EXTENDS Broker

VARIABLES worker,
          mailed   \* subscriptions whose confirmation email the SMTP server took

workerVars == <<worker, mailed>>

\* "Accepted" and "Rejected" are what Send returned; "Handled" and "Errored"
\* what the handler returned.  "stopping" is the cancelled context of SIGTERM;
\* "open" the consumer's channel.
WorkerState ==
    [pc : {"Idle", "Sending", "Accepted", "Rejected", "Handled", "Errored"},
     cur : Id \cup {None}, stopping : BOOLEAN, open : BOOLEAN, publisher : Publisher]

WorkerStarted ==
    [pc |-> "Idle", cur |-> None, stopping |-> FALSE, open |-> TRUE, publisher |-> "Good"]

WorkerAt(w, pc, cur, publisher) ==
    worker' = [worker EXCEPT ![w] =
                 [pc |-> pc, cur |-> cur, stopping |-> worker[w].stopping,
                  open |-> worker[w].open, publisher |-> publisher]]

WorkerTypeOK ==
    /\ worker \in [Worker -> WorkerState]
    /\ mailed \in SUBSET Id

WorkerInit ==
    /\ worker = [w \in Worker |-> WorkerStarted]
    /\ mailed = {}

\* The worker holds an unacknowledged delivery.
Owns(w, i) == worker[w].cur = i /\ worker[w].open

\* A cancelled context does not keep the select from taking a delivery.
DeliverRequest(w) ==
    /\ worker[w].pc = "Idle" /\ worker[w].open
    /\ \E i \in Id :
         /\ Deliver("Requested", i)
         /\ WorkerAt(w, "Sending", i, worker[w].publisher)
    /\ NoFault
    /\ UNCHANGED mailed

\* Send returned nil: the SMTP server took the message.
SendAccepted(w) ==
    /\ worker[w].pc = "Sending"
    /\ mailed' = mailed \cup {worker[w].cur}
    /\ WorkerAt(w, "Accepted", worker[w].cur, worker[w].publisher)
    /\ NoFault
    /\ UNCHANGED brokerVars

\* Mutant of SendRejected: exhausted retries fall through to success.
SendGivenUp(w) ==
    /\ worker[w].pc = "Sending"
    /\ mailed' = mailed \cup {worker[w].cur} \/ UNCHANGED mailed
    /\ WorkerAt(w, "Accepted", worker[w].cur, worker[w].publisher)
    /\ NoFault
    /\ UNCHANGED brokerVars

\* Send returned an error: refused, or out of attempts.  The server may have
\* taken a message whose reply was lost.  Under a cancelled context the
\* handler returns the context's error and publishes no result.
SendRejected(w) ==
    /\ worker[w].pc = "Sending"
    /\ mailed' = mailed \cup {worker[w].cur} \/ UNCHANGED mailed
    /\ WorkerAt(w, IF worker[w].stopping THEN "Errored" ELSE "Rejected",
                worker[w].cur, worker[w].publisher)
    /\ NoFault
    /\ UNCHANGED brokerVars

\* Mutant of PublishResult: the handler ignores the publisher's error.
PublishResultAnyway(w) ==
    /\ worker[w].pc \in {"Accepted", "Rejected"}
    /\ LET result == IF worker[w].pc = "Accepted" THEN "Succeeded" ELSE "Failed"
       IN  \/ PublishOk(result, worker[w].cur, worker[w].publisher)
           \/ PublishErr(result, worker[w].cur, worker[w].publisher, worker[w].stopping)
    /\ WorkerAt(w, "Handled", worker[w].cur, worker[w].publisher)
    /\ UNCHANGED mailed

\* publishSubscriptionConfirmationSucceeded / Failed: its error is the
\* handler's error.  Under a cancelled context the wait for the confirmation
\* may end without a failure of anything else.
PublishResult(w) ==
    /\ worker[w].pc \in {"Accepted", "Rejected"}
    /\ LET result == IF worker[w].pc = "Accepted" THEN "Succeeded" ELSE "Failed"
       IN  \/ /\ PublishOk(result, worker[w].cur, worker[w].publisher)
              /\ WorkerAt(w, "Handled", worker[w].cur, worker[w].publisher)
           \/ /\ PublishErr(result, worker[w].cur, worker[w].publisher, worker[w].stopping)
              /\ \E after \in AfterPublishErr(worker[w].publisher) :
                   WorkerAt(w, "Errored", worker[w].cur, after)
    /\ UNCHANGED mailed

\* Ack, or Nack without requeue after an error.  On a closed channel both
\* only log.
SettleRequest(w) ==
    /\ worker[w].pc \in {"Handled", "Errored"}
    /\ IF worker[w].pc = "Errored" /\ worker[w].open
         THEN DeadLetter(worker[w].cur)
         ELSE UNCHANGED brokerVars
    /\ WorkerAt(w, "Idle", None, worker[w].publisher)
    /\ NoFault
    /\ UNCHANGED mailed

-----------------------------------------------------------------------------
(* Failures *)

\* Mutant of ReturnRequest: deliveries are acknowledged when they are pushed.
ForgetRequest(w) == UNCHANGED brokerVars

ReturnRequest(w) ==
    IF worker[w].cur # None /\ worker[w].open
      THEN Requeue("Requested", worker[w].cur)
      ELSE UNCHANGED brokerVars

\* The process dies, and its restart policy starts a new one.
CrashWorker(w) ==
    /\ ReturnRequest(w)
    /\ worker' = [worker EXCEPT ![w] = WorkerStarted]
    /\ Fault
    /\ UNCHANGED mailed

\* The broker closes the consumer's channel; the handler runs on.
LoseWorkerChannel(w) ==
    /\ worker[w].open
    /\ ReturnRequest(w)
    /\ worker' = [worker EXCEPT ![w].open = FALSE]
    /\ Fault
    /\ UNCHANGED mailed

\* SIGTERM cancels the context.
StopWorker(w) ==
    /\ ~worker[w].stopping
    /\ worker' = [worker EXCEPT ![w].stopping = TRUE]
    /\ Fault
    /\ UNCHANGED <<brokerVars, mailed>>

\* Subscribe returns on a cancelled context or closed deliveries; the process
\* ends and is started again.
RestartWorker(w) ==
    /\ worker[w].pc = "Idle"
    /\ worker[w].stopping \/ ~worker[w].open
    /\ worker' = [worker EXCEPT ![w] = WorkerStarted]
    /\ NoFault
    /\ UNCHANGED <<brokerVars, mailed>>

WorkerNext(w) ==
    \/ DeliverRequest(w)
    \/ SendAccepted(w)
    \/ SendRejected(w)
    \/ PublishResult(w)
    \/ SettleRequest(w)
    \/ RestartWorker(w)

WorkerFault(w) ==
    \/ CrashWorker(w)
    \/ LoseWorkerChannel(w)
    \/ StopWorker(w)
=============================================================================
