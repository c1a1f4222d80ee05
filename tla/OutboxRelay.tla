---------------------------- MODULE OutboxRelay ----------------------------
(***************************************************************************)
(* PublishSubscriptionOutbox.Execute, run by the scheduler of every        *)
(* subscription-service process: fetch a batch of pending messages, then   *)
(* publish and mark each.  The scheduler never runs two executions of one  *)
(* process at once; two processes share the table without any lock.        *)
(*                                                                         *)
(* The order of a batch (ORDER BY created_at) is left open: a batch is the *)
(* set of its messages not yet handled.  A batch is what the SELECT saw: a *)
(* message may have been published or failed since.                        *)
(***************************************************************************)
EXTENDS SubscriptionStore, Broker, FiniteSets

CONSTANT BatchSize    \* subscriptionOutboxBatchSize

ASSUME BatchSizeAssumption == BatchSize \in Nat \ {0}

VARIABLE relay

RelayState ==
    [pc : {"Idle", "Publishing", "Marking", "Recording"},
     batch : SUBSET Id, cur : Id \cup {None}, publisher : Publisher]

RelayStarted == [pc |-> "Idle", batch |-> {}, cur |-> None, publisher |-> "Good"]

RelayAt(r, pc, batch, cur, publisher) ==
    relay' = [relay EXCEPT ![r] =
                [pc |-> pc, batch |-> batch, cur |-> cur, publisher |-> publisher]]

RelayTypeOK == relay \in [Replica -> RelayState]

RelayInit == relay = [r \in Replica |-> RelayStarted]

\* SELECT ... WHERE outbox_status = Pending LIMIT BatchSize.  An empty or
\* failed SELECT ends the execution and changes nothing.
FetchPendingOutbox(r) ==
    /\ relay[r].pc = "Idle"
    /\ \E batch \in SUBSET PendingOutbox :
         /\ batch # {}
         /\ \/ Cardinality(batch) = BatchSize
            \/ Cardinality(batch) < BatchSize /\ batch = PendingOutbox
         /\ RelayAt(r, "Publishing", batch, None, relay[r].publisher)
    /\ NoFault
    /\ UNCHANGED <<storeVars, brokerVars>>

PublishSubscriptionConfirmation(r) ==
    /\ relay[r].pc = "Publishing"
    /\ \E i \in relay[r].batch :
         \/ /\ PublishOk("Requested", i, relay[r].publisher)
            /\ RelayAt(r, "Marking", relay[r].batch, i, relay[r].publisher)
         \/ /\ PublishErr("Requested", i, relay[r].publisher, FALSE)
            /\ \E after \in AfterPublishErr(relay[r].publisher) :
                 RelayAt(r, "Recording", relay[r].batch, i, after)
    /\ UNCHANGED storeVars

\* Mutant of RelayContinue: the message stays in the batch.
RelayRepeat(r) ==
    RelayAt(r, "Publishing", relay[r].batch, None, relay[r].publisher)

\* Done with the message at hand: the rest of the batch, or the next tick.
RelayContinue(r) ==
    LET rest == relay[r].batch \ {relay[r].cur}
    IN  RelayAt(r, IF rest = {} THEN "Idle" ELSE "Publishing", rest, None,
                relay[r].publisher)

\* A failed UPDATE may have been applied; either way the failure is recorded.
MarkPublished(r) ==
    /\ relay[r].pc = "Marking"
    /\ \/ /\ MarkOutboxPublished(relay[r].cur)
          /\ RelayContinue(r)
          /\ NoFault
       \/ /\ MarkOutboxPublished(relay[r].cur) \/ UNCHANGED storeVars
          /\ RelayAt(r, "Recording", relay[r].batch, relay[r].cur, relay[r].publisher)
          /\ Fault
    /\ UNCHANGED brokerVars

\* recordFailure only logs the error of an UPDATE that failed.
RecordFailure(r) ==
    /\ relay[r].pc = "Recording"
    /\ \/ RecordOutboxFailure(relay[r].cur) /\ NoFault
       \/ UNCHANGED storeVars /\ Fault
    /\ RelayContinue(r)
    /\ UNCHANGED brokerVars

RelayNext(r) ==
    \/ FetchPendingOutbox(r)
    \/ PublishSubscriptionConfirmation(r)
    \/ MarkPublished(r)
    \/ RecordFailure(r)
=============================================================================
