------------------------- MODULE SubscriptionStore -------------------------
(***************************************************************************)
(* The tables of the subscription service that a confirmation lives in,    *)
(* and the SQL statements and transactions that change them.               *)
(*                                                                         *)
(* One transaction inserts the subscription, its saga and its outbox       *)
(* message, so one Id stands for the three serial keys of a subscription.  *)
(* Serial keys are never reused: a deleted row never comes back, and a     *)
(* user who subscribes again gets a new Id.  Key is the pair (subscriber,  *)
(* repository) that is UNIQUE in the table.  A row's token is as unique as *)
(* its id, so WHERE token = $1 is a choice of Id too.                      *)
(***************************************************************************)
EXTENDS Identifiers

CONSTANTS Key,           \* (subscriber, repository) pairs
          MaxAttempts    \* subscriptionOutboxMaxAttempts

ASSUME MaxAttemptsAssumption == MaxAttempts \in Nat \ {0}

VARIABLES row,        \* subscriptions.subscription_status, "Absent" without a row
          key,        \* its (subscriber_id, repository_id)
          saga,       \* subscription_sagas.saga_status
          outbox,     \* outbox_messages.outbox_status
          attempts    \* outbox_messages.attempts

storeVars == <<row, key, saga, outbox, attempts>>

RowStatus    == {"Absent", "Pending", "Active"}
SagaStatus   == {"None", "Started", "Completed", "Compensated"}
OutboxStatus == {"None", "Pending", "Published", "Failed"}

StoreTypeOK ==
    /\ row \in [Id -> RowStatus]
    /\ key \in [Id -> Key \cup {None}]
    /\ saga \in [Id -> SagaStatus]
    /\ outbox \in [Id -> OutboxStatus]
    /\ attempts \in [Id -> Nat]

StoreInit ==
    /\ row = [i \in Id |-> "Absent"]
    /\ key = [i \in Id |-> None]
    /\ saga = [i \in Id |-> "None"]
    /\ outbox = [i \in Id |-> "None"]
    /\ attempts = [i \in Id |-> 0]

HasRow(i) == row[i] # "Absent"
Terminal(i) == saga[i] \in {"Completed", "Compensated"}
PendingOutbox == {i \in Id : outbox[i] = "Pending"}

-----------------------------------------------------------------------------
(* Subscriptions *)

\* Mutant of KeyTaken: only active rows count.
KeyActive(k) == \E j \in Id : row[j] = "Active" /\ key[j] = k

KeyTaken(k) == \E j \in Id : HasRow(j) /\ key[j] = k

\* The three INSERTs of one transaction.  ON CONFLICT DO NOTHING refuses a
\* key that has a row, whatever its status.
StartSubscriptionConfirmation(i, k) ==
    /\ saga[i] = "None"
    /\ ~KeyTaken(k)
    /\ row' = [row EXCEPT ![i] = "Pending"]
    /\ key' = [key EXCEPT ![i] = k]
    /\ saga' = [saga EXCEPT ![i] = "Started"]
    /\ outbox' = [outbox EXCEPT ![i] = "Pending"]
    /\ UNCHANGED attempts

\* UPDATE ... WHERE token = $2; no row, no change (ErrNotFound).  Neither the
\* row's status nor its saga is asked for.
Activate(i) ==
    /\ HasRow(i)
    /\ row' = [row EXCEPT ![i] = "Active"]
    /\ UNCHANGED <<key, saga, outbox, attempts>>

DeleteByToken(i) ==
    /\ HasRow(i)
    /\ row' = [row EXCEPT ![i] = "Absent"]
    /\ UNCHANGED <<key, saga, outbox, attempts>>

\* Mutant of DeleteByID: an active row is spared.
DeletePendingByID(i) ==
    row' = [row EXCEPT ![i] = IF @ = "Pending" THEN "Absent" ELSE @]

\* DELETE ... WHERE id = $1: pending and active rows alike, none is no error.
DeleteByID(i) == row' = [row EXCEPT ![i] = "Absent"]

-----------------------------------------------------------------------------
(* Saga results: each is one transaction.  "ok" is what it returns; a       *)
(* transition the WHERE clause refuses returns ErrInvalidSagaTransition.    *)

\* Mutant of MayComplete: the WHERE clause forgets the status.
MayCompleteAny(i) == saga[i] # "None"

MayComplete(i) == saga[i] \in {"Started", "Completed"}

MayCompensate(i) == saga[i] \in {"Started", "Compensated"}

CompleteSubscriptionConfirmation(i, ok) ==
    /\ ok = MayComplete(i)
    /\ saga' = IF ok THEN [saga EXCEPT ![i] = "Completed"] ELSE saga
    /\ UNCHANGED <<row, key, outbox, attempts>>

\* Mutant of CompensateSubscription: two statements, no transaction.
CompensateWithoutTransaction(i, ok) ==
    /\ ok = MayCompensate(i)
    /\ DeleteByID(i)
    /\ saga' = IF ok THEN [saga EXCEPT ![i] = "Compensated"] ELSE saga
    /\ UNCHANGED <<key, outbox, attempts>>

\* DeleteByID, then MarkCompensated; the rollback undoes the delete when the
\* saga refuses the transition.
CompensateSubscription(i, ok) ==
    /\ ok = MayCompensate(i)
    /\ IF ok
         THEN DeleteByID(i) /\ saga' = [saga EXCEPT ![i] = "Compensated"]
         ELSE UNCHANGED <<row, saga>>
    /\ UNCHANGED <<key, outbox, attempts>>

-----------------------------------------------------------------------------
(* Outbox *)

\* UPDATE ... WHERE id = $2, whatever the message's status.
MarkOutboxPublished(i) ==
    /\ outbox' = [outbox EXCEPT ![i] = "Published"]
    /\ UNCHANGED <<row, key, saga, attempts>>

\* Mutant of RecordOutboxFailure: a published message may fail.
RecordFailureOfAny(i) ==
    /\ attempts' = [attempts EXCEPT ![i] = @ + 1]
    /\ outbox' = [outbox EXCEPT ![i] =
                    IF attempts[i] + 1 >= MaxAttempts THEN "Failed" ELSE @]
    /\ UNCHANGED <<row, key, saga>>

\* Mutant of RecordOutboxFailure: one attempt too many.
RecordFailureLate(i) ==
    IF outbox[i] = "Pending"
      THEN /\ attempts' = [attempts EXCEPT ![i] = @ + 1]
           /\ outbox' = [outbox EXCEPT ![i] =
                           IF attempts[i] + 1 > MaxAttempts THEN "Failed" ELSE @]
           /\ UNCHANGED <<row, key, saga>>
      ELSE UNCHANGED storeVars

\* Counts a failure of a message that is still pending; the last allowed one
\* fails the message.
RecordOutboxFailure(i) ==
    IF outbox[i] = "Pending"
      THEN /\ attempts' = [attempts EXCEPT ![i] = @ + 1]
           /\ outbox' = [outbox EXCEPT ![i] =
                           IF attempts[i] + 1 >= MaxAttempts THEN "Failed" ELSE @]
           /\ UNCHANGED <<row, key, saga>>
      ELSE UNCHANGED storeVars
=============================================================================
