------------------------ MODULE ConfirmationLifecycle ------------------------
(***************************************************************************)
(* What the confirmation workflow promises its users, without the outbox,  *)
(* the queues and the processes that bring it about.                       *)
(***************************************************************************)
CONSTANTS Id,      \* subscriptions that may ever be created
          Key,     \* (subscriber, repository) pairs
          None     \* no key yet

VARIABLES row, key, saga, mailed

lifecycleVars == <<row, key, saga, mailed>>

Init ==
    /\ row = [i \in Id |-> "Absent"]
    /\ key = [i \in Id |-> None]
    /\ saga = [i \in Id |-> "None"]
    /\ mailed = {}

\* At most one subscription, pending or active, per subscriber and repository.
Request(i, k) ==
    /\ saga[i] = "None"
    /\ \A j \in Id : key[j] = k => row[j] = "Absent"
    /\ row' = [row EXCEPT ![i] = "Pending"]
    /\ key' = [key EXCEPT ![i] = k]
    /\ saga' = [saga EXCEPT ![i] = "Started"]
    /\ UNCHANGED mailed

\* The email goes to a subscription that was requested, at any time after.
Mail(i) ==
    /\ saga[i] # "None"
    /\ mailed' = mailed \cup {i}
    /\ UNCHANGED <<row, key, saga>>

\* Only the holder of the mailed token activates or removes a subscription.
Activate(i) ==
    /\ i \in mailed /\ row[i] # "Absent"
    /\ row' = [row EXCEPT ![i] = "Active"]
    /\ UNCHANGED <<key, saga, mailed>>

Unsubscribe(i) ==
    /\ i \in mailed /\ row[i] # "Absent"
    /\ row' = [row EXCEPT ![i] = "Absent"]
    /\ UNCHANGED <<key, saga, mailed>>

\* A saga ends once: completed after the email, or compensated together with
\* the removal of the row.
Complete(i) ==
    /\ saga[i] = "Started" /\ i \in mailed
    /\ saga' = [saga EXCEPT ![i] = "Completed"]
    /\ UNCHANGED <<row, key, mailed>>

Compensate(i) ==
    /\ saga[i] = "Started"
    /\ saga' = [saga EXCEPT ![i] = "Compensated"]
    /\ row' = [row EXCEPT ![i] = "Absent"]
    /\ UNCHANGED <<key, mailed>>

Next ==
    \E i \in Id :
        \/ \E k \in Key : Request(i, k)
        \/ Mail(i)
        \/ Activate(i)
        \/ Unsubscribe(i)
        \/ Complete(i)
        \/ Compensate(i)

Spec == Init /\ [][Next]_lifecycleVars
=============================================================================
