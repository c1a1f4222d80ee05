-------------------------- MODULE SubscriptionRows --------------------------
(***************************************************************************)
(* What the rest of the system relies on of the table of subscriptions,    *)
(* whatever confirms or compensates them: a row appears as pending, is     *)
(* activated, and disappears, and no two rows have the same key.           *)
(***************************************************************************)
CONSTANTS Id,      \* subscriptions that may ever be created
          Key,     \* (subscriber, repository) pairs
          None     \* no key yet

VARIABLES row, key

rowVars == <<row, key>>

Init ==
    /\ row = [i \in Id |-> "Absent"]
    /\ key = [i \in Id |-> None]

Insert(i, k) ==
    /\ key[i] = None
    /\ \A j \in Id : key[j] = k => row[j] = "Absent"
    /\ row' = [row EXCEPT ![i] = "Pending"]
    /\ key' = [key EXCEPT ![i] = k]

Activate(i) ==
    /\ row[i] # "Absent"
    /\ row' = [row EXCEPT ![i] = "Active"]
    /\ UNCHANGED key

Delete(i) ==
    /\ row[i] # "Absent"
    /\ row' = [row EXCEPT ![i] = "Absent"]
    /\ UNCHANGED key

Next == \E i \in Id : (\E k \in Key : Insert(i, k)) \/ Activate(i) \/ Delete(i)

Spec == Init /\ [][Next]_rowVars
=============================================================================
