---------------------------- MODULE Outbox_proofs ----------------------------
(***************************************************************************)
(* Theorems about the outbox: failures and publications with any number of *)
(* relays that share it without a lock, and with one relay, that a request *)
(* leaves it once.                                                         *)
(***************************************************************************)
EXTENDS ConfirmationSystem_proofs

\* A message with attempts left, or none yet, has used fewer than allowed.
AttemptsCounted ==
    \A i \in Id :
        /\ outbox[i] \in {"None", "Pending"} => attempts[i] < MaxAttempts
        /\ outbox[i] = "Failed" => attempts[i] = MaxAttempts

\* Everything a step may do to the outbox.
LEMMA OutboxSteps ==
    ASSUME IInv, [Next]_vars
    PROVE  \/ UNCHANGED <<outbox, attempts>>
           \/ \E i \in Id : /\ outbox[i] = "None"
                            /\ outbox' = [outbox EXCEPT ![i] = "Pending"]
                            /\ UNCHANGED attempts
           \/ \E i \in Id : MarkOutboxPublished(i) \/ RecordOutboxFailure(i)
<1>1. CASE UserNext
  <2>1. PICK i \in Id : Subscribe(i) \/ Confirm(i) \/ Unsubscribe(i)
    BY <1>1 DEF UserNext
  <2>2. CASE Subscribe(i)
    <3>1. saga[i] = "None" => outbox[i] = "None"
      BY DEF IInv, RowsHaveSagas
    <3> QED BY <2>2, <3>1 DEF Subscribe, StartSubscriptionConfirmation
  <2>3. CASE Confirm(i) \/ Unsubscribe(i)
    BY <2>3 DEF Confirm, Unsubscribe, Activate, DeleteByToken
  <2> QED BY <2>1, <2>2, <2>3
<1>2. ASSUME NEW r \in Replica, RelayStep(r)
      PROVE  \/ UNCHANGED <<outbox, attempts>>
             \/ \E i \in Id : MarkOutboxPublished(i) \/ RecordOutboxFailure(i)
  <2>1. CASE MarkPublished(r) \/ RecordFailure(r)
    <3>1. relay[r].cur \in Id
      BY <2>1 DEF MarkPublished, RecordFailure, IInv, HandsFit, TypeOK, RelayTypeOK, RelayState
    <3> QED BY <2>1, <3>1 DEF MarkPublished, RecordFailure, storeVars
  <2>2. CASE UNCHANGED storeVars
    BY <2>2 DEF storeVars
  <2> QED
    BY <1>2, <2>1, <2>2 DEF RelayStep, RelayNext, FetchPendingOutbox,
       PublishSubscriptionConfirmation
<1>3. CASE UNCHANGED storeVars
  BY <1>3 DEF storeVars
<1>4. ASSUME NEW r \in Replica, HandleResult(r)
      PROVE  UNCHANGED <<outbox, attempts>>
  BY <1>4 DEF HandleResult, RunSagaTransaction, CompleteSubscriptionConfirmation,
     CompensateSubscription, storeVars
<1>5. CASE UNCHANGED vars
  BY <1>5 DEF vars, storeVars
<1> QED
  BY <1>1, <1>2, <1>3, <1>4, <1>5 DEF Next, FaultNext, ConsumerStep, ConsumerNext,
     DeliverResult, SettleResult, RestartReplica, LoseConsumerChannel, CrashReplica, WorkerStep

(***************************************************************************)
(* A message fails exactly when its attempts are used up: no two relays    *)
(* ever count a failure beyond the last, or fail a message early.          *)
(***************************************************************************)
THEOREM FailureIsLastAttempt == Spec => []FailedAfterAllAttempts
<1>1. Init => AttemptsCounted
  <2>1. 0 < MaxAttempts
    BY MaxAttemptsAssumption
  <2>2. Init => /\ outbox = [i \in Id |-> "None"]
                /\ attempts = [i \in Id |-> 0]
    BY DEF Init, StoreInit
  <2> QED BY <2>1, <2>2 DEF AttemptsCounted
<1>2. IInv /\ AttemptsCounted /\ [Next]_vars => AttemptsCounted'
  <2> SUFFICES ASSUME IInv, AttemptsCounted, [Next]_vars
               PROVE  AttemptsCounted'
    OBVIOUS
  <2>0. /\ outbox \in [Id -> OutboxStatus] /\ attempts \in [Id -> Nat]
        /\ MaxAttempts \in Nat
    BY MaxAttemptsAssumption DEF IInv, TypeOK, StoreTypeOK
  <2>1. CASE UNCHANGED <<outbox, attempts>>
    BY <2>1 DEF AttemptsCounted
  <2>2. ASSUME NEW i \in Id, outbox[i] = "None",
               outbox' = [outbox EXCEPT ![i] = "Pending"], UNCHANGED attempts
        PROVE  AttemptsCounted'
    BY <2>0, <2>2 DEF AttemptsCounted
  <2>3. ASSUME NEW i \in Id, MarkOutboxPublished(i)
        PROVE  AttemptsCounted'
    BY <2>0, <2>3 DEF AttemptsCounted, MarkOutboxPublished
  <2>4. ASSUME NEW i \in Id, RecordOutboxFailure(i)
        PROVE  AttemptsCounted'
    BY <2>0, <2>4 DEF AttemptsCounted, RecordOutboxFailure, storeVars
  <2> QED BY <2>1, <2>2, <2>3, <2>4, OutboxSteps
<1>3. AttemptsCounted => FailedAfterAllAttempts
  BY DEF AttemptsCounted, FailedAfterAllAttempts
<1> QED BY <1>1, <1>2, <1>3, Invariance, PTL DEF Spec

(***************************************************************************)
(* A message marked as published stays so: no failure recorded late, by    *)
(* this relay or another, takes it back.                                   *)
(***************************************************************************)
THEOREM PublishedStays == Spec => PublishedIsFinal
<1>1. IInv /\ [Next]_vars =>
        [\A i \in Id : outbox[i] = "Published" => outbox'[i] = "Published"]_vars
  <2> SUFFICES ASSUME IInv, [Next]_vars, NEW i \in Id, outbox[i] = "Published"
               PROVE  outbox'[i] = "Published"
    OBVIOUS
  <2>0. outbox \in [Id -> OutboxStatus]
    BY DEF IInv, TypeOK, StoreTypeOK
  <2> QED
    BY <2>0, OutboxSteps DEF MarkOutboxPublished, RecordOutboxFailure, storeVars
<1> QED BY <1>1, Invariance, PTL DEF Spec, PublishedIsFinal
-----------------------------------------------------------------------------
(***************************************************************************)
(* One replica, and no fault yet: every request leaves the outbox once and *)
(* leads to one email.                                                     *)
(***************************************************************************)
OneReplica == \A r, s \in Replica : r = s

\* No process has anything to recover from, and what the relay has at hand is
\* still pending.
ProcessesWork ==
    /\ \A r \in Replica :
         /\ relay[r].pc # "Recording" /\ relay[r].publisher = "Good"
         /\ relay[r].batch \subseteq PendingOutbox
         /\ consumer[r].open
    /\ \A w \in Worker :
         worker[w].open /\ ~worker[w].stopping /\ worker[w].publisher = "Good"

\* No request of the subscription has been published.
Unsent(i) ==
    /\ outbox[i] \in {"None", "Pending"}
    /\ \A r \in Replica : ~(relay[r].pc = "Marking" /\ relay[r].cur = i)

Sending(w, i) == worker[w].pc = "Sending" /\ worker[w].cur = i

\* Of the one request, one worker makes one email.
RequestedOnce(i) ==
    /\ queue["Requested"][i] <= 1
    /\ \A v, w \in Worker : Sending(v, i) /\ Sending(w, i) => v = w
    /\ Unsent(i) => queue["Requested"][i] = 0
    /\ \A w \in Worker :
         Sending(w, i) => ~Unsent(i) /\ queue["Requested"][i] = 0 /\ i \notin mailed
    /\ i \in mailed => ~Unsent(i) /\ queue["Requested"][i] = 0

FaultlessInv ==
    /\ faults <= MaxFaults
    /\ faults = MaxFaults => ProcessesWork /\ \A i \in Id : RequestedOnce(i)

\* What a step without a fault leaves as it is.
LEMMA FaultlessBefore ==
    ASSUME IInv, FaultlessInv, Fault \/ NoFault, faults' = MaxFaults
    PROVE  /\ faults = MaxFaults /\ ~Fault
           /\ ProcessesWork /\ \A i \in Id : RequestedOnce(i)
  BY DEF IInv, TypeOK, BrokerTypeOK, FaultlessInv, Fault, NoFault

\* A publisher that has not failed puts what it is given on the queue, once.
LEMMA GoodPublish ==
    ASSUME BrokerTypeOK, NEW k \in Kind, NEW i \in Id, PublishOk(k, i, "Good")
    PROVE  /\ queue' = [queue EXCEPT ![k][i] = @ + 1]
           /\ k # "Requested" => queue'["Requested"] = queue["Requested"]
  BY DEF BrokerTypeOK, PublishOk, Enqueue, Kind

\* A step that changes neither requests nor emails keeps them one per
\* subscription.
LEMMA RequestsKept ==
    ASSUME NEW i \in Id, RequestedOnce(i), queue'["Requested"] = queue["Requested"],
           mailed' = mailed, Unsent(i)' => Unsent(i),
           \A w \in Worker : Sending(w, i)' => Sending(w, i)
    PROVE  RequestedOnce(i)'
  BY DEF RequestedOnce

LEMMA RelayIsFaultless ==
    ASSUME OneReplica, IInv, NEW r \in Replica, RelayStep(r), ~Fault,
           ProcessesWork, \A i \in Id : RequestedOnce(i)
    PROVE  ProcessesWork' /\ \A i \in Id : RequestedOnce(i)'
<1>1. /\ relay \in [Replica -> RelayState] /\ outbox \in [Id -> OutboxStatus]
      /\ queue \in [Kind -> [Id -> Nat]] /\ BrokerTypeOK
      /\ UNCHANGED <<worker, mailed, consumer>>
  BY DEF IInv, TypeOK, RelayTypeOK, StoreTypeOK, BrokerTypeOK, RelayStep, workerVars
<1>2. \A w \in Worker, i \in Id : Sending(w, i)' <=> Sending(w, i)
  BY <1>1 DEF Sending
<1>3. \A s \in Replica : s = r
  BY DEF OneReplica
<1>4. CASE FetchPendingOutbox(r)
  <2>1. /\ relay[r].pc = "Idle" /\ UNCHANGED <<outbox, queue>>
        /\ \E batch \in SUBSET PendingOutbox :
             RelayAt(r, "Publishing", batch, None, relay[r].publisher)
    BY <1>4 DEF FetchPendingOutbox, storeVars, brokerVars
  <2>2. ProcessesWork'
    BY <1>1, <2>1 DEF ProcessesWork, RelayAt, PendingOutbox
  <2>3. \A i \in Id : Unsent(i)' => Unsent(i)
    BY <1>3, <2>1 DEF Unsent
  <2> QED
    BY <1>1, <1>2, <2>1, <2>2, <2>3, RequestsKept
<1>5. CASE PublishSubscriptionConfirmation(r)
  <2>1. PICK i \in relay[r].batch :
          /\ PublishOk("Requested", i, "Good")
          /\ RelayAt(r, "Marking", relay[r].batch, i, "Good")
    BY <1>5 DEF PublishSubscriptionConfirmation, PublishErr, ProcessesWork
  <2>2. /\ i \in Id /\ outbox[i] = "Pending" /\ relay[r].pc = "Publishing"
        /\ UNCHANGED outbox /\ queue' = [queue EXCEPT !["Requested"][i] = @ + 1]
    BY <1>1, <1>5, <2>1, GoodPublish
    DEF PublishSubscriptionConfirmation, ProcessesWork, PendingOutbox, storeVars, Kind
  <2>3. ProcessesWork'
    BY <1>1, <2>1, <2>2 DEF ProcessesWork, RelayAt, PendingOutbox
  <2>4. Unsent(i) /\ ~Unsent(i)'
    BY <1>1, <1>3, <2>1, <2>2 DEF Unsent, RelayAt
  <2>5. RequestedOnce(i)'
    BY <1>1, <1>2, <2>2, <2>4 DEF RequestedOnce
  <2>6. ASSUME NEW j \in Id, j # i
        PROVE  RequestedOnce(j)'
    <3>1. Unsent(j)' => Unsent(j)
      BY <1>3, <2>2 DEF Unsent
    <3>2. queue'["Requested"][j] = queue["Requested"][j]
      BY <2>2, <2>6
    <3> QED
      BY <1>1, <1>2, <3>1, <3>2 DEF RequestedOnce
  <2> QED
    BY <2>3, <2>5, <2>6
<1>6. CASE MarkPublished(r)
  <2>1. /\ relay[r].pc = "Marking" /\ relay[r].cur \in relay[r].batch
        /\ outbox' = [outbox EXCEPT ![relay[r].cur] = "Published"]
        /\ RelayContinue(r) /\ UNCHANGED queue
    BY <1>6 DEF MarkPublished, MarkOutboxPublished, IInv, HandsFit, brokerVars
  <2>2. ProcessesWork'
    <3>1. PendingOutbox' = PendingOutbox \ {relay[r].cur}
      BY <1>1, <2>1 DEF PendingOutbox
    <3>2. /\ relay'[r].pc \in {"Idle", "Publishing"} /\ relay'[r].publisher = "Good"
          /\ relay'[r].batch = relay[r].batch \ {relay[r].cur}
      BY <1>1, <2>1 DEF RelayContinue, RelayAt, ProcessesWork
    <3> QED
      BY <1>1, <1>3, <3>1, <3>2 DEF ProcessesWork
  <2>3. \A i \in Id : Unsent(i)' => Unsent(i)
    BY <1>1, <1>3, <2>1 DEF Unsent
  <2> QED
    BY <1>1, <1>2, <2>1, <2>2, <2>3, RequestsKept
<1>7. ~RecordFailure(r)
  BY DEF RecordFailure, ProcessesWork
<1> QED
  BY <1>4, <1>5, <1>6, <1>7 DEF RelayStep, RelayNext

LEMMA WorkerIsFaultless ==
    ASSUME IInv, NEW w \in Worker, WorkerStep(w), ~Fault,
           ProcessesWork, \A i \in Id : RequestedOnce(i)
    PROVE  ProcessesWork' /\ \A i \in Id : RequestedOnce(i)'
<1>1. /\ worker \in [Worker -> WorkerState] /\ mailed \in SUBSET Id
      /\ queue \in [Kind -> [Id -> Nat]] /\ BrokerTypeOK
      /\ UNCHANGED <<outbox, relay, consumer>>
      /\ worker[w].publisher = "Good" /\ worker[w].open /\ ~worker[w].stopping
  BY DEF IInv, TypeOK, WorkerTypeOK, BrokerTypeOK, WorkerStep, storeVars, ProcessesWork
<1>2. \A i \in Id : Unsent(i)' <=> Unsent(i)
  BY <1>1 DEF Unsent
<1>3. ASSUME NEW pc \in {"Idle", "Sending", "Accepted", "Rejected", "Handled", "Errored"},
             NEW cur \in Id \cup {None}, WorkerAt(w, pc, cur, "Good")
      PROVE  /\ ProcessesWork'
             /\ \A i \in Id : Sending(w, i)' <=> pc = "Sending" /\ cur = i
             /\ \A v \in Worker, i \in Id : v # w => (Sending(v, i)' <=> Sending(v, i))
  BY <1>1, <1>3 DEF WorkerAt, ProcessesWork, Sending, PendingOutbox
<1>4. worker[w].pc # "Idle" => worker[w].cur \in Id
  BY <1>1 DEF IInv, HandsFit, WorkerState
<1>5. CASE DeliverRequest(w)
  <2>1. PICK i \in Id : /\ queue["Requested"][i] > 0 /\ worker[w].pc = "Idle"
                        /\ queue' = [queue EXCEPT !["Requested"][i] = @ - 1]
                        /\ WorkerAt(w, "Sending", i, "Good") /\ UNCHANGED mailed
    BY <1>1, <1>5 DEF DeliverRequest, Deliver
  <2>2. /\ ProcessesWork'
        /\ \A j \in Id : Sending(w, j)' <=> j = i
        /\ \A v \in Worker, j \in Id : v # w => (Sending(v, j)' <=> Sending(v, j))
    BY <1>3, <2>1
  <2>3. RequestedOnce(i)'
    <3>1. /\ queue["Requested"][i] = 1 /\ queue'["Requested"][i] = 0
          /\ i \notin mailed /\ ~Unsent(i) /\ \A v \in Worker : ~Sending(v, i)
      BY <1>1, <2>1 DEF RequestedOnce, Kind
    <3> QED
      BY <1>2, <2>1, <2>2, <3>1 DEF RequestedOnce
  <2>4. ASSUME NEW j \in Id, j # i
        PROVE  RequestedOnce(j)'
    BY <1>2, <2>1, <2>2, <2>4 DEF RequestedOnce
  <2> QED
    BY <2>2, <2>3, <2>4
<1>6. CASE SendAccepted(w) \/ SendRejected(w)
  <2>1. /\ worker[w].pc = "Sending" /\ UNCHANGED queue
        /\ mailed' \in {mailed, mailed \cup {worker[w].cur}}
        /\ \E pc \in {"Accepted", "Rejected"} : WorkerAt(w, pc, worker[w].cur, "Good")
    BY <1>1, <1>6 DEF SendAccepted, SendRejected, brokerVars
  <2>2. /\ ProcessesWork'
        /\ \A i \in Id : ~Sending(w, i)'
        /\ \A v \in Worker, i \in Id : v # w => (Sending(v, i)' <=> Sending(v, i))
    BY <1>3, <1>4, <2>1
  <2>3. ASSUME NEW i \in Id
        PROVE  RequestedOnce(i)'
    <3>1. CASE i = worker[w].cur
      <4>1. Sending(w, i)
        BY <2>1, <3>1 DEF Sending
      <4> QED
        BY <1>2, <2>1, <2>2, <4>1 DEF RequestedOnce
    <3>2. CASE i # worker[w].cur
      BY <1>2, <2>1, <2>2, <3>2 DEF RequestedOnce
    <3> QED
      BY <3>1, <3>2
  <2> QED
    BY <2>2, <2>3
<1>7. CASE PublishResult(w) \/ SettleRequest(w)
  <2>1. /\ queue'["Requested"] = queue["Requested"] /\ UNCHANGED mailed
        /\ \E pc \in {"Handled", "Idle"}, cur \in {worker[w].cur, None} :
             WorkerAt(w, pc, cur, "Good")
    <3>1. CASE PublishResult(w)
      <4>1. PICK k \in {"Succeeded", "Failed"} :
              /\ PublishOk(k, worker[w].cur, "Good")
              /\ WorkerAt(w, "Handled", worker[w].cur, "Good")
        BY <1>1, <3>1 DEF PublishResult, PublishErr
      <4> QED
        BY <1>1, <1>4, <3>1, <4>1, GoodPublish DEF PublishResult, Kind
    <3>2. CASE SettleRequest(w)
      BY <1>1, <3>2 DEF SettleRequest, DeadLetter, brokerVars
    <3> QED
      BY <1>7, <3>1, <3>2
  <2>2. /\ ProcessesWork'
        /\ \A v \in Worker, i \in Id : Sending(v, i)' => Sending(v, i)
    BY <1>1, <1>3, <2>1 DEF WorkerState
  <2> QED
    BY <1>2, <2>1, <2>2, RequestsKept
<1>8. ~RestartWorker(w)
  BY <1>1 DEF RestartWorker
<1> QED
  BY <1>5, <1>6, <1>7, <1>8 DEF WorkerStep, WorkerNext

\* Users and results have nothing to do with requests.
LEMMA OthersAreFaultless ==
    ASSUME IInv, ~Fault, ProcessesWork, \A i \in Id : RequestedOnce(i),
           UserNext \/ (\E r \in Replica : ConsumerStep(r)) \/ UNCHANGED vars
    PROVE  ProcessesWork' /\ \A i \in Id : RequestedOnce(i)'
<1>1. /\ outbox \in [Id -> OutboxStatus] /\ consumer \in [Replica -> ConsumerState]
      /\ queue \in [Kind -> [Id -> Nat]]
  BY DEF IInv, TypeOK, StoreTypeOK, ConsumerTypeOK, BrokerTypeOK
<1>2. ASSUME queue'["Requested"] = queue["Requested"], UNCHANGED <<relay, worker, mailed>>,
             \A r \in Replica : consumer'[r].open,
             \A i \in Id : /\ outbox[i] = "Pending" => outbox'[i] = "Pending"
                           /\ outbox[i] \notin {"None", "Pending"} => outbox'[i] = outbox[i]
      PROVE  ProcessesWork' /\ \A i \in Id : RequestedOnce(i)'
  <2>1. ProcessesWork'
    BY <1>2 DEF ProcessesWork, PendingOutbox
  <2>2. \A i \in Id : /\ Unsent(i)' => Unsent(i)
                      /\ \A w \in Worker : Sending(w, i)' => Sending(w, i)
    BY <1>2 DEF Unsent, Sending
  <2> QED
    BY <1>2, <2>1, <2>2, RequestsKept
<1>3. CASE UserNext
  <2>1. PICK i \in Id : Subscribe(i) \/ Confirm(i) \/ Unsubscribe(i)
    BY <1>3 DEF UserNext
  <2>2. UNCHANGED <<queue, relay, worker, mailed, consumer>>
    BY <2>1 DEF Subscribe, Confirm, Unsubscribe, brokerVars, workerVars
  <2>3. saga[i] = "None" => outbox[i] = "None"
    BY DEF IInv, RowsHaveSagas
  <2>4. \A j \in Id : /\ outbox[j] = "Pending" => outbox'[j] = "Pending"
                      /\ outbox[j] \notin {"None", "Pending"} => outbox'[j] = outbox[j]
    BY <1>1, <2>1, <2>3 DEF Subscribe, Confirm, Unsubscribe, StartSubscriptionConfirmation,
       Activate, DeleteByToken
  <2> QED
    BY <1>2, <2>2, <2>4 DEF ProcessesWork
<1>4. ASSUME NEW r \in Replica, ConsumerStep(r)
      PROVE  ProcessesWork' /\ \A i \in Id : RequestedOnce(i)'
  <2>1. ~RestartReplica(r)
    BY DEF RestartReplica, ProcessesWork
  <2>2. UNCHANGED <<outbox, relay, worker, mailed>>
    BY <1>4, <2>1
    DEF ConsumerStep, ConsumerNext, DeliverResult, HandleResult, SettleResult, RunSagaTransaction,
        CompleteSubscriptionConfirmation, CompensateSubscription, storeVars, workerVars
  <2>3. queue'["Requested"] = queue["Requested"]
    BY <1>1, <1>4, <2>1
    DEF ConsumerStep, ConsumerNext, DeliverResult, HandleResult, SettleResult, Deliver, DeadLetter,
        brokerVars, Result, Kind
  <2>4. \A s \in Replica : consumer'[s].open
    <3>1. \E pc, cur, kind : ConsumerAt(r, pc, cur, kind)
      BY <1>4, <2>1 DEF ConsumerStep, ConsumerNext, DeliverResult, HandleResult, SettleResult
    <3> QED
      BY <3>1 DEF ConsumerAt, ProcessesWork
  <2> QED
    BY <1>2, <2>2, <2>3, <2>4
<1>5. CASE UNCHANGED vars
  BY <1>2, <1>5 DEF vars, storeVars, brokerVars, ProcessesWork
<1> QED
  BY <1>3, <1>4, <1>5

LEMMA FaultlessStep == OneReplica /\ IInv /\ FaultlessInv /\ [Next]_vars => FaultlessInv'
<1> SUFFICES ASSUME OneReplica, IInv, FaultlessInv, [Next]_vars
             PROVE  FaultlessInv'
  OBVIOUS
<1>1. FaultNext => Fault
  BY DEF FaultNext, LoseConsumerChannel, CrashReplica, WorkerFault, CrashWorker,
     LoseWorkerChannel, StopWorker
<1>2. Fault \/ NoFault
  <2>1. CASE UserNext
    BY <2>1 DEF UserNext, Subscribe, Confirm, Unsubscribe
  <2>2. ASSUME NEW r \in Replica, RelayStep(r)
        PROVE  Fault \/ NoFault
    BY <2>2 DEF RelayStep, RelayNext, FetchPendingOutbox, PublishSubscriptionConfirmation,
       MarkPublished, RecordFailure, PublishOk, PublishErr
  <2>3. ASSUME NEW r \in Replica, ConsumerStep(r)
        PROVE  Fault \/ NoFault
    BY <2>3 DEF ConsumerStep, ConsumerNext, DeliverResult, HandleResult, SettleResult,
       RestartReplica
  <2>4. ASSUME NEW w \in Worker, WorkerStep(w)
        PROVE  Fault \/ NoFault
    BY <2>4 DEF WorkerStep, WorkerNext, DeliverRequest, SendAccepted, SendRejected,
       PublishResult, SettleRequest, RestartWorker, PublishOk, PublishErr
  <2> QED
    BY <1>1, <2>1, <2>2, <2>3, <2>4 DEF Next, vars, NoFault
<1>3. faults' <= MaxFaults
  BY <1>2, MaxFaultsAssumption DEF IInv, TypeOK, BrokerTypeOK, FaultlessInv, Fault, NoFault
<1>4. ASSUME faults' = MaxFaults
      PROVE  ProcessesWork' /\ \A i \in Id : RequestedOnce(i)'
  <2>1. /\ faults = MaxFaults /\ ~Fault
        /\ ProcessesWork /\ \A i \in Id : RequestedOnce(i)
    BY <1>2, <1>4, FaultlessBefore
  <2> QED
    BY <1>1, <2>1, RelayIsFaultless, WorkerIsFaultless, OthersAreFaultless DEF Next
<1> QED
  BY <1>3, <1>4 DEF FaultlessInv

\* With one replica, nobody gets a second confirmation email, however many
\* workers there are, before something has failed.
THEOREM OneEmailWithoutFault ==
    ASSUME OneReplica
    PROVE  Spec => []DuplicateTakesFault
<1>1. Init => FaultlessInv
  <2> SUFFICES ASSUME Init
               PROVE  FaultlessInv
    OBVIOUS
  <2>1. /\ relay = [r \in Replica |-> RelayStarted] /\ worker = [w \in Worker |-> WorkerStarted]
        /\ consumer = [r \in Replica |-> ConsumerStarted] /\ mailed = {}
        /\ faults = MaxFaults /\ queue = [k \in Kind |-> [i \in Id |-> 0]]
    BY DEF Init, RelayInit, WorkerInit, ConsumerInit, BrokerInit, FaultsInit
  <2>2. ProcessesWork
    BY <2>1 DEF ProcessesWork, RelayStarted, WorkerStarted, ConsumerStarted
  <2>3. \A i \in Id : RequestedOnce(i)
    <3>1. \A w \in Worker, i \in Id : ~Sending(w, i)
      BY <2>1 DEF Sending, WorkerStarted
    <3>2. \A i \in Id : queue["Requested"][i] = 0
      BY <2>1 DEF Kind
    <3>3. mailed = {}
      BY <2>1
    <3>4. ASSUME NEW i \in Id
          PROVE  RequestedOnce(i)
      <4>1. queue["Requested"][i] = 0 /\ i \notin mailed /\ \A w \in Worker : ~Sending(w, i)
        BY <3>1, <3>2, <3>3
      <4> QED
        BY <4>1 DEF RequestedOnce
    <3> QED
      BY <3>4
  <2> QED
    BY <2>1, <2>2, <2>3, MaxFaultsAssumption DEF FaultlessInv
<1>2. IInv /\ FaultlessInv => DuplicateTakesFault
  BY DEF IInv, TypeOK, WorkerTypeOK, FaultlessInv, RequestedOnce, Sending, DuplicateTakesFault
<1> QED
  BY <1>1, <1>2, FaultlessStep, Invariance, PTL DEF Spec
=============================================================================
