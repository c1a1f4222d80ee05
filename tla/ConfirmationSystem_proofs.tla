---------------------- MODULE ConfirmationSystem_proofs ----------------------
(***************************************************************************)
(* Theorems about ConfirmationSystem for any sets of subscriptions, keys,  *)
(* replicas and workers, any number of attempts and any number of faults.  *)
(***************************************************************************)
EXTENDS ConfirmationSystem, TLAPS

(***************************************************************************)
(* Types.  The store, the broker and each kind of process keep theirs      *)
(* under every step that touches them.                                     *)
(***************************************************************************)
LEMMA FaultType ==
    ASSUME BrokerTypeOK, Fault \/ NoFault
    PROVE  faults' \in Nat
  BY DEF BrokerTypeOK, Fault, NoFault

LEMMA PublisherType ==
    /\ "Good" \in Publisher
    /\ \A p \in Publisher : AfterPublishErr(p) \subseteq Publisher
  BY DEF Publisher, AfterPublishErr

LEMMA PublishType ==
    ASSUME BrokerTypeOK, NEW k \in Kind, NEW i \in Id, NEW pub \in Publisher, NEW cancelled,
           PublishOk(k, i, pub) \/ PublishErr(k, i, pub, cancelled)
    PROVE  BrokerTypeOK'
  BY DEF BrokerTypeOK, PublishOk, PublishErr, Enqueue, Fault, NoFault, Kind

LEMMA DeliveryType ==
    ASSUME BrokerTypeOK, NEW k \in Kind, NEW i \in Id, Fault \/ NoFault,
           Deliver(k, i) \/ DeadLetter(i) \/ Requeue(k, i) \/ UNCHANGED brokerVars
    PROVE  BrokerTypeOK'
  BY DEF BrokerTypeOK, Deliver, DeadLetter, Requeue, Enqueue, Fault, NoFault, Kind, brokerVars

LEMMA StoreType ==
    ASSUME StoreTypeOK, NEW i \in Id, NEW ok \in BOOLEAN,
           \/ \E k \in Key : StartSubscriptionConfirmation(i, k)
           \/ Activate(i) \/ DeleteByToken(i)
           \/ CompleteSubscriptionConfirmation(i, ok)
           \/ CompensateSubscription(i, ok)
           \/ MarkOutboxPublished(i) \/ RecordOutboxFailure(i)
           \/ UNCHANGED storeVars
    PROVE  StoreTypeOK'
  BY DEF StoreTypeOK, StartSubscriptionConfirmation, Activate, DeleteByToken,
         CompleteSubscriptionConfirmation, CompensateSubscription, DeleteByID,
         MarkOutboxPublished, RecordOutboxFailure, storeVars,
         RowStatus, SagaStatus, OutboxStatus

LEMMA RelayTypes ==
    ASSUME TypeOK, HandsFit, NEW r \in Replica, RelayStep(r)
    PROVE  TypeOK'
<1> USE DEF TypeOK, RelayTypeOK, RelayState, RelayAt
<1>0. WorkerTypeOK' /\ ConsumerTypeOK'
  BY DEF RelayStep, workerVars, WorkerTypeOK, ConsumerTypeOK
<1>1. CASE FetchPendingOutbox(r)
  <2>1. StoreTypeOK'
    BY <1>1 DEF FetchPendingOutbox, storeVars, StoreTypeOK
  <2>2. BrokerTypeOK'
    BY <1>1 DEF FetchPendingOutbox, brokerVars, BrokerTypeOK, NoFault
  <2>3. RelayTypeOK'
    BY <1>1 DEF FetchPendingOutbox, PendingOutbox
  <2> QED BY <1>0, <2>1, <2>2, <2>3
<1>2. CASE PublishSubscriptionConfirmation(r)
  <2>1. StoreTypeOK'
    BY <1>2 DEF PublishSubscriptionConfirmation, storeVars, StoreTypeOK
  <2>2. BrokerTypeOK'
    BY <1>2, PublishType DEF PublishSubscriptionConfirmation, Kind
  <2>3. PICK i \in relay[r].batch, pc \in {"Marking", "Recording"}, after \in Publisher :
            RelayAt(r, pc, relay[r].batch, i, after)
    BY <1>2, PublisherType DEF PublishSubscriptionConfirmation
  <2>4. RelayTypeOK'
    BY <2>3
  <2> QED BY <1>0, <2>1, <2>2, <2>4
<1>3. CASE MarkPublished(r)
  <2>0. relay[r].cur \in Id
    BY <1>3 DEF MarkPublished, HandsFit
  <2>1. StoreTypeOK'
    BY <1>3, <2>0, StoreType DEF MarkPublished
  <2>2. BrokerTypeOK'
    BY <1>3, FaultType DEF MarkPublished, brokerVars, BrokerTypeOK
  <2>3. RelayTypeOK'
    BY <1>3 DEF MarkPublished, RelayContinue
  <2> QED BY <1>0, <2>1, <2>2, <2>3
<1>4. CASE RecordFailure(r)
  <2>0. relay[r].cur \in Id
    BY <1>4 DEF RecordFailure, HandsFit
  <2>1. StoreTypeOK'
    BY <1>4, <2>0, StoreType DEF RecordFailure
  <2>2. BrokerTypeOK'
    BY <1>4, FaultType DEF RecordFailure, brokerVars, BrokerTypeOK
  <2>3. RelayTypeOK'
    BY <1>4 DEF RecordFailure, RelayContinue
  <2> QED BY <1>0, <2>1, <2>2, <2>3
<1> QED BY <1>1, <1>2, <1>3, <1>4 DEF RelayStep, RelayNext

LEMMA WorkerTypes ==
    ASSUME TypeOK, HandsFit, NEW w \in Worker,
           WorkerStep(w) \/ (WorkerFault(w) /\ UNCHANGED <<storeVars, relay, consumer>>)
    PROVE  TypeOK'
<1> USE DEF WorkerState, WorkerAt, WorkerStarted
<1>0. StoreTypeOK' /\ RelayTypeOK' /\ ConsumerTypeOK'
  BY DEF WorkerStep, storeVars, TypeOK, StoreTypeOK, RelayTypeOK, ConsumerTypeOK
<1>1. worker \in [Worker -> WorkerState] /\ mailed \in SUBSET Id
  BY DEF TypeOK, WorkerTypeOK
<1>2. worker[w].pc # "Idle" => worker[w].cur \in Id
  BY <1>1 DEF HandsFit
<1>3. CASE DeliverRequest(w)
  <2>1. BrokerTypeOK'
    BY <1>3, DeliveryType DEF DeliverRequest, TypeOK, Kind
  <2>2. WorkerTypeOK'
    BY <1>1, <1>3 DEF DeliverRequest, WorkerTypeOK
  <2> QED BY <1>0, <2>1, <2>2 DEF TypeOK
<1>4. CASE SendAccepted(w) \/ SendRejected(w)
  <2>1. BrokerTypeOK'
    BY <1>4, FaultType DEF SendAccepted, SendRejected, TypeOK, BrokerTypeOK, brokerVars
  <2>2. WorkerTypeOK'
    BY <1>1, <1>2, <1>4 DEF SendAccepted, SendRejected, WorkerTypeOK
  <2> QED BY <1>0, <2>1, <2>2 DEF TypeOK
<1>5. CASE PublishResult(w)
  <2>1. PICK pc \in {"Handled", "Errored"}, after \in Publisher :
            WorkerAt(w, pc, worker[w].cur, after)
    BY <1>1, <1>5, PublisherType DEF PublishResult
  <2>2. BrokerTypeOK'
    BY <1>1, <1>2, <1>5, PublishType DEF PublishResult, TypeOK, Kind
  <2>3. WorkerTypeOK'
    BY <1>1, <1>2, <1>5, <2>1 DEF PublishResult, WorkerTypeOK
  <2> QED BY <1>0, <2>2, <2>3 DEF TypeOK
<1>6. CASE SettleRequest(w)
  <2>1. BrokerTypeOK'
    BY <1>1, <1>2, <1>6, DeliveryType DEF SettleRequest, TypeOK, Kind
  <2>2. WorkerTypeOK'
    BY <1>1, <1>6 DEF SettleRequest, WorkerTypeOK
  <2> QED BY <1>0, <2>1, <2>2 DEF TypeOK
<1>7. CASE RestartWorker(w) \/ StopWorker(w)
  <2>1. BrokerTypeOK'
    BY <1>7, FaultType DEF RestartWorker, StopWorker, TypeOK, BrokerTypeOK, brokerVars
  <2>2. CASE RestartWorker(w)
    <3>1. WorkerTypeOK'
      BY <1>1, <2>2, PublisherType DEF RestartWorker, WorkerTypeOK
    <3> QED BY <1>0, <2>1, <3>1 DEF TypeOK
  <2>3. CASE StopWorker(w)
    <3>1. [worker[w] EXCEPT !.stopping = TRUE] \in WorkerState
      BY <1>1
    <3>2. WorkerTypeOK'
      BY <1>1, <2>3, <3>1 DEF StopWorker, WorkerTypeOK
    <3> QED BY <1>0, <2>1, <3>2 DEF TypeOK
  <2> QED BY <1>7, <2>2, <2>3
<1>8. CASE CrashWorker(w) \/ LoseWorkerChannel(w)
  <2>1. ReturnRequest(w) /\ Fault
    BY <1>8 DEF CrashWorker, LoseWorkerChannel
  <2>2. worker[w].cur # None => worker[w].cur \in Id
    BY <1>1
  <2>3. BrokerTypeOK'
    BY <2>1, <2>2, FaultType DEF ReturnRequest, Requeue, Enqueue, TypeOK, BrokerTypeOK,
       brokerVars, Kind
  <2>4. CASE CrashWorker(w)
    <3>1. WorkerTypeOK'
      BY <1>1, <2>4, PublisherType DEF CrashWorker, WorkerTypeOK
    <3> QED BY <1>0, <2>3, <3>1 DEF TypeOK
  <2>5. CASE LoseWorkerChannel(w)
    <3>1. [worker[w] EXCEPT !.open = FALSE] \in WorkerState
      BY <1>1
    <3>2. WorkerTypeOK'
      BY <1>1, <2>5, <3>1 DEF LoseWorkerChannel, WorkerTypeOK
    <3> QED BY <1>0, <2>3, <3>2 DEF TypeOK
  <2> QED BY <1>8, <2>4, <2>5
<1> QED
  BY <1>3, <1>4, <1>5, <1>6, <1>7, <1>8 DEF WorkerStep, WorkerNext, WorkerFault

LEMMA ReturnResultType ==
    ASSUME BrokerTypeOK, NEW r \in Replica, consumer[r] \in ConsumerState,
           ReturnResult(r), Fault
    PROVE  BrokerTypeOK'
<1>1. CASE consumer[r].cur # None /\ consumer[r].open
  <2>1. consumer[r].cur \in Id /\ consumer[r].kind \in Kind
    BY <1>1 DEF ConsumerState, Result, Kind
  <2> QED BY <1>1, <2>1, DeliveryType DEF ReturnResult
<1>2. CASE ~(consumer[r].cur # None /\ consumer[r].open)
  BY <1>2, FaultType DEF ReturnResult, BrokerTypeOK, brokerVars
<1> QED BY <1>1, <1>2

LEMMA ConsumerTypes ==
    ASSUME TypeOK, HandsFit, NEW r \in Replica,
           \/ ConsumerStep(r)
           \/ LoseConsumerChannel(r) /\ UNCHANGED <<relay, workerVars>>
           \/ CrashReplica(r) /\ UNCHANGED workerVars
    PROVE  TypeOK'
<1> USE DEF ConsumerState, ConsumerAt, ConsumerStarted
<1>0. WorkerTypeOK'
  BY DEF ConsumerStep, workerVars, TypeOK, WorkerTypeOK
<1>1. consumer \in [Replica -> ConsumerState] /\ relay \in [Replica -> RelayState]
  BY DEF TypeOK, ConsumerTypeOK, RelayTypeOK
<1>2. consumer[r].pc # "Idle" => consumer[r].cur \in Id
  BY <1>1 DEF HandsFit
<1>3. CASE DeliverResult(r) /\ UNCHANGED relay
  <2>1. StoreTypeOK' /\ RelayTypeOK'
    BY <1>3 DEF DeliverResult, storeVars, TypeOK, StoreTypeOK, RelayTypeOK
  <2>2. BrokerTypeOK'
    BY <1>3, DeliveryType DEF DeliverResult, TypeOK, Kind, Result
  <2>3. ConsumerTypeOK'
    BY <1>1, <1>3 DEF DeliverResult, ConsumerTypeOK
  <2> QED BY <1>0, <2>1, <2>2, <2>3 DEF TypeOK
<1>4. CASE HandleResult(r) /\ UNCHANGED relay
  <2>1. StoreTypeOK'
    BY <1>2, <1>4, StoreType DEF HandleResult, RunSagaTransaction, TypeOK
  <2>2. BrokerTypeOK' /\ RelayTypeOK'
    BY <1>4, FaultType DEF HandleResult, TypeOK, BrokerTypeOK, brokerVars, RelayTypeOK
  <2>3. PICK pc \in {"Handled", "Errored"} :
            ConsumerAt(r, pc, consumer[r].cur, consumer[r].kind)
    BY <1>4 DEF HandleResult
  <2>4. ConsumerTypeOK'
    BY <1>1, <1>2, <2>3 DEF ConsumerTypeOK
  <2> QED BY <1>0, <2>1, <2>2, <2>4 DEF TypeOK
<1>5. CASE SettleResult(r) /\ UNCHANGED relay
  <2>1. StoreTypeOK' /\ RelayTypeOK'
    BY <1>5 DEF SettleResult, storeVars, TypeOK, StoreTypeOK, RelayTypeOK
  <2>2. BrokerTypeOK'
    BY <1>1, <1>2, <1>5, DeliveryType DEF SettleResult, TypeOK, Kind
  <2>3. ConsumerTypeOK'
    BY <1>1, <1>5 DEF SettleResult, ConsumerTypeOK, Result
  <2> QED BY <1>0, <2>1, <2>2, <2>3 DEF TypeOK
<1>6. CASE LoseConsumerChannel(r) /\ UNCHANGED relay
  <2>1. StoreTypeOK' /\ RelayTypeOK'
    BY <1>6 DEF LoseConsumerChannel, storeVars, TypeOK, StoreTypeOK, RelayTypeOK
  <2>2. BrokerTypeOK'
    BY <1>1, <1>6, ReturnResultType DEF LoseConsumerChannel, TypeOK
  <2>3. ConsumerTypeOK'
    BY <1>1, <1>6 DEF LoseConsumerChannel, ConsumerTypeOK
  <2> QED BY <1>0, <2>1, <2>2, <2>3 DEF TypeOK
<1>7. CASE CrashReplica(r) \/ RestartReplica(r)
  <2>1. StoreTypeOK'
    BY <1>7 DEF CrashReplica, RestartReplica, storeVars, TypeOK, StoreTypeOK
  <2>2. BrokerTypeOK'
    <3>1. CASE CrashReplica(r)
      BY <1>1, <3>1, ReturnResultType DEF CrashReplica, TypeOK
    <3>2. CASE RestartReplica(r)
      BY <3>2, FaultType DEF RestartReplica, TypeOK, BrokerTypeOK, brokerVars
    <3> QED BY <1>7, <3>1, <3>2
  <2>3. /\ relay' = [relay EXCEPT ![r] = RelayStarted]
        /\ consumer' = [consumer EXCEPT ![r] = ConsumerStarted]
    BY <1>7 DEF CrashReplica, RestartReplica
  <2>4. RelayTypeOK' /\ ConsumerTypeOK'
    <3>1. RelayStarted \in RelayState /\ ConsumerStarted \in ConsumerState
      BY PublisherType DEF RelayStarted, RelayState, Result
    <3> QED BY <1>1, <2>3, <3>1 DEF RelayTypeOK, ConsumerTypeOK
  <2> QED BY <1>0, <2>1, <2>2, <2>4 DEF TypeOK
<1> QED BY <1>3, <1>4, <1>5, <1>6, <1>7 DEF ConsumerStep, ConsumerNext

LEMMA UserTypes ==
    ASSUME TypeOK, UserNext
    PROVE  TypeOK'
<1>1. PICK i \in Id : Subscribe(i) \/ Confirm(i) \/ Unsubscribe(i)
  BY DEF UserNext
<1>2. StoreTypeOK'
  BY <1>1, StoreType DEF Subscribe, Confirm, Unsubscribe, TypeOK
<1>3. BrokerTypeOK' /\ RelayTypeOK' /\ WorkerTypeOK' /\ ConsumerTypeOK'
  BY <1>1 DEF Subscribe, Confirm, Unsubscribe, TypeOK, brokerVars, workerVars, NoFault,
     BrokerTypeOK, RelayTypeOK, WorkerTypeOK, ConsumerTypeOK
<1> QED BY <1>2, <1>3 DEF TypeOK

LEMMA NextTypes ==
    ASSUME TypeOK, HandsFit, [Next]_vars
    PROVE  TypeOK'
<1>1. CASE Next
  BY <1>1, UserTypes, RelayTypes, WorkerTypes, ConsumerTypes DEF Next, FaultNext
<1>2. CASE UNCHANGED vars
  BY <1>2 DEF vars, storeVars, brokerVars, TypeOK, StoreTypeOK, BrokerTypeOK,
     RelayTypeOK, WorkerTypeOK, ConsumerTypeOK
<1> QED BY <1>1, <1>2

(***************************************************************************)
(* Hands.                                                                  *)
(***************************************************************************)
LEMMA NextHands ==
    ASSUME TypeOK, HandsFit, [Next]_vars
    PROVE  HandsFit'
<1> USE NoneAssumption DEF HandsFit, RelayAt, WorkerAt, ConsumerAt
<1>0. /\ relay \in [Replica -> RelayState]
      /\ worker \in [Worker -> WorkerState]
      /\ consumer \in [Replica -> ConsumerState]
  BY DEF TypeOK, RelayTypeOK, WorkerTypeOK, ConsumerTypeOK
<1>1. CASE UserNext \/ UNCHANGED vars
  <2>1. UNCHANGED <<relay, worker, consumer>>
    BY <1>1 DEF UserNext, Subscribe, Confirm, Unsubscribe, workerVars, vars
  <2> QED BY <2>1
<1>2. ASSUME NEW r \in Replica, RelayStep(r)
      PROVE  HandsFit'
  <2>1. UNCHANGED <<worker, consumer>>
    BY <1>2 DEF RelayStep, workerVars
  <2>2. ASSUME NEW q \in Replica
        PROVE  relay'[q].pc \in {"Marking", "Recording"} => relay'[q].cur \in relay'[q].batch
    <3>1. CASE FetchPendingOutbox(r)
      BY <1>0, <3>1 DEF FetchPendingOutbox
    <3>2. CASE PublishSubscriptionConfirmation(r)
      <4>1. PICK i \in relay[r].batch, pc \in {"Marking", "Recording"}, after \in Publisher :
                RelayAt(r, pc, relay[r].batch, i, after)
        BY <1>0, <3>2, PublisherType DEF PublishSubscriptionConfirmation, RelayState
      <4> QED BY <1>0, <4>1
    <3>3. CASE MarkPublished(r)
      BY <1>0, <3>3 DEF MarkPublished, RelayContinue
    <3>4. CASE RecordFailure(r)
      BY <1>0, <3>4 DEF RecordFailure, RelayContinue
    <3> QED BY <1>2, <3>1, <3>2, <3>3, <3>4 DEF RelayStep, RelayNext
  <2> QED BY <2>1, <2>2
<1>3. ASSUME NEW w \in Worker,
             WorkerStep(w) \/ (WorkerFault(w) /\ UNCHANGED <<storeVars, relay, consumer>>)
      PROVE  HandsFit'
  <2>1. UNCHANGED <<relay, consumer>>
    BY <1>3 DEF WorkerStep
  <2>2. ASSUME NEW v \in Worker
        PROVE  worker'[v].pc = "Idle" <=> worker'[v].cur = None
    <3>1. CASE WorkerFault(w) \/ RestartWorker(w)
      BY <1>0, <3>1 DEF WorkerFault, CrashWorker, LoseWorkerChannel, StopWorker,
         RestartWorker, WorkerStarted, WorkerState
    <3>2. CASE DeliverRequest(w)
      BY <1>0, <3>2 DEF DeliverRequest, WorkerState
    <3>3. CASE SendAccepted(w) \/ SendRejected(w)
      BY <1>0, <3>3 DEF SendAccepted, SendRejected
    <3>4. CASE PublishResult(w)
      <4>1. PICK pc \in {"Handled", "Errored"}, after \in Publisher :
                WorkerAt(w, pc, worker[w].cur, after)
        BY <1>0, <3>4, PublisherType DEF PublishResult, WorkerState
      <4> QED BY <1>0, <3>4, <4>1 DEF PublishResult
    <3>5. CASE SettleRequest(w)
      BY <1>0, <3>5 DEF SettleRequest
    <3> QED BY <1>3, <3>1, <3>2, <3>3, <3>4, <3>5 DEF WorkerStep, WorkerNext
  <2> QED BY <2>1, <2>2
<1>4. ASSUME NEW r \in Replica,
             \/ ConsumerStep(r)
             \/ LoseConsumerChannel(r) /\ UNCHANGED <<relay, workerVars>>
             \/ CrashReplica(r) /\ UNCHANGED workerVars
      PROVE  HandsFit'
  <2>1. worker' = worker
    BY <1>4 DEF ConsumerStep, workerVars
  <2>2. ASSUME NEW q \in Replica
        PROVE  relay'[q].pc \in {"Marking", "Recording"} => relay'[q].cur \in relay'[q].batch
    BY <1>0, <1>4 DEF ConsumerStep, CrashReplica, RestartReplica, RelayStarted
  <2>3. ASSUME NEW q \in Replica
        PROVE  consumer'[q].pc = "Idle" <=> consumer'[q].cur = None
    <3>1. CASE CrashReplica(r) \/ RestartReplica(r) \/ LoseConsumerChannel(r)
      BY <1>0, <3>1 DEF CrashReplica, RestartReplica, LoseConsumerChannel, ConsumerStarted,
         ConsumerState
    <3>2. CASE DeliverResult(r)
      BY <1>0, <3>2 DEF DeliverResult
    <3>3. CASE HandleResult(r)
      <4>1. PICK pc \in {"Handled", "Errored"} :
                ConsumerAt(r, pc, consumer[r].cur, consumer[r].kind)
        BY <3>3 DEF HandleResult
      <4> QED BY <1>0, <3>3, <4>1 DEF HandleResult
    <3>4. CASE SettleResult(r)
      BY <1>0, <3>4 DEF SettleResult
    <3> QED BY <1>4, <3>1, <3>2, <3>3, <3>4 DEF ConsumerStep, ConsumerNext
  <2> QED BY <2>1, <2>2, <2>3
<1> QED BY <1>1, <1>2, <1>3, <1>4 DEF Next, FaultNext

(***************************************************************************)
(* Rows and sagas.                                                         *)
(***************************************************************************)
LEMMA NextRows ==
    ASSUME IInv, [Next]_vars
    PROVE  RowsHaveSagas'
<1> USE DEF RowsHaveSagas, HasRow
<1>0. TypeOK /\ StoreTypeOK /\ HandsFit /\ RowsHaveSagas /\ MessagesHaveSagas
  BY DEF IInv, TypeOK
<1>1. CASE UserNext
  BY <1>0, <1>1 DEF UserNext, Subscribe, Confirm, Unsubscribe, StoreTypeOK,
     StartSubscriptionConfirmation, Activate, DeleteByToken
<1>2. ASSUME NEW r \in Replica, RelayStep(r)
      PROVE  RowsHaveSagas'
  <2>1. UNCHANGED <<row, saga>>
    BY <1>2 DEF RelayStep, RelayNext, FetchPendingOutbox, PublishSubscriptionConfirmation,
       MarkPublished, RecordFailure, MarkOutboxPublished, RecordOutboxFailure, storeVars
  <2>2. \A i \in Id : outbox'[i] # outbox[i] => outbox'[i] # "None" /\ i \in relay[r].batch
    BY <1>0, <1>2 DEF RelayStep, RelayNext, FetchPendingOutbox, HandsFit, StoreTypeOK,
       PublishSubscriptionConfirmation, MarkPublished, RecordFailure,
       MarkOutboxPublished, RecordOutboxFailure, storeVars
  <2>3. \A i \in relay[r].batch : i \in Id => saga[i] # "None"
    BY <1>0 DEF MessagesHaveSagas
  <2> QED BY <1>0, <2>1, <2>2, <2>3
<1>3. ASSUME NEW w \in Worker, WorkerStep(w) \/ WorkerFault(w), UNCHANGED storeVars
      PROVE  RowsHaveSagas'
  BY <1>0, <1>3 DEF storeVars
<1>4. ASSUME NEW r \in Replica, ConsumerStep(r)
      PROVE  RowsHaveSagas'
  <2>1. CASE HandleResult(r)
    <3>1. consumer[r].cur \in Id /\ saga[consumer[r].cur] # "None"
      BY <1>0, <2>1 DEF HandleResult, HandsFit, MessagesHaveSagas, TypeOK, ConsumerTypeOK,
         ConsumerState
    <3>2. UNCHANGED outbox
      BY <2>1 DEF HandleResult, RunSagaTransaction, CompleteSubscriptionConfirmation,
         CompensateSubscription, storeVars
    <3>3. \/ UNCHANGED <<row, saga>>
          \/ /\ MayComplete(consumer[r].cur)
             /\ row' = row
             /\ saga' = [saga EXCEPT ![consumer[r].cur] = "Completed"]
          \/ /\ row' = [row EXCEPT ![consumer[r].cur] = "Absent"]
             /\ saga' = [saga EXCEPT ![consumer[r].cur] = "Compensated"]
      BY <2>1 DEF HandleResult, RunSagaTransaction, CompleteSubscriptionConfirmation,
         CompensateSubscription, DeleteByID, storeVars
    <3> QED BY <1>0, <3>1, <3>2, <3>3 DEF StoreTypeOK, MayComplete
  <2>2. CASE ~HandleResult(r)
    <3>1. UNCHANGED storeVars
      BY <1>4, <2>2 DEF ConsumerStep, ConsumerNext, DeliverResult, SettleResult, RestartReplica
    <3> QED BY <1>0, <3>1 DEF storeVars
  <2> QED BY <2>1, <2>2
<1>5. CASE UNCHANGED storeVars
  BY <1>0, <1>5 DEF storeVars
<1> QED
  BY <1>1, <1>2, <1>3, <1>4, <1>5 DEF Next, WorkerStep, FaultNext, LoseConsumerChannel,
     CrashReplica, vars

LEMMA NextMessages ==
    ASSUME IInv, [Next]_vars
    PROVE  MessagesHaveSagas'
<1> DEFINE Quiet(i) == /\ \A k \in Kind : queue[k][i] = 0
                       /\ \A r \in Replica : i \notin relay[r].batch /\ consumer[r].cur # i
                       /\ \A w \in Worker : worker[w].cur # i
                       /\ i \notin mailed
<1>0. TypeOK /\ StoreTypeOK /\ BrokerTypeOK /\ HandsFit /\ RowsHaveSagas
  BY DEF IInv, TypeOK
<1>1. /\ relay \in [Replica -> RelayState]
      /\ worker \in [Worker -> WorkerState]
      /\ consumer \in [Replica -> ConsumerState]
  BY <1>0 DEF TypeOK, RelayTypeOK, WorkerTypeOK, ConsumerTypeOK
<1> SUFFICES ASSUME NEW i \in Id, saga'[i] = "None"
             PROVE  Quiet(i)'
  BY DEF MessagesHaveSagas
<1>2. saga[i] = "None"
  <2>1. CASE UserNext
    BY <1>0, <2>1 DEF UserNext, Subscribe, Confirm, Unsubscribe, StoreTypeOK,
       StartSubscriptionConfirmation, Activate, DeleteByToken
  <2>2. ASSUME NEW r \in Replica, HandleResult(r)
        PROVE  saga[i] = "None"
    BY <1>0, <2>2 DEF HandleResult, RunSagaTransaction, CompleteSubscriptionConfirmation,
       CompensateSubscription, storeVars, StoreTypeOK
  <2>3. CASE UNCHANGED saga
    BY <2>3
  <2> QED
    BY <2>1, <2>2, <2>3 DEF Next, RelayStep, RelayNext, FetchPendingOutbox,
       PublishSubscriptionConfirmation, MarkPublished, RecordFailure, MarkOutboxPublished,
       RecordOutboxFailure, WorkerStep, ConsumerStep, ConsumerNext, DeliverResult,
       SettleResult, RestartReplica, FaultNext, LoseConsumerChannel, CrashReplica, vars,
       storeVars
<1>3. Quiet(i) /\ outbox[i] = "None"
  BY <1>0, <1>2 DEF IInv, MessagesHaveSagas, RowsHaveSagas
<1>4. i # None
  BY NoneAssumption
<1>5. CASE UserNext \/ UNCHANGED vars
  BY <1>3, <1>5 DEF UserNext, Subscribe, Confirm, Unsubscribe, brokerVars, workerVars, vars
<1>6. ASSUME NEW r \in Replica, RelayStep(r)
      PROVE  Quiet(i)'
  <2>1. UNCHANGED <<worker, mailed, consumer>>
    BY <1>6 DEF RelayStep, workerVars
  <2>2. \A k \in Kind : queue'[k][i] = 0
    BY <1>0, <1>1, <1>3, <1>6 DEF RelayStep, RelayNext, FetchPendingOutbox,
       PublishSubscriptionConfirmation, MarkPublished, RecordFailure, PublishOk, PublishErr,
       Enqueue, brokerVars, BrokerTypeOK, RelayState, Kind
  <2>3. \A q \in Replica : i \notin relay'[q].batch
    <3>1. CASE FetchPendingOutbox(r)
      BY <1>1, <1>3, <3>1 DEF FetchPendingOutbox, PendingOutbox, RelayAt
    <3>2. CASE PublishSubscriptionConfirmation(r)
      <4>1. PICK j \in relay[r].batch, pc \in {"Marking", "Recording"}, after \in Publisher :
                RelayAt(r, pc, relay[r].batch, j, after)
        BY <1>1, <3>2, PublisherType DEF PublishSubscriptionConfirmation, RelayState
      <4> QED BY <1>1, <1>3, <4>1 DEF RelayAt
    <3>3. CASE MarkPublished(r) \/ RecordFailure(r)
      BY <1>1, <1>3, <3>3 DEF MarkPublished, RecordFailure, RelayContinue, RelayAt
    <3> QED BY <1>6, <3>1, <3>2, <3>3 DEF RelayStep, RelayNext
  <2> QED BY <1>3, <2>1, <2>2, <2>3
<1>7. ASSUME NEW w \in Worker,
             WorkerStep(w) \/ (WorkerFault(w) /\ UNCHANGED <<storeVars, relay, consumer>>)
      PROVE  Quiet(i)'
  <2>0. UNCHANGED <<relay, consumer>>
    BY <1>7 DEF WorkerStep
  <2>2. CASE DeliverRequest(w)
    BY <1>0, <1>1, <1>3, <2>0, <2>2 DEF DeliverRequest, Deliver, WorkerAt, BrokerTypeOK, Kind
  <2>3. CASE SendAccepted(w) \/ SendRejected(w)
    BY <1>0, <1>1, <1>3, <2>0, <2>3 DEF SendAccepted, SendRejected, WorkerAt, brokerVars
  <2>4. CASE PublishResult(w)
    <3>1. PICK pc \in {"Handled", "Errored"}, after \in Publisher :
              WorkerAt(w, pc, worker[w].cur, after)
      BY <1>1, <2>4, PublisherType DEF PublishResult, WorkerState
    <3>2. \A k \in Kind : queue'[k][i] = 0
      BY <1>0, <1>3, <2>4 DEF PublishResult, PublishOk, PublishErr, Enqueue, BrokerTypeOK, Kind
    <3> QED BY <1>1, <1>3, <2>0, <2>4, <3>1, <3>2 DEF PublishResult, WorkerAt
  <2>5. CASE SettleRequest(w)
    BY <1>1, <1>3, <1>4, <2>0, <2>5 DEF SettleRequest, WorkerAt, DeadLetter, brokerVars
  <2>6. CASE CrashWorker(w) \/ LoseWorkerChannel(w)
    <3>1. ReturnRequest(w) /\ UNCHANGED mailed
      BY <2>6 DEF CrashWorker, LoseWorkerChannel
    <3>2. \A k \in Kind : queue'[k][i] = 0
      BY <1>0, <1>3, <3>1 DEF ReturnRequest, Requeue, Enqueue, brokerVars, BrokerTypeOK, Kind
    <3>3. \A v \in Worker : worker'[v].cur # i
      <4>1. CASE CrashWorker(w)
        BY <1>1, <1>3, <1>4, <4>1 DEF CrashWorker, WorkerStarted
      <4>2. CASE LoseWorkerChannel(w)
        BY <1>1, <1>3, <4>2 DEF LoseWorkerChannel, WorkerState
      <4> QED BY <2>6, <4>1, <4>2
    <3> QED BY <1>3, <2>0, <3>1, <3>2, <3>3
  <2>7. CASE StopWorker(w) \/ RestartWorker(w)
    BY <1>1, <1>3, <1>4, <2>0, <2>7 DEF StopWorker, RestartWorker, WorkerStarted,
       WorkerState, brokerVars
  <2> QED
    BY <1>7, <2>2, <2>3, <2>4, <2>5, <2>6, <2>7 DEF WorkerStep, WorkerNext, WorkerFault
<1>8. ASSUME NEW r \in Replica,
             \/ ConsumerStep(r)
             \/ LoseConsumerChannel(r) /\ UNCHANGED <<relay, workerVars>>
             \/ CrashReplica(r) /\ UNCHANGED workerVars
      PROVE  Quiet(i)'
  <2>0. UNCHANGED <<worker, mailed>>
    BY <1>8 DEF ConsumerStep, workerVars
  <2>1. CASE DeliverResult(r) /\ UNCHANGED relay
    BY <1>0, <1>1, <1>3, <2>0, <2>1 DEF DeliverResult, Deliver, ConsumerAt, BrokerTypeOK,
       Kind, Result
  <2>2. CASE HandleResult(r) /\ UNCHANGED relay
    <3>1. PICK pc \in {"Handled", "Errored"} :
              ConsumerAt(r, pc, consumer[r].cur, consumer[r].kind)
      BY <2>2 DEF HandleResult
    <3> QED BY <1>1, <1>3, <2>0, <2>2, <3>1 DEF HandleResult, ConsumerAt, brokerVars
  <2>3. CASE SettleResult(r) /\ UNCHANGED relay
    BY <1>1, <1>3, <1>4, <2>0, <2>3 DEF SettleResult, ConsumerAt, DeadLetter, brokerVars
  <2>3a. ASSUME ReturnResult(r)
         PROVE  \A k \in Kind : queue'[k][i] = 0
    <3>1. CASE consumer[r].cur = None
      BY <1>3, <2>3a, <3>1 DEF ReturnResult, brokerVars
    <3>2. CASE consumer[r].cur # None
      BY <1>0, <1>1, <1>3, <2>3a, <3>2 DEF ReturnResult, Requeue, Enqueue, ConsumerState, brokerVars,
         BrokerTypeOK, Kind, Result
    <3> QED BY <3>1, <3>2
  <2>4. CASE LoseConsumerChannel(r) /\ UNCHANGED relay
    <3>1. \A q \in Replica : consumer'[q].cur # i
      BY <1>1, <1>3, <2>4 DEF LoseConsumerChannel, ConsumerState
    <3> QED BY <1>3, <2>0, <2>3a, <2>4, <3>1 DEF LoseConsumerChannel
  <2>5. CASE CrashReplica(r)
    <3>1. \A q \in Replica : i \notin relay'[q].batch /\ consumer'[q].cur # i
      BY <1>1, <1>3, <1>4, <2>5 DEF CrashReplica, ConsumerStarted, RelayStarted
    <3> QED BY <1>3, <2>0, <2>3a, <2>5, <3>1 DEF CrashReplica
  <2>6. CASE RestartReplica(r)
    BY <1>1, <1>3, <1>4, <2>0, <2>6 DEF RestartReplica, ConsumerStarted, RelayStarted, brokerVars
  <2> QED
    BY <1>8, <2>1, <2>2, <2>3, <2>4, <2>5, <2>6 DEF ConsumerStep, ConsumerNext
<1> QED BY <1>5, <1>6, <1>7, <1>8 DEF Next, FaultNext

(***************************************************************************)
(* A Succeeded result follows an accepted email.                           *)
(***************************************************************************)
LEMMA NextMailed ==
    ASSUME IInv, [Next]_vars
    PROVE  SucceededWasMailed'
<1> DEFINE Told(i) == \/ queue["Succeeded"][i] > 0
                      \/ \E w \in Worker : worker[w].cur = i /\ worker[w].pc = "Accepted"
                      \/ \E r \in Replica : consumer[r].cur = i /\ consumer[r].kind = "Succeeded"
                      \/ saga[i] = "Completed"
<1>0. TypeOK /\ StoreTypeOK /\ BrokerTypeOK /\ HandsFit
  BY DEF IInv, TypeOK
<1>1. /\ worker \in [Worker -> WorkerState]
      /\ consumer \in [Replica -> ConsumerState]
      /\ mailed \in SUBSET Id
  BY <1>0 DEF TypeOK, WorkerTypeOK, ConsumerTypeOK
<1> SUFFICES ASSUME NEW i \in Id, i \notin mailed, i \notin mailed'
             PROVE  ~Told(i)'
  <2>1. mailed \subseteq mailed'
    BY DEF Next, UserNext, Subscribe, Confirm, Unsubscribe, RelayStep, ConsumerStep, WorkerStep,
       FaultNext, WorkerNext, DeliverRequest, SendAccepted, SendRejected, PublishResult,
       SettleRequest, RestartWorker, WorkerFault, CrashWorker, LoseWorkerChannel, StopWorker,
       workerVars, vars
  <2> QED BY <2>1 DEF SucceededWasMailed
<1>2. ~Told(i)
  BY DEF IInv, SucceededWasMailed
<1>3. i # None
  BY NoneAssumption
<1>4. CASE UserNext \/ UNCHANGED vars
  BY <1>0, <1>2, <1>4 DEF UserNext, Subscribe, Confirm, Unsubscribe, StoreTypeOK,
     StartSubscriptionConfirmation, Activate, DeleteByToken, brokerVars, workerVars, vars,
     storeVars
<1>5. ASSUME NEW r \in Replica, RelayStep(r)
      PROVE  ~Told(i)'
  <2>1. UNCHANGED <<worker, consumer>>
    BY <1>5 DEF RelayStep, workerVars
  <2>2. saga' = saga
    BY <1>5 DEF RelayStep, RelayNext, FetchPendingOutbox, PublishSubscriptionConfirmation,
       MarkPublished, RecordFailure, MarkOutboxPublished, RecordOutboxFailure, storeVars
  <2>3. queue'["Succeeded"] = queue["Succeeded"]
    BY <1>0, <1>5 DEF RelayStep, RelayNext, FetchPendingOutbox, BrokerTypeOK, Kind,
       PublishSubscriptionConfirmation, MarkPublished, RecordFailure, PublishOk, PublishErr,
       Enqueue, brokerVars
  <2> QED BY <1>2, <2>1, <2>2, <2>3
<1>6. ASSUME NEW w \in Worker,
             WorkerStep(w) \/ (WorkerFault(w) /\ UNCHANGED <<storeVars, relay, consumer>>)
      PROVE  ~Told(i)'
  <2>0. UNCHANGED <<saga, consumer>>
    BY <1>6 DEF WorkerStep, storeVars
  <2>1. CASE DeliverRequest(w)
    BY <1>0, <1>1, <1>2, <2>0, <2>1 DEF DeliverRequest, Deliver, WorkerAt, BrokerTypeOK, Kind
  <2>2. CASE SendAccepted(w) \/ SendRejected(w)
    BY <1>1, <1>2, <2>0, <2>2 DEF SendAccepted, SendRejected, WorkerAt, brokerVars
  <2>3. CASE PublishResult(w)
    <3>1. PICK pc \in {"Handled", "Errored"}, after \in Publisher :
              WorkerAt(w, pc, worker[w].cur, after)
      BY <1>1, <2>3, PublisherType DEF PublishResult, WorkerState
    <3>2. ~(queue'["Succeeded"][i] > 0)
      BY <1>0, <1>1, <1>2, <2>3 DEF PublishResult, PublishOk, PublishErr, Enqueue, BrokerTypeOK,
         Kind
    <3> QED BY <1>1, <1>2, <2>0, <3>1, <3>2 DEF WorkerAt
  <2>4. CASE SettleRequest(w)
    BY <1>1, <1>2, <2>0, <2>4 DEF SettleRequest, WorkerAt, DeadLetter, brokerVars
  <2>5. CASE CrashWorker(w) \/ LoseWorkerChannel(w)
    <3>1. queue'["Succeeded"] = queue["Succeeded"]
      BY <1>0, <2>5 DEF CrashWorker, LoseWorkerChannel, ReturnRequest, Requeue, Enqueue,
         brokerVars, BrokerTypeOK, Kind
    <3>2. \A v \in Worker : ~(worker'[v].cur = i /\ worker'[v].pc = "Accepted")
      <4>1. CASE CrashWorker(w)
        BY <1>1, <1>2, <4>1 DEF CrashWorker, WorkerStarted
      <4>2. CASE LoseWorkerChannel(w)
        BY <1>1, <1>2, <4>2 DEF LoseWorkerChannel, WorkerState
      <4> QED BY <2>5, <4>1, <4>2
    <3> QED BY <1>2, <2>0, <3>1, <3>2
  <2>6. CASE StopWorker(w) \/ RestartWorker(w)
    BY <1>1, <1>2, <1>3, <2>0, <2>6 DEF StopWorker, RestartWorker, WorkerStarted,
       WorkerState, brokerVars
  <2> QED
    BY <1>6, <2>1, <2>2, <2>3, <2>4, <2>5, <2>6 DEF WorkerStep, WorkerNext, WorkerFault
<1>7. ASSUME NEW r \in Replica,
             \/ ConsumerStep(r)
             \/ LoseConsumerChannel(r) /\ UNCHANGED <<relay, workerVars>>
             \/ CrashReplica(r) /\ UNCHANGED workerVars
      PROVE  ~Told(i)'
  <2>0. UNCHANGED <<worker, mailed>>
    BY <1>7 DEF ConsumerStep, workerVars
  <2>1. CASE DeliverResult(r)
    BY <1>0, <1>1, <1>2, <2>0, <2>1 DEF DeliverResult, Deliver, ConsumerAt, BrokerTypeOK,
       Kind, Result, storeVars
  <2>2. CASE HandleResult(r)
    <3>1. PICK pc \in {"Handled", "Errored"} :
              ConsumerAt(r, pc, consumer[r].cur, consumer[r].kind)
      BY <2>2 DEF HandleResult
    <3>2. saga'[i] # "Completed"
      BY <1>0, <1>1, <1>2, <2>2 DEF HandleResult, RunSagaTransaction, StoreTypeOK, storeVars,
         CompleteSubscriptionConfirmation, CompensateSubscription
    <3> QED BY <1>1, <1>2, <2>0, <2>2, <3>1, <3>2 DEF HandleResult, ConsumerAt, brokerVars
  <2>3. CASE SettleResult(r)
    BY <1>1, <1>2, <1>3, <2>0, <2>3 DEF SettleResult, ConsumerAt, DeadLetter, brokerVars, storeVars
  <2>4. CASE LoseConsumerChannel(r) \/ CrashReplica(r)
    <3>1. ReturnResult(r) /\ UNCHANGED saga
      BY <2>4 DEF LoseConsumerChannel, CrashReplica, storeVars
    <3>2. ~(queue'["Succeeded"][i] > 0)
      BY <1>0, <1>1, <1>2, <3>1 DEF ReturnResult, Requeue, Enqueue, BrokerTypeOK, brokerVars,
         Kind, Result, ConsumerState
    <3>3. \A q \in Replica : ~(consumer'[q].cur = i /\ consumer'[q].kind = "Succeeded")
      BY <1>1, <1>2, <1>3, <2>4 DEF LoseConsumerChannel, CrashReplica, ConsumerStarted,
         ConsumerState
    <3> QED BY <1>2, <2>0, <3>1, <3>2, <3>3
  <2>5. CASE RestartReplica(r)
    BY <1>1, <1>2, <1>3, <2>0, <2>5 DEF RestartReplica, ConsumerStarted, brokerVars, storeVars
  <2> QED
    BY <1>7, <2>1, <2>2, <2>3, <2>4, <2>5 DEF ConsumerStep, ConsumerNext
<1> QED BY <1>4, <1>5, <1>6, <1>7 DEF Next, FaultNext

(***************************************************************************)
(* Nobody forgets a message before passing the subscription on.            *)
(***************************************************************************)

\* A saga that has ended stays ended.
LEMMA TerminalStays ==
    ASSUME IInv, [Next]_vars, NEW i \in Id, Terminal(i)
    PROVE  saga'[i] = saga[i]
<1>0. StoreTypeOK /\ HandsFit
  BY DEF IInv, TypeOK
<1>1. CASE UserNext
  BY <1>0, <1>1 DEF UserNext, Subscribe, Confirm, Unsubscribe, StoreTypeOK, Terminal,
     StartSubscriptionConfirmation, Activate, DeleteByToken
<1>2. ASSUME NEW r \in Replica, HandleResult(r)
      PROVE  saga'[i] = saga[i]
  <2>1. consumer[r].cur \in Id
    BY <1>0, <1>2 DEF HandleResult, HandsFit, IInv, TypeOK, ConsumerTypeOK, ConsumerState
  <2> QED
    BY <1>0, <1>2, <2>1 DEF HandleResult, RunSagaTransaction, CompleteSubscriptionConfirmation,
       CompensateSubscription, MayComplete, MayCompensate, storeVars, StoreTypeOK, Terminal
<1>3. CASE UNCHANGED saga
  BY <1>3
<1> QED
  BY <1>1, <1>2, <1>3 DEF Next, RelayStep, RelayNext, FetchPendingOutbox,
     PublishSubscriptionConfirmation, MarkPublished, RecordFailure, MarkOutboxPublished,
     RecordOutboxFailure, WorkerStep, ConsumerStep, ConsumerNext, DeliverResult,
     SettleResult, RestartReplica, FaultNext, LoseConsumerChannel, CrashReplica, vars,
     storeVars

\* What a step of anybody but consumers must respect for a result to stay out.
LEMMA ResultStaysOut ==
    ASSUME IInv, [Next]_vars, NEW i \in Id, ResultOut(i),
           consumer' = consumer, dead \subseteq dead', dropped \subseteq dropped',
           \A k \in Result : queue[k][i] > 0 => queue'[k][i] > 0
    PROVE  ResultOut(i)'
  BY TerminalStays DEF ResultOut, Terminal

\* Steps of relays and users leave requests where they are.
LEMMA RequestStaysOut ==
    ASSUME IInv, [Next]_vars, NEW i \in Id, RequestOut(i),
           consumer' = consumer, worker' = worker,
           dead \subseteq dead', dropped \subseteq dropped',
           \A k \in Kind : queue[k][i] > 0 => queue'[k][i] > 0
    PROVE  RequestOut(i)'
<1>1. CASE ResultOut(i)
  BY <1>1, ResultStaysOut DEF RequestOut, Kind, Result
<1>2. CASE queue["Requested"][i] > 0 \/ \E w \in Worker : Owns(w, i)
  BY <1>2 DEF RequestOut, Owns, Kind
<1> QED BY <1>1, <1>2 DEF RequestOut

\* Whatever publishes, dead-letters or requeues takes no message away.
LEMMA BrokerKeeps ==
    ASSUME BrokerTypeOK, NEW k \in Kind, NEW i \in Id, NEW pub \in Publisher, NEW cancelled,
           \/ PublishOk(k, i, pub) \/ PublishErr(k, i, pub, cancelled)
           \/ DeadLetter(i) \/ Requeue(k, i) \/ UNCHANGED brokerVars
    PROVE  /\ dead \subseteq dead' /\ dropped \subseteq dropped'
           /\ \A m \in Kind, j \in Id : queue[m][j] > 0 => queue'[m][j] > 0
  BY DEF BrokerTypeOK, PublishOk, PublishErr, DeadLetter, Requeue, Enqueue, brokerVars, Kind

LEMMA RelayPassesOn ==
    ASSUME IInv, NEW r \in Replica, RelayStep(r)
    PROVE  PassedOn'
<1>0. TypeOK /\ StoreTypeOK /\ BrokerTypeOK /\ HandsFit /\ PassedOn /\ relay \in [Replica -> RelayState]
  BY DEF IInv, TypeOK, RelayTypeOK
<1>1. UNCHANGED <<worker, consumer>> /\ [Next]_vars
  BY DEF RelayStep, workerVars, Next
<1>2. saga' = saga
  BY DEF RelayStep, RelayNext, FetchPendingOutbox, PublishSubscriptionConfirmation,
     MarkPublished, RecordFailure, MarkOutboxPublished, RecordOutboxFailure, storeVars
<1>3. /\ dead \subseteq dead' /\ dropped \subseteq dropped'
      /\ \A i \in Id, k \in Kind : queue[k][i] > 0 => queue'[k][i] > 0
  <2>1. CASE PublishSubscriptionConfirmation(r)
    <3>1. PICK i \in relay[r].batch : \/ PublishOk("Requested", i, relay[r].publisher)
                                     \/ PublishErr("Requested", i, relay[r].publisher, FALSE)
      BY <2>1 DEF PublishSubscriptionConfirmation
    <3> QED BY <1>0, <3>1, BrokerKeeps DEF RelayState, Kind
  <2>2. CASE UNCHANGED brokerVars
    BY <2>2 DEF brokerVars
  <2> QED
    BY <2>1, <2>2 DEF RelayStep, RelayNext, FetchPendingOutbox, MarkPublished, RecordFailure
<1>4. \A i \in Id : RequestOut(i) => RequestOut(i)'
  BY <1>1, <1>3, RequestStaysOut
<1>5. \A i \in Id : ResultOut(i) => ResultOut(i)'
  BY <1>1, <1>3, ResultStaysOut DEF Kind, Result
<1>6. \A i \in Id : outbox'[i] = "Published" => RequestOut(i)'
  <2>1. \A i \in Id : outbox'[i] = "Published" /\ outbox[i] # "Published" =>
                        relay[r].pc = "Marking" /\ relay[r].cur = i
    BY <1>0 DEF RelayStep, RelayNext, FetchPendingOutbox, PublishSubscriptionConfirmation,
       MarkPublished, RecordFailure, MarkOutboxPublished, RecordOutboxFailure, storeVars,
       StoreTypeOK
  <2> QED BY <1>0, <1>4, <2>1 DEF PassedOn
<1>7. ASSUME NEW q \in Replica, relay'[q].pc = "Marking"
      PROVE  RequestOut(relay[q].cur)'
  <2>1. CASE relay'[q] = relay[q]
    <3>1. relay[q].cur \in Id /\ RequestOut(relay[q].cur)
      BY <1>0, <1>7, <2>1 DEF PassedOn, HandsFit, RelayState
    <3>2. RequestOut(relay[q].cur)' <=> \E i \in {relay[q].cur} : RequestOut(i)'
      BY <2>1
    <3> QED BY <1>4, <3>1, <3>2
  <2>2. CASE relay'[q] # relay[q]
    <3>0. q = r
      <4>1. \E pc, batch, cur, pub : RelayAt(r, pc, batch, cur, pub)
        BY <1>0 DEF RelayStep, RelayNext, FetchPendingOutbox, PublishSubscriptionConfirmation,
           MarkPublished, RecordFailure, RelayContinue
      <4> QED BY <1>0, <1>7, <2>2, <4>1 DEF RelayAt
    <3>1. PublishSubscriptionConfirmation(r)
      BY <1>0, <1>7, <3>0 DEF RelayStep, RelayNext, FetchPendingOutbox, RelayAt,
         MarkPublished, RecordFailure, RelayContinue
    <3>2. PICK i \in relay[r].batch : PublishOk("Requested", i, relay[r].publisher)
                                     /\ relay'[r].cur = i
      <4>1. PICK i \in relay[r].batch :
              \/ /\ PublishOk("Requested", i, relay[r].publisher)
                 /\ RelayAt(r, "Marking", relay[r].batch, i, relay[r].publisher)
              \/ \E after \in AfterPublishErr(relay[r].publisher) :
                   RelayAt(r, "Recording", relay[r].batch, i, after)
        BY <3>1 DEF PublishSubscriptionConfirmation
      <4>2. CASE \E after \in AfterPublishErr(relay[r].publisher) :
                   RelayAt(r, "Recording", relay[r].batch, i, after)
        BY <1>0, <1>7, <3>0, <4>2 DEF RelayAt
      <4> QED BY <1>0, <4>1, <4>2 DEF RelayAt
    <3>3. i \in Id
      BY <1>0 DEF RelayState
    <3>4. queue'["Requested"][i] > 0 \/ i \in dropped'
      BY <1>0, <3>2, <3>3 DEF PublishOk, Enqueue, BrokerTypeOK, Kind
    <3> QED BY <3>0, <3>2, <3>4 DEF RequestOut, ResultOut
  <2> QED BY <2>1, <2>2
<1>8. /\ \A w \in Worker : worker'[w].pc = "Handled" => ResultOut(worker[w].cur)'
      /\ \A q \in Replica : consumer'[q].pc = "Handled" => Terminal(consumer[q].cur)'
  BY <1>0, <1>1, <1>2, <1>5 DEF PassedOn, HandsFit, Terminal, TypeOK, WorkerTypeOK, WorkerState
<1> QED BY <1>6, <1>7, <1>8 DEF PassedOn

LEMMA UserPassesOn ==
    ASSUME IInv, UserNext \/ UNCHANGED vars
    PROVE  PassedOn'
<1>0. StoreTypeOK /\ HandsFit /\ PassedOn /\ TypeOK /\ [Next]_vars
  BY DEF IInv, TypeOK, Next
<1>1. UNCHANGED <<queue, dead, dropped, relay, worker, consumer>>
  BY DEF UserNext, Subscribe, Confirm, Unsubscribe, brokerVars, workerVars, vars
<1>2. \A i \in Id : /\ RequestOut(i) => RequestOut(i)'
                    /\ ResultOut(i) => ResultOut(i)'
                    /\ Terminal(i) => Terminal(i)'
  BY <1>0, <1>1, RequestStaysOut, ResultStaysOut, TerminalStays DEF Terminal
<1>3. \A i \in Id : outbox'[i] = "Published" => outbox[i] = "Published"
  BY <1>0 DEF UserNext, Subscribe, Confirm, Unsubscribe, StoreTypeOK, vars, storeVars,
     StartSubscriptionConfirmation, Activate, DeleteByToken
<1>4. /\ \A r \in Replica : relay[r].pc = "Marking" => relay[r].cur \in Id
      /\ \A w \in Worker : worker[w].pc = "Handled" => worker[w].cur \in Id
      /\ \A r \in Replica : consumer[r].pc = "Handled" => consumer[r].cur \in Id
  BY <1>0 DEF HandsFit, TypeOK, RelayTypeOK, RelayState, WorkerTypeOK, WorkerState,
     ConsumerTypeOK, ConsumerState
<1> QED BY <1>0, <1>1, <1>2, <1>3, <1>4 DEF PassedOn

LEMMA WorkerPassesOn ==
    ASSUME IInv, NEW w \in Worker,
           WorkerStep(w) \/ (WorkerFault(w) /\ UNCHANGED <<storeVars, relay, consumer>>)
    PROVE  PassedOn'
<1>0. /\ TypeOK /\ BrokerTypeOK /\ HandsFit /\ PassedOn /\ [Next]_vars
      /\ worker \in [Worker -> WorkerState]
  BY DEF IInv, TypeOK, WorkerTypeOK, Next, FaultNext
<1>1. UNCHANGED <<row, saga, outbox, relay, consumer>>
  BY DEF WorkerStep, storeVars
<1>2. worker[w].cur # None => worker[w].cur \in Id
  BY <1>0 DEF WorkerState
<1>9. ASSUME ~DeliverRequest(w)
      PROVE  /\ dead \subseteq dead' /\ dropped \subseteq dropped'
             /\ \A k \in Kind, i \in Id : queue[k][i] > 0 => queue'[k][i] > 0
  <2>1. CASE PublishResult(w)
    <3>1. worker[w].cur \in Id /\ worker[w].publisher \in Publisher
      BY <1>0, <1>2, <2>1 DEF PublishResult, HandsFit, WorkerState
    <3>2. PICK k \in Result : \/ PublishOk(k, worker[w].cur, worker[w].publisher)
                             \/ PublishErr(k, worker[w].cur, worker[w].publisher, worker[w].stopping)
      BY <2>1 DEF PublishResult, Result
    <3> QED BY <1>0, <3>1, <3>2, BrokerKeeps DEF Kind, Result
  <2>2. CASE SettleRequest(w)
    <3>1. worker[w].cur \in Id
      BY <1>0, <1>2, <2>2 DEF SettleRequest, HandsFit
    <3> QED BY <1>0, <2>2, <3>1, BrokerKeeps, PublisherType DEF SettleRequest, Kind
  <2>3. CASE CrashWorker(w) \/ LoseWorkerChannel(w)
    <3>1. ReturnRequest(w)
      BY <2>3 DEF CrashWorker, LoseWorkerChannel
    <3>2. CASE worker[w].cur = None
      BY <3>1, <3>2 DEF ReturnRequest, brokerVars
    <3>3. CASE worker[w].cur \in Id
      BY <1>0, <3>1, <3>3, BrokerKeeps, PublisherType DEF ReturnRequest, Kind
    <3> QED BY <1>2, <3>2, <3>3
  <2>4. CASE UNCHANGED brokerVars
    BY <2>4 DEF brokerVars
  <2> QED
    BY <1>9, <2>1, <2>2, <2>3, <2>4 DEF WorkerStep, WorkerNext, WorkerFault, SendAccepted,
       SendRejected, RestartWorker, StopWorker
<1>3. /\ dead \subseteq dead' /\ dropped \subseteq dropped'
      /\ \A k \in Result, i \in Id : queue[k][i] > 0 => queue'[k][i] > 0
  <2>1. CASE DeliverRequest(w)
    BY <1>0, <2>1 DEF DeliverRequest, Deliver, BrokerTypeOK, Kind, Result
  <2> QED BY <1>9, <2>1 DEF Kind, Result
<1>4. \A i \in Id : ResultOut(i) => ResultOut(i)'
  BY <1>0, <1>1, <1>3, ResultStaysOut
<1>5. ASSUME NEW i \in Id, RequestOut(i)
      PROVE  RequestOut(i)'
  <2>1. CASE ResultOut(i)
    BY <1>4, <2>1 DEF RequestOut
  <2>2. CASE queue["Requested"][i] > 0
    <3>1. CASE DeliverRequest(w)
      BY <1>0, <2>2, <3>1 DEF DeliverRequest, Deliver, WorkerAt, RequestOut, Owns, BrokerTypeOK,
         Kind
    <3>2. CASE ~DeliverRequest(w)
      <4>1. queue'["Requested"][i] > 0
        BY <1>9, <2>2, <3>2 DEF Kind
      <4> QED BY <4>1 DEF RequestOut
    <3> QED BY <3>1, <3>2
  <2>3. ASSUME NEW v \in Worker, Owns(v, i)
        PROVE  RequestOut(i)'
    <3>1. CASE v # w
      <4>1. worker'[v] = worker[v]
        BY <1>0, <3>1 DEF WorkerStep, WorkerNext, WorkerFault, DeliverRequest, SendAccepted,
           SendRejected, PublishResult, SettleRequest, RestartWorker, CrashWorker,
           LoseWorkerChannel, StopWorker, WorkerAt
      <4> QED BY <2>3, <4>1 DEF RequestOut, Owns
    <3>2. CASE v = w
      <4>0. worker[w].cur = i /\ worker[w].open /\ i # None
        BY <2>3, <3>2, NoneAssumption DEF Owns
      <4>1. CASE SettleRequest(w)
        <5>1. CASE worker[w].pc = "Handled"
          BY <1>0, <1>4, <4>0, <5>1 DEF PassedOn, RequestOut
        <5>2. CASE worker[w].pc = "Errored"
          BY <1>0, <4>0, <4>1, <5>2 DEF SettleRequest, DeadLetter, RequestOut, ResultOut
        <5> QED BY <4>1, <5>1, <5>2 DEF SettleRequest
      <4>2. CASE CrashWorker(w) \/ LoseWorkerChannel(w)
        BY <1>0, <4>0, <4>2 DEF CrashWorker, LoseWorkerChannel, ReturnRequest, Requeue, Enqueue,
           RequestOut, BrokerTypeOK, Kind
      <4>3. CASE DeliverRequest(w) \/ RestartWorker(w)
        BY <1>0, <4>0, <4>3, NoneAssumption DEF DeliverRequest, RestartWorker, HandsFit
      <4>4. CASE SendAccepted(w) \/ SendRejected(w) \/ PublishResult(w) \/ StopWorker(w)
        <5>1. worker'[w].cur = i /\ worker'[w].open
          BY <1>0, <4>0, <4>4 DEF SendAccepted, SendRejected, PublishResult, StopWorker, WorkerAt,
             WorkerState
        <5> QED BY <5>1 DEF RequestOut, Owns
      <4> QED BY <4>1, <4>2, <4>3, <4>4 DEF WorkerStep, WorkerNext, WorkerFault
    <3> QED BY <3>1, <3>2
  <2> QED BY <1>5, <2>1, <2>2, <2>3 DEF RequestOut
<1>6. /\ \A i \in Id : outbox'[i] = "Published" => RequestOut(i)'
      /\ \A r \in Replica : relay'[r].pc = "Marking" => RequestOut(relay[r].cur)'
  BY <1>0, <1>1, <1>5 DEF PassedOn, HandsFit, TypeOK, RelayTypeOK, RelayState
<1>7. \A r \in Replica : consumer'[r].pc = "Handled" => Terminal(consumer[r].cur)'
  BY <1>0, <1>1 DEF PassedOn, Terminal
<1>8. ASSUME NEW v \in Worker, worker'[v].pc = "Handled"
      PROVE  ResultOut(worker[v].cur)'
  <2>1. CASE worker[v].pc = "Handled" /\ worker'[v].cur = worker[v].cur
    BY <1>0, <1>4, <2>1 DEF PassedOn, HandsFit, WorkerState
  <2>2. CASE ~(worker[v].pc = "Handled" /\ worker'[v].cur = worker[v].cur)
    <3>1. v = w /\ PublishResult(w)
      BY <1>0, <1>8, <2>2 DEF WorkerStep, WorkerNext, WorkerFault, DeliverRequest, SendAccepted,
         SendRejected, SettleRequest, RestartWorker, CrashWorker, PublishResult,
         LoseWorkerChannel, StopWorker, WorkerAt, WorkerState, WorkerStarted
    <3>2. PICK k \in Result : PublishOk(k, worker[w].cur, worker[w].publisher)
                             /\ worker'[w].cur = worker[w].cur
      BY <1>0, <1>8, <3>1 DEF PublishResult, WorkerAt, Result
    <3>3. worker[w].cur \in Id
      BY <1>0, <1>2, <3>1 DEF PublishResult, HandsFit
    <3>4. queue'[k][worker[w].cur] > 0 \/ worker[w].cur \in dropped'
      BY <1>0, <3>2, <3>3 DEF PublishOk, Enqueue, BrokerTypeOK, Kind, Result
    <3> QED BY <3>1, <3>2, <3>4 DEF ResultOut
  <2> QED BY <2>1, <2>2
<1> QED BY <1>6, <1>7, <1>8 DEF PassedOn

\* A handler returns nil only when its transaction was committed.
LEMMA HandledCommitted ==
    ASSUME NEW r \in Replica, HandleResult(r), consumer \in [Replica -> ConsumerState]
    PROVE  /\ consumer'[r].cur = consumer[r].cur /\ consumer'[r].open = consumer[r].open
           /\ \A q \in Replica : q # r => consumer'[q] = consumer[q]
           /\ consumer'[r].pc = "Handled" => RunSagaTransaction(r, TRUE)
<1>1. CASE \E ok \in BOOLEAN :
             /\ RunSagaTransaction(r, ok)
             /\ ConsumerAt(r, IF ok THEN "Handled" ELSE "Errored",
                           consumer[r].cur, consumer[r].kind)
  <2>1. PICK ok \in BOOLEAN :
             /\ RunSagaTransaction(r, ok)
             /\ ConsumerAt(r, IF ok THEN "Handled" ELSE "Errored",
                           consumer[r].cur, consumer[r].kind)
    BY <1>1
  <2>2. CASE ok
    BY <2>1, <2>2 DEF ConsumerAt
  <2>3. CASE ~ok
    BY <2>1, <2>3 DEF ConsumerAt
  <2> QED BY <2>2, <2>3
<1>2. CASE ConsumerAt(r, "Errored", consumer[r].cur, consumer[r].kind)
  BY <1>2 DEF ConsumerAt
<1> QED BY <1>1, <1>2 DEF HandleResult

LEMMA ConsumerPassesOn ==
    ASSUME IInv, NEW r \in Replica,
           \/ ConsumerStep(r)
           \/ LoseConsumerChannel(r) /\ UNCHANGED <<relay, workerVars>>
           \/ CrashReplica(r) /\ UNCHANGED workerVars
    PROVE  PassedOn'
<1>0. /\ TypeOK /\ BrokerTypeOK /\ HandsFit /\ PassedOn /\ [Next]_vars
      /\ consumer \in [Replica -> ConsumerState]
  BY DEF IInv, TypeOK, ConsumerTypeOK, Next, FaultNext
<1>1. UNCHANGED <<outbox, worker, mailed>>
  BY DEF ConsumerStep, ConsumerNext, DeliverResult, HandleResult, RunSagaTransaction, SettleResult,
     RestartReplica, LoseConsumerChannel, CrashReplica, CompleteSubscriptionConfirmation,
     CompensateSubscription, storeVars, workerVars
<1>2. consumer[r].cur # None => consumer[r].cur \in Id /\ consumer[r].kind \in Result
  BY <1>0 DEF ConsumerState
<1>3. /\ dead \subseteq dead' /\ dropped \subseteq dropped'
      /\ \A i \in Id : queue["Requested"][i] > 0 => queue'["Requested"][i] > 0
  <2>1. CASE DeliverResult(r)
    BY <1>0, <2>1 DEF DeliverResult, Deliver, BrokerTypeOK, Kind, Result
  <2>2. CASE SettleResult(r)
    <3>1. consumer[r].cur \in Id
      BY <1>0, <1>2, <2>2 DEF SettleResult, HandsFit
    <3> QED BY <1>0, <2>2, <3>1, BrokerKeeps, PublisherType DEF SettleResult, Kind
  <2>3. CASE LoseConsumerChannel(r) \/ CrashReplica(r)
    <3>1. ReturnResult(r)
      BY <2>3 DEF LoseConsumerChannel, CrashReplica
    <3>2. CASE consumer[r].cur = None
      BY <3>1, <3>2 DEF ReturnResult, brokerVars
    <3>3. CASE consumer[r].cur # None
      BY <1>0, <1>2, <3>1, <3>3, BrokerKeeps, PublisherType DEF ReturnResult, Kind, Result
    <3> QED BY <3>2, <3>3
  <2>4. CASE UNCHANGED brokerVars
    BY <2>4 DEF brokerVars
  <2> QED
    BY <2>1, <2>2, <2>3, <2>4 DEF ConsumerStep, ConsumerNext, HandleResult, RestartReplica
<1>4. ASSUME NEW i \in Id, ResultOut(i)
      PROVE  ResultOut(i)'
  <2>1. CASE i \in dead \/ i \in dropped \/ Terminal(i)
    BY <1>0, <1>3, <2>1, TerminalStays DEF ResultOut, Terminal
  <2>2. ASSUME NEW k \in Result, queue[k][i] > 0
        PROVE  ResultOut(i)'
    <3>1. CASE DeliverResult(r)
      BY <1>0, <2>2, <3>1 DEF DeliverResult, Deliver, ConsumerAt, ResultOut, BrokerTypeOK, Kind,
         Result, ConsumerState
    <3>2. CASE ~DeliverResult(r)
      <4>1. CASE SettleResult(r)
        BY <1>0, <1>2, <2>2, <4>1 DEF SettleResult, DeadLetter, brokerVars, ResultOut
      <4>2. CASE LoseConsumerChannel(r) \/ CrashReplica(r)
        BY <1>0, <1>2, <2>2, <4>2 DEF LoseConsumerChannel, CrashReplica, ReturnResult, Requeue,
           Enqueue, brokerVars, BrokerTypeOK, Kind, Result, ResultOut
      <4>3. CASE UNCHANGED brokerVars
        BY <2>2, <4>3 DEF brokerVars, ResultOut
      <4> QED
        BY <3>2, <4>1, <4>2, <4>3 DEF ConsumerStep, ConsumerNext, HandleResult, RestartReplica
    <3> QED BY <3>1, <3>2
  <2>3. ASSUME NEW q \in Replica, consumer[q].cur = i, consumer[q].open
        PROVE  ResultOut(i)'
    <3>0. i # None
      BY NoneAssumption
    <3>1. CASE q # r
      <4>1. consumer'[q] = consumer[q]
        BY <1>0, <3>1 DEF ConsumerStep, ConsumerNext, DeliverResult, HandleResult, SettleResult,
           RestartReplica, LoseConsumerChannel, CrashReplica, ConsumerAt
      <4> QED BY <2>3, <4>1 DEF ResultOut
    <3>2. CASE q = r
      <4>1. CASE HandleResult(r)
        <5>1. consumer'[r].cur = i /\ consumer'[r].open
          BY <1>0, <2>3, <3>2, <4>1, HandledCommitted
        <5> QED BY <5>1 DEF ResultOut
      <4>2. CASE SettleResult(r)
        <5>1. CASE consumer[r].pc = "Handled"
          BY <1>0, <2>3, <3>2, <5>1, TerminalStays DEF PassedOn, ResultOut, Terminal
        <5>2. CASE consumer[r].pc = "Errored"
          BY <1>0, <2>3, <3>2, <4>2, <5>2 DEF SettleResult, DeadLetter, ResultOut
        <5> QED BY <4>2, <5>1, <5>2 DEF SettleResult
      <4>3. CASE LoseConsumerChannel(r) \/ CrashReplica(r)
        BY <1>0, <1>2, <2>3, <3>0, <3>2, <4>3 DEF LoseConsumerChannel, CrashReplica, ReturnResult,
           Requeue, Enqueue, ResultOut, BrokerTypeOK, Kind, Result
      <4>4. CASE DeliverResult(r) \/ RestartReplica(r)
        BY <1>0, <2>3, <3>0, <3>2, <4>4 DEF DeliverResult, RestartReplica, HandsFit
      <4> QED BY <4>1, <4>2, <4>3, <4>4 DEF ConsumerStep, ConsumerNext
    <3> QED BY <3>1, <3>2
  <2> QED BY <1>4, <2>1, <2>2, <2>3 DEF ResultOut
<1>5. \A i \in Id : RequestOut(i) => RequestOut(i)'
  BY <1>1, <1>3, <1>4 DEF RequestOut, Owns
<1>6. \A i \in Id : outbox'[i] = "Published" => RequestOut(i)'
  BY <1>0, <1>1, <1>5 DEF PassedOn
<1>7. ASSUME NEW q \in Replica, relay'[q].pc = "Marking"
      PROVE  RequestOut(relay[q].cur)'
  <2>1. relay'[q] = relay[q]
    BY <1>0, <1>7 DEF ConsumerStep, RestartReplica, CrashReplica, RelayStarted, TypeOK, RelayTypeOK
  <2>2. relay[q].cur \in Id /\ RequestOut(relay[q].cur)
    BY <1>0, <1>7, <2>1 DEF PassedOn, HandsFit, TypeOK, RelayTypeOK, RelayState
  <2>3. RequestOut(relay[q].cur)' <=> \E i \in {relay[q].cur} : RequestOut(i)'
    BY <2>1
  <2> QED BY <1>5, <2>2, <2>3
<1>8. \A w \in Worker : worker'[w].pc = "Handled" => ResultOut(worker[w].cur)'
  BY <1>0, <1>1, <1>4 DEF PassedOn, HandsFit, TypeOK, WorkerTypeOK, WorkerState
<1>9. ASSUME NEW q \in Replica, consumer'[q].pc = "Handled"
      PROVE  Terminal(consumer[q].cur)'
  <2>1. CASE consumer'[q] = consumer[q]
    <3>1. consumer[q].cur \in Id /\ Terminal(consumer[q].cur)
      BY <1>0, <1>9, <2>1 DEF PassedOn, HandsFit, ConsumerState
    <3> QED BY <1>0, <2>1, <3>1, TerminalStays DEF Terminal
  <2>2. CASE consumer'[q] # consumer[q]
    <3>1. q = r /\ (HandleResult(r) \/ LoseConsumerChannel(r))
      <4>1. DeliverResult(r) => consumer'[r].pc = "Handling"
                                /\ (q # r => consumer'[q] = consumer[q])
        BY <1>0, <1>9 DEF DeliverResult, ConsumerAt
      <4>2. SettleResult(r) => consumer'[r].pc = "Idle" /\ (q # r => consumer'[q] = consumer[q])
        BY <1>0, <1>9 DEF SettleResult, ConsumerAt
      <4>3. CrashReplica(r) \/ RestartReplica(r) =>
              consumer'[r].pc = "Idle" /\ (q # r => consumer'[q] = consumer[q])
        BY <1>0, <1>9 DEF CrashReplica, RestartReplica, ConsumerStarted
      <4>4. HandleResult(r) => (q # r => consumer'[q] = consumer[q])
        BY <1>0, <1>9 DEF HandleResult, ConsumerAt
      <4>5. LoseConsumerChannel(r) => (q # r => consumer'[q] = consumer[q])
        BY <1>0, <1>9 DEF LoseConsumerChannel
      <4>7. q = r
        BY <2>2, <4>1, <4>2, <4>3, <4>4, <4>5 DEF ConsumerStep, ConsumerNext
      <4> QED BY <1>0, <1>9, <4>1, <4>2, <4>3, <4>7 DEF ConsumerStep, ConsumerNext
    <3>2. CASE HandleResult(r)
      <4>1. RunSagaTransaction(r, TRUE) /\ consumer'[r].cur = consumer[r].cur
        BY <1>0, <1>9, <3>1, <3>2, HandledCommitted
      <4>2. consumer[r].cur \in Id
        BY <1>0, <1>2, <3>2 DEF HandleResult, HandsFit
      <4> QED
        BY <1>0, <3>1, <4>1, <4>2 DEF RunSagaTransaction, CompleteSubscriptionConfirmation,
           CompensateSubscription, Terminal, TypeOK, StoreTypeOK
    <3>3. CASE LoseConsumerChannel(r)
      <4>1. consumer'[r].cur = consumer[r].cur /\ consumer[r].pc = "Handled" /\ saga' = saga
        BY <1>0, <1>9, <3>1, <3>3 DEF LoseConsumerChannel, ConsumerState, storeVars
      <4> QED BY <1>0, <3>1, <4>1 DEF PassedOn, Terminal
    <3> QED BY <3>1, <3>2, <3>3
  <2> QED BY <2>1, <2>2
<1> QED BY <1>6, <1>7, <1>8, <1>9 DEF PassedOn

(***************************************************************************)
(* The inductive invariant.                                                *)
(***************************************************************************)
LEMMA InitIInv == Init => IInv
<1> SUFFICES ASSUME Init PROVE IInv
  OBVIOUS
<1> USE DEF Init, StoreInit, BrokerInit, FaultsInit, RelayInit, WorkerInit, ConsumerInit,
        RelayStarted, WorkerStarted, ConsumerStarted, Kind, Result
<1>1. TypeOK
  BY MaxFaultsAssumption, PublisherType DEF TypeOK, StoreTypeOK, BrokerTypeOK, RelayTypeOK, WorkerTypeOK,
     ConsumerTypeOK, RelayState, WorkerState, ConsumerState, RowStatus, SagaStatus, OutboxStatus
<1>2. HandsFit
  BY DEF HandsFit
<1>3. RowsHaveSagas
  BY DEF RowsHaveSagas, HasRow
<1>4. MessagesHaveSagas
  BY NoneAssumption DEF MessagesHaveSagas
<1>5. SucceededWasMailed
  BY NoneAssumption DEF SucceededWasMailed
<1>6. PassedOn
  BY DEF PassedOn
<1> QED BY <1>1, <1>2, <1>3, <1>4, <1>5, <1>6 DEF IInv

LEMMA NextIInv == IInv /\ [Next]_vars => IInv'
<1> SUFFICES ASSUME IInv, [Next]_vars PROVE IInv'
  OBVIOUS
<1>1. TypeOK' /\ HandsFit'
  BY NextTypes, NextHands DEF IInv
<1>2. RowsHaveSagas' /\ MessagesHaveSagas' /\ SucceededWasMailed'
  BY NextRows, NextMessages, NextMailed
<1>3. PassedOn'
  BY UserPassesOn, RelayPassesOn, WorkerPassesOn, ConsumerPassesOn DEF Next, FaultNext
<1> QED BY <1>1, <1>2, <1>3 DEF IInv

THEOREM Invariance == Spec => []IInv
  BY InitIInv, NextIInv, PTL DEF Spec

(***************************************************************************)
(* Every reachable state has the types the tables, queues and processes    *)
(* are declared with; no queue is ever short of a message it delivers.     *)
(***************************************************************************)
THEOREM TypeCorrect == Spec => []TypeOK
<1>1. IInv => TypeOK
  BY DEF IInv
<1> QED BY <1>1, Invariance, PTL

(***************************************************************************)
(* No started saga is forgotten by the chain of relay, worker and          *)
(* consumer, whatever crashes, redeliveries and failed calls happen.       *)
(***************************************************************************)
THEOREM NothingForgotten == Spec => []NoSagaForgotten
<1>1. IInv => NoSagaForgotten
  BY DEF IInv, TypeOK, StoreTypeOK, OutboxStatus, RowsHaveSagas, PassedOn, NoSagaForgotten
<1> QED BY <1>1, Invariance, PTL

(***************************************************************************)
(* A completed saga's confirmation email was accepted by the SMTP server.  *)
(***************************************************************************)
THEOREM CompletionFollowsEmail == Spec => []CompletedWasMailed
<1>1. IInv => CompletedWasMailed
  BY DEF IInv, SucceededWasMailed, CompletedWasMailed
<1> QED BY <1>1, Invariance, PTL

(***************************************************************************)
(* A compensated subscription has no row, then and ever after.             *)
(***************************************************************************)
THEOREM CompensationIsComplete == Spec => []CompensatedHasNoRow
<1>1. IInv => CompensatedHasNoRow
  BY DEF IInv, RowsHaveSagas, CompensatedHasNoRow
<1> QED BY <1>1, Invariance, PTL

(***************************************************************************)
(* The outcome of a saga never changes.                                    *)
(***************************************************************************)
THEOREM OutcomesAreFinal == Spec => SagaOutcomeIsFinal
<1>1. IInv /\ [Next]_vars => [\A i \in Id : Terminal(i) => saga'[i] = saga[i]]_vars
  BY TerminalStays
<1> QED BY <1>1, Invariance, PTL DEF Spec, SagaOutcomeIsFinal
=============================================================================
