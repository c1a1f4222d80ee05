-------------------- MODULE ConfirmationRefinement_proofs --------------------
(***************************************************************************)
(* What a step of the confirmation workflow does to subscriptions, sagas   *)
(* and outbox messages, and from it: the workflow implements the abstract  *)
(* lifecycle, rows leave for a reason, and outbox statuses are sound.      *)
(***************************************************************************)
EXTENDS ConfirmationSystem_proofs

lifecycle == <<row, key, saga, mailed>>

\* Relays change the outbox only.
LEMMA RelayInvisible ==
    ASSUME NEW r \in Replica, RelayStep(r)
    PROVE  UNCHANGED lifecycle
  BY DEF RelayStep, RelayNext, FetchPendingOutbox, PublishSubscriptionConfirmation,
     MarkPublished, RecordFailure, MarkOutboxPublished, RecordOutboxFailure,
     storeVars, workerVars, lifecycle

\* Workers send email and do nothing else that is visible.
LEMMA WorkerVisible ==
    ASSUME IInv, NEW w \in Worker,
           WorkerStep(w) \/ (WorkerFault(w) /\ UNCHANGED <<storeVars, relay, consumer>>)
    PROVE  \/ UNCHANGED <<storeVars, mailed>>
           \/ \E i \in Id : /\ saga[i] # "None"
                            /\ mailed' = mailed \cup {i}
                            /\ UNCHANGED storeVars
<1>0. UNCHANGED storeVars
  BY DEF WorkerStep
<1>1. CASE SendAccepted(w) \/ SendRejected(w)
  <2>1. mailed' = mailed \cup {worker[w].cur} \/ UNCHANGED mailed
    BY <1>1 DEF SendAccepted, SendRejected
  <2>2. worker[w].cur \in Id
    BY <1>1 DEF SendAccepted, SendRejected, IInv, HandsFit, TypeOK, WorkerTypeOK, WorkerState
  <2>3. saga[worker[w].cur] # "None"
    BY <2>2 DEF IInv, MessagesHaveSagas
  <2> QED BY <1>0, <2>1, <2>2, <2>3
<1>2. CASE UNCHANGED mailed
  BY <1>0, <1>2
<1> QED
  BY <1>0, <1>1, <1>2 DEF WorkerStep, WorkerNext, WorkerFault, DeliverRequest, PublishResult,
     SettleRequest, RestartWorker, CrashWorker, LoseWorkerChannel, StopWorker

\* Consumers run one of the two saga transactions, or do nothing visible.
LEMMA ConsumerVisible ==
    ASSUME IInv, NEW r \in Replica,
           \/ ConsumerStep(r)
           \/ LoseConsumerChannel(r) /\ UNCHANGED <<relay, workerVars>>
           \/ CrashReplica(r) /\ UNCHANGED workerVars
    PROVE  \/ UNCHANGED <<storeVars, mailed>>
           \/ \E i \in Id, ok \in BOOLEAN :
                /\ \/ CompleteSubscriptionConfirmation(i, ok) /\ i \in mailed
                   \/ CompensateSubscription(i, ok)
                /\ UNCHANGED mailed
<1>0. UNCHANGED mailed
  BY DEF ConsumerStep, workerVars
<1>1. CASE HandleResult(r)
  <2>1. consumer[r].cur \in Id
    BY <1>1 DEF HandleResult, IInv, HandsFit, TypeOK, ConsumerTypeOK, ConsumerState
  <2>2. UNCHANGED storeVars \/ \E ok \in BOOLEAN : RunSagaTransaction(r, ok)
    BY <1>1 DEF HandleResult
  <2>3. consumer[r].kind = "Succeeded" => consumer[r].cur \in mailed
    BY <2>1 DEF IInv, SucceededWasMailed
  <2> QED BY <1>0, <2>1, <2>2, <2>3 DEF RunSagaTransaction
<1>2. CASE UNCHANGED storeVars
  BY <1>0, <1>2
<1> QED
  BY <1>1, <1>2 DEF ConsumerStep, ConsumerNext, DeliverResult, SettleResult, RestartReplica,
     LoseConsumerChannel, CrashReplica

\* Everything a step may do to what users see.
LEMMA VisibleSteps ==
    ASSUME IInv, [Next]_vars
    PROVE  \/ UserNext
           \/ UNCHANGED lifecycle
           \/ \E i \in Id : /\ saga[i] # "None"
                            /\ mailed' = mailed \cup {i}
                            /\ UNCHANGED <<row, key, saga>>
           \/ \E i \in Id : /\ saga[i] \in {"Started", "Completed"} /\ i \in mailed
                            /\ saga' = [saga EXCEPT ![i] = "Completed"]
                            /\ UNCHANGED <<row, key, mailed>>
           \/ \E i \in Id : /\ saga[i] \in {"Started", "Compensated"}
                            /\ saga' = [saga EXCEPT ![i] = "Compensated"]
                            /\ row' = [row EXCEPT ![i] = "Absent"]
                            /\ UNCHANGED <<key, mailed>>
<1> USE DEF lifecycle, storeVars
<1>1. ASSUME NEW w \in Worker,
             WorkerStep(w) \/ (WorkerFault(w) /\ UNCHANGED <<storeVars, relay, consumer>>)
      PROVE  \/ UNCHANGED lifecycle
             \/ \E i \in Id : /\ saga[i] # "None"
                              /\ mailed' = mailed \cup {i}
                              /\ UNCHANGED <<row, key, saga>>
  BY <1>1, WorkerVisible
<1>2. ASSUME NEW r \in Replica,
             \/ ConsumerStep(r)
             \/ LoseConsumerChannel(r) /\ UNCHANGED <<relay, workerVars>>
             \/ CrashReplica(r) /\ UNCHANGED workerVars
      PROVE  \/ UNCHANGED lifecycle
             \/ \E i \in Id : /\ saga[i] \in {"Started", "Completed"} /\ i \in mailed
                              /\ saga' = [saga EXCEPT ![i] = "Completed"]
                              /\ UNCHANGED <<row, key, mailed>>
             \/ \E i \in Id : /\ saga[i] \in {"Started", "Compensated"}
                              /\ saga' = [saga EXCEPT ![i] = "Compensated"]
                              /\ row' = [row EXCEPT ![i] = "Absent"]
                              /\ UNCHANGED <<key, mailed>>
  <2>1. CASE UNCHANGED <<storeVars, mailed>>
    BY <2>1
  <2>2. ASSUME NEW i \in Id, NEW ok \in BOOLEAN, UNCHANGED mailed,
               \/ CompleteSubscriptionConfirmation(i, ok) /\ i \in mailed
               \/ CompensateSubscription(i, ok)
        PROVE  \/ UNCHANGED lifecycle
               \/ /\ saga[i] \in {"Started", "Completed"} /\ i \in mailed
                  /\ saga' = [saga EXCEPT ![i] = "Completed"]
                  /\ UNCHANGED <<row, key, mailed>>
               \/ /\ saga[i] \in {"Started", "Compensated"}
                  /\ saga' = [saga EXCEPT ![i] = "Compensated"]
                  /\ row' = [row EXCEPT ![i] = "Absent"]
                  /\ UNCHANGED <<key, mailed>>
    BY <2>2 DEF CompleteSubscriptionConfirmation, CompensateSubscription, MayComplete,
       MayCompensate, DeleteByID
  <2> QED BY <1>2, <2>1, <2>2, ConsumerVisible
<1>3. CASE UNCHANGED vars
  BY <1>3 DEF vars, workerVars
<1> QED BY <1>1, <1>2, <1>3, RelayInvisible DEF Next, FaultNext

-----------------------------------------------------------------------------
(***************************************************************************)
(* Relays, queues, workers and consumers implement the abstract lifecycle: *)
(* one subscription per subscriber and repository, activated or removed    *)
(* only with the mailed token, completed only after the email, and removed *)
(* together with its compensation.                                         *)
(***************************************************************************)
THEOREM LifecycleImplemented == Spec => LifecycleSpec
<1> USE DEF Lifecycle!lifecycleVars, lifecycle
<1>1. Init => Lifecycle!Init
  BY DEF Init, StoreInit, WorkerInit, Lifecycle!Init
<1>2. IInv /\ [Next]_vars => [Lifecycle!Next]_<<row, key, saga, mailed>>
  <2> SUFFICES ASSUME IInv, [Next]_vars
               PROVE  Lifecycle!Next \/ UNCHANGED <<row, key, saga, mailed>>
    OBVIOUS
  <2>0. row \in [Id -> RowStatus] /\ saga \in [Id -> SagaStatus]
    BY DEF IInv, TypeOK, StoreTypeOK
  <2>1. ASSUME NEW i \in Id, Subscribe(i)
        PROVE  \E k \in Key : Lifecycle!Request(i, k)
    BY <2>1 DEF Subscribe, StartSubscriptionConfirmation, KeyTaken, HasRow, workerVars,
       Lifecycle!Request
  <2>2. ASSUME NEW i \in Id, Confirm(i)
        PROVE  Lifecycle!Activate(i)
    BY <2>2 DEF Confirm, Activate, HasRow, workerVars, Lifecycle!Activate
  <2>3. ASSUME NEW i \in Id, Unsubscribe(i)
        PROVE  Lifecycle!Unsubscribe(i)
    BY <2>3 DEF Unsubscribe, DeleteByToken, HasRow, workerVars, Lifecycle!Unsubscribe
  <2>4. ASSUME NEW i \in Id, saga[i] # "None", mailed' = mailed \cup {i},
               UNCHANGED <<row, key, saga>>
        PROVE  Lifecycle!Mail(i)
    BY <2>4 DEF Lifecycle!Mail
  <2>5. ASSUME NEW i \in Id, saga[i] \in {"Started", "Completed"}, i \in mailed,
               saga' = [saga EXCEPT ![i] = "Completed"], UNCHANGED <<row, key, mailed>>
        PROVE  Lifecycle!Complete(i) \/ UNCHANGED <<row, key, saga, mailed>>
    BY <2>0, <2>5 DEF Lifecycle!Complete
  <2>6. ASSUME NEW i \in Id, saga[i] \in {"Started", "Compensated"},
               saga' = [saga EXCEPT ![i] = "Compensated"],
               row' = [row EXCEPT ![i] = "Absent"], UNCHANGED <<key, mailed>>
        PROVE  Lifecycle!Compensate(i) \/ UNCHANGED <<row, key, saga, mailed>>
    <3>1. CASE saga[i] = "Started"
      BY <2>6, <3>1 DEF Lifecycle!Compensate
    <3>2. CASE saga[i] = "Compensated"
      <4>1. row[i] = "Absent"
        BY <3>2 DEF IInv, RowsHaveSagas, HasRow
      <4> QED BY <2>0, <2>6, <3>2, <4>1
    <3> QED BY <2>6, <3>1, <3>2
  <2> QED
    BY <2>1, <2>2, <2>3, <2>4, <2>5, <2>6, VisibleSteps DEF UserNext, Lifecycle!Next
<1> QED
  BY <1>1, <1>2, Invariance, PTL DEF Spec, LifecycleSpec, Lifecycle!Spec

(***************************************************************************)
(* The rows alone behave as the release tracker's side relies on.  A row   *)
(* is inserted under a key of its own, once; activating and deleting need  *)
(* a row.                                                                  *)
(***************************************************************************)
NewHasNoKey == \A i \in Id : saga[i] = "None" => key[i] = None

THEOREM RowsImplemented == Spec => RowsSpec
<1> USE DEF Rows!rowVars
<1>1. Init => Rows!Init /\ NewHasNoKey
  BY DEF Init, StoreInit, Rows!Init, NewHasNoKey
<1>2. IInv /\ NewHasNoKey /\ [Next]_vars => NewHasNoKey' /\ [Rows!Next]_<<row, key>>
  <2> SUFFICES ASSUME IInv, NewHasNoKey, [Next]_vars
               PROVE  NewHasNoKey' /\ (Rows!Next \/ UNCHANGED <<row, key>>)
    OBVIOUS
  <2>0. /\ row \in [Id -> RowStatus] /\ saga \in [Id -> SagaStatus]
        /\ key \in [Id -> Key \cup {None}]
    BY DEF IInv, TypeOK, StoreTypeOK
  <2>1. ASSUME NEW i \in Id, Subscribe(i)
        PROVE  NewHasNoKey' /\ \E k \in Key : Rows!Insert(i, k)
    <3>1. PICK k \in Key : StartSubscriptionConfirmation(i, k)
      BY <2>1 DEF Subscribe
    <3>2. Rows!Insert(i, k)
      BY <3>1 DEF StartSubscriptionConfirmation, KeyTaken, HasRow, NewHasNoKey, Rows!Insert
    <3>3. NewHasNoKey'
      BY <2>0, <3>1 DEF StartSubscriptionConfirmation, NewHasNoKey
    <3> QED BY <3>2, <3>3
  <2>2. ASSUME NEW i \in Id, Confirm(i)
        PROVE  NewHasNoKey' /\ Rows!Activate(i)
    BY <2>2 DEF Confirm, Activate, HasRow, Rows!Activate, NewHasNoKey
  <2>3. ASSUME NEW i \in Id, Unsubscribe(i)
        PROVE  NewHasNoKey' /\ Rows!Delete(i)
    BY <2>3 DEF Unsubscribe, DeleteByToken, HasRow, Rows!Delete, NewHasNoKey
  <2>4. CASE UNCHANGED <<row, key>> /\ \A i \in Id : saga[i] # "None" => saga'[i] # "None"
    BY <2>4 DEF NewHasNoKey
  <2>5. ASSUME NEW i \in Id, saga[i] \in {"Started", "Completed"},
               saga' = [saga EXCEPT ![i] = "Completed"], UNCHANGED <<row, key>>
        PROVE  NewHasNoKey' /\ UNCHANGED <<row, key>>
    BY <2>0, <2>5 DEF NewHasNoKey
  <2>6. ASSUME NEW i \in Id, saga[i] \in {"Started", "Compensated"},
               saga' = [saga EXCEPT ![i] = "Compensated"],
               row' = [row EXCEPT ![i] = "Absent"], UNCHANGED key
        PROVE  NewHasNoKey' /\ (Rows!Delete(i) \/ UNCHANGED <<row, key>>)
    <3>1. NewHasNoKey'
      BY <2>0, <2>6 DEF NewHasNoKey
    <3>2. CASE row[i] = "Absent"
      BY <2>0, <2>6, <3>1, <3>2
    <3>3. CASE row[i] # "Absent"
      BY <2>6, <3>1, <3>3 DEF Rows!Delete
    <3> QED BY <3>2, <3>3
  <2> QED
    BY <2>1, <2>2, <2>3, <2>4, <2>5, <2>6, VisibleSteps DEF UserNext, Rows!Next, lifecycle
<1> QED
  BY <1>1, <1>2, Invariance, PTL DEF Spec, RowsSpec, Rows!Spec

(***************************************************************************)
(* A row disappears only because its owner unsubscribed or its own saga    *)
(* was compensated in the same transaction: a saga that refuses the        *)
(* transition keeps its row.                                               *)
(***************************************************************************)
THEOREM RowsLeaveWithReason == Spec => RowLeavesWithReason
<1>1. IInv /\ [Next]_vars =>
        [\A i \in Id : HasRow(i) /\ ~HasRow(i)' =>
           \/ Unsubscribe(i)
           \/ saga[i] = "Started" /\ saga'[i] = "Compensated"]_vars
  <2> SUFFICES ASSUME IInv, [Next]_vars, NEW i \in Id, HasRow(i), ~HasRow(i)'
               PROVE  Unsubscribe(i) \/ (saga[i] = "Started" /\ saga'[i] = "Compensated")
    OBVIOUS
  <2>0. /\ row \in [Id -> RowStatus] /\ saga \in [Id -> SagaStatus]
        /\ saga[i] # "Compensated"
    BY DEF IInv, TypeOK, StoreTypeOK, RowsHaveSagas
  <2>1. CASE UserNext
    BY <2>0, <2>1 DEF UserNext, Subscribe, Confirm, Unsubscribe, Activate, DeleteByToken,
       StartSubscriptionConfirmation, HasRow
  <2>2. CASE UNCHANGED row
    BY <2>2 DEF HasRow
  <2>3. ASSUME NEW j \in Id, saga[j] \in {"Started", "Compensated"},
               saga' = [saga EXCEPT ![j] = "Compensated"], row' = [row EXCEPT ![j] = "Absent"]
        PROVE  saga[i] = "Started" /\ saga'[i] = "Compensated"
    BY <2>0, <2>3 DEF HasRow
  <2> QED BY <2>1, <2>2, <2>3, VisibleSteps DEF lifecycle
<1> QED BY <1>1, Invariance, PTL DEF Spec, RowLeavesWithReason
=============================================================================
