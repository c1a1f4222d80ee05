------------------------ MODULE JSONPublisher_proofs ------------------------
(***************************************************************************)
(* Theorems about JSONPublisher for any number of concurrent calls.        *)
(***************************************************************************)
EXTENDS JSONPublisher, FiniteSetTheorems, TLAPS

LEMMA InvariantInit == Init => IInv
  BY NoCallAssumption DEF Init, IInv, TypeOK, Unread, Returned

\* What Append and Tail do to the messages without a read confirmation.
LEMMA UnreadAppend ==
    ASSUME NEW m \in Message, unread \in Seq(Message), unread' = Append(unread, m)
    PROVE  /\ unread' \in Seq(Message) /\ unread' # <<>> /\ unread'[Len(unread')] = m
           /\ \A k \in Message : Unread(k)' <=> Unread(k) \/ k = m
  BY DEF Unread

LEMMA UnreadTail ==
    ASSUME unread \in Seq(Message), unread # <<>>, unread' = Tail(unread)
    PROVE  /\ unread' \in Seq(Message)
           /\ \A k \in Message : Unread(k)' => Unread(k)
           /\ Head(unread) \in Message /\ Unread(Head(unread))
           /\ unread[Len(unread)] # Head(unread) => Unread(unread[Len(unread)])'
  BY DEF Unread

LEMMA InvariantStep == IInv /\ [Next]_vars => IInv'
<1> SUFFICES ASSUME IInv, [Next]_vars
             PROVE  IInv'
  OBVIOUS
<1> USE NoCallAssumption DEF IInv, TypeOK, Returned
<1>1. ASSUME NEW m \in Message, Publish(m)
      PROVE  IInv'
  BY <1>1 DEF Publish, Unread
<1>2. ASSUME NEW m \in Message, Lock(m)
      PROVE  IInv'
  BY <1>2 DEF Lock, Unread
<1>3. ASSUME NEW m \in Message, Send(m)
      PROVE  IInv'
  <2>1. CASE call' = [call EXCEPT ![m] = "Selecting"] /\ unread' = Append(unread, m)
    BY <1>3, <2>1, UnreadAppend DEF Send, Return
  <2>2. CASE Return(m, "Err") /\ UNCHANGED unread
    BY <1>3, <2>2 DEF Send, Return, Unread
  <2> QED
    BY <1>3, <2>1, <2>2 DEF Send
<1>4. ASSUME NEW m \in Message, TakeConfirmation(m)
      PROVE  IInv'
  <2>1. unread # <<>> /\ unread' = Tail(unread)
    BY <1>4 DEF TakeConfirmation
  <2> QED
    BY <1>4, <2>1, UnreadTail DEF TakeConfirmation, Return
<1>5. ASSUME NEW m \in Message, GiveUp(m)
      PROVE  IInv'
  BY <1>5 DEF GiveUp, Return, Unread
<1>6. ASSUME NEW m \in Message, Store(m) \/ Answer(m)
      PROVE  IInv'
  BY <1>6 DEF Store, Answer, Unread
<1>7. CASE Break \/ UNCHANGED vars
  BY <1>7 DEF Break, vars, Unread
<1> QED
  BY <1>1, <1>2, <1>3, <1>4, <1>5, <1>6, <1>7 DEF Next

\* Calls are serialized, and the call inside waits for what was published last.
THEOREM PublisherInvariance == Spec => []IInv
  BY InvariantInit, InvariantStep, PTL DEF Spec

\* However many goroutines publish at once: as long as no call has left its
\* confirmation behind, what Publish reports as published is stored.
THEOREM PublishIsTruthful == Spec => TruthfulUnlessBehind
<1>1. IInv /\ [Next]_vars
      => \A m \in Message : call[m] # "Ok" /\ call'[m] = "Ok" /\ ~Behind => m \in stored
  <2> SUFFICES ASSUME IInv, [Next]_vars, NEW m \in Message,
                      call[m] # "Ok", call'[m] = "Ok", ~Behind
               PROVE  m \in stored
    OBVIOUS
  <2>1. TakeConfirmation(m) /\ confirm[Head(unread)] = "Ack"
    BY DEF IInv, TypeOK, Next, vars, Publish, Lock, Send, TakeConfirmation, GiveUp, Store,
       Answer, Break, Return
  <2>2. /\ call[m] = "Selecting" /\ holder = m /\ unread # <<>> /\ unread \in Seq(Message)
        /\ unread' = Tail(unread)
    BY <2>1 DEF TakeConfirmation, IInv, TypeOK
  <2>3. Head(unread) \in Message /\ Unread(Head(unread))
    BY <2>2, UnreadTail
  <2>4. Head(unread) = m
    BY <2>2, <2>3 DEF IInv, Behind
  <2> QED
    BY <2>1, <2>4 DEF IInv
<1> QED
  BY <1>1, PublisherInvariance, PTL DEF Spec, TruthfulUnlessBehind

\* A confirmation left behind shifts all later ones for as long as the channel
\* is used.
THEOREM LaggingForEver == Spec => NeverCatchesUp
<1>1. IInv /\ [Next]_vars => (Behind => Behind')
  <2> SUFFICES ASSUME IInv, [Next]_vars, NEW n \in Message, Unread(n), Returned(n)
               PROVE  Behind'
    BY DEF Behind
  <2>1. ASSUME NEW m \in Message, Send(m)
        PROVE  Behind'
    BY <2>1, UnreadAppend DEF Send, Return, Behind, Unread, Returned, IInv, TypeOK
  <2>2. ASSUME NEW m \in Message, TakeConfirmation(m)
        PROVE  Behind'
    <3>1. /\ call[m] = "Selecting" /\ unread # <<>> /\ unread[Len(unread)] = m
          /\ unread \in Seq(Message) /\ unread' = Tail(unread) /\ Returned(m)'
      BY <2>2 DEF TakeConfirmation, Return, Returned, IInv, TypeOK
    <3>2. n # m
      BY <3>1 DEF Returned
    <3>3. CASE Head(unread) # m
      BY <3>1, <3>3, UnreadTail DEF Behind
    <3>4. CASE Unread(n)'
      BY <2>2, <3>2, <3>4 DEF TakeConfirmation, Return, Returned, Behind, IInv, TypeOK
    <3>5. Head(unread) # m \/ Unread(n)'
      BY <3>1, <3>2 DEF Unread
    <3> QED
      BY <3>3, <3>4, <3>5
  <2>3. CASE UNCHANGED unread /\ Returned(n)'
    BY <2>3 DEF Behind, Unread
  <2>4. UNCHANGED unread => Returned(n)'
    BY DEF Returned, IInv, TypeOK, Next, vars, Publish, Lock, Send, TakeConfirmation, GiveUp,
       Store, Answer, Break, Return
  <2> QED
    BY <2>1, <2>2, <2>3, <2>4 DEF Next, vars, Publish, Lock, GiveUp, Store, Answer, Break
<1> QED
  BY <1>1, PublisherInvariance, PTL DEF Spec, NeverCatchesUp

-----------------------------------------------------------------------------
(* Counting confirmations *)

\* The messages whose acknowledgement some call has read.
Taken == {m \in Message : confirm[m] = "Ack" /\ ~Unread(m)}

\* What counting needs besides: a message is published once and confirmed only
\* then, and as many acknowledgements were read as messages reported.
CountInv ==
    /\ \A i, j \in 1..Len(unread) : unread[i] = unread[j] => i = j
    /\ \A m \in Message : confirm[m] # "None" => call[m] = "Selecting" \/ Returned(m)
    /\ IsFiniteSet(stored)
    /\ IsFiniteSet(Reported)
    /\ Cardinality(Reported) <= Cardinality(Taken)

\* Nothing is published, confirmed or stored at first.
LEMMA CountInit == Init => CountInv
  <1> SUFFICES ASSUME Init PROVE CountInv
    OBVIOUS
  <1>1. Reported = {} /\ Taken = {}
    BY DEF Init, Reported, Taken
  <1> QED
    BY <1>1, FS_EmptySet DEF Init, CountInv

\* What was read is stored, so it can be counted.
LEMMA TakenIsStored ==
    ASSUME IInv, CountInv
    PROVE  /\ Taken \subseteq stored
           /\ IsFiniteSet(Taken)
           /\ Cardinality(Taken) \in Nat
           /\ Cardinality(Taken) <= Cardinality(stored)
  <1>1. Taken \subseteq stored
    BY DEF IInv, Taken
  <1> QED
    BY <1>1, FS_Subset, FS_CardinalityType DEF CountInv

\* A step that neither reads a confirmation nor ends a call with success keeps
\* the counts.
LEMMA CountsKept ==
    ASSUME CountInv, Reported' = Reported, Taken' = Taken
    PROVE  /\ IsFiniteSet(Reported')
           /\ Cardinality(Reported') <= Cardinality(Taken')
  BY DEF CountInv

LEMMA CountStep == IInv /\ CountInv /\ [Next]_vars => CountInv'
<1> SUFFICES ASSUME IInv, CountInv, [Next]_vars
             PROVE  CountInv'
  OBVIOUS
<1> USE DEF Returned
<1>1. ASSUME NEW m \in Message, Publish(m) \/ Lock(m)
      PROVE  CountInv'
  <2>1. Reported' = Reported /\ Taken' = Taken
    BY <1>1 DEF Publish, Lock, Reported, Taken, Unread, IInv, TypeOK
  <2> QED
    BY <1>1, <2>1 DEF Publish, Lock, CountInv, IInv, TypeOK
<1>2. ASSUME NEW m \in Message, Send(m)
      PROVE  CountInv'
  <2>1. CASE call' = [call EXCEPT ![m] = "Selecting"] /\ unread' = Append(unread, m)
    <3>1. ~Unread(m) /\ confirm[m] = "None"
      BY <1>2 DEF Send, IInv, CountInv
    <3>2. Reported' = Reported /\ Taken' = Taken
      BY <1>2, <2>1, <3>1, UnreadAppend DEF Send, Reported, Taken, IInv, TypeOK
    <3>3. \A i, j \in 1..Len(unread') : unread'[i] = unread'[j] => i = j
      BY <2>1, <3>1 DEF CountInv, Unread
    <3> QED
      BY <1>2, <2>1, <3>2, <3>3 DEF Send, CountInv
  <2>2. CASE Return(m, "Err") /\ UNCHANGED unread
    <3>1. Reported' = Reported /\ Taken' = Taken
      BY <1>2, <2>2 DEF Send, Return, Reported, Taken, Unread
    <3>2. IsFiniteSet(stored')
      BY <1>2, FS_AddElement DEF Send, CountInv
    <3> QED
      BY <1>2, <2>2, <3>1, <3>2 DEF Send, Return, CountInv
  <2> QED
    BY <1>2, <2>1, <2>2 DEF Send
<1>3. ASSUME NEW m \in Message, TakeConfirmation(m)
      PROVE  CountInv'
  <2>1. /\ unread \in Seq(Message) /\ unread # <<>> /\ unread' = Tail(unread)
        /\ UNCHANGED <<confirm, stored>> /\ call[m] = "Selecting"
    BY <1>3 DEF TakeConfirmation, IInv, TypeOK
  <2>2. PICK h \in Message : h = Head(unread)
    BY <2>1, UnreadTail
  <2>3. /\ Len(unread') = Len(unread) - 1 /\ Len(unread) \in Nat \ {0}
        /\ h = unread[1]
        /\ \A n \in 1..Len(unread') : unread'[n] = unread[n + 1]
    BY <2>1, <2>2
  <2>4. Unread(h) /\ ~Unread(h)'
    BY <2>3 DEF CountInv, Unread
  <2>5. ASSUME NEW k \in Message, k # h
        PROVE  Unread(k)' <=> Unread(k)
    <3>1. ASSUME NEW n \in 1..Len(unread), unread[n] = k
          PROVE  Unread(k)'
      <4>1. n - 1 \in 1..Len(unread') /\ unread'[n - 1] = k
        BY <2>3, <2>5, <3>1
      <4> QED
        BY <4>1 DEF Unread
    <3>2. Unread(k)' => Unread(k)
      BY <2>1, UnreadTail
    <3> QED
      BY <3>1, <3>2 DEF Unread
  <2>7. /\ IsFiniteSet(Reported')
        /\ Cardinality(Reported') <= Cardinality(Taken')
    <3>1. CASE confirm[h] = "Ack"
      <4>1. Reported' = Reported \cup {m} /\ m \notin Reported
        BY <1>3, <2>2, <3>1 DEF TakeConfirmation, Return, Reported, IInv, TypeOK
      <4>2. Taken' = Taken \cup {h} /\ h \notin Taken
        <5>1. h \in Taken' /\ h \notin Taken
          BY <2>1, <2>4, <3>1 DEF Taken
        <5>2. \A k \in Message : k # h => (k \in Taken' <=> k \in Taken)
          BY <2>1, <2>5 DEF Taken
        <5>3. Taken \subseteq Message /\ Taken' \subseteq Message
          BY DEF Taken
        <5> QED
          BY <5>1, <5>2, <5>3
      <4>3. /\ IsFiniteSet(Reported') /\ Cardinality(Reported') = Cardinality(Reported) + 1
        BY <4>1, FS_AddElement DEF CountInv
      <4>4. Cardinality(Taken') = Cardinality(Taken) + 1
        BY <4>2, TakenIsStored, FS_AddElement
      <4>5. Cardinality(Reported) \in Nat /\ Cardinality(Taken) \in Nat
        BY TakenIsStored, FS_CardinalityType DEF CountInv
      <4> QED
        BY <4>3, <4>4, <4>5 DEF CountInv
    <3>2. CASE confirm[h] # "Ack"
      <4>1. Reported' = Reported
        BY <1>3, <2>2, <3>2 DEF TakeConfirmation, Return, Reported
      <4>2. Taken' = Taken
        BY <2>1, <2>5, <3>2 DEF Taken
      <4> QED
        BY <4>1, <4>2, CountsKept
    <3> QED
      BY <3>1, <3>2
  <2> QED
    BY <1>3, <2>7 DEF TakeConfirmation, Return, CountInv
<1>4. ASSUME NEW m \in Message, GiveUp(m)
      PROVE  CountInv'
  <2>1. Reported' = Reported /\ Taken' = Taken
    BY <1>4 DEF GiveUp, Return, Reported, Taken, Unread
  <2> QED
    BY <1>4, <2>1 DEF GiveUp, Return, CountInv
<1>5. ASSUME NEW m \in Message, Store(m)
      PROVE  CountInv'
  <2>1. Reported' = Reported /\ Taken' = Taken
    BY <1>5 DEF Store, Reported, Taken, Unread
  <2>2. IsFiniteSet(stored')
    BY <1>5, FS_AddElement DEF Store, CountInv
  <2> QED
    BY <1>5, <2>1, <2>2 DEF Store, CountInv
<1>6. ASSUME NEW m \in Message, Answer(m)
      PROVE  CountInv'
  <2>1. Reported' = Reported /\ Taken' = Taken
    BY <1>6 DEF Answer, Reported, Taken, Unread
  <2> QED
    BY <1>6, <2>1 DEF Answer, CountInv, IInv
<1>7. CASE Break \/ UNCHANGED vars
  <2>1. Reported' = Reported /\ Taken' = Taken
    BY <1>7 DEF Break, vars, Reported, Taken, Unread
  <2> QED
    BY <1>7, <2>1 DEF Break, vars, CountInv
<1> QED
  BY <1>1, <1>2, <1>3, <1>4, <1>5, <1>6, <1>7 DEF Next

\* However many goroutines publish at once, and whatever is left behind: no
\* confirmation is counted twice, and no failure is counted as one.
THEOREM ConfirmationsCountOnce == Spec => []ConfirmationCountsOnce
<1>1. IInv /\ CountInv => ConfirmationCountsOnce
  <2> SUFFICES ASSUME IInv, CountInv PROVE ConfirmationCountsOnce
    OBVIOUS
  <2>1. /\ Cardinality(Reported) \in Nat /\ Cardinality(stored) \in Nat
        /\ Cardinality(Reported) <= Cardinality(Taken)
    BY FS_CardinalityType DEF CountInv
  <2> QED
    BY <2>1, TakenIsStored DEF ConfirmationCountsOnce
<1>2. Spec => []CountInv
  BY CountInit, CountStep, PublisherInvariance, PTL DEF Spec
<1> QED
  BY <1>1, <1>2, PublisherInvariance, PTL
=============================================================================
