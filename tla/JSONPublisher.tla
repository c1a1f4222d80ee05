---------------------------- MODULE JSONPublisher ----------------------------
(***************************************************************************)
(* Publish of the messaging library, between its callers and RabbitMQ: a   *)
(* channel in confirm mode whose confirmations arrive in the order of the  *)
(* messages, and calls that read one confirmation each.  It is what the    *)
(* publishers "Good", "Lagging" and "Closed" of Broker stand for.          *)
(*                                                                         *)
(* A call is known by its message.  A channel is opened once for a process *)
(* and never again, so this is one channel's life.                         *)
(***************************************************************************)
EXTENDS Naturals, Sequences, FiniteSets

CONSTANTS Message, NoCall

ASSUME NoCallAssumption == NoCall \notin Message

VARIABLES call,    \* [Message -> where its call is]
          holder,  \* who has locked publishMu
          open,    \* the channel
          unread,  \* published, and their confirmation not read yet, oldest first
          confirm, \* the answer of the broker that has arrived
          stored   \* messages the broker has

vars == <<call, holder, open, unread, confirm, stored>>

TypeOK ==
    /\ call \in [Message -> {"Idle", "Waiting", "Sending", "Selecting", "Ok", "Err"}]
    /\ holder \in Message \cup {NoCall}
    /\ open \in BOOLEAN
    /\ unread \in Seq(Message)
    /\ confirm \in [Message -> {"None", "Ack", "Nack"}]
    /\ stored \in SUBSET Message

Init ==
    /\ call = [m \in Message |-> "Idle"]
    /\ holder = NoCall
    /\ open = TRUE
    /\ unread = <<>>
    /\ confirm = [m \in Message |-> "None"]
    /\ stored = {}

Unread(m) == \E n \in 1..Len(unread) : unread[n] = m

Returned(m) == call[m] \in {"Ok", "Err"}

\* The messages whose caller was told that they are published.
Reported == {m \in Message : call[m] = "Ok"}

Publish(m) ==
    /\ call[m] = "Idle"
    /\ call' = [call EXCEPT ![m] = "Waiting"]
    /\ UNCHANGED <<holder, open, unread, confirm, stored>>

\* Mutant of Lock: calls are not serialized.
LockNothing(m) ==
    /\ call[m] = "Waiting"
    /\ call' = [call EXCEPT ![m] = "Sending"]
    /\ UNCHANGED <<holder, open, unread, confirm, stored>>

Lock(m) ==
    /\ call[m] = "Waiting" /\ holder = NoCall
    /\ call' = [call EXCEPT ![m] = "Sending"]
    /\ holder' = m
    /\ UNCHANGED <<open, unread, confirm, stored>>

\* Mutant of Return: an error leaves the mutex locked.
ReturnLocked(m, result) ==
    /\ call' = [call EXCEPT ![m] = result]
    /\ holder' = IF result = "Ok" THEN NoCall ELSE holder

Return(m, result) ==
    /\ call' = [call EXCEPT ![m] = result]
    /\ holder' = NoCall

\* PublishWithContext does not look at the context.  An error of the write closes
\* the connection, and the broker may have the message or not.
Send(m) ==
    /\ call[m] = "Sending"
    /\ \/ /\ open
          /\ call' = [call EXCEPT ![m] = "Selecting"]
          /\ unread' = Append(unread, m)
          /\ UNCHANGED <<holder, open, stored>>
       \/ /\ open /\ open' = FALSE
          /\ stored' \in {stored, stored \cup {m}}
          /\ Return(m, "Err")
          /\ UNCHANGED unread
       \/ /\ ~open
          /\ Return(m, "Err")
          /\ UNCHANGED <<open, unread, stored>>
    /\ UNCHANGED confirm

\* Mutant of TakeConfirmation: what was received is not asked whether it is an
\* acknowledgement.
TakeAnything(m) ==
    /\ call[m] = "Selecting" /\ confirm[Head(unread)] # "None"
    /\ Return(m, "Ok")
    /\ unread' = Tail(unread)
    /\ UNCHANGED <<open, confirm, stored>>

\* Mutant of TakeConfirmation: a full buffer is emptied at once.
TakeAll(m) ==
    /\ call[m] = "Selecting" /\ confirm[Head(unread)] # "None"
    /\ Return(m, IF confirm[Head(unread)] = "Ack" THEN "Ok" ELSE "Err")
    /\ unread' = <<>>
    /\ UNCHANGED <<open, confirm, stored>>

\* The oldest confirmation, whose ever it is.
TakeConfirmation(m) ==
    /\ call[m] = "Selecting" /\ confirm[Head(unread)] # "None"
    /\ Return(m, IF confirm[Head(unread)] = "Ack" THEN "Ok" ELSE "Err")
    /\ unread' = Tail(unread)
    /\ UNCHANGED <<open, confirm, stored>>

\* The timeout or the caller's context ends the call, or the channel of
\* confirmations is closed, which reads as one without Ack.
GiveUp(m) ==
    /\ call[m] = "Selecting"
    /\ Return(m, "Err")
    /\ UNCHANGED <<open, unread, confirm, stored>>

-----------------------------------------------------------------------------
(* RabbitMQ and the connection *)

\* Also after the connection broke: what was sent may still arrive.
Store(m) ==
    /\ Unread(m) /\ confirm[m] = "None"
    /\ stored' = stored \cup {m}
    /\ UNCHANGED <<call, holder, open, unread, confirm>>

Answer(m) ==
    /\ open /\ Unread(m) /\ confirm[m] = "None"
    /\ confirm' = [confirm EXCEPT ![m] = IF m \in stored THEN "Ack" ELSE "Nack"]
    /\ UNCHANGED <<call, holder, open, unread, stored>>

Break ==
    /\ open
    /\ open' = FALSE
    /\ UNCHANGED <<call, holder, unread, confirm, stored>>

Next ==
    \/ \E m \in Message :
         \/ Publish(m) \/ Lock(m) \/ Send(m) \/ TakeConfirmation(m) \/ GiveUp(m)
         \/ Store(m) \/ Answer(m)
    \/ Break

Spec == Init /\ [][Next]_vars

\* A sync.Mutex does not starve a waiting goroutine, and the timer fires.
\* Nothing is assumed of the broker.
Fairness ==
    \A m \in Message :
        /\ SF_vars(Lock(m))
        /\ WF_vars(Send(m))
        /\ WF_vars(TakeConfirmation(m) \/ GiveUp(m))

FairSpec == Spec /\ Fairness

-----------------------------------------------------------------------------
(* The inductive invariant *)

\* Whoever holds the mutex is inside, alone, and waits for what it sent last.
IInv ==
    /\ TypeOK
    /\ \A m \in Message : call[m] \in {"Sending", "Selecting"} <=> holder = m
    /\ \A m \in Message :
         call[m] = "Selecting" => unread # <<>> /\ unread[Len(unread)] = m
    /\ \A m \in Message : Unread(m) => call[m] = "Selecting" \/ Returned(m)
    /\ \A m \in Message : confirm[m] = "Ack" => m \in stored

-----------------------------------------------------------------------------
(* What Broker assumes of it *)

\* A confirmation was left behind by the call that waited for it ("Lagging").
Behind == \E m \in Message : Unread(m) /\ Returned(m)

\* Unless a confirmation was left behind, Publish returns nil only for a message
\* the broker has.
TruthfulUnlessBehind ==
    [][\A m \in Message :
         call[m] # "Ok" /\ call'[m] = "Ok" /\ ~Behind => m \in stored]_vars

\* Once behind, always behind: no later call of this channel makes up for it.
NeverCatchesUp == [][Behind => Behind']_vars

\* No confirmation counts for two messages, and nothing else counts as one: as
\* many messages are stored as were reported published.
ConfirmationCountsOnce == Cardinality(Reported) <= Cardinality(stored)

\* Every call returns, whatever the broker does.
EveryCallReturns == \A m \in Message : call[m] = "Waiting" ~> Returned(m)
=============================================================================
