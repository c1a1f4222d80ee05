---------------------------- MODULE EmailDelivery ----------------------------
(***************************************************************************)
(* One Send of the notification worker's email client: SMTP sessions, one  *)
(* per attempt, under the client's retry policy and the context of the     *)
(* worker.  The server, the network and SIGTERM are the environment.       *)
(*                                                                         *)
(* Durations are integers of the width of Go's time.Duration, which wrap   *)
(* around; MaxDuration is the largest.                                     *)
(***************************************************************************)
EXTENDS Integers

CONSTANTS MaxDuration, AttemptLimit

ASSUME DurationAssumption == MaxDuration \in Nat \ {0}
ASSUME AttemptAssumption == AttemptLimit \in Nat \ {0}

VARIABLES policy,      \* the retry policy of the configuration
          pc, attempt, retry, delay,
          error,       \* what the last operation returned
          result,      \* what Send returned
          cancelled,   \* the worker's context
          silent,      \* the server has stopped answering this session
          copies,      \* copies of the email the server has taken
          inHand,      \* messages it received and may still take, unanswered
          unanswered,  \* messages it received and never answered (history)
          waited       \* the delay waited last (history)

serverVars == <<copies, inHand, unanswered>>

delayVars == <<retry, delay, waited>>

vars == <<policy, pc, attempt, delayVars, error, result, cancelled, silent, serverVars>>

-----------------------------------------------------------------------------
(* The retry policy *)

Duration == -(MaxDuration + 1)..MaxDuration

\* Two's complement.
Wrap(d) == IF d > MaxDuration THEN d - 2 * (MaxDuration + 1) ELSE d

Policy == [maxAttempts : 0..AttemptLimit, initialDelay : Duration, maxDelay : Duration]

\* Mutant of NewRetryPolicy: the number of attempts is not looked at.
NewRetryPolicyOfAny(p) ==
    /\ p.initialDelay > 0
    /\ p.maxDelay >= p.initialDelay

\* The configurations the worker starts with; it ends with an error for others.
NewRetryPolicy(p) ==
    /\ p.maxAttempts > 0
    /\ p.initialDelay > 0
    /\ p.maxDelay >= p.initialDelay

\* The replies of the session up to the message, in the order of sendMail.
Commands == {"Greeting", "Mail", "Rcpt", "Data"}

After == [Greeting |-> "Mail", Mail |-> "Rcpt", Rcpt |-> "Data", Data |-> "Write"]

InSession == Commands \cup {"Write", "Close"}

Location ==
    InSession \cup {"Attempt", "Dial", "Quit", "Decide", "Backoff", "Waiting", "Returned"}

TypeOK ==
    /\ policy \in Policy
    /\ pc \in Location
    /\ attempt \in 0..policy.maxAttempts
    /\ retry \in Nat
    /\ delay \in Duration
    /\ error \in {"None", "Transient", "Permanent"}
    /\ result \in {"None", "Nil", "Context", "Failed"}
    /\ cancelled \in BOOLEAN
    /\ silent \in BOOLEAN
    /\ copies \in Nat
    /\ inHand \in Nat
    /\ unanswered \in Nat
    /\ waited \in Duration

Init ==
    /\ policy \in {p \in Policy : NewRetryPolicy(p)}
    /\ pc = "Attempt"
    /\ attempt = 0
    /\ retry = 0
    /\ delay = 0
    /\ error = "None"
    /\ result = "None"
    /\ cancelled = FALSE
    /\ silent = FALSE
    /\ copies = 0
    /\ inHand = 0
    /\ unanswered = 0
    /\ waited = 0

Return(r) ==
    /\ pc' = "Returned"
    /\ result' = r

-----------------------------------------------------------------------------
(* RetryPolicy.execute *)

\* The head of the loop, and the return after it.
Attempt ==
    /\ pc = "Attempt"
    /\ IF attempt = policy.maxAttempts
         THEN Return("Nil") /\ UNCHANGED attempt
         ELSE IF cancelled
           THEN Return("Context") /\ UNCHANGED attempt
           ELSE pc' = "Dial" /\ attempt' = attempt + 1 /\ UNCHANGED result
    /\ error' = "None"
    /\ UNCHANGED <<policy, delayVars, cancelled, silent, serverVars>>

\* Mutant of Decide: every error is worth another attempt.
DecideToRetry ==
    /\ pc = "Decide"
    /\ IF cancelled
         THEN Return("Context") /\ UNCHANGED <<retry, delay>>
         ELSE IF attempt = policy.maxAttempts
           THEN Return("Failed") /\ UNCHANGED <<retry, delay>>
           ELSE /\ pc' = "Backoff" /\ retry' = 1 /\ delay' = policy.initialDelay
                /\ UNCHANGED result
    /\ UNCHANGED <<policy, attempt, error, cancelled, silent, waited, serverVars>>

\* The operation returned an error: the context is asked before the error is
\* classified, and the last attempt's error is the caller's.
Decide ==
    /\ pc = "Decide"
    /\ IF cancelled
         THEN Return("Context") /\ UNCHANGED <<retry, delay>>
         ELSE IF error = "Permanent" \/ attempt = policy.maxAttempts
           THEN Return("Failed") /\ UNCHANGED <<retry, delay>>
           ELSE /\ pc' = "Backoff" /\ retry' = 1 /\ delay' = policy.initialDelay
                /\ UNCHANGED result
    /\ UNCHANGED <<policy, attempt, error, cancelled, silent, waited, serverVars>>

-----------------------------------------------------------------------------
(* RetryPolicy.delayAfter, one iteration of its loop at a time *)

\* Mutant of Doubling: the delay doubles until the loop ends.
DoublingAlways == retry < attempt

\* The cap is not reached by doubling once more.
Doubling == retry < attempt /\ delay < policy.maxDelay \div 2

DoubleDelay ==
    /\ pc = "Backoff"
    /\ Doubling
    /\ delay' = Wrap(2 * delay)
    /\ retry' = retry + 1
    /\ UNCHANGED <<policy, pc, attempt, error, result, cancelled, silent, waited, serverVars>>

\* Mutant of ReturnDelay: at the cap the first delay is returned.
ReturnHalfDelay ==
    /\ pc = "Backoff" /\ ~Doubling
    /\ delay' = IF retry < attempt THEN policy.initialDelay ELSE delay
    /\ pc' = "Waiting"
    /\ UNCHANGED <<policy, attempt, retry, error, result, cancelled, silent, waited, serverVars>>

\* Out of the loop, or the cap.
ReturnDelay ==
    /\ pc = "Backoff" /\ ~Doubling
    /\ delay' = IF retry < attempt \/ delay > policy.maxDelay THEN policy.maxDelay ELSE delay
    /\ pc' = "Waiting"
    /\ UNCHANGED <<policy, attempt, retry, error, result, cancelled, silent, waited, serverVars>>

\* waitForBackoff: the timer, or the context; the select takes either when
\* both are ready.
WaitForBackoff ==
    /\ pc = "Waiting"
    /\ waited' = delay
    /\ \/ pc' = "Attempt" /\ UNCHANGED result
       \/ cancelled /\ Return("Context")
    /\ UNCHANGED <<policy, attempt, retry, delay, error, cancelled, silent, serverVars>>

-----------------------------------------------------------------------------
(* Client.sendOnce: one session *)

SessionFails(e) ==
    /\ error' = e
    /\ pc' = "Decide"

\* Under a cancelled context, or past its deadline, the dialer fails.
Dial ==
    /\ pc = "Dial"
    /\ \/ ~cancelled /\ pc' = "Greeting" /\ UNCHANGED error
       \/ SessionFails("Transient")
    /\ silent' = FALSE
    /\ UNCHANGED <<policy, attempt, delayVars, result, cancelled, serverVars>>

\* The server answers a command: it goes on, or refuses with 4xx or 5xx.
Reply ==
    /\ pc \in Commands /\ ~silent
    /\ \/ pc' = After[pc] /\ UNCHANGED error
       \/ \E e \in {"Transient", "Permanent"} : SessionFails(e)
    /\ UNCHANGED <<policy, attempt, delayVars, result, cancelled, silent, serverVars>>

\* The message is written to the connection's buffer.
Write ==
    /\ pc = "Write"
    /\ pc' = "Close"
    /\ UNCHANGED <<policy, attempt, delayVars, error, result, cancelled, silent, serverVars>>

\* The end of the message, and the answer of the server: it has taken it, or
\* refuses it.
Close ==
    /\ pc = "Close" /\ ~silent
    /\ \/ pc' = "Quit" /\ copies' = copies + 1 /\ UNCHANGED error
       \/ (\E e \in {"Transient", "Permanent"} : SessionFails(e)) /\ UNCHANGED copies
    /\ UNCHANGED <<policy, attempt, delayVars, result, cancelled, silent, inHand, unanswered>>

\* Mutant of Expire: the connection has no deadline.
ExpireNever ==
    /\ pc \in InSession /\ ~silent
    /\ SessionFails("Transient")
    /\ \/ UNCHANGED serverVars
       \/ /\ pc = "Close"
          /\ inHand' = inHand + 1
          /\ unanswered' = unanswered + 1
          /\ UNCHANGED copies
    /\ UNCHANGED <<policy, attempt, delayVars, result, cancelled, silent>>

\* The connection breaks, or its deadline passes.  The server may have the
\* whole message by then.  After a failed Write the end of the message is not
\* sent any more.
Expire ==
    /\ pc \in InSession
    /\ SessionFails("Transient")
    /\ \/ UNCHANGED serverVars
       \/ /\ pc = "Close"
          /\ inHand' = inHand + 1
          /\ unanswered' = unanswered + 1
          /\ UNCHANGED copies
    /\ UNCHANGED <<policy, attempt, delayVars, result, cancelled, silent>>

\* Mutant of Quit: a failure to end the session is an error.
QuitChecked ==
    /\ pc = "Quit"
    /\ \/ Return("Nil") /\ UNCHANGED error
       \/ SessionFails("Transient") /\ UNCHANGED result
    /\ UNCHANGED <<policy, attempt, delayVars, cancelled, silent, serverVars>>

\* A failure to end the session is only logged: the email has been taken.
Quit ==
    /\ pc = "Quit"
    /\ Return("Nil")
    /\ UNCHANGED <<policy, attempt, delayVars, error, cancelled, silent, serverVars>>

ClientStep ==
    \/ Attempt
    \/ Decide
    \/ DoubleDelay
    \/ ReturnDelay
    \/ WaitForBackoff
    \/ Dial
    \/ Reply
    \/ Write
    \/ Close
    \/ Expire
    \/ Quit

-----------------------------------------------------------------------------
(* The environment *)

\* SIGTERM.
Cancel ==
    /\ ~cancelled /\ pc # "Returned"
    /\ cancelled' = TRUE
    /\ UNCHANGED <<policy, pc, attempt, delayVars, error, result, silent, serverVars>>

FallSilent ==
    /\ pc \in InSession /\ ~silent
    /\ silent' = TRUE
    /\ UNCHANGED <<policy, pc, attempt, delayVars, error, result, cancelled, serverVars>>

\* The server takes, or drops, a message whose answer the client did not get.
SettleUnanswered ==
    /\ inHand > 0
    /\ inHand' = inHand - 1
    /\ copies' = copies + 1 \/ UNCHANGED copies
    /\ UNCHANGED <<policy, pc, attempt, delayVars, error, result, cancelled, silent, unanswered>>

Next == ClientStep \/ Cancel \/ FallSilent \/ SettleUnanswered

Spec == Init /\ [][Next]_vars

\* The client's goroutine runs, timers and deadlines fire.
FairSpec == Spec /\ WF_vars(ClientStep)

-----------------------------------------------------------------------------
(* Properties *)

\* Every copy but the acknowledged one is of a message the server never
\* answered: nothing else makes the client send an email that has been taken
\* once more.
ExtraCopiesWereUnanswered ==
    copies + inHand <= unanswered + (IF pc = "Quit" \/ result = "Nil" THEN 1 ELSE 0)

\* A wait lasts at least the first delay and at most the longest, without
\* overflow.
DelayWithinPolicy ==
    pc = "Waiting" => policy.initialDelay <= delay /\ delay <= policy.maxDelay

\* No wait is shorter than the one before.
DelaysNeverShrink == pc = "Waiting" => waited <= delay

\* Once the worker is told to stop, or the server has refused for good, no
\* attempt begins.
NoAttemptAfterTheEnd ==
    [][cancelled \/ error = "Permanent" => attempt' = attempt]_vars

\* Send returns, also when the server stops answering.
SendReturns == <>(result # "None")

\* Send keeps what the worker's model assumes of it.
Promise == INSTANCE SendPromise WITH mailed <- copies > 0

PromiseSpec == Promise!Spec

-----------------------------------------------------------------------------
(* The inductive invariant *)

\* The delay in the loop of delayAfter.
DelayGrows ==
    /\ NewRetryPolicy(policy)
    /\ pc \in {"Backoff", "Waiting"} =>
         policy.initialDelay <= delay /\ delay <= policy.maxDelay
    /\ pc \in InSession \cup {"Dial", "Quit", "Decide", "Backoff", "Waiting"} => attempt > 0
    /\ pc \in {"Backoff", "Waiting"} => attempt < policy.maxAttempts
    /\ pc = "Attempt" => attempt < policy.maxAttempts

\* Send has returned exactly when it has a result, and an email the server
\* acknowledged has been taken.
ReturnsOnce ==
    /\ pc = "Returned" <=> result # "None"
    /\ pc = "Quit" \/ result = "Nil" => copies > 0
    /\ error = "Permanent" => pc \in {"Decide", "Returned"}

IInv ==
    /\ TypeOK
    /\ DelayGrows
    /\ ReturnsOnce
    /\ ExtraCopiesWereUnanswered
=============================================================================
