------------------------ MODULE EmailDelivery_proofs ------------------------
(***************************************************************************)
(* One Send of the email client keeps its promise to the worker, sends no  *)
(* second copy of an acknowledged email, and waits within its policy.      *)
(***************************************************************************)
EXTENDS EmailDelivery, TLAPS

\* Doubling a delay below half of the cap stays within the cap.
LEMMA DoubleWithinCap ==
    ASSUME NEW d \in Int, NEW m \in Int, d < m \div 2
    PROVE  2 * d <= m
  OBVIOUS

\* delayAfter never wraps around.
LEMMA DoublingIsExact ==
    ASSUME IInv, pc = "Backoff", Doubling
    PROVE  /\ Wrap(2 * delay) = 2 * delay
           /\ Wrap(2 * delay) \in Duration
           /\ policy.initialDelay <= Wrap(2 * delay)
           /\ Wrap(2 * delay) <= policy.maxDelay
  <1>1. /\ delay \in Int /\ policy.maxDelay \in Int /\ policy.initialDelay \in Int
        /\ policy.maxDelay <= MaxDuration /\ MaxDuration \in Nat
    BY DurationAssumption DEF IInv, TypeOK, Policy, Duration
  <1>2. 2 * delay <= policy.maxDelay
    BY <1>1, DoubleWithinCap DEF Doubling
  <1>3. 0 < policy.initialDelay /\ policy.initialDelay <= delay
    BY DEF IInv, DelayGrows, NewRetryPolicy
  <1> QED
    BY <1>1, <1>2, <1>3 DEF Wrap, Duration

-----------------------------------------------------------------------------
(* The invariant *)

\* The client starts with a valid policy and nothing sent.
LEMMA InitIInv == Init => IInv
  <1> SUFFICES ASSUME Init PROVE IInv
    OBVIOUS
  <1>1. policy \in Policy /\ NewRetryPolicy(policy)
    BY DEF Init
  <1>2. policy.maxAttempts \in Nat /\ policy.maxAttempts > 0
    BY <1>1, AttemptAssumption DEF Policy, NewRetryPolicy
  <1>3. 0 \in Duration /\ 0 \in 0..policy.maxAttempts
    BY <1>2, DurationAssumption DEF Duration
  <1>4. TypeOK
    BY <1>1, <1>3 DEF Init, TypeOK, Location
  <1> QED
    BY <1>1, <1>2, <1>4
    DEF Init, IInv, DelayGrows, ReturnsOnce, ExtraCopiesWereUnanswered, InSession, Commands

\* The policy is within its types.
LEMMA PolicyTypes ==
    ASSUME TypeOK
    PROVE  /\ policy.maxAttempts \in Nat
           /\ policy.initialDelay \in Duration
           /\ policy.maxDelay \in Duration
           /\ Duration \subseteq Int
  BY DurationAssumption, AttemptAssumption DEF TypeOK, Policy, Duration

\* The steps of the retry loop keep the invariant.
LEMMA RetryStep ==
    ASSUME IInv, Attempt \/ Decide \/ ReturnDelay \/ WaitForBackoff
    PROVE  IInv'
  <1>0. TypeOK
    BY DEF IInv
  <1>1. CASE Attempt
    BY <1>0, <1>1, PolicyTypes
    DEF IInv, TypeOK, DelayGrows, ReturnsOnce, ExtraCopiesWereUnanswered, Attempt, Return,
        NewRetryPolicy, Location, InSession, Commands, delayVars, serverVars
  <1>2. CASE Decide
    BY <1>0, <1>2, PolicyTypes
    DEF IInv, TypeOK, DelayGrows, ReturnsOnce, ExtraCopiesWereUnanswered, Decide, Return,
        NewRetryPolicy, Location, InSession, Commands, delayVars, serverVars
  <1>3. CASE ReturnDelay
    BY <1>0, <1>3, PolicyTypes
    DEF IInv, TypeOK, DelayGrows, ReturnsOnce, ExtraCopiesWereUnanswered, ReturnDelay,
        NewRetryPolicy, Location, InSession, Commands, delayVars, serverVars
  <1>4. CASE WaitForBackoff
    BY <1>0, <1>4, PolicyTypes
    DEF IInv, TypeOK, DelayGrows, ReturnsOnce, ExtraCopiesWereUnanswered, WaitForBackoff,
        Return, NewRetryPolicy, Location, InSession, Commands, delayVars, serverVars
  <1> QED
    BY <1>1, <1>2, <1>3, <1>4

\* Doubling the delay keeps the invariant.
LEMMA DoubleStep ==
    ASSUME IInv, DoubleDelay
    PROVE  IInv'
  <1>0. TypeOK
    BY DEF IInv
  <1>1. /\ Wrap(2 * delay) \in Duration
        /\ policy.initialDelay <= Wrap(2 * delay)
        /\ Wrap(2 * delay) <= policy.maxDelay
    BY DoublingIsExact DEF DoubleDelay
  <1> QED
    BY <1>0, <1>1, PolicyTypes
    DEF IInv, TypeOK, DelayGrows, ReturnsOnce, ExtraCopiesWereUnanswered, DoubleDelay,
        NewRetryPolicy, Location, InSession, Commands, serverVars

\* The steps of a session keep the invariant.
LEMMA SessionStep ==
    ASSUME IInv, Dial \/ Reply \/ Write \/ Close \/ Expire \/ Quit
    PROVE  IInv'
  <1>0. TypeOK
    BY DEF IInv
  <1>1. CASE Dial
    BY <1>0, <1>1, PolicyTypes
    DEF IInv, TypeOK, DelayGrows, ReturnsOnce, ExtraCopiesWereUnanswered, Dial, SessionFails,
        NewRetryPolicy, Location, InSession, Commands, delayVars, serverVars
  <1>2. CASE Reply
    BY <1>0, <1>2, PolicyTypes
    DEF IInv, TypeOK, DelayGrows, ReturnsOnce, ExtraCopiesWereUnanswered, Reply, SessionFails,
        After, NewRetryPolicy, Location, InSession, Commands, delayVars, serverVars
  <1>3. CASE Write
    BY <1>0, <1>3, PolicyTypes
    DEF IInv, TypeOK, DelayGrows, ReturnsOnce, ExtraCopiesWereUnanswered, Write,
        NewRetryPolicy, Location, InSession, Commands, delayVars, serverVars
  <1>4. CASE Close
    BY <1>0, <1>4, PolicyTypes
    DEF IInv, TypeOK, DelayGrows, ReturnsOnce, ExtraCopiesWereUnanswered, Close, SessionFails,
        NewRetryPolicy, Location, InSession, Commands, delayVars, serverVars
  <1>5. CASE Expire
    BY <1>0, <1>5, PolicyTypes
    DEF IInv, TypeOK, DelayGrows, ReturnsOnce, ExtraCopiesWereUnanswered, Expire, SessionFails,
        NewRetryPolicy, Location, InSession, Commands, delayVars, serverVars
  <1>6. CASE Quit
    BY <1>0, <1>6, PolicyTypes
    DEF IInv, TypeOK, DelayGrows, ReturnsOnce, ExtraCopiesWereUnanswered, Quit, Return,
        NewRetryPolicy, Location, InSession, Commands, delayVars, serverVars
  <1> QED
    BY <1>1, <1>2, <1>3, <1>4, <1>5, <1>6

\* The environment keeps the invariant.
LEMMA EnvironmentStep ==
    ASSUME IInv, Cancel \/ FallSilent \/ SettleUnanswered
    PROVE  IInv'
  <1>0. TypeOK
    BY DEF IInv
  <1>1. CASE Cancel
    BY <1>0, <1>1
    DEF IInv, TypeOK, DelayGrows, ReturnsOnce, ExtraCopiesWereUnanswered, Cancel,
        NewRetryPolicy, delayVars, serverVars
  <1>2. CASE FallSilent
    BY <1>0, <1>2
    DEF IInv, TypeOK, DelayGrows, ReturnsOnce, ExtraCopiesWereUnanswered, FallSilent,
        NewRetryPolicy, delayVars, serverVars
  <1>3. CASE SettleUnanswered
    BY <1>0, <1>3
    DEF IInv, TypeOK, DelayGrows, ReturnsOnce, ExtraCopiesWereUnanswered, SettleUnanswered,
        NewRetryPolicy, delayVars
  <1> QED
    BY <1>1, <1>2, <1>3

\* Every step keeps the invariant.
LEMMA NextIInv == IInv /\ [Next]_vars => IInv'
  <1> SUFFICES ASSUME IInv, [Next]_vars PROVE IInv'
    OBVIOUS
  <1>1. CASE ClientStep
    BY <1>1, RetryStep, DoubleStep, SessionStep DEF ClientStep
  <1>2. CASE Cancel \/ FallSilent \/ SettleUnanswered
    BY <1>2, EnvironmentStep
  <1>3. CASE UNCHANGED vars
    BY <1>3
    DEF vars, delayVars, serverVars, IInv, TypeOK, DelayGrows, ReturnsOnce,
        ExtraCopiesWereUnanswered, NewRetryPolicy
  <1> QED
    BY <1>1, <1>2, <1>3 DEF Next

\* The invariant of the proofs holds in every reachable state.
THEOREM EmailInvariance == Spec => []IInv
  <1>1. QED
    BY InitIInv, NextIInv, PTL DEF Spec

-----------------------------------------------------------------------------
(* What follows from it *)

\* The types hold in every reachable state.
THEOREM EmailTypes == Spec => []TypeOK
  <1>1. IInv => TypeOK
    BY DEF IInv
  <1> QED
    BY <1>1, EmailInvariance, PTL

\* Only a message the server never answered can lead to a second copy.
THEOREM CopiesAreAccounted == Spec => []ExtraCopiesWereUnanswered
  <1>1. IInv => ExtraCopiesWereUnanswered
    BY DEF IInv
  <1> QED
    BY <1>1, EmailInvariance, PTL

\* Every wait of the retry loop is within the policy: no policy NewRetryPolicy
\* lets pass makes delayAfter overflow.
THEOREM DelaysStayWithinPolicy == Spec => []DelayWithinPolicy
  <1>1. IInv => DelayWithinPolicy
    BY DEF IInv, DelayGrows, DelayWithinPolicy
  <1> QED
    BY <1>1, EmailInvariance, PTL

\* No attempt begins after SIGTERM or after a final refusal.
THEOREM EndIsFinal == Spec => NoAttemptAfterTheEnd
  <1>1. IInv /\ [Next]_vars => [cancelled \/ error = "Permanent" => attempt' = attempt]_vars
    BY DEF IInv, ReturnsOnce, Next, ClientStep, Attempt, Decide, DoubleDelay, ReturnDelay,
       WaitForBackoff, Dial, Reply, Write, Close, Expire, Quit, Cancel, FallSilent,
       SettleUnanswered, vars, delayVars, serverVars
  <1> QED
    BY <1>1, EmailInvariance, PTL DEF Spec, NoAttemptAfterTheEnd

-----------------------------------------------------------------------------
(* The order of the delays *)

\* What delayAfter returns after attempt n, if f[i] is the first delay doubled
\* i - 1 times: f[n], or the longest delay if an earlier one reached half of it.
DelayAfter(f, n, d) ==
    \/ d = f[n] /\ \A i \in 1..(n - 1) : f[i] < policy.maxDelay \div 2
    \/ d = policy.maxDelay /\ \E i \in 1..(n - 1) : f[i] >= policy.maxDelay \div 2

\* The last attempt that was waited after.
WaitedAfter == IF pc = "Attempt" THEN attempt ELSE attempt - 1

\* The loop of delayAfter runs through f, and so did the one before.
FollowsDoubling(f) ==
    /\ attempt > 0 => f[1] = policy.initialDelay
    /\ \A i \in 1..(attempt - 1) : f[i + 1] = 2 * f[i]
    /\ pc = "Backoff" =>
         /\ retry \in 1..attempt /\ delay = f[retry]
         /\ \A i \in 1..(retry - 1) : f[i] < policy.maxDelay \div 2
    /\ pc = "Waiting" => DelayAfter(f, attempt, delay)
    /\ waited <= policy.maxDelay
    /\ pc # "Returned" =>
         \/ waited = 0
         \/ WaitedAfter > 0 /\ DelayAfter(f, WaitedAfter, waited)

\* What the order of the delays needs besides.
DelayInv == \E f \in [1..attempt -> Nat] : FollowsDoubling(f)

\* A further attempt doubles the last delay once more.
LEMMA DoublingGrows ==
    ASSUME NEW n \in Nat, NEW f \in [1..n -> Nat], NEW d \in Nat
    PROVE  \E g \in [1..(n + 1) -> Nat] :
             /\ \A i \in 1..n : g[i] = f[i]
             /\ n = 0 => g[1] = d
             /\ n > 0 => g[n + 1] = 2 * f[n]
  <1> DEFINE g == [i \in 1..(n + 1) |-> IF i <= n THEN f[i] ELSE IF n = 0 THEN d ELSE 2 * f[n]]
  <1>1. g \in [1..(n + 1) -> Nat]
    OBVIOUS
  <1>2. /\ \A i \in 1..n : g[i] = f[i]
        /\ n = 0 => g[1] = d
        /\ n > 0 => g[n + 1] = 2 * f[n]
    OBVIOUS
  <1> QED
    BY <1>1, <1>2

\* What was returned after one attempt is not more than after the next.
LEMMA NextDelayIsLonger ==
    ASSUME TypeOK, NEW n \in Nat \ {0}, NEW f \in [1..(n + 1) -> Nat], f[n + 1] = 2 * f[n],
           NEW w \in Int, NEW d \in Int, w <= policy.maxDelay,
           DelayAfter(f, n, w), DelayAfter(f, n + 1, d)
    PROVE  w <= d
  <1>1. policy.maxDelay \in Int /\ f[n] \in Nat
    BY PolicyTypes
  <1>2. CASE d = policy.maxDelay
    BY <1>2
  <1>3. CASE d = f[n + 1] /\ \A i \in 1..n : f[i] < policy.maxDelay \div 2
    <2>1. ~\E i \in 1..(n - 1) : f[i] >= policy.maxDelay \div 2
      BY <1>1, <1>3
    <2>2. w = f[n]
      BY <2>1 DEF DelayAfter
    <2> QED
      BY <1>1, <1>3, <2>2
  <1> QED
    BY DEF DelayAfter

\* Nothing has been waited before the first attempt.
LEMMA DelayInit == Init => DelayInv
  <1> SUFFICES ASSUME Init PROVE DelayInv
    OBVIOUS
  <1>1. PICK f \in [1..0 -> Nat] : TRUE
    BY [i \in 1..0 |-> 0] \in [1..0 -> Nat]
  <1>2. 0 <= policy.maxDelay
    BY PolicyTypes, InitIInv DEF Init, IInv, NewRetryPolicy
  <1>3. FollowsDoubling(f)
    BY <1>2 DEF Init, FollowsDoubling
  <1> QED
    BY <1>3 DEF Init, DelayInv

\* Every step follows the doubling of the delays.
LEMMA DelayStep == IInv /\ DelayInv /\ [Next]_vars => DelayInv'
  <1> SUFFICES ASSUME IInv, DelayInv, [Next]_vars PROVE DelayInv'
    OBVIOUS
  <1>1. PICK f \in [1..attempt -> Nat] : FollowsDoubling(f)
    BY DEF DelayInv
  <1>2. /\ attempt \in Nat /\ policy.initialDelay \in Nat /\ TypeOK
    BY PolicyTypes DEF IInv, TypeOK, DelayGrows, NewRetryPolicy
  <1>3. ASSUME UNCHANGED attempt, FollowsDoubling(f)'
        PROVE  DelayInv'
    BY <1>3 DEF DelayInv
  <1>4. CASE Attempt
    <2>1. attempt # policy.maxAttempts
      BY <1>4, PolicyTypes DEF IInv, DelayGrows, Attempt
    <2>2. CASE cancelled
      <3>1. UNCHANGED attempt /\ FollowsDoubling(f)'
        BY <1>1, <1>4, <2>1, <2>2
        DEF FollowsDoubling, DelayAfter, Attempt, Return, delayVars
      <3> QED
        BY <3>1, <1>3
    <2>3. CASE ~cancelled
      <3>1. PICK g \in [1..(attempt + 1) -> Nat] :
              /\ \A i \in 1..attempt : g[i] = f[i]
              /\ attempt = 0 => g[1] = policy.initialDelay
              /\ attempt > 0 => g[attempt + 1] = 2 * f[attempt]
        BY <1>2, DoublingGrows
      <3>2. /\ pc = "Attempt" /\ pc' = "Dial" /\ attempt' = attempt + 1
            /\ UNCHANGED <<policy, waited>>
        BY <1>4, <2>1, <2>3 DEF Attempt, delayVars
      <3>3. attempt' > 0 => g[1] = policy'.initialDelay
        BY <1>1, <1>2, <3>1, <3>2 DEF FollowsDoubling
      <3>4. \A i \in 1..(attempt' - 1) : g[i + 1] = 2 * g[i]
        BY <1>1, <1>2, <3>1, <3>2 DEF FollowsDoubling
      <3>5. waited = 0 \/ (attempt > 0 /\ DelayAfter(f, attempt, waited))
        BY <1>1, <3>2 DEF FollowsDoubling, WaitedAfter
      <3>6. waited' = 0 \/ (WaitedAfter' > 0 /\ DelayAfter(g, WaitedAfter, waited)')
        <4>1. WaitedAfter' = attempt
          BY <1>2, <3>2 DEF WaitedAfter
        <4>2. CASE attempt > 0 /\ DelayAfter(f, attempt, waited)
          <5>1. g[attempt] = f[attempt] /\ \A i \in 1..(attempt - 1) : g[i] = f[i]
            BY <1>2, <3>1, <4>2
          <5> QED
            BY <3>2, <4>1, <4>2, <5>1 DEF DelayAfter
        <4> QED
          BY <3>2, <3>5, <4>2
      <3>7. FollowsDoubling(g)'
        BY <1>1, <3>2, <3>3, <3>4, <3>6 DEF FollowsDoubling
      <3> QED
        BY <3>2, <3>7 DEF DelayInv
    <2> QED
      BY <2>2, <2>3
  <1>5. CASE Decide
    <2>1. attempt > 0
      BY <1>5 DEF IInv, DelayGrows, Decide
    <2>2. /\ pc = "Decide" /\ pc' \in {"Backoff", "Returned"}
          /\ UNCHANGED <<policy, attempt, waited>>
          /\ pc' = "Backoff" => retry' = 1 /\ delay' = policy.initialDelay
      BY <1>5 DEF Decide, Return
    <2>3. pc' = "Backoff" => /\ retry' \in 1..attempt /\ delay' = f[retry']
                             /\ \A i \in 1..(retry' - 1) : FALSE
      BY <1>1, <1>2, <2>1, <2>2 DEF FollowsDoubling
    <2>4. FollowsDoubling(f)'
      BY <1>1, <2>2, <2>3 DEF FollowsDoubling, WaitedAfter, DelayAfter
    <2> QED
      BY <1>3, <2>2, <2>4
  <1>6. CASE DoubleDelay
    <2>1. /\ delay' = 2 * delay /\ retry' = retry + 1 /\ retry < attempt
          /\ delay < policy.maxDelay \div 2 /\ pc = "Backoff"
          /\ UNCHANGED <<policy, pc, attempt, waited>>
      BY <1>6, DoublingIsExact DEF DoubleDelay, Doubling
    <2>2. /\ retry' \in 1..attempt' /\ delay' = f[retry']
          /\ \A i \in 1..(retry' - 1) : f[i] < policy'.maxDelay \div 2
      BY <1>1, <1>2, <2>1 DEF FollowsDoubling
    <2>3. FollowsDoubling(f)'
      BY <1>1, <2>1, <2>2 DEF FollowsDoubling, WaitedAfter, DelayAfter
    <2> QED
      BY <1>3, <2>1, <2>3
  <1>7. CASE ReturnDelay
    <2>1. /\ pc = "Backoff" /\ pc' = "Waiting"
          /\ UNCHANGED <<policy, attempt, waited>>
          /\ retry \in 1..attempt /\ delay = f[retry]
          /\ \A i \in 1..(retry - 1) : f[i] < policy.maxDelay \div 2
          /\ delay \in Int /\ policy.maxDelay \in Int /\ delay <= policy.maxDelay
      BY <1>1, <1>7, PolicyTypes DEF FollowsDoubling, ReturnDelay, IInv, DelayGrows
    <2>2. DelayAfter(f, attempt, delay)'
      <3>1. CASE retry < attempt
        <4>1. delay' = policy.maxDelay /\ f[retry] >= policy.maxDelay \div 2
          BY <1>7, <2>1, <3>1 DEF ReturnDelay, Doubling
        <4>2. retry \in 1..(attempt - 1)
          BY <1>2, <2>1, <3>1
        <4> QED
          BY <2>1, <4>1, <4>2 DEF DelayAfter
      <3>2. CASE ~(retry < attempt)
        <4>1. retry = attempt /\ delay' = delay
          BY <1>2, <1>7, <2>1, <3>2 DEF ReturnDelay
        <4> QED
          BY <2>1, <4>1 DEF DelayAfter
      <3> QED
        BY <3>1, <3>2
    <2>3. FollowsDoubling(f)'
      BY <1>1, <2>1, <2>2 DEF FollowsDoubling, WaitedAfter, DelayAfter
    <2> QED
      BY <1>3, <2>1, <2>3
  <1>8. CASE WaitForBackoff
    <2>1. attempt > 0 /\ delay <= policy.maxDelay
      BY <1>8 DEF IInv, DelayGrows, WaitForBackoff
    <2>2. UNCHANGED attempt /\ FollowsDoubling(f)'
      BY <1>1, <2>1, <1>8 DEF FollowsDoubling, WaitedAfter, DelayAfter, WaitForBackoff, Return
    <2> QED
      BY <1>3, <2>2
  <1>9. CASE Dial \/ Reply \/ Write \/ Close \/ Expire \/ Quit
    <2>1. /\ UNCHANGED <<policy, attempt, waited>>
          /\ pc \notin {"Attempt", "Backoff", "Waiting", "Returned"}
          /\ pc' \notin {"Attempt", "Backoff", "Waiting"}
      BY <1>9
      DEF Dial, Reply, Write, Close, Expire, Quit, SessionFails, Return, After, Commands, InSession,
          delayVars
    <2> QED
      BY <1>1, <1>3, <2>1 DEF FollowsDoubling, WaitedAfter, DelayAfter
  <1>10. CASE Cancel \/ FallSilent \/ SettleUnanswered \/ UNCHANGED vars
    <2>1. UNCHANGED <<policy, pc, attempt, delayVars>>
      BY <1>10 DEF Cancel, FallSilent, SettleUnanswered, vars
    <2> QED
      BY <1>1, <1>3, <2>1 DEF FollowsDoubling, WaitedAfter, DelayAfter, delayVars
  <1> QED
    BY <1>4, <1>5, <1>6, <1>7, <1>8, <1>9, <1>10 DEF Next, ClientStep

\* For every policy and however many attempts: no wait is shorter than the one
\* before, although the loop of delayAfter starts anew each time.
THEOREM DelaysAreOrdered == Spec => []DelaysNeverShrink
  <1>1. IInv /\ DelayInv => DelaysNeverShrink
    <2> SUFFICES ASSUME IInv, DelayInv, pc = "Waiting" PROVE waited <= delay
      BY DEF DelaysNeverShrink
    <2>1. PICK f \in [1..attempt -> Nat] : FollowsDoubling(f)
      BY DEF DelayInv
    <2>2. /\ attempt \in Nat \ {0} /\ TypeOK /\ waited \in Int /\ delay \in Int
          /\ 0 <= delay
      BY PolicyTypes DEF IInv, TypeOK, DelayGrows, NewRetryPolicy
    <2>3. CASE waited = 0
      BY <2>2, <2>3
    <2>4. CASE attempt - 1 > 0 /\ DelayAfter(f, attempt - 1, waited)
      <3>1. PICK n \in Nat \ {0} : attempt = n + 1
        BY <2>2, <2>4
      <3>2. /\ f[n + 1] = 2 * f[n] /\ waited <= policy.maxDelay
            /\ DelayAfter(f, n, waited) /\ DelayAfter(f, n + 1, delay)
        BY <2>1, <2>4, <3>1 DEF FollowsDoubling
      <3> QED
        BY <2>1, <2>2, <3>1, <3>2, NextDelayIsLonger
    <2> QED
      BY <2>1, <2>3, <2>4 DEF FollowsDoubling, WaitedAfter
  <1>2. Spec => []DelayInv
    BY DelayInit, DelayStep, EmailInvariance, PTL DEF Spec
  <1> QED
    BY <1>1, <1>2, EmailInvariance, PTL

-----------------------------------------------------------------------------
(* Refinement *)

\* The mapping of the refinement starts where the promise starts.
LEMMA PromiseInit == Init => Promise!Init
  BY DEF Init, Promise!Init

\* Every step of the client is a step of the promise or changes nothing of it.
LEMMA PromiseStep == IInv /\ [Next]_vars => [Promise!Next]_Promise!sendVars
  <1> SUFFICES ASSUME IInv, [Next]_vars PROVE [Promise!Next]_Promise!sendVars
    OBVIOUS
  <1> USE DEF Promise!Next, Promise!Cancel, Promise!Take, Promise!Return, Promise!sendVars
  <1>0. copies \in Nat
    BY DEF IInv, TypeOK
  <1>1. CASE Attempt
    <2>1. attempt # policy.maxAttempts
      BY <1>1 DEF IInv, TypeOK, DelayGrows, Attempt
    <2> QED
      BY <1>1, <2>1 DEF IInv, ReturnsOnce, Attempt, Return, serverVars
  <1>2. CASE Decide
    BY <1>2 DEF IInv, ReturnsOnce, Decide, Return, serverVars
  <1>3. CASE DoubleDelay \/ ReturnDelay
    BY <1>3 DEF DoubleDelay, ReturnDelay, serverVars
  <1>4. CASE WaitForBackoff
    BY <1>4 DEF IInv, ReturnsOnce, WaitForBackoff, Return, serverVars
  <1>5. CASE Dial \/ Reply \/ Write
    BY <1>5 DEF Dial, Reply, Write, serverVars
  <1>6. CASE Close
    BY <1>0, <1>6 DEF Close
  <1>7. CASE Expire
    BY <1>7 DEF Expire, serverVars
  <1>8. CASE Quit
    BY <1>8 DEF IInv, ReturnsOnce, Quit, Return, serverVars
  <1>9. CASE Cancel
    BY <1>9 DEF Cancel, serverVars
  <1>10. CASE FallSilent
    BY <1>10 DEF FallSilent, serverVars
  <1>11. CASE SettleUnanswered
    BY <1>0, <1>11 DEF SettleUnanswered
  <1>12. CASE UNCHANGED vars
    BY <1>12 DEF vars, serverVars
  <1> QED
    BY <1>1, <1>2, <1>3, <1>4, <1>5, <1>6, <1>7, <1>8, <1>9, <1>10, <1>11, <1>12
    DEF Next, ClientStep

\* One Send keeps what the model of the worker assumes of it.
THEOREM PromiseKept == Spec => PromiseSpec
  <1>1. QED
    BY PromiseInit, PromiseStep, EmailInvariance, PTL DEF Spec, PromiseSpec, Promise!Spec
=============================================================================
