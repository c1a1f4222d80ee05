--------------------- MODULE SubscriptionRequests_proofs ---------------------
(***************************************************************************)
(* However the calls of users interleave, and whichever of their           *)
(* statements fail: rows have parents, answers are true, lists are         *)
(* complete, and the table is the one SubscriptionRows specifies.          *)
(***************************************************************************)
EXTENDS SubscriptionRequests, TLAPS

-----------------------------------------------------------------------------
(* What the parts of the actions change *)

\* A fault takes one of those that are left, so some were.
LEMMA FaultSpends ==
    ASSUME TypeOK
    PROVE  /\ Fault => faults' \in 0..MaxFaults /\ faults' # MaxFaults
           /\ NoFault => faults' = faults /\ faults' \in 0..MaxFaults
  BY MaxFaultsAssumption DEF TypeOK, Fault, NoFault

\* What a handler that has its arguments changes.
LEMMA ReceiveFrame ==
    ASSUME TypeOK, NEW r \in Request, NEW args \in Call,
           NEW refused \in BOOLEAN, NEW location \in Location,
           Receive(r, args, refused, location)
    PROVE  /\ pc[r] = "New"
           /\ call' \in [Request -> Call] /\ call'[r] = args
           /\ pc' \in [Request -> Location]
           /\ pc'[r] = IF refused THEN "Answered" ELSE location
           /\ answer' \in [Request -> Code \cup {"None"}]
           /\ answer'[r] = IF refused THEN "InvalidArgument" ELSE answer[r]
           /\ \A q \in Request \ {r} :
                pc'[q] = pc[q] /\ answer'[q] = answer[q] /\ call'[q] = call[q]
           /\ UNCHANGED <<subscribers, tracked, row, key, confirmed, faults>>
  BY DEF TypeOK, Receive, Go, Location, Code, NoFault, storeVars, rowVars

\* Arguments make a call.
LEMMA ArgsType ==
    ASSUME NEW op \in Operation, NEW via \in Transport, NEW e \in Email \cup {None},
           NEW g \in Repo \cup {None}, NEW t \in Request \cup {None}, NEW known \in BOOLEAN
    PROVE  Args(op, via, e, g, t, known) \in Call
  BY DEF Args, Call

\* What an answer changes, and what StatusOf makes of an outcome.
LEMMA AnswerFrame ==
    ASSUME TypeOK, NEW r \in Request, NEW o \in Code, Answer(r, o)
    PROVE  /\ pc' \in [Request -> Location]
           /\ pc'[r] = "Answered"
           /\ answer' \in [Request -> Code \cup {"None"}]
           /\ answer'[r] \in {o, "Internal"}
           /\ (answer'[r] = "OK") <=> (o = "OK")
           /\ call[r].op \in {"Subscribe", "Confirm"} => answer'[r] = o
           /\ answer'[r] = "Internal" =>
                \/ o = "Internal" \/ call[r].op \in {"List", "ListByRepository"}
                \/ call[r].op = "Unsubscribe" /\ call[r].via = "HTTP"
           /\ \A q \in Request \ {r} : pc'[q] = pc[q] /\ answer'[q] = answer[q]
  BY DEF TypeOK, Answer, StatusOf, Location, Code

\* What going on to the next statement changes.
LEMMA GoFrame ==
    ASSUME TypeOK, NEW r \in Request, NEW location \in Location, Go(r, location)
    PROVE  /\ pc' \in [Request -> Location]
           /\ pc'[r] = location
           /\ answer' = answer
           /\ \A q \in Request \ {r} : pc'[q] = pc[q]
  BY DEF TypeOK, Go, Location

\* The names of the codes and the locations.
LEMMA Literals ==
    /\ {"OK", "NotFound", "ResourceExhausted", "AlreadyExists", "Internal"} \subseteq Code
    /\ {"Registering", "Creating", "Tracking", "Starting", "Confirming", "Deleting", "Reading",
         "Describing", "Answered"} \subseteq Location
  BY DEF Code, Location

\* The arguments a statement is executed with are those of its operation.
LEMMA Arguments ==
    ASSUME IInv, NEW r \in Request
    PROVE  /\ pc[r] \in {"Registering", "Creating", "Tracking", "Starting"} =>
                /\ call[r].op = "Subscribe"
                /\ KeyOf(r) \in Key /\ KeyOf(r) # None
                /\ call[r].email \in Email /\ call[r].repo \in Repo
           /\ pc[r] \in {"Confirming", "Deleting"} =>
                call[r].token \in Request /\ key[call[r].token] # None
           /\ pc[r] # "Answered" => key[r] = None /\ answer[r] = "None"
           /\ pc[r] = "Creating" => ~call[r].known
  BY NoneAssumption DEF IInv, CallsFit, ParentsStay, KeyOf, Key

\* A SELECT of active rows returns confirmed ones.
LEMMA Selected ==
    ASSUME IInv
    PROVE  /\ \A e : ActiveByEmail(e) \subseteq Request /\ ActiveByEmail(e) \subseteq confirmed
           /\ \A g :
                ActiveByRepository(g) \subseteq Request /\ ActiveByRepository(g) \subseteq confirmed
  BY DEF IInv, RowsFit, Active, ActiveByEmail, ActiveByRepository

\* The repository of a row a list has read is still tracked.
LEMMA Described ==
    ASSUME IInv, NEW r \in Request, NEW i \in todo[r]
    PROVE  i \in Request /\ key[i][2] \in tracked
  BY DEF IInv, TypeOK, ListedWereConfirmed, RowsFit, RowsHaveParents

-----------------------------------------------------------------------------
(* The steps, one after the other *)

\* A handler keeps the invariant, if the arguments it passes on are valid.
LEMMA Received ==
    ASSUME IInv, NEW r \in Request, NEW args \in Call, NEW refused \in BOOLEAN,
           NEW location \in Location, Receive(r, args, refused, location),
           NEW L \in SUBSET Request, lasting' = [lasting EXCEPT ![r] = L],
           UNCHANGED <<todo, shown>>,
           args.known => args.email \in subscribers,
           ~refused =>
             \/ /\ location = "Registering" /\ args.op = "Subscribe" /\ L = {}
                /\ <<args.email, args.repo>> \in Key
             \/ /\ location = "Confirming" /\ args.op = "Confirm" /\ L = {}
                /\ args.token \in Request /\ key[args.token] # None
             \/ /\ location = "Deleting" /\ args.op = "Unsubscribe" /\ L = {}
                /\ args.token \in Request /\ key[args.token] # None
             \/ location = "Reading" /\ args.op = "List" /\ L = ActiveByEmail(args.email)
             \/ /\ location = "Reading" /\ args.op = "ListByRepository"
                /\ L = ActiveByRepository(args.repo)
    PROVE  IInv'
  <1>0. TypeOK
    BY DEF IInv
  <1>1. /\ pc[r] = "New" /\ key[r] = None /\ answer[r] = "None"
        /\ call' \in [Request -> Call] /\ call'[r] = args
        /\ pc' \in [Request -> Location] /\ answer' \in [Request -> Code \cup {"None"}]
        /\ IF refused THEN pc'[r] = "Answered" /\ answer'[r] = "InvalidArgument"
                      ELSE pc'[r] = location /\ answer'[r] = "None"
        /\ \A q \in Request \ {r} :
             pc'[q] = pc[q] /\ answer'[q] = answer[q] /\ call'[q] = call[q]
        /\ UNCHANGED <<subscribers, tracked, row, key, confirmed, faults>>
    BY <1>0, ReceiveFrame, Arguments DEF Location
  <1>2. TypeOK'
    BY <1>0, <1>1 DEF TypeOK
  <1>3. CallsFit'
    BY <1>1 DEF IInv, CallsFit, KeyOf
  <1>4. ParentsStay'
    BY <1>1 DEF IInv, ParentsStay
  <1>5. RowsFit'
    BY <1>1 DEF IInv, RowsFit, HasRow, Active
  <1>6. UnsubscribedIsGone'
    BY <1>1 DEF IInv, UnsubscribedIsGone, HasRow, Answered
  <1>7. ListsFit'
    BY <1>0, <1>1 DEF IInv, TypeOK, ListsFit, Active, ActiveByEmail, ActiveByRepository
  <1>8. RowsHaveParents'
    BY <1>1 DEF IInv, RowsHaveParents
  <1>9. SubscribeIsTruthful'
    BY <1>1 DEF IInv, SubscribeIsTruthful, KeyOf, Answered
  <1>10. OneUnsubscribes'
    BY <1>1 DEF IInv, OneUnsubscribes, Answered
  <1>11. ListIsComplete'
    BY <1>0, <1>1 DEF IInv, TypeOK, ListIsComplete
  <1>12. ListedWereConfirmed'
    BY <1>1 DEF IInv, ListedWereConfirmed
  <1>13. RetryCannotLoseAgain'
    BY <1>1 DEF IInv, RetryCannotLoseAgain
  <1> QED
    BY <1>2, <1>3, <1>4, <1>5, <1>6, <1>7, <1>8, <1>9, <1>10, <1>11, <1>12, <1>13 DEF IInv

\* A call that is no list starts with nothing to list.
LEMMA NothingLasts ==
    ASSUME IInv, NEW r \in Request, pc[r] = "New", UNCHANGED listVars
    PROVE  UNCHANGED <<todo, shown>> /\ lasting' = [lasting EXCEPT ![r] = {}]
  BY DEF IInv, TypeOK, ListsFit, listVars

\* Each handler passes on valid arguments only.
LEMMA ReceivesStep ==
    ASSUME IInv, NEW r \in Request, Receives(r)
    PROVE  IInv'
  <1> USE Literals
  <1>0. pc[r] = "New"
    BY DEF Receives, ReceiveSubscribe, ReceiveToken, ReceiveList, ReceiveListByRepository,
        Receive
  <1>1. CASE ReceiveSubscribe(r)
    <2>1. PICK via \in Transport, e \in Email \cup {None}, g \in Repo \cup {None} :
            Receive(r, Args("Subscribe", via, e, g, None, e \in subscribers), None \in {e, g},
                    "Registering")
      BY <1>1 DEF ReceiveSubscribe
    <2> DEFINE known == e \in subscribers
               args == Args("Subscribe", via, e, g, None, known)
               refused == None \in {e, g}
    <2>2. known \in BOOLEAN /\ refused \in BOOLEAN
      OBVIOUS
    <2>3. known => e \in subscribers
      OBVIOUS
    <2>4. ~refused => e \in Email /\ g \in Repo
      OBVIOUS
    <2>5. /\ Receive(r, args, refused, "Registering")
          /\ "Registering" \in Location /\ {} \in SUBSET Request
      BY <2>1
    <2>6. UNCHANGED <<todo, shown>> /\ lasting' = [lasting EXCEPT ![r] = {}]
      BY <1>0, <1>1, NothingLasts DEF ReceiveSubscribe
    <2> HIDE DEF known, refused
    <2>7. args \in Call
      BY <2>2, ArgsType DEF Operation
    <2>8. /\ args.op = "Subscribe" /\ args.known = known /\ args.email = e
          /\ args.repo = g
      BY DEF Args
    <2>9. ~refused => <<args.email, args.repo>> \in Key
      BY <2>4, <2>8 DEF Key
    <2>10. args.known => args.email \in subscribers
      BY <2>3, <2>8
    <2> HIDE DEF args
    <2> QED
      BY <2>2, <2>5, <2>6, <2>7, <2>8, <2>9, <2>10, Received
  <1>2. CASE ReceiveToken(r)
    <2>1. PICK via \in Transport, t \in {i \in Request : key[i] # None} \cup {None} :
            \/ Receive(r, Args("Confirm", via, None, None, t, FALSE), t = None, "Confirming")
            \/ Receive(r, Args("Unsubscribe", via, None, None, t, FALSE), t = None, "Deleting")
      BY <1>2 DEF ReceiveToken
    <2>2. \A op \in {"Confirm", "Unsubscribe"} :
            LET args == Args(op, via, None, None, t, FALSE)
            IN  args \in Call /\ args.op = op /\ args.token = t /\ ~args.known
      BY ArgsType DEF Args, Operation
    <2>3. UNCHANGED <<todo, shown>> /\ lasting' = [lasting EXCEPT ![r] = {}]
      BY <1>0, <1>2, NothingLasts DEF ReceiveToken
    <2> DEFINE refused == t = None
    <2>4. refused \in BOOLEAN /\ (~refused => t \in Request /\ key[t] # None)
      OBVIOUS
    <2>5. \/ Receive(r, Args("Confirm", via, None, None, t, FALSE), refused, "Confirming")
          \/ Receive(r, Args("Unsubscribe", via, None, None, t, FALSE), refused, "Deleting")
      BY <2>1
    <2> HIDE DEF refused
    <2>6. CASE Receive(r, Args("Confirm", via, None, None, t, FALSE), refused, "Confirming")
      <3> DEFINE args == Args("Confirm", via, None, None, t, FALSE)
      <3>1. args \in Call /\ args.op = "Confirm" /\ args.token = t /\ ~args.known
        BY <2>2
      <3>2. /\ Receive(r, args, refused, "Confirming")
            /\ "Confirming" \in Location /\ {} \in SUBSET Request
        BY <2>6
      <3> HIDE DEF args
      <3> QED
        BY <2>3, <2>4, <3>1, <3>2, Received
    <2>7. CASE Receive(r, Args("Unsubscribe", via, None, None, t, FALSE), refused, "Deleting")
      <3> DEFINE args == Args("Unsubscribe", via, None, None, t, FALSE)
      <3>1. args \in Call /\ args.op = "Unsubscribe" /\ args.token = t /\ ~args.known
        BY <2>2
      <3>2. /\ Receive(r, args, refused, "Deleting")
            /\ "Deleting" \in Location /\ {} \in SUBSET Request
        BY <2>7
      <3> HIDE DEF args
      <3> QED
        BY <2>3, <2>4, <3>1, <3>2, Received
    <2> QED
      BY <2>5, <2>6, <2>7
  <1>3. CASE ReceiveList(r)
    <2>1. PICK via \in Transport, e \in Email \cup {None} :
            /\ Receive(r, Args("List", via, e, None, None, FALSE), e = None /\ via = "HTTP",
                       "Reading")
            /\ lasting' = [lasting EXCEPT ![r] = ActiveByEmail(e)]
            /\ UNCHANGED <<todo, shown>>
      BY <1>3 DEF ReceiveList
    <2>2. LET args == Args("List", via, e, None, None, FALSE)
          IN  args \in Call /\ args.op = "List" /\ args.email = e /\ ~args.known
      BY ArgsType DEF Args, Operation
    <2> QED
      BY <2>1, <2>2, Selected, Received
  <1>4. CASE ReceiveListByRepository(r)
    <2>1. PICK via \in Transport, g \in Repo \cup {None} :
            /\ Receive(r, Args("ListByRepository", via, None, g, None, FALSE), g = None,
                       "Reading")
            /\ lasting' = [lasting EXCEPT ![r] = ActiveByRepository(g)]
            /\ UNCHANGED <<todo, shown>>
      BY <1>4 DEF ReceiveListByRepository
    <2>2. LET args == Args("ListByRepository", via, None, g, None, FALSE)
          IN  args \in Call /\ args.op = "ListByRepository" /\ args.repo = g /\ ~args.known
      BY ArgsType DEF Args, Operation
    <2> QED
      BY <2>1, <2>2, Selected, Received
  <1> QED
    BY <1>1, <1>2, <1>3, <1>4 DEF Receives

\* Looking for the subscriber keeps the invariant.
LEMMA GetByEmailStep ==
    ASSUME IInv, NEW r \in Request, GetByEmail(r)
    PROVE  IInv'
  <1>0. TypeOK
    BY DEF IInv
  <1>1. /\ pc' \in [Request -> Location] /\ answer' \in [Request -> Code \cup {"None"}]
        /\ faults' \in 0..MaxFaults /\ (faults' = MaxFaults => faults = MaxFaults)
        /\ \A q \in Request \ {r} : pc'[q] = pc[q] /\ answer'[q] = answer[q]
    BY <1>0, Literals, FaultSpends, AnswerFrame, GoFrame DEF GetByEmail, Fails, TypeOK
  <1>2. /\ pc[r] = "Registering"
        /\ call[r].op = "Subscribe" /\ call[r].email \in Email /\ call[r].repo \in Repo
        /\ key[r] = None
    BY <1>0, Arguments DEF GetByEmail, Fails, IInv, CallsFit
  <1>3. /\ call' = call
        /\ pc'[r] \in {"Tracking", "Creating", "Answered"}
        /\ pc'[r] # "Answered" => answer'[r] = answer[r]
        /\ pc'[r] = "Tracking" => call[r].email \in subscribers
        /\ pc'[r] = "Creating" => call[r].email \notin subscribers
        /\ pc'[r] = "Answered" => answer'[r] = "Internal"
        /\ faults' = MaxFaults => answer'[r] # "Internal"
        /\ subscribers' = subscribers /\ tracked' = tracked
        /\ row' = row /\ key' = key /\ confirmed' = confirmed
        /\ todo' = todo /\ shown' = shown /\ lasting' = lasting
    BY <1>0, <1>2, Literals, Arguments, FaultSpends, AnswerFrame, GoFrame, Described
    DEF GetByEmail, Fails, storeVars, rowVars, listVars
  <1>4. TypeOK'
    BY <1>0, <1>1, <1>3 DEF TypeOK
  <1>5. CallsFit'
    BY <1>1, <1>2, <1>3 DEF IInv, CallsFit, TypeOK, KeyOf, Key
  <1>6. ParentsStay'
    BY <1>1, <1>3 DEF IInv, ParentsStay
  <1>7. RowsFit'
    BY <1>1, <1>3 DEF IInv, RowsFit, TypeOK, HasRow, Active
  <1>8. UnsubscribedIsGone'
    BY <1>1, <1>3 DEF IInv, UnsubscribedIsGone, RowsFit, TypeOK, HasRow, Answered
  <1>9. ListsFit'
    BY <1>1, <1>2, <1>3
    DEF IInv, ListsFit, TypeOK, Active, ActiveByEmail, ActiveByRepository
  <1>10. RowsHaveParents'
    BY <1>1, <1>3 DEF IInv, RowsHaveParents, ParentsStay, TypeOK, KeyOf
  <1>11. SubscribeIsTruthful'
    BY <1>1, <1>3 DEF IInv, SubscribeIsTruthful, TypeOK, KeyOf, Answered
  <1>12. OneUnsubscribes'
    BY <1>1, <1>3 DEF IInv, OneUnsubscribes, TypeOK, UnsubscribedIsGone, Answered
  <1>13. ListIsComplete'
    BY <1>1, <1>3 DEF IInv, ListIsComplete, ListsFit, TypeOK
  <1>14. ListedWereConfirmed'
    BY <1>1, <1>3 DEF IInv, ListedWereConfirmed, TypeOK
  <1>15. RetryCannotLoseAgain'
    BY <1>1, <1>3 DEF IInv, RetryCannotLoseAgain, ParentsStay
  <1> QED
    BY <1>4, <1>5, <1>6, <1>7, <1>8, <1>9, <1>10, <1>11, <1>12, <1>13, <1>14, <1>15 DEF IInv

\* Creating the subscriber, or losing the race for the email, keeps it.
LEMMA CreateSubscriberStep ==
    ASSUME IInv, NEW r \in Request, CreateSubscriber(r)
    PROVE  IInv'
  <1>0. TypeOK
    BY DEF IInv
  <1>1. /\ pc' \in [Request -> Location] /\ answer' \in [Request -> Code \cup {"None"}]
        /\ faults' \in 0..MaxFaults /\ (faults' = MaxFaults => faults = MaxFaults)
        /\ \A q \in Request \ {r} : pc'[q] = pc[q] /\ answer'[q] = answer[q]
    BY <1>0, Literals, FaultSpends, AnswerFrame, GoFrame DEF CreateSubscriber, Fails, TypeOK
  <1>2. /\ pc[r] = "Creating"
        /\ call[r].op = "Subscribe" /\ call[r].email \in Email /\ call[r].repo \in Repo
        /\ key[r] = None
    BY <1>0, Arguments DEF CreateSubscriber, Fails, IInv, CallsFit
  <1>3. /\ call' = call
        /\ pc'[r] \in {"Tracking", "Answered"}
        /\ pc'[r] # "Answered" => answer'[r] = answer[r]
        /\ subscribers \subseteq subscribers'
        /\ subscribers' \subseteq subscribers \cup {call[r].email}
        /\ pc'[r] = "Tracking" => call[r].email \in subscribers'
        /\ pc'[r] = "Answered" => answer'[r] = "Internal"
        /\ faults' = MaxFaults /\ answer'[r] = "Internal" => call[r].email \in subscribers'
        /\ tracked' = tracked
        /\ row' = row /\ key' = key /\ confirmed' = confirmed
        /\ todo' = todo /\ shown' = shown /\ lasting' = lasting
    BY <1>0, <1>2, Literals, Arguments, FaultSpends, AnswerFrame, GoFrame, Described
    DEF CreateSubscriber, Fails, storeVars, rowVars, listVars
  <1>4. TypeOK'
    BY <1>0, <1>1, <1>2, <1>3 DEF TypeOK
  <1>5. CallsFit'
    BY <1>1, <1>2, <1>3 DEF IInv, CallsFit, TypeOK, KeyOf, Key
  <1>6. ParentsStay'
    BY <1>1, <1>3 DEF IInv, ParentsStay
  <1>7. RowsFit'
    BY <1>1, <1>3 DEF IInv, RowsFit, TypeOK, HasRow, Active
  <1>8. UnsubscribedIsGone'
    BY <1>1, <1>3 DEF IInv, UnsubscribedIsGone, RowsFit, TypeOK, HasRow, Answered
  <1>9. ListsFit'
    BY <1>1, <1>2, <1>3
    DEF IInv, ListsFit, TypeOK, Active, ActiveByEmail, ActiveByRepository
  <1>10. RowsHaveParents'
    BY <1>1, <1>3 DEF IInv, RowsHaveParents, ParentsStay, TypeOK, KeyOf
  <1>11. SubscribeIsTruthful'
    BY <1>1, <1>3 DEF IInv, SubscribeIsTruthful, TypeOK, KeyOf, Answered
  <1>12. OneUnsubscribes'
    BY <1>1, <1>3 DEF IInv, OneUnsubscribes, TypeOK, UnsubscribedIsGone, Answered
  <1>13. ListIsComplete'
    BY <1>1, <1>3 DEF IInv, ListIsComplete, ListsFit, TypeOK
  <1>14. ListedWereConfirmed'
    BY <1>1, <1>3 DEF IInv, ListedWereConfirmed, TypeOK
  <1>15. RetryCannotLoseAgain'
    BY <1>1, <1>2, <1>3 DEF IInv, RetryCannotLoseAgain, ParentsStay
  <1> QED
    BY <1>4, <1>5, <1>6, <1>7, <1>8, <1>9, <1>10, <1>11, <1>12, <1>13, <1>14, <1>15 DEF IInv

\* Asking the release tracker to track the repository keeps it.
LEMMA EnsureTrackedStep ==
    ASSUME IInv, NEW r \in Request, EnsureTracked(r)
    PROVE  IInv'
  <1>0. TypeOK
    BY DEF IInv
  <1>1. /\ pc' \in [Request -> Location] /\ answer' \in [Request -> Code \cup {"None"}]
        /\ faults' \in 0..MaxFaults /\ (faults' = MaxFaults => faults = MaxFaults)
        /\ \A q \in Request \ {r} : pc'[q] = pc[q] /\ answer'[q] = answer[q]
    BY <1>0, Literals, FaultSpends, AnswerFrame, GoFrame DEF EnsureTracked, Fails, TypeOK
  <1>2. /\ pc[r] = "Tracking"
        /\ call[r].op = "Subscribe" /\ call[r].email \in Email /\ call[r].repo \in Repo
        /\ key[r] = None
    BY <1>0, Arguments DEF EnsureTracked, Fails, IInv, CallsFit
  <1>3. /\ call' = call
        /\ pc'[r] \in {"Starting", "Answered"}
        /\ pc'[r] # "Answered" => answer'[r] = answer[r]
        /\ tracked \subseteq tracked' /\ tracked' \subseteq tracked \cup {call[r].repo}
        /\ pc'[r] = "Starting" => call[r].repo \in tracked'
        /\ pc'[r] = "Answered" => answer'[r] \in {"NotFound", "ResourceExhausted", "Internal"}
        /\ faults' = MaxFaults => answer'[r] # "Internal"
        /\ subscribers' = subscribers
        /\ row' = row /\ key' = key /\ confirmed' = confirmed
        /\ todo' = todo /\ shown' = shown /\ lasting' = lasting
    BY <1>0, <1>2, Literals, Arguments, FaultSpends, AnswerFrame, GoFrame, Described
    DEF EnsureTracked, Fails, storeVars, rowVars, listVars
  <1>4. TypeOK'
    BY <1>0, <1>1, <1>2, <1>3 DEF TypeOK
  <1>5. CallsFit'
    BY <1>1, <1>2, <1>3 DEF IInv, CallsFit, TypeOK, KeyOf, Key
  <1>6. ParentsStay'
    BY <1>1, <1>2, <1>3 DEF IInv, ParentsStay
  <1>7. RowsFit'
    BY <1>1, <1>3 DEF IInv, RowsFit, TypeOK, HasRow, Active
  <1>8. UnsubscribedIsGone'
    BY <1>1, <1>3 DEF IInv, UnsubscribedIsGone, RowsFit, TypeOK, HasRow, Answered
  <1>9. ListsFit'
    BY <1>1, <1>2, <1>3
    DEF IInv, ListsFit, TypeOK, Active, ActiveByEmail, ActiveByRepository
  <1>10. RowsHaveParents'
    BY <1>1, <1>3 DEF IInv, RowsHaveParents, ParentsStay, TypeOK, KeyOf
  <1>11. SubscribeIsTruthful'
    BY <1>1, <1>2, <1>3 DEF IInv, SubscribeIsTruthful, TypeOK, KeyOf, Answered
  <1>12. OneUnsubscribes'
    BY <1>1, <1>3 DEF IInv, OneUnsubscribes, TypeOK, UnsubscribedIsGone, Answered
  <1>13. ListIsComplete'
    BY <1>1, <1>3 DEF IInv, ListIsComplete, ListsFit, TypeOK
  <1>14. ListedWereConfirmed'
    BY <1>1, <1>3 DEF IInv, ListedWereConfirmed, TypeOK
  <1>15. RetryCannotLoseAgain'
    BY <1>1, <1>3 DEF IInv, RetryCannotLoseAgain, ParentsStay
  <1> QED
    BY <1>4, <1>5, <1>6, <1>7, <1>8, <1>9, <1>10, <1>11, <1>12, <1>13, <1>14, <1>15 DEF IInv

\* The transaction that inserts a subscription keeps it.
LEMMA StartSubscriptionConfirmationStep ==
    ASSUME IInv, NEW r \in Request, StartSubscriptionConfirmation(r)
    PROVE  IInv'
  <1>0. TypeOK
    BY DEF IInv
  <1>1. /\ pc' \in [Request -> Location] /\ answer' \in [Request -> Code \cup {"None"}]
        /\ faults' \in 0..MaxFaults /\ (faults' = MaxFaults => faults = MaxFaults)
        /\ \A q \in Request \ {r} : pc'[q] = pc[q] /\ answer'[q] = answer[q]
    BY <1>0, Literals, FaultSpends, AnswerFrame, GoFrame
    DEF StartSubscriptionConfirmation, Fails, Insert, KeyTaken, TypeOK
  <1>2. /\ pc[r] = "Starting"
        /\ call[r].op = "Subscribe" /\ call[r].email \in Email /\ call[r].repo \in Repo
        /\ key[r] = None
    BY <1>0, Arguments
    DEF StartSubscriptionConfirmation, Fails, Insert, KeyTaken, IInv, CallsFit
  <1>3. /\ call' = call
        /\ pc'[r] = "Answered"
        /\ answer'[r] \in {"OK", "AlreadyExists", "Internal"}
        /\ faults' = MaxFaults => answer'[r] # "Internal"
        /\ subscribers' = subscribers /\ tracked' = tracked /\ confirmed' = confirmed
        /\ \/ row' = row /\ key' = key /\ answer'[r] # "OK"
           \/ /\ row' = [row EXCEPT ![r] = "Pending"] /\ key' = [key EXCEPT ![r] = KeyOf(r)]
              /\ answer'[r] # "AlreadyExists"
        /\ todo' = todo /\ shown' = shown /\ lasting' = lasting
    BY <1>0, <1>2, Literals, Arguments, FaultSpends, AnswerFrame, GoFrame, Described
    DEF StartSubscriptionConfirmation, Fails, Insert, KeyTaken, storeVars, rowVars, listVars
  <1>4. TypeOK'
    BY <1>0, <1>1, <1>2, <1>3, Arguments DEF TypeOK
  <1>5. CallsFit'
    BY <1>1, <1>2, <1>3 DEF IInv, CallsFit, TypeOK, KeyOf, Key
  <1>6. ParentsStay'
    BY <1>1, <1>3 DEF IInv, ParentsStay
  <1>7. RowsFit'
    BY <1>0, <1>1, <1>2, <1>3, Arguments DEF IInv, RowsFit, TypeOK, HasRow, Active
  <1>8. UnsubscribedIsGone'
    BY <1>1, <1>2, <1>3 DEF IInv, UnsubscribedIsGone, RowsFit, TypeOK, HasRow, Answered
  <1>9. ListsFit'
    <2>1. \A i \in Request : row[i] = "Active" => row'[i] = row[i] /\ key'[i] = key[i]
      BY <1>0, <1>2, <1>3 DEF IInv, TypeOK, RowsFit, HasRow, Active
    <2> QED
      BY <1>1, <1>3, <2>1 DEF IInv, ListsFit, Active, ActiveByEmail, ActiveByRepository
  <1>10. RowsHaveParents'
    BY <1>1, <1>2, <1>3 DEF IInv, RowsHaveParents, ParentsStay, TypeOK, KeyOf
  <1>11. SubscribeIsTruthful'
    BY <1>1, <1>2, <1>3 DEF IInv, SubscribeIsTruthful, TypeOK, KeyOf, Answered
  <1>12. OneUnsubscribes'
    BY <1>1, <1>2, <1>3 DEF IInv, OneUnsubscribes, TypeOK, UnsubscribedIsGone, Answered
  <1>13. ListIsComplete'
    BY <1>1, <1>2, <1>3 DEF IInv, ListIsComplete, ListsFit, TypeOK
  <1>14. ListedWereConfirmed'
    BY <1>1, <1>3 DEF IInv, ListedWereConfirmed, TypeOK
  <1>15. RetryCannotLoseAgain'
    BY <1>1, <1>3 DEF IInv, RetryCannotLoseAgain, ParentsStay
  <1> QED
    BY <1>4, <1>5, <1>6, <1>7, <1>8, <1>9, <1>10, <1>11, <1>12, <1>13, <1>14, <1>15 DEF IInv

\* Confirming keeps it.
LEMMA ActivateStep ==
    ASSUME IInv, NEW r \in Request, Activate(r)
    PROVE  IInv'
  <1>0. TypeOK
    BY DEF IInv
  <1>1. /\ pc' \in [Request -> Location] /\ answer' \in [Request -> Code \cup {"None"}]
        /\ faults' \in 0..MaxFaults /\ (faults' = MaxFaults => faults = MaxFaults)
        /\ \A q \in Request \ {r} : pc'[q] = pc[q] /\ answer'[q] = answer[q]
    BY <1>0, Literals, FaultSpends, AnswerFrame, GoFrame DEF Activate, SetActive, Fails, TypeOK
  <1>2. /\ pc[r] = "Confirming"
        /\ call[r].op = "Confirm" /\ call[r].token \in Request
        /\ key[call[r].token] # None /\ key[r] = None
    BY <1>0, Arguments DEF Activate, SetActive, Fails, IInv, CallsFit
  <1>3. /\ call' = call
        /\ pc'[r] = "Answered"
        /\ answer'[r] \in {"OK", "NotFound", "Internal"}
        /\ faults' = MaxFaults => answer'[r] # "Internal"
        /\ subscribers' = subscribers /\ tracked' = tracked /\ key' = key
        /\ \/ row' = row /\ confirmed' = confirmed
           \/ /\ HasRow(call[r].token)
              /\ row' = [row EXCEPT ![call[r].token] = "Active"]
              /\ confirmed' = confirmed \cup {call[r].token}
        /\ todo' = todo /\ shown' = shown /\ lasting' = lasting
    BY <1>0, <1>2, Literals, Arguments, FaultSpends, AnswerFrame, GoFrame, Described
    DEF Activate, SetActive, Fails, storeVars, rowVars, listVars
  <1>4. TypeOK'
    BY <1>0, <1>1, <1>2, <1>3 DEF TypeOK
  <1>5. CallsFit'
    BY <1>1, <1>3 DEF IInv, CallsFit, TypeOK, KeyOf, Key
  <1>6. ParentsStay'
    BY <1>1, <1>3 DEF IInv, ParentsStay
  <1>7. RowsFit'
    BY <1>1, <1>3 DEF IInv, RowsFit, TypeOK, HasRow, Active
  <1>8. UnsubscribedIsGone'
    BY <1>1, <1>2, <1>3 DEF IInv, UnsubscribedIsGone, RowsFit, TypeOK, HasRow, Answered
  <1>9. ListsFit'
    BY <1>1, <1>3 DEF IInv, ListsFit, TypeOK, Active, ActiveByEmail, ActiveByRepository
  <1>10. RowsHaveParents'
    BY <1>1, <1>3 DEF IInv, RowsHaveParents, ParentsStay, TypeOK, KeyOf
  <1>11. SubscribeIsTruthful'
    BY <1>1, <1>2, <1>3 DEF IInv, SubscribeIsTruthful, TypeOK, KeyOf, Answered
  <1>12. OneUnsubscribes'
    BY <1>1, <1>2, <1>3 DEF IInv, OneUnsubscribes, TypeOK, UnsubscribedIsGone, Answered
  <1>13. ListIsComplete'
    BY <1>1, <1>2, <1>3 DEF IInv, ListIsComplete, ListsFit, TypeOK
  <1>14. ListedWereConfirmed'
    BY <1>1, <1>3 DEF IInv, ListedWereConfirmed, TypeOK
  <1>15. RetryCannotLoseAgain'
    BY <1>1, <1>3 DEF IInv, RetryCannotLoseAgain, ParentsStay
  <1> QED
    BY <1>4, <1>5, <1>6, <1>7, <1>8, <1>9, <1>10, <1>11, <1>12, <1>13, <1>14, <1>15 DEF IInv

\* Unsubscribing keeps it.
LEMMA DeleteByTokenStep ==
    ASSUME IInv, NEW r \in Request, DeleteByToken(r)
    PROVE  IInv'
  <1>0. TypeOK
    BY DEF IInv
  <1>1. /\ pc' \in [Request -> Location] /\ answer' \in [Request -> Code \cup {"None"}]
        /\ faults' \in 0..MaxFaults /\ (faults' = MaxFaults => faults = MaxFaults)
        /\ \A q \in Request \ {r} : pc'[q] = pc[q] /\ answer'[q] = answer[q]
    BY <1>0, Literals, FaultSpends, AnswerFrame, GoFrame
    DEF DeleteByToken, Delete, ForgetLasting, Fails, TypeOK
  <1>2. /\ pc[r] = "Deleting"
        /\ call[r].op = "Unsubscribe" /\ call[r].token \in Request
        /\ key[call[r].token] # None /\ key[r] = None
    BY <1>0, Arguments DEF DeleteByToken, Delete, ForgetLasting, Fails, IInv, CallsFit
  <1>3. /\ call' = call
        /\ pc'[r] = "Answered"
        /\ answer'[r] \in {"OK", "NotFound", "Internal"}
        /\ faults' = MaxFaults /\ answer'[r] = "Internal" => call[r].via = "HTTP"
        /\ subscribers' = subscribers /\ tracked' = tracked /\ key' = key
        /\ confirmed' = confirmed /\ todo' = todo /\ shown' = shown
        /\ \/ row' = row /\ lasting' = lasting /\ answer'[r] # "OK"
           \/ /\ HasRow(call[r].token)
              /\ row' = [row EXCEPT ![call[r].token] = "Absent"]
              /\ lasting' = [q \in Request |-> lasting[q] \ {call[r].token}]
    BY <1>0, <1>2, Literals, Arguments, FaultSpends, AnswerFrame, GoFrame, Described
    DEF DeleteByToken, Delete, ForgetLasting, Fails, storeVars, rowVars, listVars
  <1>4. TypeOK'
    BY <1>0, <1>1, <1>3 DEF TypeOK
  <1>5. CallsFit'
    BY <1>1, <1>3 DEF IInv, CallsFit, TypeOK, KeyOf, Key
  <1>6. ParentsStay'
    BY <1>1, <1>3 DEF IInv, ParentsStay
  <1>7. RowsFit'
    BY <1>1, <1>3 DEF IInv, RowsFit, TypeOK, HasRow, Active
  <1>8. UnsubscribedIsGone'
    BY <1>1, <1>2, <1>3 DEF IInv, UnsubscribedIsGone, RowsFit, TypeOK, HasRow, Answered
  <1>9. ListsFit'
    BY <1>1, <1>3 DEF IInv, ListsFit, TypeOK, Active, ActiveByEmail, ActiveByRepository
  <1>10. RowsHaveParents'
    BY <1>1, <1>3 DEF IInv, RowsHaveParents, ParentsStay, TypeOK, KeyOf
  <1>11. SubscribeIsTruthful'
    BY <1>1, <1>2, <1>3 DEF IInv, SubscribeIsTruthful, TypeOK, KeyOf, Answered
  <1>12. OneUnsubscribes'
    BY <1>1, <1>3 DEF IInv, OneUnsubscribes, TypeOK, UnsubscribedIsGone, Answered
  <1>13. ListIsComplete'
    BY <1>1, <1>2, <1>3 DEF IInv, ListIsComplete, ListsFit, TypeOK
  <1>14. ListedWereConfirmed'
    BY <1>1, <1>3 DEF IInv, ListedWereConfirmed, TypeOK
  <1>15. RetryCannotLoseAgain'
    BY <1>1, <1>2, <1>3 DEF IInv, RetryCannotLoseAgain, ParentsStay
  <1> QED
    BY <1>4, <1>5, <1>6, <1>7, <1>8, <1>9, <1>10, <1>11, <1>12, <1>13, <1>14, <1>15 DEF IInv

\* Reading a list keeps it.
LEMMA ReadActiveStep ==
    ASSUME IInv, NEW r \in Request, ReadActive(r)
    PROVE  IInv'
  <1>0. TypeOK
    BY DEF IInv
  <1>1. /\ pc' \in [Request -> Location] /\ answer' \in [Request -> Code \cup {"None"}]
        /\ faults' \in 0..MaxFaults /\ (faults' = MaxFaults => faults = MaxFaults)
        /\ \A q \in Request \ {r} : pc'[q] = pc[q] /\ answer'[q] = answer[q]
    BY <1>0, Literals, FaultSpends, AnswerFrame, GoFrame DEF ReadActive, Fails, TypeOK
  <1>2. /\ pc[r] = "Reading"
        /\ key[r] = None
    BY <1>0, Arguments DEF ReadActive, Fails, IInv, CallsFit
  <1>3. /\ call' = call
        /\ pc'[r] \in {"Describing", "Answered"}
        /\ pc'[r] # "Answered" => answer'[r] = answer[r]
        /\ faults' = MaxFaults => answer'[r] # "Internal"
        /\ pc'[r] = "Answered" => answer'[r] \in {"OK", "Internal"}
        /\ subscribers' = subscribers /\ tracked' = tracked
        /\ row' = row /\ key' = key /\ confirmed' = confirmed
        /\ lasting' = lasting
        /\ \/ /\ call[r].op = "List" /\ pc'[r] = "Describing" /\ shown' = shown
              /\ todo' = [todo EXCEPT ![r] = ActiveByEmail(call[r].email)]
           \/ /\ call[r].op = "ListByRepository" /\ pc'[r] = "Answered" /\ todo' = todo
              /\ shown' = [shown EXCEPT ![r] = ActiveByRepository(call[r].repo)]
           \/ pc'[r] = "Answered" /\ answer'[r] = "Internal" /\ todo' = todo /\ shown' = shown
    BY <1>0, <1>2, Literals, Arguments, FaultSpends, AnswerFrame, GoFrame, Described
    DEF ReadActive, Fails, storeVars, rowVars, listVars
  <1>4. TypeOK'
    BY <1>0, <1>1, <1>2, <1>3, Selected DEF TypeOK
  <1>5. CallsFit'
    BY <1>1, <1>2, <1>3 DEF IInv, CallsFit, TypeOK, KeyOf, Key
  <1>6. ParentsStay'
    BY <1>1, <1>3 DEF IInv, ParentsStay
  <1>7. RowsFit'
    BY <1>1, <1>3 DEF IInv, RowsFit, TypeOK, HasRow, Active
  <1>8. UnsubscribedIsGone'
    BY <1>1, <1>3 DEF IInv, UnsubscribedIsGone, RowsFit, TypeOK, HasRow, Answered
  <1>9. ListsFit'
    BY <1>1, <1>2, <1>3
    DEF IInv, ListsFit, TypeOK, Active, ActiveByEmail, ActiveByRepository
  <1>10. RowsHaveParents'
    BY <1>1, <1>3 DEF IInv, RowsHaveParents, ParentsStay, TypeOK, KeyOf
  <1>11. SubscribeIsTruthful'
    BY <1>1, <1>3 DEF IInv, SubscribeIsTruthful, TypeOK, KeyOf, Answered
  <1>12. OneUnsubscribes'
    BY <1>1, <1>3 DEF IInv, OneUnsubscribes, TypeOK, UnsubscribedIsGone, Answered
  <1>13. ListIsComplete'
    BY <1>1, <1>2, <1>3 DEF IInv, ListIsComplete, ListsFit, TypeOK
  <1>14. ListedWereConfirmed'
    BY <1>0, <1>1, <1>2, <1>3, Selected DEF IInv, ListedWereConfirmed, TypeOK
  <1>15. RetryCannotLoseAgain'
    BY <1>1, <1>3 DEF IInv, RetryCannotLoseAgain, ParentsStay
  <1> QED
    BY <1>4, <1>5, <1>6, <1>7, <1>8, <1>9, <1>10, <1>11, <1>12, <1>13, <1>14, <1>15 DEF IInv

\* Describing one row of a list keeps it.
LEMMA GetRepositoryStep ==
    ASSUME IInv, NEW r \in Request, GetRepository(r)
    PROVE  IInv'
  <1>0. TypeOK
    BY DEF IInv
  <1>1. /\ pc' \in [Request -> Location] /\ answer' \in [Request -> Code \cup {"None"}]
        /\ faults' \in 0..MaxFaults /\ (faults' = MaxFaults => faults = MaxFaults)
        /\ \A q \in Request \ {r} : pc'[q] = pc[q] /\ answer'[q] = answer[q]
    BY <1>0, Literals, FaultSpends, AnswerFrame, GoFrame DEF GetRepository, Fails, TypeOK
  <1>2. /\ pc[r] = "Describing"
        /\ call[r].op = "List" /\ key[r] = None
    BY <1>0, Arguments DEF GetRepository, Fails, IInv, CallsFit
  <1>3. /\ call' = call
        /\ pc'[r] \in {"Describing", "Answered"}
        /\ pc'[r] # "Answered" => answer'[r] = answer[r]
        /\ faults' = MaxFaults => answer'[r] # "Internal"
        /\ pc'[r] = "Answered" => answer'[r] = "Internal"
        /\ subscribers' = subscribers /\ tracked' = tracked
        /\ row' = row /\ key' = key /\ confirmed' = confirmed
        /\ lasting' = lasting
        /\ \/ todo' = todo /\ shown' = shown
           \/ \E i \in todo[r] :
                /\ todo' = [todo EXCEPT ![r] = @ \ {i}]
                /\ shown' = [shown EXCEPT ![r] = @ \cup {i}]
    BY <1>0, <1>2, Literals, Arguments, FaultSpends, AnswerFrame, GoFrame, Described
    DEF GetRepository, Fails, storeVars, rowVars, listVars
  <1>4. TypeOK'
    BY <1>0, <1>1, <1>3 DEF TypeOK
  <1>5. CallsFit'
    BY <1>1, <1>2, <1>3 DEF IInv, CallsFit, TypeOK, KeyOf, Key
  <1>6. ParentsStay'
    BY <1>1, <1>3 DEF IInv, ParentsStay
  <1>7. RowsFit'
    BY <1>1, <1>3 DEF IInv, RowsFit, TypeOK, HasRow, Active
  <1>8. UnsubscribedIsGone'
    BY <1>1, <1>3 DEF IInv, UnsubscribedIsGone, RowsFit, TypeOK, HasRow, Answered
  <1>9. ListsFit'
    BY <1>1, <1>2, <1>3
    DEF IInv, ListsFit, TypeOK, Active, ActiveByEmail, ActiveByRepository
  <1>10. RowsHaveParents'
    BY <1>1, <1>3 DEF IInv, RowsHaveParents, ParentsStay, TypeOK, KeyOf
  <1>11. SubscribeIsTruthful'
    BY <1>1, <1>3 DEF IInv, SubscribeIsTruthful, TypeOK, KeyOf, Answered
  <1>12. OneUnsubscribes'
    BY <1>1, <1>3 DEF IInv, OneUnsubscribes, TypeOK, UnsubscribedIsGone, Answered
  <1>13. ListIsComplete'
    BY <1>1, <1>3 DEF IInv, ListIsComplete, ListsFit, TypeOK
  <1>14. ListedWereConfirmed'
    BY <1>1, <1>3 DEF IInv, ListedWereConfirmed, TypeOK
  <1>15. RetryCannotLoseAgain'
    BY <1>1, <1>3 DEF IInv, RetryCannotLoseAgain, ParentsStay
  <1> QED
    BY <1>4, <1>5, <1>6, <1>7, <1>8, <1>9, <1>10, <1>11, <1>12, <1>13, <1>14, <1>15 DEF IInv

\* Answering a list keeps it.
LEMMA EndOfListStep ==
    ASSUME IInv, NEW r \in Request, EndOfList(r)
    PROVE  IInv'
  <1>0. TypeOK
    BY DEF IInv
  <1>1. /\ pc' \in [Request -> Location] /\ answer' \in [Request -> Code \cup {"None"}]
        /\ faults' \in 0..MaxFaults /\ (faults' = MaxFaults => faults = MaxFaults)
        /\ \A q \in Request \ {r} : pc'[q] = pc[q] /\ answer'[q] = answer[q]
    BY <1>0, Literals, FaultSpends, AnswerFrame, GoFrame DEF EndOfList, TypeOK
  <1>2. /\ pc[r] = "Describing"
        /\ call[r].op = "List" /\ key[r] = None
    BY <1>0, Arguments DEF EndOfList, IInv, CallsFit
  <1>3. /\ call' = call
        /\ pc'[r] = "Answered" /\ answer'[r] = "OK" /\ todo[r] = {}
        /\ subscribers' = subscribers /\ tracked' = tracked
        /\ row' = row /\ key' = key /\ confirmed' = confirmed
        /\ todo' = todo /\ shown' = shown /\ lasting' = lasting
    BY <1>0, <1>2, Literals, Arguments, FaultSpends, AnswerFrame, GoFrame, Described
    DEF EndOfList, storeVars, rowVars, listVars
  <1>4. TypeOK'
    BY <1>0, <1>1, <1>3 DEF TypeOK
  <1>5. CallsFit'
    BY <1>1, <1>3 DEF IInv, CallsFit, TypeOK, KeyOf, Key
  <1>6. ParentsStay'
    BY <1>1, <1>3 DEF IInv, ParentsStay
  <1>7. RowsFit'
    BY <1>1, <1>3 DEF IInv, RowsFit, TypeOK, HasRow, Active
  <1>8. UnsubscribedIsGone'
    BY <1>1, <1>2, <1>3 DEF IInv, UnsubscribedIsGone, RowsFit, TypeOK, HasRow, Answered
  <1>9. ListsFit'
    BY <1>1, <1>3 DEF IInv, ListsFit, TypeOK, Active, ActiveByEmail, ActiveByRepository
  <1>10. RowsHaveParents'
    BY <1>1, <1>3 DEF IInv, RowsHaveParents, ParentsStay, TypeOK, KeyOf
  <1>11. SubscribeIsTruthful'
    BY <1>1, <1>2, <1>3 DEF IInv, SubscribeIsTruthful, TypeOK, KeyOf, Answered
  <1>12. OneUnsubscribes'
    BY <1>1, <1>2, <1>3 DEF IInv, OneUnsubscribes, TypeOK, UnsubscribedIsGone, Answered
  <1>13. ListIsComplete'
    BY <1>1, <1>2, <1>3 DEF IInv, ListIsComplete, ListsFit, TypeOK
  <1>14. ListedWereConfirmed'
    BY <1>1, <1>3 DEF IInv, ListedWereConfirmed, TypeOK
  <1>15. RetryCannotLoseAgain'
    BY <1>1, <1>3 DEF IInv, RetryCannotLoseAgain, ParentsStay
  <1> QED
    BY <1>4, <1>5, <1>6, <1>7, <1>8, <1>9, <1>10, <1>11, <1>12, <1>13, <1>14, <1>15 DEF IInv

\* A compensation keeps it.
LEMMA CompensateStep ==
    ASSUME IInv, NEW r \in Request, Compensate(r)
    PROVE  IInv'
  <1>0. TypeOK
    BY DEF IInv
  <1>1. /\ pc' \in [Request -> Location] /\ answer' \in [Request -> Code \cup {"None"}]
        /\ faults' \in 0..MaxFaults /\ (faults' = MaxFaults => faults = MaxFaults)
        /\ \A q \in Request \ {r} : pc'[q] = pc[q] /\ answer'[q] = answer[q]
    BY <1>0, Literals, FaultSpends, AnswerFrame, GoFrame
    DEF Compensate, Delete, ForgetLasting, TypeOK
  <1>3. /\ pc' = pc /\ answer' = answer /\ call' = call
        /\ subscribers' = subscribers /\ tracked' = tracked /\ key' = key
        /\ confirmed' = confirmed /\ todo' = todo /\ shown' = shown
        /\ HasRow(r) /\ row' = [row EXCEPT ![r] = "Absent"]
        /\ lasting' = [q \in Request |-> lasting[q] \ {r}]
    BY <1>0, Literals, Arguments, FaultSpends, AnswerFrame, GoFrame, Described
    DEF Compensate, Delete, ForgetLasting, storeVars, rowVars, listVars
  <1>4. TypeOK'
    BY <1>0, <1>1, <1>3 DEF TypeOK
  <1>5. CallsFit'
    BY <1>1, <1>3 DEF IInv, CallsFit, TypeOK, KeyOf, Key
  <1>6. ParentsStay'
    BY <1>1, <1>3 DEF IInv, ParentsStay
  <1>7. RowsFit'
    BY <1>1, <1>3 DEF IInv, RowsFit, TypeOK, HasRow, Active
  <1>8. UnsubscribedIsGone'
    BY <1>1, <1>3 DEF IInv, UnsubscribedIsGone, RowsFit, TypeOK, HasRow, Answered
  <1>9. ListsFit'
    BY <1>1, <1>3 DEF IInv, ListsFit, TypeOK, Active, ActiveByEmail, ActiveByRepository
  <1>10. RowsHaveParents'
    BY <1>1, <1>3 DEF IInv, RowsHaveParents, ParentsStay, TypeOK, KeyOf
  <1>11. SubscribeIsTruthful'
    BY <1>1, <1>3 DEF IInv, SubscribeIsTruthful, TypeOK, KeyOf, Answered
  <1>12. OneUnsubscribes'
    BY <1>1, <1>3 DEF IInv, OneUnsubscribes, TypeOK, UnsubscribedIsGone, Answered
  <1>13. ListIsComplete'
    BY <1>1, <1>3 DEF IInv, ListIsComplete, ListsFit, TypeOK
  <1>14. ListedWereConfirmed'
    BY <1>1, <1>3 DEF IInv, ListedWereConfirmed, TypeOK
  <1>15. RetryCannotLoseAgain'
    BY <1>1, <1>3 DEF IInv, RetryCannotLoseAgain, ParentsStay
  <1> QED
    BY <1>4, <1>5, <1>6, <1>7, <1>8, <1>9, <1>10, <1>11, <1>12, <1>13, <1>14, <1>15 DEF IInv

-----------------------------------------------------------------------------
(* The invariant *)

\* The tables are empty and nobody has called.
LEMMA InitIInv == Init => IInv
  <1> SUFFICES ASSUME Init PROVE IInv
    OBVIOUS
  <1>1. TypeOK
    BY MaxFaultsAssumption
    DEF Init, TypeOK, FaultsInit, Location, Call, NoCall, Args, Operation, Transport
  <1>2. \A r \in Request : call[r].op = "None" /\ ~call[r].known
    BY DEF Init, NoCall, Args
  <1> QED
    BY <1>1, <1>2
    DEF Init, IInv, CallsFit, ParentsStay, RowsFit, UnsubscribedIsGone, ListsFit,
        RowsHaveParents, SubscribeIsTruthful, OneUnsubscribes, ListIsComplete,
        ListedWereConfirmed, RetryCannotLoseAgain, Answered, HasRow, Active

\* Doing nothing keeps the invariant.
LEMMA StutterStep ==
    ASSUME IInv, UNCHANGED vars
    PROVE  IInv'
  <1>1. /\ UNCHANGED <<subscribers, tracked, row, key, confirmed>>
        /\ UNCHANGED <<pc, call, todo, shown, lasting, answer, faults>>
    BY DEF vars, storeVars, rowVars, callVars, listVars
  <1>2. TypeOK' /\ CallsFit' /\ ParentsStay' /\ RowsFit'
    BY <1>1 DEF IInv, TypeOK, CallsFit, ParentsStay, RowsFit, KeyOf, HasRow, Active
  <1>3. UnsubscribedIsGone' /\ ListsFit' /\ RowsHaveParents' /\ SubscribeIsTruthful'
    BY <1>1 DEF IInv, UnsubscribedIsGone, ListsFit, RowsHaveParents, SubscribeIsTruthful,
        ActiveByEmail, ActiveByRepository, Answered, KeyOf, HasRow, Active
  <1>4. /\ OneUnsubscribes' /\ ListIsComplete' /\ ListedWereConfirmed'
        /\ RetryCannotLoseAgain'
    BY <1>1
    DEF IInv, OneUnsubscribes, ListIsComplete, ListedWereConfirmed, RetryCannotLoseAgain,
        Answered
  <1> QED
    BY <1>2, <1>3, <1>4 DEF IInv

\* Every step keeps it.
LEMMA NextIInv == IInv /\ [Next]_vars => IInv'
  <1> SUFFICES ASSUME IInv, [Next]_vars PROVE IInv'
    OBVIOUS
  <1>1. CASE UNCHANGED vars
    BY <1>1, StutterStep
  <1>2. ASSUME NEW r \in Request, Receives(r) PROVE IInv'
    BY <1>2, ReceivesStep
  <1>3. ASSUME NEW r \in Request, Handles(r) PROVE IInv'
    BY <1>3, GetByEmailStep, CreateSubscriberStep, EnsureTrackedStep,
       StartSubscriptionConfirmationStep, ActivateStep, DeleteByTokenStep, ReadActiveStep,
       GetRepositoryStep, EndOfListStep
    DEF Handles
  <1>4. ASSUME NEW r \in Request, Compensate(r) PROVE IInv'
    BY <1>4, CompensateStep
  <1> QED
    BY <1>1, <1>2, <1>3, <1>4 DEF Next

\* The invariant of the calls to the subscription service.
THEOREM RequestsInvariance == Spec => []IInv
  BY InitIInv, NextIInv, PTL DEF Spec

\* No row, not even of a subscription whose transaction was not acknowledged,
\* names a subscriber or a repository that does not exist.
THEOREM ParentsExist == Spec => []RowsHaveParents
  <1>1. IInv => RowsHaveParents
    BY DEF IInv
  <1> QED
    BY <1>1, RequestsInvariance, PTL

\* Who is told that they subscribed has had a row of their own, who is refused
\* has not.
THEOREM AnswersAreTrue == Spec => []SubscribeIsTruthful
  <1>1. IInv => SubscribeIsTruthful
    BY DEF IInv
  <1> QED
    BY <1>1, RequestsInvariance, PTL

\* Of any number of calls with a token, one is told that it unsubscribed.
THEOREM UnsubscribesOnce == Spec => []OneUnsubscribes
  <1>1. IInv => OneUnsubscribes
    BY DEF IInv
  <1> QED
    BY <1>1, RequestsInvariance, PTL

\* A list that is answered shows everything that was active all along.
THEOREM ListsAreComplete == Spec => []ListIsComplete
  <1>1. IInv => ListIsComplete
    BY DEF IInv
  <1> QED
    BY <1>1, RequestsInvariance, PTL

\* A list that is answered shows nothing that was never confirmed, even if it
\* has been cancelled since.
THEOREM ListsShowOnlyConfirmed == Spec => []ListedWereConfirmed
  <1>1. IInv => ListedWereConfirmed
    BY DEF IInv
  <1> QED
    BY <1>1, RequestsInvariance, PTL

\* Without a fault only a new subscriber's call fails, and its retry cannot
\* fail for the same reason.
THEOREM RetrySucceeds == Spec => []RetryCannotLoseAgain
  <1>1. IInv => RetryCannotLoseAgain
    BY DEF IInv
  <1> QED
    BY <1>1, RequestsInvariance, PTL

-----------------------------------------------------------------------------
(* Refinement *)

\* However calls interleave, a row appears as pending under a key nobody has,
\* is activated, and disappears.
THEOREM RowsImplemented == Spec => RowsSpec
  <1> USE DEF Rows!rowVars
  <1>1. Init => Rows!Init
    BY DEF Init, Rows!Init
  <1>2. IInv /\ [Next]_vars => [Rows!Next]_<<row, key>>
    <2> SUFFICES ASSUME IInv, [Next]_vars
                 PROVE  Rows!Next \/ UNCHANGED <<row, key>>
      OBVIOUS
    <2>1. CASE UNCHANGED vars
      BY <2>1 DEF vars, storeVars, rowVars
    <2>2. ASSUME NEW r \in Request, Receives(r)
          PROVE  UNCHANGED <<row, key>>
      BY <2>2
      DEF Receives, ReceiveSubscribe, ReceiveToken, ReceiveList, ReceiveListByRepository,
          Receive, storeVars, rowVars
    <2>3. ASSUME NEW r \in Request, StartSubscriptionConfirmation(r)
          PROVE  (\E k \in Key : Rows!Insert(r, k)) \/ UNCHANGED <<row, key>>
      <3>1. KeyOf(r) \in Key /\ key[r] = None
        BY <2>3, Arguments DEF StartSubscriptionConfirmation
      <3>2. CASE ~KeyTaken(KeyOf(r)) /\ Insert(r)
        <4>1. Rows!Insert(r, KeyOf(r))
          BY <3>1, <3>2 DEF KeyTaken, HasRow, Insert, Rows!Insert
        <4> QED
          BY <3>1, <4>1
      <3> QED
        BY <2>3, <3>2 DEF StartSubscriptionConfirmation, rowVars
    <2>4. ASSUME NEW r \in Request, Activate(r)
          PROVE  (\E i \in Request : Rows!Activate(i)) \/ UNCHANGED <<row, key>>
      <3>1. call[r].token \in Request
        BY <2>4, Arguments DEF Activate
      <3> QED
        BY <2>4, <3>1 DEF Activate, SetActive, HasRow, Rows!Activate, rowVars
    <2>5. ASSUME NEW r \in Request, DeleteByToken(r)
          PROVE  (\E i \in Request : Rows!Delete(i)) \/ UNCHANGED <<row, key>>
      <3>1. call[r].token \in Request
        BY <2>5, Arguments DEF DeleteByToken
      <3> QED
        BY <2>5, <3>1 DEF DeleteByToken, Delete, HasRow, Rows!Delete, rowVars
    <2>6. ASSUME NEW r \in Request, Compensate(r)
          PROVE  Rows!Delete(r)
      BY <2>6 DEF Compensate, Delete, HasRow, Rows!Delete
    <2>7. ASSUME NEW r \in Request,
                 GetByEmail(r) \/ CreateSubscriber(r) \/ EnsureTracked(r)
                   \/ ReadActive(r) \/ GetRepository(r) \/ EndOfList(r)
          PROVE  UNCHANGED <<row, key>>
      BY <2>7
      DEF GetByEmail, CreateSubscriber, EnsureTracked, ReadActive, GetRepository, EndOfList,
          storeVars, rowVars
    <2> QED
      BY <2>1, <2>2, <2>3, <2>4, <2>5, <2>6, <2>7 DEF Next, Handles, Rows!Next
  <1> QED
    BY <1>1, <1>2, RequestsInvariance, PTL DEF Spec, RowsSpec, Rows!Spec
=============================================================================
