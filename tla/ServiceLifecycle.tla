-------------------------- MODULE ServiceLifecycle --------------------------
(***************************************************************************)
(* One process of the subscription service or of the release tracker, from *)
(* its start to its exit: it migrates its database, connects, runs its     *)
(* members under one errgroup, and stops them in order when it is told to  *)
(* or when one of them fails.  The outbox relay is no member of the group: *)
(* nobody waits for it, and it only knows of the signal.                   *)
(***************************************************************************)
EXTENDS Migrations, Faults

CONSTANT MaxCalls    \* calls a server handles at a time

ASSUME MaxCallsAssumption == MaxCalls \in Nat \ {0}

VARIABLES stage,      \* what the main goroutine is doing
          file,       \* the migration it applies next
          signal,     \* SIGTERM has cancelled ctx
          err,        \* the start, or a member of the group, has failed
          member,     \* goroutines of the group
          busy,       \* the calls, deliveries or scans a member handles
          stopper,    \* the goroutine that stops the servers
          expired,    \* its five seconds are over
          relay,      \* the goroutine of the outbox relay
          charged,    \* it charged an attempt for what it could not publish (history)
          code        \* how the process exited

processVars ==
    <<stage, file, signal, err, member, busy, stopper, expired, relay, charged, code>>

vars == <<migrationVars, processVars, faults>>

Stage ==
    {"Opening", "Migrating", "Connecting", "Listening", "Serving", "ClosingBroker",
     "ClosingDatabase", "Exiting", "Exited"}

Worker == {"HTTP", "gRPC", "Consumer", "Scheduler"}

\* Goroutines of the group but for the one that stops the servers.
Members ==
    IF service = "release-tracker" THEN {"HTTP", "Scheduler"} ELSE {"HTTP", "gRPC", "Consumer"}

DatabaseOpen ==
    stage \in {"Migrating", "Connecting", "Listening", "Serving", "ClosingBroker",
               "ClosingDatabase"}

BrokerOpen == stage \in {"Listening", "Serving", "ClosingBroker"}

\* The group's context, which its first error cancels, too.
GroupDone == signal \/ err

ProcessTypeOK ==
    /\ stage \in Stage
    /\ file \in 1..4
    /\ signal \in BOOLEAN /\ err \in BOOLEAN
    /\ member \in [Worker -> {"Off", "Started", "Running", "Returned"}]
    /\ busy \in [Worker -> 0..MaxCalls]
    /\ stopper \in {"Off", "Waiting", "StoppingGRPC", "StoppingHTTP", "Draining", "Returned"}
    /\ expired \in BOOLEAN
    /\ relay \in {"Off", "Idle", "Publishing", "Recording", "Returned"}
    /\ charged \in BOOLEAN
    /\ code \in {"None", "0", "1", "Killed"}

TypeOK == MigrationsTypeOK /\ ProcessTypeOK /\ faults \in 0..MaxFaults

AllOff == [w \in Worker |-> "Off"]

Nothing == [w \in Worker |-> 0]

Init ==
    /\ MigrationsInit
    /\ stage = "Opening" /\ code = "None"
    /\ file = 1
    /\ signal = FALSE /\ err = FALSE
    /\ member = AllOff /\ busy = Nothing
    /\ stopper = "Off" /\ expired = FALSE
    /\ relay = "Off" /\ charged = FALSE
    /\ FaultsInit

-----------------------------------------------------------------------------
(* The start *)

\* main runs the deferred calls from here and exits with an error.
Abandon(next) == stage' = next /\ err' = TRUE

OpenDatabase ==
    /\ stage = "Opening"
    /\ \/ ~signal /\ stage' = "Migrating" /\ NoFault /\ UNCHANGED err
       \/ signal /\ NoFault /\ Abandon("Exiting")
       \/ Fault /\ Abandon("Exiting")
    /\ UNCHANGED <<migrationVars, file, signal, member, busy, stopper, expired, relay, charged,
                   code>>

\* Mutant of Migrate: a file that fails is logged, and the next one applied.
MigrateOn ==
    /\ stage = "Migrating" /\ file <= Files
    /\ \/ schema' = Apply(file, schema) /\ NoFault
       \/ UNCHANGED schema /\ Fault
    /\ file' = file + 1
    /\ UNCHANGED <<service, peer, stage, signal, err, member, busy, stopper, expired, relay,
                   charged, code>>

\* A cancelled context refuses to execute a file.  One that fails may have
\* been committed.
Migrate ==
    /\ stage = "Migrating" /\ file <= Files
    /\ \/ /\ ~signal /\ ~Refuses(file, schema)
          /\ schema' = Apply(file, schema)
          /\ file' = file + 1
          /\ NoFault
          /\ UNCHANGED <<stage, err>>
       \/ /\ IF signal \/ Refuses(file, schema)
               THEN UNCHANGED schema /\ NoFault
               ELSE (schema' = Apply(file, schema) \/ UNCHANGED schema) /\ Fault
          /\ Abandon("ClosingDatabase")
          /\ UNCHANGED file
    /\ UNCHANGED <<service, peer, signal, member, busy, stopper, expired, relay, charged, code>>

EndOfMigrations ==
    /\ stage = "Migrating" /\ file > Files
    /\ stage' = "Connecting"
    /\ NoFault
    /\ UNCHANGED <<migrationVars, file, signal, err, member, busy, stopper, expired, relay,
                   charged, code>>

StartMembers ==
    /\ member' = [w \in Worker |-> IF w \in Members THEN "Started" ELSE "Off"]
    /\ stopper' = "Waiting"

\* setupModules: the connections to the broker.  The outbox relay starts
\* before the gRPC server has its port; the release tracker has no more to
\* set up.
Connect ==
    /\ stage = "Connecting"
    /\ \/ /\ IF service = "release-tracker"
               THEN stage' = "Serving" /\ StartMembers /\ UNCHANGED relay
               ELSE stage' = "Listening" /\ relay' = "Idle" /\ UNCHANGED <<member, stopper>>
          /\ NoFault
          /\ UNCHANGED err
       \/ Abandon("ClosingDatabase") /\ Fault /\ UNCHANGED <<member, stopper, relay>>
    /\ UNCHANGED <<migrationVars, file, signal, busy, expired, charged, code>>

\* setupGrpcServer listens under ctx; then the group starts.
Listen ==
    /\ stage = "Listening"
    /\ \/ ~signal /\ stage' = "Serving" /\ StartMembers /\ NoFault /\ UNCHANGED err
       \/ /\ IF signal THEN NoFault ELSE Fault
          /\ Abandon("ClosingBroker")
          /\ UNCHANGED <<member, stopper>>
    /\ UNCHANGED <<migrationVars, file, signal, busy, expired, relay, charged, code>>

-----------------------------------------------------------------------------
(* The members of the group *)

Server == {"HTTP", "gRPC"}

\* Shutdown and GracefulStop close the listener first.
Accepts(w) ==
    IF w = "gRPC" THEN stopper = "Waiting" ELSE stopper \in {"Waiting", "StoppingGRPC"}

Returns(w) ==
    /\ member' = [member EXCEPT ![w] = "Returned"]
    /\ UNCHANGED <<migrationVars, stage, file, signal, busy, stopper, expired, relay, charged,
                   code>>

Run(w) ==
    /\ member[w] = "Started"
    /\ w \in Server => Accepts(w)
    /\ member' = [member EXCEPT ![w] = "Running"]
    /\ NoFault
    /\ UNCHANGED <<migrationVars, stage, file, signal, err, busy, stopper, expired, relay,
                   charged, code>>

\* A request, a delivery or a tick.  The select of a consumer and of a
\* scheduler may prefer it to a context that is done.
Begin(w) ==
    /\ member[w] = "Running"
    /\ busy[w] < IF w \in Server THEN MaxCalls ELSE 1
    /\ w \in Server => Accepts(w)
    /\ busy' = [busy EXCEPT ![w] = @ + 1]
    /\ NoFault
    /\ UNCHANGED <<migrationVars, stage, file, signal, err, member, stopper, expired, relay,
                   charged, code>>

Finish(w) ==
    /\ busy[w] > 0 /\ stage # "Exited"
    /\ busy' = [busy EXCEPT ![w] = @ - 1]
    /\ NoFault
    /\ UNCHANGED <<migrationVars, stage, file, signal, err, member, stopper, expired, relay,
                   charged, code>>

\* ErrServerClosed and ErrServerStopped are no errors.  A server that is called
\* after its stop returns at once; ListenAndServe does when it is shut down,
\* Serve when GracefulStop is done.
ServerReturns(w) ==
    /\ w \in Server
    /\ \/ member[w] = "Started" /\ ~Accepts(w)
       \/ member[w] = "Running" /\ ~Accepts(w) /\ stopper # "StoppingGRPC"
    /\ Returns(w)
    /\ NoFault
    /\ UNCHANGED err

\* The port is taken, Accept fails.
ServerFails(w) ==
    /\ w \in Server
    /\ member[w] \in {"Started", "Running"}
    /\ Accepts(w)
    /\ Returns(w)
    /\ err' = TRUE
    /\ Fault

\* Between two deliveries or scans.
WorkerReturns(w) ==
    /\ w \in Worker \ Server
    /\ member[w] = "Running" /\ busy[w] = 0
    /\ GroupDone
    /\ Returns(w)
    /\ NoFault
    /\ UNCHANGED err

\* The channel of deliveries is closed, or Consume refused.
ConsumerFails ==
    /\ member["Consumer"] = "Running" /\ busy["Consumer"] = 0
    /\ Returns("Consumer")
    /\ err' = TRUE
    /\ Fault

-----------------------------------------------------------------------------
(* The stop *)

StopperAt(next) ==
    /\ stopper' = next
    /\ UNCHANGED <<migrationVars, stage, file, signal, member, busy, relay, charged, code>>

\* Signal.NotifyContext has ctx from the beginning.
Terminate ==
    /\ stage # "Exited" /\ ~signal
    /\ signal' = TRUE
    /\ NoFault
    /\ UNCHANGED <<migrationVars, stage, file, err, member, busy, stopper, expired, relay,
                   charged, code>>

\* Mutant of BeginStop: it waits for the signal only.
BeginStopOnSignal ==
    /\ stopper = "Waiting" /\ signal
    /\ StopperAt(IF service = "release-tracker" THEN "StoppingHTTP" ELSE "StoppingGRPC")
    /\ NoFault
    /\ UNCHANGED <<err, expired>>

\* The five seconds begin here, for both servers.
BeginStop ==
    /\ stopper = "Waiting" /\ GroupDone
    /\ StopperAt(IF service = "release-tracker" THEN "StoppingHTTP" ELSE "StoppingGRPC")
    /\ NoFault
    /\ UNCHANGED <<err, expired>>

Expire ==
    /\ stopper \in {"StoppingGRPC", "StoppingHTTP", "Draining"} /\ ~expired
    /\ expired' = TRUE
    /\ NoFault
    /\ UNCHANGED <<migrationVars, stage, file, signal, err, member, busy, stopper, relay,
                   charged, code>>

\* Mutant of GracefulStop: Stop, which waits for no call.
StopAtOnce ==
    /\ stopper = "StoppingGRPC"
    /\ StopperAt("StoppingHTTP")
    /\ NoFault
    /\ UNCHANGED <<err, expired>>

\* It has no deadline.
GracefulStop ==
    /\ stopper = "StoppingGRPC" /\ busy["gRPC"] = 0
    /\ StopperAt("StoppingHTTP")
    /\ NoFault
    /\ UNCHANGED <<err, expired>>

\* Shutdown looks for calls once before it looks at the time.
Shutdown ==
    /\ stopper = "StoppingHTTP"
    /\ StopperAt(IF busy["HTTP"] = 0 THEN "Returned" ELSE "Draining")
    /\ NoFault
    /\ UNCHANGED <<err, expired>>

\* Mutant of Drain: the calls Shutdown has left are not reported.
DrainQuietly ==
    /\ stopper = "Draining" /\ (busy["HTTP"] = 0 \/ expired)
    /\ StopperAt("Returned")
    /\ NoFault
    /\ UNCHANGED <<err, expired>>

Drain ==
    /\ stopper = "Draining"
    /\ \/ busy["HTTP"] = 0 /\ UNCHANGED err
       \/ expired /\ err' = TRUE
    /\ StopperAt("Returned")
    /\ NoFault
    /\ UNCHANGED expired

\* group.Wait; then the deferred calls.
Wait ==
    /\ stage = "Serving"
    /\ stopper = "Returned" /\ \A w \in Members : member[w] = "Returned"
    /\ stage' = "ClosingBroker"
    /\ NoFault
    /\ UNCHANGED <<migrationVars, file, signal, err, member, busy, stopper, expired, relay,
                   charged, code>>

Close ==
    /\ stage \in {"ClosingBroker", "ClosingDatabase"}
    /\ stage' = IF stage = "ClosingBroker" THEN "ClosingDatabase" ELSE "Exiting"
    /\ NoFault
    /\ UNCHANGED <<migrationVars, file, signal, err, member, busy, stopper, expired, relay,
                   charged, code>>

Exit ==
    /\ stage = "Exiting"
    /\ stage' = "Exited"
    /\ code' = IF err THEN "1" ELSE "0"
    /\ relay' = "Off"
    /\ NoFault
    /\ UNCHANGED <<migrationVars, file, signal, err, member, busy, stopper, expired, charged>>

Kill ==
    /\ stage # "Exited"
    /\ stage' = "Exited"
    /\ code' = "Killed"
    /\ member' = AllOff /\ busy' = Nothing
    /\ stopper' = "Off" /\ relay' = "Off"
    /\ Fault
    /\ UNCHANGED <<migrationVars, file, signal, err, expired, charged>>

Restart ==
    /\ stage = "Exited"
    /\ stage' = "Opening" /\ code' = "None"
    /\ file' = 1
    /\ signal' = FALSE /\ err' = FALSE
    /\ member' = AllOff /\ busy' = Nothing
    /\ stopper' = "Off" /\ expired' = FALSE
    /\ charged' = FALSE
    /\ NoFault
    /\ UNCHANGED <<migrationVars, relay>>

-----------------------------------------------------------------------------
(* The outbox relay *)

RelayAt(next) ==
    /\ relay' = next
    /\ NoFault
    /\ UNCHANGED <<migrationVars, stage, file, signal, err, member, busy, stopper, expired, code>>

\* A statement with a cancelled context, or on a closed database, fails.
StatementFails == signal \/ ~DatabaseOpen

RelayFetches ==
    /\ relay = "Idle"
    /\ ~StatementFails
    /\ RelayAt("Publishing")
    /\ UNCHANGED charged

RelayReturns ==
    /\ relay = "Idle" /\ signal
    /\ RelayAt("Returned")
    /\ UNCHANGED charged

\* Only what the stop makes of a batch: a message is published, or cannot be
\* because the channel is closed or ctx cancelled.
RelayPublishes ==
    /\ relay = "Publishing"
    /\ \/ BrokerOpen /\ \E next \in {"Publishing", "Idle"} : RelayAt(next)
       \/ (signal \/ ~BrokerOpen) /\ RelayAt("Recording")
    /\ UNCHANGED charged

\* Mutant of RelayRecords: the failure is recorded in spite of the signal.
RelayRecordsDetached ==
    /\ relay = "Recording"
    /\ charged' = (charged \/ DatabaseOpen)
    /\ \E next \in {"Publishing", "Idle"} : RelayAt(next)

\* recordFailure, with the context of the batch.
RelayRecords ==
    /\ relay = "Recording"
    /\ charged' = (charged \/ ~StatementFails)
    /\ \E next \in {"Publishing", "Idle"} : RelayAt(next)

-----------------------------------------------------------------------------

Starts == OpenDatabase \/ Migrate \/ EndOfMigrations \/ Connect \/ Listen

Works(w) ==
    \/ Run(w)
    \/ Begin(w)
    \/ Finish(w)
    \/ ServerReturns(w)
    \/ ServerFails(w)
    \/ WorkerReturns(w)

Stops ==
    \/ ConsumerFails
    \/ Terminate
    \/ BeginStop
    \/ Expire
    \/ GracefulStop
    \/ Shutdown
    \/ Drain
    \/ Wait
    \/ Close
    \/ Exit
    \/ Kill
    \/ Restart

Relays == RelayFetches \/ RelayReturns \/ RelayPublishes \/ RelayRecords

MigratesBeside(q) == PeerNext(q) /\ NoFault /\ UNCHANGED processVars

Next ==
    \/ Starts
    \/ \E w \in Worker : Works(w)
    \/ Stops
    \/ Relays
    \/ \E q \in Peer : MigratesBeside(q)

Spec == Init /\ [][Next]_vars

\* The main goroutine and the one that stops the servers go on, time passes,
\* calls end; and a select between a context that is done and a channel does
\* not choose the channel forever.
Fairness ==
    /\ WF_vars(Starts)
    /\ \A w \in Worker :
         WF_vars(Run(w)) /\ WF_vars(Finish(w)) /\ WF_vars(ServerReturns(w)) /\ SF_vars(WorkerReturns(w))
    /\ WF_vars(BeginStop) /\ WF_vars(Expire) /\ WF_vars(GracefulStop) /\ WF_vars(Shutdown)
    /\ WF_vars(Drain) /\ WF_vars(Wait) /\ WF_vars(Close) /\ WF_vars(Exit)

FairSpec == Spec /\ Fairness

-----------------------------------------------------------------------------
(* Properties *)

\* A process serves only with the schema its statements need, whichever files
\* it, its earlier starts and the replicas beside it have applied or left.
ServesUsableSchema ==
    stage \in {"Connecting", "Listening", "Serving"} => Usable(schema)

\* The broker's connections and the database are closed under nobody who was
\* waited for: no gRPC call, no saga result, no scan.  An HTTP call is left
\* behind only when its time is over, and the exit tells.
StopWaitsForWork ==
    /\ \A w \in Worker \ {"HTTP"} : busy[w] > 0 => stage = "Serving"
    /\ busy["HTTP"] > 0 /\ stage \notin {"Serving", "Exited"} => expired /\ err

\* Exit code 0 says that the process was told to stop and left nothing behind.
ExitCodeIsTruthful ==
    code = "0" => signal /\ ~err /\ \A w \in Worker : busy[w] = 0

\* Being told to stop costs no message one of its attempts; only a stop after
\* a failure closes the channel under a relay that does not know of it.
SignalChargesNoAttempt == charged => err

\* The process does not go on without one of its members.
StopsAsAWhole ==
    (\E w \in Worker : member[w] = "Returned") \/ (stage = "Serving" /\ GroupDone)
        ~> stage = "Exited"

-----------------------------------------------------------------------------
(* The inductive invariant *)

\* No file takes back what an earlier one has done, so replicas that start
\* from the first file do not harm one that is further.
FilesLast ==
    /\ service = "release-tracker" => (file > 1 => "repositories" \in schema.tables)
    /\ service = "subscription-service" =>
         /\ file > 1 => {"subscribers", "subscriptions"} \subseteq schema.tables
         /\ file > 2 => {"subscription_sagas", "outbox_messages"} \subseteq schema.tables
         /\ file > 3 => ~schema.foreignKey
    /\ stage \in {"Connecting", "Listening", "Serving"} => file > Files

\* The group runs while main waits for it, and is over when main goes on.
GroupIsAwaited ==
    /\ stage \in {"Opening", "Migrating", "Connecting", "Listening"} =>
         stopper = "Off" /\ \A w \in Worker : member[w] = "Off"
    /\ stage = "Serving" =>
         stopper # "Off" /\ \A w \in Members : member[w] # "Off"
    /\ stage \in {"ClosingBroker", "ClosingDatabase", "Exiting", "Exited"} =>
         /\ stopper \in {"Off", "Returned"}
         /\ \A w \in Worker : member[w] \in {"Off", "Returned"}
    /\ stage \in {"ClosingBroker", "ClosingDatabase", "Exiting"} =>
         GroupDone /\ (stopper = "Off" => err)
    /\ \A w \in Worker \ Members : member[w] = "Off" /\ busy[w] = 0

\* Deliveries and scans end before their member returns; the calls of a server
\* may outlive it, but not the stop.
CallsAreAwaited ==
    /\ \A w \in Worker \ Server : busy[w] > 0 => member[w] = "Running"
    /\ \A w \in Server : busy[w] > 0 => stopper # "Off"
    /\ stopper \in {"StoppingHTTP", "Draining", "Returned"} => busy["gRPC"] = 0
    /\ stopper \in {"StoppingGRPC", "StoppingHTTP", "Draining", "Returned"} => GroupDone
    /\ stopper = "Returned" /\ busy["HTTP"] > 0 => expired /\ err

CodeFits ==
    /\ code # "None" => stage = "Exited"
    /\ code = "0" => ~err /\ signal /\ stopper = "Returned"

RelayFits ==
    /\ relay # "Off" =>
         stage \in {"Listening", "Serving", "ClosingBroker", "ClosingDatabase", "Exiting"}
    /\ relay = "Recording" => GroupDone

IInv ==
    /\ TypeOK
    /\ FilesLast
    /\ GroupIsAwaited
    /\ CallsAreAwaited
    /\ CodeFits
    /\ RelayFits
    /\ SignalChargesNoAttempt
=============================================================================
