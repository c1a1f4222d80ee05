---------------------- MODULE ServiceLifecycle_proofs ----------------------
(***************************************************************************)
(* Whatever fails and whenever it is told to stop, a process serves with a *)
(* usable schema, waits for its work before it closes what the work needs, *)
(* and exits with a truthful code.                                         *)
(***************************************************************************)
EXTENDS ServiceLifecycle, TLAPS

\* The budget of faults stays within its bounds.
LEMMA FaultSpends ==
    ASSUME TypeOK
    PROVE  (Fault => faults' \in 0..MaxFaults) /\ (NoFault => faults' \in 0..MaxFaults)
  BY MaxFaultsAssumption DEF TypeOK, Fault, NoFault

\* A file makes a schema of a schema.
LEMMA FileKeepsType ==
    ASSUME service \in Service, NEW n \in 1..3, NEW s \in Schema
    PROVE  Apply(n, s) \in Schema
  BY DEF Schema, Apply, CreateRepositories, CreateTables, CreateSagaTables, SplitReleaseTracker,
      Table

-----------------------------------------------------------------------------
(* The steps, one after the other *)

\* Opening the database keeps the invariant.
LEMMA OpenDatabaseStep ==
    ASSUME IInv, OpenDatabase
    PROVE  IInv'
  <1>0. TypeOK
    BY DEF IInv
  <1>1. TypeOK'
    <2>1. faults' \in 0..MaxFaults
      BY <1>0, FaultSpends DEF OpenDatabase
    <2>2. err' \in BOOLEAN /\ expired' \in BOOLEAN /\ signal' \in BOOLEAN /\ charged' \in BOOLEAN
      BY <1>0 DEF OpenDatabase, Abandon, TypeOK, ProcessTypeOK
    <2>3. MigrationsTypeOK'
      BY <1>0 DEF OpenDatabase, TypeOK, MigrationsTypeOK, migrationVars, Files
    <2>4. stage' \in Stage /\ file' \in 1..4 /\ code' \in {"None", "0", "1", "Killed"}
      BY <1>0 DEF OpenDatabase, Abandon, TypeOK, ProcessTypeOK, Stage
    <2>5. /\ member' \in [Worker -> {"Off", "Started", "Running", "Returned"}]
          /\ busy' \in [Worker -> 0..MaxCalls]
      BY <1>0 DEF OpenDatabase, TypeOK, ProcessTypeOK
    <2>6. /\ stopper' \in {"Off", "Waiting", "StoppingGRPC", "StoppingHTTP", "Draining",
                           "Returned"}
          /\ relay' \in {"Off", "Idle", "Publishing", "Recording", "Returned"}
      BY <1>0 DEF OpenDatabase, TypeOK, ProcessTypeOK
    <2> QED
      BY <2>1, <2>2, <2>3, <2>4, <2>5, <2>6 DEF TypeOK, ProcessTypeOK
  <1>2. FilesLast'
    BY DEF OpenDatabase, Abandon, IInv, FilesLast, migrationVars
  <1>3. GroupIsAwaited'
    BY DEF OpenDatabase, Abandon, IInv, GroupIsAwaited, GroupDone, Members, migrationVars
  <1>4. CallsAreAwaited'
    BY DEF OpenDatabase, IInv, GroupIsAwaited, CallsAreAwaited
  <1>5. CodeFits' /\ RelayFits' /\ SignalChargesNoAttempt'
    BY DEF OpenDatabase, Abandon, IInv, CodeFits, RelayFits, SignalChargesNoAttempt
  <1> QED
    BY <1>1, <1>2, <1>3, <1>4, <1>5 DEF IInv

\* Applying a file keeps it.
LEMMA MigrateStep ==
    ASSUME IInv, Migrate
    PROVE  IInv'
  <1>0. TypeOK
    BY DEF IInv
  <1>1. TypeOK'
    <2>1. faults' \in 0..MaxFaults
      BY <1>0, FaultSpends DEF Migrate
    <2>2. err' \in BOOLEAN /\ expired' \in BOOLEAN /\ signal' \in BOOLEAN /\ charged' \in BOOLEAN
      BY <1>0 DEF Migrate, Abandon, TypeOK, ProcessTypeOK
    <2>3. MigrationsTypeOK'
      BY <1>0, FileKeepsType DEF Migrate, TypeOK, ProcessTypeOK, MigrationsTypeOK, Files
    <2>4. stage' \in Stage /\ file' \in 1..4 /\ code' \in {"None", "0", "1", "Killed"}
      BY <1>0 DEF Migrate, Abandon, TypeOK, ProcessTypeOK, Files, Stage
    <2>5. /\ member' \in [Worker -> {"Off", "Started", "Running", "Returned"}]
          /\ busy' \in [Worker -> 0..MaxCalls]
      BY <1>0 DEF Migrate, TypeOK, ProcessTypeOK
    <2>6. /\ stopper' \in {"Off", "Waiting", "StoppingGRPC", "StoppingHTTP", "Draining",
                           "Returned"}
          /\ relay' \in {"Off", "Idle", "Publishing", "Recording", "Returned"}
      BY <1>0 DEF Migrate, TypeOK, ProcessTypeOK
    <2> QED
      BY <2>1, <2>2, <2>3, <2>4, <2>5, <2>6 DEF TypeOK, ProcessTypeOK
  <1>2. FilesLast'
    BY DEF Migrate, Abandon, TypeOK, ProcessTypeOK, MigrationsTypeOK, IInv, FilesLast, Apply,
        CreateRepositories, CreateTables, CreateSagaTables, SplitReleaseTracker, Schema
  <1>3. GroupIsAwaited'
    BY DEF Migrate, Abandon, IInv, GroupIsAwaited, GroupDone, Members
  <1>4. CallsAreAwaited'
    BY DEF Migrate, IInv, GroupIsAwaited, CallsAreAwaited
  <1>5. CodeFits' /\ RelayFits' /\ SignalChargesNoAttempt'
    BY DEF Migrate, Abandon, IInv, CodeFits, RelayFits, SignalChargesNoAttempt
  <1> QED
    BY <1>1, <1>2, <1>3, <1>4, <1>5 DEF IInv

\* Having applied them all keeps it.
LEMMA EndOfMigrationsStep ==
    ASSUME IInv, EndOfMigrations
    PROVE  IInv'
  <1>0. TypeOK
    BY DEF IInv
  <1>1. TypeOK'
    BY <1>0, FaultSpends
    DEF EndOfMigrations, TypeOK, ProcessTypeOK, MigrationsTypeOK, migrationVars, Files,
        Stage
  <1>2. FilesLast'
    BY DEF EndOfMigrations, IInv, FilesLast, Files, migrationVars
  <1>3. GroupIsAwaited'
    BY DEF EndOfMigrations, IInv, GroupIsAwaited, Members, migrationVars
  <1>4. CallsAreAwaited'
    BY DEF EndOfMigrations, IInv, CallsAreAwaited, GroupDone
  <1>5. CodeFits' /\ RelayFits' /\ SignalChargesNoAttempt'
    BY DEF EndOfMigrations, IInv, CodeFits, RelayFits, SignalChargesNoAttempt
  <1> QED
    BY <1>1, <1>2, <1>3, <1>4, <1>5 DEF IInv

\* Connecting to the broker keeps it.
LEMMA ConnectStep ==
    ASSUME IInv, Connect
    PROVE  IInv'
  <1>0. TypeOK
    BY DEF IInv
  <1>1. TypeOK'
    <2>1. faults' \in 0..MaxFaults
      BY <1>0, FaultSpends DEF Connect
    <2>2. err' \in BOOLEAN /\ expired' \in BOOLEAN /\ signal' \in BOOLEAN /\ charged' \in BOOLEAN
      BY <1>0 DEF Connect, Abandon, TypeOK, ProcessTypeOK
    <2>3. MigrationsTypeOK'
      BY <1>0 DEF Connect, TypeOK, MigrationsTypeOK, migrationVars, Files
    <2>4. stage' \in Stage /\ file' \in 1..4 /\ code' \in {"None", "0", "1", "Killed"}
      BY <1>0 DEF Connect, Abandon, TypeOK, ProcessTypeOK, Stage
    <2>5. /\ member' \in [Worker -> {"Off", "Started", "Running", "Returned"}]
          /\ busy' \in [Worker -> 0..MaxCalls]
      BY <1>0 DEF Connect, StartMembers, TypeOK, ProcessTypeOK
    <2>6. /\ stopper' \in {"Off", "Waiting", "StoppingGRPC", "StoppingHTTP", "Draining",
                           "Returned"}
          /\ relay' \in {"Off", "Idle", "Publishing", "Recording", "Returned"}
      BY <1>0 DEF Connect, StartMembers, TypeOK, ProcessTypeOK
    <2> QED
      BY <2>1, <2>2, <2>3, <2>4, <2>5, <2>6 DEF TypeOK, ProcessTypeOK
  <1>2. FilesLast'
    BY DEF Connect, IInv, FilesLast, Files, migrationVars
  <1>3. GroupIsAwaited'
    BY DEF Connect, Abandon, StartMembers, IInv, GroupIsAwaited, GroupDone, Members, Worker,
        migrationVars
  <1>4. CallsAreAwaited'
    BY DEF Connect, StartMembers, IInv, GroupIsAwaited, CallsAreAwaited
  <1>5. CodeFits' /\ RelayFits' /\ SignalChargesNoAttempt'
    BY DEF Connect, Abandon, IInv, CodeFits, RelayFits, SignalChargesNoAttempt
  <1> QED
    BY <1>1, <1>2, <1>3, <1>4, <1>5 DEF IInv

\* Starting the group keeps it.
LEMMA ListenStep ==
    ASSUME IInv, Listen
    PROVE  IInv'
  <1>0. TypeOK
    BY DEF IInv
  <1>1. TypeOK'
    <2>1. faults' \in 0..MaxFaults
      BY <1>0, FaultSpends DEF Listen
    <2>2. err' \in BOOLEAN /\ expired' \in BOOLEAN /\ signal' \in BOOLEAN /\ charged' \in BOOLEAN
      BY <1>0 DEF Listen, Abandon, TypeOK, ProcessTypeOK
    <2>3. MigrationsTypeOK'
      BY <1>0 DEF Listen, TypeOK, MigrationsTypeOK, migrationVars, Files
    <2>4. stage' \in Stage /\ file' \in 1..4 /\ code' \in {"None", "0", "1", "Killed"}
      BY <1>0 DEF Listen, Abandon, TypeOK, ProcessTypeOK, Stage
    <2>5. /\ member' \in [Worker -> {"Off", "Started", "Running", "Returned"}]
          /\ busy' \in [Worker -> 0..MaxCalls]
      BY <1>0 DEF Listen, StartMembers, TypeOK, ProcessTypeOK
    <2>6. /\ stopper' \in {"Off", "Waiting", "StoppingGRPC", "StoppingHTTP", "Draining",
                           "Returned"}
          /\ relay' \in {"Off", "Idle", "Publishing", "Recording", "Returned"}
      BY <1>0 DEF Listen, StartMembers, TypeOK, ProcessTypeOK
    <2> QED
      BY <2>1, <2>2, <2>3, <2>4, <2>5, <2>6 DEF TypeOK, ProcessTypeOK
  <1>2. FilesLast'
    BY DEF Listen, IInv, FilesLast, Files, migrationVars
  <1>3. GroupIsAwaited'
    BY DEF Listen, Abandon, StartMembers, IInv, GroupIsAwaited, GroupDone, Members, Worker,
        migrationVars
  <1>4. CallsAreAwaited'
    BY DEF Listen, StartMembers, IInv, GroupIsAwaited, CallsAreAwaited
  <1>5. CodeFits' /\ RelayFits' /\ SignalChargesNoAttempt'
    BY DEF Listen, Abandon, IInv, CodeFits, RelayFits, SignalChargesNoAttempt, GroupDone
  <1> QED
    BY <1>1, <1>2, <1>3, <1>4, <1>5 DEF IInv

\* A member that starts keeps it.
LEMMA RunStep ==
    ASSUME IInv, NEW w \in Worker, Run(w)
    PROVE  IInv'
  <1>0. TypeOK
    BY DEF IInv
  <1>1. TypeOK'
    BY <1>0, FaultSpends DEF Run, TypeOK, ProcessTypeOK, MigrationsTypeOK, migrationVars, Files
  <1>2. FilesLast'
    BY DEF Run, IInv, FilesLast, Files, migrationVars
  <1>3. GroupIsAwaited'
    BY DEF Run, IInv, GroupIsAwaited, Members, migrationVars
  <1>4. CallsAreAwaited'
    BY DEF Run, IInv, CallsAreAwaited, GroupDone
  <1>5. CodeFits' /\ RelayFits' /\ SignalChargesNoAttempt'
    BY DEF Run, IInv, CodeFits, RelayFits, SignalChargesNoAttempt, GroupDone
  <1> QED
    BY <1>1, <1>2, <1>3, <1>4, <1>5 DEF IInv

\* A call, a delivery or a scan that begins keeps it.
LEMMA BeginStep ==
    ASSUME IInv, NEW w \in Worker, Begin(w)
    PROVE  IInv'
  <1>0. TypeOK
    BY DEF IInv
  <1>1. TypeOK'
    BY <1>0, FaultSpends, MaxCallsAssumption
    DEF Begin, TypeOK, ProcessTypeOK, MigrationsTypeOK, migrationVars, Files
  <1>2. FilesLast'
    BY DEF Begin, IInv, FilesLast, Files, migrationVars
  <1>3. GroupIsAwaited'
    BY DEF Begin, IInv, GroupIsAwaited, Members, migrationVars
  <1>4. CallsAreAwaited'
    BY DEF Begin, IInv, CallsAreAwaited, GroupDone, Server, Accepts
  <1>5. CodeFits' /\ RelayFits' /\ SignalChargesNoAttempt'
    BY DEF Begin, IInv, CodeFits, RelayFits, SignalChargesNoAttempt, GroupDone
  <1> QED
    BY <1>1, <1>2, <1>3, <1>4, <1>5 DEF IInv

\* One that ends keeps it.
LEMMA FinishStep ==
    ASSUME IInv, NEW w \in Worker, Finish(w)
    PROVE  IInv'
  <1>0. TypeOK
    BY DEF IInv
  <1>1. TypeOK'
    BY <1>0, FaultSpends, MaxCallsAssumption
    DEF Finish, TypeOK, ProcessTypeOK, MigrationsTypeOK, migrationVars, Files
  <1>2. FilesLast'
    BY DEF Finish, IInv, FilesLast, Files, migrationVars
  <1>3. GroupIsAwaited'
    BY DEF Finish, IInv, GroupIsAwaited, GroupDone, Members, migrationVars
  <1>4. CallsAreAwaited'
    BY DEF Finish, IInv, CallsAreAwaited, GroupDone
  <1>5. CodeFits' /\ RelayFits' /\ SignalChargesNoAttempt'
    BY DEF Finish, IInv, CodeFits, RelayFits, SignalChargesNoAttempt, GroupDone
  <1> QED
    BY <1>1, <1>2, <1>3, <1>4, <1>5 DEF IInv

\* A server that has been stopped keeps it.
LEMMA ServerReturnsStep ==
    ASSUME IInv, NEW w \in Worker, ServerReturns(w)
    PROVE  IInv'
  <1>0. TypeOK
    BY DEF IInv
  <1>1. TypeOK'
    BY <1>0, FaultSpends
    DEF ServerReturns, Returns, TypeOK, ProcessTypeOK, MigrationsTypeOK, migrationVars,
        Files
  <1>2. FilesLast'
    BY DEF ServerReturns, Returns, IInv, FilesLast, Files, migrationVars
  <1>3. GroupIsAwaited'
    BY DEF ServerReturns, Returns, IInv, GroupIsAwaited, Members, migrationVars
  <1>4. CallsAreAwaited'
    BY DEF ServerReturns, Returns, IInv, CallsAreAwaited, GroupDone
  <1>5. CodeFits' /\ RelayFits' /\ SignalChargesNoAttempt'
    BY DEF ServerReturns, Returns, IInv, CodeFits, RelayFits, SignalChargesNoAttempt, GroupDone
  <1> QED
    BY <1>1, <1>2, <1>3, <1>4, <1>5 DEF IInv

\* A server that fails keeps it.
LEMMA ServerFailsStep ==
    ASSUME IInv, NEW w \in Worker, ServerFails(w)
    PROVE  IInv'
  <1>0. TypeOK
    BY DEF IInv
  <1>1. TypeOK'
    BY <1>0, FaultSpends
    DEF ServerFails, Returns, TypeOK, ProcessTypeOK, MigrationsTypeOK, migrationVars, Files
  <1>2. FilesLast'
    BY DEF ServerFails, Returns, IInv, FilesLast, Files, migrationVars
  <1>3. GroupIsAwaited'
    BY DEF ServerFails, Returns, IInv, GroupIsAwaited, Members, migrationVars
  <1>4. CallsAreAwaited'
    BY DEF ServerFails, Returns, IInv, CallsAreAwaited, GroupDone
  <1>5. CodeFits' /\ RelayFits' /\ SignalChargesNoAttempt'
    BY DEF ServerFails, Returns, IInv, GroupIsAwaited, CodeFits, RelayFits,
        SignalChargesNoAttempt, GroupDone
  <1> QED
    BY <1>1, <1>2, <1>3, <1>4, <1>5 DEF IInv

\* A consumer or scheduler that returns keeps it.
LEMMA WorkerReturnsStep ==
    ASSUME IInv, NEW w \in Worker, WorkerReturns(w)
    PROVE  IInv'
  <1>0. TypeOK
    BY DEF IInv
  <1>1. TypeOK'
    BY <1>0, FaultSpends
    DEF WorkerReturns, Returns, TypeOK, ProcessTypeOK, MigrationsTypeOK, migrationVars,
        Files
  <1>2. FilesLast'
    BY DEF WorkerReturns, Returns, IInv, FilesLast, Files, migrationVars
  <1>3. GroupIsAwaited'
    BY DEF WorkerReturns, Returns, IInv, GroupIsAwaited, Members, migrationVars
  <1>4. CallsAreAwaited'
    BY DEF WorkerReturns, Returns, IInv, CallsAreAwaited, GroupDone
  <1>5. CodeFits' /\ RelayFits' /\ SignalChargesNoAttempt'
    BY DEF WorkerReturns, Returns, IInv, CodeFits, RelayFits, SignalChargesNoAttempt, GroupDone
  <1> QED
    BY <1>1, <1>2, <1>3, <1>4, <1>5 DEF IInv

\* A consumer that fails keeps it.
LEMMA ConsumerFailsStep ==
    ASSUME IInv, ConsumerFails
    PROVE  IInv'
  <1>0. TypeOK
    BY DEF IInv
  <1>1. TypeOK'
    BY <1>0, FaultSpends
    DEF ConsumerFails, Returns, TypeOK, ProcessTypeOK, MigrationsTypeOK, migrationVars,
        Files, Worker
  <1>2. FilesLast'
    BY DEF ConsumerFails, Returns, IInv, FilesLast, Files, migrationVars
  <1>3. GroupIsAwaited'
    BY DEF ConsumerFails, Returns, IInv, GroupIsAwaited, Members, Worker, migrationVars
  <1>4. CallsAreAwaited'
    BY DEF ConsumerFails, Returns, IInv, CallsAreAwaited, GroupDone
  <1>5. CodeFits' /\ RelayFits' /\ SignalChargesNoAttempt'
    BY DEF ConsumerFails, Returns, IInv, GroupIsAwaited, CodeFits, RelayFits,
        SignalChargesNoAttempt, GroupDone, Worker
  <1> QED
    BY <1>1, <1>2, <1>3, <1>4, <1>5 DEF IInv

\* The signal keeps it.
LEMMA TerminateStep ==
    ASSUME IInv, Terminate
    PROVE  IInv'
  <1>0. TypeOK
    BY DEF IInv
  <1>1. TypeOK'
    BY <1>0, FaultSpends
    DEF Terminate, TypeOK, ProcessTypeOK, MigrationsTypeOK, migrationVars, Files
  <1>2. FilesLast'
    BY DEF Terminate, IInv, FilesLast, Files, migrationVars
  <1>3. GroupIsAwaited'
    BY DEF Terminate, IInv, GroupIsAwaited, GroupDone, Members, migrationVars
  <1>4. CallsAreAwaited'
    BY DEF Terminate, IInv, CallsAreAwaited, GroupDone
  <1>5. CodeFits' /\ RelayFits' /\ SignalChargesNoAttempt'
    BY DEF Terminate, IInv, CodeFits, RelayFits, SignalChargesNoAttempt, GroupDone
  <1> QED
    BY <1>1, <1>2, <1>3, <1>4, <1>5 DEF IInv

\* The beginning of the stop keeps it.
LEMMA BeginStopStep ==
    ASSUME IInv, BeginStop
    PROVE  IInv'
  <1>0. TypeOK
    BY DEF IInv
  <1>1. TypeOK'
    BY <1>0, FaultSpends
    DEF BeginStop, StopperAt, TypeOK, ProcessTypeOK, MigrationsTypeOK, migrationVars, Files
  <1>2. FilesLast'
    BY DEF BeginStop, StopperAt, IInv, FilesLast, Files, migrationVars
  <1>3. GroupIsAwaited'
    BY DEF BeginStop, StopperAt, IInv, GroupIsAwaited, Members, migrationVars
  <1>4. CallsAreAwaited'
    BY DEF BeginStop, StopperAt, IInv, GroupIsAwaited, CallsAreAwaited, GroupDone, Members,
        Worker
  <1>5. CodeFits' /\ RelayFits' /\ SignalChargesNoAttempt'
    BY DEF BeginStop, StopperAt, IInv, CodeFits, RelayFits, SignalChargesNoAttempt, GroupDone
  <1> QED
    BY <1>1, <1>2, <1>3, <1>4, <1>5 DEF IInv

\* The end of the five seconds keeps it.
LEMMA ExpireStep ==
    ASSUME IInv, Expire
    PROVE  IInv'
  <1>0. TypeOK
    BY DEF IInv
  <1>1. TypeOK'
    BY <1>0, FaultSpends
    DEF Expire, TypeOK, ProcessTypeOK, MigrationsTypeOK, migrationVars, Files
  <1>2. FilesLast'
    BY DEF Expire, IInv, FilesLast, Files, migrationVars
  <1>3. GroupIsAwaited'
    BY DEF Expire, IInv, GroupIsAwaited, Members, migrationVars
  <1>4. CallsAreAwaited'
    BY DEF Expire, IInv, CallsAreAwaited, GroupDone
  <1>5. CodeFits' /\ RelayFits' /\ SignalChargesNoAttempt'
    BY DEF Expire, IInv, CodeFits, RelayFits, SignalChargesNoAttempt, GroupDone
  <1> QED
    BY <1>1, <1>2, <1>3, <1>4, <1>5 DEF IInv

\* The end of the gRPC calls keeps it.
LEMMA GracefulStopStep ==
    ASSUME IInv, GracefulStop
    PROVE  IInv'
  <1>0. TypeOK
    BY DEF IInv
  <1>1. TypeOK'
    BY <1>0, FaultSpends
    DEF GracefulStop, StopperAt, TypeOK, ProcessTypeOK, MigrationsTypeOK, migrationVars,
        Files
  <1>2. FilesLast'
    BY DEF GracefulStop, StopperAt, IInv, FilesLast, Files, migrationVars
  <1>3. GroupIsAwaited'
    BY DEF GracefulStop, StopperAt, IInv, GroupIsAwaited, Members, migrationVars
  <1>4. CallsAreAwaited'
    BY DEF GracefulStop, StopperAt, IInv, CallsAreAwaited, GroupDone
  <1>5. CodeFits' /\ RelayFits' /\ SignalChargesNoAttempt'
    BY DEF GracefulStop, StopperAt, IInv, CodeFits, RelayFits, SignalChargesNoAttempt, GroupDone
  <1> QED
    BY <1>1, <1>2, <1>3, <1>4, <1>5 DEF IInv

\* The beginning of Shutdown keeps it.
LEMMA ShutdownStep ==
    ASSUME IInv, Shutdown
    PROVE  IInv'
  <1>0. TypeOK
    BY DEF IInv
  <1>1. TypeOK'
    BY <1>0, FaultSpends
    DEF Shutdown, StopperAt, TypeOK, ProcessTypeOK, MigrationsTypeOK, migrationVars, Files
  <1>2. FilesLast'
    BY DEF Shutdown, StopperAt, IInv, FilesLast, Files, migrationVars
  <1>3. GroupIsAwaited'
    BY DEF Shutdown, StopperAt, IInv, GroupIsAwaited, Members, migrationVars
  <1>4. CallsAreAwaited'
    BY DEF Shutdown, StopperAt, IInv, CallsAreAwaited, GroupDone
  <1>5. CodeFits' /\ RelayFits' /\ SignalChargesNoAttempt'
    BY DEF Shutdown, StopperAt, IInv, CodeFits, RelayFits, SignalChargesNoAttempt, GroupDone
  <1> QED
    BY <1>1, <1>2, <1>3, <1>4, <1>5 DEF IInv

\* Its end keeps it.
LEMMA DrainStep ==
    ASSUME IInv, Drain
    PROVE  IInv'
  <1>0. TypeOK
    BY DEF IInv
  <1>1. TypeOK'
    <2>1. faults' \in 0..MaxFaults
      BY <1>0, FaultSpends DEF Drain
    <2>2. err' \in BOOLEAN /\ expired' \in BOOLEAN /\ signal' \in BOOLEAN /\ charged' \in BOOLEAN
      BY <1>0 DEF Drain, StopperAt, TypeOK, ProcessTypeOK
    <2>3. MigrationsTypeOK'
      BY <1>0 DEF Drain, StopperAt, TypeOK, MigrationsTypeOK, migrationVars, Files
    <2>4. stage' \in Stage /\ file' \in 1..4 /\ code' \in {"None", "0", "1", "Killed"}
      BY <1>0 DEF Drain, StopperAt, TypeOK, ProcessTypeOK
    <2>5. /\ member' \in [Worker -> {"Off", "Started", "Running", "Returned"}]
          /\ busy' \in [Worker -> 0..MaxCalls]
      BY <1>0 DEF Drain, StopperAt, TypeOK, ProcessTypeOK
    <2>6. /\ stopper' \in {"Off", "Waiting", "StoppingGRPC", "StoppingHTTP", "Draining",
                           "Returned"}
          /\ relay' \in {"Off", "Idle", "Publishing", "Recording", "Returned"}
      BY <1>0 DEF Drain, StopperAt, TypeOK, ProcessTypeOK
    <2> QED
      BY <2>1, <2>2, <2>3, <2>4, <2>5, <2>6 DEF TypeOK, ProcessTypeOK
  <1>2. FilesLast'
    BY DEF Drain, StopperAt, IInv, FilesLast, Files, migrationVars
  <1>3. GroupIsAwaited'
    BY DEF Drain, StopperAt, IInv, GroupIsAwaited, Members, migrationVars
  <1>4. CallsAreAwaited'
    BY DEF Drain, StopperAt, IInv, CallsAreAwaited, GroupDone
  <1>5. CodeFits' /\ RelayFits' /\ SignalChargesNoAttempt'
    BY DEF Drain, StopperAt, IInv, CodeFits, RelayFits, SignalChargesNoAttempt, GroupDone
  <1> QED
    BY <1>1, <1>2, <1>3, <1>4, <1>5 DEF IInv

\* The end of the group keeps it.
LEMMA WaitStep ==
    ASSUME IInv, Wait
    PROVE  IInv'
  <1>0. TypeOK
    BY DEF IInv
  <1>1. TypeOK'
    BY <1>0, FaultSpends
    DEF Wait, TypeOK, ProcessTypeOK, MigrationsTypeOK, migrationVars, Files, Stage
  <1>2. FilesLast'
    BY DEF Wait, IInv, FilesLast, migrationVars
  <1>3. GroupIsAwaited'
    BY DEF Wait, IInv, GroupIsAwaited, CallsAreAwaited, GroupDone, Members, migrationVars
  <1>4. CallsAreAwaited'
    BY DEF Wait, IInv, CallsAreAwaited, GroupDone
  <1>5. CodeFits' /\ RelayFits' /\ SignalChargesNoAttempt'
    BY DEF Wait, IInv, CodeFits, RelayFits, SignalChargesNoAttempt, GroupDone
  <1> QED
    BY <1>1, <1>2, <1>3, <1>4, <1>5 DEF IInv

\* A deferred call keeps it.
LEMMA CloseStep ==
    ASSUME IInv, Close
    PROVE  IInv'
  <1>0. TypeOK
    BY DEF IInv
  <1>1. TypeOK'
    BY <1>0, FaultSpends
    DEF Close, TypeOK, ProcessTypeOK, MigrationsTypeOK, migrationVars, Files, Stage
  <1>2. FilesLast'
    BY DEF Close, IInv, FilesLast, migrationVars
  <1>3. GroupIsAwaited'
    BY DEF Close, IInv, GroupIsAwaited, GroupDone, Members, migrationVars
  <1>4. CallsAreAwaited'
    BY DEF Close, IInv, CallsAreAwaited, GroupDone
  <1>5. CodeFits' /\ RelayFits' /\ SignalChargesNoAttempt'
    BY DEF Close, IInv, CodeFits, RelayFits, SignalChargesNoAttempt, GroupDone
  <1> QED
    BY <1>1, <1>2, <1>3, <1>4, <1>5 DEF IInv

\* The exit keeps it.
LEMMA ExitStep ==
    ASSUME IInv, Exit
    PROVE  IInv'
  <1>0. TypeOK
    BY DEF IInv
  <1>1. TypeOK'
    BY <1>0, FaultSpends
    DEF Exit, TypeOK, ProcessTypeOK, MigrationsTypeOK, migrationVars, Files, Stage
  <1>2. FilesLast'
    BY DEF Exit, IInv, FilesLast, migrationVars
  <1>3. GroupIsAwaited'
    BY DEF Exit, IInv, GroupIsAwaited, Members, migrationVars
  <1>4. CallsAreAwaited'
    BY DEF Exit, IInv, CallsAreAwaited, GroupDone
  <1>5. CodeFits' /\ RelayFits' /\ SignalChargesNoAttempt'
    BY DEF Exit, IInv, GroupIsAwaited, CodeFits, RelayFits, SignalChargesNoAttempt, GroupDone
  <1> QED
    BY <1>1, <1>2, <1>3, <1>4, <1>5 DEF IInv

\* A kill keeps it.
LEMMA KillStep ==
    ASSUME IInv, Kill
    PROVE  IInv'
  <1>0. TypeOK
    BY DEF IInv
  <1>1. TypeOK'
    BY <1>0, FaultSpends, MaxCallsAssumption
    DEF Kill, AllOff, Nothing, TypeOK, ProcessTypeOK, MigrationsTypeOK, migrationVars,
        Files, Stage
  <1>2. FilesLast'
    BY DEF Kill, IInv, FilesLast, migrationVars
  <1>3. GroupIsAwaited'
    BY DEF Kill, AllOff, Nothing, GroupIsAwaited
  <1>4. CallsAreAwaited'
    BY DEF Kill, Nothing, CallsAreAwaited, Worker, Server
  <1>5. CodeFits' /\ RelayFits' /\ SignalChargesNoAttempt'
    BY DEF Kill, IInv, CodeFits, RelayFits, SignalChargesNoAttempt
  <1> QED
    BY <1>1, <1>2, <1>3, <1>4, <1>5 DEF IInv

\* A restart keeps it.
LEMMA RestartStep ==
    ASSUME IInv, Restart
    PROVE  IInv'
  <1>0. TypeOK
    BY DEF IInv
  <1>1. TypeOK'
    <2>1. faults' \in 0..MaxFaults
      BY <1>0, FaultSpends DEF Restart
    <2>2. err' \in BOOLEAN /\ expired' \in BOOLEAN /\ signal' \in BOOLEAN /\ charged' \in BOOLEAN
      BY DEF Restart
    <2>3. MigrationsTypeOK'
      BY <1>0 DEF Restart, TypeOK, MigrationsTypeOK, migrationVars, Files
    <2>4. stage' \in Stage /\ file' \in 1..4 /\ code' \in {"None", "0", "1", "Killed"}
      BY DEF Restart, Stage
    <2>5. /\ member' \in [Worker -> {"Off", "Started", "Running", "Returned"}]
          /\ busy' \in [Worker -> 0..MaxCalls]
      BY MaxCallsAssumption DEF Restart, AllOff, Nothing
    <2>6. /\ stopper' \in {"Off", "Waiting", "StoppingGRPC", "StoppingHTTP", "Draining",
                           "Returned"}
          /\ relay' \in {"Off", "Idle", "Publishing", "Recording", "Returned"}
      BY <1>0 DEF Restart, TypeOK, ProcessTypeOK
    <2> QED
      BY <2>1, <2>2, <2>3, <2>4, <2>5, <2>6 DEF TypeOK, ProcessTypeOK
  <1>2. FilesLast'
    BY DEF Restart, FilesLast
  <1>3. GroupIsAwaited'
    BY DEF Restart, AllOff, Nothing, GroupIsAwaited
  <1>4. CallsAreAwaited'
    BY DEF Restart, Nothing, CallsAreAwaited, Worker, Server
  <1>5. CodeFits' /\ RelayFits' /\ SignalChargesNoAttempt'
    BY DEF Restart, IInv, CodeFits, RelayFits, SignalChargesNoAttempt
  <1> QED
    BY <1>1, <1>2, <1>3, <1>4, <1>5 DEF IInv

\* The relay keeps it when it fetches a batch,
LEMMA RelayFetchesStep ==
    ASSUME IInv, RelayFetches
    PROVE  IInv'
  <1>0. TypeOK
    BY DEF IInv
  <1>1. TypeOK'
    BY <1>0, FaultSpends
    DEF RelayFetches, RelayAt, TypeOK, ProcessTypeOK, MigrationsTypeOK, migrationVars, Files
  <1>2. FilesLast'
    BY DEF RelayFetches, RelayAt, IInv, FilesLast, Files, migrationVars
  <1>3. GroupIsAwaited'
    BY DEF RelayFetches, RelayAt, IInv, GroupIsAwaited, GroupDone, Members, migrationVars
  <1>4. CallsAreAwaited'
    BY DEF RelayFetches, RelayAt, IInv, CallsAreAwaited, GroupDone
  <1>5. CodeFits' /\ RelayFits' /\ SignalChargesNoAttempt'
    BY DEF RelayFetches, RelayAt, IInv, CodeFits, RelayFits, SignalChargesNoAttempt
  <1> QED
    BY <1>1, <1>2, <1>3, <1>4, <1>5 DEF IInv

\* when it returns,
LEMMA RelayReturnsStep ==
    ASSUME IInv, RelayReturns
    PROVE  IInv'
  <1>0. TypeOK
    BY DEF IInv
  <1>1. TypeOK'
    BY <1>0, FaultSpends
    DEF RelayReturns, RelayAt, TypeOK, ProcessTypeOK, MigrationsTypeOK, migrationVars, Files
  <1>2. FilesLast'
    BY DEF RelayReturns, RelayAt, IInv, FilesLast, Files, migrationVars
  <1>3. GroupIsAwaited'
    BY DEF RelayReturns, RelayAt, IInv, GroupIsAwaited, GroupDone, Members, migrationVars
  <1>4. CallsAreAwaited'
    BY DEF RelayReturns, RelayAt, IInv, CallsAreAwaited, GroupDone
  <1>5. CodeFits' /\ RelayFits' /\ SignalChargesNoAttempt'
    BY DEF RelayReturns, RelayAt, IInv, CodeFits, RelayFits, SignalChargesNoAttempt
  <1> QED
    BY <1>1, <1>2, <1>3, <1>4, <1>5 DEF IInv

\* when it publishes,
LEMMA RelayPublishesStep ==
    ASSUME IInv, RelayPublishes
    PROVE  IInv'
  <1>0. TypeOK
    BY DEF IInv
  <1>1. TypeOK'
    BY <1>0, FaultSpends
    DEF RelayPublishes, RelayAt, TypeOK, ProcessTypeOK, MigrationsTypeOK, migrationVars,
        Files
  <1>2. FilesLast'
    BY DEF RelayPublishes, RelayAt, IInv, FilesLast, Files, migrationVars
  <1>3. GroupIsAwaited'
    BY DEF RelayPublishes, RelayAt, IInv, GroupIsAwaited, GroupDone, Members, migrationVars
  <1>4. CallsAreAwaited'
    BY DEF RelayPublishes, RelayAt, IInv, CallsAreAwaited, GroupDone
  <1>5. CodeFits' /\ RelayFits' /\ SignalChargesNoAttempt'
    BY DEF RelayPublishes, RelayAt, BrokerOpen, IInv, GroupIsAwaited, CodeFits, RelayFits,
        SignalChargesNoAttempt, GroupDone
  <1> QED
    BY <1>1, <1>2, <1>3, <1>4, <1>5 DEF IInv

\* and when it records a failure.
LEMMA RelayRecordsStep ==
    ASSUME IInv, RelayRecords
    PROVE  IInv'
  <1>0. TypeOK
    BY DEF IInv
  <1>1. TypeOK'
    BY <1>0, FaultSpends
    DEF RelayRecords, RelayAt, TypeOK, ProcessTypeOK, MigrationsTypeOK, migrationVars, Files
  <1>2. FilesLast'
    BY DEF RelayRecords, RelayAt, IInv, FilesLast, Files, migrationVars
  <1>3. GroupIsAwaited'
    BY DEF RelayRecords, RelayAt, IInv, GroupIsAwaited, GroupDone, Members, migrationVars
  <1>4. CallsAreAwaited'
    BY DEF RelayRecords, RelayAt, IInv, CallsAreAwaited, GroupDone
  <1>5. CodeFits' /\ RelayFits' /\ SignalChargesNoAttempt'
    BY DEF RelayRecords, RelayAt, StatementFails, TypeOK, ProcessTypeOK, IInv, CodeFits,
        RelayFits, SignalChargesNoAttempt, GroupDone
  <1> QED
    BY <1>1, <1>2, <1>3, <1>4, <1>5 DEF IInv

\* A replica beside it that migrates keeps it.
LEMMA MigratesBesideStep ==
    ASSUME IInv, NEW q \in Peer, MigratesBeside(q)
    PROVE  IInv'
  <1>0. TypeOK
    BY DEF IInv
  <1>1. TypeOK'
    <2>1. faults' \in 0..MaxFaults
      BY <1>0, FaultSpends DEF MigratesBeside
    <2>2. err' \in BOOLEAN /\ expired' \in BOOLEAN /\ signal' \in BOOLEAN /\ charged' \in BOOLEAN
      BY <1>0 DEF MigratesBeside, processVars, TypeOK, ProcessTypeOK
    <2>3. MigrationsTypeOK'
      BY <1>0, FileKeepsType
      DEF MigratesBeside, PeerNext, PeerStarts, PeerMigrates, PeerCrashes, TypeOK,
          MigrationsTypeOK, Files
    <2>4. stage' \in Stage /\ file' \in 1..4 /\ code' \in {"None", "0", "1", "Killed"}
      BY <1>0 DEF MigratesBeside, processVars, TypeOK, ProcessTypeOK
    <2>5. /\ member' \in [Worker -> {"Off", "Started", "Running", "Returned"}]
          /\ busy' \in [Worker -> 0..MaxCalls]
      BY <1>0 DEF MigratesBeside, processVars, TypeOK, ProcessTypeOK
    <2>6. /\ stopper' \in {"Off", "Waiting", "StoppingGRPC", "StoppingHTTP", "Draining",
                           "Returned"}
          /\ relay' \in {"Off", "Idle", "Publishing", "Recording", "Returned"}
      BY <1>0 DEF MigratesBeside, processVars, TypeOK, ProcessTypeOK
    <2> QED
      BY <2>1, <2>2, <2>3, <2>4, <2>5, <2>6 DEF TypeOK, ProcessTypeOK
  <1>2. FilesLast'
    BY DEF MigratesBeside, PeerNext, PeerStarts, PeerMigrates, PeerCrashes, processVars, TypeOK,
        ProcessTypeOK, MigrationsTypeOK, IInv, FilesLast, Files, Apply, CreateTables,
        CreateSagaTables, SplitReleaseTracker, Schema
  <1>3. GroupIsAwaited'
    BY DEF MigratesBeside, PeerNext, PeerStarts, PeerMigrates, PeerCrashes, processVars, IInv,
        GroupIsAwaited, GroupDone, Members
  <1>4. CallsAreAwaited'
    BY DEF MigratesBeside, processVars, IInv, CallsAreAwaited, GroupDone
  <1>5. CodeFits' /\ RelayFits' /\ SignalChargesNoAttempt'
    BY DEF MigratesBeside, processVars, IInv, CodeFits, RelayFits, SignalChargesNoAttempt,
        GroupDone
  <1> QED
    BY <1>1, <1>2, <1>3, <1>4, <1>5 DEF IInv

-----------------------------------------------------------------------------
(* The invariant *)

\* A process starts from nothing, with a database that is new or an older one.
LEMMA InitIInv == Init => IInv
  <1> SUFFICES ASSUME Init PROVE IInv
    OBVIOUS
  <1>1. service \in Service /\ NoSchema \in Schema
    BY DEF Init, MigrationsInit, NoSchema, Schema
  <1>2. MigrationsTypeOK
    <2>1. Apply(1, NoSchema) \in Schema
      BY <1>1, FileKeepsType
    <2>2. Apply(2, Apply(1, NoSchema)) \in Schema
      BY <1>1, <2>1, FileKeepsType
    <2>3. Apply(3, Apply(2, Apply(1, NoSchema))) \in Schema
      BY <1>1, <2>2, FileKeepsType
    <2> QED
      BY <1>1, <2>1, <2>2, <2>3 DEF Init, MigrationsInit, MigrationsTypeOK, Files
  <1>3. ProcessTypeOK
    <2>1. member \in [Worker -> {"Off"}] /\ busy \in [Worker -> 0..MaxCalls]
      BY MaxCallsAssumption DEF Init, AllOff, Nothing
    <2>2. /\ signal \in BOOLEAN /\ err \in BOOLEAN
          /\ expired \in BOOLEAN /\ charged \in BOOLEAN
      BY DEF Init
    <2> QED
      BY <2>1, <2>2 DEF Init, ProcessTypeOK, Stage
  <1>4. faults \in 0..MaxFaults
    BY MaxFaultsAssumption DEF Init, FaultsInit
  <1> QED
    BY <1>2, <1>3, <1>4
    DEF Init, IInv, TypeOK, FilesLast, GroupIsAwaited, CallsAreAwaited, CodeFits, RelayFits,
        SignalChargesNoAttempt, AllOff, Nothing, Worker, Server

\* Doing nothing keeps the invariant.
LEMMA StutterStep ==
    ASSUME IInv, UNCHANGED vars
    PROVE  IInv'
  BY DEF IInv, vars, migrationVars, processVars, TypeOK, ProcessTypeOK, MigrationsTypeOK,
      FilesLast, Files, GroupIsAwaited, GroupDone, Members, CallsAreAwaited, CodeFits,
      RelayFits, SignalChargesNoAttempt

\* Every step keeps it.
LEMMA NextIInv == IInv /\ [Next]_vars => IInv'
  <1> SUFFICES ASSUME IInv, [Next]_vars PROVE IInv'
    OBVIOUS
  <1>1. CASE UNCHANGED vars
    BY <1>1, StutterStep
  <1>2. CASE Starts
    BY <1>2, OpenDatabaseStep, MigrateStep, EndOfMigrationsStep, ConnectStep, ListenStep
    DEF Starts
  <1>3. ASSUME NEW w \in Worker, Works(w) PROVE IInv'
    BY <1>3, RunStep, BeginStep, FinishStep, ServerReturnsStep, ServerFailsStep,
       WorkerReturnsStep
    DEF Works
  <1>4. CASE Stops
    BY <1>4, ConsumerFailsStep, TerminateStep, BeginStopStep, ExpireStep, GracefulStopStep,
       ShutdownStep, DrainStep, WaitStep, CloseStep, ExitStep, KillStep, RestartStep
    DEF Stops
  <1>5. CASE Relays
    BY <1>5, RelayFetchesStep, RelayReturnsStep, RelayPublishesStep, RelayRecordsStep DEF Relays
  <1>6. ASSUME NEW q \in Peer, MigratesBeside(q) PROVE IInv'
    BY <1>6, MigratesBesideStep
  <1> QED
    BY <1>1, <1>2, <1>3, <1>4, <1>5, <1>6 DEF Next

\* The invariant of a process.
THEOREM LifecycleInvariance == Spec => []IInv
  BY InitIInv, NextIInv, PTL DEF Spec

\* A process serves only with the schema its statements need, however many
\* replicas migrate the same database, and wherever they crash.
THEOREM SchemaIsUsable == Spec => []ServesUsableSchema
  <1>1. IInv => ServesUsableSchema
    BY DEF IInv, TypeOK, ProcessTypeOK, MigrationsTypeOK, Service, Table, FilesLast, Files,
        ServesUsableSchema, Usable
  <1> QED
    BY <1>1, LifecycleInvariance, PTL

\* Connections are closed under nobody who was waited for.
THEOREM WorkIsWaitedFor == Spec => []StopWaitsForWork
  <1>1. IInv => StopWaitsForWork
    <2> SUFFICES ASSUME IInv PROVE StopWaitsForWork
      OBVIOUS
    <2>1. TypeOK /\ GroupIsAwaited /\ CallsAreAwaited
      BY DEF IInv
    <2> QED
      BY <2>1
      DEF TypeOK, ProcessTypeOK, Stage, Server, GroupIsAwaited, CallsAreAwaited,
          StopWaitsForWork
  <1> QED
    BY <1>1, LifecycleInvariance, PTL

\* Exit code 0 says that the process was told to stop and left nothing behind.
THEOREM CodeIsTruthful == Spec => []ExitCodeIsTruthful
  <1>1. IInv => ExitCodeIsTruthful
    <2> SUFFICES ASSUME IInv PROVE ExitCodeIsTruthful
      OBVIOUS
    <2>1. TypeOK /\ GroupIsAwaited /\ CallsAreAwaited /\ CodeFits
      BY DEF IInv
    <2> QED
      BY <2>1
      DEF TypeOK, ProcessTypeOK, Server, GroupIsAwaited, CallsAreAwaited, CodeFits,
          ExitCodeIsTruthful
  <1> QED
    BY <1>1, LifecycleInvariance, PTL

\* Being told to stop costs no message one of its attempts.
THEOREM AttemptsAreKept == Spec => []SignalChargesNoAttempt
  <1>1. IInv => SignalChargesNoAttempt
    BY DEF IInv
  <1> QED
    BY <1>1, LifecycleInvariance, PTL
=============================================================================
