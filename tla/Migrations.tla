----------------------------- MODULE Migrations -----------------------------
(***************************************************************************)
(* The schemas of the two databases and the embedded .sql files that every *)
(* process applies, sorted by name, each time it starts.  A file is one    *)
(* implicit transaction.  Nothing records which files have been applied,   *)
(* and replicas that start or restart apply them again to a database that  *)
(* others are using.                                                       *)
(***************************************************************************)
EXTENDS Sequences, Naturals

CONSTANT Peer    \* other replicas of the service, as far as they migrate

Service == {"subscription-service", "release-tracker"}

Table ==
    {"repositories", "subscribers", "subscriptions", "subscription_sagas", "outbox_messages"}

\* "foreignKey": subscriptions reference the repositories of this database.
Schema == [tables : SUBSET Table, foreignKey : BOOLEAN]

VARIABLES service,   \* whose process and database this is
          schema,
          peer       \* the file each peer applies next, 0 for none

migrationVars == <<service, schema, peer>>

\* A file takes a schema to another one, or is refused.
CreateRepositories(s) == [s EXCEPT !.tables = @ \cup {"repositories"}]

\* The constraint comes with the table, IF NOT EXISTS.
CreateTables(s) ==
    [tables |-> s.tables \cup {"repositories", "subscribers", "subscriptions"},
     foreignKey |-> s.foreignKey \/ "subscriptions" \notin s.tables]

CreateSagaTables(s) ==
    [s EXCEPT !.tables = @ \cup {"subscription_sagas", "outbox_messages"}]

SplitReleaseTracker(s) ==
    [tables |-> s.tables \ {"repositories"}, foreignKey |-> FALSE]

Files == IF service = "release-tracker" THEN 1 ELSE 3

Apply(n, s) ==
    CASE service = "release-tracker" -> CreateRepositories(s)
      [] n = 1 -> CreateTables(s)
      [] n = 2 -> CreateSagaTables(s)
      [] OTHER -> SplitReleaseTracker(s)

\* ALTER TABLE without IF EXISTS needs the table.
Refuses(n, s) == Files = 3 /\ n = 3 /\ "subscriptions" \notin s.tables

\* What the statements of the service need.
Usable(s) ==
    IF service = "release-tracker"
      THEN "repositories" \in s.tables
      ELSE /\ Table \ {"repositories"} \subseteq s.tables
           /\ ~s.foreignKey

NoSchema == [tables |-> {}, foreignKey |-> FALSE]

MigrationsTypeOK ==
    /\ service \in Service
    /\ schema \in Schema
    /\ peer \in [Peer -> 0..Files]

\* The database is new, or one that an earlier version has left.
MigrationsInit ==
    /\ service \in Service
    /\ schema \in {NoSchema, Apply(1, NoSchema), Apply(2, Apply(1, NoSchema)),
                   Apply(3, Apply(2, Apply(1, NoSchema)))}
    /\ peer = [q \in Peer |-> 0]

PeerStarts(q) ==
    /\ peer[q] = 0
    /\ peer' = [peer EXCEPT ![q] = 1]
    /\ UNCHANGED <<service, schema>>

\* A file that is refused ends the start, like one that fails or a crash.
PeerMigrates(q) ==
    /\ peer[q] # 0
    /\ ~Refuses(peer[q], schema)
    /\ schema' = Apply(peer[q], schema)
    /\ peer' = [peer EXCEPT ![q] = IF @ = Files THEN 0 ELSE @ + 1]
    /\ UNCHANGED service

PeerCrashes(q) ==
    /\ peer[q] # 0
    /\ peer' = [peer EXCEPT ![q] = 0]
    /\ UNCHANGED <<service, schema>>

PeerNext(q) == PeerStarts(q) \/ PeerMigrates(q) \/ PeerCrashes(q)
=============================================================================
