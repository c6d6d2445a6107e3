------------------------------- MODULE Startup -------------------------------
(***************************************************************************)
(* Migrate of internal/database/migrate.go, in instances of the service    *)
(* that start against one database, die and start again.  goose runs each  *)
(* migration and the insertion of its version into goose_db_version in one *)
(* transaction.  No lock is asked of it, and goose_db_version may hold two *)
(* rows of one version: what prevents a second application is that the     *)
(* statements of a migration (CREATE TABLE ...) fail when they are there.  *)
(* A statement that waits for another transaction is one executed later.   *)
(* A process may die after it has sent a COMMIT, which then takes effect,  *)
(* or not, whenever the database gets to it.                               *)
(***************************************************************************)
EXTENDS Integers

CONSTANTS
  Instance,    \* processes that use one database
  Latest,      \* the embedded migrations are 1 .. Latest
  MaxDeaths    \* bound on deaths: crashes, signals, lost connections

ASSUME StartupAssumption == Latest \in Nat /\ MaxDeaths \in Nat

VARIABLES
  versioned,  \* goose_db_version exists, with its row of version 0
  recorded,   \* the number of its rows, by version
  schema,     \* the versions whose tables and types are in the database
  at,         \* where each instance is
  todo,       \* the migrations that it found pending
  orphans,    \* transactions of the dead whose COMMIT was sent: versions, or 0
              \* for the creation of goose_db_version
  alone,      \* HISTORY: instances that had Migrate to themselves so far
  deaths      \* HISTORY: deaths so far

vars == <<versioned, recorded, schema, at, todo, orphans, alone, deaths>>
database == <<versioned, recorded, schema>>

Version == 1 .. Latest
Migrating == {"ensuring", "creating", "listing", "applying"}

TypeOK ==
  /\ versioned \in BOOLEAN
  /\ recorded \in [Version -> Nat]
  /\ schema \subseteq Version
  /\ at \in [Instance -> Migrating \cup {"down", "serving", "failed"}]
  /\ todo \in [Instance -> SUBSET Version]
  /\ orphans \subseteq Version \cup {0}
  /\ alone \subseteq Instance
  /\ deaths \in 0 .. MaxDeaths

Init ==
  /\ versioned = FALSE /\ recorded = [v \in Version |-> 0] /\ schema = {}
  /\ at = [i \in Instance |-> "down"] /\ todo = [i \in Instance |-> {}]
  /\ orphans = {} /\ alone = {} /\ deaths = 0

-----------------------------------------------------------------------------
(* Plausible bugs, for the mutation runs.                                  *)

PendingPastLatest == {v \in 1 .. Latest + 1 : v \in Version => recorded[v] = 0}
RepeatableScript(v) == TRUE
ErrorIgnored == "serving"
\* A migration outside a transaction: its version may not be recorded.
AppliesOutsideTransaction(v) ==
  /\ schema' = schema \cup {v}
  /\ recorded' \in {recorded, [recorded EXCEPT ![v] = @ + 1]}

-----------------------------------------------------------------------------
Pending == {v \in Version : recorded[v] = 0}

\* CREATE TABLE and CREATE TYPE of 00001_init.sql fail if the object exists.  It
\* is the only migration so far: of later ones the model assumes the same.
Executes(v) == v \notin schema

\* Where run() goes when Migrate returns an error.
OnError == "failed"

\* One transaction: the statements and the insertion of the version.
Applies(v) ==
  /\ schema' = schema \cup {v}
  /\ recorded' = [recorded EXCEPT ![v] = @ + 1]

\* goose applies the lowest version first.
NextOf(i) == {v \in todo[i] : \A w \in todo[i] : v <= w}

\* The transactions whose COMMIT i may have sent, without an answer yet.
Sent(i) ==
  IF at[i] = "creating" THEN {0} ELSE IF at[i] = "applying" THEN NextOf(i) ELSE {}

\* A process starts, or is started again after it died or failed.
Start(i) ==
  /\ at[i] \in {"down", "failed"}
  /\ at' = [at EXCEPT ![i] = "ensuring"]
  /\ alone' = IF orphans = {} /\ \A j \in Instance : at[j] \notin Migrating
                 THEN {i} ELSE {}
  /\ todo' = [todo EXCEPT ![i] = {}]
  /\ UNCHANGED <<database, orphans, deaths>>

Ensure(i) ==
  /\ at[i] = "ensuring"
  /\ at' = [at EXCEPT ![i] = IF versioned THEN "listing" ELSE "creating"]
  /\ UNCHANGED <<database, todo, orphans, alone, deaths>>

\* goose looks again when somebody else has created its table meanwhile.
CreateVersionTable(i) ==
  /\ at[i] = "creating"
  /\ versioned' = TRUE
  /\ at' = [at EXCEPT ![i] = IF versioned THEN "ensuring" ELSE "listing"]
  /\ UNCHANGED <<recorded, schema, todo, orphans, alone, deaths>>

List(i) ==
  /\ at[i] = "listing"
  /\ todo' = [todo EXCEPT ![i] = Pending]
  /\ at' = [at EXCEPT ![i] = "applying"]
  /\ UNCHANGED <<database, orphans, alone, deaths>>

\* The first migration that fails ends Migrate.
Apply(i) ==
  /\ at[i] = "applying"
  /\ \E v \in NextOf(i) :
       \/ /\ Executes(v) /\ Applies(v)
          /\ todo' = [todo EXCEPT ![i] = @ \ {v}]
          /\ UNCHANGED at
       \/ /\ ~Executes(v)
          /\ at' = [at EXCEPT ![i] = OnError]
          /\ UNCHANGED <<recorded, schema, todo>>
  /\ UNCHANGED <<versioned, orphans, alone, deaths>>

Serve(i) ==
  /\ at[i] = "applying" /\ todo[i] = {}
  /\ at' = [at EXCEPT ![i] = "serving"]
  /\ UNCHANGED <<database, todo, orphans, alone, deaths>>

\* The process dies, is told to stop or loses the database.  Its transaction is
\* rolled back, unless its COMMIT is on the way.
Die(i) ==
  /\ at[i] \in Migrating \cup {"serving"} /\ deaths < MaxDeaths
  /\ at' = [at EXCEPT ![i] = "down"]
  /\ orphans' \in {orphans, orphans \cup Sent(i)}
  /\ deaths' = deaths + 1
  /\ UNCHANGED <<database, todo, alone>>

\* The database ends what a dead instance has left: by its COMMIT, or without it.
EndOrphan(t) ==
  /\ t \in orphans
  /\ orphans' = orphans \ {t}
  /\ \/ t = 0 /\ versioned' = TRUE /\ UNCHANGED <<recorded, schema>>
     \/ t # 0 /\ Executes(t) /\ Applies(t) /\ UNCHANGED versioned
     \/ UNCHANGED database
  /\ UNCHANGED <<at, todo, alone, deaths>>

Next ==
  \/ \E i \in Instance : \/ Start(i) \/ Ensure(i) \/ CreateVersionTable(i) \/ List(i)
                         \/ Apply(i) \/ Serve(i) \/ Die(i)
  \/ \E t \in Version \cup {0} : EndOrphan(t)

Spec == Init /\ [][Next]_vars

-----------------------------------------------------------------------------
\* "goose tracks applied versions": whoever starts, overlaps and dies, also with a
\* COMMIT on the way, a version is recorded once if its objects are there and not
\* at all otherwise, and versions are applied in order.
VersionsTrackSchema ==
  \A v \in Version :
    /\ recorded[v] = IF v \in schema THEN 1 ELSE 0
    /\ v \in schema => 1 .. v \subseteq schema

\* An instance that serves requests has its tables, even if it did not create them.
ServingHasSchema ==
  \A i \in Instance : at[i] = "serving" => schema = Version

\* "Safe to run on every startup": however often Migrate was interrupted or failed
\* before, it does not fail in an instance that has it to itself, which means that
\* no other instance runs it meanwhile and that the database has ended every
\* transaction of the dead before the instance starts.  Without the second, a
\* COMMIT that arrives late can make the only instance fail, as a race would; the
\* next start heals both.
AloneNeverFails ==
  \A i \in alone : at[i] # "failed"

-----------------------------------------------------------------------------
(* Why they hold.                                                          *)

\* What is not in the database is on the list of everyone who applies migrations,
\* and what comes before a late COMMIT is in the database.
NothingSkipped ==
  /\ \A i \in Instance : at[i] = "applying" => Version \ schema \subseteq todo[i]
  /\ \A t \in orphans : 1 .. t - 1 \subseteq schema

\* An instance that has Migrate to itself meets nobody's commits.
AloneUndisturbed ==
  \A i \in alone :
    /\ at[i] \in Migrating =>
         orphans = {} /\ \A j \in Instance \ {i} : at[j] \notin Migrating
    /\ at[i] = "applying" => todo[i] \cap schema = {}

\* The inductive invariant.
StartupInv ==
  /\ VersionsTrackSchema /\ ServingHasSchema
  /\ NothingSkipped /\ AloneUndisturbed /\ AloneNeverFails
=============================================================================
