-------------------------------- MODULE Server --------------------------------
(***************************************************************************)
(* The life of the process around the store: it opens the database,        *)
(* migrates it in one transaction, checks every batch, serves, drains its  *)
(* requests when it is told to stop, and may end at any point.  The        *)
(* database file outlives it and may come from an older or a newer         *)
(* program.                                                                *)
(*                                                                         *)
(* The transaction of the migration is written out statement by statement: *)
(* what it has done so far is pending, and the file has it after Commit.   *)
(***************************************************************************)
EXTENDS ReleaseStore

VARIABLES
    process,  \* where the process is
    file,     \* the schema of the database file
    pending   \* the schema as the migration transaction sees it, or NULL

lifeVars == <<process, file, pending>>
serverVars == <<vars, lifeVars>>

supportedSchemaVersion == 2

\* Tables are the tables, indexes and triggers of version 1, "none" or all of
\* them; version 2 added three columns for the confirmation to deviations.
\* version is 0 without a row in schema_meta.
Schema == [version : 0 .. 3, tables : {"none", "first", "confirming"}]

EmptyFile == [version |-> 0, tables |-> "none"]
OldFile == [version |-> 1, tables |-> "first"]
CurrentFile == [version |-> 2, tables |-> "confirming"]
NewerFile == [version |-> 3, tables |-> "confirming"]

ServerInit ==
    /\ Init
    /\ process = "down"
    /\ file \in {EmptyFile, OldFile, CurrentFile, NewerFile}
    /\ pending = NULL

-----------------------------------------------------------------------------
(* Open.                                                                   *)

\* run binds the address, Open connects and sets the pragmas.  journal_mode=WAL
\* is set here, before the schema is looked at: it changes how the file is
\* written, not its schema or its rows, and is left out.
Start ==
    /\ process = "down"
    /\ process' = "opening"
    /\ UNCHANGED <<vars, file, pending>>

\* Mutant: one version too many is accepted.
Supported_NextToo(schema) == schema.version <= supportedSchemaVersion + 1

Supported(schema) == schema.version <= supportedSchemaVersion

\* BeginTx, the version row and the refusal of a newer database.
BeginMigration ==
    /\ process = "opening"
    /\ Supported(file)
    /\ process' = "creating"
    /\ pending' = file
    /\ UNCHANGED <<vars, file>>

\* CREATE IF NOT EXISTS; a table of deviations that is new has the columns.
Created(schema) ==
    IF schema.tables = "none" THEN [schema EXCEPT !.tables = "confirming"]
    ELSE schema

\* Mutant: the statements are run on the database, not in the transaction.
CreateTables_Autocommit ==
    /\ process = "creating"
    /\ pending' = Created(pending)
    /\ file' = Created(file)
    /\ process' = "altering"
    /\ UNCHANGED vars

CreateTables ==
    /\ process = "creating"
    /\ pending' = Created(pending)
    /\ process' = "altering"
    /\ UNCHANGED <<vars, file>>

\* ALTER TABLE of a version below 2; a column that is there is passed over.
AlterDeviations ==
    /\ process = "altering"
    /\ pending' = IF pending.version < 2
                  THEN [pending EXCEPT !.tables = "confirming"] ELSE pending
    /\ process' = "stamping"
    /\ UNCHANGED <<vars, file>>

StampVersion ==
    /\ process = "stamping"
    /\ pending' = IF pending.version < supportedSchemaVersion
                  THEN [pending EXCEPT !.version = supportedSchemaVersion]
                  ELSE pending
    /\ process' = "committing"
    /\ UNCHANGED <<vars, file>>

CommitMigration ==
    /\ process = "committing"
    /\ file' = pending
    /\ pending' = NULL
    /\ process' = "checking"
    /\ UNCHANGED vars

\* The part of validateDatabase that these tables can answer: the foreign keys
\* of audit events and credentials, and that a frozen batch has no credential
\* and a released one has.  The rest, quick_check, the triggers and what Get
\* and ValidateIntegrity ask of the rows that BatchReader and InspectionBatch
\* model, may turn out either way here (OpenFails).
RowsAgree ==
    /\ file.tables # "none"
    /\ \A i \in DOMAIN audit : stage[audit[i].batch] # "none"
    /\ \A b \in Batches :
        /\ serial[b] # 0 => stage[b] # "none"
        /\ stage[b] = "frozen" => serial[b] = 0
        /\ stage[b] = "released" => serial[b] # 0

\* validateDatabase finds no fault, and the handler starts to serve.
Check ==
    /\ process = "checking"
    /\ RowsAgree
    /\ process' = "serving"
    /\ UNCHANGED <<vars, file, pending>>

\* Open returns an error: the schema is newer, a statement failed, or the
\* check found a fault.  The transaction is rolled back and the process ends.
OpenFails ==
    /\ process \in {"opening", "creating", "altering", "stamping",
                    "committing", "checking"}
    /\ process' = "down"
    /\ pending' = NULL
    /\ UNCHANGED <<vars, file>>

-----------------------------------------------------------------------------
(* Serving and stopping.                                                   *)

Accept ==
    /\ process = "serving"
    /\ \E h \in Handlers, r \in Request : Receive(h, r)
    /\ UNCHANGED lifeVars

Work ==
    /\ process \in {"serving", "stopping"}
    /\ \E h \in Handlers :
        \/ Lookup(h)
        \/ Draw(h)
        \/ TransactKnown(h)
        \/ TransactCreate(h)
        \/ TransactMutate(h)
        \/ TransactRefuse(h)
        \/ Reply(h)
        \/ GiveUp(h)
    /\ UNCHANGED lifeVars

\* A signal: Shutdown takes no new request and waits for those under way.
Signal ==
    /\ process = "serving"
    /\ process' = "stopping"
    /\ UNCHANGED <<vars, file, pending>>

Quiet == \A h \in Handlers : pc[h] = "idle"

\* Shutdown has seen the last request end.
Drained ==
    /\ process = "stopping" /\ Quiet
    /\ process' = "down"
    /\ UNCHANGED <<vars, file, pending>>

\* The process is killed at any point, or the 8 s of Shutdown are over: what
\* has not been committed is gone.
Killed ==
    /\ process # "down"
    /\ \/ Crash
       \/ Quiet /\ UNCHANGED vars
    /\ process' = "down"
    /\ pending' = NULL
    /\ UNCHANGED file

ServerNext ==
    \/ Start
    \/ BeginMigration
    \/ CreateTables
    \/ AlterDeviations
    \/ StampVersion
    \/ CommitMigration
    \/ Check
    \/ OpenFails
    \/ Accept
    \/ Work
    \/ Signal
    \/ Drained
    \/ Killed

ServerSpec == ServerInit /\ [][ServerNext]_serverVars

-----------------------------------------------------------------------------
(* Properties.                                                             *)

\* Whenever the process ended during a migration, the file is of one version
\* as a whole, and requests are only served on the current one.
MigrationWhole ==
    /\ file \in {EmptyFile, OldFile, CurrentFile, NewerFile}
    /\ process \in {"serving", "stopping"} => file = CurrentFile

\* The file of a newer program is not served, and its schema and its rows are
\* not changed.
NewerUntouched ==
    [][file = NewerFile =>
        file' = NewerFile /\ process' # "serving" /\ table' = table]_serverVars

=============================================================================
