----------------------------- MODULE ServerProofs -----------------------------
(***************************************************************************)
(* What holds of the process around the store, for any number of batches,  *)
(* keys and requests.  Every step of the server is a step of the store or  *)
(* leaves the store alone, so the theorems of ReleaseStoreProofs carry     *)
(* over; LifeInv says what the migration has reached at each of its        *)
(* statements, and the two together are what a start relies on.            *)
(***************************************************************************)
EXTENDS Server, CommandLedgerProofs

\* The tables of version 2 under another version number.
Migrated(v) == [version |-> v, tables |-> "confirming"]

\* Where the process is, what its migration has done, and what the file is.
LifeInv ==
    /\ file \in {EmptyFile, OldFile, CurrentFile, NewerFile}
    /\ process \in {"down", "opening", "checking", "serving", "stopping"} =>
        pending = NULL
    /\ process = "creating" =>
        pending = file /\ file \in {EmptyFile, OldFile, CurrentFile}
    /\ process \in {"altering", "stamping", "committing"} =>
        file \in {EmptyFile, OldFile, CurrentFile}
    /\ process = "altering" => pending \in {Migrated(0), OldFile, CurrentFile}
    /\ process = "stamping" => pending \in {Migrated(0), Migrated(1), CurrentFile}
    /\ process = "committing" => pending = CurrentFile
    /\ process \in {"checking", "serving", "stopping"} => file = CurrentFile

\* One step of the server, told apart by whether the process works on requests.
LEMMA ServerStep ==
    ASSUME [ServerNext]_serverVars
    PROVE  [Next]_vars
<1>1. CASE Accept
  BY <1>1 DEF Accept, Next
<1>2. CASE Work
  BY <1>2 DEF Work, Next
<1>3. CASE Killed
  BY <1>3 DEF Killed, Next
<1>4. CASE ~(Accept \/ Work \/ Killed)
  BY <1>4 DEF ServerNext, serverVars, Start, BeginMigration, CreateTables,
              AlterDeviations, StampVersion, CommitMigration, Check, OpenFails,
              Signal, Drained
<1> QED BY <1>1, <1>2, <1>3, <1>4

\* The server implements the store: opening, draining and being killed are
\* steps of the store or none.
THEOREM ServerIsStore == ServerSpec => Spec
<1>1. ServerInit => Init
  BY DEF ServerInit
<1>2. [ServerNext]_serverVars => [Next]_vars
  BY ServerStep
<1> QED BY <1>1, <1>2, PTL DEF ServerSpec, Spec

-----------------------------------------------------------------------------
(* The migration.                                                          *)

\* The statements of the migration keep LifeInv.
LEMMA MigrationKeeps ==
    ASSUME LifeInv,
           \/ BeginMigration \/ CreateTables \/ AlterDeviations
           \/ StampVersion \/ CommitMigration
    PROVE  LifeInv'
<1> USE DEF EmptyFile, OldFile, CurrentFile, NewerFile
<1>1. CASE BeginMigration
  BY <1>1 DEF LifeInv, BeginMigration, Supported, supportedSchemaVersion
<1>2. CASE CreateTables
  <2>1. /\ Created(EmptyFile) = Migrated(0)
        /\ Created(OldFile) = OldFile
        /\ Created(CurrentFile) = CurrentFile
    BY DEF Created, Migrated
  <2> QED BY <1>2, <2>1 DEF LifeInv, CreateTables
<1>3. CASE AlterDeviations
  <2>1. pending \in {Migrated(0), OldFile, CurrentFile}
    BY <1>3 DEF LifeInv, AlterDeviations
  <2>2. pending' \in {Migrated(0), Migrated(1), CurrentFile}
    <3>1. CASE pending.version < 2
      <4>1. pending' = [pending EXCEPT !.tables = "confirming"]
        BY <1>3, <3>1 DEF AlterDeviations
      <4> QED BY <2>1, <3>1, <4>1 DEF Migrated
    <3>2. CASE ~(pending.version < 2)
      BY <1>3, <2>1, <3>2 DEF AlterDeviations, Migrated
    <3> QED BY <3>1, <3>2
  <2> QED BY <1>3, <2>2 DEF LifeInv, AlterDeviations
<1>4. CASE StampVersion
  <2>1. pending \in {Migrated(0), Migrated(1), CurrentFile}
    BY <1>4 DEF LifeInv, StampVersion
  <2>2. pending' = CurrentFile
    BY <1>4, <2>1 DEF StampVersion, supportedSchemaVersion, Migrated
  <2> QED BY <1>4, <2>2 DEF LifeInv, StampVersion
<1>5. CASE CommitMigration
  BY <1>5 DEF LifeInv, CommitMigration
<1> QED BY <1>1, <1>2, <1>3, <1>4, <1>5

\* Every step keeps LifeInv.
LEMMA LifeKeeps ==
    ASSUME LifeInv, [ServerNext]_serverVars
    PROVE  LifeInv'
<1>1. CASE \/ BeginMigration \/ CreateTables \/ AlterDeviations
           \/ StampVersion \/ CommitMigration
  BY <1>1, MigrationKeeps
<1>2. CASE Start \/ Check \/ OpenFails \/ Signal \/ Drained \/ Killed
  <2>1. /\ file' = file
        /\ \/ process' = "down" /\ pending' = NULL
           \/ process' \in {"down", "opening"} /\ pending' = pending
                /\ process \in {"down", "stopping"}
           \/ process' \in {"serving", "stopping"} /\ pending' = pending
                /\ process \in {"checking", "serving"}
    BY <1>2 DEF Start, Check, OpenFails, Signal, Drained, Killed
  <2> QED BY <2>1 DEF LifeInv
<1>3. CASE Accept \/ Work \/ UNCHANGED lifeVars
  BY <1>3 DEF LifeInv, Accept, Work, lifeVars
<1> QED BY <1>1, <1>2, <1>3 DEF ServerNext, serverVars

\* LifeInv holds throughout.
THEOREM LifeInvariance == ServerSpec => []LifeInv
<1>1. ServerInit => LifeInv
  BY DEF ServerInit, LifeInv
<1> QED BY <1>1, LifeKeeps, PTL DEF ServerSpec

\* The file is of one version as a whole whenever the process ends, and only
\* the current one is served (migrate, Open).
THEOREM FileWhole == ServerSpec => []MigrationWhole
<1>1. LifeInv => MigrationWhole
  BY DEF LifeInv, MigrationWhole
<1> QED BY <1>1, LifeInvariance, PTL

\* The file of a newer program is left as it is (migrate's refusal).
THEOREM NewerKept == ServerSpec => NewerUntouched
<1> DEFINE Untouched == file = NewerFile =>
            file' = NewerFile /\ process' # "serving" /\ table' = table
<1>1. ASSUME LifeInv, [ServerNext]_serverVars PROVE [Untouched]_serverVars
  <2> SUFFICES ASSUME ServerNext, file = NewerFile
               PROVE  file' = NewerFile /\ process' # "serving" /\ table' = table
    BY <1>1
  <2>1. process \in {"down", "opening"} \/ process \notin
            {"creating", "altering", "stamping", "committing", "checking",
             "serving", "stopping"}
    BY <1>1 DEF LifeInv, EmptyFile, OldFile, CurrentFile, NewerFile
  <2>2. Start \/ OpenFails \/ Killed
    BY <2>1 DEF ServerNext, BeginMigration, Supported, supportedSchemaVersion,
                NewerFile, CreateTables, AlterDeviations, StampVersion,
                CommitMigration, Check, Accept, Work, Signal, Drained
  <2> QED BY <2>2 DEF Start, OpenFails, Killed, Crash, vars, table
<1> QED BY <1>1, LifeInvariance, PTL DEF ServerSpec, NewerUntouched

\* A server that starts, stops, is killed in the middle of requests and starts
\* again is one command ledger all the same: what the store promises does not
\* begin anew with the process, a retry after the restart included (Open,
\* cmd/server/main.go).
THEOREM ServerIsLedger == ServerSpec => ImplementsLedger /\ FirstResultStays
BY ServerIsStore, LedgerRefined, FirstResultKept, PTL

\* The audit trail, the results, the answers and what the audit query finds are
\* as sound for a server that stops and starts as for the store alone.
THEOREM ServedSound ==
    ServerSpec => [](/\ AuditTrail /\ KeysMatchAudit /\ CredentialsSound
                     /\ AnswerTrue /\ AuditFinds)
<1>1. IInv => AuditTrail /\ KeysMatchAudit /\ CredentialsSound /\ AnswerTrue
  BY DEF IInv
<1> QED BY <1>1, ServerIsStore, StoreInvariance, AuditFound, PTL

\* What a client was told before the process was stopped, killed or started
\* again, on a file of either version, is true and is told to its retries
\* afterwards, and no update is lost over it (Open, Create, Mutate).
THEOREM ToldBeforeRestart ==
    ASSUME NEW key \in Keys, NEW r
    PROVE  ServerSpec =>
            /\ [](Told(key, r) => []StandsFor(key, r))
            /\ [](DoneOnce /\ NoLostUpdate)
<1>1. Spec => [](Told(key, r) => []StandsFor(key, r))
  BY ToldForEver
<1> QED BY <1>1, ServerIsStore, FirstCommitterWins, PTL

=============================================================================
