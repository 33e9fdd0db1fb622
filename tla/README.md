# Verification of the stage rigging inspection and release service

The service takes a rigging batch from its plan to a release credential: points
are registered and locked, each point is load tested, failures become deviations
that are remediated and retested, a technical lead approves the batch, which
freezes a snapshot, and signs a credential with a serial number. This directory
holds TLA+ specifications of that service, TLC configurations that check them on
small instances, and proofs, checked by TLAPS, of what holds on all instances.

File references are to the repository (`src/`).

## 1. The system

| Part | State | Operations | Works with |
|---|---|---|---|
| aggregate (`internal/domain`) | status, points, tests, deviations, snapshot, review, credential | `UpdateDetails`, `AddPoints`, `Lock`, `AddTest`, `SubmitRemediation`, `CloseDeviation`, `UpgradeSeverity`, `ConfirmResponsibility`, `Freeze`, `IssueCredential`; `ValidateIntegrity`, `Progress`, `VerifyCredential` read it | changed in memory by a function the service hands to the store |
| use cases (`internal/application`) | none | one method per command; `Issue` makes three calls to the store; queries: page, preview, verification, history, audit, precheck | calls the store, draws identifiers and the time |
| store (`internal/store`) | SQLite tables, one connection | `Create`, `Mutate`, `LookupIdempotency`, `NextCredentialSerial`, `Get`, `List`, `ListFiltered`, `ListAudit`, `GetCredential`, `Open` (migrate, check all batches) | transactions; every load and every commit runs `ValidateIntegrity` |
| HTTP API (`internal/httpapi`) | none | routing, decoding, error codes, a 15 s deadline per request | one goroutine per request |
| server (`cmd/server`) | process | start, serve, shutdown within 8 s, selfcheck | |
| workbench (`internal/webui`) | none | embedded static files | the API |

What makes it hard:

* **Long protocols.** A deviation can be confirmed, upgraded, remediated,
  re-opened by a failed retest, remediated again and closed, while other
  deviations of the same point exist; five commands each write the status on
  their own; and a strict integrity check runs after each of them.
* **Concurrent clients.** Requests run in goroutines. One connection serialises
  transactions, but `Issue`, `Get`, `ListFiltered` and the audit query use it
  several times, and other requests get in between.
* **Retries.** A client that lost an answer sends the command again, with the
  same idempotency key, and with the old version or with one it read meanwhile.
* **Deadlines and crashes.** A request may end between any two uses of the
  database. What is not committed is gone; what autocommitted stays.
* **Boundaries.** 80 %, 95 %, 110 % and 5 % limits, and two of them compound.

What makes it correct:

* aggregate: a failed point is always held by a deviation that is not closed;
  such a deviation is exactly what blocks; a closed one was earned; what is
  released is what was tested, and it stays so;
* store: every version leaves one audit event, every key takes effect at most
  once, a success that is told is true, every release has a serial of its own;
* reads: what is answered on the current version is the batch as it stands, and
  what is answered on a mixed read does not mislead its client;
* pool: nobody waits for itself; listing: every batch appears once;
* server: the file it leaves behind is of one version as a whole, and what it
  told its clients stays true over a restart.

## 2. Modules

    LoadRules            limits on loads (pure operators)
      InspectionBatch    the aggregate and its commands ---implements--> ReleaseGate
        MCInspectionBatch        instances for TLC
        InspectionBatchProofs    inductive invariant and safety theorems
          ReleaseGateProofs      the refinement
      BatchReader        a read of seven queries next to the commands
        MCBatchReader            instances for TLC
        BatchReaderProofs        what a mixed read may be trusted for
    ConnectionPool       one connection, waiters, deadlines
      MCConnectionPool           instances for TLC
      ConnectionPoolProofs       inductive invariant and safety theorems
    ReleaseStore         transactions, keys, serials, audit --implements--> CommandLedger
        MCReleaseStore           instances for TLC
        ReleaseStoreProofs       inductive invariant and safety theorems
          CommandLedgerProofs    the refinement, the ledger's promise, the audit query
      Server             opening, migration, serving, stopping around the store
        MCServer                 instances for TLC
        ServerProofs             refinement of ReleaseStore and CommandLedger, and theorems
    BatchPaging          the listing, walked page by page
      MCBatchPaging              instances for TLC
      BatchPagingProofs          inductive invariant and safety theorems

### InspectionBatch

Every command runs inside `SQLite.Mutate` (write.go:61): load, change in memory,
`ValidateIntegrity`, save, commit, or roll back. A command is therefore one
action, and it is two definitions: the function of `internal/domain` with the
service's closure (its guard is their conditions, its primed variables their
assignments), and that function with `ValidateIntegrity'`. A result that fails
the check is rolled back, which is a stuttering step, as is every refusal. The
two are kept apart so that one can ask what the check refuses that the function
has accepted. `DeviationsIntegrity` leaves out the checks of `ClosedAt`,
`ConfirmedBy` and `ConfirmedAt` (integrity.go:82-88): the code writes and clears
them together with the closing test and the confirmation flag, which stand for
them.

| Variable | Code |
|---|---|
| `details` | venue, zone, performance time and owner, as one value |
| `status` | `b.Status` |
| `points`, `locked` | `b.Points`, those whose `LockedAt` is set |
| `tests` | `b.Tests`; a test is named by its index, which stands for its random id |
| `deviations` | `b.Deviations`, named by index; evidence is a Boolean, the closing test its index, 0 for none |
| `snapshot`, `review`, `credential` | the three records, `NULL` when absent |

| Action | Code |
|---|---|
| `Init` | `NewBatch` |
| `UpdateBatch` | `UpdateDetails` |
| `AddPoint` | `AddPoints` of any number of rows, one included; `Registrable` is its guard |
| `LockBatch` | `Lock` |
| `RecordTest` | `AddTest`; the severity and the confirmation of a new deviation are chosen by the recorder |
| `Remediate` | the service's guard on the confirmed owner (`OwnerConfirmed`), then `SubmitRemediation` |
| `Retest` | `CloseDeviation`, passed and failed |
| `UpdateDeviation` | `ReviseDeviation`: the service's function with `UpgradeSeverity` and `ConfirmResponsibility`; the status is set to blocked without being looked at |
| `Approve` | `Freeze` |
| `Issue` | `IssueCredential`; the name is compared after trimming and stored as typed |

Abstractions. Texts are model values; `Fold` gives the class of a text under
`strings.EqualFold`, `Trim` is `strings.TrimSpace`, and texts that fail their
length checks are never entered. SHA-256 is taken as free of collisions
(`Digest` tags the content). Times of events are left out: no guard reads them,
and where the order of rows depends on one (`recorded_at`), BatchReader lets the
rows come in any order.
Loads are integers with comparisons scaled to integers. The code multiplies
`float64` values by 0.05, 0.8, 0.95 and 1.10, so a load exactly on a limit can
fall on either side there by one unit in the last place; the models take the
limit exactly.

### BatchReader

`loadBatch` (read.go:39) makes seven queries. Inside `Mutate` they run in one
transaction; for a query of a client each commits on its own, so commands commit
between them, and the integrity check judges what was put together. The module
extends InspectionBatch: `Commit` is its `Next`, one command between two queries.

| Variable | Code |
|---|---|
| `loaded` | how many of the queries have been made |
| `testRows` | the tests of the batch in the order `loadTests` asks for |
| `view` | the aggregate under construction in `loadBatch` |
| `behind` | how many commands have committed since the row with the version was read |

| Action or operator | Code |
|---|---|
| `Load` | the next query, in the order of read.go:39-129 |
| `Stop` | the reply, or the deadline between two queries |
| `Returned`, `FalseAlarm` | `ValidateIntegrity` of the view, and `ErrCorrupt` |
| `NothingInTheWay` | `ApprovalPreview` with no blocking reason |
| `Verification` | `VerifyBatch` |
| `Told`, `TestAt`, `LatestRow` | `TestHistory` of one point: its rows in the list, the test of a row, and the row that the loop takes for the latest attempt |
| `PrecheckClean` | `PrecheckPoints` with no fault in any row |

`loadTests` orders by `recorded_at, id` (read.go:115), and this need not be the
order of the attempts: the text of a time drops trailing zeros (helpers.go:8), a
clock may be set back, and at equal times a random id decides. So `Commit` puts
the row of a new test at any place of `testRows`. Rows are never updated, so
those that are there keep their order. What `loadBatch` and the history do with
the list does not depend on the order, since an attempt carries its number, and
that is what `HistoryTrue` states: whatever the order, the history tells the
attempts 1 to n, the latest one is attempt n, and a later read tells the same
rows in the same order (README.md:63).

`PrecheckKey` is `ToLower(TrimSpace(.))`, while `AddPoints` compares with
`EqualFold`; the instance has codes and hoists that clash in letter case. A
preview of a view that was read in draft is left out of `PreviewTrue`: the row
is read before the points, so a draft may be shown with points it got later.

### ReleaseStore

| Variable | Code |
|---|---|
| `stage`, `version` | `inspection_batches.status`, reduced to none, open, frozen, released, and `.version` |
| `results` | `idempotency_results` by key |
| `audit` | `audit_events` by id |
| `sequence` | `credential_sequence`, an AUTOINCREMENT column |
| `serial` | `release_credentials.serial_number` by batch |
| `pc`, `request`, `drawn`, `answer` | a request goroutine: where it is, its command, the serial it holds, its reply |

The database has one connection (sqlite.go:25) and a transaction holds it from
`BeginTx` to `Commit`, so `Create` and `Mutate` are one step each
(`TransactKnown`, `TransactCreate`, `TransactMutate`, `TransactRefuse`).
`Issue` is three: `Lookup`, `Draw` (both autocommit) and the transaction.
`GiveUp` ends a request before any of its steps (the deadline of
server.go:59, a client that hangs up), `Crash` ends all of them; both keep the
tables and nothing else. A reply may be lost: `Reply` stands for both. A client
may send a key again, with the same command or with another one, and may name a
batch that is not there or a version ahead of the batch (`Receive`); only an
identifier that was just drawn and told nobody is out of its reach
(`Undisclosed`).
The stage "open" covers draft to pending_review. `Changes` are the actions that
leave a batch there; the code has nine, and a key tells them apart. The aggregate
may refuse any command at any stage (`TransactRefuse`), and InspectionBatch says
which it accepts. `Record` leaves out that the key is the primary key of
`idempotency_results` (migrate.go:49): a second row for a key would fail in the
code, so the properties here rest on the lookup alone.
`ListAuditFiltered` is the audit query for an action and a version: the newest
`AuditCap` events of the batch (500 in the code), and of those the ones that
match.

### Server

| Variable | Code |
|---|---|
| `process` | down, opening, the statements of `migrate`, checking, serving, stopping |
| `file` | schema version and tables of the database file |
| `pending` | the same as the transaction of `migrate` sees it |

`Start`, `BeginMigration`, `CreateTables`, `AlterDeviations`, `StampVersion`,
`CommitMigration` and `Check` are `Open` (sqlite.go, migrate.go, integrity.go) in
its order; `OpenFails` is an error at any of them. `Accept` lets the store
receive a request while the process serves; `Work` lets it go on while it serves
or drains; `Signal` and `Drained` are `Shutdown`; `Killed` ends the process
anywhere, also when the 8 s of `Shutdown` are over, and is `Crash` for the
requests under way. A start may find an empty file, a file of version 1, of
version 2 or of a newer program.

`Check` needs what `validateDatabase` asks of the tables of the store
(`RowsAgree`: foreign keys, and the credential that fits the status). The rest of
the check, that is `quick_check`, the triggers, and `Get` with the whole
`ValidateIntegrity` of every batch, may go either way (`OpenFails`), so nothing
is said here of whether a start succeeds. What the start's `Get` makes of a
batch is in BatchReader: it is a read with no command in between, and
`ReadCurrent` says that such a read gives the batch and no error. `Open` sets
`journal_mode=WAL` before it looks at the version; this changes the header of a
newer program's file too, but not its schema or rows, and is left out.

### BatchPaging

| Variable | Code |
|---|---|
| `rows` | `performance_at` and the risk that `Progress` gives, by batch |
| `now` | the clock that `ListBatchesPage` reads (batches.go:75) |
| `walk`, `cursor` | a client that follows `nextCursor` from the first page |
| `shown` | on how many pages of the walk each batch was; two stands for more |
| `changes` | changes by others during the walk, up to `MaxChanges` |
| `settled`, `aligned` | history variables: the batches that were there all along with one time; whether every page so far was cut in the order of the query |

`LastPage`, `NextPage` and `CursorRefused` are one call of `ListBatchesPage` over
`ListFiltered`: the rows behind the cursor in the order of the time's text and
of the id, one more than the page holds, sorted by risk, cut, and the cursor
taken from the last one. `Create`, `Reschedule`, `ChangeRisk` and `Tick` go on
around it. Times are milliseconds; `TextRank` orders their RFC 3339 texts, which
drop trailing zeros (helpers.go:8). `MinutesSince` truncates towards zero as the
conversion in `ProgressAt` does. A page is one step: that its rows wait for the
connection is the subject of ConnectionPool.


### ConnectionPool

| Variable | Code |
|---|---|
| `at` | where a request goroutine is: between two calls (`ready`), in `DB.conn` (`waiting`), in a query or a transaction (`querying`), replied with what the handler decided (`answered`) or with an error of the database or the context (`failed`) |
| `kind`, `todo` | its route, and the connection demands its handler has still to make |
| `expired` | its context is done (server.go:59) |
| `rows` | the goroutines with `sql.Rows` open across other calls |
| `holder` | who has the only connection (sqlite.go:25) |

A request is its script of demands: `use` takes the connection for one query or
transaction and returns it, `open` keeps it for rows, `close` returns it.
Commands and `GetCredential` make one use, `Issue` three, a query of one batch
one for each of its tables, the audit one more, and a listing opens its rows and
calls `Get` for each of them. `Take`, `Queue`, `HandOver` and `Cut` are what
database/sql does: a free connection is taken, a returned one goes to any
waiter, the rows of an ended context are closed on its behalf. `End` is a return
before the script's end, deferred closes included; `Decide`, `QueryFails`,
`CallFails` and `GiveUp` are its reasons. `List` and the unfiltered `ListAudit`
have no route and no script.

### Abstract specifications

`ReleaseGate` is the promise of a batch without tests, deviations or digests:
points are planned, pass or fail, are held while a failure is unresolved, and
the batch is certified only when all planned points stand passed, none is held
and the batch is not condemned. `CommandLedger` is the promise of the store
without transactions, retries or sequence tables: each batch is a list of
commands that begins with its creation, a key occurs in one list once, a released
batch takes no more and has a serial of its own. That the ledger as specified
keeps this promise is proved of it (`LedgerPromise`), so it means something that
the store implements it.

## 3. Runs

| Run | Instance | Question |
|---|---|---|
| `batch_main` | 2 points, 4 readings (a pass on the 95 % limit, a failure 1 below it, a retest exactly 5 % above the target and one 10 % below), 3 tests, 2 leads and a name with a blank behind it | the aggregate's safety properties, `IInv`, that no accepted work is stranded, and `ImplementsGate` |
| `batch_reads` | 5 candidate rows (a clash of codes and one of hoists in letter case, one row above 80 %), 2 readings, 2 tests, up to 3 commands during a read, each new test at any place of the list | registration in any grouping, and what a read, preview, verification, history and precheck may be trusted for |
| `reads_alarm` | 1 point, 1 command during a read | expected violation, finding 4 |
| `batch_critical` | 1 point, 3 tests | expected violation, finding 1 |
| `store_retry` | 1 batch, 2 handlers, 4 keys, two changes, keys reused, versions up to 1 behind or ahead | retries, concurrent writers, deadlines, crashes, `IInv`, `ImplementsLedger` |
| `store_two` | Server around 2 batches, 2 handlers, 6 keys, each key once, an audit limit of 2, all four files | serial numbers of batches released at the same time; migration, restart after every crash, the audit query |
| `store_order` | the same store without the server | expected violation, finding 3 |
| `paging` | 4 batches on pages of 2, 3 times, 2 risks, 2 clock readings, 1 change | what a walk through the pages shows, and that it ends |
| `paging_stable` | the same with one clock reading and no change | expected violation, finding 5 |
| `pool_deadline` | 2 requests of every kind, listings of 0 to 2 batches, a `Get` of 2 queries | leaks, who may wait for itself, and that the deadline ends every request |
| `pool_answers` | 3 requests, commands and listings of no batch | every request is answered as long as no deadline passes and no query fails |
| `pool_listing` | 2 requests, listings of 0 or 1 batch | expected violation, finding 2 |

Bounds, and why they are enough. `MaxTests`: three tests on two points allow a
failure, a failed and a passed retest, so that a deviation is re-opened and
then closed; or two open deviations at once, on one point or on two, and the
retest of one of them. Longer histories are the subject of the proofs, which
bound neither tests nor points. `MaxPerCall` replaces 200 by 2, which still
separates one call from several. `MaxVersion` 3 is a release without a change
(create, approve, issue) or an approval after one, and leaves a key over in
`store_retry`; the two changes there are told apart by their action only. Longer
lists of commands are the subject of the proofs. `MaxSerial` 2
or 3 is one more serial than the last batch needs, so a serial can be lost.
`AuditCap` 2 instead of 500 is less than the versions of a batch, so that
events are pushed out of the answer. `MaxBehind` 3 lets a command fall between
any two of a reader's queries three times over: a failed test, its remediation
and retest, or approval and issue, fit into one read. In `paging` two pages and
a cursor are the fewest that can skip or repeat a batch; the times are two
whose texts sort in the other order (59 s and 59.5 s) and one exactly 24 h and
one minute ahead, where the mark "soon" begins; one change moves a batch across
the cursor. `MaxStale` 1 lets a client name the last version, the one before, or
the next one, which may become the last before the command is looked at, and
version 1 of a batch that is not there; others are refused the same way.
`Changes`, empty there, and `Reuse` keep `store_two` small: what retries do is the question of `store_retry`. Two handlers are the
fewest that race; proofs cover any number. `pool_answers` has three, the fewest
of which two can pass a third one over, and short requests in exchange;
`GetQueries` 2 instead of 7 still has a first query and a later one. The
store's runs use symmetry of batches, keys, handlers and changes, which is sound since
none of their properties is a liveness property; the pool's runs use none.

Deadlock is not checked where the instance really stops: a batch is final once
released, or when `MaxTests` are used; in `store_two` and `store_order` the
keys run out. In `store_retry` a known key can always be sent again, and
deadlock is checked.

Deadlock is also not checked in `pool_listing`, where it is the question; in the
other two runs of the pool it is.

Fairness. The properties of the aggregate, its readers, the store and the
server are safety properties; that no registration is turned down and the
integrity check strands no accepted work (`NoStrandedWork`) is stated with
`ENABLED` at each reachable state. The pool
has liveness properties. Its `Spec` assumes that a goroutine that can go on does
(`WF` of `Work`: the Go scheduler, and queries that return), that an ended
context is noticed (`WF` of `Cut` and `GiveUp`), and that a waiter is not passed
over for ever (`SF` of `Granted`: database/sql draws the waiter from a map in
random order; without this assumption two other requests can starve a third
one). `TimedSpec` adds that the 15 s of a request that goes on pass; with it
every request ends, whatever it waits for. `RequestsAnswered` and
`ListingsAnswered` speak of behaviours in which no deadline passes and no query
fails, so that an answer is never owed to the deadline. In `paging`, `WalkEnds`
assumes that a client with a cursor asks for the next page (`WF` of `Walking`);
without such a client no walk ends. Nothing is assumed of the changes around it
or of the clock.

Findings:

1. **A critical deviation ends in a dead end** (`batch_critical`,
   batch.go:276, batch.go:310, integrity.go:98). README.md:10 of the repository
   says that a passed retest closes the deviation. `Progress` counts critical
   deviations also when they are closed, so `refreshStatus` answers "blocked";
   the integrity check wants an open deviation behind that status; so the
   passed retest of the last open deviation is rolled back and answered with
   `corrupt_data`. `RetestAccepted` proves that no other retest is, and
   `WorkAccepted` that no other work a batch is ready for is refused.
   `CriticalNeverReleased` proves how long it lasts: a batch that has had one
   critical deviation is blocked, without a credential, for ever.
2. **A listing waits for itself** (`pool_listing`, read.go:293, sqlite.go:25).
   `ListFiltered` calls `Get` for each row while its own rows are open, and they
   hold the only connection. README.md:53 promises the list of batches; a
   listing that matches one batch or more hangs until its deadline and fails,
   and every other request waits with it. `OnlyListingsHoldAndWait` and
   `OnlyListingsBlock` prove that no other request does this, and `RequestsEnd` shows that the service
   recovers. `List` and `validateDatabase` close their rows before they call
   `Get`.
3. **Serial numbers can be issued out of order** (`store_order`,
   releases.go:28). README.md:12 promises increasing serials. The serial is
   drawn before the transaction that uses it. They stay unique
   (`CredentialsSound`, proved).
4. **A read can report a sound batch as corrupt** (`reads_alarm`, read.go:71).
   errors.go:11 says that `ErrCorrupt` is a stored aggregate that fails its
   integrity check. Let a reader read the batch row, the points and the tests,
   then let a failed test commit, then let the reader read the deviations: the
   new deviation refers to a test the reader has not seen, and the client gets
   500 `corrupt_data` for a batch that was sound throughout. `ReadCurrent`
   (proved) shows that this needs a command during the read.
5. **The cursor is not stable** (`paging_stable`, batches.go:105). README.md:53
   promises a stable cursor. A page is cut, and its cursor taken, after the rows
   were sorted by risk, while the next page continues by time and id. In the run
   a batch of high risk is lifted onto the first page over one that sorts before
   it in the query; the cursor is that of the last batch left on the page, and
   the second page shows the first batch again, in a listing that nobody
   changes. With two batches of high risk the one they push off the first page
   is never shown. `EachOnce` therefore has the condition `aligned` (every page
   was cut in the order of the query) and says what holds then;
   `OrderedRisksStable` proves that the cursor is stable while no batch is
   riskier than one the query lists before it, and `EqualRisksStable` that this
   is so while all batches have the same base risk; `CursorAdvances` and
   `WalkEnds` hold in any case. (The rows of such a page also wait for their connection,
   finding 2; this one is about the pages once they are answered.)

Every property of a passing run is paired in PROJECT.json with a mutant, a
plausible slip in the code such as a dropped guard or a signed difference, that
makes TLC refute it.

## 4. Proofs

All theorems hold for every value of the constants that satisfies the named
assumptions: `LoadTyping`, `BoundTyping`, `TrimTyping`, `PointIdsFinite`,
`NullApart` (InspectionBatch), `MaxBehindTyping` (BatchReader), `ChangesApart`,
`BoundsTyping`, `NullApart` (ReleaseStore), `PagingTyping`, `NullApart` (BatchPaging) and `PoolTyping`
(ConnectionPool). TLC evaluates these assumptions in every run of the module.

**InspectionBatchProofs.** `Invariance` proves `IInv`. `TypeOK` and the check of
the code are not inductive with the properties alone: one also needs that the
attempts of a point grow along the list (so that a new test is the latest one),
that records exist exactly at their stages, that a deviation has evidence
exactly while it is not open, and a closing test exactly when it is closed
(`EvidenceCurrent`, with a confirmed owner behind the evidence, so that a closed
deviation was confirmed), and that from pending_review on everything is clear. The pivot is `NewTestAppended`: a test appended to the
list is the latest of its point and changes the latest of no other point. There
is one lemma per action. From `IInv` follow `TypeCorrect`, `FailuresBlock`,
`ClosuresProven`, `CriticalForever`, `SnapshotFaithful`, `SafeLoad` (by
arithmetic on the two tolerances), `ReleaseSound`, and the action properties
`FinalAfterFreeze` and `DeviationsEvolve`. The last one says of each step that a
deviation that is opened or re-opened has lost its evidence and its closing test,
and that one is closed by the test of that step on evidence it had before. What
these two say of a step
(`StepFinal`, `StepKeepsDeviations`) also gives what holds from a moment on:
`CredentialForEver`, that an issued credential stays the batch's and verifies as
valid for ever, and `CriticalNeverReleased` (finding 1). `RegisterDistinct` has an
induction of its own, and `RegisterInParts` proves that a call with several rows
may be split in two, in either order, which is why `AddPoints` takes a set
instead of a list.

The same module proves what the integrity check does to commands that the
aggregate has carried out. `OneLineDecides`: of everything `ValidateIntegrity`
looks at, only the line "a blocked batch has an open deviation"
(integrity.go:98) can refuse one. The proof shows that each command's function
keeps every other part of the check, so the checks behind the load are
redundant with the functions, with that one exception. From it, `WorkAccepted`
(registrations, readings, remediations, confirmations, approvals and releases
are never refused) and `RetestAccepted` (exactly which retest is). `StagesOfStore`
proves what ReleaseStore assumes of the aggregate: which stage accepts what, and
which command moves it.

**ReleaseGateProofs.** `Refinement`: every command maps to a step of
`ReleaseGate` or a stutter. A passed test or retest is `Pass`, a failed one
`Fail`, an upgrade to critical `Condemn`; `OpenDeviationBlocks` and
`ClearFromReview` are what make the phases agree. `GatePromise` proves of the
abstract specification that what is ready, certified or released is clear.

**ReleaseStoreProofs.** `StoreInvariance` proves `IInv` of the store for any
number of batches, keys and handlers. The strengthening is `DrawnFresh` (a serial
that was drawn is behind the sequence, unissued, and nobody else's until its
handler has answered) and `HandlerState`. From it follow `AuditComplete`,
`KeysOnce`, `SerialsUnique`, `AnswersTrue` and `FirstResultKept`, and
`SerialsAscend`, how far the promise of increasing serials does hold: a drawn
serial is larger than all that were in use then (compare finding 3).
`ToldForEver` is what a client may build on. From the moment it was told of a
success, the result is stored and audited for ever, every retry of the key is
told the same, and nobody is told that another command made that version: no
update is lost. Its argument is `StepKeepsResults` (a stored result stays) with
the two invariants that tie results to audit events. `FirstCommitterWins` says
the same of requests that race: of those for one key, or for one version of a
batch, that have their answers, one took effect; `DoneKeeps` carries it.

**ConnectionPoolProofs.** `PoolInvariance` proves `IInv` of the pool for any
number of requests, any size of a listing and any number of queries in a `Get`.
The strengthening is `ScriptState`: a call under way has a demand, rows that are
opened are closed by a later demand, and demands other than a use occur in
listings only. All actions that return the connection do it by `HandOver`, so
one lemma, `ReleaseKeeps`, carries them, and `EndKeeps` the early returns. From
`IInv` follow `ConnectionSafe` and `OnlyListingsHoldAndWait`. `OnlyListingsBlock`
is the safety behind the two liveness properties: a handler that has its request
in hand always has a step of its own, and one that waits does so for a query
under way or for a listing. It needs a second invariant, `ClosesItsOwn`: a close
comes last in a script, and the rows it closes are open, still to be opened, or
cut by the deadline. `RequestAdvances` is their measure: each step of a busy
request ends it, does one of its demands, or brings the next one from "ready"
over "waiting" to "querying", and no step of another request, the deadline or
the pool takes it back. What TLC adds is that fairness makes the steps happen.

**CommandLedgerProofs.** `LedgerRefined`: a version of a batch has exactly one
key (`KeyFound`, from `AuditTrail` and `KeysMatchAudit`), so the ledger can be
read off the tables (`List`); a committing transaction appends one entry to one
list (`ListExtended`), and all other steps, lost replies and crashes included,
leave the lists as they are. `AuditFound` uses the same fact: the events behind
one event of a batch are in bijection with its later versions (`LaterCounted`),
so the limit of the query is a statement about versions. `LedgerPromise` proves
what the ledger itself promises, with `Kept` as its inductive invariant: a key
stands at one place of one list, a list begins with the creation and ends with
the release, serials are distinct, and nothing is undone. Through the refinement
this is a statement about the tables, and `TrailTold` reads it there: the first
audit event of a batch and no other is its creation, and its release, if there
is one, is its last.

**ServerProofs.** `ServerIsStore`: every step of the server is a step of the
store or leaves it alone, so all theorems of the store hold for it
(`ServedSound`), and by `LedgerRefined` the server is one command ledger across
all its restarts (`ServerIsLedger`), and `ToldForEver` and `FirstCommitterWins`
hold over restarts and the migration (`ToldBeforeRestart`). `LifeInv` says what the migration has reached at each of its
statements; with it follow `FileWhole` and `NewerKept`.

**BatchReaderProofs.** `ReaderIsBatch` carries the aggregate's theorems over to a
batch next to a reader. `ReadInv` says that parts read on the current version are
the batch's own, and that records of a release, once read, are the batch's for
good; `CurrentReadTrue` and `VerifiedTrue` follow, and with
`CredentialForEver` also `ValidForEver`: what one verification, made between any
commands, has called valid never becomes invalid. For `PreviewsTrue` one needs
more of the batch (`PendingWork`: the status does not lag behind the tests) and of the
order of the queries (`PreviewInv`: what is true once the deviations are read).
`ReaderTypes` and `HistoryToldTrue` rest on a third one, `ViewInv`: the list of
rows has each test once (`RowsOnce`, kept because `InsertedLists` says what an
insertion at any place does), and points, tests and rows that were read are
points of the batch, a beginning of its tests, and a list of those in an order
the batch keeps (`Beginning`). That the history tells the attempts 1 to n is
counted on the set of rows (`ToldCount`), not by induction on the list.
`PrecheckTrue` has the hypothesis `FoldsToLower`: texts that `EqualFold` calls
equal have the same lower case. Go's folding is coarser for a few letters ('ſ'
and 's', 'ς' and 'σ'), and of texts with those a precheck promises nothing.

**BatchPagingProofs.** `PInv` says that, as long as pages are aligned, a settled
batch has been shown exactly when it is not behind the cursor any more;
`ShownOnce` follows. `CursorMovesOn` needs no alignment, `MarksTrue` is
arithmetic on truncated division. `OrderedRisksStable` is about `StableCursor`,
which fails in `paging_stable`: it holds while no batch is riskier than one with
a nearer performance (`RisksOrdered`), whatever risks there are, and texts sort as
times do, since pages then stay aligned (`StaysAligned`). `EqualRisksStable` is
the case in which all batches have one base risk, high where all have points
that are not tested yet, low where all are tested: the schedule marks lift the
nearest performances first (`EqualRisksOrdered`).
`WalkShortens` is the measure behind `WalkEnds`: each page leaves fewer batches
ahead of the cursor, however it was cut, and only the creation or the move of a
batch puts one there, by that batch; the clock and the risks never do.

Only model-checked: `NoStrandedWork`, since it speaks of `ENABLED`; what it says
without that, that a command whose guard holds is not refused by the check, is
proved by `WorkAccepted` and `RetestAccepted`. Out of reach of this prover and
left to TLC: liveness under fairness (`RequestsEnd`, `RequestsAnswered`,
`WalkEnds`), of which the measures `RequestAdvances` and `WalkShortens` are
proved, `ENABLED`, and induction over data. Every other
property of a passing run is a theorem.

## 5. Not modelled

* **Configuration and the selfcheck client** (`cmd/server/config.go`,
  `selfcheck.go`): parsing of flags and addresses, and a client that sends one
  fixed sequence of commands, each of which is an action here, to a database of
  its own.
* **HTTP decoding, content negotiation, headers, the workbench**: they keep no
  state. Routes, deadlines and kinds of errors are in ConnectionPool,
  ReleaseStore and BatchReader.
* **Text validation** (`domain/validation.go`): a model value stands for a text
  that passed. Texts on which `ToLower` and `EqualFold` disagree (such as 'ſ'
  and 's') and blanks around codes are not in the instances of `PrecheckKey`;
  `PrecheckTrue` covers the blanks, and excludes the letters by `FoldsToLower`.
* **Filters** of the listing (status, zone, owner, time) and of the audit query
  (time, limit of the reply): they only take rows out of what the modules
  return. The cursor check does not depend on them.
* **Rows of a version 1 database**: the migration adds columns with defaults;
  what the tables hold when a file of version 1 is opened is left out, and its
  batches are those of a new store.
* **Figures for display**: coverage, utilisation, totals of a precheck.
* **Previews of a draft**: a draft is shown with whatever its points are at the
  moment they are read, and no blocking reason speaks of its status.

## 6. Plan

What is left, in order of use: a listing with its rows open as steps of
BatchPaging once finding 2 is fixed; the refinement of ConnectionPool's scripts
by the steps of ReleaseStore; a walk through pages that are not aligned, to
bound how many batches one can lose.
