--------------------------- MODULE InspectionBatch ---------------------------
(***************************************************************************)
(* One inspection batch: the aggregate of internal/domain/batch.go driven  *)
(* by the commands of internal/application.                                *)
(*                                                                         *)
(* Every command runs inside SQLite.Mutate: the aggregate is loaded, the   *)
(* command's function changes it in memory, ValidateIntegrity judges the   *)
(* result and only then is it saved.  A command is therefore one action:   *)
(* the aggregate's function (its conditions are the guard, its assignments *)
(* the primed variables) and ValidateIntegrity', since a result that fails *)
(* the check is rolled back.  A refused command changes nothing and is a   *)
(* stuttering step.  Versions, idempotency keys and credential serials     *)
(* belong to the store and are not kept here.                              *)
(*                                                                         *)
(* Slices are sequences; a test or a deviation is named by its index,      *)
(* which stands for the random identifier the code draws for it.           *)
(***************************************************************************)
EXTENDS Sequences, FiniteSets, LoadRules

CONSTANTS
    PointIds,      \* rows of the point list a user may try to register
    Code, Hoist,   \* their pointCode and hoistSerial, as typed
    Fold,          \* the class of a text under strings.EqualFold
    Rated, Planned,\* their ratedLoadKg and plannedLoadKg
    Readings,      \* readings a recorder may type in
    Details,       \* venue, zone, performance time and owner, as one value
    Approvers,     \* names as a technical lead types them
    Trim,          \* strings.TrimSpace on those names
    MaxPerCall,    \* most points one registration may carry (200 in the code)
    MaxTests,      \* bound: tests a behaviour may record
    NULL           \* an absent record

ASSUME PointIdsFinite == IsFiniteSet(PointIds)

ASSUME LoadTyping ==
    /\ Rated \in [PointIds -> Int]
    /\ Planned \in [PointIds -> Int]
    /\ Readings \subseteq Reading

ASSUME TrimTyping ==
    /\ Trim \in [Approvers -> Approvers]
    /\ \A by \in Approvers : Trim[Trim[by]] = Trim[by]

ASSUME BoundTyping == MaxPerCall \in Nat /\ MaxTests \in Nat

VARIABLES
    details,     \* venueName, stageZone, performanceAt, ownerName
    status,
    points,      \* registered points
    locked,      \* points whose LockedAt is set
    tests,       \* b.Tests
    deviations,  \* b.Deviations
    snapshot, review, credential

vars == <<details, status, points, locked, tests, deviations,
          snapshot, review, credential>>

Statuses == {"draft", "awaiting_tests", "testing", "blocked",
             "pending_review", "frozen", "released"}

Severities == {"minor", "major", "critical"}

Rank(severity) ==
    CASE severity = "minor" -> 1
      [] severity = "major" -> 2
      [] severity = "critical" -> 3

LoadTest == [point : PointIds, attempt : Nat, reading : Readings,
             result : {"passed", "failed"}]

Deviation == [test : Nat, point : PointIds, severity : Severities,
              confirmed : BOOLEAN, evidence : BOOLEAN,
              status : {"open", "remediated", "closed"}, closedBy : Nat]

-----------------------------------------------------------------------------
(* Views of the test and deviation lists.                                  *)

Attempts(ts, p) == {i \in DOMAIN ts : ts[i].point = p}

IsLatest(ts, p, i) ==
    /\ i \in Attempts(ts, p)
    /\ \A j \in Attempts(ts, p) : ts[j].attempt <= ts[i].attempt

\* Only meaningful for a point with at least one test.
LatestTest(ts, p) == CHOOSE i \in DOMAIN ts : IsLatest(ts, p, i)

\* Mutant: the next attempt repeats the number of the latest.
NextAttempt_Repeats(ts, p) ==
    IF Attempts(ts, p) = {} THEN 1 ELSE ts[LatestTest(ts, p)].attempt

NextAttempt(ts, p) ==
    IF Attempts(ts, p) = {} THEN 1 ELSE ts[LatestTest(ts, p)].attempt + 1

TestedPoints(pts, ts) == {p \in pts : Attempts(ts, p) # {}}

PassedPoints(pts, ts) ==
    {p \in TestedPoints(pts, ts) : ts[LatestTest(ts, p)].result = "passed"}

OpenDeviations(ds) == {d \in DOMAIN ds : ds[d].status # "closed"}

CriticalDeviations(ds) == {d \in DOMAIN ds : ds[d].severity = "critical"}

UnconfirmedDeviations(ds) == {d \in OpenDeviations(ds) : ~ds[d].confirmed}

NothingBlocks(ds) ==
    /\ OpenDeviations(ds) = {}
    /\ CriticalDeviations(ds) = {}
    /\ UnconfirmedDeviations(ds) = {}

\* Mutant: the refresh looks at critical and unconfirmed deviations only.
RefreshedStatus_Confirmed(pts, ts, ds) ==
    IF CriticalDeviations(ds) # {} \/ UnconfirmedDeviations(ds) # {}
    THEN "blocked"
    ELSE IF pts # {} /\ PassedPoints(pts, ts) = pts THEN "pending_review"
    ELSE "testing"

\* Mutant: the refresh looks at open deviations only.
RefreshedStatus_Open(pts, ts, ds) ==
    IF OpenDeviations(ds) # {} THEN "blocked"
    ELSE IF pts # {} /\ PassedPoints(pts, ts) = pts THEN "pending_review"
    ELSE "testing"

RefreshedStatus(pts, ts, ds) ==
    IF ~NothingBlocks(ds) THEN "blocked"
    ELSE IF pts # {} /\ PassedPoints(pts, ts) = pts THEN "pending_review"
    ELSE "testing"

\* SnapshotData refuses a point without a passed latest test.
Snapshottable(pts, ts) ==
    \A p \in pts : /\ Attempts(ts, p) # {}
                   /\ ts[LatestTest(ts, p)].result = "passed"

\* The canonical content of a snapshot and its SHA-256, taken as collision
\* free.
SnapshotData(dt, pts, ts) ==
    [details |-> dt, items |-> [p \in pts |-> ts[LatestTest(ts, p)]]]

Digest(content) == <<"sha256", content>>

\* The records of a batch with the points pts.
Content(pts) == [details : Details, items : [pts -> LoadTest]]

Digests(pts) == {"sha256"} \X Content(pts)

FrozenSnapshot(pts) == [content : Content(pts), digest : Digests(pts)]

TechnicalReview ==
    [approvedBy : Approvers, pointCount : Nat, testedPointCount : Nat,
     passedPointCount : Nat, closedDeviationCount : Nat]

ReleaseCredential(pts) == [digest : Digests(pts), approvedBy : Approvers]

ASSUME NullApart == \A pts \in SUBSET PointIds :
    NULL \notin FrozenSnapshot(pts) \cup TechnicalReview
                  \cup ReleaseCredential(pts)

\* Mutant: the digest is recomputed of the batch, not of its snapshot.
VerifyCredential_Live ==
    IF credential = NULL \/ snapshot = NULL THEN "missing"
    ELSE IF \/ ~Snapshottable(points, tests)
            \/ Digest(SnapshotData(details, points, tests)) # credential.digest
            \/ snapshot.digest # credential.digest
         THEN "mismatch"
    ELSE "valid"

VerifyCredential ==
    IF credential = NULL \/ snapshot = NULL THEN "missing"
    ELSE IF \/ Digest(snapshot.content) # credential.digest
            \/ snapshot.digest # credential.digest
         THEN "mismatch"
    ELSE "valid"

-----------------------------------------------------------------------------
(* ValidateIntegrity, one conjunct per block of the function.              *)

PointsIntegrity ==
    /\ \A p \in points : WithinCapacity(Planned[p], Rated[p])
    /\ \A p, q \in points : p # q => Code[p] # Code[q] /\ Hoist[p] # Hoist[q]
    /\ status # "draft" => points \subseteq locked

\* The sorted attempt numbers of a point are 1, 2, 3, ...
AttemptsContinuous(ts, p) ==
    {ts[i].attempt : i \in Attempts(ts, p)} = 1 .. Cardinality(Attempts(ts, p))

TestsIntegrity ==
    /\ \A i \in DOMAIN tests :
        /\ tests[i].point \in points
        /\ AcceptableReading(Rated[tests[i].point], tests[i].reading)
        /\ tests[i].result = EvaluateTest(tests[i].reading)
        /\ tests[i].attempt >= 1
    /\ \A p \in points : AttemptsContinuous(tests, p)

\* closed_at is written and cleared with closed_by_test_id, the name and the
\* time of a confirmation with its flag (batch.go:242-253, deviation.go:44-56):
\* closedBy and confirmed stand for both, and the checks of the second halves
\* are in those of the first.
DeviationsIntegrity ==
    \A d \in DOMAIN deviations :
        LET dev == deviations[d] IN
        /\ dev.test \in DOMAIN tests
        /\ tests[dev.test].result = "failed"
        /\ tests[dev.test].point = dev.point
        /\ dev.status = "closed" =>
            /\ dev.closedBy \in DOMAIN tests
            /\ tests[dev.closedBy].result = "passed"
            /\ dev.evidence

\* Mutant: the check that a blocked batch has an open deviation is missing.
StatusIntegrity_NoBlocked ==
    /\ status = "pending_review" =>
        PassedPoints(points, tests) = points /\ NothingBlocks(deviations)
    /\ status \in {"frozen", "released"} => snapshot # NULL /\ review # NULL

StatusIntegrity ==
    /\ status \in Statuses
    /\ status \in {"awaiting_tests", "testing"} => points # {}
    /\ status = "blocked" => OpenDeviations(deviations) # {}
    /\ status = "pending_review" =>
        /\ points # {}
        /\ PassedPoints(points, tests) = points
        /\ NothingBlocks(deviations)
    /\ status = "frozen" =>
        snapshot # NULL /\ review # NULL /\ credential = NULL
    /\ status = "released" =>
        snapshot # NULL /\ review # NULL /\ credential # NULL

RecordsIntegrity ==
    /\ snapshot # NULL => Digest(snapshot.content) = snapshot.digest
    /\ review # NULL =>
        /\ review.pointCount = Cardinality(points)
        /\ review.testedPointCount = Cardinality(points)
        /\ review.passedPointCount = Cardinality(points)

ValidateIntegrity ==
    /\ PointsIntegrity
    /\ TestsIntegrity
    /\ DeviationsIntegrity
    /\ StatusIntegrity
    /\ RecordsIntegrity

-----------------------------------------------------------------------------
(* The commands.                                                           *)

\* CreateBatch: a batch exists once NewBatch has accepted its details.
Init ==
    /\ details \in Details
    /\ status = "draft"
    /\ points = {}
    /\ locked = {}
    /\ tests = <<>>
    /\ deviations = <<>>
    /\ snapshot = NULL
    /\ review = NULL
    /\ credential = NULL

UpdateDetails(dt) ==
    /\ status = "draft"
    /\ details' = dt
    /\ UNCHANGED <<status, points, locked, tests, deviations,
                   snapshot, review, credential>>

UpdateBatch(dt) == UpdateDetails(dt) /\ ValidateIntegrity'

\* Mutant: codes and serials are compared letter by letter.
Clash_Exact(p, q) == Code[p] = Code[q] \/ Hoist[p] = Hoist[q]

\* strings.EqualFold on the codes and on the hoist serials.
Clash(p, q) == Fold[Code[p]] = Fold[Code[q]] \/ Fold[Hoist[p]] = Fold[Hoist[q]]

\* Each row is compared with the registered points and with the rows added
\* before it; one bad row refuses the whole call.
Registrable(rows) ==
    /\ status = "draft"
    /\ rows # {} /\ Cardinality(rows) <= MaxPerCall
    /\ \A p \in rows : WithinCapacity(Planned[p], Rated[p])
    /\ \A p \in rows : \A q \in (points \cup rows) \ {p} : ~Clash(p, q)
    /\ rows \cap points = {}

AddPoints(rows) ==
    /\ Registrable(rows)
    /\ points' = points \cup rows
    /\ UNCHANGED <<details, status, locked, tests, deviations,
                   snapshot, review, credential>>

AddPoint(rows) == AddPoints(rows) /\ ValidateIntegrity'

Lock ==
    /\ status = "draft"
    /\ points # {}
    /\ locked' = points
    /\ status' = "awaiting_tests"
    /\ UNCHANGED <<details, points, tests, deviations,
                   snapshot, review, credential>>

LockBatch == Lock /\ ValidateIntegrity'

\* Mutant: any locked batch accepts a test.
AcceptsTests_Locked(st) == st # "draft"

AcceptsTests(st) == st \in {"awaiting_tests", "testing", "blocked"}

\* The record AddTest and CloseDeviation append for point p.
NewTest(p, r) ==
    [point |-> p, attempt |-> NextAttempt(tests, p), reading |-> r,
     result |-> EvaluateTest(r)]

NewDeviation(p, severity, confirmed) ==
    [test |-> Len(tests) + 1, point |-> p, severity |-> severity,
     confirmed |-> confirmed, evidence |-> FALSE, status |-> "open",
     closedBy |-> 0]

\* Mutant: one open deviation is thought to be enough to block the batch.
Raise_Once(ds, dev) == IF OpenDeviations(ds) = {} THEN Append(ds, dev) ELSE ds

Raise(ds, dev) == Append(ds, dev)

AddTest(p, r) ==
    /\ AcceptsTests(status)
    /\ p \in points
    /\ AcceptableReading(Rated[p], r)
    /\ Len(tests) < MaxTests
    /\ tests' = Append(tests, NewTest(p, r))
    /\ \/ /\ EvaluateTest(r) = "failed"
          /\ \E severity \in Severities, confirmed \in BOOLEAN :
                deviations' = Raise(deviations,
                                    NewDeviation(p, severity, confirmed))
          /\ status' = "blocked"
       \/ /\ EvaluateTest(r) = "passed"
          /\ deviations' = deviations
          /\ status' = RefreshedStatus(points, tests', deviations)
    /\ UNCHANGED <<details, points, locked, snapshot, review, credential>>

RecordTest(p, r) == AddTest(p, r) /\ ValidateIntegrity'

\* Mutant: the service does not look at the owner.
OwnerConfirmed_Dropped(dev) == TRUE

OwnerConfirmed(dev) == dev.confirmed

SubmitRemediation(d) ==
    /\ status = "blocked"
    /\ deviations[d].status = "open"
    /\ deviations' = [deviations EXCEPT ![d].evidence = TRUE,
                                        ![d].status = "remediated"]
    /\ UNCHANGED <<details, status, points, locked, tests,
                   snapshot, review, credential>>

\* The guard on the confirmed owner is the service's.
Remediate(d) ==
    /\ OwnerConfirmed(deviations[d])
    /\ SubmitRemediation(d)
    /\ ValidateIntegrity'

\* Mutant: a failed retest leaves the evidence of the attempt it ends.
Reopened_Stale(dev) == [dev EXCEPT !.status = "open", !.closedBy = 0]

\* Mutant: a failed retest leaves a deviation status nobody knows.
Reopened_Failed(dev) ==
    [dev EXCEPT !.status = "failed", !.evidence = FALSE, !.closedBy = 0]

Reopened(dev) ==
    [dev EXCEPT !.status = "open", !.evidence = FALSE, !.closedBy = 0]

Closed(dev, t) == [dev EXCEPT !.status = "closed", !.closedBy = t]

\* The batch status is not looked at.
CloseDeviation(d, r) ==
    /\ deviations[d].status = "remediated"
    /\ RetestTargetOK(r.target, tests[deviations[d].test].reading.target)
    /\ AcceptableReading(Rated[deviations[d].point], r)
    /\ Len(tests) < MaxTests
    /\ tests' = Append(tests, NewTest(deviations[d].point, r))
    /\ \/ /\ EvaluateTest(r) = "failed"
          /\ deviations' = [deviations EXCEPT ![d] = Reopened(@)]
          /\ status' = "blocked"
       \/ /\ EvaluateTest(r) = "passed"
          /\ deviations' = [deviations EXCEPT ![d] = Closed(@, Len(tests) + 1)]
          /\ status' = RefreshedStatus(points, tests', deviations')
    /\ UNCHANGED <<details, points, locked, snapshot, review, credential>>

Retest(d, r) == CloseDeviation(d, r) /\ ValidateIntegrity'

UpgradeAllowed(dev, severity) ==
    dev.status # "closed" /\ Rank(severity) > Rank(dev.severity)

\* The function UpdateDeviation hands to Mutate: severity "" means no upgrade
\* was asked for, confirm FALSE that confirmedBy was empty.  Both may be absent,
\* and the batch status is never looked at.
ReviseDeviation(d, severity, confirm) ==
    /\ severity # "" => UpgradeAllowed(deviations[d], severity)
    /\ confirm => deviations[d].status # "closed"
    /\ deviations' = [deviations EXCEPT
                        ![d].severity = IF severity = "" THEN @ ELSE severity,
                        ![d].confirmed = @ \/ confirm]
    /\ status' = "blocked"
    /\ UNCHANGED <<details, points, locked, tests,
                   snapshot, review, credential>>

UpdateDeviation(d, severity, confirm) ==
    ReviseDeviation(d, severity, confirm) /\ ValidateIntegrity'

\* Checks the coverage again, takes the snapshot and writes the review.
Freeze(by) ==
    /\ status = "pending_review"
    /\ PassedPoints(points, tests) = points
    /\ NothingBlocks(deviations)
    /\ Snapshottable(points, tests)
    /\ LET content == SnapshotData(details, points, tests) IN
        snapshot' = [content |-> content, digest |-> Digest(content)]
    /\ review' = [approvedBy |-> Trim[by],
                  pointCount |-> Cardinality(points),
                  testedPointCount |-> Cardinality(TestedPoints(points, tests)),
                  passedPointCount |-> Cardinality(PassedPoints(points, tests)),
                  closedDeviationCount |->
                    Cardinality(DOMAIN deviations \ OpenDeviations(deviations))]
    /\ status' = "frozen"
    /\ UNCHANGED <<details, points, locked, tests, deviations, credential>>

Approve(by) == Freeze(by) /\ ValidateIntegrity'

IssueCredential(by) ==
    /\ status = "frozen" /\ snapshot # NULL /\ review # NULL
    /\ credential = NULL
    /\ Trim[by] = review.approvedBy
    /\ credential' = [digest |-> snapshot.digest, approvedBy |-> by]
    /\ status' = "released"
    /\ UNCHANGED <<details, points, locked, tests, deviations,
                   snapshot, review>>

Issue(by) == IssueCredential(by) /\ ValidateIntegrity'

Next ==
    \/ \E dt \in Details : UpdateBatch(dt)
    \/ \E rows \in SUBSET PointIds : AddPoint(rows)
    \/ LockBatch
    \/ \E p \in PointIds, r \in Readings : RecordTest(p, r)
    \/ \E d \in DOMAIN deviations : Remediate(d)
    \/ \E d \in DOMAIN deviations, r \in Readings : Retest(d, r)
    \/ \E d \in DOMAIN deviations, severity \in Severities \cup {""},
          confirm \in BOOLEAN : UpdateDeviation(d, severity, confirm)
    \/ \E by \in Approvers : Approve(by)
    \/ \E by \in Approvers : Issue(by)

Spec == Init /\ [][Next]_vars

-----------------------------------------------------------------------------
(* Properties.                                                             *)

\* Types of the aggregate's fields.
TypeOK ==
    /\ details \in Details
    /\ status \in Statuses
    /\ points \subseteq PointIds
    /\ locked \subseteq points
    /\ tests \in Seq(LoadTest)
    /\ deviations \in Seq(Deviation)
    /\ snapshot \in FrozenSnapshot(points) \cup {NULL}
    /\ review \in TechnicalReview \cup {NULL}
    /\ credential \in ReleaseCredential(points) \cup {NULL}

\* A batch is blocked exactly while one of its deviations is not closed:
\* AddTest, CloseDeviation and UpdateDeviation each write the status on
\* their own, and all of them must agree with the deviation list.
OpenDeviationBlocks == status = "blocked" <=> OpenDeviations(deviations) # {}

\* A point whose latest test failed carries a deviation that is not closed,
\* whichever of AddTest and CloseDeviation recorded that failure and whatever
\* was closed on the point before.
FailedPointHeld ==
    \A p \in TestedPoints(points, tests) :
        tests[LatestTest(tests, p)].result = "failed" =>
            \E d \in OpenDeviations(deviations) : deviations[d].point = p

\* The test that closed dev passed, on the point of the failed test and after
\* it, and aimed within 5 % of it.
ProvenBy(ts, dev) ==
    LET failed == ts[dev.test]
        closing == ts[dev.closedBy]
    IN  /\ failed.result = "failed" /\ closing.result = "passed"
        /\ closing.point = dev.point /\ failed.point = dev.point
        /\ closing.attempt > failed.attempt
        /\ RetestTargetOK(closing.reading.target, failed.reading.target)

\* A closed deviation was confirmed by its owner, has evidence, and was closed
\* by a passed test of the same point that is later than the failed one and
\* aims within 5 % of it, through any number of failed retests in between.
ClosedDeviationProven ==
    \A d \in DOMAIN deviations :
        LET dev == deviations[d] IN
        dev.status = "closed" =>
            dev.confirmed /\ dev.evidence /\ ProvenBy(tests, dev)

\* The load that closes a deviation is at least 90.25 % of the load the failed
\* test aimed at: the 5 % tolerance on the target (CloseDeviation) and the 5 %
\* tolerance on the measurement (EvaluateTest) compound, and no further.
ClosedAtSafeLoad ==
    \A d \in DOMAIN deviations :
        deviations[d].status = "closed" =>
            10000 * tests[deviations[d].closedBy].reading.measured
                >= 9025 * tests[deviations[d].test].reading.target

\* A critical deviation keeps its batch blocked for good: Progress counts it
\* even when it is closed, and no severity is ever lowered.
CriticalBlocks == CriticalDeviations(deviations) # {} => status = "blocked"

\* What was frozen is what the batch still holds: details, points and the
\* latest test of every point are those of the snapshot, every one of them
\* passed, and the digest is that of the content.
SnapshotCurrent ==
    snapshot # NULL =>
        /\ status \in {"frozen", "released"}
        /\ Snapshottable(points, tests)
        /\ snapshot.content = SnapshotData(details, points, tests)
        /\ snapshot.digest = Digest(snapshot.content)

\* A batch with a credential has a locked, non-empty point list whose latest
\* tests all passed, no deviation left open or critical, and a credential that
\* verifies and is signed with the reviewer's name, up to blanks around it.
ReleasedSound ==
    credential # NULL =>
        /\ status = "released"
        /\ points # {} /\ points = locked
        /\ PassedPoints(points, tests) = points
        /\ NothingBlocks(deviations)
        /\ VerifyCredential = "valid"
        /\ review # NULL /\ Trim[credential.approvedBy] = review.approvedBy

OtherDeviationOpen(d) == OpenDeviations(deviations) \ {d} # {}

\* The integrity check that ends every command never refuses work the
\* aggregate has accepted: rows without a fault are always registered, a valid
\* reading is always recorded, an open deviation can be confirmed or
\* remediated, a failed retest is always recorded and a passed one is unless
\* the batch has a critical deviation and no other open one; a batch ready for
\* review can be approved, and then released.
NoStrandedWork ==
    /\ \A rows \in SUBSET PointIds : Registrable(rows) => ENABLED AddPoint(rows)
    /\ \A p \in points, r \in Readings :
        AcceptsTests(status) /\ AcceptableReading(Rated[p], r)
            /\ Len(tests) < MaxTests => ENABLED RecordTest(p, r)
    /\ \A d \in OpenDeviations(deviations) :
        \/ deviations[d].status = "remediated"
        \/ ENABLED Remediate(d)
        \/ ENABLED UpdateDeviation(d, "", TRUE)
    /\ \A d \in DOMAIN deviations, r \in Readings :
        /\ deviations[d].status = "remediated"
        /\ RetestTargetOK(r.target, tests[deviations[d].test].reading.target)
        /\ AcceptableReading(Rated[deviations[d].point], r)
        /\ Len(tests) < MaxTests
        /\ \/ EvaluateTest(r) = "failed"
           \/ CriticalDeviations(deviations) = {}
           \/ OtherDeviationOpen(d)
        => ENABLED Retest(d, r)
    /\ status = "pending_review" => \A by \in Approvers : ENABLED Approve(by)
    /\ status = "frozen" => ENABLED Issue(review.approvedBy)

\* README.md:10 says that a passed retest closes the deviation.  It does not
\* when the batch has a critical deviation and no other open one.
PassingRetestCloses ==
    \A d \in DOMAIN deviations, r \in Readings :
        /\ deviations[d].status = "remediated"
        /\ RetestTargetOK(r.target, tests[deviations[d].test].reading.target)
        /\ AcceptableReading(Rated[deviations[d].point], r)
        /\ WithinLimits(r)
        /\ Len(tests) < MaxTests
        => ENABLED Retest(d, r)

\* No two points of a batch have codes, or hoist serials, that differ only in
\* the case of their letters, whatever calls registered them.
CodesDistinct ==
    \A p, q \in points : p # q => /\ Fold[Code[p]] # Fold[Code[q]]
                                /\ Fold[Hoist[p]] # Fold[Hoist[q]]

\* The abstract promise: statuses map to phases, the latest results to the
\* passed points, open deviations to the held points.
Phase ==
    CASE status = "draft" -> "planning"
      [] AcceptsTests(status) -> "testing"
      [] status = "pending_review" -> "ready"
      [] status = "frozen" -> "certified"
      [] OTHER -> status

Held == {deviations[d].point : d \in OpenDeviations(deviations)}

Gate == INSTANCE ReleaseGate WITH
    Point <- PointIds, phase <- Phase, planned <- points,
    passed <- PassedPoints(points, tests), held <- Held,
    condemned <- CriticalDeviations(deviations) # {}

\* Every command keeps the promise of ReleaseGate: no path through tests,
\* retests, upgrades and re-opened deviations leads to a certificate while a
\* point is untested, fails or is held.
ImplementsGate == Gate!Spec

\* Once a snapshot exists, nothing it stands on changes again: no detail, no
\* point, no test and no deviation; the snapshot, the review and the
\* credential are written once.
ReleaseFinal ==
    [][/\ snapshot # NULL =>
            UNCHANGED <<details, points, tests, deviations, snapshot, review>>
       /\ credential # NULL => UNCHANGED <<credential, status>>]_vars

\* What one step may do to a deviation: it keeps its test and its point, its
\* severity never falls, a confirmed owner stays confirmed, and a closed
\* deviation does not change at all.  One that is opened, or re-opened by a
\* failed retest (batch.go:244), has neither evidence nor a closing test, so
\* every attempt to close it needs evidence of its own; and the test that
\* closes it is the one of that step, on evidence that was there before.
DeviationHistory ==
    [][\A d \in DOMAIN deviations :
        /\ d \in DOMAIN deviations'
        /\ deviations'[d].test = deviations[d].test
        /\ deviations'[d].point = deviations[d].point
        /\ Rank(deviations'[d].severity) >= Rank(deviations[d].severity)
        /\ deviations[d].confirmed => deviations'[d].confirmed
        /\ deviations[d].status = "closed" => deviations'[d] = deviations[d]
        /\ deviations'[d].status = "open" =>
            ~deviations'[d].evidence /\ deviations'[d].closedBy = 0
        /\ deviations'[d].closedBy # deviations[d].closedBy =>
            /\ deviations[d].evidence
            /\ deviations'[d].closedBy \in DOMAIN tests' \ DOMAIN tests]_vars

-----------------------------------------------------------------------------
(* The inductive invariant behind the properties above.                    *)

\* In the list of tests, the attempts of one point grow.
Increasing(ts) ==
    \A i, j \in DOMAIN ts :
        i < j /\ ts[i].point = ts[j].point => ts[i].attempt < ts[j].attempt

\* Which records exist at which stage.
RecordsByStage ==
    /\ status = "draft" => tests = <<>> /\ deviations = <<>>
    /\ snapshot # NULL <=> status \in {"frozen", "released"}
    /\ review # NULL <=> status \in {"frozen", "released"}
    /\ credential # NULL <=> status = "released"

\* A deviation has evidence, of a confirmed owner, from its remediation until
\* it is re-opened, and a closing test only when it is closed.
EvidenceFits(dev) ==
    /\ dev.status # "open" => dev.confirmed /\ dev.evidence
    /\ dev.status = "open" => ~dev.evidence
    /\ dev.status # "closed" => dev.closedBy = 0

EvidenceCurrent == \A d \in DOMAIN deviations : EvidenceFits(deviations[d])

\* From the review on, every point stands passed and nothing blocks.
ClearFromReview ==
    status \in {"pending_review", "frozen", "released"} =>
        /\ points # {}
        /\ PassedPoints(points, tests) = points
        /\ NothingBlocks(deviations)

\* Freeze stores the reviewer's name without the blanks around it.
ReviewTrimmed == review # NULL => Trim[review.approvedBy] = review.approvedBy

CredentialMatches ==
    credential # NULL =>
        /\ credential.digest = snapshot.digest
        /\ Trim[credential.approvedBy] = review.approvedBy

\* The inductive invariant: a batch is well typed, passes the integrity check
\* of the code, and its tests, deviations and records relate as above.
IInv ==
    /\ TypeOK
    /\ ValidateIntegrity
    /\ Increasing(tests)
    /\ RecordsByStage
    /\ EvidenceCurrent
    /\ ClearFromReview
    /\ OpenDeviationBlocks
    /\ CriticalBlocks
    /\ FailedPointHeld
    /\ ClosedDeviationProven
    /\ SnapshotCurrent
    /\ ReviewTrimmed
    /\ CredentialMatches

=============================================================================
