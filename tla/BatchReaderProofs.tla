-------------------------- MODULE BatchReaderProofs --------------------------
(***************************************************************************)
(* What holds of a read of seven queries, for any batch, any readings and  *)
(* any number of commands that commit between the queries.  The view is    *)
(* compared with the batch part by part: what has been read and may not    *)
(* change any more is as the batch has it, and what may still change is a  *)
(* beginning of it.                                                        *)
(***************************************************************************)
EXTENDS BatchReader, InspectionBatchProofs

-----------------------------------------------------------------------------
(* The reader does not disturb the batch.                                  *)

\* A step of the reader is a step of the batch, or none.
LEMMA ReaderStep ==
    ASSUME [ReaderNext]_readerVars
    PROVE  [Next]_vars
BY DEF ReaderNext, readerVars, Load, Stop, Commit

\* Next to a reader a batch behaves as without it.
THEOREM ReaderIsBatch == ReaderSpec => Spec
<1>1. ReaderInit => Init
  BY DEF ReaderInit
<1> QED BY <1>1, ReaderStep, PTL DEF ReaderSpec, Spec

\* Next writes the snapshot and the credential once (Freeze, IssueCredential).
LEMMA RecordsStay ==
    ASSUME IInv, Next
    PROVE  /\ snapshot # NULL => snapshot' = snapshot
           /\ credential # NULL => credential' = credential
<1>1. /\ snapshot # NULL => status \in {"frozen", "released"}
      /\ credential # NULL => status = "released"
  BY DEF IInv, RecordsByStage
<1>2. ASSUME NEW by \in Approvers, Approve(by)
      PROVE  snapshot = NULL /\ credential' = credential
  BY <1>1, <1>2 DEF Approve, Freeze
<1>3. ASSUME NEW by \in Approvers, Issue(by)
      PROVE  credential = NULL /\ snapshot' = snapshot
  BY <1>3 DEF Issue, IssueCredential
<1> QED
  BY <1>2, <1>3 DEF Next, UpdateBatch, UpdateDetails, AddPoint, AddPoints,
                    Registrable, LockBatch, Lock, RecordTest, AddTest,
                    Remediate, SubmitRemediation, Retest, CloseDeviation,
                    UpdateDeviation, ReviseDeviation

-----------------------------------------------------------------------------
(* The seven queries.                                                      *)

\* A view is a record of these parts.
Shape(v) ==
    v = [details |-> v.details, status |-> v.status, points |-> v.points,
         locked |-> v.locked, tests |-> v.tests, rows |-> v.rows,
         deviations |-> v.deviations, snapshot |-> v.snapshot,
         review |-> v.review, credential |-> v.credential]

\* What has been read is the batch's, if no command has committed since.
Fresh ==
    /\ loaded >= 1 => view.details = details /\ view.status = status
    /\ loaded >= 2 => view.points = points /\ view.locked = locked
    /\ loaded >= 3 => view.tests = tests /\ view.rows = testRows
    /\ loaded >= 4 => view.deviations = deviations
    /\ loaded >= 5 => view.snapshot = snapshot
    /\ loaded >= 6 => view.review = review
    /\ loaded >= 7 => view.credential = credential

\* The records of a release, once read, are the batch's for good.
RecordsKept ==
    /\ view.snapshot # NULL => view.snapshot = snapshot
    /\ view.credential # NULL => view.credential = credential

\* The reader's progress, the form of its view, and what is fresh in it.
ReadInv ==
    /\ loaded \in 0 .. 7
    /\ behind \in Nat
    /\ Shape(view)
    /\ behind = 0 => Fresh
    /\ RecordsKept

\* What each query reads.
LEMMA Queries ==
    /\ Len(Order) = 7
    /\ Order[1] = "batch" /\ Order[2] = "points" /\ Order[3] = "tests"
    /\ Order[4] = "deviations" /\ Order[5] = "snapshot"
    /\ Order[6] = "review" /\ Order[7] = "credential"
BY DEF Order

\* One query adds its part to the view and leaves the others as they were.
LEMMA LoadedParts ==
    ASSUME NEW v, Shape(v), NEW k \in 1 .. 7
    PROVE  LET w == Loaded(v, Order[k]) IN
           /\ Shape(w)
           /\ w.details = IF k = 1 THEN details ELSE v.details
           /\ w.status = IF k = 1 THEN status ELSE v.status
           /\ w.points = IF k = 2 THEN points ELSE v.points
           /\ w.locked = IF k = 2 THEN locked ELSE v.locked
           /\ w.tests = IF k = 3 THEN tests ELSE v.tests
           /\ w.rows = IF k = 3 THEN testRows ELSE v.rows
           /\ w.deviations = IF k = 4 THEN deviations ELSE v.deviations
           /\ w.snapshot = IF k = 5 THEN snapshot ELSE v.snapshot
           /\ w.review = IF k = 6 THEN review ELSE v.review
           /\ w.credential = IF k = 7 THEN credential ELSE v.credential
<1>1. CASE k = 1
  BY <1>1, Queries DEF Loaded, Shape
<1>2. CASE k = 2
  BY <1>2, Queries DEF Loaded, Shape
<1>3. CASE k = 3
  BY <1>3, Queries DEF Loaded, Shape
<1>4. CASE k = 4
  BY <1>4, Queries DEF Loaded, Shape
<1>5. CASE k = 5
  BY <1>5, Queries DEF Loaded, Shape
<1>6. CASE k = 6
  BY <1>6, Queries DEF Loaded, Shape
<1>7. CASE k = 7
  BY <1>7, Queries DEF Loaded, Shape
<1> QED BY <1>1, <1>2, <1>3, <1>4, <1>5, <1>6, <1>7

\* A query keeps ReadInv.
LEMMA LoadKeeps == ReadInv /\ Load => ReadInv'
<1> SUFFICES ASSUME ReadInv, Load PROVE ReadInv'
  OBVIOUS
<1> DEFINE k == loaded + 1
<1>1. /\ k \in 1 .. 7 /\ loaded' = k /\ Shape(view)
      /\ view' = Loaded(view, Order[k])
      /\ behind' = IF k = 1 THEN 0 ELSE behind
      /\ UNCHANGED <<vars, testRows>>
  <2>1. \A n \in 1 .. 7 : Order[n] = "batch" <=> n = 1
    BY Queries
  <2> QED BY <2>1, Queries DEF ReadInv, Load
<1>2. Shape(view')
  BY <1>1, LoadedParts
<1>3. /\ view'.details = IF k = 1 THEN details ELSE view.details
      /\ view'.status = IF k = 1 THEN status ELSE view.status
      /\ view'.points = IF k = 2 THEN points ELSE view.points
      /\ view'.locked = IF k = 2 THEN locked ELSE view.locked
      /\ view'.tests = IF k = 3 THEN tests ELSE view.tests
      /\ view'.rows = IF k = 3 THEN testRows ELSE view.rows
      /\ view'.deviations = IF k = 4 THEN deviations ELSE view.deviations
      /\ view'.snapshot = IF k = 5 THEN snapshot ELSE view.snapshot
      /\ view'.review = IF k = 6 THEN review ELSE view.review
      /\ view'.credential = IF k = 7 THEN credential ELSE view.credential
  BY <1>1, LoadedParts
<1>4. RecordsKept'
  BY <1>1, <1>3 DEF ReadInv, RecordsKept, vars
<1>5. ASSUME behind' = 0 PROVE Fresh'
  <2>1. loaded >= 1 => Fresh
    BY <1>1, <1>5 DEF ReadInv
  <2>2. loaded \in 0 .. 6
    BY <1>1 DEF ReadInv
  <2> QED BY <1>1, <1>3, <2>1, <2>2 DEF Fresh, vars
<1> HIDE DEF k
<1> QED BY <1>1, <1>2, <1>4, <1>5 DEF ReadInv, Shape

\* A command that commits leaves the records of a release alone.
LEMMA CommitKeeps == IInv /\ ReadInv /\ Commit => ReadInv'
<1> SUFFICES ASSUME IInv, ReadInv, Commit PROVE ReadInv'
  OBVIOUS
<1>1. /\ UNCHANGED <<loaded, view>> /\ Next
      /\ behind' = IF loaded = 0 THEN 0 ELSE behind + 1
  BY DEF Commit
<1>2. /\ snapshot # NULL => snapshot' = snapshot
      /\ credential # NULL => credential' = credential
  BY <1>1, RecordsStay
<1>3. behind' \in Nat /\ (behind' = 0 => loaded = 0)
  BY <1>1 DEF ReadInv
<1> QED BY <1>1, <1>2, <1>3 DEF ReadInv, Shape, Fresh, RecordsKept

\* ReadInv is inductive next to the invariant of the batch.
LEMMA ReadKeeps == IInv /\ ReadInv /\ [ReaderNext]_readerVars => ReadInv'
<1> SUFFICES ASSUME IInv, ReadInv, [ReaderNext]_readerVars PROVE ReadInv'
  OBVIOUS
<1>1. CASE Stop
  BY <1>1 DEF Stop, Blank, ReadInv, Shape, Fresh, RecordsKept
<1>2. CASE UNCHANGED readerVars
  BY <1>2 DEF readerVars, vars, ReadInv, Shape, Fresh, RecordsKept
<1> QED BY <1>1, <1>2, LoadKeeps, CommitKeeps DEF ReaderNext

\* ReadInv holds throughout a read.
LEMMA ReadInvariance == ReaderSpec => []ReadInv
<1>1. ReaderInit => ReadInv
  BY DEF ReaderInit, Blank, ReadInv, Shape, Fresh, RecordsKept
<1> QED BY <1>1, ReadKeeps, ReaderIsBatch, Invariance, PTL DEF ReaderSpec

-----------------------------------------------------------------------------
(* The integrity check of a fresh view.                                    *)

\* The block on the tests, which needs no other parts of a view.
LEMMA SeenTests ==
    ASSUME view.points = points, view.tests = tests
    PROVE  Seen!TestsIntegrity <=> TestsIntegrity
BY DEF TestsIntegrity, Seen!TestsIntegrity,
       AttemptsContinuous, Seen!AttemptsContinuous, Attempts, Seen!Attempts,
       AcceptableReading, Seen!AcceptableReading,
       EvaluateTest, Seen!EvaluateTest, WithinLimits, Seen!WithinLimits,
       Cardinality, Seen!Cardinality

\* A view with the parts of the batch passes the check the batch passes.
LEMMA SeenIntegrity ==
    ASSUME view.status = status, view.points = points, view.locked = locked,
           view.tests = tests, view.deviations = deviations,
           view.snapshot = snapshot, view.review = review,
           view.credential = credential
    PROVE  ValidateIntegrity => Seen!ValidateIntegrity
<1>1. PointsIntegrity => Seen!PointsIntegrity
  BY DEF PointsIntegrity, Seen!PointsIntegrity, WithinCapacity,
         Seen!WithinCapacity
<1>2. TestsIntegrity => Seen!TestsIntegrity
  BY SeenTests
<1>3. DeviationsIntegrity => Seen!DeviationsIntegrity
  BY DEF DeviationsIntegrity, Seen!DeviationsIntegrity
<1>4. StatusIntegrity => Seen!StatusIntegrity
  BY DEF StatusIntegrity, Seen!StatusIntegrity, Statuses, Seen!Statuses,
         PassedPoints, Seen!PassedPoints, TestedPoints, Seen!TestedPoints,
         LatestTest, Seen!LatestTest, IsLatest, Seen!IsLatest,
         Attempts, Seen!Attempts, NothingBlocks, Seen!NothingBlocks,
         OpenDeviations, Seen!OpenDeviations,
         CriticalDeviations, Seen!CriticalDeviations,
         UnconfirmedDeviations, Seen!UnconfirmedDeviations
<1>5. RecordsIntegrity => Seen!RecordsIntegrity
  BY DEF RecordsIntegrity, Seen!RecordsIntegrity, Digest, Seen!Digest,
         Cardinality, Seen!Cardinality
<1> QED BY <1>1, <1>2, <1>3, <1>4, <1>5
           DEF ValidateIntegrity, Seen!ValidateIntegrity

\* A reader that ends with the version the batch still has is given the batch
\* (loadBatch, ValidateIntegrity).
THEOREM CurrentReadTrue == ReaderSpec => []ReadCurrent
<1>1. ASSUME IInv, ReadInv, Complete, behind = 0 PROVE Returned /\ view = Batch
  <2>1. Fresh /\ loaded = 7
    BY <1>1, Queries DEF ReadInv, Complete
  <2>2. view = Batch
    BY <1>1, <2>1 DEF ReadInv, Shape, Fresh, Batch
  <2>3. Seen!ValidateIntegrity
    BY <1>1, <2>1, SeenIntegrity DEF Fresh, IInv
  <2> QED BY <1>1, <2>2, <2>3 DEF Returned
<1>2. IInv /\ ReadInv => ReadCurrent
  BY <1>1 DEF ReadCurrent
<1> QED BY <1>2, ReadInvariance, ReaderIsBatch, Invariance, PTL

\* A verification of whatever mixture a reader got never reports a mismatch,
\* and what it calls valid is the batch's credential (VerifyBatch).
THEOREM VerifiedTrue == ReaderSpec => []VerificationTrue
<1>1. ASSUME IInv, ReadInv PROVE VerificationTrue
  <2>1. CASE view.snapshot = NULL \/ view.credential = NULL
    BY <2>1 DEF VerificationTrue, Verification, Seen!VerifyCredential
  <2>2. CASE view.snapshot # NULL /\ view.credential # NULL
    <3>1. view.snapshot = snapshot /\ view.credential = credential
      BY <1>1, <2>2 DEF ReadInv, RecordsKept
    <3>2. /\ Digest(snapshot.content) = credential.digest
          /\ snapshot.digest = credential.digest
      BY <1>1, <2>2, <3>1 DEF IInv, SnapshotCurrent, CredentialMatches
    <3>3. VerifyCredential = "valid" /\ Verification = "valid"
      BY <2>2, <3>1, <3>2 DEF VerifyCredential, Verification,
                              Seen!VerifyCredential, Digest, Seen!Digest
    <3> QED BY <3>1, <3>3 DEF VerificationTrue
  <2> QED BY <2>1, <2>2
<1> QED BY <1>1, ReadInvariance, ReaderIsBatch, Invariance, PTL

\* What a verification has called valid is the credential of the batch for
\* good: whatever commits after the answer, the batch stays released with that
\* credential and every later verification of it says valid (VerifyBatch,
\* IssueCredential).
THEOREM ValidForEver ==
    ASSUME NEW c
    PROVE  ReaderSpec =>
            [](Returned /\ Verification = "valid" /\ view.credential = c =>
                [](/\ credential = c /\ status = "released"
                   /\ VerifyCredential = "valid"))
<1> DEFINE Answered == Returned /\ Verification = "valid" /\ view.credential = c
           Issued == credential = c /\ c # NULL
           Stands == /\ credential = c /\ status = "released"
                     /\ VerifyCredential = "valid"
<1>1. VerificationTrue /\ Answered => Issued
  BY DEF VerificationTrue, Verification, Seen!VerifyCredential
<1>2. Spec => [](Issued => []Stands)
  BY CredentialForEver
<1> HIDE DEF Answered, Issued, Stands
<1>3. ReaderSpec => [](Answered => []Stands)
  BY <1>1, <1>2, VerifiedTrue, ReaderIsBatch, PTL
<1> QED BY <1>3 DEF Answered, Stands

-----------------------------------------------------------------------------
(* The preview.                                                            *)

Reviewable == {"pending_review", "frozen", "released"}

\* A batch that waits for tests has none, and one that is being tested has a
\* point that has not passed: the status does not lag behind the tests.
PendingWork ==
    /\ status = "awaiting_tests" => tests = <<>>
    /\ status = "testing" => PassedPoints(points, tests) # points

\* refreshStatus and the failure of a test keep PendingWork.
LEMMA PendingKeeps == IInv /\ PendingWork /\ [Next]_vars => PendingWork'
<1> SUFFICES ASSUME IInv, PendingWork, [Next]_vars PROVE PendingWork'
  OBVIOUS
<1>1. ASSUME NEW p \in PointIds, NEW r \in Readings, RecordTest(p, r)
      PROVE  PendingWork'
  <2>1. p \in points /\ points' = points
    BY <1>1 DEF RecordTest, AddTest
  <2>2. status' = "blocked" \/ status' = RefreshedStatus(points, tests', deviations)
    BY <1>1 DEF RecordTest, AddTest
  <2> QED BY <2>1, <2>2 DEF RefreshedStatus, PendingWork
<1>2. ASSUME NEW d \in DOMAIN deviations, NEW r \in Readings, Retest(d, r)
      PROVE  PendingWork'
  <2>1. points' = points /\ points # {}
    BY <1>2 DEF Retest, CloseDeviation, IInv, ValidateIntegrity,
                DeviationsIntegrity, TestsIntegrity
  <2>2. status' = "blocked" \/ status' = RefreshedStatus(points, tests', deviations')
    BY <1>2 DEF Retest, CloseDeviation
  <2> QED BY <2>1, <2>2 DEF RefreshedStatus, PendingWork
<1>3. CASE LockBatch
  BY <1>3 DEF LockBatch, Lock, PendingWork, IInv, RecordsByStage
<1>4. CASE UNCHANGED vars
  BY <1>4 DEF vars, PendingWork
<1> QED
  BY <1>1, <1>2, <1>3, <1>4
     DEF Next, PendingWork, UpdateBatch, UpdateDetails, AddPoint, AddPoints,
         Registrable, Remediate, SubmitRemediation, UpdateDeviation,
         ReviseDeviation, Approve, Freeze, Issue, IssueCredential

\* Past its draft a batch keeps its points, from the review on it stays there,
\* and its tests stay where they are.
LEMMA StagesStay ==
    ASSUME IInv, Next
    PROVE  /\ status # "draft" => status' # "draft" /\ points' = points
           /\ status \in Reviewable => status' \in Reviewable
           /\ \A i \in DOMAIN tests : i \in DOMAIN tests' /\ tests'[i] = tests[i]
           /\ \A p \in PointIds : Attempts(tests, p) # {} => Attempts(tests', p) # {}
           /\ tests' = tests \/ Len(tests') = Len(tests) + 1
<1>1. ASSUME NEW p \in PointIds, NEW r \in Readings, RecordTest(p, r)
      PROVE  /\ status' # "draft" /\ points' = points /\ status \notin Reviewable
             /\ tests' = Append(tests, NewTest(p, r)) /\ NewTest(p, r) \in LoadTest
  <2>1. p \in points
    BY <1>1 DEF RecordTest, AddTest
  <2>2. tests' = Append(tests, NewTest(p, r))
    BY <1>1 DEF RecordTest, AddTest
  <2>3. NewTest(p, r) \in LoadTest
    BY <2>1, <2>2, NewTestAppended
  <2> QED BY <1>1, <2>2, <2>3 DEF RecordTest, AddTest, AcceptsTests,
                                  RefreshedStatus, Reviewable
<1>2. ASSUME NEW d \in DOMAIN deviations, NEW r \in Readings, Retest(d, r)
      PROVE  /\ status' # "draft" /\ points' = points /\ status \notin Reviewable
             /\ \E t \in LoadTest : tests' = Append(tests, t)
  <2>1. status = "blocked"
    BY <1>2, RetestBlocked
  <2> DEFINE q == deviations[d].point
  <2>2. q \in points
    BY <1>2 DEF IInv, ValidateIntegrity, DeviationsIntegrity, TestsIntegrity
  <2>3. tests' = Append(tests, NewTest(q, r))
    BY <1>2 DEF Retest, CloseDeviation
  <2> HIDE DEF q
  <2>4. NewTest(q, r) \in LoadTest
    BY <2>2, <2>3, NewTestAppended
  <2>5. status' # "draft" /\ points' = points
    BY <1>2 DEF Retest, CloseDeviation, RefreshedStatus
  <2> QED BY <2>1, <2>3, <2>4, <2>5 DEF Reviewable
<1>3. ASSUME NEW d \in DOMAIN deviations, NEW severity \in Severities \cup {""},
             NEW confirm \in BOOLEAN, UpdateDeviation(d, severity, confirm)
      PROVE  /\ status = "blocked" /\ status' # "draft" /\ points' = points
             /\ tests' = tests
  BY <1>3, UpdateDeviationBlocked DEF UpdateDeviation, ReviseDeviation
<1>4. ASSUME NEW t \in LoadTest, tests' = Append(tests, t), NEW i \in DOMAIN tests
      PROVE  i \in DOMAIN tests' /\ tests'[i] = tests[i]
  <2>1. tests \in Seq(LoadTest)
    BY DEF IInv, TypeOK
  <2> QED BY <1>4, <2>1, AppendProperties
<1>5. \/ \E t \in LoadTest : tests' = Append(tests, t)
      \/ tests' = tests
  BY <1>1, <1>2, <1>3 DEF Next, UpdateBatch, UpdateDetails, AddPoint,
                          AddPoints, Registrable, LockBatch, Lock, Remediate,
                          SubmitRemediation, Approve, Freeze, Issue,
                          IssueCredential
<1>6. \A i \in DOMAIN tests : i \in DOMAIN tests' /\ tests'[i] = tests[i]
  BY <1>4, <1>5
<1>7. status # "draft" => status' # "draft" /\ points' = points
  BY <1>1, <1>2, <1>3 DEF Next, UpdateBatch, UpdateDetails, AddPoint,
                          AddPoints, Registrable, LockBatch, Lock, Remediate,
                          SubmitRemediation, Approve, Freeze, Issue,
                          IssueCredential
<1>8. status \in Reviewable => status' \in Reviewable
  BY <1>1, <1>2, <1>3 DEF Next, UpdateBatch, UpdateDetails, AddPoint,
                          AddPoints, Registrable, LockBatch, Lock, Remediate,
                          SubmitRemediation, Approve, Freeze, Issue,
                          IssueCredential, Reviewable
<1>9. \A p \in PointIds : Attempts(tests, p) # {} => Attempts(tests', p) # {}
  BY <1>6 DEF Attempts
<1>10. tests' = tests \/ Len(tests') = Len(tests) + 1
  <2>1. tests \in Seq(LoadTest)
    BY DEF IInv, TypeOK
  <2> QED BY <1>5, <2>1, AppendProperties
<1> QED BY <1>6, <1>7, <1>8, <1>9, <1>10

\* Where every point has a test and nothing blocks, the batch is under review.
LEMMA ClearIsReviewable ==
    ASSUME IInv, PendingWork, status # "draft",
           \A p \in points : Attempts(tests, p) # {}, NothingBlocks(deviations)
    PROVE  status \in Reviewable
<1>1. /\ status \in Statuses /\ TypeOK /\ OpenDeviations(deviations) = {}
      /\ tests \in Seq(LoadTest) /\ points \subseteq PointIds
      /\ \A p \in points : AttemptsContinuous(tests, p)
  BY DEF IInv, ValidateIntegrity, StatusIntegrity, TestsIntegrity, TypeOK,
         NothingBlocks
<1>2. status # "blocked"
  BY <1>1 DEF IInv, OpenDeviationBlocks
<1>3. status # "awaiting_tests"
  <2>1. ASSUME status = "awaiting_tests" PROVE FALSE
    <3>1. PICK p \in points : TRUE
      BY <2>1 DEF IInv, ValidateIntegrity, StatusIntegrity
    <3> QED BY <2>1, <3>1 DEF PendingWork, Attempts
  <2> QED BY <2>1
<1>4. PassedPoints(points, tests) = points
  <2>1. ASSUME NEW p \in points PROVE tests[LatestTest(tests, p)].result = "passed"
    <3>1. LatestTest(tests, p) \in DOMAIN tests /\ p \in PointIds
      BY <1>1, LatestExists
    <3>2. tests[LatestTest(tests, p)] \in LoadTest
      BY <1>1, <3>1, SeqElement
    <3>3. tests[LatestTest(tests, p)].result # "failed"
      BY <1>1 DEF IInv, FailedPointHeld, TestedPoints
    <3> QED BY <3>2, <3>3 DEF LoadTest
  <2> QED BY <2>1 DEF PassedPoints, TestedPoints
<1> QED BY <1>1, <1>2, <1>3, <1>4 DEF PendingWork, Statuses, Reviewable

\* What the queries up to the deviations leave true of the batch.
PreviewInv ==
    /\ loaded >= 1 /\ view.status # "draft" => status # "draft"
    /\ loaded >= 2 /\ view.status # "draft" => view.points = points
    /\ loaded >= 3 => \A p \in PointIds :
            Attempts(view.tests, p) # {} => Attempts(tests, p) # {}
    /\ loaded >= 4 /\ view.status # "draft" /\ NothingInTheWay(view) =>
            status \in Reviewable

\* A query keeps PreviewInv; the one of the deviations decides the preview.
LEMMA LoadKeepsPreview ==
    ASSUME IInv, PendingWork, ReadInv, PreviewInv, Load
    PROVE  PreviewInv'
<1> DEFINE k == loaded + 1
<1>1. /\ k \in 1 .. 7 /\ loaded' = k /\ loaded \in 0 .. 6 /\ Shape(view)
      /\ view' = Loaded(view, Order[k])
      /\ UNCHANGED <<vars, testRows>>
  BY Queries DEF ReadInv, Load
<1>2. /\ view'.status = IF k = 1 THEN status ELSE view.status
      /\ view'.points = IF k = 2 THEN points ELSE view.points
      /\ view'.tests = IF k = 3 THEN tests ELSE view.tests
      /\ view'.rows = IF k = 3 THEN testRows ELSE view.rows
      /\ view'.deviations = IF k = 4 THEN deviations ELSE view.deviations
  BY <1>1, LoadedParts
<1>3. UNCHANGED <<status, points, tests, deviations>> /\ points \subseteq PointIds
  BY <1>1 DEF vars, IInv, TypeOK
<1>4. ASSUME k >= 4, view'.status # "draft", NothingInTheWay(view')
      PROVE  status \in Reviewable
  <2>1. CASE k = 4
    <3>1. /\ status # "draft" /\ view'.points = points
          /\ \A p \in PointIds :
                Attempts(view'.tests, p) # {} => Attempts(tests, p) # {}
      BY <1>1, <1>2, <1>4, <2>1 DEF PreviewInv
    <3>2. /\ TestedPoints(points, view'.tests) = points
          /\ NothingBlocks(deviations)
      BY <1>2, <1>4, <2>1, <3>1 DEF NothingInTheWay
    <3>3. \A p \in points : Attempts(tests, p) # {}
      BY <1>3, <3>1, <3>2 DEF TestedPoints
    <3> QED BY <3>1, <3>2, <3>3, ClearIsReviewable
  <2>2. CASE k > 4
    <3>1. NothingInTheWay(view)
      BY <1>2, <1>4, <2>2 DEF NothingInTheWay
    <3> QED BY <1>1, <1>2, <1>4, <2>2, <3>1 DEF PreviewInv
  <2> QED BY <1>1, <1>4, <2>1, <2>2
<1>5. k >= 1 /\ view'.status # "draft" => status # "draft"
  BY <1>1, <1>2 DEF PreviewInv
<1>6. k >= 2 /\ view'.status # "draft" => view'.points = points
  BY <1>1, <1>2 DEF PreviewInv
<1>7. k >= 3 => \A p \in PointIds :
            Attempts(view'.tests, p) # {} => Attempts(tests, p) # {}
  BY <1>1, <1>2 DEF PreviewInv
<1> HIDE DEF k
<1> QED BY <1>1, <1>3, <1>4, <1>5, <1>6, <1>7
           DEF PreviewInv, NothingInTheWay

\* PreviewInv and PendingWork are inductive next to the others.
LEMMA PreviewKeeps ==
    IInv /\ ReadInv /\ PendingWork /\ PreviewInv /\ [ReaderNext]_readerVars
        => PendingWork' /\ PreviewInv'
<1> SUFFICES ASSUME IInv, ReadInv, PendingWork, PreviewInv,
                    [ReaderNext]_readerVars
             PROVE  PendingWork' /\ PreviewInv'
  OBVIOUS
<1>1. PendingWork'
  BY ReaderStep, PendingKeeps
<1>2. CASE Load
  BY <1>1, <1>2, LoadKeepsPreview
<1>3. CASE Stop
  BY <1>1, <1>3 DEF Stop, PreviewInv
<1>4. CASE Commit
  <2>1. UNCHANGED <<loaded, view>> /\ Next
    BY <1>4 DEF Commit
  <2>2. /\ status # "draft" => status' # "draft" /\ points' = points
        /\ status \in Reviewable => status' \in Reviewable
        /\ \A p \in PointIds : Attempts(tests, p) # {} => Attempts(tests', p) # {}
    BY <2>1, StagesStay
  <2>3. loaded \in 0 .. 7
    BY DEF ReadInv
  <2> QED BY <1>1, <2>1, <2>2, <2>3 DEF PreviewInv
<1>5. CASE UNCHANGED readerVars
  BY <1>1, <1>5 DEF readerVars, vars, PreviewInv
<1> QED BY <1>1, <1>2, <1>3, <1>4, <1>5 DEF ReaderNext

\* A preview without a blocking reason of a batch past its draft is true,
\* whatever committed between the queries (ApprovalPreview).
THEOREM PreviewsTrue == ReaderSpec => []PreviewTrue
<1>1. ReaderInit => PendingWork /\ PreviewInv
  BY DEF ReaderInit, Init, PendingWork, PreviewInv
<1>2. ReaderSpec => [](PendingWork /\ PreviewInv)
  BY <1>1, PreviewKeeps, ReadInvariance, ReaderIsBatch, Invariance, PTL
     DEF ReaderSpec
<1>3. ASSUME IInv, PreviewInv PROVE PreviewTrue
  <2> SUFFICES ASSUME Complete, view.status # "draft", NothingInTheWay(view)
               PROVE  status \in Reviewable /\ NothingInTheWay(Batch)
    BY DEF PreviewTrue, Returned, Reviewable
  <2>1. status \in Reviewable
    BY <1>3, Queries DEF PreviewInv, Complete
  <2>2. PassedPoints(points, tests) = points /\ NothingBlocks(deviations)
    BY <1>3, <2>1 DEF IInv, ClearFromReview, Reviewable
  <2>3. TestedPoints(points, tests) = points
    BY <2>2 DEF PassedPoints, TestedPoints
  <2> QED BY <2>1, <2>2, <2>3 DEF NothingInTheWay, Batch
<1> QED BY <1>2, <1>3, ReaderIsBatch, Invariance, PTL
-----------------------------------------------------------------------------
(* The history of a point.                                                 *)

\* rs lists each of the tests 1 to n once.
Lists(rs, n) ==
    /\ rs \in [1 .. n -> 1 .. n]
    /\ \A k, l \in 1 .. n : rs[k] = rs[l] => k = l
    /\ \A i \in 1 .. n : \E k \in 1 .. n : rs[k] = i

\* The rows of the batch are its tests, each one once.
RowsOnce == Lists(testRows, Len(tests))

\* The tests of a view are those the batch recorded first, and the batch lists
\* them among its rows in the same order.
Beginning ==
    /\ Increasing(view.tests)
    /\ \A i \in DOMAIN view.tests : i \in DOMAIN tests /\ tests[i] = view.tests[i]
    /\ Lists(view.rows, Len(view.tests))
    /\ \A k, l \in DOMAIN view.rows :
        k < l => ListedBefore(view.rows[k], view.rows[l])

\* A list of n tests is a sequence of length n.
LEMMA ListIsSeq ==
    ASSUME NEW n \in Nat, NEW rs, Lists(rs, n)
    PROVE  rs \in Seq(1 .. n) /\ Len(rs) = n
BY DEF Lists

\* Wherever a new row is put, every test is listed once and the older rows
\* keep their order.
LEMMA InsertedLists ==
    ASSUME NEW n \in Nat, Lists(testRows, n), NEW k \in 1 .. n + 1
    PROVE  LET rs == Inserted(k, n + 1) IN
           /\ Lists(rs, n + 1)
           /\ \A x, y \in 1 .. n : x < y =>
                \E u, w \in 1 .. n + 1 :
                    u < w /\ rs[u] = testRows[x] /\ rs[w] = testRows[y]
<1> DEFINE rs == Inserted(k, n + 1)
<1>1. Len(testRows) = n
  BY ListIsSeq
<1>2. rs = [j \in 1 .. n + 1 |->
                IF j < k THEN testRows[j]
                ELSE IF j = k THEN n + 1 ELSE testRows[j - 1]]
  BY <1>1 DEF Inserted
<1>3. \A j \in 1 .. n : testRows[j] \in 1 .. n
  BY DEF Lists
<1>4. /\ rs \in [1 .. n + 1 -> 1 .. n + 1]
      /\ \A j \in 1 .. n : j < k => rs[j] = testRows[j]
      /\ \A j \in 1 .. n : ~(j < k) => rs[j + 1] = testRows[j]
      /\ rs[k] = n + 1
  <2> HIDE DEF rs
  <2> QED BY <1>2, <1>3
<1>5. ASSUME NEW j \in 1 .. n + 1, NEW l \in 1 .. n + 1, rs[j] = rs[l]
      PROVE  j = l
  <2> HIDE DEF rs
  <2>1. \A x, y \in 1 .. n : testRows[x] = testRows[y] => x = y
    BY DEF Lists
  <2>2. /\ j < k => rs[j] = testRows[j] /\ j \in 1 .. n
        /\ k < j => rs[j] = testRows[j - 1] /\ j - 1 \in 1 .. n
        /\ l < k => rs[l] = testRows[l] /\ l \in 1 .. n
        /\ k < l => rs[l] = testRows[l - 1] /\ l - 1 \in 1 .. n
    BY <1>2
  <2>3. (j = k) <=> (l = k)
    <3>1. \A x \in 1 .. n : testRows[x] \in Nat /\ testRows[x] < n + 1
      BY <1>3
    <3>2. /\ j # k => rs[j] \in Nat /\ rs[j] < n + 1
          /\ l # k => rs[l] \in Nat /\ rs[l] < n + 1
      <4>1. /\ j # k => j < k \/ k < j
            /\ l # k => l < k \/ k < l
        OBVIOUS
      <4> QED BY <2>2, <3>1, <4>1
    <3>3. rs[k] = n + 1
      BY <1>4
    <3> QED BY <1>5, <3>2, <3>3
  <2>4. CASE j # k
    <3>1. (j < k \/ k < j) /\ (l < k \/ k < l)
      BY <2>3, <2>4
    <3> QED BY <1>5, <2>1, <2>2, <3>1
  <2> QED BY <2>3, <2>4
<1>6. ASSUME NEW i \in 1 .. n + 1 PROVE \E j \in 1 .. n + 1 : rs[j] = i
  <2> HIDE DEF rs
  <2>1. CASE i = n + 1
    BY <1>4, <2>1
  <2>2. CASE i # n + 1
    <3>1. PICK j \in 1 .. n : testRows[j] = i
      BY <2>2 DEF Lists
    <3>2. rs[j] = i \/ rs[j + 1] = i
      BY <1>4, <3>1
    <3> QED BY <3>1, <3>2
  <2> QED BY <2>1, <2>2
<1>7. ASSUME NEW x \in 1 .. n, NEW y \in 1 .. n, x < y
      PROVE  \E u, w \in 1 .. n + 1 :
                u < w /\ rs[u] = testRows[x] /\ rs[w] = testRows[y]
  <2> HIDE DEF rs
  <2> DEFINE u == IF x < k THEN x ELSE x + 1
             w == IF y < k THEN y ELSE y + 1
  <2>1. u \in 1 .. n + 1 /\ w \in 1 .. n + 1 /\ u < w
    BY <1>7
  <2>2. rs[u] = testRows[x] /\ rs[w] = testRows[y]
    BY <1>4
  <2> QED BY <2>1, <2>2
<1>8. Lists(rs, n + 1)
  <2> HIDE DEF rs
  <2> QED BY <1>4, <1>5, <1>6 DEF Lists
<1> QED BY <1>7, <1>8

\* A command keeps RowsOnce, and every row before the rows it was before.
LEMMA CommitKeepsRows ==
    ASSUME IInv, RowsOnce, Commit
    PROVE  /\ RowsOnce'
           /\ \A i, j \in DOMAIN tests : ListedBefore(i, j) => ListedBefore(i, j)'
<1> DEFINE n == Len(tests)
<1>1. n \in Nat /\ DOMAIN tests = 1 .. n
  BY DEF IInv, TypeOK
<1>2. tests' = tests \/ Len(tests') = n + 1
  BY StagesStay DEF Commit
<1>3. testRows \in Seq(1 .. n) /\ Len(testRows) = n
  BY <1>1, ListIsSeq DEF RowsOnce
<1>4. CASE tests' = tests
  <2>1. testRows' = testRows
    BY <1>4 DEF Commit
  <2> QED BY <1>4, <2>1 DEF RowsOnce, ListedBefore
<1>5. CASE tests' # tests
  <2>1. PICK k \in 1 .. n + 1 : testRows' = Inserted(k, n + 1)
    <3>1. \E k \in 1 .. Len(testRows) + 1 :
              testRows' = Inserted(k, Len(tests'))
      BY <1>5 DEF Commit
    <3>2. Len(tests') = n + 1
      BY <1>2, <1>5
    <3> HIDE DEF n
    <3> QED BY <1>3, <3>1, <3>2
  <2>2. /\ Lists(testRows', n + 1)
        /\ \A x, y \in 1 .. n : x < y =>
            \E u, w \in 1 .. n + 1 :
                u < w /\ testRows'[u] = testRows[x] /\ testRows'[w] = testRows[y]
    <3>1. Lists(testRows, n)
      BY DEF RowsOnce
    <3> DEFINE rs == Inserted(k, n + 1)
    <3> HIDE DEF n
    <3>2. /\ Lists(rs, n + 1)
          /\ \A x, y \in 1 .. n : x < y =>
              \E u, w \in 1 .. n + 1 :
                  u < w /\ rs[u] = testRows[x] /\ rs[w] = testRows[y]
      BY <1>1, <3>1, InsertedLists
    <3>3. testRows' = rs
      BY <2>1
    <3> HIDE DEF rs
    <3> QED BY <3>2, <3>3
  <2>3. DOMAIN testRows = 1 .. n /\ DOMAIN testRows' = 1 .. n + 1
    BY <1>3, <2>2 DEF Lists
  <2> HIDE DEF n
  <2>4. \A i, j \in DOMAIN tests : ListedBefore(i, j) => ListedBefore(i, j)'
    BY <2>2, <2>3 DEF ListedBefore
  <2>5. Len(tests') = n + 1
    BY <1>2, <1>5
  <2> QED BY <2>2, <2>4, <2>5 DEF RowsOnce
<1> QED BY <1>4, <1>5

\* A query reads values of the types of the batch, and its tests as they are.
LEMMA LoadKeepsView ==
    ASSUME IInv, ReadInv, RowsOnce, ReaderTypeOK, Beginning, Load
    PROVE  ReaderTypeOK' /\ Beginning'
<1> DEFINE k == loaded + 1
<1>1. /\ k \in 1 .. 7 /\ loaded' = k /\ Shape(view)
      /\ view' = Loaded(view, Order[k])
      /\ UNCHANGED <<vars, testRows>>
      /\ behind' = 0 \/ behind' = behind
  BY Queries DEF ReadInv, Load
<1>2. Shape(view')
  BY <1>1, LoadedParts
<1>3. /\ view'.details = IF k = 1 THEN details ELSE view.details
      /\ view'.status = IF k = 1 THEN status ELSE view.status
      /\ view'.points = IF k = 2 THEN points ELSE view.points
      /\ view'.locked = IF k = 2 THEN locked ELSE view.locked
      /\ view'.tests = IF k = 3 THEN tests ELSE view.tests
      /\ view'.rows = IF k = 3 THEN testRows ELSE view.rows
      /\ view'.deviations = IF k = 4 THEN deviations ELSE view.deviations
  BY <1>1, LoadedParts
<1>4. /\ details \in Details /\ status \in Statuses
      /\ points \subseteq PointIds /\ locked \subseteq PointIds
      /\ tests \in Seq(LoadTest) /\ deviations \in Seq(Deviation)
      /\ Increasing(tests)
      /\ testRows \in Seq(DOMAIN tests) /\ DOMAIN testRows = 1 .. Len(tests)
  <2>1. tests \in Seq(LoadTest)
    BY DEF IInv, TypeOK
  <2>2. DOMAIN tests = 1 .. Len(tests) /\ Len(tests) \in Nat
    BY <2>1
  <2>3. testRows \in Seq(1 .. Len(tests)) /\ Len(testRows) = Len(tests)
    BY <2>2, ListIsSeq DEF RowsOnce
  <2> QED BY <2>2, <2>3 DEF IInv, TypeOK
<1>5. loaded' \in 0 .. Len(Order) /\ behind' \in 0 .. MaxBehind
  <2>1. MaxBehind \in Nat /\ behind \in 0 .. MaxBehind
    BY MaxBehindTyping DEF ReaderTypeOK
  <2>2. 0 \in 0 .. MaxBehind
    BY <2>1
  <2>3. k \in 0 .. Len(Order)
    BY <1>1, Queries
  <2> HIDE DEF k
  <2> QED BY <1>1, <2>1, <2>2, <2>3
<1>6. DOMAIN view' = DOMAIN Blank
  BY <1>2 DEF Shape, Blank
<1>7. UNCHANGED <<tests, testRows>>
  BY <1>1 DEF vars
<1>8. Beginning'
  <2>1. CASE k = 3
    <3>1. view'.tests = tests /\ view'.rows = testRows
      BY <1>3, <2>1
    <3>2. \A x, y \in DOMAIN testRows :
            x < y => ListedBefore(testRows[x], testRows[y])
      BY DEF ListedBefore
    <3> QED BY <1>4, <1>7, <3>1, <3>2 DEF Beginning, RowsOnce, ListedBefore
  <2>2. CASE k # 3
    BY <1>3, <1>7, <2>2 DEF Beginning, ListedBefore
  <2> QED BY <2>1, <2>2
<1> HIDE DEF k
<1> QED BY <1>3, <1>4, <1>5, <1>6, <1>7, <1>8 DEF ReaderTypeOK, Statuses

\* What the proofs say of a view, its rows and its types together.
ViewInv == RowsOnce /\ ReaderTypeOK /\ Beginning

\* ViewInv is inductive next to the invariants of the batch and of the read.
LEMMA ViewKeeps ==
    IInv /\ ReadInv /\ ViewInv /\ [ReaderNext]_readerVars => ViewInv'
<1> SUFFICES ASSUME IInv, ReadInv, RowsOnce, ReaderTypeOK, Beginning,
                    [ReaderNext]_readerVars
             PROVE  RowsOnce' /\ ReaderTypeOK' /\ Beginning'
  BY DEF ViewInv
<1>1. CASE Load
  <2>1. RowsOnce'
    BY <1>1 DEF Load, vars, RowsOnce
  <2> QED BY <1>1, <2>1, LoadKeepsView
<1>2. CASE Stop
  <2>1. /\ loaded' = 0 /\ view' = Blank /\ behind' = 0
        /\ UNCHANGED <<tests, testRows>>
    BY <1>2 DEF Stop, vars
  <2>2. /\ Blank.details = NULL /\ Blank.status = NULL
        /\ Blank.points = {} /\ Blank.locked = {}
        /\ Blank.tests = <<>> /\ Blank.deviations = <<>>
        /\ Blank.rows = <<>>
    BY DEF Blank
  <2>3. 0 \in 0 .. Len(Order) /\ 0 \in 0 .. MaxBehind
    BY Queries, MaxBehindTyping
  <2>4. Beginning'
    BY <2>1, <2>2 DEF Beginning, Increasing, Lists
  <2> QED BY <2>1, <2>2, <2>3, <2>4 DEF ReaderTypeOK, Statuses, RowsOnce
<1>3. CASE Commit
  <2>1. /\ UNCHANGED <<loaded, view>> /\ Next
        /\ loaded > 0 => behind < MaxBehind
        /\ behind' = IF loaded = 0 THEN 0 ELSE behind + 1
    BY <1>3 DEF Commit
  <2>2. \A i \in DOMAIN tests : i \in DOMAIN tests' /\ tests'[i] = tests[i]
    BY <2>1, StagesStay
  <2>3. behind' \in 0 .. MaxBehind
    BY <2>1, MaxBehindTyping DEF ReaderTypeOK
  <2>4. /\ RowsOnce'
        /\ \A i, j \in DOMAIN tests : ListedBefore(i, j) => ListedBefore(i, j)'
    BY <1>3, CommitKeepsRows
  <2>5. testRows' \in Seq(DOMAIN tests')
    <3>1. tests' \in Seq(LoadTest)
      BY <2>1, StepIInv DEF IInv, TypeOK
    <3>2. DOMAIN tests' = 1 .. Len(tests') /\ Len(tests') \in Nat
      BY <3>1
    <3> QED BY <2>4, <3>2, ListIsSeq DEF RowsOnce
  <2>6. \A k \in DOMAIN view.rows : view.rows[k] \in DOMAIN tests
    BY DEF ReaderTypeOK, Beginning, Lists
  <2>7. \A k, l \in DOMAIN view.rows :
            k < l => ListedBefore(view.rows[k], view.rows[l])'
    BY <2>1, <2>4, <2>6 DEF Beginning
  <2>8. Beginning'
    BY <2>1, <2>2, <2>7 DEF Beginning
  <2> QED BY <2>1, <2>3, <2>4, <2>5, <2>8 DEF ReaderTypeOK, Statuses
<1>4. CASE UNCHANGED readerVars
  BY <1>4 DEF readerVars, vars, ReaderTypeOK, Beginning, Statuses, RowsOnce,
              ListedBefore
<1> QED BY <1>1, <1>2, <1>3, <1>4 DEF ReaderNext

\* A view holds values of the types of the batch, and its tests are a
\* beginning of those of the batch, whatever has committed.
LEMMA ViewInvariance == ReaderSpec => []ViewInv
<1>1. ReaderInit => ViewInv
  <2> SUFFICES ASSUME ReaderInit PROVE ViewInv
    OBVIOUS
  <2>1. /\ loaded = 0 /\ view = Blank /\ behind = 0
        /\ testRows = <<>> /\ tests = <<>>
    BY DEF ReaderInit, Init
  <2>2. 0 \in 0 .. Len(Order) /\ 0 \in 0 .. MaxBehind
    BY Queries, MaxBehindTyping
  <2>3. RowsOnce
    BY <2>1 DEF RowsOnce, Lists
  <2>4. Beginning
    BY <2>1 DEF Beginning, Increasing, Blank, Lists
  <2> QED BY <2>1, <2>2, <2>3, <2>4 DEF ViewInv, ReaderTypeOK, Blank
<1> QED BY <1>1, ViewKeeps, ReadInvariance, ReaderIsBatch, Invariance, PTL
       DEF ReaderSpec

\* The variables of a reader keep their types (loadBatch).
THEOREM ReaderTypes == ReaderSpec => []ReaderTypeOK
<1>1. ViewInv => ReaderTypeOK
  BY DEF ViewInv
<1> QED BY <1>1, ViewInvariance, PTL

\* A point has as many rows in a list as it has tests.
LEMMA ToldCount ==
    ASSUME NEW v, v.tests \in Seq(LoadTest), Lists(v.rows, Len(v.tests)), NEW p
    PROVE  Cardinality(Told(v, p)) = Cardinality(Attempts(v.tests, p))
<1> DEFINE S == Told(v, p)
           A == Attempts(v.tests, p)
           n == Len(v.tests)
           f == [k \in S |-> v.rows[k]]
<1>1. n \in Nat /\ DOMAIN v.tests = 1 .. n /\ DOMAIN v.rows = 1 .. n
  BY DEF Lists
<1>2. \A k \in S : k \in 1 .. n /\ v.rows[k] \in A
  BY <1>1 DEF Told, Attempts, Lists
<1>3. IsFiniteSet(S)
  <2>1. IsFiniteSet(1 .. n)
    <3>1. 1 \in Int /\ n \in Int
      BY <1>1
    <3> HIDE DEF n
    <3> QED BY <3>1, FS_Interval
  <2>2. S \subseteq 1 .. n
    BY <1>2
  <2> HIDE DEF S, n
  <2> QED BY <2>1, <2>2, FS_Subset
<1>4. f \in [S -> A]
  BY <1>2
<1>5. \A k, l \in S : f[k] = f[l] => k = l
  BY <1>2 DEF Lists
<1>6. \A i \in A : \E k \in S : f[k] = i
  <2> SUFFICES ASSUME NEW i \in A PROVE \E k \in S : f[k] = i
    OBVIOUS
  <2>1. i \in 1 .. n /\ v.tests[i].point = p
    BY <1>1 DEF Attempts
  <2>2. PICK k \in 1 .. n : v.rows[k] = i
    BY <2>1 DEF Lists
  <2>3. k \in S
    BY <1>1, <2>1, <2>2 DEF Told
  <2> QED BY <2>2, <2>3
<1>7. ExistsBijection(S, A)
  <2> HIDE DEF S, A, f
  <2>1. f \in Bijection(S, A)
    BY <1>4, <1>5, <1>6
       DEF Bijection, Injection, Surjection, IsInjective
  <2> QED BY <2>1 DEF ExistsBijection
<1>8. Cardinality(S) = Cardinality(A)
  <2> HIDE DEF S, A, f, n
  <2> QED BY <1>3, <1>7, FS_Bijection
<1> QED BY <1>8

\* The history of a point that a client is told has the attempts 1 to n of the
\* batch, in an order that stays, and names the last of them as the latest,
\* although the points and the tests are read with two queries (TestHistory).
THEOREM HistoryToldTrue == ReaderSpec => []HistoryTrue
<1>1. ASSUME IInv, ViewInv, Returned, NEW p \in view.points
      PROVE  LET told == Told(view, p)
                 latest == TestAt(view, LatestRow(view, p))
             IN  /\ {TestAt(view, k).attempt : k \in told}
                        = 1 .. Cardinality(told)
                 /\ \A k \in told : /\ view.rows[k] \in DOMAIN tests
                                    /\ tests[view.rows[k]] = TestAt(view, k)
                 /\ \A k, l \in told :
                        k < l => ListedBefore(view.rows[k], view.rows[l])
                 /\ told # {} => latest.attempt = Cardinality(told)
                 /\ p \in PassedPoints(view.points, view.tests) <=>
                        told # {} /\ latest.result = "passed"
  <2> DEFINE ts == view.tests
             told == Told(view, p)
             A == Attempts(ts, p)
             n == Cardinality(told)
             top == LatestRow(view, p)
  <2>1. /\ ts \in Seq(LoadTest) /\ Increasing(ts)
        /\ Lists(view.rows, Len(ts))
        /\ DOMAIN ts = 1 .. Len(ts) /\ Len(ts) \in Nat
        /\ DOMAIN view.rows = 1 .. Len(ts)
    BY <1>1 DEF ViewInv, ReaderTypeOK, Beginning, Lists
  <2>2. AttemptsContinuous(ts, p)
    BY <1>1 DEF Returned, Seen!ValidateIntegrity, Seen!TestsIntegrity,
                AttemptsContinuous, Seen!AttemptsContinuous,
                Attempts, Seen!Attempts, Cardinality, Seen!Cardinality
  <2>3. {ts[i].attempt : i \in A} = 1 .. n
    BY <2>1, <2>2, ToldCount DEF AttemptsContinuous
  <2>4. \A k \in told : k \in 1 .. Len(ts) /\ view.rows[k] \in A
    BY <2>1 DEF Told, Attempts, Lists
  <2>5. \A i \in A : \E k \in told : view.rows[k] = i
    BY <2>1 DEF Told, Attempts, Lists
  <2>6. {TestAt(view, k).attempt : k \in told} = 1 .. n
    <3> HIDE DEF told, A, n
    <3>1. {ts[view.rows[k]].attempt : k \in told} = {ts[i].attempt : i \in A}
      BY <2>4, <2>5
    <3> QED BY <2>3, <3>1 DEF TestAt
  <2>7. \A k \in told : /\ view.rows[k] \in DOMAIN tests
                       /\ tests[view.rows[k]] = TestAt(view, k)
    BY <1>1, <2>4 DEF ViewInv, Beginning, TestAt, Attempts
  <2>8. \A k, l \in told : k < l => ListedBefore(view.rows[k], view.rows[l])
    BY <1>1, <2>1, <2>4 DEF ViewInv, Beginning
  <2>9. n \in Nat
    <3>1. A \subseteq 1 .. Len(ts)
      BY <2>1 DEF Attempts
    <3>2. IsFiniteSet(1 .. Len(ts))
      <4>1. 1 \in Int /\ Len(ts) \in Int
        BY <2>1
      <4> QED BY <4>1, FS_Interval
    <3>3. Cardinality(A) \in Nat
      BY <3>1, <3>2, FS_Subset, FS_CardinalityType
    <3> QED BY <2>1, <3>3, ToldCount
  <2>10. ASSUME told # {}
         PROVE  /\ top \in told /\ TestAt(view, top).attempt = n
                /\ \A l \in told :
                    TestAt(view, l).attempt <= TestAt(view, top).attempt
    <3> HIDE DEF n
    <3>1. PICK k \in told : TRUE
      BY <2>10
    <3>2. TestAt(view, k).attempt \in 1 .. n
      BY <2>6
    <3>3. n \in 1 .. n
      BY <2>9, <3>2
    <3>4. PICK m \in told : TestAt(view, m).attempt = n
      BY <2>6, <3>3
    <3>5. \A l \in told : TestAt(view, l).attempt <= n
      BY <2>6, <2>9
    <3>6. /\ top \in told
          /\ \A l \in told :
                TestAt(view, l).attempt <= TestAt(view, top).attempt
      BY <3>4, <3>5 DEF LatestRow
    <3>7. TestAt(view, top).attempt \in 1 .. n
      BY <2>6, <3>6
    <3> QED BY <2>9, <3>4, <3>6, <3>7
  <2>11. p \in PassedPoints(view.points, ts) <=>
            told # {} /\ TestAt(view, top).result = "passed"
    <3>1. told # {} <=> A # {}
      BY <2>4, <2>5
    <3>2. CASE A # {}
      <4>1. /\ view.rows[top] \in A
            /\ \A i \in A : ts[i].attempt <= ts[view.rows[top]].attempt
        <5> HIDE DEF told, A, top
        <5> QED BY <2>4, <2>5, <2>10, <3>1, <3>2 DEF TestAt
      <4>2. IsLatest(ts, p, view.rows[top])
        BY <4>1 DEF IsLatest
      <4>3. p \in PointIds /\ view.rows[top] \in DOMAIN ts
        BY <1>1, <4>1 DEF ViewInv, ReaderTypeOK, Attempts
      <4>4. LatestTest(ts, p) = view.rows[top]
        <5> HIDE DEF top, ts
        <5> QED BY <2>1, <4>2, <4>3, LatestIs
      <4> QED BY <3>1, <3>2, <4>4 DEF PassedPoints, TestedPoints, TestAt
    <3>3. CASE A = {}
      BY <3>1, <3>3 DEF PassedPoints, TestedPoints
    <3> QED BY <3>2, <3>3
  <2> QED BY <2>6, <2>7, <2>8, <2>10, <2>11
<1>2. IInv /\ ViewInv => HistoryTrue
  BY <1>1 DEF HistoryTrue
<1> QED BY <1>2, ViewInvariance, ReaderIsBatch, Invariance, PTL

-----------------------------------------------------------------------------
(* The precheck.                                                           *)

\* Texts that EqualFold calls equal have the same lower case.  This is so for
\* texts without letters such as the long s, which folds to an s and is its
\* own lower case; of those a precheck promises nothing.
FoldsToLower ==
    \A p, q \in PointIds :
        /\ Fold[Code[p]] = Fold[Code[q]] => CodeKey(p) = CodeKey(q)
        /\ Fold[Hoist[p]] = Fold[Hoist[q]] => HoistKey(p) = HoistKey(q)

\* Rows a precheck has no fault with are registered if they are sent with the
\* version it read: the lower cases without blanks that PrecheckPoints compares
\* are at least as coarse as the EqualFold of AddPoint.  WorkAccepted adds that
\* the integrity check has no objection.
THEOREM PrecheckTrue ==
    ASSUME FoldsToLower
    PROVE  ReaderSpec => []PrecheckReliable
<1>1. ASSUME IInv, ReadCurrent, Returned, behind = 0, status = "draft",
             NEW rows \in SUBSET PointIds, PrecheckClean(view, rows)
      PROVE  Registrable(rows)
  <2>1. view.points = points
    BY <1>1 DEF ReadCurrent, Returned, Batch
  <2>2. /\ rows # {} /\ Cardinality(rows) <= MaxPerCall
        /\ \A p \in rows : WithinCapacity(Planned[p], Rated[p])
        /\ \A p \in rows : \A q \in points \cup (rows \ {p}) :
                CodeKey(p) # CodeKey(q) /\ HoistKey(p) # HoistKey(q)
    BY <1>1, <2>1 DEF PrecheckClean
  <2>3. rows \cap points = {}
    BY <2>2
  <2>4. ASSUME NEW p \in rows, NEW q \in (points \cup rows) \ {p}
        PROVE  ~Clash(p, q)
    <3>1. /\ CodeKey(p) # CodeKey(q) /\ HoistKey(p) # HoistKey(q)
          /\ p \in PointIds
      BY <2>2
    <3>2. q \in PointIds
      BY <1>1 DEF IInv, TypeOK
    <3> QED BY <3>1, <3>2 DEF FoldsToLower, Clash
  <2> QED BY <1>1, <2>2, <2>3, <2>4 DEF Registrable
<1>2. IInv /\ ReadCurrent => PrecheckReliable
  BY <1>1 DEF PrecheckReliable
<1> QED BY <1>2, CurrentReadTrue, ReaderIsBatch, Invariance, PTL
=============================================================================
