------------------------ MODULE InspectionBatchProofs ------------------------
(***************************************************************************)
(* What holds of every inspection batch, for all points, readings and      *)
(* bounds.  IInv of InspectionBatch is inductive: one lemma per command    *)
(* shows that it keeps IInv, and every theorem below follows from          *)
(* Invariance.  The integrity check is a conjunct of every command; the    *)
(* last part proves what it can refuse at all, by showing that the         *)
(* aggregate's own functions keep everything it looks at but one line.     *)
(***************************************************************************)
EXTENDS InspectionBatch, FiniteSetTheorems, TLAPS

-----------------------------------------------------------------------------
(* Sequences.                                                              *)

\* The type, domain and elements of an extended sequence.
LEMMA AppendProperties ==
    ASSUME NEW S, NEW s \in Seq(S), NEW e \in S
    PROVE  /\ Append(s, e) \in Seq(S)
           /\ Len(s) \in Nat
           /\ DOMAIN s = 1 .. Len(s)
           /\ DOMAIN Append(s, e) = 1 .. Len(s) + 1
           /\ \A i \in DOMAIN s : Append(s, e)[i] = s[i]
           /\ Append(s, e)[Len(s) + 1] = e
    OBVIOUS

\* An element of a sequence has the type of the sequence.
LEMMA SeqElement ==
    ASSUME NEW S, NEW s \in Seq(S), NEW i \in DOMAIN s
    PROVE  s[i] \in S
    OBVIOUS

\* The type, domain and elements of a sequence after one replacement.
LEMMA ReplaceProperties ==
    ASSUME NEW S, NEW s \in Seq(S), NEW d \in DOMAIN s, NEW e \in S
    PROVE  LET t == [s EXCEPT ![d] = e] IN
           /\ t \in Seq(S)
           /\ DOMAIN t = DOMAIN s
           /\ t[d] = e
           /\ \A i \in DOMAIN s : i # d => t[i] = s[i]
    OBVIOUS

-----------------------------------------------------------------------------
(* The latest test of a point.                                             *)

\* Continuous attempts give a tested point a latest test (LatestTest).
LEMMA LatestExists ==
    ASSUME NEW ts \in Seq(LoadTest), NEW p \in PointIds,
           AttemptsContinuous(ts, p), Attempts(ts, p) # {}
    PROVE  /\ LatestTest(ts, p) \in DOMAIN ts
           /\ IsLatest(ts, p, LatestTest(ts, p))
<1> DEFINE A == Attempts(ts, p)
           n == Cardinality(A)
<1>1. IsFiniteSet(A) /\ n \in Nat
  <2>1. IsFiniteSet(1 .. Len(ts))
    BY FS_Interval
  <2>2. A \subseteq 1 .. Len(ts)
    BY DEF Attempts
  <2> QED BY <2>1, <2>2, FS_Subset, FS_CardinalityType
<1>2. n # 0
  BY <1>1, FS_EmptySet
<1>3. n \in {ts[i].attempt : i \in A}
  BY <1>1, <1>2 DEF AttemptsContinuous
<1>4. PICK i \in A : ts[i].attempt = n
  BY <1>3
<1>5. \A j \in A : ts[j].attempt \in 1 .. n
  BY DEF AttemptsContinuous
<1>6. IsLatest(ts, p, i) /\ i \in DOMAIN ts
  BY <1>1, <1>4, <1>5 DEF IsLatest, Attempts
<1> QED BY <1>6 DEF LatestTest

\* Growing attempts make the latest test of a point unique (LatestTest).
LEMMA LatestIs ==
    ASSUME NEW ts \in Seq(LoadTest), NEW p \in PointIds, Increasing(ts),
           NEW i \in DOMAIN ts, IsLatest(ts, p, i)
    PROVE  LatestTest(ts, p) = i
<1> DEFINE k == LatestTest(ts, p)
<1>1. k \in DOMAIN ts /\ IsLatest(ts, p, k)
  BY DEF LatestTest
<1>2. /\ k \in Attempts(ts, p) /\ i \in Attempts(ts, p)
      /\ ts[i].attempt <= ts[k].attempt /\ ts[k].attempt <= ts[i].attempt
  BY <1>1 DEF IsLatest
<1>3. ts[i].point = ts[k].point /\ ts[i] \in LoadTest /\ ts[k] \in LoadTest
  BY <1>1, <1>2, SeqElement DEF Attempts
<1>4. ts[i].attempt \in Nat /\ ts[k].attempt \in Nat
  BY <1>3 DEF LoadTest
<1>5. ~(ts[i].attempt < ts[k].attempt) /\ ~(ts[k].attempt < ts[i].attempt)
  BY <1>2, <1>4
<1>6. ~(i < k) /\ ~(k < i)
  BY <1>1, <1>3, <1>5 DEF Increasing
<1>7. i \in Nat /\ k \in Nat
  BY <1>1
<1> QED BY <1>6, <1>7


\* What appending a test does: the new test is the latest of its point, and
\* the tests of every other point are as they were.
LEMMA TestAppended ==
    ASSUME NEW ts \in Seq(LoadTest), NEW t \in LoadTest, Increasing(ts),
           NEW P \in SUBSET PointIds,
           \A i \in Attempts(ts, t.point) : ts[i].attempt < t.attempt,
           \A q \in P : AttemptsContinuous(ts, q)
    PROVE  LET us == Append(ts, t) IN
           /\ Increasing(us)
           /\ Attempts(us, t.point) # {}
           /\ LatestTest(us, t.point) = Len(ts) + 1
           /\ \A q \in P : q # t.point =>
                /\ Attempts(us, q) = Attempts(ts, q)
                /\ Attempts(ts, q) # {} =>
                    /\ LatestTest(us, q) = LatestTest(ts, q)
                    /\ LatestTest(ts, q) \in DOMAIN ts
                    /\ us[LatestTest(us, q)] = ts[LatestTest(ts, q)]
<1> DEFINE us == Append(ts, t)
           n == Len(ts) + 1
<1>1. /\ us \in Seq(LoadTest) /\ Len(ts) \in Nat
      /\ DOMAIN ts = 1 .. Len(ts) /\ DOMAIN us = 1 .. n
      /\ us[n] = t
      /\ \A i \in DOMAIN ts : us[i] = ts[i]
  BY AppendProperties
<1> HIDE DEF us
<1>2. Increasing(us)
  <2> SUFFICES ASSUME NEW i \in DOMAIN us, NEW j \in DOMAIN us,
                      i < j, us[i].point = us[j].point
               PROVE  us[i].attempt < us[j].attempt
    BY DEF Increasing
  <2>1. i \in DOMAIN ts
    BY <1>1
  <2>2. CASE j \in DOMAIN ts
    BY <1>1, <2>1, <2>2 DEF Increasing
  <2>3. CASE j = n
    BY <1>1, <2>1, <2>3 DEF Attempts
  <2> QED BY <1>1, <2>2, <2>3
<1>3. n \in DOMAIN us /\ n \in Attempts(us, t.point)
  BY <1>1 DEF Attempts
<1>4. IsLatest(us, t.point, n)
  <2> SUFFICES ASSUME NEW j \in Attempts(us, t.point)
               PROVE  us[j].attempt <= us[n].attempt
    BY <1>3 DEF IsLatest
  <2>0. j \in DOMAIN us
    BY DEF Attempts
  <2>1. us[j] \in LoadTest
    BY <1>1, <2>0, SeqElement
  <2>2. CASE j = n
    BY <1>1, <2>1, <2>2 DEF LoadTest
  <2>3. CASE j \in DOMAIN ts
    <3>1. j \in Attempts(ts, t.point) /\ us[j] = ts[j]
      BY <1>1, <2>3 DEF Attempts
    <3>2. us[j].attempt < us[n].attempt
      BY <1>1, <3>1
    <3>3. us[j].attempt \in Nat /\ us[n].attempt \in Nat
      BY <1>1, <2>1 DEF LoadTest
    <3> QED BY <3>2, <3>3
  <2> QED BY <1>1, <2>0, <2>2, <2>3
<1>5. LatestTest(us, t.point) = n
  BY <1>1, <1>2, <1>3, <1>4, LatestIs DEF LoadTest
<1>6. ASSUME NEW q \in P, q # t.point
      PROVE  Attempts(us, q) = Attempts(ts, q)
  BY <1>1, <1>6 DEF Attempts
<1>7. ASSUME NEW q \in P, q # t.point, Attempts(ts, q) # {}
      PROVE  /\ LatestTest(us, q) = LatestTest(ts, q)
             /\ LatestTest(ts, q) \in DOMAIN ts
             /\ us[LatestTest(us, q)] = ts[LatestTest(ts, q)]
  <2> DEFINE k == LatestTest(ts, q)
  <2>1. k \in DOMAIN ts /\ IsLatest(ts, q, k)
    BY <1>7, LatestExists
  <2> HIDE DEF k
  <2>2. k \in DOMAIN us /\ IsLatest(us, q, k)
    BY <1>1, <1>6, <1>7, <2>1 DEF IsLatest, Attempts
  <2>3. LatestTest(us, q) = k
    BY <1>1, <1>2, <2>2, LatestIs
  <2> QED BY <1>1, <2>1, <2>3 DEF k
<1> QED BY <1>2, <1>3, <1>5, <1>6, <1>7 DEF us

-----------------------------------------------------------------------------
(* One lemma per command: it keeps the inductive invariant.                *)

\* The test that RecordTest and Retest append.
LEMMA NewTestAppended ==
    ASSUME IInv, NEW p \in points, NEW r \in Readings,
           tests' = Append(tests, NewTest(p, r))
    PROVE  /\ NewTest(p, r) \in LoadTest
           /\ tests' \in Seq(LoadTest)
           /\ Len(tests) \in Nat
           /\ DOMAIN tests = 1 .. Len(tests)
           /\ DOMAIN tests' = 1 .. Len(tests) + 1
           /\ tests'[Len(tests) + 1] = NewTest(p, r)
           /\ \A i \in DOMAIN tests : tests'[i] = tests[i]
           /\ \A i \in Attempts(tests, p) :
                tests[i].attempt < NewTest(p, r).attempt
           /\ Increasing(tests')
           /\ p \in TestedPoints(points, tests')
           /\ LatestTest(tests', p) = Len(tests) + 1
           /\ \A q \in points : q # p =>
                /\ q \in TestedPoints(points, tests')
                        <=> q \in TestedPoints(points, tests)
                /\ q \in TestedPoints(points, tests) =>
                    tests'[LatestTest(tests', q)] = tests[LatestTest(tests, q)]
<1> DEFINE t == NewTest(p, r)
<1>1. tests \in Seq(LoadTest) /\ points \subseteq PointIds /\ p \in PointIds
  BY DEF IInv, TypeOK
<1>2. \A q \in points : AttemptsContinuous(tests, q)
  BY DEF IInv, ValidateIntegrity, TestsIntegrity
<1>3. /\ NextAttempt(tests, p) \in Nat
      /\ \A i \in Attempts(tests, p) : tests[i].attempt < NextAttempt(tests, p)
  <2>1. CASE Attempts(tests, p) = {}
    BY <2>1 DEF NextAttempt
  <2>2. CASE Attempts(tests, p) # {}
    <3> DEFINE k == LatestTest(tests, p)
    <3>1. k \in DOMAIN tests /\ IsLatest(tests, p, k)
      BY <1>1, <1>2, <2>2, LatestExists
    <3> HIDE DEF k
    <3>2. tests[k] \in LoadTest
      BY <1>1, <3>1, SeqElement
    <3>3. tests[k].attempt \in Nat
      BY <3>2 DEF LoadTest
    <3>4. NextAttempt(tests, p) = tests[k].attempt + 1
      BY <2>2 DEF NextAttempt, k
    <3>5. ASSUME NEW i \in Attempts(tests, p)
          PROVE  tests[i].attempt < NextAttempt(tests, p)
      <4>1. i \in DOMAIN tests
        BY DEF Attempts
      <4>2. tests[i] \in LoadTest
        BY <1>1, <4>1, SeqElement
      <4>3. tests[i].attempt <= tests[k].attempt
        BY <3>1 DEF IsLatest
      <4> QED BY <3>3, <3>4, <4>2, <4>3 DEF LoadTest
    <3> QED BY <3>3, <3>4, <3>5
  <2> QED BY <2>1, <2>2
<1>4. /\ t \in LoadTest /\ t.point = p
      /\ t.attempt = NextAttempt(tests, p)
  BY <1>1, <1>3 DEF NewTest, LoadTest, EvaluateTest
<1> HIDE DEF t
<1>5. /\ tests' \in Seq(LoadTest) /\ Len(tests) \in Nat
      /\ DOMAIN tests = 1 .. Len(tests)
      /\ DOMAIN tests' = 1 .. Len(tests) + 1
      /\ tests'[Len(tests) + 1] = t
      /\ \A i \in DOMAIN tests : tests'[i] = tests[i]
  BY <1>1, <1>4, AppendProperties DEF t
<1>6. tests' = Append(tests, t)
  BY DEF t
<1>7. /\ Increasing(tests')
      /\ Attempts(tests', p) # {}
      /\ LatestTest(tests', p) = Len(tests) + 1
      /\ \A q \in points : q # p =>
           /\ Attempts(tests', q) = Attempts(tests, q)
           /\ Attempts(tests, q) # {} =>
                tests'[LatestTest(tests', q)] = tests[LatestTest(tests, q)]
  <2>1. Increasing(tests)
    BY DEF IInv
  <2>2. \A i \in Attempts(tests, t.point) : tests[i].attempt < t.attempt
    BY <1>3, <1>4
  <2>3. points \in SUBSET PointIds
    BY <1>1
  <2> DEFINE us == Append(tests, t)
  <2>4. /\ Increasing(us)
        /\ Attempts(us, t.point) # {}
        /\ LatestTest(us, t.point) = Len(tests) + 1
        /\ \A q \in points : q # t.point =>
             /\ Attempts(us, q) = Attempts(tests, q)
             /\ Attempts(tests, q) # {} =>
                /\ LatestTest(us, q) = LatestTest(tests, q)
                /\ LatestTest(tests, q) \in DOMAIN tests
                /\ us[LatestTest(us, q)] = tests[LatestTest(tests, q)]
    BY <1>1, <1>2, <1>4, <2>1, <2>2, <2>3, TestAppended
  <2> QED BY <1>4, <1>6, <2>4
<1> QED BY <1>3, <1>4, <1>5, <1>7 DEF t, TestedPoints

\* AddTest keeps the inductive invariant.
LEMMA RecordTestKeeps ==
    ASSUME IInv, NEW p \in PointIds, NEW r \in Readings, RecordTest(p, r)
    PROVE  IInv'
<1>1. /\ TypeOK /\ EvidenceCurrent /\ FailedPointHeld
      /\ ClosedDeviationProven /\ DeviationsIntegrity /\ RecordsByStage
      /\ tests \in Seq(LoadTest) /\ deviations \in Seq(Deviation)
  BY DEF IInv, TypeOK, ValidateIntegrity
<1>2. /\ p \in points /\ AcceptsTests(status)
      /\ tests' = Append(tests, NewTest(p, r))
      /\ UNCHANGED <<details, points, locked, snapshot, review, credential>>
      /\ ValidateIntegrity'
  BY DEF RecordTest, AddTest
<1>3. snapshot = NULL /\ review = NULL /\ credential = NULL
  BY <1>1, <1>2 DEF AcceptsTests, RecordsByStage
<1> DEFINE n == Len(tests) + 1
           dn == Len(deviations) + 1
<1>4. /\ tests' \in Seq(LoadTest)
      /\ DOMAIN tests = 1 .. Len(tests) /\ Len(tests) \in Nat
      /\ tests'[n] = NewTest(p, r)
      /\ NewTest(p, r) \in LoadTest
      /\ \A i \in DOMAIN tests : tests'[i] = tests[i]
      /\ Increasing(tests')
      /\ LatestTest(tests', p) = n
      /\ \A q \in points : q # p =>
            /\ q \in TestedPoints(points, tests')
                    <=> q \in TestedPoints(points, tests)
            /\ q \in TestedPoints(points, tests) =>
                tests'[LatestTest(tests', q)] = tests[LatestTest(tests, q)]
  BY <1>2, NewTestAppended
<1>5. /\ deviations' \in Seq(Deviation)
      /\ DOMAIN deviations \subseteq DOMAIN deviations'
      /\ \A d \in DOMAIN deviations : deviations'[d] = deviations[d]
      /\ \A d \in DOMAIN deviations' \ DOMAIN deviations :
            deviations'[d].status = "open" /\ EvidenceFits(deviations'[d])
      /\ EvaluateTest(r) = "failed" =>
            \E d \in OpenDeviations(deviations') : deviations'[d].point = p
  <2>1. CASE EvaluateTest(r) = "failed"
    <3>1. PICK severity \in Severities, confirmed \in BOOLEAN :
            deviations' = Append(deviations, NewDeviation(p, severity, confirmed))
      BY <2>1 DEF RecordTest, AddTest, Raise
    <3> DEFINE e == NewDeviation(p, severity, confirmed)
    <3>2. /\ e \in Deviation /\ e.status = "open" /\ e.point = p
          /\ EvidenceFits(e)
      BY <1>4 DEF NewDeviation, Deviation, EvidenceFits
    <3> HIDE DEF e
    <3>3. deviations' = Append(deviations, e)
      BY <3>1 DEF e
    <3>4. /\ deviations' \in Seq(Deviation) /\ Len(deviations) \in Nat
          /\ DOMAIN deviations = 1 .. Len(deviations)
          /\ DOMAIN deviations' = 1 .. dn
          /\ \A d \in DOMAIN deviations : deviations'[d] = deviations[d]
          /\ deviations'[dn] = e
      BY <1>1, <3>2, <3>3, AppendProperties
    <3>5. dn \in OpenDeviations(deviations')
      BY <3>2, <3>4 DEF OpenDeviations
    <3> QED BY <3>2, <3>4, <3>5
  <2>2. CASE EvaluateTest(r) = "passed"
    BY <1>1, <2>2 DEF RecordTest, AddTest
  <2> QED BY <2>1, <2>2 DEF EvaluateTest
<1>6. \/ EvaluateTest(r) = "failed" /\ status' = "blocked"
      \/ EvaluateTest(r) = "passed" /\ deviations' = deviations
            /\ status' = RefreshedStatus(points, tests', deviations)
  BY DEF RecordTest, AddTest
<1>7. status' \in {"blocked", "pending_review", "testing"}
  BY <1>6 DEF RefreshedStatus
<1>8. TypeOK'
  BY <1>1, <1>2, <1>3, <1>4, <1>5, <1>7 DEF TypeOK, Statuses
<1>9. RecordsByStage'
  BY <1>2, <1>3, <1>7 DEF RecordsByStage
<1>10. EvidenceCurrent'
  BY <1>1, <1>5 DEF EvidenceCurrent
<1>11. ClearFromReview' /\ CriticalBlocks'
  BY <1>2, <1>6 DEF ClearFromReview, CriticalBlocks, RefreshedStatus,
                    NothingBlocks
<1>12. OpenDeviationBlocks'
  <2>1. status' = "blocked" => OpenDeviations(deviations') # {}
    BY <1>2 DEF ValidateIntegrity, StatusIntegrity
  <2>2. OpenDeviations(deviations') # {} => status' = "blocked"
    BY <1>6 DEF RefreshedStatus, NothingBlocks
  <2> QED BY <2>1, <2>2 DEF OpenDeviationBlocks
<1>13. FailedPointHeld'
  <2> SUFFICES ASSUME NEW q \in TestedPoints(points, tests'),
                      tests'[LatestTest(tests', q)].result = "failed"
               PROVE  \E d \in OpenDeviations(deviations') :
                        deviations'[d].point = q
    BY <1>2 DEF FailedPointHeld
  <2>1. CASE q = p
    BY <1>4, <1>5, <2>1 DEF NewTest
  <2>2. CASE q # p
    <3>1. q \in points
      BY DEF TestedPoints
    <3>2. PICK d \in OpenDeviations(deviations) : deviations[d].point = q
      BY <1>1, <1>4, <2>2, <3>1 DEF FailedPointHeld
    <3>3. d \in OpenDeviations(deviations') /\ deviations'[d].point = q
      BY <1>5, <3>2 DEF OpenDeviations
    <3> QED BY <3>3
  <2> QED BY <2>1, <2>2
<1>14. ClosedDeviationProven'
  <2> SUFFICES ASSUME NEW d \in DOMAIN deviations',
                      deviations'[d].status = "closed"
               PROVE  /\ deviations'[d].confirmed /\ deviations'[d].evidence
                      /\ ProvenBy(tests', deviations'[d])
    BY DEF ClosedDeviationProven
  <2> DEFINE dev == deviations[d]
  <2>1. d \in DOMAIN deviations /\ deviations'[d] = dev
    BY <1>5
  <2>2. dev.confirmed /\ dev.evidence /\ ProvenBy(tests, dev)
    BY <1>1, <2>1 DEF ClosedDeviationProven
  <2>3. dev.test \in DOMAIN tests /\ dev.closedBy \in DOMAIN tests
    BY <1>1, <2>1 DEF DeviationsIntegrity
  <2>4. tests'[dev.test] = tests[dev.test]
        /\ tests'[dev.closedBy] = tests[dev.closedBy]
    BY <1>4, <2>3
  <2> QED BY <2>1, <2>2, <2>4 DEF ProvenBy
<1>15. SnapshotCurrent' /\ ReviewTrimmed' /\ CredentialMatches'
  BY <1>2, <1>3 DEF SnapshotCurrent, ReviewTrimmed, CredentialMatches
<1> QED
  BY <1>2, <1>4, <1>8, <1>9, <1>10, <1>11, <1>12, <1>13, <1>14, <1>15 DEF IInv

\* CloseDeviation keeps the inductive invariant.
LEMMA RetestKeeps ==
    ASSUME IInv, NEW d \in DOMAIN deviations, NEW r \in Readings, Retest(d, r)
    PROVE  IInv'
<1> DEFINE dev == deviations[d]
           p == dev.point
           n == Len(tests) + 1
<1>1. /\ TypeOK /\ EvidenceCurrent /\ FailedPointHeld
      /\ ClosedDeviationProven /\ DeviationsIntegrity /\ RecordsByStage
      /\ OpenDeviationBlocks /\ TestsIntegrity
      /\ tests \in Seq(LoadTest) /\ deviations \in Seq(Deviation)
  BY DEF IInv, TypeOK, ValidateIntegrity
<1>2. /\ dev.status = "remediated"
      /\ RetestTargetOK(r.target, tests[dev.test].reading.target)
      /\ tests' = Append(tests, NewTest(p, r))
      /\ UNCHANGED <<details, points, locked, snapshot, review, credential>>
      /\ ValidateIntegrity'
  BY DEF Retest, CloseDeviation
<1>3. /\ dev \in Deviation /\ dev.test \in DOMAIN tests
      /\ tests[dev.test].point = p /\ tests[dev.test].result = "failed"
      /\ p \in points
  <2>1. dev \in Deviation
    BY <1>1, SeqElement
  <2>2. /\ dev.test \in DOMAIN tests /\ tests[dev.test].point = p
        /\ tests[dev.test].result = "failed"
    BY <1>1 DEF DeviationsIntegrity
  <2> QED BY <1>1, <2>1, <2>2 DEF TestsIntegrity
<1>4. status = "blocked"
  BY <1>1, <1>2 DEF OpenDeviationBlocks, OpenDeviations
<1>5. snapshot = NULL /\ review = NULL /\ credential = NULL
  BY <1>1, <1>4 DEF RecordsByStage
<1>6. /\ tests' \in Seq(LoadTest)
      /\ DOMAIN tests = 1 .. Len(tests) /\ Len(tests) \in Nat
      /\ tests'[n] = NewTest(p, r)
      /\ NewTest(p, r) \in LoadTest
      /\ \A i \in DOMAIN tests : tests'[i] = tests[i]
      /\ \A i \in Attempts(tests, p) :
            tests[i].attempt < NewTest(p, r).attempt
      /\ Increasing(tests')
      /\ LatestTest(tests', p) = n
      /\ \A q \in points : q # p =>
            /\ q \in TestedPoints(points, tests')
                    <=> q \in TestedPoints(points, tests)
            /\ q \in TestedPoints(points, tests) =>
                tests'[LatestTest(tests', q)] = tests[LatestTest(tests, q)]
  BY <1>2, <1>3, NewTestAppended
<1>7. /\ deviations' \in Seq(Deviation)
      /\ DOMAIN deviations' = DOMAIN deviations
      /\ \A e \in DOMAIN deviations : e # d => deviations'[e] = deviations[e]
      /\ \/ EvaluateTest(r) = "failed" /\ deviations'[d] = Reopened(dev)
         \/ EvaluateTest(r) = "passed" /\ deviations'[d] = Closed(dev, n)
  <2>1. n \in Nat
    BY <1>6
  <2>2. Reopened(dev) \in Deviation /\ Closed(dev, n) \in Deviation
    BY <1>3, <2>1 DEF Reopened, Closed, Deviation
  <2>3. CASE EvaluateTest(r) = "failed"
    <3>1. deviations' = [deviations EXCEPT ![d] = Reopened(dev)]
      BY <2>3 DEF Retest, CloseDeviation
    <3> QED BY <1>1, <2>2, <2>3, <3>1, ReplaceProperties
  <2>4. CASE EvaluateTest(r) = "passed"
    <3>1. deviations' = [deviations EXCEPT ![d] = Closed(dev, n)]
      BY <2>4 DEF Retest, CloseDeviation
    <3> QED BY <1>1, <2>2, <2>4, <3>1, ReplaceProperties
  <2> QED BY <2>3, <2>4 DEF EvaluateTest
<1>8. /\ deviations'[d].point = p /\ deviations'[d].test = dev.test
      /\ deviations'[d].confirmed = dev.confirmed
      /\ EvaluateTest(r) = "failed" => deviations'[d].status = "open"
      /\ EvaluateTest(r) = "passed" =>
            /\ deviations'[d].status = "closed"
            /\ deviations'[d].evidence = dev.evidence
            /\ deviations'[d].closedBy = n
  BY <1>3, <1>7 DEF Reopened, Closed, Deviation, EvaluateTest
<1>9. \/ EvaluateTest(r) = "failed" /\ status' = "blocked"
      \/ EvaluateTest(r) = "passed"
            /\ status' = RefreshedStatus(points, tests', deviations')
  BY DEF Retest, CloseDeviation
<1>10. status' \in {"blocked", "pending_review", "testing"}
  BY <1>9 DEF RefreshedStatus
<1>11. TypeOK'
  BY <1>1, <1>2, <1>5, <1>6, <1>7, <1>10 DEF TypeOK, Statuses
<1>12. RecordsByStage'
  BY <1>2, <1>5, <1>10 DEF RecordsByStage
<1>13. EvidenceCurrent'
  <2>1. dev.confirmed /\ dev.evidence
    BY <1>1, <1>2 DEF EvidenceCurrent, EvidenceFits
  <2>2. EvidenceFits(Reopened(dev)) /\ EvidenceFits(Closed(dev, n))
    BY <1>3, <2>1 DEF EvidenceFits, Reopened, Closed, Deviation
  <2>3. EvidenceFits(deviations'[d])
    BY <1>7, <2>2
  <2> QED BY <1>1, <1>7, <2>3 DEF EvidenceCurrent
<1>14. ClearFromReview' /\ CriticalBlocks'
  BY <1>2, <1>9 DEF ClearFromReview, CriticalBlocks, RefreshedStatus,
                    NothingBlocks
<1>15. OpenDeviationBlocks'
  <2>1. status' = "blocked" => OpenDeviations(deviations') # {}
    BY <1>2 DEF ValidateIntegrity, StatusIntegrity
  <2>2. OpenDeviations(deviations') # {} => status' = "blocked"
    BY <1>9 DEF RefreshedStatus, NothingBlocks
  <2> QED BY <2>1, <2>2 DEF OpenDeviationBlocks
<1>16. FailedPointHeld'
  <2> SUFFICES ASSUME NEW q \in TestedPoints(points, tests'),
                      tests'[LatestTest(tests', q)].result = "failed"
               PROVE  \E e \in OpenDeviations(deviations') :
                        deviations'[e].point = q
    BY <1>2 DEF FailedPointHeld
  <2>1. CASE q = p
    <3>1. EvaluateTest(r) = "failed"
      BY <1>6, <2>1 DEF NewTest
    <3>2. d \in OpenDeviations(deviations')
      BY <1>7, <1>8, <3>1 DEF OpenDeviations
    <3> QED BY <1>8, <2>1, <3>2
  <2>2. CASE q # p
    <3>1. q \in points
      BY DEF TestedPoints
    <3>2. PICK e \in OpenDeviations(deviations) : deviations[e].point = q
      BY <1>1, <1>6, <2>2, <3>1 DEF FailedPointHeld
    <3>3. e \in OpenDeviations(deviations') /\ deviations'[e].point = q
      BY <1>7, <2>2, <3>2 DEF OpenDeviations
    <3> QED BY <3>3
  <2> QED BY <2>1, <2>2
<1>17. ClosedDeviationProven'
  <2> SUFFICES ASSUME NEW e \in DOMAIN deviations',
                      deviations'[e].status = "closed"
               PROVE  /\ deviations'[e].confirmed /\ deviations'[e].evidence
                      /\ ProvenBy(tests', deviations'[e])
    BY DEF ClosedDeviationProven
  <2>1. CASE e # d
    <3>1. e \in DOMAIN deviations /\ deviations'[e] = deviations[e]
      BY <1>7, <2>1
    <3>2. /\ deviations[e].confirmed /\ deviations[e].evidence
          /\ ProvenBy(tests, deviations[e])
      BY <1>1, <3>1 DEF ClosedDeviationProven
    <3>3. /\ deviations[e].test \in DOMAIN tests
          /\ deviations[e].closedBy \in DOMAIN tests
      BY <1>1, <3>1 DEF DeviationsIntegrity
    <3>4. /\ tests'[deviations[e].test] = tests[deviations[e].test]
          /\ tests'[deviations[e].closedBy] = tests[deviations[e].closedBy]
      BY <1>6, <3>3
    <3> QED BY <3>1, <3>2, <3>4 DEF ProvenBy
  <2>2. CASE e = d
    <3>1. EvaluateTest(r) = "passed"
      BY <1>8, <1>9, <2>2
    <3>2. deviations'[d].confirmed /\ deviations'[d].evidence
      BY <1>1, <1>2, <1>8, <3>1 DEF EvidenceCurrent, EvidenceFits
    <3>3. tests'[dev.test] = tests[dev.test] /\ dev.test \in Attempts(tests, p)
      BY <1>3, <1>6 DEF Attempts
    <3>4. /\ tests'[n].result = "passed" /\ tests'[n].point = p
          /\ tests'[n].reading = r
          /\ tests'[n].attempt \in Nat /\ tests[dev.test].attempt \in Nat
          /\ tests[dev.test].attempt < tests'[n].attempt
      <4>1. tests[dev.test] \in LoadTest
        BY <1>1, <1>3, SeqElement
      <4> QED BY <1>6, <3>1, <3>3, <4>1 DEF NewTest, LoadTest
    <3> QED BY <1>2, <1>3, <1>8, <2>2, <3>1, <3>2, <3>3, <3>4 DEF ProvenBy
  <2> QED BY <2>1, <2>2
<1>18. SnapshotCurrent' /\ ReviewTrimmed' /\ CredentialMatches'
  BY <1>2, <1>5 DEF SnapshotCurrent, ReviewTrimmed, CredentialMatches
<1> QED
  BY <1>2, <1>6, <1>11, <1>12, <1>13, <1>14, <1>15, <1>16, <1>17, <1>18 DEF IInv

\* A command on a draft: no test, deviation or record exists yet.
LEMMA DraftKeeps ==
    ASSUME IInv, status = "draft", status' \in {"draft", "awaiting_tests"},
           details' \in Details, points' \subseteq PointIds,
           locked' \subseteq points',
           UNCHANGED <<tests, deviations, snapshot, review, credential>>,
           ValidateIntegrity'
    PROVE  IInv'
<1>1. tests = <<>> /\ deviations = <<>>
  BY DEF IInv, RecordsByStage
<1>2. snapshot = NULL /\ review = NULL /\ credential = NULL
  BY DEF IInv, RecordsByStage
<1>3. DOMAIN tests' = {} /\ DOMAIN deviations' = {}
  BY <1>1
<1>4. TypeOK'
  BY <1>2 DEF IInv, TypeOK, Statuses
<1>5. Increasing(tests')
  BY <1>3 DEF Increasing
<1>6. RecordsByStage'
  BY <1>1, <1>2 DEF RecordsByStage
<1>7. EvidenceCurrent' /\ ClosedDeviationProven'
  BY <1>3 DEF EvidenceCurrent, EvidenceFits, ClosedDeviationProven
<1>8. ClearFromReview'
  BY DEF ClearFromReview
<1>9. OpenDeviationBlocks' /\ CriticalBlocks'
  BY <1>3 DEF OpenDeviationBlocks, CriticalBlocks, OpenDeviations,
              CriticalDeviations
<1>10. FailedPointHeld'
  BY <1>3 DEF FailedPointHeld, TestedPoints, Attempts
<1>11. SnapshotCurrent' /\ ReviewTrimmed' /\ CredentialMatches'
  BY <1>2 DEF SnapshotCurrent, ReviewTrimmed, CredentialMatches
<1> QED
  BY <1>4, <1>5, <1>6, <1>7, <1>8, <1>9, <1>10, <1>11 DEF IInv

\* A command that changes one deviation of a blocked batch and no test.
LEMMA RevisionKeeps ==
    ASSUME IInv, NEW d \in DOMAIN deviations, NEW e \in Deviation,
           deviations' = [deviations EXCEPT ![d] = e],
           e.test = deviations[d].test, e.point = deviations[d].point,
           deviations[d].status = "closed" => e = deviations[d],
           e.status = "closed" => deviations[d].status = "closed",
           EvidenceFits(e),
           status = "blocked", status' = "blocked",
           UNCHANGED <<details, points, locked, tests,
                       snapshot, review, credential>>,
           ValidateIntegrity'
    PROVE  IInv'
<1>1. /\ TypeOK /\ EvidenceCurrent /\ FailedPointHeld
      /\ ClosedDeviationProven /\ RecordsByStage
      /\ deviations \in Seq(Deviation)
  BY DEF IInv, TypeOK
<1>2. /\ deviations' \in Seq(Deviation)
      /\ DOMAIN deviations' = DOMAIN deviations
      /\ deviations'[d] = e
      /\ \A c \in DOMAIN deviations : c # d => deviations'[c] = deviations[c]
  BY <1>1, ReplaceProperties
<1>3. OpenDeviations(deviations') = OpenDeviations(deviations)
  BY <1>2 DEF OpenDeviations
<1>4. snapshot = NULL /\ review = NULL /\ credential = NULL
  BY <1>1 DEF RecordsByStage
<1>5. TypeOK'
  BY <1>1, <1>2, <1>4 DEF TypeOK, Statuses
<1>6. RecordsByStage'
  BY <1>4 DEF RecordsByStage
<1>7. EvidenceCurrent'
  BY <1>1, <1>2 DEF EvidenceCurrent, EvidenceFits
<1>8. ClearFromReview' /\ CriticalBlocks'
  BY DEF ClearFromReview, CriticalBlocks
<1>9. OpenDeviationBlocks'
  BY <1>3 DEF IInv, OpenDeviationBlocks
<1>10. FailedPointHeld'
  <2>1. \A c \in DOMAIN deviations : deviations'[c].point = deviations[c].point
    BY <1>2
  <2> QED BY <1>1, <1>3, <2>1 DEF FailedPointHeld, OpenDeviations
<1>11. ClosedDeviationProven'
  BY <1>1, <1>2 DEF ClosedDeviationProven
<1>12. SnapshotCurrent' /\ ReviewTrimmed' /\ CredentialMatches'
  BY <1>4 DEF SnapshotCurrent, ReviewTrimmed, CredentialMatches
<1>13. Increasing(tests')
  BY DEF IInv
<1> QED
  BY <1>5, <1>6, <1>7, <1>8, <1>9, <1>10, <1>11, <1>12, <1>13 DEF IInv

\* SubmitRemediation keeps the inductive invariant.
LEMMA RemediateKeeps ==
    ASSUME IInv, NEW d \in DOMAIN deviations, Remediate(d)
    PROVE  IInv'
<1> DEFINE dev == deviations[d]
           e == [dev EXCEPT !.evidence = TRUE, !.status = "remediated"]
<1>1. dev \in Deviation
  BY SeqElement DEF IInv, TypeOK
<1>2. /\ e \in Deviation /\ e.test = dev.test /\ e.point = dev.point
      /\ e.status = "remediated" /\ e.evidence /\ e.confirmed = dev.confirmed
  BY <1>1 DEF Deviation
<1>3. /\ status = "blocked" /\ status' = status
      /\ dev.status = "open" /\ dev.confirmed
      /\ deviations' = [deviations EXCEPT ![d] = e]
      /\ UNCHANGED <<details, points, locked, tests,
                     snapshot, review, credential>>
      /\ ValidateIntegrity'
  BY DEF Remediate, OwnerConfirmed, SubmitRemediation
<1>4. EvidenceFits(e)
  <2>1. EvidenceFits(dev)
    BY DEF IInv, EvidenceCurrent
  <2> QED BY <1>1, <1>2, <1>3, <2>1 DEF EvidenceFits, Deviation
<1> HIDE DEF e
<1> QED BY <1>2, <1>3, <1>4, RevisionKeeps

\* The status is written blindly, but a batch that was not blocked has no open
\* deviation, so the integrity check refuses the step.
LEMMA UpdateDeviationBlocked ==
    ASSUME IInv, NEW d \in DOMAIN deviations,
           NEW severity \in Severities \cup {""}, NEW confirm \in BOOLEAN,
           UpdateDeviation(d, severity, confirm)
    PROVE  status = "blocked"
<1> DEFINE e == [deviations[d] EXCEPT
                   !.severity = IF severity = "" THEN @ ELSE severity,
                   !.confirmed = @ \/ confirm]
<1>1. deviations[d] \in Deviation /\ deviations \in Seq(Deviation)
  BY SeqElement DEF IInv, TypeOK
<1>2. e \in Deviation /\ e.status = deviations[d].status
  BY <1>1 DEF Deviation
<1>3. /\ status' = "blocked" /\ ValidateIntegrity'
      /\ deviations' = [deviations EXCEPT ![d] = e]
  BY DEF UpdateDeviation, ReviseDeviation
<1> HIDE DEF e
<1>4. PICK c \in DOMAIN deviations' : deviations'[c].status # "closed"
  BY <1>3 DEF ValidateIntegrity, StatusIntegrity, OpenDeviations
<1>5. /\ DOMAIN deviations' = DOMAIN deviations
      /\ deviations'[c].status = deviations[c].status
  BY <1>1, <1>2, <1>3, <1>4, ReplaceProperties
<1>6. c \in OpenDeviations(deviations)
  BY <1>4, <1>5 DEF OpenDeviations
<1> QED BY <1>6 DEF IInv, OpenDeviationBlocks

\* Only a blocked batch has a remediated deviation to retest.
LEMMA RetestBlocked ==
    ASSUME IInv, NEW d \in DOMAIN deviations, NEW r \in Readings, Retest(d, r)
    PROVE  status = "blocked"
BY DEF IInv, Retest, CloseDeviation, OpenDeviationBlocks, OpenDeviations

\* UpdateDeviation keeps the inductive invariant.
LEMMA UpdateDeviationKeeps ==
    ASSUME IInv, NEW d \in DOMAIN deviations,
           NEW severity \in Severities \cup {""}, NEW confirm \in BOOLEAN,
           UpdateDeviation(d, severity, confirm)
    PROVE  IInv'
<1> DEFINE dev == deviations[d]
           e == [dev EXCEPT
                   !.severity = IF severity = "" THEN @ ELSE severity,
                   !.confirmed = @ \/ confirm]
<1>1. dev \in Deviation /\ deviations \in Seq(Deviation)
  BY SeqElement DEF IInv, TypeOK
<1>2. /\ e \in Deviation /\ e.test = dev.test /\ e.point = dev.point
      /\ e.status = dev.status /\ e.evidence = dev.evidence
      /\ dev.confirmed => e.confirmed
      /\ severity = "" /\ ~confirm => e = dev
  BY <1>1 DEF Deviation
<1>3. /\ severity # "" => dev.status # "closed"
      /\ confirm => dev.status # "closed"
      /\ status' = "blocked"
      /\ deviations' = [deviations EXCEPT ![d] = e]
      /\ UNCHANGED <<details, points, locked, tests,
                     snapshot, review, credential>>
      /\ ValidateIntegrity'
  BY DEF UpdateDeviation, ReviseDeviation, UpgradeAllowed
<1>4. EvidenceFits(e)
  <2>1. EvidenceFits(dev)
    BY DEF IInv, EvidenceCurrent
  <2>2. e.closedBy = dev.closedBy
    BY <1>1 DEF Deviation
  <2> HIDE DEF e
  <2> QED BY <1>2, <2>1, <2>2 DEF EvidenceFits
<1> HIDE DEF e
<1>5. status = "blocked"
  BY UpdateDeviationBlocked
<1> QED BY <1>2, <1>3, <1>4, <1>5, RevisionKeeps

\* The numbers Freeze writes into the review are counts.
LEMMA FreezeCounts ==
    ASSUME TypeOK
    PROVE  /\ IsFiniteSet(points) /\ Cardinality(points) \in Nat
           /\ Cardinality(TestedPoints(points, tests)) \in Nat
           /\ Cardinality(PassedPoints(points, tests)) \in Nat
           /\ Cardinality(DOMAIN deviations \ OpenDeviations(deviations)) \in Nat
<1>1. IsFiniteSet(points)
  BY PointIdsFinite, FS_Subset DEF TypeOK
<1>2. /\ TestedPoints(points, tests) \subseteq points
      /\ PassedPoints(points, tests) \subseteq points
  BY DEF TestedPoints, PassedPoints
<1>3. IsFiniteSet(DOMAIN deviations)
  <2>1. IsFiniteSet(1 .. Len(deviations))
    BY FS_Interval DEF TypeOK
  <2>2. DOMAIN deviations = 1 .. Len(deviations)
    BY DEF TypeOK
  <2> QED BY <2>1, <2>2
<1>4. IsFiniteSet(DOMAIN deviations \ OpenDeviations(deviations))
  BY <1>3, FS_Subset
<1>5. /\ IsFiniteSet(TestedPoints(points, tests))
      /\ IsFiniteSet(PassedPoints(points, tests))
  BY <1>1, <1>2, FS_Subset
<1> QED BY <1>1, <1>4, <1>5, FS_CardinalityType

\* Every point has a latest test for the snapshot to hold (SnapshotData).
LEMMA FrozenContent ==
    ASSUME IInv, Snapshottable(points, tests)
    PROVE  SnapshotData(details, points, tests) \in Content(points)
<1>1. /\ details \in Details /\ tests \in Seq(LoadTest)
      /\ points \subseteq PointIds
  BY DEF IInv, TypeOK
<1>2. ASSUME NEW p \in points PROVE tests[LatestTest(tests, p)] \in LoadTest
  <2>1. Attempts(tests, p) # {} /\ AttemptsContinuous(tests, p)
    BY DEF Snapshottable, IInv, ValidateIntegrity, TestsIntegrity
  <2>2. LatestTest(tests, p) \in DOMAIN tests
    BY <1>1, <2>1, LatestExists
  <2> QED BY <1>1, <2>2, SeqElement
<1> QED BY <1>1, <1>2 DEF SnapshotData, Content

\* Freeze keeps the inductive invariant.
LEMMA ApproveKeeps ==
    ASSUME IInv, NEW by \in Approvers, Approve(by)
    PROVE  IInv'
<1> DEFINE content == SnapshotData(details, points, tests)
<1>1. /\ status = "pending_review" /\ status' = "frozen"
      /\ PassedPoints(points, tests) = points
      /\ NothingBlocks(deviations)
      /\ Snapshottable(points, tests)
      /\ snapshot' = [content |-> content, digest |-> Digest(content)]
      /\ review'.approvedBy = Trim[by]
      /\ UNCHANGED <<details, points, locked, tests, deviations, credential>>
      /\ ValidateIntegrity'
  BY DEF Approve, Freeze
<1>2. TypeOK /\ ClearFromReview /\ RecordsByStage
  BY DEF IInv
<1>3. snapshot' # NULL /\ review' # NULL /\ credential' = NULL
  BY <1>1 DEF ValidateIntegrity, StatusIntegrity
<1>4. content \in Content(points)
  BY <1>1, FrozenContent
<1> HIDE DEF content
<1>5. snapshot'.content = content /\ snapshot'.digest = Digest(content)
  BY <1>1
<1>6. TypeOK'
  <2>1. review' \in TechnicalReview
    BY <1>2, FreezeCounts, TrimTyping DEF Approve, Freeze, TechnicalReview,
                                          TypeOK
  <2>2. snapshot' \in FrozenSnapshot(points)
    BY <1>1, <1>4 DEF FrozenSnapshot, Digests, Digest
  <2> QED BY <1>1, <1>2, <2>1, <2>2 DEF TypeOK, Statuses
<1>7. RecordsByStage'
  BY <1>1, <1>3 DEF RecordsByStage
<1>8. ClearFromReview'
  BY <1>1, <1>2 DEF ClearFromReview
<1>9. OpenDeviationBlocks' /\ CriticalBlocks'
  BY <1>1 DEF OpenDeviationBlocks, CriticalBlocks, NothingBlocks
<1>10. /\ EvidenceCurrent' /\ FailedPointHeld' /\ ClosedDeviationProven'
       /\ Increasing(tests')
  BY <1>1 DEF IInv, EvidenceCurrent, EvidenceFits, FailedPointHeld, ClosedDeviationProven
<1>11. SnapshotCurrent'
  BY <1>1, <1>5 DEF SnapshotCurrent, content
<1>12. ReviewTrimmed' /\ CredentialMatches'
  BY <1>1, <1>3, TrimTyping DEF ReviewTrimmed, CredentialMatches
<1> QED
  BY <1>1, <1>6, <1>7, <1>8, <1>9, <1>10, <1>11, <1>12 DEF IInv

\* IssueCredential keeps the inductive invariant.
LEMMA IssueCredentialKeeps ==
    ASSUME IInv, NEW by \in Approvers, Issue(by)
    PROVE  IInv'
<1>1. /\ status = "frozen" /\ status' = "released"
      /\ Trim[by] = review.approvedBy
      /\ credential' = [digest |-> snapshot.digest, approvedBy |-> by]
      /\ UNCHANGED <<details, points, locked, tests, deviations,
                     snapshot, review>>
      /\ ValidateIntegrity'
  BY DEF Issue, IssueCredential
<1>2. credential' # NULL /\ snapshot' # NULL /\ review' # NULL
  BY <1>1 DEF ValidateIntegrity, StatusIntegrity
<1>3. TypeOK'
  BY <1>1, <1>2 DEF IInv, TypeOK, Statuses, FrozenSnapshot, ReleaseCredential
<1>4. RecordsByStage'
  BY <1>1, <1>2 DEF RecordsByStage
<1>5. ClearFromReview' /\ OpenDeviationBlocks' /\ CriticalBlocks'
  BY <1>1 DEF IInv, ClearFromReview, OpenDeviationBlocks, CriticalBlocks
<1>6. /\ EvidenceCurrent' /\ FailedPointHeld' /\ ClosedDeviationProven'
      /\ Increasing(tests')
  BY <1>1 DEF IInv, EvidenceCurrent, EvidenceFits, FailedPointHeld, ClosedDeviationProven
<1>7. SnapshotCurrent'
  BY <1>1 DEF IInv, SnapshotCurrent
<1>8. ReviewTrimmed' /\ CredentialMatches'
  BY <1>1 DEF IInv, ReviewTrimmed, CredentialMatches
<1> QED BY <1>1, <1>3, <1>4, <1>5, <1>6, <1>7, <1>8 DEF IInv

-----------------------------------------------------------------------------
(* The inductive invariant and what follows from it.                       *)

\* A new batch satisfies the inductive invariant (NewBatch).
LEMMA InitIInv == Init => IInv
<1> SUFFICES ASSUME Init PROVE IInv
  OBVIOUS
<1>1. /\ tests = <<>> /\ deviations = <<>> /\ points = {} /\ locked = {}
      /\ status = "draft" /\ details \in Details
      /\ snapshot = NULL /\ review = NULL /\ credential = NULL
      /\ DOMAIN tests = {} /\ DOMAIN deviations = {}
  BY DEF Init
<1>2. TypeOK
  BY <1>1 DEF TypeOK, Statuses
<1>3. ValidateIntegrity
  BY <1>1 DEF ValidateIntegrity, PointsIntegrity, TestsIntegrity,
      DeviationsIntegrity, StatusIntegrity, RecordsIntegrity, Statuses
<1>4. /\ Increasing(tests) /\ EvidenceCurrent /\ ClosedDeviationProven
      /\ RecordsByStage /\ ClearFromReview
  BY <1>1 DEF Increasing, EvidenceCurrent, EvidenceFits, ClosedDeviationProven,
              RecordsByStage, ClearFromReview
<1>5. OpenDeviationBlocks /\ CriticalBlocks /\ FailedPointHeld
  BY <1>1 DEF OpenDeviationBlocks, CriticalBlocks, OpenDeviations,
              CriticalDeviations, FailedPointHeld, TestedPoints
<1>6. SnapshotCurrent /\ ReviewTrimmed /\ CredentialMatches
  BY <1>1 DEF SnapshotCurrent, ReviewTrimmed, CredentialMatches
<1> QED BY <1>2, <1>3, <1>4, <1>5, <1>6 DEF IInv

\* Every command keeps the inductive invariant.
LEMMA StepIInv == IInv /\ [Next]_vars => IInv'
<1> SUFFICES ASSUME IInv, [Next]_vars PROVE IInv'
  OBVIOUS
<1>1. ASSUME NEW dt \in Details, UpdateBatch(dt) PROVE IInv'
  BY <1>1, DraftKeeps DEF UpdateBatch, UpdateDetails, IInv, TypeOK
<1>2. ASSUME NEW rows \in SUBSET PointIds, AddPoint(rows) PROVE IInv'
  BY <1>2, DraftKeeps DEF AddPoint, AddPoints, Registrable, IInv, TypeOK
<1>3. CASE LockBatch
  BY <1>3, DraftKeeps DEF LockBatch, Lock, IInv, TypeOK
<1>4. ASSUME NEW p \in PointIds, NEW r \in Readings, RecordTest(p, r) PROVE IInv'
  BY <1>4, RecordTestKeeps
<1>5. ASSUME NEW d \in DOMAIN deviations, Remediate(d) PROVE IInv'
  BY <1>5, RemediateKeeps
<1>6. ASSUME NEW d \in DOMAIN deviations, NEW r \in Readings, Retest(d, r)
      PROVE  IInv'
  BY <1>6, RetestKeeps
<1>7. ASSUME NEW d \in DOMAIN deviations, NEW severity \in Severities \cup {""},
             NEW confirm \in BOOLEAN, UpdateDeviation(d, severity, confirm)
      PROVE  IInv'
  BY <1>7, UpdateDeviationKeeps
<1>8. ASSUME NEW by \in Approvers, Approve(by) PROVE IInv'
  BY <1>8, ApproveKeeps
<1>9. ASSUME NEW by \in Approvers, Issue(by) PROVE IInv'
  BY <1>9, IssueCredentialKeeps
<1>10. CASE UNCHANGED vars
  BY <1>10 DEF vars, IInv, TypeOK, ReviewTrimmed, ValidateIntegrity,
      PointsIntegrity, TestsIntegrity, DeviationsIntegrity, StatusIntegrity,
      RecordsIntegrity, RecordsByStage, EvidenceCurrent, EvidenceFits, ClearFromReview,
      OpenDeviationBlocks, CriticalBlocks, FailedPointHeld,
      ClosedDeviationProven, SnapshotCurrent, CredentialMatches
<1> QED
  BY <1>1, <1>2, <1>3, <1>4, <1>5, <1>6, <1>7, <1>8, <1>9, <1>10 DEF Next

\* Every reachable batch satisfies the inductive invariant.
THEOREM Invariance == Spec => []IInv
BY InitIInv, StepIInv, PTL DEF Spec

\* The fields of a batch keep their types through every sequence of commands.
THEOREM TypeCorrect == Spec => []TypeOK
<1>1. IInv => TypeOK
  BY DEF IInv
<1> QED BY <1>1, Invariance, PTL

\* For any points, ratings and readings: a batch is blocked exactly while a
\* deviation is open, and a point whose latest test failed is always held by
\* an open deviation (AddTest, CloseDeviation, UpdateDeviation, refreshStatus).
THEOREM FailuresBlock == Spec => [](OpenDeviationBlocks /\ FailedPointHeld)
<1>1. IInv => OpenDeviationBlocks /\ FailedPointHeld
  BY DEF IInv
<1> QED BY <1>1, Invariance, PTL

\* Blocked means one thing, an open deviation, after any sequence of commands
\* (refreshStatus, UpdateDeviation).
THEOREM BlockedByDeviation == Spec => []OpenDeviationBlocks
BY FailuresBlock, PTL

\* Every closed deviation was answered by a later passed test of its point
\* within the tolerance (SubmitRemediation, CloseDeviation, UpgradeSeverity).
THEOREM ClosuresProven == Spec => []ClosedDeviationProven
<1>1. IInv => ClosedDeviationProven
  BY DEF IInv
<1> QED BY <1>1, Invariance, PTL

\* A critical deviation blocks its batch for good (Progress, refreshStatus).
THEOREM CriticalForever == Spec => []CriticalBlocks
<1>1. IInv => CriticalBlocks
  BY DEF IInv
<1> QED BY <1>1, Invariance, PTL

\* The snapshot of a frozen or released batch is what the batch holds (Freeze).
THEOREM SnapshotFaithful == Spec => []SnapshotCurrent
<1>1. IInv => SnapshotCurrent
  BY DEF IInv
<1> QED BY <1>1, Invariance, PTL

\* Two tolerances of 5 % compound to 90.25 %, for every load (CloseDeviation,
\* EvaluateTest).
LEMMA ToleranceCompounds ==
    ASSUME NEW o \in Int, NEW r \in Reading,
           RetestTargetOK(r.target, o), WithinLimits(r)
    PROVE  10000 * r.measured >= 9025 * o
<1>1. r.target \in Int /\ r.measured \in Int
  BY DEF Reading
<1>2. 100 * r.target >= 95 * o
  <2>1. Abs(r.target - o) >= o - r.target
    BY <1>1 DEF Abs
  <2>2. Abs(r.target - o) \in Int
    BY <1>1 DEF Abs
  <2> QED BY <1>1, <2>1, <2>2 DEF RetestTargetOK
<1>3. 100 * r.measured >= 95 * r.target
  BY DEF WithinLimits
<1> QED BY <1>1, <1>2, <1>3

\* The load that closed a deviation is at least 90.25 % of the load the failed
\* test aimed at, for every load and every sequence of retests.
THEOREM SafeLoad == Spec => []ClosedAtSafeLoad
<1>1. ASSUME IInv PROVE ClosedAtSafeLoad
  <2> SUFFICES ASSUME NEW d \in DOMAIN deviations,
                      deviations[d].status = "closed"
               PROVE  10000 * tests[deviations[d].closedBy].reading.measured
                        >= 9025 * tests[deviations[d].test].reading.target
    BY DEF ClosedAtSafeLoad
  <2> DEFINE c == deviations[d].closedBy
             f == deviations[d].test
  <2>1. c \in DOMAIN tests /\ f \in DOMAIN tests
    BY <1>1 DEF IInv, ValidateIntegrity, DeviationsIntegrity
  <2>2. tests[c] \in LoadTest /\ tests[f] \in LoadTest
    BY <1>1, <2>1, SeqElement DEF IInv, TypeOK
  <2>3. tests[c].reading \in Reading /\ tests[f].reading.target \in Int
    BY <2>2, LoadTyping DEF LoadTest, Reading
  <2>4. /\ tests[c].result = "passed"
        /\ RetestTargetOK(tests[c].reading.target, tests[f].reading.target)
    BY <1>1 DEF IInv, ClosedDeviationProven, ProvenBy
  <2>5. tests[c].result = EvaluateTest(tests[c].reading)
    BY <1>1, <2>1 DEF IInv, ValidateIntegrity, TestsIntegrity
  <2>6. WithinLimits(tests[c].reading)
    BY <2>4, <2>5 DEF EvaluateTest
  <2> QED BY <2>3, <2>4, <2>6, ToleranceCompounds
<1> QED BY <1>1, Invariance, PTL

\* A credential stands for a batch whose points all stand passed, whose
\* deviations are all closed and not critical, and it verifies (Freeze,
\* IssueCredential, VerifyCredential).
THEOREM ReleaseSound == Spec => []ReleasedSound
<1>1. ASSUME IInv PROVE ReleasedSound
  <2> SUFFICES ASSUME credential # NULL
               PROVE  /\ status = "released"
                      /\ points # {} /\ points = locked
                      /\ PassedPoints(points, tests) = points
                      /\ NothingBlocks(deviations)
                      /\ VerifyCredential = "valid"
                      /\ review # NULL
                      /\ Trim[credential.approvedBy] = review.approvedBy
    BY DEF ReleasedSound
  <2>1. status = "released" /\ snapshot # NULL /\ review # NULL
    BY <1>1 DEF IInv, RecordsByStage
  <2>2. points = locked
    BY <1>1, <2>1 DEF IInv, TypeOK, ValidateIntegrity, PointsIntegrity
  <2>3. /\ points # {} /\ PassedPoints(points, tests) = points
        /\ NothingBlocks(deviations)
    BY <1>1, <2>1 DEF IInv, ClearFromReview
  <2>4. /\ credential.digest = snapshot.digest
        /\ snapshot.digest = Digest(snapshot.content)
        /\ Trim[credential.approvedBy] = review.approvedBy
    BY <1>1, <2>1 DEF IInv, CredentialMatches, SnapshotCurrent
  <2>5. VerifyCredential = "valid"
    BY <2>1, <2>4 DEF VerifyCredential
  <2> QED BY <2>1, <2>2, <2>3, <2>4, <2>5
<1> QED BY <1>1, Invariance, PTL

\* Codes and hoist serials stay distinct under EqualFold over any number of
\* registrations (AddPoint, AddPoints).
THEOREM RegisterDistinct == Spec => []CodesDistinct
<1>1. Init => CodesDistinct
  BY DEF Init, CodesDistinct
<1>2. ASSUME CodesDistinct, [Next]_vars PROVE CodesDistinct'
  <2>1. CASE points' = points
    BY <1>2, <2>1 DEF CodesDistinct, Clash
  <2>2. ASSUME NEW rows \in SUBSET PointIds, AddPoint(rows)
        PROVE  CodesDistinct'
    BY <1>2, <2>2 DEF AddPoint, AddPoints, Registrable, CodesDistinct, Clash
  <2>3. points' = points \/ \E rows \in SUBSET PointIds : AddPoint(rows)
    BY <1>2 DEF Next, vars, UpdateBatch, UpdateDetails, LockBatch, Lock,
                RecordTest, AddTest, Remediate, SubmitRemediation, Retest,
                CloseDeviation, UpdateDeviation, ReviseDeviation, Approve,
                Freeze, Issue, IssueCredential
  <2> QED BY <2>1, <2>2, <2>3
<1> QED BY <1>1, <1>2, PTL DEF Spec

\* What a step may do to a batch with a snapshot or a credential.
FinalStep ==
    /\ snapshot # NULL =>
         UNCHANGED <<details, points, tests, deviations, snapshot, review>>
    /\ credential # NULL => UNCHANGED <<credential, status>>

LEMMA StepFinal ==
    ASSUME IInv, Next
    PROVE  FinalStep
<1> USE DEF FinalStep
<1>1. /\ snapshot # NULL => status \in {"frozen", "released"}
      /\ credential # NULL => status = "released"
  BY DEF IInv, RecordsByStage
<1>2. CASE status \notin {"frozen", "released"}
  BY <1>1, <1>2
<1>3. CASE status \in {"frozen", "released"}
  <2>1. \A d \in DOMAIN deviations, r \in Readings : ~Retest(d, r)
    BY <1>3, RetestBlocked
  <2>2. \A d \in DOMAIN deviations, severity \in Severities \cup {""},
           confirm \in BOOLEAN : ~UpdateDeviation(d, severity, confirm)
    BY <1>3, UpdateDeviationBlocked
  <2>3. \E by \in Approvers : Issue(by)
    BY <1>3, <2>1, <2>2
       DEF Next, UpdateBatch, UpdateDetails, AddPoint, AddPoints,
           Registrable, LockBatch, Lock, RecordTest, AddTest, AcceptsTests,
           Remediate, SubmitRemediation, Approve, Freeze
  <2> QED BY <2>3 DEF Issue, IssueCredential
<1> QED BY <1>2, <1>3

\* After the freeze nothing the snapshot stands on changes, and a credential is
\* written once (every command's status guard, UpdateDeviation included, which
\* has none of its own).
THEOREM FinalAfterFreeze == Spec => ReleaseFinal
<1>1. ASSUME IInv, [Next]_vars PROVE [FinalStep]_vars
  BY <1>1, StepFinal
<1> QED BY <1>1, Invariance, PTL DEF Spec, ReleaseFinal, FinalStep

\* A credential that was issued is the batch's for good, the batch stays
\* released, and a verification says valid whenever one is asked for
\* (IssueCredential, VerifyCredential).
THEOREM CredentialForEver ==
    ASSUME NEW c
    PROVE  Spec => [](credential = c /\ c # NULL =>
                        [](/\ credential = c /\ status = "released"
                           /\ VerifyCredential = "valid"))
<1> DEFINE Issued == credential = c /\ c # NULL
           Stands == /\ credential = c /\ status = "released"
                     /\ VerifyCredential = "valid"
<1>1. Issued /\ ReleasedSound => Stands
  BY DEF ReleasedSound
<1>2. ASSUME IInv, [Next]_vars, Issued PROVE Issued'
  BY <1>2, StepFinal DEF FinalStep, vars
<1> HIDE DEF Issued, Stands
<1>3. Spec => [](Issued => []Stands)
  BY <1>1, <1>2, Invariance, ReleaseSound, PTL DEF Spec
<1> QED BY <1>3 DEF Issued, Stands

\* A severity that is kept or upgraded has not fallen (UpgradeSeverity).
LEMMA RankOrder ==
    ASSUME NEW s \in Severities, NEW t \in Severities,
           t = s \/ Rank(t) > Rank(s)
    PROVE  Rank(t) >= Rank(s)
BY DEF Severities, Rank

\* What a step may do to the deviation d, and to all of them.
DeviationKept(d) ==
    /\ d \in DOMAIN deviations'
    /\ deviations'[d].test = deviations[d].test
    /\ deviations'[d].point = deviations[d].point
    /\ Rank(deviations'[d].severity) >= Rank(deviations[d].severity)
    /\ deviations[d].confirmed => deviations'[d].confirmed
    /\ deviations[d].status = "closed" => deviations'[d] = deviations[d]
    /\ deviations'[d].status = "open" =>
            ~deviations'[d].evidence /\ deviations'[d].closedBy = 0
    /\ deviations'[d].closedBy # deviations[d].closedBy =>
            /\ deviations[d].evidence
            /\ deviations'[d].closedBy \in DOMAIN tests' \ DOMAIN tests

DeviationsKept == \A d \in DOMAIN deviations : DeviationKept(d)

LEMMA StepKeepsDeviations ==
    ASSUME IInv, Next
    PROVE  DeviationsKept
<1> USE DEF DeviationKept, DeviationsKept
<1> SUFFICES ASSUME NEW d \in DOMAIN deviations PROVE DeviationKept(d)
  OBVIOUS
<1>1. deviations \in Seq(Deviation) /\ deviations[d] \in Deviation
  BY SeqElement DEF IInv, TypeOK
<1>2. \A severity \in Severities : Rank(severity) \in Int
  BY DEF Severities, Rank
<1>3. /\ Rank(deviations[d].severity) \in Int
      /\ deviations[d].status = "open" =>
            ~deviations[d].evidence /\ deviations[d].closedBy = 0
  BY <1>1, <1>2 DEF Deviation, IInv, EvidenceCurrent, EvidenceFits
<1>4. CASE deviations' = deviations
  BY <1>3, <1>4
<1>5. ASSUME NEW p \in PointIds, NEW r \in Readings, RecordTest(p, r)
      PROVE  DeviationKept(d)
  <2>1. d \in DOMAIN deviations' /\ deviations'[d] = deviations[d]
    <3>1. CASE deviations' = deviations
      BY <3>1
    <3>2. CASE deviations' # deviations
      <4>1. PICK severity \in Severities, confirmed \in BOOLEAN : deviations'
              = Append(deviations, NewDeviation(p, severity, confirmed))
        BY <1>5, <3>2 DEF RecordTest, AddTest, Raise
      <4>2. p \in points /\ tests \in Seq(LoadTest) /\ p \in PointIds
        BY <1>5 DEF RecordTest, AddTest, IInv, TypeOK
      <4>3. NewDeviation(p, severity, confirmed) \in Deviation
        BY <4>2 DEF NewDeviation, Deviation
      <4> QED BY <1>1, <4>1, <4>3, AppendProperties
    <3> QED BY <3>1, <3>2
  <2> QED BY <1>3, <2>1
<1>6. ASSUME NEW c \in DOMAIN deviations, NEW e \in Deviation,
             deviations' = [deviations EXCEPT ![c] = e],
             e.test = deviations[c].test, e.point = deviations[c].point,
             Rank(e.severity) >= Rank(deviations[c].severity),
             deviations[c].confirmed => e.confirmed,
             deviations[c].status = "closed" => e = deviations[c],
             e.status = "open" => ~e.evidence /\ e.closedBy = 0,
             e.closedBy # deviations[c].closedBy =>
                /\ deviations[c].evidence
                /\ e.closedBy \in DOMAIN tests' \ DOMAIN tests
      PROVE  DeviationKept(d)
  <2>1. /\ DOMAIN deviations' = DOMAIN deviations
        /\ deviations'[c] = e
        /\ d # c => deviations'[d] = deviations[d]
    BY <1>1, <1>6, ReplaceProperties
  <2> QED BY <1>3, <1>6, <2>1
<1> HIDE DEF DeviationKept
<1>7. ASSUME NEW c \in DOMAIN deviations, Remediate(c) PROVE DeviationKept(d)
  <2> DEFINE e == [deviations[c] EXCEPT !.evidence = TRUE,
                                        !.status = "remediated"]
  <2>1. deviations[c] \in Deviation
    BY <1>1, SeqElement
  <2>2. /\ e \in Deviation /\ e.test = deviations[c].test
        /\ e.point = deviations[c].point
        /\ e.severity = deviations[c].severity
        /\ e.confirmed = deviations[c].confirmed
        /\ e.status = "remediated" /\ e.closedBy = deviations[c].closedBy
    BY <2>1 DEF Deviation
  <2>3. /\ deviations' = [deviations EXCEPT ![c] = e]
        /\ deviations[c].status = "open"
    BY <1>7 DEF Remediate, SubmitRemediation
  <2> HIDE DEF e
  <2>4. Rank(e.severity) >= Rank(deviations[c].severity)
    BY <1>2, <2>1, <2>2 DEF Deviation
  <2> QED BY <1>6, <2>2, <2>3, <2>4
<1>8. ASSUME NEW c \in DOMAIN deviations, NEW r \in Readings, Retest(c, r)
      PROVE  DeviationKept(d)
  <2> DEFINE dev == deviations[c]
  <2>1. dev \in Deviation /\ Len(tests) + 1 \in Nat
    BY <1>1, SeqElement DEF IInv, TypeOK
  <2>2. /\ dev.status = "remediated" /\ dev.evidence /\ dev.closedBy = 0
        /\ Len(tests) + 1 \in DOMAIN tests' \ DOMAIN tests
    <3>1. dev.status = "remediated"
      BY <1>8 DEF Retest, CloseDeviation
    <3>2. EvidenceFits(dev)
      BY DEF IInv, EvidenceCurrent
    <3>3. /\ tests \in Seq(LoadTest) /\ dev.point \in points
          /\ tests' = Append(tests, NewTest(dev.point, r))
      BY <1>8 DEF Retest, CloseDeviation, IInv, TypeOK, ValidateIntegrity,
                  DeviationsIntegrity, TestsIntegrity
    <3> HIDE DEF dev
    <3>4. NewTest(dev.point, r) \in LoadTest
      BY <3>3, NewTestAppended
    <3>5. DOMAIN tests' = 1 .. Len(tests) + 1 /\ DOMAIN tests = 1 .. Len(tests)
      BY <3>3, <3>4, AppendProperties
    <3> QED BY <2>1, <3>1, <3>2, <3>5 DEF EvidenceFits
  <2>3. ASSUME NEW e, e \in {Reopened(dev), Closed(dev, Len(tests) + 1)}
        PROVE  /\ e \in Deviation /\ e.test = dev.test
               /\ e.point = dev.point /\ e.severity = dev.severity
               /\ e.confirmed = dev.confirmed
               /\ e.status = "open" => ~e.evidence /\ e.closedBy = 0
               /\ e.closedBy # 0 => e.closedBy = Len(tests) + 1
    <3>1. CASE e = Reopened(dev)
      BY <2>1, <3>1 DEF Reopened, Deviation
    <3>2. CASE e = Closed(dev, Len(tests) + 1)
      BY <2>1, <3>2 DEF Closed, Deviation
    <3> QED BY <2>3, <3>1, <3>2
  <2>4. PICK e \in {Reopened(dev), Closed(dev, Len(tests) + 1)} :
          deviations' = [deviations EXCEPT ![c] = e]
    BY <1>8 DEF Retest, CloseDeviation
  <2>5. /\ e \in Deviation /\ e.test = dev.test /\ e.point = dev.point
        /\ e.severity = dev.severity /\ e.confirmed = dev.confirmed
        /\ e.status = "open" => ~e.evidence /\ e.closedBy = 0
        /\ e.closedBy # 0 => e.closedBy = Len(tests) + 1
    BY <2>3, <2>4
  <2>6. Rank(e.severity) >= Rank(dev.severity)
    BY <1>2, <2>1, <2>5 DEF Deviation
  <2> QED BY <1>6, <2>2, <2>4, <2>5, <2>6
<1>9. ASSUME NEW c \in DOMAIN deviations,
             NEW severity \in Severities \cup {""}, NEW confirm \in BOOLEAN,
             UpdateDeviation(c, severity, confirm)
      PROVE  DeviationKept(d)
  <2> DEFINE dev == deviations[c]
             e == [dev EXCEPT
                     !.severity = IF severity = "" THEN @ ELSE severity,
                     !.confirmed = @ \/ confirm]
  <2>1. dev \in Deviation
    BY <1>1, SeqElement
  <2>2. /\ deviations' = [deviations EXCEPT ![c] = e]
        /\ severity # "" => dev.status # "closed"
        /\ confirm => dev.status # "closed"
    BY <1>9 DEF UpdateDeviation, ReviseDeviation, UpgradeAllowed
  <2>3. /\ e \in Deviation /\ e.test = dev.test /\ e.point = dev.point
        /\ dev.confirmed => e.confirmed
        /\ severity = "" /\ ~confirm => e = dev
        /\ e.status = dev.status /\ e.evidence = dev.evidence
        /\ e.closedBy = dev.closedBy
    BY <2>1 DEF Deviation
  <2>4. Rank(e.severity) >= Rank(dev.severity)
    <3>1. dev.severity \in Severities /\ e.severity \in Severities
      BY <2>1, <2>3 DEF Deviation
    <3>2. \/ e.severity = dev.severity
          \/ Rank(e.severity) > Rank(dev.severity)
      <4>1. CASE severity = ""
        BY <2>1, <4>1 DEF Deviation
      <4>2. CASE severity # ""
        <5>1. e.severity = severity
          BY <2>1, <4>2 DEF Deviation
        <5>2. Rank(severity) > Rank(dev.severity)
          BY <1>9, <4>2 DEF UpdateDeviation, ReviseDeviation, UpgradeAllowed
        <5> QED BY <5>1, <5>2
      <4> QED BY <4>1, <4>2
    <3> QED BY <3>1, <3>2, RankOrder
  <2>5. dev.status = "open" => ~dev.evidence /\ dev.closedBy = 0
    BY DEF IInv, EvidenceCurrent, EvidenceFits
  <2> HIDE DEF e
  <2> QED BY <1>6, <2>2, <2>3, <2>4, <2>5
<1> QED
  BY <1>4, <1>5, <1>7, <1>8, <1>9
     DEF Next, UpdateBatch, UpdateDetails, AddPoint, AddPoints, Registrable,
         LockBatch, Lock, Approve, Freeze, Issue, IssueCredential

\* Severities only rise, confirmations stay, and a closed deviation is closed
\* for good (UpgradeSeverity, ConfirmResponsibility, CloseDeviation).
THEOREM DeviationsEvolve == Spec => DeviationHistory
<1>1. ASSUME IInv, [Next]_vars PROVE [DeviationsKept]_vars
  BY <1>1, StepKeepsDeviations
<1> QED BY <1>1, Invariance, PTL
       DEF Spec, DeviationHistory, DeviationKept, DeviationsKept

\* A batch that has had one critical deviation is never released: it stays
\* blocked for good, whatever is remediated, retested and closed (Progress,
\* refreshStatus, ValidateIntegrity).
THEOREM CriticalNeverReleased ==
    Spec => [](CriticalDeviations(deviations) # {} =>
                [](status = "blocked" /\ credential = NULL))
<1> DEFINE Critical == CriticalDeviations(deviations) # {}
           Stuck == status = "blocked" /\ credential = NULL
<1>1. IInv /\ Critical => Stuck
  BY DEF IInv, CriticalBlocks, RecordsByStage
<1>2. ASSUME IInv, TypeOK', Next, Critical PROVE Critical'
  <2>1. PICK d \in DOMAIN deviations : deviations[d].severity = "critical"
    BY <1>2 DEF CriticalDeviations
  <2>2. /\ d \in DOMAIN deviations'
        /\ Rank(deviations'[d].severity) >= Rank("critical")
    BY <1>2, <2>1, StepKeepsDeviations DEF DeviationKept, DeviationsKept
  <2>3. deviations'[d].severity \in Severities
    <3>1. deviations' \in Seq(Deviation)
      BY <1>2 DEF TypeOK
    <3>2. deviations'[d] \in Deviation
      BY <2>2, <3>1, SeqElement
    <3> QED BY <3>2 DEF Deviation
  <2>4. deviations'[d].severity = "critical"
    BY <2>2, <2>3 DEF Severities, Rank
  <2> QED BY <2>2, <2>4 DEF CriticalDeviations
<1>3. IInv /\ IInv' /\ [Next]_vars /\ Critical => Critical'
  BY <1>2 DEF IInv, vars
<1> HIDE DEF Critical, Stuck
<1>4. Spec => [](Critical => []Stuck)
  BY <1>1, <1>3, Invariance, PTL DEF Spec
<1> QED BY <1>4 DEF Critical, Stuck

-----------------------------------------------------------------------------
(* What the integrity check can refuse.                                    *)

\* Continuous attempts make the next attempt the count of those so far plus
\* one, with or without an earlier test (AddTest, CloseDeviation).
LEMMA NextAttemptIsCount ==
    ASSUME NEW ts \in Seq(LoadTest), NEW p \in PointIds,
           AttemptsContinuous(ts, p)
    PROVE  /\ IsFiniteSet(Attempts(ts, p))
           /\ Cardinality(Attempts(ts, p)) \in Nat
           /\ NextAttempt(ts, p) = Cardinality(Attempts(ts, p)) + 1
<1> DEFINE A == Attempts(ts, p)
           n == Cardinality(A)
           k == LatestTest(ts, p)
<1>1. IsFiniteSet(A) /\ n \in Nat
  <2>1. IsFiniteSet(1 .. Len(ts))
    BY FS_Interval
  <2>2. A \subseteq 1 .. Len(ts)
    BY DEF Attempts
  <2> QED BY <2>1, <2>2, FS_Subset, FS_CardinalityType
<1>2. CASE A = {}
  BY <1>2, <1>1, FS_EmptySet DEF NextAttempt
<1>3. CASE A # {}
  <2>1. k \in DOMAIN ts /\ IsLatest(ts, p, k)
    BY <1>3, LatestExists
  <2>2. {ts[i].attempt : i \in A} = 1 .. n
    BY DEF AttemptsContinuous
  <2>3. n # 0
    BY <1>1, <1>3, FS_EmptySet
  <2>4. PICK i \in A : ts[i].attempt = n
    BY <1>1, <2>2, <2>3
  <2> HIDE DEF A, n, k
  <2>5. ts[k].attempt \in 1 .. n
    BY <2>1, <2>2 DEF IsLatest, A
  <2>6. n <= ts[k].attempt
    BY <2>1, <2>4 DEF IsLatest, A
  <2>7. ts[k].attempt = n
    BY <1>1, <2>5, <2>6
  <2> QED BY <1>1, <1>3, <2>7 DEF NextAttempt, A, n, k
<1> QED BY <1>2, <1>3

\* An accepted reading keeps what the check asks of the tests: the new attempt
\* continues those of its point (AddTest, CloseDeviation).
LEMMA NewTestIntegrity ==
    ASSUME IInv, NEW p \in points, NEW r \in Readings,
           AcceptableReading(Rated[p], r),
           tests' = Append(tests, NewTest(p, r)), points' = points
    PROVE  TestsIntegrity'
<1> DEFINE n == Len(tests) + 1
           A == Attempts(tests, p)
           c == Cardinality(A)
<1>1. /\ tests \in Seq(LoadTest) /\ points \subseteq PointIds
      /\ TestsIntegrity
  BY DEF IInv, TypeOK, ValidateIntegrity
<1>2. /\ Len(tests) \in Nat
      /\ DOMAIN tests = 1 .. Len(tests)
      /\ DOMAIN tests' = 1 .. n
      /\ tests'[n] = NewTest(p, r)
      /\ \A i \in DOMAIN tests : tests'[i] = tests[i]
  BY NewTestAppended
<1>3. /\ IsFiniteSet(A) /\ c \in Nat /\ NextAttempt(tests, p) = c + 1
      /\ AttemptsContinuous(tests, p)
  BY <1>1, NextAttemptIsCount DEF TestsIntegrity
<1>4. ASSUME NEW i \in DOMAIN tests'
      PROVE  /\ tests'[i].point \in points
             /\ AcceptableReading(Rated[tests'[i].point], tests'[i].reading)
             /\ tests'[i].result = EvaluateTest(tests'[i].reading)
             /\ tests'[i].attempt >= 1
  <2>1. CASE i \in DOMAIN tests
    BY <1>1, <1>2, <2>1 DEF TestsIntegrity
  <2>2. CASE i = n
    BY <1>2, <1>3, <2>2 DEF NewTest
  <2> QED BY <1>2, <2>1, <2>2
<1>5. ASSUME NEW q \in points PROVE AttemptsContinuous(tests', q)
  <2>1. CASE q # p
    <3>1. Attempts(tests', q) = Attempts(tests, q)
      BY <1>2, <2>1 DEF Attempts, NewTest
    <3>2. \A i \in Attempts(tests, q) : tests'[i] = tests[i]
      BY <1>2 DEF Attempts
    <3>3. AttemptsContinuous(tests, q)
      BY <1>1 DEF TestsIntegrity
    <3> QED BY ZenonT(30), <3>1, <3>2, <3>3 DEF AttemptsContinuous
  <2>2. CASE q = p
    <3>1. n \notin A
      BY <1>2 DEF Attempts
    <3>2. Attempts(tests', p) = A \cup {n}
      BY <1>2 DEF Attempts, NewTest
    <3>3. Cardinality(Attempts(tests', p)) = c + 1
      BY <1>3, <3>1, <3>2, FS_AddElement
    <3>4. {tests[i].attempt : i \in A} = 1 .. c
      BY <1>3 DEF AttemptsContinuous
    <3>5. /\ \A i \in A : tests'[i].attempt = tests[i].attempt
          /\ tests'[n].attempt = c + 1
      BY <1>2, <1>3 DEF Attempts, NewTest
    <3> HIDE DEF A, c, n
    <3>6. {tests'[i].attempt : i \in A \cup {n}} = (1 .. c) \cup {c + 1}
      BY <3>4, <3>5
    <3>7. (1 .. c) \cup {c + 1} = 1 .. c + 1
      BY <1>3
    <3> QED BY <2>2, <3>2, <3>3, <3>6, <3>7 DEF AttemptsContinuous
  <2> QED BY <2>1, <2>2
<1> QED BY <1>4, <1>5 DEF TestsIntegrity

\* While a batch is being tested, a step that keeps the tests and the
\* deviations in order and writes the status as AddTest, CloseDeviation and
\* UpdateDeviation do can only fail the line that asks a blocked batch for an
\* open deviation.
LEMMA BlockedLineDecides ==
    ASSUME IInv, AcceptsTests(status), TestsIntegrity', DeviationsIntegrity',
           \/ status' = "blocked"
           \/ status' = RefreshedStatus(points, tests', deviations'),
           UNCHANGED <<points, locked, snapshot, review, credential>>
    PROVE  ValidateIntegrity' <=>
                (status' = "blocked" => OpenDeviations(deviations') # {})
<1>1. /\ ValidateIntegrity /\ RecordsByStage /\ OpenDeviationBlocks
  BY DEF IInv
<1>2. PointsIntegrity'
  BY <1>1 DEF ValidateIntegrity, PointsIntegrity, AcceptsTests
<1>3. RecordsIntegrity'
  BY <1>1 DEF AcceptsTests, RecordsByStage, RecordsIntegrity
<1>4. points # {}
  <2>1. CASE status = "blocked"
    <3>1. PICK d \in DOMAIN deviations : TRUE
      BY <1>1, <2>1 DEF OpenDeviationBlocks, OpenDeviations
    <3>2. deviations[d].test \in DOMAIN tests
      BY <1>1 DEF ValidateIntegrity, DeviationsIntegrity
    <3>3. tests[deviations[d].test].point \in points
      BY <1>1, <3>2 DEF ValidateIntegrity, TestsIntegrity
    <3> QED BY <3>3
  <2>2. CASE status # "blocked"
    BY <1>1, <2>2 DEF ValidateIntegrity, StatusIntegrity, AcceptsTests
  <2> QED BY <2>1, <2>2
<1>5. status' \in {"blocked", "pending_review", "testing"}
  BY DEF RefreshedStatus
<1>6. status' = "pending_review" =>
        /\ PassedPoints(points, tests') = points
        /\ NothingBlocks(deviations')
  BY DEF RefreshedStatus
<1> QED
  BY <1>2, <1>3, <1>4, <1>5, <1>6 DEF ValidateIntegrity, StatusIntegrity,
                                      Statuses

\* AddTest on a batch that passes the check always passes it again.
LEMMA AddTestAccepted ==
    ASSUME IInv, NEW p \in PointIds, NEW r \in Readings, AddTest(p, r)
    PROVE  ValidateIntegrity'
<1> DEFINE n == Len(tests) + 1
<1>1. /\ AcceptsTests(status) /\ p \in points
      /\ AcceptableReading(Rated[p], r)
      /\ tests' = Append(tests, NewTest(p, r))
      /\ UNCHANGED <<points, locked, snapshot, review, credential>>
  BY DEF AddTest
<1>2. TestsIntegrity'
  BY <1>1, NewTestIntegrity
<1>3. /\ tests \in Seq(LoadTest) /\ deviations \in Seq(Deviation)
      /\ DeviationsIntegrity /\ OpenDeviationBlocks /\ CriticalBlocks
      /\ p \in PointIds
  BY DEF IInv, TypeOK, ValidateIntegrity
<1>4. /\ Len(tests) \in Nat
      /\ DOMAIN tests = 1 .. Len(tests) /\ DOMAIN tests' = 1 .. n
      /\ tests'[n] = NewTest(p, r)
      /\ \A i \in DOMAIN tests : tests'[i] = tests[i]
  BY <1>1, NewTestAppended
<1>5. CASE EvaluateTest(r) = "failed"
  <2>1. status' = "blocked"
    BY <1>5 DEF AddTest, EvaluateTest
  <2>2. PICK severity \in Severities, confirmed \in BOOLEAN :
          deviations' = Append(deviations, NewDeviation(p, severity, confirmed))
    BY <1>5 DEF AddTest, Raise
  <2> DEFINE e == NewDeviation(p, severity, confirmed)
             m == Len(deviations) + 1
  <2>3. /\ e \in Deviation /\ e.status = "open" /\ e.point = p /\ e.test = n
    BY <1>3, <1>4 DEF NewDeviation, Deviation
  <2> HIDE DEF e
  <2>4. deviations' = Append(deviations, e)
    BY <2>2 DEF e
  <2>5. /\ DOMAIN deviations' = 1 .. m /\ Len(deviations) \in Nat
        /\ DOMAIN deviations = 1 .. Len(deviations)
        /\ \A d \in DOMAIN deviations : deviations'[d] = deviations[d]
        /\ deviations'[m] = e
    BY <1>3, <2>3, <2>4, AppendProperties
  <2>6. m \in OpenDeviations(deviations')
    BY <2>3, <2>5 DEF OpenDeviations
  <2>7. DeviationsIntegrity'
    <3> SUFFICES ASSUME NEW d \in DOMAIN deviations'
                 PROVE  LET dev == deviations'[d] IN
                        /\ dev.test \in DOMAIN tests'
                        /\ tests'[dev.test].result = "failed"
                        /\ tests'[dev.test].point = dev.point
                        /\ dev.status = "closed" =>
                            /\ dev.closedBy \in DOMAIN tests'
                            /\ tests'[dev.closedBy].result = "passed"
                            /\ dev.evidence
      BY DEF DeviationsIntegrity
    <3>1. CASE d \in DOMAIN deviations
      BY <1>3, <1>4, <2>5, <3>1 DEF DeviationsIntegrity
    <3>2. CASE d = m
      BY <1>4, <1>5, <2>3, <2>5, <3>2 DEF NewTest
    <3> QED BY <2>5, <3>1, <3>2
  <2> QED BY <1>1, <1>2, <2>1, <2>6, <2>7, BlockedLineDecides
<1>6. CASE EvaluateTest(r) = "passed"
  <2>1. /\ deviations' = deviations
        /\ status' = RefreshedStatus(points, tests', deviations')
    BY <1>6 DEF AddTest
  <2>2. DeviationsIntegrity'
    BY <1>3, <1>4, <2>1 DEF DeviationsIntegrity
  <2>3. status' = "blocked" => OpenDeviations(deviations') # {}
    BY <1>3, <2>1 DEF RefreshedStatus, NothingBlocks, UnconfirmedDeviations,
                      OpenDeviationBlocks, CriticalBlocks
  <2> QED BY <1>1, <1>2, <2>1, <2>2, <2>3, BlockedLineDecides
<1> QED BY <1>5, <1>6 DEF EvaluateTest

\* CloseDeviation passes the check except for one case: the retest passed, the
\* batch has a critical deviation and no other open one.  refreshStatus then
\* writes blocked, for which nothing is open any more.
LEMMA CloseDeviationDecided ==
    ASSUME IInv, NEW d \in DOMAIN deviations, NEW r \in Readings,
           CloseDeviation(d, r)
    PROVE  /\ ValidateIntegrity' <=>
                (status' = "blocked" => OpenDeviations(deviations') # {})
           /\ ValidateIntegrity' <=>
                \/ EvaluateTest(r) = "failed"
                \/ CriticalDeviations(deviations) = {}
                \/ OtherDeviationOpen(d)
<1> DEFINE dev == deviations[d]
           p == dev.point
           n == Len(tests) + 1
<1>1. /\ dev.status = "remediated"
      /\ AcceptableReading(Rated[p], r)
      /\ tests' = Append(tests, NewTest(p, r))
      /\ UNCHANGED <<points, locked, snapshot, review, credential>>
  BY DEF CloseDeviation
<1>2. /\ tests \in Seq(LoadTest) /\ deviations \in Seq(Deviation)
      /\ dev \in Deviation
      /\ DeviationsIntegrity /\ TestsIntegrity /\ EvidenceCurrent
  BY SeqElement DEF IInv, TypeOK, ValidateIntegrity
<1>3. dev.test \in DOMAIN tests /\ tests[dev.test].point = p /\ p \in points
  BY <1>2 DEF DeviationsIntegrity, TestsIntegrity
<1>4. AcceptsTests(status)
  BY <1>1 DEF IInv, OpenDeviationBlocks, OpenDeviations, AcceptsTests
<1>5. /\ Len(tests) \in Nat
      /\ DOMAIN tests = 1 .. Len(tests) /\ DOMAIN tests' = 1 .. n
      /\ tests'[n] = NewTest(p, r)
      /\ \A i \in DOMAIN tests : tests'[i] = tests[i]
  BY <1>1, <1>3, NewTestAppended
<1>6. TestsIntegrity'
  BY <1>1, <1>3, NewTestIntegrity
<1>7. /\ DOMAIN deviations' = DOMAIN deviations
      /\ \A e \in DOMAIN deviations : e # d => deviations'[e] = deviations[e]
      /\ \/ /\ EvaluateTest(r) = "failed"
            /\ deviations'[d] = Reopened(dev) /\ status' = "blocked"
         \/ /\ EvaluateTest(r) = "passed"
            /\ deviations'[d] = Closed(dev, n)
            /\ status' = RefreshedStatus(points, tests', deviations')
  <2>0. dev \in Deviation /\ n \in Nat
    BY <1>2, <1>5
  <2>1. Reopened(dev) \in Deviation /\ Closed(dev, n) \in Deviation
    BY <2>0 DEF Reopened, Closed, Deviation
  <2>2. CASE EvaluateTest(r) = "failed"
    <3>1. /\ deviations' = [deviations EXCEPT ![d] = Reopened(dev)]
          /\ status' = "blocked"
      BY <2>2 DEF CloseDeviation, EvaluateTest
    <3> QED BY <1>2, <2>1, <2>2, <3>1, ReplaceProperties
  <2>3. CASE EvaluateTest(r) = "passed"
    <3>1. /\ deviations' = [deviations EXCEPT ![d] = Closed(dev, n)]
          /\ status' = RefreshedStatus(points, tests', deviations')
      BY <2>3 DEF CloseDeviation, EvaluateTest
    <3> QED BY <1>2, <2>1, <2>3, <3>1, ReplaceProperties
  <2> QED BY <2>2, <2>3 DEF EvaluateTest
<1>8. /\ deviations'[d].test = dev.test /\ deviations'[d].point = dev.point
      /\ deviations'[d].severity = dev.severity
      /\ EvaluateTest(r) = "failed" => deviations'[d].status = "open"
      /\ EvaluateTest(r) = "passed" => /\ deviations'[d].status = "closed"
                                       /\ deviations'[d].closedBy = n
                                       /\ deviations'[d].evidence
  <2>1. dev \in Deviation /\ dev.evidence
    BY <1>1, <1>2 DEF EvidenceCurrent, EvidenceFits
  <2>2. ASSUME NEW e, e \in {Reopened(dev), Closed(dev, n)}
        PROVE  /\ e.test = dev.test /\ e.point = dev.point
               /\ e.severity = dev.severity
    BY <2>1, <2>2 DEF Reopened, Closed, Deviation
  <2>3. /\ Reopened(dev).status = "open"
        /\ Closed(dev, n).status = "closed" /\ Closed(dev, n).closedBy = n
        /\ Closed(dev, n).evidence
    BY <2>1 DEF Reopened, Closed, Deviation
  <2>4. \/ EvaluateTest(r) = "failed" /\ deviations'[d] = Reopened(dev)
        \/ EvaluateTest(r) = "passed" /\ deviations'[d] = Closed(dev, n)
    BY <1>7
  <2> QED BY <2>2, <2>3, <2>4 DEF EvaluateTest
<1>9. DeviationsIntegrity'
  <2> SUFFICES ASSUME NEW c \in DOMAIN deviations'
               PROVE  LET e == deviations'[c] IN
                      /\ e.test \in DOMAIN tests'
                      /\ tests'[e.test].result = "failed"
                      /\ tests'[e.test].point = e.point
                      /\ e.status = "closed" =>
                            /\ e.closedBy \in DOMAIN tests'
                            /\ tests'[e.closedBy].result = "passed"
                            /\ e.evidence
    BY DEF DeviationsIntegrity
  <2>1. CASE c # d
    BY <1>2, <1>5, <1>7, <2>1 DEF DeviationsIntegrity
  <2>2. CASE c = d
    BY <1>2, <1>5, <1>7, <1>8, <2>2 DEF DeviationsIntegrity, NewTest
  <2> QED BY <2>1, <2>2
<1>10. ValidateIntegrity' <=>
            (status' = "blocked" => OpenDeviations(deviations') # {})
  BY <1>1, <1>4, <1>6, <1>7, <1>9, BlockedLineDecides
<1>11. CriticalDeviations(deviations') = CriticalDeviations(deviations)
  BY <1>7, <1>8 DEF CriticalDeviations
<1>12. CASE EvaluateTest(r) = "failed"
  BY <1>7, <1>8, <1>10, <1>12 DEF OpenDeviations
<1>13. CASE EvaluateTest(r) = "passed"
  <2>1. OpenDeviations(deviations') = OpenDeviations(deviations) \ {d}
    BY <1>7, <1>8, <1>13 DEF OpenDeviations
  <2>2. status' = "blocked" <=>
            \/ OpenDeviations(deviations') # {}
            \/ CriticalDeviations(deviations) # {}
    BY <1>7, <1>11, <1>13 DEF RefreshedStatus, NothingBlocks,
                              UnconfirmedDeviations, EvaluateTest
  <2>3. EvaluateTest(r) # "failed"
    BY <1>13
  <2> QED BY <1>10, <2>1, <2>2, <2>3 DEF OtherDeviationOpen
<1> QED BY <1>12, <1>13 DEF EvaluateTest

\* A revision that keeps the status, the test and the point of a deviation
\* passes the check exactly if some deviation is open.
LEMMA RevisionAccepted ==
    ASSUME IInv, NEW d \in DOMAIN deviations, NEW e \in Deviation,
           deviations' = [deviations EXCEPT ![d] = e],
           e.test = deviations[d].test, e.point = deviations[d].point,
           e.closedBy = deviations[d].closedBy,
           deviations[d].status = "closed" =>
                e.status = "closed" /\ e.evidence,
           e.status = "closed" => deviations[d].status = "closed",
           status' = "blocked",
           UNCHANGED <<points, locked, tests, snapshot, review, credential>>
    PROVE  /\ ValidateIntegrity' <=> OpenDeviations(deviations) # {}
           /\ OpenDeviations(deviations') = OpenDeviations(deviations)
<1>1. /\ deviations \in Seq(Deviation) /\ TestsIntegrity
      /\ DeviationsIntegrity
  BY DEF IInv, TypeOK, ValidateIntegrity
<1>2. /\ DOMAIN deviations' = DOMAIN deviations
      /\ deviations'[d] = e
      /\ \A c \in DOMAIN deviations : c # d => deviations'[c] = deviations[c]
  BY <1>1, ReplaceProperties
<1>3. OpenDeviations(deviations') = OpenDeviations(deviations)
  BY <1>2 DEF OpenDeviations
<1>4. CASE OpenDeviations(deviations) = {}
  BY <1>3, <1>4 DEF ValidateIntegrity, StatusIntegrity
<1>5. CASE OpenDeviations(deviations) # {}
  <2>1. AcceptsTests(status)
    BY <1>5 DEF IInv, OpenDeviationBlocks, AcceptsTests
  <2>2. TestsIntegrity'
    BY <1>1 DEF TestsIntegrity
  <2>3. DeviationsIntegrity'
    BY <1>1, <1>2 DEF DeviationsIntegrity
  <2> QED BY <1>3, <1>5, <2>1, <2>2, <2>3, BlockedLineDecides
<1> QED BY <1>3, <1>4, <1>5

\* UpdateDeviation passes the check exactly while a deviation is open: asked
\* for nothing on a batch without one, it would write blocked for no reason.
LEMMA ReviseDeviationAccepted ==
    ASSUME IInv, NEW d \in DOMAIN deviations,
           NEW severity \in Severities \cup {""}, NEW confirm \in BOOLEAN,
           ReviseDeviation(d, severity, confirm)
    PROVE  /\ ValidateIntegrity' <=> OpenDeviations(deviations) # {}
           /\ OpenDeviations(deviations') = OpenDeviations(deviations)
<1> DEFINE dev == deviations[d]
           e == [dev EXCEPT
                   !.severity = IF severity = "" THEN @ ELSE severity,
                   !.confirmed = @ \/ confirm]
<1>1. dev \in Deviation
  BY SeqElement DEF IInv, TypeOK
<1>2. /\ e \in Deviation /\ e.test = dev.test /\ e.point = dev.point
      /\ e.status = dev.status /\ e.evidence = dev.evidence
      /\ e.closedBy = dev.closedBy
  BY <1>1 DEF Deviation
<1>3. /\ status' = "blocked"
      /\ deviations' = [deviations EXCEPT ![d] = e]
      /\ UNCHANGED <<points, locked, tests, snapshot, review, credential>>
  BY DEF ReviseDeviation
<1>4. dev.status = "closed" => dev.evidence
  BY DEF IInv, EvidenceCurrent, EvidenceFits
<1> HIDE DEF e
<1> QED BY <1>2, <1>3, <1>4, RevisionAccepted

\* SubmitRemediation always passes the check.
LEMMA SubmitRemediationAccepted ==
    ASSUME IInv, NEW d \in DOMAIN deviations, SubmitRemediation(d)
    PROVE  ValidateIntegrity'
<1> DEFINE dev == deviations[d]
           e == [dev EXCEPT !.evidence = TRUE, !.status = "remediated"]
<1>1. dev \in Deviation
  BY SeqElement DEF IInv, TypeOK
<1>2. /\ e \in Deviation /\ e.test = dev.test /\ e.point = dev.point
      /\ e.status = "remediated" /\ e.closedBy = dev.closedBy
  BY <1>1 DEF Deviation
<1>3. /\ status' = "blocked" /\ dev.status = "open"
      /\ deviations' = [deviations EXCEPT ![d] = e]
      /\ UNCHANGED <<points, locked, tests, snapshot, review, credential>>
  BY DEF SubmitRemediation
<1>4. OpenDeviations(deviations) # {}
  BY <1>3 DEF OpenDeviations
<1> HIDE DEF e
<1> QED BY <1>2, <1>3, <1>4, RevisionAccepted

\* The commands on a draft always pass the check: rows that AddPoints admits
\* are within their ratings and differ from each other and from the registered
\* ones, and a locked batch has points (UpdateDetails, AddPoints, Lock).
LEMMA DraftAccepted ==
    ASSUME IInv,
           \/ \E dt \in Details : UpdateDetails(dt)
           \/ \E rows \in SUBSET PointIds : AddPoints(rows)
           \/ Lock
    PROVE  ValidateIntegrity'
<1>1. /\ status = "draft" /\ status' \in {"draft", "awaiting_tests"}
      /\ UNCHANGED <<tests, deviations, snapshot, review, credential>>
      /\ status' = "awaiting_tests" => points' # {} /\ points' \subseteq locked'
  BY DEF UpdateDetails, AddPoints, Registrable, Lock
<1>2. /\ tests = <<>> /\ deviations = <<>>
      /\ snapshot = NULL /\ review = NULL /\ PointsIntegrity
  BY <1>1 DEF IInv, RecordsByStage, ValidateIntegrity
<1>3. DOMAIN tests' = {} /\ DOMAIN deviations' = {}
  BY <1>1, <1>2
<1>4. \A p \in points' : AttemptsContinuous(tests', p)
  BY <1>3, FS_EmptySet DEF AttemptsContinuous, Attempts
<1>5. TestsIntegrity' /\ DeviationsIntegrity'
  BY <1>3, <1>4 DEF TestsIntegrity, DeviationsIntegrity
<1>6. StatusIntegrity' /\ RecordsIntegrity'
  BY <1>1, <1>2 DEF StatusIntegrity, Statuses, RecordsIntegrity
<1>7. PointsIntegrity'
  <2>1. CASE points' = points
    BY <1>1, <1>2, <2>1 DEF PointsIntegrity
  <2>2. ASSUME NEW rows \in SUBSET PointIds, AddPoints(rows)
        PROVE  PointsIntegrity'
    <3>1. /\ \A p \in rows : WithinCapacity(Planned[p], Rated[p])
          /\ \A p \in rows : \A q \in (points \cup rows) \ {p} : ~Clash(p, q)
          /\ points' = points \cup rows /\ status' = "draft"
      BY <1>1, <2>2 DEF AddPoints, Registrable
    <3>2. ASSUME NEW p \in points', NEW q \in points', p # q
          PROVE  Code[p] # Code[q] /\ Hoist[p] # Hoist[q]
      <4>1. CASE p \in points /\ q \in points
        BY <1>2, <3>2, <4>1 DEF PointsIntegrity
      <4>2. CASE p \in rows
        BY <3>1, <3>2, <4>2 DEF Clash
      <4>3. CASE q \in rows
        BY <3>1, <3>2, <4>3 DEF Clash
      <4> QED BY <3>1, <4>1, <4>2, <4>3
    <3> QED BY <1>2, <3>1, <3>2 DEF PointsIntegrity
  <2> QED BY <2>1, <2>2 DEF UpdateDetails, Lock
<1> QED BY <1>5, <1>6, <1>7 DEF ValidateIntegrity

\* Freeze always passes the check: it counts what it has just required.
LEMMA FreezeAccepted ==
    ASSUME IInv, NEW by \in Approvers, Freeze(by)
    PROVE  ValidateIntegrity'
<1> DEFINE content == SnapshotData(details, points, tests)
<1>1. /\ status = "pending_review" /\ status' = "frozen"
      /\ PassedPoints(points, tests) = points
      /\ snapshot' = [content |-> content, digest |-> Digest(content)]
      /\ review'.pointCount = Cardinality(points)
      /\ review'.testedPointCount = Cardinality(TestedPoints(points, tests))
      /\ review'.passedPointCount = Cardinality(PassedPoints(points, tests))
      /\ UNCHANGED <<details, points, locked, tests, deviations, credential>>
  BY DEF Freeze
<1>2. TypeOK /\ RecordsByStage /\ ValidateIntegrity
  BY DEF IInv
<1>3. content \in Content(points)
  BY FrozenContent DEF Freeze
<1> HIDE DEF content
<1>4. snapshot' \in FrozenSnapshot(points)
  BY <1>1, <1>3 DEF FrozenSnapshot, Digests, Digest
<1>5. review' \in TechnicalReview
  BY <1>2, FreezeCounts, TrimTyping DEF Freeze, TechnicalReview
<1>6. snapshot' # NULL /\ review' # NULL /\ credential' = NULL
  BY <1>1, <1>2, <1>4, <1>5, NullApart DEF TypeOK, RecordsByStage
<1>7. TestedPoints(points, tests) = points
  BY <1>1 DEF PassedPoints, TestedPoints
<1>8. RecordsIntegrity'
  BY <1>1, <1>7 DEF RecordsIntegrity
<1>9. StatusIntegrity'
  BY <1>1, <1>6 DEF StatusIntegrity, Statuses
<1>10. PointsIntegrity' /\ TestsIntegrity' /\ DeviationsIntegrity'
  BY <1>1, <1>2 DEF ValidateIntegrity, PointsIntegrity, TestsIntegrity,
                    DeviationsIntegrity
<1> QED BY <1>8, <1>9, <1>10 DEF ValidateIntegrity

\* IssueCredential always passes the check.
LEMMA IssueCredentialAccepted ==
    ASSUME IInv, NEW by \in Approvers, IssueCredential(by)
    PROVE  ValidateIntegrity'
<1>1. /\ status = "frozen" /\ status' = "released"
      /\ snapshot # NULL /\ review # NULL
      /\ credential' = [digest |-> snapshot.digest, approvedBy |-> by]
      /\ UNCHANGED <<details, points, locked, tests, deviations,
                     snapshot, review>>
  BY DEF IssueCredential
<1>2. TypeOK /\ ValidateIntegrity
  BY DEF IInv
<1>3. credential' \in ReleaseCredential(points)
  BY <1>1, <1>2 DEF TypeOK, FrozenSnapshot, ReleaseCredential
<1>4. credential' # NULL
  BY <1>2, <1>3, NullApart DEF TypeOK
<1>5. StatusIntegrity' /\ RecordsIntegrity'
  BY <1>1, <1>2, <1>4 DEF ValidateIntegrity, StatusIntegrity, Statuses,
                          RecordsIntegrity
<1>6. PointsIntegrity' /\ TestsIntegrity' /\ DeviationsIntegrity'
  BY <1>1, <1>2 DEF ValidateIntegrity, PointsIntegrity, TestsIntegrity,
                    DeviationsIntegrity
<1> QED BY <1>5, <1>6 DEF ValidateIntegrity

\* The functions the commands run on the aggregate, before the check.
Command ==
    \/ \E dt \in Details : UpdateDetails(dt)
    \/ \E rows \in SUBSET PointIds : AddPoints(rows)
    \/ Lock
    \/ \E p \in PointIds, r \in Readings : AddTest(p, r)
    \/ \E d \in DOMAIN deviations :
        OwnerConfirmed(deviations[d]) /\ SubmitRemediation(d)
    \/ \E d \in DOMAIN deviations, r \in Readings : CloseDeviation(d, r)
    \/ \E d \in DOMAIN deviations, severity \in Severities \cup {""},
          confirm \in BOOLEAN : ReviseDeviation(d, severity, confirm)
    \/ \E by \in Approvers : Freeze(by)
    \/ \E by \in Approvers : IssueCredential(by)

\* Of all that ValidateIntegrity looks at, one line alone can ever refuse what
\* a command has done to a stored batch: that a blocked batch has an open
\* deviation.  Every other condition is kept by the aggregate's own functions.
THEOREM OneLineDecides ==
    ASSUME IInv, Command
    PROVE  ValidateIntegrity' <=>
                (status' = "blocked" => OpenDeviations(deviations') # {})
<1>1. ValidateIntegrity' =>
            (status' = "blocked" => OpenDeviations(deviations') # {})
  BY DEF ValidateIntegrity, StatusIntegrity
<1>2. ASSUME status' = "blocked" => OpenDeviations(deviations') # {}
      PROVE  ValidateIntegrity'
  <2>1. ASSUME NEW p \in PointIds, NEW r \in Readings, AddTest(p, r)
        PROVE  ValidateIntegrity'
    BY <2>1, AddTestAccepted
  <2>2. ASSUME NEW d \in DOMAIN deviations, SubmitRemediation(d)
        PROVE  ValidateIntegrity'
    BY <2>2, SubmitRemediationAccepted
  <2>3. ASSUME NEW d \in DOMAIN deviations, NEW r \in Readings,
               CloseDeviation(d, r)
        PROVE  ValidateIntegrity'
    BY <1>2, <2>3, CloseDeviationDecided
  <2>4. ASSUME NEW d \in DOMAIN deviations,
               NEW severity \in Severities \cup {""}, NEW confirm \in BOOLEAN,
               ReviseDeviation(d, severity, confirm)
        PROVE  ValidateIntegrity'
    <3>1. status' = "blocked"
      BY <2>4 DEF ReviseDeviation
    <3> QED BY <1>2, <2>4, <3>1, ReviseDeviationAccepted
  <2>5. ASSUME NEW by \in Approvers, Freeze(by) PROVE ValidateIntegrity'
    BY <2>5, FreezeAccepted
  <2>6. ASSUME NEW by \in Approvers, IssueCredential(by)
        PROVE  ValidateIntegrity'
    BY <2>6, IssueCredentialAccepted
  <2> QED BY <2>1, <2>2, <2>3, <2>4, <2>5, <2>6, DraftAccepted DEF Command
<1> QED BY <1>1, <1>2

\* Work a batch is ready for is never turned down by the check: rows without a
\* fault are registered, a valid reading is recorded, an open deviation
\* remediated or confirmed, a batch that awaits its review can be approved, by
\* anyone, and a frozen one released in the reviewer's name (NoStrandedWork,
\* without ENABLED).
THEOREM WorkAccepted ==
    ASSUME IInv
    PROVE  /\ \A rows \in SUBSET PointIds : AddPoints(rows) => AddPoint(rows)
           /\ \A p \in PointIds, r \in Readings :
                AddTest(p, r) => RecordTest(p, r)
           /\ \A d \in OpenDeviations(deviations) :
                /\ OwnerConfirmed(deviations[d]) /\ SubmitRemediation(d)
                        => Remediate(d)
                /\ ReviseDeviation(d, "", TRUE) => UpdateDeviation(d, "", TRUE)
           /\ status = "pending_review" =>
                /\ PassedPoints(points, tests) = points
                /\ NothingBlocks(deviations)
                /\ Snapshottable(points, tests)
           /\ \A by \in Approvers : Freeze(by) => Approve(by)
           /\ status = "frozen" =>
                /\ snapshot # NULL /\ review # NULL /\ credential = NULL
                /\ review.approvedBy \in Approvers
                /\ Trim[review.approvedBy] = review.approvedBy
           /\ \A by \in Approvers : IssueCredential(by) => Issue(by)
<1>1. ASSUME NEW p \in PointIds, NEW r \in Readings, AddTest(p, r)
      PROVE  RecordTest(p, r)
  BY <1>1, AddTestAccepted DEF RecordTest
<1>2. ASSUME NEW d \in OpenDeviations(deviations)
      PROVE  /\ OwnerConfirmed(deviations[d]) /\ SubmitRemediation(d)
                    => Remediate(d)
             /\ ReviseDeviation(d, "", TRUE) => UpdateDeviation(d, "", TRUE)
  <2>1. d \in DOMAIN deviations
    BY DEF OpenDeviations
  <2> QED BY <2>1, SubmitRemediationAccepted, ReviseDeviationAccepted
          DEF Remediate, UpdateDeviation
<1>3. ASSUME status = "pending_review"
      PROVE  /\ PassedPoints(points, tests) = points
             /\ NothingBlocks(deviations)
             /\ Snapshottable(points, tests)
  BY <1>3 DEF IInv, ClearFromReview, PassedPoints, TestedPoints, Snapshottable
<1>4. ASSUME NEW by \in Approvers, Freeze(by) PROVE Approve(by)
  BY <1>4, FreezeAccepted DEF Approve
<1>5. ASSUME status = "frozen"
      PROVE  /\ snapshot # NULL /\ review # NULL /\ credential = NULL
             /\ review.approvedBy \in Approvers
             /\ Trim[review.approvedBy] = review.approvedBy
  BY <1>5 DEF IInv, ValidateIntegrity, StatusIntegrity, TypeOK, TechnicalReview,
              ReviewTrimmed
<1>6. ASSUME NEW by \in Approvers, IssueCredential(by) PROVE Issue(by)
  BY <1>6, IssueCredentialAccepted DEF Issue
<1>7. ASSUME NEW rows \in SUBSET PointIds, AddPoints(rows) PROVE AddPoint(rows)
  BY <1>7, DraftAccepted DEF AddPoint
<1> QED BY <1>1, <1>2, <1>3, <1>4, <1>5, <1>6, <1>7

\* A retest CloseDeviation has carried out is saved unless it is the passed
\* retest of the last open deviation of a batch with a critical one: that batch
\* stays blocked for good (README.md:10, Progress, refreshStatus).
THEOREM RetestAccepted ==
    ASSUME IInv, NEW d \in DOMAIN deviations, NEW r \in Readings,
           CloseDeviation(d, r)
    PROVE  Retest(d, r) <=> \/ EvaluateTest(r) = "failed"
                            \/ CriticalDeviations(deviations) = {}
                            \/ OtherDeviationOpen(d)
BY CloseDeviationDecided DEF Retest

-----------------------------------------------------------------------------
(* Registration in parts.                                                  *)

\* Rows that fit into one call are registered by it exactly if they are when
\* they are sent in two, whatever goes first: AddPoints is right to treat its
\* rows as a set, and a client that splits a long list gains and loses nothing
\* (AddPoints, AddPoint).
THEOREM RegisterInParts ==
    ASSUME NEW A \in SUBSET PointIds, NEW B \in SUBSET PointIds,
           A # {}, B # {}, A \cap B = {},
           Cardinality(A \cup B) <= MaxPerCall
    PROVE  /\ Registrable(A \cup B) => Registrable(A)
           /\ AddPoints(A) => (Registrable(B)' <=> Registrable(A \cup B))
<1>1. /\ IsFiniteSet(A \cup B) /\ Cardinality(A \cup B) \in Nat
      /\ Cardinality(A) \in Nat /\ Cardinality(A) <= Cardinality(A \cup B)
      /\ Cardinality(B) \in Nat /\ Cardinality(B) <= Cardinality(A \cup B)
  <2>1. IsFiniteSet(A \cup B)
    BY PointIdsFinite, FS_Subset
  <2>2. A \subseteq A \cup B /\ B \subseteq A \cup B
    OBVIOUS
  <2> QED BY <2>1, <2>2, FS_Subset, FS_CardinalityType
<1>2. MaxPerCall \in Nat /\ Cardinality(A) <= MaxPerCall
      /\ Cardinality(B) <= MaxPerCall
  BY <1>1, BoundTyping
<1>3. ASSUME Registrable(A \cup B) PROVE Registrable(A)
  BY <1>2, <1>3 DEF Registrable
<1>4. ASSUME AddPoints(A) PROVE Registrable(B)' <=> Registrable(A \cup B)
  <2>1. /\ status = "draft" /\ status' = status /\ points' = points \cup A
        /\ A \cap points = {}
        /\ \A p \in A : WithinCapacity(Planned[p], Rated[p])
        /\ \A p \in A : \A q \in (points \cup A) \ {p} : ~Clash(p, q)
    BY <1>4 DEF AddPoints, Registrable
  <2>2. \A p, q : Clash(p, q) => Clash(q, p)
    BY DEF Clash
  <2>3. ASSUME Registrable(B)' PROVE Registrable(A \cup B)
    <3>1. /\ \A p \in B : WithinCapacity(Planned[p], Rated[p])
          /\ \A p \in B : \A q \in (points \cup A \cup B) \ {p} : ~Clash(p, q)
          /\ B \cap (points \cup A) = {}
      BY <2>1, <2>3 DEF Registrable
    <3>2. ASSUME NEW p \in A \cup B,
                 NEW q \in (points \cup (A \cup B)) \ {p}
          PROVE  ~Clash(p, q)
      BY <2>1, <2>2, <3>1
    <3> QED BY <2>1, <3>1, <3>2 DEF Registrable
  <2>4. ASSUME Registrable(A \cup B) PROVE Registrable(B)'
    <3>1. /\ \A p \in B : WithinCapacity(Planned[p], Rated[p])
          /\ \A p \in B : \A q \in (points \cup (A \cup B)) \ {p} : ~Clash(p, q)
          /\ B \cap points = {}
      BY <2>4 DEF Registrable
    <3> QED BY <1>2, <2>1, <3>1 DEF Registrable
  <2> QED BY <2>3, <2>4
<1> QED BY <1>3, <1>4

-----------------------------------------------------------------------------
(* The stages by which ReleaseStore knows a batch.                         *)

StageOf(st) == IF st \in {"frozen", "released"} THEN st ELSE "open"

\* The commands but approval and release.
ChangeBatch ==
    \/ \E dt \in Details : UpdateBatch(dt)
    \/ \E rows \in SUBSET PointIds : AddPoint(rows)
    \/ LockBatch
    \/ \E p \in PointIds, r \in Readings : RecordTest(p, r)
    \/ \E d \in DOMAIN deviations : Remediate(d)
    \/ \E d \in DOMAIN deviations, r \in Readings : Retest(d, r)
    \/ \E d \in DOMAIN deviations, severity \in Severities \cup {""},
          confirm \in BOOLEAN : UpdateDeviation(d, severity, confirm)

\* What ReleaseStore assumes of the aggregate (Allowed, NextStage): a batch
\* accepts changes and the approval only while it is open, also those that do
\* not look at its status, and the release only when it is frozen; no change
\* moves its stage.
THEOREM StagesOfStore ==
    ASSUME IInv
    PROVE  /\ ChangeBatch =>
                StageOf(status) = "open" /\ StageOf(status') = "open"
           /\ \A by \in Approvers : Approve(by) =>
                StageOf(status) = "open" /\ StageOf(status') = "frozen"
           /\ \A by \in Approvers : Issue(by) =>
                StageOf(status) = "frozen" /\ StageOf(status') = "released"
<1>1. ASSUME NEW d \in DOMAIN deviations, NEW r \in Readings, Retest(d, r)
      PROVE  status = "blocked" /\ StageOf(status') = "open"
  <2>1. status = "blocked"
    BY <1>1, RetestBlocked
  <2>2. status' \in {"blocked", "pending_review", "testing"}
    BY <1>1 DEF Retest, CloseDeviation, RefreshedStatus
  <2> QED BY <2>1, <2>2 DEF StageOf
<1>2. ASSUME NEW d \in DOMAIN deviations,
             NEW severity \in Severities \cup {""}, NEW confirm \in BOOLEAN,
             UpdateDeviation(d, severity, confirm)
      PROVE  status = "blocked" /\ status' = "blocked"
  BY <1>2, UpdateDeviationBlocked DEF UpdateDeviation, ReviseDeviation
<1>3. ASSUME ChangeBatch
      PROVE  StageOf(status) = "open" /\ StageOf(status') = "open"
  BY <1>1, <1>2, <1>3
     DEF ChangeBatch, StageOf, UpdateBatch, UpdateDetails, AddPoint, AddPoints,
         Registrable, LockBatch, Lock, RecordTest, AddTest, AcceptsTests,
         RefreshedStatus, Remediate, SubmitRemediation
<1>4. \A by \in Approvers : Approve(by) =>
            StageOf(status) = "open" /\ StageOf(status') = "frozen"
  BY DEF Approve, Freeze, StageOf
<1>5. \A by \in Approvers : Issue(by) =>
            StageOf(status) = "frozen" /\ StageOf(status') = "released"
  BY DEF Issue, IssueCredential, StageOf
<1> QED BY <1>3, <1>4, <1>5

=============================================================================
