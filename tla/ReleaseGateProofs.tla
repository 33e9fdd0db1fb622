-------------------------- MODULE ReleaseGateProofs --------------------------
(***************************************************************************)
(* Proof that an inspection batch implements ReleaseGate: the initial      *)
(* batch maps to the initial gate, and every command to one step of the    *)
(* gate or to a stuttering step.                                           *)
(***************************************************************************)
EXTENDS InspectionBatchProofs

\* The points that stand passed, and whether a critical deviation exists.
Passed == PassedPoints(points, tests)
Condemned == CriticalDeviations(deviations) # {}

\* A batch holds a point exactly while a deviation is open.
LEMMA NoDeviationNoHold == Held = {} <=> OpenDeviations(deviations) = {}
BY DEF Held

\* A new test of p decides whether p stands passed, and nothing about another
\* point (LatestTest).
LEMMA PassedAfterTest ==
    ASSUME IInv, NEW p \in points, NEW r \in Readings,
           tests' = Append(tests, NewTest(p, r))
    PROVE  PassedPoints(points, tests') =
             IF EvaluateTest(r) = "passed" THEN Passed \cup {p} ELSE Passed \ {p}
<1>1. /\ p \in TestedPoints(points, tests')
      /\ tests'[LatestTest(tests', p)].result = EvaluateTest(r)
  BY NewTestAppended DEF NewTest
<1>2. \A q \in points : q # p =>
        /\ q \in TestedPoints(points, tests')
                <=> q \in TestedPoints(points, tests)
        /\ q \in TestedPoints(points, tests) =>
            tests'[LatestTest(tests', q)] = tests[LatestTest(tests, q)]
  BY NewTestAppended
<1>3. \A q \in points : q # p =>
        (q \in PassedPoints(points, tests') <=> q \in Passed)
  BY <1>2 DEF PassedPoints, Passed
<1>4. p \in PassedPoints(points, tests') <=> EvaluateTest(r) = "passed"
  BY <1>1 DEF PassedPoints
<1>5. PassedPoints(points, tests') \subseteq points /\ Passed \subseteq points
  BY DEF PassedPoints, Passed, TestedPoints
<1> QED BY <1>3, <1>4, <1>5

\* refreshStatus turns the phase to ready exactly when the batch is clear.
LEMMA PhaseAfterPass ==
    ASSUME points # {}, points' = points,
           status' = RefreshedStatus(points, tests', deviations')
    PROVE  Phase' = IF Passed' = points /\ Held' = {} /\ ~Condemned'
                    THEN "ready" ELSE "testing"
<1>1. Held' = {} <=> OpenDeviations(deviations') = {}
  BY DEF Held
<1>2. NothingBlocks(deviations') <=> Held' = {} /\ ~Condemned'
  BY <1>1 DEF NothingBlocks, Condemned, UnconfirmedDeviations
<1>3. CASE Passed' = points /\ Held' = {} /\ ~Condemned'
  <2>1. status' = "pending_review"
    BY <1>2, <1>3 DEF RefreshedStatus, Passed
  <2> QED BY <1>3, <2>1 DEF Phase, AcceptsTests
<1>4. CASE ~(Passed' = points /\ Held' = {} /\ ~Condemned')
  <2>1. status' \in {"blocked", "testing"}
    BY <1>2, <1>4 DEF RefreshedStatus, Passed
  <2> QED BY <1>4, <2>1 DEF Phase, AcceptsTests
<1> QED BY <1>3, <1>4

\* Held and Condemned depend on nothing but the open deviations, their points
\* and the critical deviations.
LEMMA DeviationChanged ==
    ASSUME NEW d \in DOMAIN deviations,
           DOMAIN deviations' = DOMAIN deviations,
           deviations'[d].point = deviations[d].point,
           \A c \in DOMAIN deviations : c # d => deviations'[c] = deviations[c]
    PROVE  /\ deviations'[d].status # "closed" /\ deviations[d].status # "closed"
                => Held' = Held
           /\ deviations'[d].status = "closed"
                => Held' \in {Held, Held \ {deviations[d].point}}
           /\ deviations'[d].severity = deviations[d].severity
                => Condemned' = Condemned
<1>1. ASSUME deviations'[d].status # "closed", deviations[d].status # "closed"
      PROVE  Held' = Held
  BY <1>1 DEF Held, OpenDeviations
<1>2. ASSUME deviations'[d].status = "closed"
      PROVE  Held' \in {Held, Held \ {deviations[d].point}}
  <2>1. Held' \subseteq Held
    BY <1>2 DEF Held, OpenDeviations
  <2>2. Held \ {deviations[d].point} \subseteq Held'
    BY <1>2 DEF Held, OpenDeviations
  <2> QED BY <2>1, <2>2
<1>3. ASSUME deviations'[d].severity = deviations[d].severity
      PROVE  Condemned' = Condemned
  BY <1>3 DEF Condemned, CriticalDeviations
<1> QED BY <1>1, <1>2, <1>3

-----------------------------------------------------------------------------
(* What the commands are to the gate.                                      *)

\* A command that changes nothing the gate sees.
LEMMA Unseen ==
    ASSUME Phase' = Phase, points' = points, tests' = tests,
           Held' = Held, Condemned' = Condemned
    PROVE  UNCHANGED Gate!vars
BY DEF Gate!vars, Condemned

\* A passed test, by AddTest or by CloseDeviation.
LEMMA PassedTestIsPass ==
    ASSUME IInv, NEW p \in points, NEW r \in Readings,
           AcceptsTests(status), EvaluateTest(r) = "passed",
           tests' = Append(tests, NewTest(p, r)), points' = points,
           status' = RefreshedStatus(points, tests', deviations'),
           Held' \in {Held, Held \ {p}}, Condemned' = Condemned
    PROVE  Gate!Pass(p)
<1>1. Passed' = Passed \cup {p}
  BY PassedAfterTest DEF Passed
<1>2. Phase = "testing"
  BY DEF Phase, AcceptsTests
<1>3. Phase' = IF Passed' = points' /\ Held' = {} /\ ~Condemned'
               THEN "ready" ELSE "testing"
  BY PhaseAfterPass
<1> QED BY <1>1, <1>2, <1>3 DEF Gate!Pass, Gate!Clear, Passed, Condemned

\* A failed test, by AddTest or by CloseDeviation.
LEMMA FailedTestIsFail ==
    ASSUME IInv, NEW p \in points, NEW r \in Readings,
           AcceptsTests(status), EvaluateTest(r) = "failed",
           tests' = Append(tests, NewTest(p, r)), points' = points,
           status' = "blocked",
           Held' = Held \cup {p}, Condemned' \in {Condemned, TRUE}
    PROVE  Gate!Fail(p)
<1>1. Passed' = Passed \ {p}
  BY PassedAfterTest DEF Passed
<1>2. Phase = "testing" /\ Phase' = "testing"
  BY DEF Phase, AcceptsTests
<1> QED BY <1>1, <1>2 DEF Gate!Fail, Passed, Condemned

\* AddTest.
LEMMA RecordTestIsStep ==
    ASSUME IInv, NEW p \in PointIds, NEW r \in Readings, RecordTest(p, r)
    PROVE  Gate!Pass(p) \/ Gate!Fail(p)
<1>1. /\ p \in points /\ AcceptsTests(status) /\ points' = points
      /\ tests' = Append(tests, NewTest(p, r))
  BY DEF RecordTest, AddTest
<1>2. CASE EvaluateTest(r) = "passed"
  <2>1. /\ deviations' = deviations
        /\ status' = RefreshedStatus(points, tests', deviations')
    BY <1>2 DEF RecordTest, AddTest
  <2>2. Held' = Held /\ Condemned' = Condemned
    BY <2>1 DEF Held, Condemned
  <2> QED BY <1>1, <1>2, <2>1, <2>2, PassedTestIsPass
<1>3. CASE EvaluateTest(r) = "failed"
  <2>1. status' = "blocked"
    BY <1>3 DEF RecordTest, AddTest
  <2>2. PICK severity \in Severities, confirmed \in BOOLEAN : deviations'
            = Append(deviations, NewDeviation(p, severity, confirmed))
    BY <1>3 DEF RecordTest, AddTest, Raise
  <2> DEFINE e == NewDeviation(p, severity, confirmed)
             n == Len(deviations) + 1
  <2>3. tests \in Seq(LoadTest) /\ deviations \in Seq(Deviation)
    BY DEF IInv, TypeOK
  <2>4. e \in Deviation /\ e.status = "open" /\ e.point = p
    BY <2>3 DEF NewDeviation, Deviation
  <2> HIDE DEF e
  <2>5. deviations' = Append(deviations, e)
    BY <2>2 DEF e
  <2>6. /\ Len(deviations) \in Nat
        /\ DOMAIN deviations = 1 .. Len(deviations)
        /\ DOMAIN deviations' = 1 .. n
        /\ \A d \in DOMAIN deviations : deviations'[d] = deviations[d]
        /\ deviations'[n] = e
    BY <2>3, <2>4, <2>5, AppendProperties
  <2>7. DOMAIN deviations' = DOMAIN deviations \cup {n}
    BY <2>6
  <2>8. Held' = Held \cup {p}
    BY <2>4, <2>6, <2>7 DEF Held, OpenDeviations
  <2>9. Condemned' \in {Condemned, TRUE}
    BY <2>6, <2>7 DEF Condemned, CriticalDeviations
  <2> QED BY <1>1, <1>3, <2>1, <2>8, <2>9, FailedTestIsFail
<1> QED BY <1>2, <1>3 DEF EvaluateTest

\* CloseDeviation.
LEMMA RetestIsStep ==
    ASSUME IInv, NEW d \in DOMAIN deviations, NEW r \in Readings, Retest(d, r)
    PROVE  \E p \in PointIds : Gate!Pass(p) \/ Gate!Fail(p)
<1> DEFINE dev == deviations[d]
           p == dev.point
<1>1. /\ dev.status = "remediated" /\ points' = points
      /\ tests' = Append(tests, NewTest(p, r))
  BY DEF Retest, CloseDeviation
<1>2. /\ tests \in Seq(LoadTest) /\ deviations \in Seq(Deviation)
      /\ points \subseteq PointIds
  BY DEF IInv, TypeOK
<1>3. dev.test \in DOMAIN tests /\ tests[dev.test].point = p
  BY DEF IInv, ValidateIntegrity, DeviationsIntegrity
<1>4. p \in points /\ p \in PointIds
  BY <1>2, <1>3 DEF IInv, ValidateIntegrity, TestsIntegrity
<1>5. d \in OpenDeviations(deviations)
  BY <1>1 DEF OpenDeviations
<1>6. p \in Held
  BY <1>5 DEF Held
<1>7. AcceptsTests(status)
  BY <1>5 DEF IInv, OpenDeviationBlocks, AcceptsTests
<1>8. dev \in Deviation /\ Len(tests) + 1 \in Nat
  BY <1>2, SeqElement
<1>9. ASSUME NEW e \in Deviation, e.point = p, e.severity = dev.severity,
             deviations' = [deviations EXCEPT ![d] = e]
      PROVE  /\ DOMAIN deviations' = DOMAIN deviations
             /\ deviations'[d] = e
             /\ \A c \in DOMAIN deviations : c # d =>
                    deviations'[c] = deviations[c]
  BY <1>2, <1>9, ReplaceProperties
<1>10. CASE EvaluateTest(r) = "passed"
  <2> DEFINE e == Closed(dev, Len(tests) + 1)
  <2>1. /\ deviations' = [deviations EXCEPT ![d] = e]
        /\ status' = RefreshedStatus(points, tests', deviations')
    BY <1>10 DEF Retest, CloseDeviation
  <2>2. /\ e \in Deviation /\ e.point = p
        /\ e.severity = dev.severity /\ e.status = "closed"
    BY <1>8 DEF Closed, Deviation
  <2> HIDE DEF e
  <2>3. Held' \in {Held, Held \ {p}} /\ Condemned' = Condemned
    BY <1>9, <2>1, <2>2, DeviationChanged
  <2> QED BY <1>1, <1>4, <1>7, <1>10, <2>1, <2>3, PassedTestIsPass
<1>11. CASE EvaluateTest(r) = "failed"
  <2> DEFINE e == Reopened(dev)
  <2>1. /\ deviations' = [deviations EXCEPT ![d] = e]
        /\ status' = "blocked"
    BY <1>11 DEF Retest, CloseDeviation
  <2>2. /\ e \in Deviation /\ e.point = p
        /\ e.severity = dev.severity /\ e.status = "open"
    BY <1>8 DEF Reopened, Deviation
  <2> HIDE DEF e
  <2>3. Held' = Held /\ Condemned' = Condemned
    BY <1>1, <1>9, <2>1, <2>2, DeviationChanged
  <2>4. Held' = Held \cup {p} /\ Condemned' \in {Condemned, TRUE}
    BY <1>6, <2>3
  <2> QED BY <1>1, <1>4, <1>7, <1>11, <2>1, <2>4, FailedTestIsFail
<1> QED BY <1>10, <1>11 DEF EvaluateTest

\* SubmitRemediation is invisible: the deviation stays open.
LEMMA RemediateIsUnseen ==
    ASSUME IInv, NEW d \in DOMAIN deviations, Remediate(d)
    PROVE  UNCHANGED Gate!vars
<1> DEFINE dev == deviations[d]
           e == [dev EXCEPT !.evidence = TRUE, !.status = "remediated"]
<1>1. dev \in Deviation /\ deviations \in Seq(Deviation)
  BY SeqElement DEF IInv, TypeOK
<1>2. /\ dev.status = "open" /\ status' = status /\ points' = points
      /\ tests' = tests /\ deviations' = [deviations EXCEPT ![d] = e]
  BY DEF Remediate, SubmitRemediation
<1>3. /\ e \in Deviation /\ e.point = dev.point
      /\ e.severity = dev.severity /\ e.status = "remediated"
  BY <1>1 DEF Deviation
<1> HIDE DEF e
<1>4. /\ DOMAIN deviations' = DOMAIN deviations
      /\ deviations'[d] = e
      /\ \A c \in DOMAIN deviations : c # d => deviations'[c] = deviations[c]
  BY <1>1, <1>2, <1>3, ReplaceProperties
<1>5. Held' = Held /\ Condemned' = Condemned
  BY <1>2, <1>3, <1>4, DeviationChanged
<1>6. Phase' = Phase
  BY <1>2 DEF Phase, AcceptsTests
<1> QED BY <1>2, <1>5, <1>6, Unseen

\* The rank of "critical" is the highest (UpgradeSeverity).
LEMMA NothingAboveCritical ==
    ASSUME NEW s \in Severities, NEW t \in Severities, Rank(t) > Rank(s)
    PROVE  s # "critical"
BY DEF Severities, Rank

\* UpdateDeviation: an upgrade to critical condemns, anything else is invisible.
LEMMA UpdateDeviationIsStep ==
    ASSUME IInv, NEW d \in DOMAIN deviations,
           NEW severity \in Severities \cup {""}, NEW confirm \in BOOLEAN,
           UpdateDeviation(d, severity, confirm)
    PROVE  Gate!Condemn \/ UNCHANGED Gate!vars
<1> DEFINE dev == deviations[d]
           e == [dev EXCEPT
                   !.severity = IF severity = "" THEN @ ELSE severity,
                   !.confirmed = @ \/ confirm]
<1>1. dev \in Deviation /\ deviations \in Seq(Deviation)
  BY SeqElement DEF IInv, TypeOK
<1>2. /\ status' = "blocked" /\ points' = points /\ tests' = tests
      /\ deviations' = [deviations EXCEPT ![d] = e]
  BY DEF UpdateDeviation, ReviseDeviation
<1>3. status = "blocked"
  BY UpdateDeviationBlocked
<1>4. /\ e \in Deviation /\ e.point = dev.point /\ e.status = dev.status
      /\ severity = "" => e.severity = dev.severity
      /\ severity # "" => e.severity = severity
  BY <1>1 DEF Deviation
<1> HIDE DEF e
<1>5. /\ DOMAIN deviations' = DOMAIN deviations
      /\ deviations'[d] = e
      /\ \A c \in DOMAIN deviations : c # d => deviations'[c] = deviations[c]
  BY <1>1, <1>2, <1>4, ReplaceProperties
<1>6. OpenDeviations(deviations') = OpenDeviations(deviations)
  BY <1>4, <1>5 DEF OpenDeviations
<1>7. Held' = Held
  BY <1>4, <1>5, <1>6 DEF Held, OpenDeviations
<1>8. Held # {}
  BY <1>3 DEF IInv, OpenDeviationBlocks, Held
<1>9. Phase = "testing" /\ Phase' = "testing"
  BY <1>2, <1>3 DEF Phase, AcceptsTests
<1>10. Condemned' \in {Condemned, TRUE}
  <2>1. CASE severity = ""
    BY <1>4, <1>5, <2>1, DeviationChanged
  <2>2. CASE severity # ""
    <3>1. Rank(severity) > Rank(dev.severity)
      BY <2>2 DEF UpdateDeviation, ReviseDeviation, UpgradeAllowed
    <3>2. dev.severity # "critical"
      BY <1>1, <2>2, <3>1, NothingAboveCritical DEF Deviation
    <3>3. CriticalDeviations(deviations) \subseteq CriticalDeviations(deviations')
      BY <1>5, <3>2 DEF CriticalDeviations
    <3> QED BY <3>3 DEF Condemned
  <2> QED BY <2>1, <2>2
<1>11. CASE Condemned' = Condemned
  BY <1>2, <1>7, <1>9, <1>11, Unseen
<1>12. CASE Condemned' = TRUE
  BY <1>2, <1>7, <1>8, <1>9, <1>12 DEF Gate!Condemn, Condemned
<1> QED BY <1>10, <1>11, <1>12

\* Every command is a step of the gate or invisible to it.
LEMMA StepIsGateStep == IInv /\ [Next]_vars => [Gate!Next]_Gate!vars
<1> SUFFICES ASSUME IInv, [Next]_vars PROVE [Gate!Next]_Gate!vars
  OBVIOUS
<1>1. CASE UNCHANGED vars
  BY <1>1, Unseen DEF vars, Phase, Held, Condemned
<1>2. ASSUME NEW dt \in Details, UpdateBatch(dt) PROVE UNCHANGED Gate!vars
  BY <1>2, Unseen DEF UpdateBatch, UpdateDetails, Phase, Held, Condemned
<1>3. ASSUME NEW rows \in SUBSET PointIds, AddPoint(rows) PROVE Gate!Plan(rows)
  <2>1. /\ status = "draft" /\ status' = "draft" /\ tests' = tests
        /\ deviations' = deviations /\ points' = points \cup rows
    BY <1>3 DEF AddPoint, AddPoints, Registrable
  <2>2. tests = <<>>
    BY <2>1 DEF IInv, RecordsByStage
  <2>3. Passed = {} /\ Passed' = {}
    BY <2>1, <2>2 DEF Passed, PassedPoints, TestedPoints, Attempts
  <2>4. Phase = "planning" /\ Phase' = "planning"
    BY <2>1 DEF Phase, AcceptsTests
  <2>5. Held' = Held /\ Condemned' = Condemned
    BY <2>1 DEF Held, Condemned
  <2> QED BY <2>1, <2>3, <2>4, <2>5 DEF Gate!Plan, Passed, Condemned
<1>4. ASSUME LockBatch PROVE Gate!StartTesting
  BY <1>4 DEF LockBatch, Lock, Gate!StartTesting, Phase, AcceptsTests, Held
<1>5. ASSUME NEW by \in Approvers, Approve(by) PROVE Gate!Certify
  BY <1>5 DEF Approve, Freeze, Gate!Certify, Phase, AcceptsTests, Held
<1>6. ASSUME NEW by \in Approvers, Issue(by) PROVE Gate!Release
  BY <1>6 DEF Issue, IssueCredential, Gate!Release, Phase, AcceptsTests, Held
<1>7. ASSUME NEW p \in PointIds, Gate!Pass(p) \/ Gate!Fail(p) PROVE Gate!Next
  BY <1>7 DEF Gate!Next
<1>8. ASSUME NEW p \in PointIds, NEW r \in Readings, RecordTest(p, r)
      PROVE  Gate!Next
  BY <1>7, <1>8, RecordTestIsStep
<1>9. ASSUME NEW d \in DOMAIN deviations, NEW r \in Readings, Retest(d, r)
      PROVE  Gate!Next
  BY <1>7, <1>9, RetestIsStep
<1> QED
  BY <1>1, <1>2, <1>3, <1>4, <1>5, <1>6, <1>8, <1>9, RemediateIsUnseen,
     UpdateDeviationIsStep DEF Next, Gate!Next

\* A new batch is a new gate.
LEMMA InitIsGateInit == Init => Gate!Init
BY DEF Init, Gate!Init, Phase, AcceptsTests, PassedPoints, TestedPoints, Held,
       OpenDeviations, CriticalDeviations

\* The inspection batch implements ReleaseGate: for any points, readings and
\* tolerances, the commands of internal/application give no way around the
\* gate.
THEOREM Refinement == Spec => ImplementsGate
BY InitIsGateInit, StepIsGateStep, Invariance, PTL
   DEF Spec, ImplementsGate, Gate!Spec

-----------------------------------------------------------------------------

\* What the gate promises, proved of the gate itself: from the moment a batch
\* is ready for review every planned point stands passed and none is held.
\* With Refinement this holds of every batch.
THEOREM GatePromise == Gate!Spec => []Gate!ReadyIsClear
<1> DEFINE G == Gate!TypeOK /\ Gate!ReadyIsClear
                  /\ (Phase # "planning" => points # {})
<1>1. Gate!Init => G
  BY DEF Gate!Init, Gate!TypeOK, Gate!ReadyIsClear, Gate!Phases
<1>2. ASSUME G, [Gate!Next]_Gate!vars PROVE G'
  <2>1. CASE UNCHANGED Gate!vars
    BY <1>2, <2>1
       DEF Gate!vars, Gate!TypeOK, Gate!ReadyIsClear, Gate!Clear
  <2>2. ASSUME NEW new \in SUBSET PointIds, Gate!Plan(new) PROVE G'
    BY <1>2, <2>2 DEF Gate!Plan, Gate!TypeOK, Gate!ReadyIsClear, Gate!Clear
  <2>3. CASE Gate!StartTesting
    BY <1>2, <2>3
       DEF Gate!StartTesting, Gate!TypeOK, Gate!Phases, Gate!ReadyIsClear
  <2>4. ASSUME NEW p \in PointIds, Gate!Pass(p) PROVE G'
    BY <1>2, <2>4
       DEF Gate!Pass, Gate!TypeOK, Gate!Phases, Gate!ReadyIsClear, Gate!Clear
  <2>5. ASSUME NEW p \in PointIds, Gate!Fail(p) PROVE G'
    BY <1>2, <2>5 DEF Gate!Fail, Gate!TypeOK, Gate!ReadyIsClear
  <2>6. CASE Gate!Condemn
    BY <1>2, <2>6 DEF Gate!Condemn, Gate!TypeOK, Gate!ReadyIsClear
  <2>7. CASE Gate!Certify \/ Gate!Release
    BY <1>2, <2>7
       DEF Gate!Certify, Gate!Release, Gate!TypeOK, Gate!Phases,
           Gate!ReadyIsClear, Gate!Clear
  <2> QED BY <1>2, <2>1, <2>2, <2>3, <2>4, <2>5, <2>6, <2>7 DEF Gate!Next
<1> QED BY <1>1, <1>2, PTL DEF Gate!Spec

=============================================================================
