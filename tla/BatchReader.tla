----------------------------- MODULE BatchReader -----------------------------
(***************************************************************************)
(* SQLite.Get and the queries of internal/application that stand on it,    *)
(* next to the commands of InspectionBatch.                                *)
(*                                                                         *)
(* loadBatch reads a batch with seven queries.  Inside Mutate they run in  *)
(* one transaction; for a query of a client they run on the database, each *)
(* commits on its own, and commands commit between them.  What the reader  *)
(* has collected so far is its view; ValidateIntegrity judges the view,    *)
(* not the batch, and the answer is computed from it.                      *)
(*                                                                         *)
(* The version grows by one with every command and is only compared with   *)
(* that of the view, so it is kept as behind: how many commands have       *)
(* committed since the reader read the row that holds it.                  *)
(*                                                                         *)
(* A test is named by its index, as in InspectionBatch, and that is the    *)
(* order in which tests were recorded.  The query lists them in another    *)
(* one, by the text of recorded_at and then by id.  The text drops the     *)
(* zeros at the end of a fraction, the clock it is taken from may step     *)
(* back, and an id is random: a new row may come before any older one.     *)
(***************************************************************************)
EXTENDS InspectionBatch

CONSTANTS
    PrecheckKey,  \* strings.ToLower(strings.TrimSpace(text)) of a text
    MaxBehind     \* bound: commands that commit during one read

ASSUME MaxBehindTyping == MaxBehind \in Nat

VARIABLES
    testRows, \* the batch's tests, by their index, ORDER BY recorded_at, id
    loaded,   \* how many of its queries the reader has made, 0 when it is idle
    view,     \* the aggregate the reader is building
    behind    \* by how much the version of the batch has passed the view's

readerVars == <<vars, testRows, loaded, view, behind>>

Blank ==
    [details |-> NULL, status |-> NULL, points |-> {}, locked |-> {},
     tests |-> <<>>, rows |-> <<>>, deviations |-> <<>>,
     snapshot |-> NULL, review |-> NULL, credential |-> NULL]

\* The batch as one query inside a transaction would see it.
Batch ==
    [details |-> details, status |-> status, points |-> points,
     locked |-> locked, tests |-> tests, rows |-> testRows,
     deviations |-> deviations,
     snapshot |-> snapshot, review |-> review, credential |-> credential]

\* The operators of the aggregate, applied to the view.
Seen == INSTANCE InspectionBatch WITH
    details <- view.details, status <- view.status, points <- view.points,
    locked <- view.locked, tests <- view.tests, deviations <- view.deviations,
    snapshot <- view.snapshot, review <- view.review,
    credential <- view.credential

-----------------------------------------------------------------------------
(* The reader.                                                             *)

\* Mutant: the row with the version is read last.
Order_RowLast == <<"points", "tests", "deviations", "snapshot",
                   "review", "credential", "batch">>

\* Mutant: the deviations are read before the tests they refer to.
Order_DeviationsFirst == <<"batch", "points", "deviations", "tests",
                           "snapshot", "review", "credential">>

\* The queries of loadBatch, in order.
Order == <<"batch", "points", "tests", "deviations", "snapshot",
           "review", "credential">>

\* What one query adds to the view.
Loaded(v, part) ==
    CASE part = "batch" -> [v EXCEPT !.details = details, !.status = status]
      [] part = "points" -> [v EXCEPT !.points = points, !.locked = locked]
      [] part = "tests" -> [v EXCEPT !.tests = tests, !.rows = testRows]
      [] part = "deviations" -> [v EXCEPT !.deviations = deviations]
      [] part = "snapshot" -> [v EXCEPT !.snapshot = snapshot]
      [] part = "review" -> [v EXCEPT !.review = review]
      [] part = "credential" -> [v EXCEPT !.credential = credential]

\* The next query.  The one of the batch row takes the version along.
Load ==
    /\ loaded < Len(Order)
    /\ view' = Loaded(view, Order[loaded + 1])
    /\ behind' = IF Order[loaded + 1] = "batch" THEN 0 ELSE behind
    /\ loaded' = loaded + 1
    /\ UNCHANGED <<vars, testRows>>

Complete == loaded = Len(Order)

\* Get returns the view, or ErrCorrupt.
Returned == Complete /\ Seen!ValidateIntegrity

FalseAlarm == Complete /\ ~Seen!ValidateIntegrity

\* The handler replies, or the deadline ends it between two queries.
Stop ==
    /\ loaded > 0
    /\ loaded' = 0
    /\ view' = Blank
    /\ behind' = 0
    /\ UNCHANGED <<vars, testRows>>

\* The list of rows with test i at place k.
Inserted(k, i) ==
    [j \in 1 .. Len(testRows) + 1 |->
        IF j < k THEN testRows[j]
        ELSE IF j = k THEN i ELSE testRows[j - 1]]

\* A command commits while the reader is anywhere before the end of its
\* queries.  What commits between the last one and the reply cannot change the
\* answer any more.
Commit ==
    /\ ~Complete
    /\ loaded > 0 => behind < MaxBehind
    /\ Next
    /\ \/ tests' = tests /\ testRows' = testRows
       \/ /\ tests' # tests
          /\ \E k \in 1 .. Len(testRows) + 1 :
                testRows' = Inserted(k, Len(tests'))
    /\ behind' = IF loaded = 0 THEN 0 ELSE behind + 1
    /\ UNCHANGED <<loaded, view>>

ReaderInit ==
    /\ Init
    /\ testRows = <<>>
    /\ loaded = 0
    /\ view = Blank
    /\ behind = 0

ReaderNext == Load \/ Stop \/ Commit

ReaderSpec == ReaderInit /\ [][ReaderNext]_readerVars

-----------------------------------------------------------------------------
(* What the services answer from a view.                                   *)

\* ApprovalPreview lists no blocking reason.
NothingInTheWay(v) ==
    /\ TestedPoints(v.points, v.tests) = v.points
    /\ PassedPoints(v.points, v.tests) = v.points
    /\ NothingBlocks(v.deviations)

\* VerifyBatch.
Verification == Seen!VerifyCredential

\* TestHistory of one point without a filter on the result: the places of its
\* rows in the list, the test at a place, and the row that the loop over the
\* list takes for the latest attempt.
Told(v, p) == {k \in DOMAIN v.rows : v.tests[v.rows[k]].point = p}

TestAt(v, k) == v.tests[v.rows[k]]

\* Mutant: the last row is taken for the latest attempt.
LatestRow_Last(v, p) == CHOOSE k \in Told(v, p) : \A l \in Told(v, p) : l <= k

LatestRow(v, p) ==
    CHOOSE k \in Told(v, p) :
        \A l \in Told(v, p) : TestAt(v, l).attempt <= TestAt(v, k).attempt

CodeKey(p) == PrecheckKey[Code[p]]
HoistKey(p) == PrecheckKey[Hoist[p]]

\* Mutant: only the rows are compared with one another.
PrecheckClean_RowsOnly(v, rows) ==
    /\ rows # {} /\ Cardinality(rows) <= MaxPerCall
    /\ \A p \in rows : WithinCapacity(Planned[p], Rated[p])
    /\ \A p \in rows : \A q \in rows \ {p} :
        CodeKey(p) # CodeKey(q) /\ HoistKey(p) # HoistKey(q)

\* PrecheckPoints finds no fault with the rows.  It does not ask for a draft.
PrecheckClean(v, rows) ==
    /\ rows # {} /\ Cardinality(rows) <= MaxPerCall
    /\ \A p \in rows : WithinCapacity(Planned[p], Rated[p])
    /\ \A p \in rows : \A q \in v.points \cup (rows \ {p}) :
        CodeKey(p) # CodeKey(q) /\ HoistKey(p) # HoistKey(q)

-----------------------------------------------------------------------------
(* Properties.                                                             *)

\* Types of the reader's variables.
ReaderTypeOK ==
    /\ loaded \in 0 .. Len(Order)
    /\ DOMAIN view = DOMAIN Blank
    /\ view.details \in Details \cup {NULL}
    /\ view.status \in Statuses \cup {NULL}
    /\ view.points \subseteq PointIds /\ view.locked \subseteq PointIds
    /\ testRows \in Seq(DOMAIN tests) /\ view.rows \in Seq(DOMAIN view.tests)
    /\ view.tests \in Seq(LoadTest) /\ view.deviations \in Seq(Deviation)
    /\ behind \in 0 .. MaxBehind

\* A reader that ends with the version the batch still has is given the batch
\* as it stands, whole, and no alarm: what a client decides on that version is
\* decided on one aggregate, and on a mixed one Mutate refuses it.
ReadCurrent == Complete /\ behind = 0 => Returned /\ view = Batch

\* A preview of a batch past its draft that lists no blocking reason is true,
\* although its points, tests and deviations are of different moments: the
\* batch is ready for review, or further.
PreviewTrue ==
    Returned /\ view.status # "draft" /\ NothingInTheWay(view) =>
        /\ status \in {"pending_review", "frozen", "released"}
        /\ NothingInTheWay(Batch)

\* A verification never reports a mismatch of a batch whose records the
\* service wrote itself, and a valid credential is the one the batch has.
VerificationTrue ==
    Returned =>
        /\ Verification # "mismatch"
        /\ Verification = "valid" =>
            credential = view.credential /\ VerifyCredential = "valid"

\* Test i is listed before test j.
ListedBefore(i, j) ==
    \E k, l \in DOMAIN testRows :
        k < l /\ testRows[k] = i /\ testRows[l] = j

\* In whatever order the rows of a point come, and although points and tests
\* are read by two queries: the history tells n attempts of the point, and
\* they are the attempts 1 to n, each as the batch has it for good; what it
\* tells as the latest attempt is attempt n, and the point counts as passed
\* exactly if that one passed.  The history is stable as README.md:63 says:
\* rows that a later read tells between them do not change their order.
HistoryTrue ==
    Returned =>
        \A p \in view.points :
            LET told == Told(view, p)
                latest == TestAt(view, LatestRow(view, p))
            IN  /\ {TestAt(view, k).attempt : k \in told}
                        = 1 .. Cardinality(told)
                /\ \A k \in told : /\ view.rows[k] \in DOMAIN tests
                                   /\ tests[view.rows[k]] = TestAt(view, k)
                /\ \A k, l \in told :
                    k < l => ListedBefore(view.rows[k], view.rows[l])
                /\ told # {} => latest.attempt = Cardinality(told)
                /\ p \in PassedPoints(view.points, view.tests) <=>
                    told # {} /\ latest.result = "passed"

\* Rows that a precheck of a draft has no fault with are registered when they
\* are sent with the version the precheck read, although AddPoints compares
\* codes and serials in another way.
PrecheckReliable ==
    Returned /\ behind = 0 /\ status = "draft" =>
        \A rows \in SUBSET PointIds :
            PrecheckClean(view, rows) => Registrable(rows)

\* ErrCorrupt says that the data of a batch do not fit together
\* (json.go:71).  A reader gets it for a batch that is sound and was sound
\* all along, when a command commits between two of its queries.
NoFalseAlarm == ~FalseAlarm
=============================================================================
