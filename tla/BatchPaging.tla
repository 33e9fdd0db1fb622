----------------------------- MODULE BatchPaging -----------------------------
(***************************************************************************)
(* The listing of batches page by page: ListBatchesPage over the query of  *)
(* ListFiltered, walked by a client from the first page to the last while  *)
(* batches are created, moved to another time, and change their risk.      *)
(*                                                                         *)
(* The query orders the batches by the text of their performance time and  *)
(* by id, continues behind the cursor and fetches one row more than the    *)
(* page holds.  The service then sorts what was fetched by risk, cuts the  *)
(* page off that order and takes the cursor from its last batch.           *)
(*                                                                         *)
(* A page is one step here.  In the program the rows of the query wait for *)
(* the connection they hold (ConnectionPool, ListingsAnswered); this       *)
(* module is about what the pages hold when they are answered.             *)
(***************************************************************************)
EXTENDS Integers, FiniteSets

CONSTANTS
    Ids,         \* batch identifiers, in the order of their texts
    Times,       \* performance times, in milliseconds
    TextRank,    \* the rank of a time's RFC 3339 text among the texts
    BaseRisks,   \* ranks of the risk levels Progress gives, 1 (low) to 4
    Limit,       \* batches on one page
    Now,         \* the times at which pages are asked for
    MaxChanges,  \* bound: changes during one walk
    NULL

ASSUME PagingTyping ==
    /\ Ids \subseteq Nat /\ Times \subseteq Int /\ Now \subseteq Int
    /\ TextRank \in [Times -> Nat]
    /\ 1 \in BaseRisks /\ BaseRisks \subseteq 1 .. 4
    /\ Limit \in Nat \ {0}
    /\ MaxChanges \in Nat

VARIABLES
    rows,      \* inspection_batches: performance_at and the risk of each batch
    now,       \* the clock of the service
    walk,      \* "idle", "walking", "ended", or "refused" by the cursor check
    cursor,    \* the batch and the time in the client's cursor, NULL at first
    shown,     \* on how many pages of this walk each batch was, 2 for more
    settled,   \* batches that were there all along and kept their time
    aligned,   \* every page so far was cut where the query's order cuts it
    changes    \* changes since the walk began

pagingVars == <<rows, now, walk, cursor, shown, settled, aligned, changes>>

Row == [at : Times, risk : BaseRisks]
Cursor == [at : Times, id : Ids]

ASSUME NullApart == NULL \notin Row \cup Cursor

Existing == {i \in Ids : rows[i] # NULL}

-----------------------------------------------------------------------------
(* ProgressAt.                                                             *)

\* Division of Go's integer conversion: towards zero.
Truncated(a, b) == IF a >= 0 THEN a \div b ELSE -((-a) \div b)

Minute == 60 * 1000

\* Mutant: minutes are rounded down.
MinutesSince_Floor(at, t) == (t - at) \div Minute

\* int64(now.Sub(performanceAt).Minutes())
MinutesSince(at, t) == Truncated(t - at, Minute)

Overdue(at, t) == MinutesSince(at, t) >= 0

Soon(at, t) == ~Overdue(at, t) /\ MinutesSince(at, t) >= -24 * 60

\* riskRank of ProgressAt: the schedule lifts low to medium.
RiskRank(row, t) ==
    IF row.risk = 1 /\ (Overdue(row.at, t) \/ Soon(row.at, t)) THEN 2
    ELSE row.risk

-----------------------------------------------------------------------------
(* One page.                                                               *)

\* ORDER BY performance_at, id: the order of the query.
KeyBefore(i, j) ==
    \/ TextRank[rows[i].at] < TextRank[rows[j].at]
    \/ TextRank[rows[i].at] = TextRank[rows[j].at] /\ i < j

\* Mutant: the query continues with the cursor's batch again.
Behind_Again(c, i) ==
    \/ c = NULL
    \/ TextRank[rows[i].at] > TextRank[c.at]
    \/ TextRank[rows[i].at] = TextRank[c.at] /\ i >= c.id

\* Mutant: the query continues by the time, not by its text.
Behind_ByTime(c, i) ==
    \/ c = NULL
    \/ rows[i].at > c.at
    \/ rows[i].at = c.at /\ i > c.id

\* performance_at > ? OR (performance_at = ? AND id > ?)
Behind(c, i) ==
    \/ c = NULL
    \/ TextRank[rows[i].at] > TextRank[c.at]
    \/ TextRank[rows[i].at] = TextRank[c.at] /\ i > c.id

\* sort.SliceStable: the order of the page.
RankBefore(i, j) ==
    \/ RiskRank(rows[i], now) > RiskRank(rows[j], now)
    \/ /\ RiskRank(rows[i], now) = RiskRank(rows[j], now)
       /\ rows[i].at < rows[j].at \/ (rows[i].at = rows[j].at /\ i < j)

\* F is the first n of S, or all of S, in an order.
IsFirst(F, S, n, Before(_, _)) ==
    /\ F \subseteq S
    /\ Cardinality(F) = n \/ (F = S /\ Cardinality(F) <= n)
    /\ \A i \in F, j \in S \ F : Before(i, j)

Ahead == {i \in Existing : Behind(cursor, i)}

\* LIMIT limit+1
Fetched(F) == IsFirst(F, Ahead, Limit + 1, KeyBefore)

\* The cursor names a batch that is there and still has its time.
CursorValid ==
    cursor # NULL => /\ cursor.id \in Existing
                     /\ rows[cursor.id].at = cursor.at

Shown(page) == [i \in Ids |->
    IF i \notin page THEN shown[i] ELSE IF shown[i] = 0 THEN 1 ELSE 2]

\* The page is the one the query's order would cut off, and its last batch is
\* the last one in that order.
AlignedPage(page, F, last) ==
    /\ IsFirst(page, F, Limit, KeyBefore)
    /\ \A i \in page \ {last} : KeyBefore(i, last)

\* The last page: everything fetched fits on it.
LastPage ==
    /\ walk = "walking" /\ CursorValid
    /\ \E F \in SUBSET Ahead :
        /\ Fetched(F) /\ Cardinality(F) <= Limit
        /\ shown' = Shown(F)
    /\ walk' = "ended"
    /\ UNCHANGED <<rows, now, cursor, settled, aligned, changes>>

\* A page with a cursor for the next one.
NextPage ==
    /\ walk = "walking" /\ CursorValid
    /\ \E F \in SUBSET Ahead :
        /\ Fetched(F) /\ Cardinality(F) > Limit
        /\ \E page \in SUBSET F :
            /\ IsFirst(page, F, Limit, RankBefore)
            /\ shown' = Shown(page)
            /\ \E last \in page :
                /\ \A i \in page \ {last} : RankBefore(i, last)
                /\ cursor' = [at |-> rows[last].at, id |-> last]
                /\ aligned' = (aligned /\ AlignedPage(page, F, last))
    /\ UNCHANGED <<rows, now, walk, settled, changes>>

\* The cursor's batch has moved: 422, and the client has to begin again.
CursorRefused ==
    /\ walk = "walking" /\ ~CursorValid
    /\ walk' = "refused"
    /\ UNCHANGED <<rows, now, cursor, shown, settled, aligned, changes>>

-----------------------------------------------------------------------------
(* The client and what goes on around it.                                  *)

Begin ==
    /\ walk = "idle"
    /\ walk' = "walking"
    /\ settled' = Existing
    /\ UNCHANGED <<rows, now, cursor, shown, aligned, changes>>

\* A walk that is over is forgotten.
Leave ==
    /\ walk \in {"ended", "refused"}
    /\ walk' = "idle"
    /\ cursor' = NULL
    /\ shown' = [i \in Ids |-> 0]
    /\ settled' = {}
    /\ aligned' = TRUE
    /\ changes' = 0
    /\ UNCHANGED <<rows, now>>

Changing ==
    /\ walk = "walking" /\ changes < MaxChanges
    /\ changes' = changes + 1
    /\ UNCHANGED <<now, walk, cursor, shown, aligned>>

\* CreateBatch draws any free identifier; a draft has the low risk.
Create(i, at) ==
    /\ Changing
    /\ i \notin Existing
    /\ rows' = [rows EXCEPT ![i] = [at |-> at, risk |-> 1]]
    /\ UNCHANGED settled

\* UpdateBatch moves a draft to another time.  A draft has the low risk, or the
\* high one once it has points, for they are untested.
Reschedule(i, at) ==
    /\ Changing
    /\ i \in Existing /\ rows[i].risk \in {1, 3} /\ rows[i].at # at
    /\ rows' = [rows EXCEPT ![i].at = at]
    /\ settled' = settled \ {i}

\* Points without a test, failed attempts and deviations make the risk, so
\* adding points, tests, retests and upgrades change it.
ChangeRisk(i, risk) ==
    /\ Changing
    /\ i \in Existing /\ rows[i].risk # risk
    /\ rows' = [rows EXCEPT ![i].risk = risk]
    /\ UNCHANGED settled

Tick ==
    /\ walk = "walking"
    /\ now' \in {t \in Now : t > now}
    /\ UNCHANGED <<rows, walk, cursor, shown, settled, aligned, changes>>

PagingInit ==
    /\ rows \in [Ids -> Row \cup {NULL}]
    /\ now \in Now
    /\ walk = "idle"
    /\ cursor = NULL
    /\ shown = [i \in Ids |-> 0]
    /\ settled = {}
    /\ aligned = TRUE
    /\ changes = 0

PagingNext ==
    \/ Begin
    \/ LastPage
    \/ NextPage
    \/ CursorRefused
    \/ Leave
    \/ \E i \in Ids, at \in Times : Create(i, at)
    \/ \E i \in Ids, at \in Times : Reschedule(i, at)
    \/ \E i \in Ids, risk \in BaseRisks : ChangeRisk(i, risk)
    \/ Tick

PagingSpec == PagingInit /\ [][PagingNext]_pagingVars

\* A client that has a cursor asks for the next page.
Walking == LastPage \/ NextPage \/ CursorRefused

FairPagingSpec == PagingSpec /\ WF_pagingVars(Walking)

-----------------------------------------------------------------------------
(* Properties.                                                             *)

\* A walk to the last page has shown every batch that was there all along
\* exactly once, and none twice on the way, whatever was created, moved or
\* changed its risk meanwhile: as long as no page was cut in another order
\* than the query continues in.
EachOnce ==
    aligned =>
        \A i \in settled :
            /\ shown[i] <= 1
            /\ walk = "ended" => shown[i] = 1

\* The stable cursor that README.md:53 promises: a walk shows every batch that
\* was there all along exactly once, whatever the risks do to its pages.
StableCursor ==
    \A i \in settled :
        /\ shown[i] <= 1
        /\ walk = "ended" => shown[i] = 1

\* From page to page the cursor moves on in the order of the query, also when
\* the page was cut in the order of the risks: no walk goes round in circles.
CursorAdvances ==
    [][cursor # NULL /\ cursor' \notin {NULL, cursor} =>
        \/ TextRank[cursor'.at] > TextRank[cursor.at]
        \/ TextRank[cursor'.at] = TextRank[cursor.at]
            /\ cursor'.id > cursor.id]_pagingVars

\* A client that asks for page after page comes to the last one, or is told
\* that its cursor is no longer valid, whatever changes meanwhile.
WalkEnds == walk = "walking" ~> walk \in {"ended", "refused"}

\* Since minutes are cut off towards zero, a performance is reported as
\* overdue from less than a minute before it on, and as soon from less than
\* a minute more than a day before it; once lifted, its risk does not fall
\* again with time.
OverdueTrue ==
    \A i \in Existing :
        LET ahead == rows[i].at - now IN
        /\ Overdue(rows[i].at, now) <=> ahead < Minute
        /\ Soon(rows[i].at, now) <=>
            ahead >= Minute /\ ahead < (24 * 60 + 1) * Minute
        /\ \A t \in Now : t >= now => RiskRank(rows[i], t) >= RiskRank(rows[i], now)
=============================================================================
