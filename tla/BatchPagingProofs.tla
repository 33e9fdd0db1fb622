-------------------------- MODULE BatchPagingProofs --------------------------
(***************************************************************************)
(* What holds of a walk through the pages for any number of batches, any   *)
(* times and any size of a page.  The argument for EachOnce is the cursor: *)
(* as long as the pages are cut where the query's order cuts them, a batch *)
(* that was there all along has been shown exactly when it is not behind   *)
(* the cursor any more.                                                    *)
(***************************************************************************)
EXTENDS BatchPaging, TLAPS

\* Types, and what is true of a walk that has not begun.
PagingTypes ==
    /\ rows \in [Ids -> Row \cup {NULL}]
    /\ now \in Now
    /\ walk \in {"idle", "walking", "ended", "refused"}
    /\ cursor \in Cursor \cup {NULL}
    /\ shown \in [Ids -> 0 .. 2]
    /\ settled \in SUBSET Existing
    /\ walk = "idle" =>
        /\ cursor = NULL /\ settled = {} /\ aligned
        /\ \A i \in Ids : shown[i] = 0

\* A settled batch has been shown once, or is still behind the cursor.
ShownUpToCursor ==
    aligned =>
        \A i \in settled :
            /\ shown[i] <= 1
            /\ walk = "walking" => (shown[i] = 0 <=> Behind(cursor, i))
            /\ walk = "ended" => shown[i] = 1

PInv == PagingTypes /\ ShownUpToCursor

-----------------------------------------------------------------------------
(* The order of the query.                                                 *)

\* An existing batch has a row with a time that has a text.
LEMMA RowOf ==
    ASSUME PagingTypes, NEW i \in Existing
    PROVE  /\ rows[i] \in Row /\ i \in Ids /\ i \in Nat
           /\ rows[i].at \in Times /\ rows[i].at \in Int
           /\ TextRank[rows[i].at] \in Nat
           /\ rows[i].risk \in BaseRisks
<1>1. i \in Ids /\ rows[i] # NULL
  BY DEF Existing
<1>2. rows[i] \in Row
  BY <1>1 DEF PagingTypes
<1> QED BY <1>1, <1>2, PagingTyping DEF Row

\* A cursor that was given out has a time with a text.
LEMMA CursorOf ==
    ASSUME PagingTypes, cursor # NULL
    PROVE  /\ cursor \in Cursor /\ cursor.id \in Nat
           /\ TextRank[cursor.at] \in Nat
BY PagingTyping DEF PagingTypes, Cursor

\* What one page shows, and what lies before and behind its cursor.
LEMMA PageCut ==
    ASSUME PagingTypes, NEW F \in SUBSET Ahead, Fetched(F),
           NEW page \in SUBSET F, NEW last \in page,
           AlignedPage(page, F, last), NEW i \in Existing
    PROVE  LET c == [at |-> rows[last].at, id |-> last] IN
           /\ i \in page => Behind(cursor, i) /\ ~Behind(c, i)
           /\ i \notin page => (Behind(cursor, i) <=> Behind(c, i))
<1> DEFINE c == [at |-> rows[last].at, id |-> last]
<1>1. /\ last \in Existing /\ Behind(cursor, last)
      /\ c.at = rows[last].at /\ c.id = last
  BY DEF Ahead
<1>0. c # NULL
  BY <1>1, RowOf, NullApart DEF Cursor
<1>2. /\ i \in Nat /\ TextRank[rows[i].at] \in Nat
      /\ last \in Nat /\ TextRank[rows[last].at] \in Nat
  BY <1>1, RowOf
<1>3. CASE i \in page
  <2>1. Behind(cursor, i)
    BY <1>3 DEF Ahead
  <2>2. i = last \/ KeyBefore(i, last)
    BY <1>3 DEF AlignedPage
  <2>3. ~Behind(c, i)
    BY <1>0, <1>1, <1>2, <2>2 DEF Behind, KeyBefore
  <2> QED BY <1>1, <1>3, <2>1, <2>3
<1>4. CASE i \notin page /\ i \in Ahead
  <2>1. KeyBefore(last, i)
    BY <1>4 DEF AlignedPage, IsFirst, Fetched
  <2>2. Behind(c, i)
    BY <1>1, <1>2, <2>1 DEF Behind, KeyBefore
  <2> QED BY <1>4, <2>2 DEF Ahead
<1>5. CASE i \notin page /\ i \notin Ahead
  <2>1. ~Behind(cursor, i)
    BY <1>5 DEF Ahead
  <2>2. cursor # NULL /\ cursor.id \in Nat /\ TextRank[cursor.at] \in Nat
    BY <2>1, CursorOf DEF Behind
  <2>3. ~Behind(c, i)
    BY <1>0, <1>1, <1>2, <2>1, <2>2 DEF Behind
  <2> QED BY <1>5, <2>1, <2>3
<1> QED BY <1>3, <1>4, <1>5

-----------------------------------------------------------------------------
(* The steps.                                                              *)

\* A page is counted once more for the batches on it, and only for them.
LEMMA ShownAfter ==
    ASSUME PagingTypes, NEW page \in SUBSET Ids
    PROVE  /\ Shown(page) \in [Ids -> 0 .. 2]
           /\ \A i \in Ids : i \notin page => Shown(page)[i] = shown[i]
           /\ \A i \in page : shown[i] = 0 => Shown(page)[i] = 1
BY DEF PagingTypes, Shown

\* The last page shows what is still behind the cursor.
LEMMA LastPageKeeps == PInv /\ LastPage => PInv'
<1> SUFFICES ASSUME PInv, LastPage PROVE PInv'
  OBVIOUS
<1>1. PagingTypes /\ ShownUpToCursor
  BY DEF PInv
<1>2. PICK F \in SUBSET Ahead : /\ Fetched(F) /\ Cardinality(F) <= Limit
                                /\ shown' = Shown(F)
  BY DEF LastPage
<1>3. F = Ahead /\ F \subseteq Ids
  BY <1>2, PagingTyping DEF Fetched, IsFirst, Ahead, Existing
<1>4. UNCHANGED <<rows, now, cursor, settled, aligned>>
      /\ walk = "walking" /\ walk' = "ended"
  BY DEF LastPage
<1>5. PagingTypes'
  BY <1>1, <1>2, <1>3, <1>4, ShownAfter DEF PagingTypes, Existing
<1>6. ASSUME aligned, NEW i \in settled PROVE shown'[i] = 1
  <2>1. i \in Existing /\ i \in Ids /\ shown[i] \in 0 .. 2
    BY <1>1 DEF PagingTypes, Existing
  <2>2. shown[i] <= 1 /\ (shown[i] = 0 <=> i \in Ahead)
    BY <1>1, <1>4, <1>6, <2>1 DEF ShownUpToCursor, Ahead
  <2> QED BY <1>1, <1>2, <1>3, <2>1, <2>2, ShownAfter
<1> QED BY <1>4, <1>5, <1>6 DEF PInv, ShownUpToCursor

\* A page moves the cursor behind what it shows.
LEMMA NextPageKeeps == PInv /\ NextPage => PInv'
<1> SUFFICES ASSUME PInv, NextPage PROVE PInv'
  OBVIOUS
<1>1. PagingTypes /\ ShownUpToCursor
  BY DEF PInv
<1>8. PICK F \in SUBSET Ahead :
        /\ Fetched(F)
        /\ \E page \in SUBSET F : \E last \in page :
            /\ shown' = Shown(page)
            /\ cursor' = [at |-> rows[last].at, id |-> last]
            /\ aligned' = (aligned /\ AlignedPage(page, F, last))
  BY DEF NextPage
<1>9. PICK page \in SUBSET F : \E last \in page :
        /\ shown' = Shown(page)
        /\ cursor' = [at |-> rows[last].at, id |-> last]
        /\ aligned' = (aligned /\ AlignedPage(page, F, last))
  BY <1>8
<1>2. PICK last \in page :
        /\ Fetched(F) /\ shown' = Shown(page)
        /\ cursor' = [at |-> rows[last].at, id |-> last]
        /\ aligned' = (aligned /\ AlignedPage(page, F, last))
  BY <1>8, <1>9
<1>3. UNCHANGED <<rows, now, walk, settled>> /\ walk = "walking"
  BY DEF NextPage
<1>4. page \subseteq Existing /\ page \subseteq Ids
  BY DEF Ahead, Existing
<1>5. PagingTypes'
  <2>1. cursor' \in Cursor
    BY <1>1, <1>2, <1>4, RowOf DEF Cursor
  <2>2. shown' \in [Ids -> 0 .. 2]
    BY <1>1, <1>2, <1>4, ShownAfter
  <2> QED BY <1>1, <1>3, <2>1, <2>2 DEF PagingTypes, Existing
<1>6. ASSUME aligned', NEW i \in settled
      PROVE  shown'[i] <= 1 /\ (shown'[i] = 0 <=> Behind(cursor', i))
  <2>1. i \in Existing /\ i \in Ids /\ shown[i] \in 0 .. 2
    BY <1>1 DEF PagingTypes, Existing
  <2>2. shown[i] <= 1 /\ (shown[i] = 0 <=> Behind(cursor, i))
    BY <1>1, <1>2, <1>3, <1>6, <2>1 DEF ShownUpToCursor
  <2>3. /\ i \in page => Behind(cursor, i) /\ ~Behind(cursor', i)
        /\ i \notin page => (Behind(cursor, i) <=> Behind(cursor', i))
    BY <1>1, <1>2, <1>6, <2>1, PageCut
  <2> QED BY <1>1, <1>2, <1>4, <2>1, <2>2, <2>3, ShownAfter
<1>7. ShownUpToCursor'
  BY <1>3, <1>6 DEF ShownUpToCursor, Behind
<1> QED BY <1>5, <1>7 DEF PInv

\* What changes meanwhile leaves the settled batches where they are.
LEMMA ChangeKeeps ==
    ASSUME PInv,
           \/ \E i \in Ids, at \in Times : Create(i, at)
           \/ \E i \in Ids, at \in Times : Reschedule(i, at)
           \/ \E i \in Ids, risk \in BaseRisks : ChangeRisk(i, risk)
    PROVE  PInv'
<1>1. PagingTypes /\ ShownUpToCursor
  BY DEF PInv
<1>2. UNCHANGED <<now, walk, cursor, shown, aligned>> /\ walk = "walking"
  BY DEF Create, Reschedule, ChangeRisk, Changing
<1>3. /\ rows' \in [Ids -> Row \cup {NULL}]
      /\ Existing \subseteq Existing'
      /\ settled' \subseteq settled
      /\ \A i \in settled' : rows'[i].at = rows[i].at
  <2>1. CASE \E i \in Ids, at \in Times : Create(i, at)
    <3>1. PICK i \in Ids, at \in Times : Create(i, at)
      BY <2>1
    <3>2. [at |-> at, risk |-> 1] \in Row
      BY PagingTyping DEF Row
    <3>3. /\ rows' = [rows EXCEPT ![i] = [at |-> at, risk |-> 1]]
          /\ settled' = settled /\ i \notin Existing
      BY <3>1 DEF Create
    <3>4. [at |-> at, risk |-> 1] # NULL
      BY <3>2, NullApart
    <3> QED BY <1>1, <3>2, <3>3, <3>4 DEF PagingTypes, Existing
  <2>2. CASE \E i \in Ids, at \in Times : Reschedule(i, at)
    <3>1. PICK i \in Ids, at \in Times : Reschedule(i, at)
      BY <2>2
    <3> DEFINE row == [rows[i] EXCEPT !.at = at]
    <3>2. i \in Existing /\ rows[i] \in Row
      BY <1>1, <3>1, RowOf DEF Reschedule
    <3>3. row \in Row /\ row # NULL
      BY <3>2, NullApart DEF Row
    <3>4. rows' = [rows EXCEPT ![i] = row] /\ settled' = settled \ {i}
      BY <3>1 DEF Reschedule
    <3> QED BY <1>1, <3>3, <3>4 DEF PagingTypes, Existing
  <2>3. CASE \E i \in Ids, risk \in BaseRisks : ChangeRisk(i, risk)
    <3>1. PICK i \in Ids, risk \in BaseRisks : ChangeRisk(i, risk)
      BY <2>3
    <3> DEFINE row == [rows[i] EXCEPT !.risk = risk]
    <3>2. i \in Existing /\ rows[i] \in Row
      BY <1>1, <3>1, RowOf DEF ChangeRisk
    <3>3. row \in Row /\ row # NULL /\ row.at = rows[i].at
      BY <3>2, NullApart DEF Row
    <3>4. rows' = [rows EXCEPT ![i] = row] /\ settled' = settled
      BY <3>1 DEF ChangeRisk
    <3> QED BY <1>1, <3>3, <3>4 DEF PagingTypes, Existing
  <2> QED BY <2>1, <2>2, <2>3
<1>4. PagingTypes'
  BY <1>1, <1>2, <1>3 DEF PagingTypes
<1>5. ShownUpToCursor'
  BY <1>1, <1>2, <1>3 DEF ShownUpToCursor, Behind
<1> QED BY <1>4, <1>5 DEF PInv

\* PInv is inductive.
LEMMA PagingKeeps == PInv /\ [PagingNext]_pagingVars => PInv'
<1> SUFFICES ASSUME PInv, [PagingNext]_pagingVars PROVE PInv'
  OBVIOUS
<1>1. PagingTypes /\ ShownUpToCursor
  BY DEF PInv
<1>2. CASE Begin
  BY <1>1, <1>2 DEF Begin, PInv, PagingTypes, ShownUpToCursor, Existing, Behind
<1>3. CASE CursorRefused
  BY <1>1, <1>3 DEF CursorRefused, PInv, PagingTypes, ShownUpToCursor, Existing
<1>4. CASE Leave
  BY <1>1, <1>4 DEF Leave, PInv, PagingTypes, ShownUpToCursor, Existing
<1>5. CASE Tick
  BY <1>1, <1>5
     DEF Tick, PInv, PagingTypes, ShownUpToCursor, Existing, Behind
<1>6. CASE UNCHANGED pagingVars
  BY <1>1, <1>6
     DEF pagingVars, PInv, PagingTypes, ShownUpToCursor, Existing, Behind
<1> QED
  BY <1>2, <1>3, <1>4, <1>5, <1>6, LastPageKeeps, NextPageKeeps, ChangeKeeps
     DEF PagingNext

\* PInv holds throughout a walk.
LEMMA PagingInvariance == PagingSpec => []PInv
<1>1. PagingInit => PInv
  BY DEF PagingInit, PInv, PagingTypes, ShownUpToCursor
<1> QED BY <1>1, PagingKeeps, PTL DEF PagingSpec

\* While the pages are cut in the order the query continues in, a walk shows
\* every settled batch exactly once (ListFiltered, ListBatchesPage).
THEOREM ShownOnce == PagingSpec => []EachOnce
<1>1. PInv => EachOnce
  BY DEF PInv, ShownUpToCursor, EachOnce
<1> QED BY <1>1, PagingInvariance, PTL

\* The cursor moves on from page to page, in whatever order the pages are cut
\* (ListFiltered).
THEOREM CursorMovesOn == PagingSpec => CursorAdvances
<1> DEFINE Advances == cursor # NULL /\ cursor' \notin {NULL, cursor} =>
        \/ TextRank[cursor'.at] > TextRank[cursor.at]
        \/ /\ TextRank[cursor'.at] = TextRank[cursor.at]
           /\ cursor'.id > cursor.id
<1>1. ASSUME PInv, [PagingNext]_pagingVars PROVE [Advances]_pagingVars
  <2> SUFFICES ASSUME PagingNext, cursor # NULL, cursor' \notin {NULL, cursor}
               PROVE  Advances
    BY <1>1
  <2>1. NextPage
    BY DEF PagingNext, Begin, LastPage, CursorRefused, Leave, Create,
           Reschedule, ChangeRisk, Changing, Tick
  <2>2. \E last \in Ahead : cursor' = [at |-> rows[last].at, id |-> last]
    BY <2>1 DEF NextPage
  <2> QED BY <2>2 DEF Ahead, Behind
<1> QED BY <1>1, PagingInvariance, PTL DEF PagingSpec, CursorAdvances

\* What a walk has still to show grows only when a batch is created or moved,
\* by that batch, and every page shortens it: a walk during which a finite
\* number of batches are created or moved comes to its last page, however the
\* pages are cut (ListFiltered).
THEOREM WalkShortens ==
    PagingSpec =>
        [][walk = "walking" /\ walk' = "walking" =>
            \/ \E i \in Ids, at \in Times :
                    /\ Create(i, at) \/ Reschedule(i, at)
                    /\ Ahead' \subseteq Ahead \cup {i}
            \/ /\ Ahead' \subseteq Ahead
               /\ NextPage => Ahead' # Ahead]_pagingVars
<1> DEFINE Grows == \E i \in Ids, at \in Times :
                        /\ Create(i, at) \/ Reschedule(i, at)
                        /\ Ahead' \subseteq Ahead \cup {i}
           Shrinks == /\ Ahead' \subseteq Ahead
                      /\ NextPage => Ahead' # Ahead
           Shortens == walk = "walking" /\ walk' = "walking" =>
                            Grows \/ Shrinks
<1>1. ASSUME PInv, NextPage PROVE Shrinks
  <2>1. PICK last \in Ahead : cursor' = [at |-> rows[last].at, id |-> last]
    BY <1>1 DEF NextPage
  <2>2. UNCHANGED rows /\ PagingTypes
    BY <1>1 DEF NextPage, PInv
  <2>3. /\ last \in Existing /\ last \in Nat /\ Behind(cursor, last)
        /\ TextRank[rows[last].at] \in Nat
        /\ cursor' # NULL /\ cursor'.id = last /\ cursor'.at = rows[last].at
    BY <2>1, <2>2, RowOf, NullApart DEF Ahead, Cursor
  <2>4. ASSUME NEW i \in Ahead' PROVE i \in Ahead
    <3>1. i \in Existing /\ i \in Nat /\ TextRank[rows[i].at] \in Nat
      BY <2>2, <2>4, RowOf DEF Ahead, Existing
    <3>2. \/ TextRank[rows[i].at] > TextRank[rows[last].at]
          \/ TextRank[rows[i].at] = TextRank[rows[last].at] /\ i > last
      BY <2>2, <2>3, <2>4 DEF Ahead, Behind
    <3>3. CASE cursor = NULL
      BY <3>1, <3>3 DEF Ahead, Behind
    <3>4. CASE cursor # NULL
      BY <2>2, <2>3, <3>1, <3>2, <3>4, CursorOf DEF Ahead, Behind
    <3> QED BY <3>3, <3>4
  <2>5. last \notin Ahead'
    BY <2>2, <2>3 DEF Ahead, Behind
  <2> QED BY <2>1, <2>2, <2>4, <2>5
<1>2. ASSUME NEW i \in Ids, NEW row,
             rows' = [rows EXCEPT ![i] = row], cursor' = cursor, PInv
      PROVE  Ahead' \subseteq Ahead \cup {i}
  <2>1. \A j \in Ids : j # i => rows'[j] = rows[j]
    BY <1>2 DEF PInv, PagingTypes
  <2> QED BY <1>2, <2>1 DEF Ahead, Existing, Behind
<1>3. ASSUME PInv, [PagingNext]_pagingVars PROVE [Shortens]_pagingVars
  <2> SUFFICES ASSUME PagingNext, walk = "walking", walk' = "walking"
               PROVE  Grows \/ Shrinks
    BY <1>3
  <2>1. CASE NextPage
    BY <1>1, <1>3, <2>1
  <2>2. CASE Tick
    <3>1. Ahead' = Ahead /\ shown' = shown /\ cursor' = cursor
      BY <2>2 DEF Tick, Ahead, Existing, Behind
    <3>2. ~NextPage \/ Shrinks
      BY <1>1, <1>3
    <3> QED BY <3>1, <3>2
  <2>3. ASSUME NEW i \in Ids, NEW at \in Times, Create(i, at) PROVE Grows
    BY <1>2, <1>3, <2>3 DEF Create, Changing
  <2>4. ASSUME NEW i \in Ids, NEW at \in Times, Reschedule(i, at) PROVE Grows
    BY <1>2, <1>3, <2>4 DEF Reschedule, Changing
  <2>5. ASSUME NEW i \in Ids, NEW risk \in BaseRisks, ChangeRisk(i, risk)
        PROVE  Shrinks
    <3> DEFINE row == [rows[i] EXCEPT !.risk = risk]
    <3>1. /\ rows' = [rows EXCEPT ![i] = row] /\ cursor' = cursor
          /\ i \in Existing
      BY <2>5 DEF ChangeRisk, Changing
    <3>2. rows[i] \in Row /\ row \in Row /\ row.at = rows[i].at
      BY <1>3, <3>1, RowOf DEF PInv, Row
    <3>3. row # NULL
      BY <3>2, NullApart
    <3> HIDE DEF row
    <3>4. \A j \in Ids : /\ rows'[j] = NULL <=> rows[j] = NULL
                          /\ rows[j] # NULL => rows'[j].at = rows[j].at
      BY <1>3, <3>1, <3>2, <3>3 DEF PInv, PagingTypes, Existing
    <3>5. Ahead' \subseteq Ahead
      BY <3>1, <3>4 DEF Ahead, Existing, Behind
    <3>6. ~NextPage \/ Shrinks
      BY <1>1, <1>3
    <3> QED BY <3>5, <3>6
  <2> QED BY <2>1, <2>2, <2>3, <2>4, <2>5
          DEF PagingNext, Begin, LastPage, CursorRefused, Leave
<1> QED BY <1>3, PagingInvariance, PTL DEF PagingSpec

-----------------------------------------------------------------------------
(* The schedule marks.                                                     *)

\* When ProgressAt reports a performance as overdue and as soon.
LEMMA Marks ==
    ASSUME NEW at \in Int, NEW t \in Int
    PROVE  /\ Overdue(at, t) <=> at - t < Minute
           /\ Soon(at, t) <=>
                at - t >= Minute /\ at - t < (24 * 60 + 1) * Minute
<1> DEFINE d == at - t
<1>1. d \in Int /\ t - at = -d
  OBVIOUS
<1>2. CASE d <= 0
  BY <1>1, <1>2 DEF Overdue, Soon, MinutesSince, Truncated, Minute
<1>3. CASE d > 0
  BY <1>1, <1>3 DEF Overdue, Soon, MinutesSince, Truncated, Minute
<1> QED BY <1>1, <1>2, <1>3

\* The lifted risk of a batch depends on one threshold.
LEMMA RiskOf ==
    ASSUME NEW row \in Row, NEW t \in Int
    PROVE  /\ RiskRank(row, t) \in Nat
           /\ row.risk = 1 => RiskRank(row, t) =
                IF row.at - t < (24 * 60 + 1) * Minute THEN 2 ELSE 1
           /\ row.risk # 1 => RiskRank(row, t) = row.risk
<1>1. row.at \in Int /\ row.risk \in 1 .. 4
  BY PagingTyping DEF Row
<1>2. Overdue(row.at, t) \/ Soon(row.at, t) <=>
        row.at - t < (24 * 60 + 1) * Minute
  BY <1>1, Marks DEF Minute
<1> QED BY <1>1, <1>2 DEF RiskRank

\* A performance is overdue from less than a minute before it on, and a risk
\* that time has lifted stays lifted (ProgressAt).
THEOREM MarksTrue == PagingSpec => []OverdueTrue
<1>1. ASSUME PInv, NEW i \in Existing
      PROVE  /\ Overdue(rows[i].at, now) <=> rows[i].at - now < Minute
             /\ Soon(rows[i].at, now) <=>
                    /\ rows[i].at - now >= Minute
                    /\ rows[i].at - now < (24 * 60 + 1) * Minute
             /\ \A t \in Now : t >= now =>
                    RiskRank(rows[i], t) >= RiskRank(rows[i], now)
  <2>1. rows[i] \in Row /\ rows[i].at \in Int /\ now \in Int
    BY <1>1, RowOf, PagingTyping DEF PInv, PagingTypes
  <2>2. ASSUME NEW t \in Now, t >= now
        PROVE  RiskRank(rows[i], t) >= RiskRank(rows[i], now)
    <3>1. t \in Int
      BY PagingTyping
    <3>2. RiskRank(rows[i], t) \in Nat /\ RiskRank(rows[i], now) \in Nat
      BY <2>1, <3>1, RiskOf
    <3>3. CASE rows[i].risk = 1
      BY <2>1, <2>2, <3>1, <3>3, RiskOf DEF Minute
    <3>4. CASE rows[i].risk # 1
      BY <2>1, <3>1, <3>2, <3>4, RiskOf
    <3> QED BY <3>3, <3>4
  <2> QED BY <2>1, <2>2, Marks
<1>2. PInv => OverdueTrue
  BY <1>1 DEF OverdueTrue
<1> QED BY <1>2, PagingInvariance, PTL

-----------------------------------------------------------------------------
(* When the pages are cut in the right order.                              *)

\* No batch that the query lists later is at a higher risk: untested points,
\* failed attempts and deviations may raise the risk of any batch, as long as
\* those with the nearer performance stay at least as risky.
RisksOrdered ==
    \A i, j \in Existing :
        RiskRank(rows[i], now) > RiskRank(rows[j], now) => KeyBefore(i, j)

\* The texts of the times sort like the times.
TextsOrdered ==
    \A i, j \in Existing :
        rows[i].at < rows[j].at => TextRank[rows[i].at] < TextRank[rows[j].at]

\* Every batch has the same base risk: the high one where all have points that
\* are still untested, the low one where all are tested and none has failed.
EqualRisks == \A i, j \in Existing : rows[i].risk = rows[j].risk

\* Under these two conditions the order of a page is that of the query.
LEMMA OrdersAgree ==
    ASSUME PagingTypes, RisksOrdered, TextsOrdered,
           NEW i \in Existing, NEW j \in Existing, RankBefore(i, j)
    PROVE  KeyBefore(i, j)
BY RowOf DEF RisksOrdered, TextsOrdered, RankBefore, KeyBefore

\* Equal base risks are ordered: the schedule marks lift the low risk of the
\* nearer performances first, and no other (ProgressAt).
LEMMA EqualRisksOrdered ==
    ASSUME PagingTypes, EqualRisks, TextsOrdered
    PROVE  RisksOrdered
<1> SUFFICES ASSUME NEW i \in Existing, NEW j \in Existing,
                    RiskRank(rows[i], now) > RiskRank(rows[j], now)
             PROVE  KeyBefore(i, j)
  BY DEF RisksOrdered
<1>1. /\ rows[i] \in Row /\ rows[j] \in Row /\ now \in Int
      /\ rows[i].risk = rows[j].risk
      /\ rows[i].at \in Int /\ rows[j].at \in Int
  BY RowOf, PagingTyping DEF PagingTypes, EqualRisks
<1> DEFINE day == (24 * 60 + 1) * Minute
<1>2. day \in Int
  BY DEF Minute
<1>3. rows[i].risk = 1
  BY <1>1, RiskOf
<1>4. /\ RiskRank(rows[i], now) = IF rows[i].at - now < day THEN 2 ELSE 1
      /\ RiskRank(rows[j], now) = IF rows[j].at - now < day THEN 2 ELSE 1
  BY <1>1, <1>3, RiskOf
<1> HIDE DEF day
<1>5. rows[i].at - now < day /\ ~(rows[j].at - now < day)
  BY <1>4
<1>6. rows[i].at < rows[j].at
  BY <1>1, <1>2, <1>5
<1> QED BY <1>6 DEF KeyBefore, TextsOrdered

\* A step under these conditions cuts no page in another order.
LEMMA StaysAligned ==
    ASSUME PInv, RisksOrdered, TextsOrdered, aligned, [PagingNext]_pagingVars
    PROVE  aligned'
<1>1. CASE NextPage
  <2>1. ASSUME NEW F \in SUBSET Ahead,
               NEW page \in SUBSET F, NEW last \in page,
               IsFirst(page, F, Limit, RankBefore),
               \A i \in page \ {last} : RankBefore(i, last)
        PROVE  AlignedPage(page, F, last)
    <3>1. \A i, j \in F : RankBefore(i, j) => KeyBefore(i, j)
      BY OrdersAgree DEF PInv, Ahead
    <3> QED BY <2>1, <3>1 DEF AlignedPage, IsFirst
  <2> QED BY <1>1, <2>1 DEF NextPage
<1>2. CASE ~NextPage
  BY <1>2 DEF PagingNext, pagingVars, Begin, LastPage, CursorRefused,
              Leave, Create, Reschedule, ChangeRisk, Changing, Tick
<1> QED BY <1>1, <1>2

\* How far the stable cursor of README.md:53 goes: whatever is created, moved
\* or changes its risk, a walk shows each settled batch exactly once as long
\* as the risks follow the order of the query (ListFiltered, ListBatchesPage).
\* PagingStable shows that with one batch that is riskier than an earlier one
\* it does not.
THEOREM OrderedRisksStable ==
    PagingSpec /\ [](RisksOrdered /\ TextsOrdered) => []StableCursor
<1>1. PagingInit => aligned
  BY DEF PagingInit
<1>2. /\ PInv /\ (RisksOrdered /\ TextsOrdered) /\ aligned
      /\ [PagingNext]_pagingVars
      => aligned'
  BY StaysAligned
<1>3. PagingSpec /\ [](RisksOrdered /\ TextsOrdered) => []aligned
  BY <1>1, <1>2, PagingInvariance, PTL DEF PagingSpec
<1>4. aligned /\ EachOnce => StableCursor
  BY DEF EachOnce, StableCursor
<1> QED BY <1>3, <1>4, ShownOnce, PTL

\* The cursor is stable while all batches have the same base risk, such as a
\* listing in which every batch still has an untested point, whatever the
\* clock does to the schedule marks (Progress, ProgressAt).
THEOREM EqualRisksStable ==
    PagingSpec /\ [](EqualRisks /\ TextsOrdered) => []StableCursor
<1>1. PInv /\ (EqualRisks /\ TextsOrdered) => RisksOrdered /\ TextsOrdered
  BY EqualRisksOrdered DEF PInv
<1>2. PagingSpec /\ [](EqualRisks /\ TextsOrdered)
        => [](RisksOrdered /\ TextsOrdered)
  BY <1>1, PagingInvariance, PTL
<1> QED BY <1>2, OrderedRisksStable, PTL
=============================================================================
