-------------------------- MODULE MCInspectionBatch --------------------------
(***************************************************************************)
(* Instances of InspectionBatch for TLC.                                   *)
(***************************************************************************)
EXTENDS InspectionBatch

Measured(target, measured) ==
    [target |-> target, measured |-> measured, hold |-> 60, disp |-> 5]

\* A pass on every boundary, the failure one unit below it, a retest exactly
\* 5 % above the original target, and one more than 5 % below it.
BoundaryReadings ==
    {Measured(100, 95), Measured(100, 94), Measured(105, 100), Measured(90, 86)}

\* Two readings: a pass and a failure for a sagging rope.
PlainReadings ==
    {Measured(100, 100),
     [target |-> 100, measured |-> 100, hold |-> 60, disp |-> 6]}

\* The plan is exactly 80 % of the rating, and b may not be loaded with 105.
LoadRated == [p \in PointIds |-> IF p = "b" THEN 100 ELSE 120]
LoadPlanned == [p \in PointIds |-> IF p = "b" THEN 80 ELSE 96]

\* "lead " is "lead" with a blank behind it.
NoBlanks == [by \in Approvers |-> IF by = "lead " THEN "lead" ELSE by]

\* Codes and hoists of their own for every point.
OwnText == [p \in PointIds |-> p]

\* Candidates of one registration: B has the code of b in capitals, c the
\* hoist of a in capitals, and d is planned above 80 %.
RegisterCode == [p \in PointIds |-> p]
RegisterHoist == [p \in PointIds |-> IF p = "c" THEN "H-A"
                                     ELSE IF p = "a" THEN "h-a" ELSE p]
RegisterPlanned == [p \in PointIds |-> IF p = "d" THEN 97 ELSE 96]
RegisterRated == [p \in PointIds |-> 120]
RegisterFold == [t \in {"a", "b", "B", "c", "d", "h-a", "H-A"} |->
    CASE t = "B" -> "b" [] t = "H-A" -> "h-a" [] OTHER -> t]
OwnFold == [t \in PointIds |-> t]
=============================================================================
