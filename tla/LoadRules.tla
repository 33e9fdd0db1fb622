------------------------------ MODULE LoadRules ------------------------------
(***************************************************************************)
(* The load rules of internal/domain: the capacity limit of a rigging      *)
(* point, the verdict on a load test and the tolerance a retest must keep. *)
(*                                                                         *)
(* The code compares float64 kilograms with the factors 0.8, 0.95, 1.10    *)
(* and 0.05.  Here a load is an integer and each comparison is scaled to   *)
(* integers, so a boundary (exactly 95 %, exactly 5 %) is exact.           *)
(***************************************************************************)
EXTENDS Integers

Abs(v) == IF v < 0 THEN -v ELSE v

\* RiggingPoint.Validate: both loads positive, the plan at most 80 % of the
\* rating.
WithinCapacity(planned, rated) ==
    /\ rated > 0
    /\ planned > 0
    /\ 100 * planned <= 80 * rated

\* A reading is what the recorder types in for one test.
Reading == [target : Int, measured : Int, hold : Int, disp : Int]

\* The part of EvaluateTest that refuses a reading as input.
AcceptableReading(rated, r) ==
    /\ r.target > 0
    /\ r.target <= rated
    /\ r.measured > 0
    /\ r.hold >= 0
    /\ r.disp >= 0

\* The part of EvaluateTest that decides the verdict of an acceptable reading.
WithinLimits(r) ==
    /\ 100 * r.measured >= 95 * r.target
    /\ 100 * r.measured <= 110 * r.target
    /\ r.hold >= 60
    /\ r.disp <= 5

EvaluateTest(r) == IF WithinLimits(r) THEN "passed" ELSE "failed"

\* Mutant: the difference is not made absolute.
RetestTargetOK_Signed(target, original) ==
    original > 0 /\ 100 * (target - original) <= 5 * original

\* A retest must aim within 5 % of the target of the test that failed.
RetestTargetOK(target, original) ==
    /\ original > 0
    /\ 100 * Abs(target - original) <= 5 * original

=============================================================================
