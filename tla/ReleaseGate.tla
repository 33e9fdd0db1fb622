----------------------------- MODULE ReleaseGate -----------------------------
(***************************************************************************)
(* What an inspection batch promises, without saying how: rigging points   *)
(* are planned, then judged by tests, a point that fails is held until a   *)
(* later test resolves it, and the batch is certified only when every      *)
(* planned point stands passed and none is held.  A condemned batch is     *)
(* never certified.  Nothing about tests, deviations, attempts or digests  *)
(* is left; InspectionBatch implements this specification.                 *)
(***************************************************************************)
CONSTANT Point

VARIABLES
    phase,      \* where the batch is on its way
    planned,    \* the points of the batch
    passed,     \* the points whose latest test passed
    held,       \* the points with an unresolved failure
    condemned   \* a failure that can never be cleared

vars == <<phase, planned, passed, held, condemned>>

Phases == {"planning", "testing", "ready", "certified", "released"}

Init ==
    /\ phase = "planning"
    /\ planned = {} /\ passed = {} /\ held = {}
    /\ condemned = FALSE

Plan(new) ==
    /\ phase = "planning"
    /\ planned' = planned \cup new
    /\ UNCHANGED <<phase, passed, held, condemned>>

StartTesting ==
    /\ phase = "planning"
    /\ planned # {}
    /\ phase' = "testing"
    /\ UNCHANGED <<planned, passed, held, condemned>>

Clear == passed = planned /\ held = {} /\ ~condemned

\* A test of p passed: the failures of p it answers, if any, are resolved
\* when no other failure of p is left.  The batch becomes ready by itself.
Pass(p) ==
    /\ phase = "testing"
    /\ p \in planned
    /\ passed' = passed \cup {p}
    /\ held' \in {held, held \ {p}}
    /\ phase' = IF Clear' THEN "ready" ELSE "testing"
    /\ UNCHANGED <<planned, condemned>>

\* A test of p failed, perhaps beyond repair.
Fail(p) ==
    /\ phase = "testing"
    /\ p \in planned
    /\ passed' = passed \ {p}
    /\ held' = held \cup {p}
    /\ condemned' \in {condemned, TRUE}
    /\ UNCHANGED <<phase, planned>>

\* A failure that is still open turns out to be beyond repair.
Condemn ==
    /\ phase = "testing"
    /\ held # {}
    /\ condemned' = TRUE
    /\ UNCHANGED <<phase, planned, passed, held>>

Certify ==
    /\ phase = "ready"
    /\ phase' = "certified"
    /\ UNCHANGED <<planned, passed, held, condemned>>

Release ==
    /\ phase = "certified"
    /\ phase' = "released"
    /\ UNCHANGED <<planned, passed, held, condemned>>

Next ==
    \/ \E new \in SUBSET Point : Plan(new)
    \/ StartTesting
    \/ \E p \in Point : Pass(p) \/ Fail(p)
    \/ Condemn
    \/ Certify
    \/ Release

Spec == Init /\ [][Next]_vars

-----------------------------------------------------------------------------

\* From the moment a batch is ready for review, every planned point stands
\* passed, none is held and the batch is not condemned.
ReadyIsClear ==
    phase \in {"ready", "certified", "released"} => planned # {} /\ Clear

\* Types.
TypeOK ==
    /\ phase \in Phases
    /\ planned \subseteq Point
    /\ passed \subseteq planned
    /\ held \subseteq planned
    /\ condemned \in BOOLEAN

=============================================================================
