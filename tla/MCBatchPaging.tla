---------------------------- MODULE MCBatchPaging ----------------------------
(***************************************************************************)
(* Instances of BatchPaging for TLC.                                       *)
(***************************************************************************)
EXTENDS BatchPaging

\* 20:00:59, half a second later, and 24 hours and 60 seconds after 20:00:00,
\* the zero of the clock.
Evening == {59000, 59500, 86460000}

\* "20:00:59.5Z" sorts before "20:00:59Z".
EveningText == [at \in Evening |->
    CASE at = 59000 -> 2 [] at = 59500 -> 1 [] at = 86460000 -> 3]
=============================================================================
