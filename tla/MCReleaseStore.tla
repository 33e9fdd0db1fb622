---------------------------- MODULE MCReleaseStore ----------------------------
(***************************************************************************)
(* Instances of ReleaseStore for TLC.                                      *)
(***************************************************************************)
EXTENDS ReleaseStore, TLC

Symmetry == Permutations(Batches) \cup Permutations(Keys)
                \cup Permutations(Handlers) \cup Permutations(Changes)
=============================================================================
