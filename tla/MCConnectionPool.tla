--------------------------- MODULE MCConnectionPool ---------------------------
(***************************************************************************)
(* Instances of ConnectionPool for TLC.  There is no symmetry set: the     *)
(* runs check liveness.                                                    *)
(***************************************************************************)
EXTENDS ConnectionPool
=============================================================================
