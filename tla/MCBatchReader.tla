---------------------------- MODULE MCBatchReader ----------------------------
(***************************************************************************)
(* Instances of BatchReader for TLC.                                       *)
(***************************************************************************)
EXTENDS BatchReader, MCInspectionBatch

\* Codes and serials without blanks around them: lower case is all that a
\* precheck changes.
RegisterKey == RegisterFold
OwnKey == OwnFold
=============================================================================
