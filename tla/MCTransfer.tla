----------------------------- MODULE MCTransfer -----------------------------
(***************************************************************************)
(* Instances of Transfer for TLC: the downloads and the file names are     *)
(* model values.                                                           *)
(***************************************************************************)
EXTENDS Transfer, TLC

CONSTANTS d1, d2, n

ASSUME Distinct == Cardinality({d1, d2, n}) = 3
=============================================================================
