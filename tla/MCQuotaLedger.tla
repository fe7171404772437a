--------------------------- MODULE MCQuotaLedger ---------------------------
(***************************************************************************)
(* Small instances of QuotaLedger for TLC.                                 *)
(***************************************************************************)
EXTENDS QuotaLedger, TLC

Symmetry == Permutations(Ids)
=============================================================================
