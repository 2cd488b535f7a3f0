--------------------------- MODULE AuditLedgerMC ----------------------------
(***************************************************************************)
(* The instance of AuditLedger that TLC checks.  Writers and facts are     *)
(* interchangeable.                                                        *)
(***************************************************************************)
EXTENDS AuditLedger, TLC

Symmetry == Permutations(Writers) \union Permutations(Facts)
=============================================================================
