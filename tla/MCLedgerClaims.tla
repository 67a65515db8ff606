--------------------------- MODULE MCLedgerClaims ---------------------------
(* The instance of PositionLedger that refutes what the repository says.   *)
EXTENDS PositionLedger

ClaimsEdits == {<<0, 0>>, <<2, 1>>}
=============================================================================
