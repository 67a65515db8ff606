------------------------ MODULE MCLedgerConcurrency ------------------------
(* Small instances of LedgerConcurrency for TLC. *)
EXTENDS LedgerConcurrency, TLC

\* An item that is only watched, until an edit or a trade gives it a quantity.
WatchedItem == {NewItem("WATCHLIST", 0, 0, "NONE")}

\* An item held without a ledger.
HeldItem == {NewItem("HOLDING", 1, 1, "NONE")}

TwoEdits == {<<1, 1>>, <<0, 0>>}
NoEdits == {}

Interchangeable == Permutations(Sessions)
=============================================================================
