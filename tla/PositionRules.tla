---------------------------- MODULE PositionRules ----------------------------
(***************************************************************************)
(* What one request may do with a portfolio item and the rows of its       *)
(* ledger, and what it makes of them: the guards and assignments shared by *)
(* server/app/services/{transactions,portfolio}.py whatever the order in   *)
(* which requests run.                                                     *)
(***************************************************************************)
EXTENDS LedgerReplay

CONSTANT Keys      \* idempotency keys a client may send

NoKey == "none"    \* a row of a request without a key, which gets a fresh one

ASSUME KeysAssumption == NoKey \notin Keys

PositionStatus == {"EMPTY", "HOLDING", "CLOSED", "NEEDS_REVIEW"}
HoldingStatus == {"HOLDING", "WATCHLIST", "SOLD", "REENTRY_WATCH"}
TrackingStatus == {"NONE", "WATCHLIST", "REENTRY_WATCH"}
Status == {"ACTIVE", "VOIDED"}

Item == [quantity : Nat, average : Nat, position : PositionStatus,
         holding : HoldingStatus, tracking : TrackingStatus, archived : BOOLEAN]

Row == [side : {"BUY", "SELL"},
        type : {"OPENING_BALANCE", "NORMAL", "HISTORICAL_IMPORT"},
        traded_at : Int, quantity : Nat \ {0}, unit_price : Nat \ {0},
        status : Status, sequence_number : Nat \ {0},
        quantity_before : Nat, quantity_after : Nat,
        average_before : Nat, average_after : Nat,
        realized_pnl : Int, key : Keys \cup {NoKey}]

-----------------------------------------------------------------------------
(* Rows of the ledger and of the sales.                                    *)

NewRow(side, type, at, quantity, price, key) ==
    [side |-> side, type |-> type, traded_at |-> at, quantity |-> quantity,
     unit_price |-> price, status |-> "ACTIVE", sequence_number |-> 1,
     quantity_before |-> 0, quantity_after |-> 0,
     average_before |-> 0, average_after |-> 0, realized_pnl |-> 0, key |-> key]

\* _ensure_opening_balance: the first trade of an item that already shows a
\* quantity is preceded by a buy of that quantity.  The item was created at 1.
OpeningBalance(it, at) ==
    [NewRow("BUY", "OPENING_BALANCE", IF at - 1 < 1 THEN at - 1 ELSE 1,
            it.quantity, it.average, NoKey)
        EXCEPT !.quantity_after = it.quantity, !.average_after = it.average]

NeedsOpening(it, rows) == rows = <<>> /\ it.quantity > 0

\* Defect: the ledger starts from zero.
OpenedEmpty(it, rows, at) == rows

Opened(it, rows, at) ==
    IF NeedsOpening(it, rows) THEN <<OpeningBalance(it, at)>> ELSE rows

\* _create, up to the lookup by idempotency key.
MayTrade(it, rows) ==
    /\ ~it.archived
    /\ it.position # "NEEDS_REVIEW"
    /\ NeedsOpening(it, rows) => it.average > 0

HasKey(rows, key) == key # NoKey /\ \E i \in DOMAIN rows : rows[i].key = key
RowOfKey(rows, key) == CHOOSE i \in DOMAIN rows : rows[i].key = key

\* The values _create_compatibility_sale and _sync_compatibility_sale copy.
SaleOf(row) ==
    [type |-> CASE row.type = "HISTORICAL_IMPORT" -> "HISTORICAL_SALE"
                [] row.type # "HISTORICAL_IMPORT" /\ row.quantity_after = 0 -> "FULL_SALE"
                [] OTHER -> "PARTIAL_SALE",
     sold_at |-> row.traded_at, quantity |-> row.quantity,
     sale_price |-> row.unit_price, purchase_average |-> row.average_before,
     quantity_before |-> row.quantity_before, quantity_after |-> row.quantity_after,
     realized_pnl |-> row.realized_pnl, status |-> row.status]

-----------------------------------------------------------------------------
(* The item.                                                               *)

HoldingOf(position, tracking) ==
    CASE position = "HOLDING" -> "HOLDING"
      [] position = "CLOSED" -> "SOLD"
      [] OTHER -> IF tracking = "REENTRY_WATCH" THEN "REENTRY_WATCH" ELSE "WATCHLIST"

\* Defect: an item whose rows are all voided counts as closed.
SettledClosed(it, run) ==
    LET position == IF run.quantity > 0 THEN "HOLDING" ELSE "CLOSED"
    IN  [it EXCEPT !.quantity = run.quantity, !.average = run.average,
                   !.position = position, !.holding = HoldingOf(position, it.tracking)]

\* The columns the end of _replay sets.
Settled(it, run) ==
    LET position == CASE run.quantity > 0 -> "HOLDING"
                      [] run.quantity = 0 /\ run.active > 0 -> "CLOSED"
                      [] OTHER -> "EMPTY"
    IN  [it EXCEPT !.quantity = run.quantity, !.average = run.average,
                   !.position = position, !.holding = HoldingOf(position, it.tracking)]

\* Defect: an item may be held with no quantity or average price.
EditUnvalued(it, rows, holding, quantity, average) ==
    /\ rows # <<>> => <<holding, quantity, average>> = <<it.holding, it.quantity, it.average>>
    /\ ~(it.holding = "HOLDING" /\ holding = "SOLD")

\* PATCH /{item_id}: the derived columns are refused once rows exist.
EditAllowed(it, rows, holding, quantity, average) ==
    /\ rows # <<>> => <<holding, quantity, average>> = <<it.holding, it.quantity, it.average>>
    /\ ~(it.holding = "HOLDING" /\ holding = "SOLD")
    /\ holding = "HOLDING" => quantity > 0 /\ average > 0

Edited(it, holding, quantity, average, tracking, trackingGiven) ==
    [it EXCEPT !.quantity = quantity, !.average = average, !.tracking = tracking,
               !.holding = IF trackingGiven /\ it.position = "EMPTY"
                           THEN HoldingOf("EMPTY", tracking) ELSE holding]

\* PATCH /{item_id}/context: no look at the ledger.
ContextAllowed(position, tracking, quantity, average) ==
    /\ position = "HOLDING" => quantity > 0 /\ average > 0
    /\ position = "CLOSED" => quantity = 0
    /\ tracking = "REENTRY_WATCH" => quantity = 0

InContext(it, position, tracking, quantity, average) ==
    [it EXCEPT !.position = position, !.tracking = tracking, !.quantity = quantity,
               !.average = average, !.holding = HoldingOf(position, tracking)]

\* PortfolioService.create: the statuses follow the requested holding status.
NewItem(holding, quantity, average, tracking) ==
    [quantity |-> quantity, average |-> average, holding |-> holding,
     position |-> CASE holding = "HOLDING" -> "HOLDING"
                    [] holding = "SOLD" -> "CLOSED"
                    [] OTHER -> "EMPTY",
     tracking |-> tracking, archived |-> FALSE]
=============================================================================
