--------------------------- MODULE LedgerMigration ---------------------------
(***************************************************************************)
(* One item and its sales as the program kept them before it had a ledger  *)
(* (services/sales.py, of which the supplement of past sales and what is   *)
(* without a ledger row are still in use), and the migration that makes    *)
(* the ledger out of them (alembic/versions/..._0008_position_ledger.py).  *)
(*                                                                         *)
(* Amounts are as in LedgerReplay; products are exact, so the audit of the *)
(* amounts, which fails on what was rounded, is that of the snapshots.     *)
(***************************************************************************)
EXTENDS PositionRules, FiniteSets

CONSTANTS
    LegacyQuantities, LegacyAverages, LegacyPrices, LegacyTimes,
    CreatedAt,     \* when the item was created
    MaxSales       \* bound: sales of the item

ASSUME MigrationAssumption ==
    /\ LegacyQuantities \subseteq Nat \ {0} /\ LegacyPrices \subseteq Nat \ {0}
    /\ LegacyAverages \subseteq Nat /\ LegacyTimes \subseteq Int /\ CreatedAt \in Int

VARIABLES
    owned,         \* the row of portfolio_items
    sold,          \* its rows of sale_transactions, in the order of created_at
    upgrade        \* what the migration has made

migrationVars == <<owned, sold, upgrade>>

OwnedItem == [quantity : Nat, average : Nat, holding : HoldingStatus]

LegacySale ==
    [kind : {"FULL_SALE", "PARTIAL_SALE", "HISTORICAL_SALE"}, sold_at : LegacyTimes,
     quantity : LegacyQuantities, price : LegacyPrices, average : Nat, before : Nat,
     after : Nat, status : Status]

\* The tables of before, those of after that are empty yet, and those of after.
Schemas == {"old", "half", "new"}

NotUpgraded == [schema |-> "old", position |-> "EMPTY", tracking |-> "NONE", ledger |-> <<>>]

ActiveSales == {i \in DOMAIN sold : IsActive(sold[i])}
Current == {i \in DOMAIN sold : sold[i].kind # "HISTORICAL_SALE"}

\* ORDER BY sold_at, created_at, id.
SoldBefore(i, j) ==
    \/ sold[i].sold_at < sold[j].sold_at
    \/ sold[i].sold_at = sold[j].sold_at /\ i < j

-----------------------------------------------------------------------------
(* The requests before the migration.                                      *)

BeforeUpgrade == upgrade.schema = "old" /\ UNCHANGED upgrade

NewSale(kind, at, quantity, price, before, after) ==
    [kind |-> kind, sold_at |-> at, quantity |-> quantity, price |-> price,
     average |-> owned.average, before |-> before, after |-> after, status |-> "ACTIVE"]

\* SaleService.create.
Sell(at, quantity, price) ==
    LET left == owned.quantity - quantity IN
    /\ BeforeUpgrade /\ Len(sold) < MaxSales
    /\ owned.holding = "HOLDING" /\ owned.average > 0 /\ left >= 0
    /\ sold' = Append(sold, NewSale(IF left = 0 THEN "FULL_SALE" ELSE "PARTIAL_SALE",
                                    at, quantity, price, owned.quantity, left))
    /\ owned' = [owned EXCEPT !.quantity = left,
                              !.holding = IF left = 0 THEN "SOLD" ELSE "HOLDING"]

\* create_historical_sale: a sale that is remembered of an item that is sold.
Supplement(at, quantity, price) ==
    /\ BeforeUpgrade /\ Len(sold) < MaxSales
    /\ owned.holding = "SOLD" /\ owned.quantity = 0 /\ owned.average > 0
    /\ sold' = Append(sold, NewSale("HISTORICAL_SALE", at, quantity, price, quantity, 0))
    /\ UNCHANGED owned

\* SaleService.update: everything but the quantity.
AmendSale(i, at, price) ==
    /\ BeforeUpgrade /\ IsActive(sold[i])
    /\ sold' = [sold EXCEPT ![i].sold_at = at, ![i].price = price]
    /\ UNCHANGED owned

\* latest_active_current_sale.
LatestCurrent(i) == \A j \in ActiveSales \cap Current : j <= i

\* SaleService.void.
VoidSale(i) ==
    /\ BeforeUpgrade /\ IsActive(sold[i])
    /\ i \in Current => LatestCurrent(i)
    /\ sold' = [sold EXCEPT ![i].status = "VOIDED"]
    /\ owned' = IF i \notin Current THEN owned
                ELSE [owned EXCEPT !.quantity = @ + sold[i].quantity, !.holding = "HOLDING"]

\* PATCH of the item, which knew no ledger then.
EditOwned(holding, quantity, average) ==
    /\ BeforeUpgrade
    /\ EditAllowed(owned, <<>>, holding, quantity, average)
    /\ owned' = [quantity |-> quantity, average |-> average, holding |-> holding]
    /\ UNCHANGED sold

-----------------------------------------------------------------------------
(* The migration.                                                          *)

Snapshots == {sold[i].average : i \in ActiveSales}

\* The quantity of the sales S.
SoldIn(S) ==
    LET sum[n \in 0 .. Len(sold)] ==
            IF n = 0 THEN 0 ELSE sum[n - 1] + (IF n \in S THEN sold[n].quantity ELSE 0)
    IN  sum[Len(sold)]

OpeningQuantity == owned.quantity + SoldIn(ActiveSales)

\* What is left when the active sales before sale i are done.
LeftBefore(i) == OpeningQuantity - SoldIn({j \in ActiveSales : SoldBefore(j, i)})

\* Defect: the sales of an item need not be a chain.
AuditOfTotals ==
    /\ owned.holding = "HOLDING" => owned.quantity > 0 /\ owned.average > 0
    /\ owned.holding = "SOLD" => owned.quantity = 0 /\ ActiveSales # {}
    /\ ActiveSales # {} =>
          /\ Cardinality(Snapshots) = 1
          /\ owned.quantity > 0 => owned.average = 0 \/ owned.average \in Snapshots
          /\ owned.holding = IF owned.quantity > 0 THEN "HOLDING" ELSE "SOLD"

\* _audit_existing_data: what of an item may be converted.
Audit ==
    /\ owned.holding = "HOLDING" => owned.quantity > 0 /\ owned.average > 0
    /\ owned.holding = "SOLD" => owned.quantity = 0 /\ ActiveSales # {}
    /\ ActiveSales # {} =>
          /\ Cardinality(Snapshots) = 1
          /\ \A i \in ActiveSales : /\ sold[i].before = LeftBefore(i)
                                    /\ sold[i].after = LeftBefore(i) - sold[i].quantity
          /\ owned.quantity > 0 => owned.average = 0 \/ owned.average \in Snapshots
          /\ owned.holding = IF owned.quantity > 0 THEN "HOLDING" ELSE "SOLD"

FirstSale == CHOOSE i \in ActiveSales : \A j \in ActiveSales \ {i} : SoldBefore(i, j)

OpeningAverage == IF ActiveSales = {} THEN owned.average ELSE sold[FirstSale].average

\* The buy that stands for how the item came to be held.
OpeningRow ==
    LET at == IF ActiveSales = {} THEN CreatedAt ELSE sold[FirstSale].sold_at - 1
    IN  [NewRow("BUY", "OPENING_BALANCE", at, OpeningQuantity, OpeningAverage, NoKey) EXCEPT
            !.quantity_after = OpeningQuantity, !.average_after = OpeningAverage]

\* A sell that stands for a sale, with the quantity that was left before it; a
\* voided one keeps what was left after it then.
SaleRow(i) ==
    LET earlier == {j \in DOMAIN sold : SoldBefore(j, i)} IN
    [NewRow("SELL", IF sold[i].kind = "HISTORICAL_SALE" THEN "HISTORICAL_IMPORT" ELSE "NORMAL",
            sold[i].sold_at, sold[i].quantity, sold[i].price, NoKey) EXCEPT
        !.status = sold[i].status,
        !.sequence_number = Cardinality(earlier) + (IF OpeningQuantity > 0 THEN 2 ELSE 1),
        !.quantity_before = LeftBefore(i),
        !.quantity_after = IF IsActive(sold[i]) THEN LeftBefore(i) - sold[i].quantity
                           ELSE sold[i].after,
        !.average_before = OpeningAverage, !.average_after = OpeningAverage,
        !.realized_pnl = sold[i].quantity * (sold[i].price - sold[i].average)]

TrackingOf(holding) ==
    IF holding \in {"WATCHLIST", "REENTRY_WATCH"} THEN holding ELSE "NONE"

\* _migrate_online.
Converted ==
    [schema |-> "new",
     position |-> IF owned.quantity > 0 THEN "HOLDING"
                  ELSE IF ActiveSales # {} THEN "CLOSED" ELSE "EMPTY",
     tracking |-> TrackingOf(owned.holding),
     ledger |-> (IF OpeningQuantity > 0 THEN <<OpeningRow>> ELSE <<>>)
                  \o [i \in DOMAIN sold |-> SaleRow(i)]]

\* upgrade: the audit refuses before anything is done.  SQLite keeps the tables
\* that were made although the conversion fails, and the next upgrade fails on
\* them, too.
Upgrade ==
    /\ upgrade.schema = "old" /\ Audit
    /\ upgrade' = IF OpeningQuantity > 0 /\ OpeningAverage = 0
                  THEN [NotUpgraded EXCEPT !.schema = "half"] ELSE Converted
    /\ UNCHANGED <<owned, sold>>

\* downgrade drops the ledger.
Downgrade ==
    /\ upgrade.schema = "new" /\ upgrade' = NotUpgraded
    /\ UNCHANGED <<owned, sold>>

-----------------------------------------------------------------------------
\* PortfolioService.create, and create_historical with a chain of two sales.
MigrationInit ==
    /\ upgrade = NotUpgraded
    /\ \/ /\ sold = <<>>
          /\ owned \in [quantity : LegacyQuantities \cup {0}, average : LegacyAverages,
                        holding : HoldingStatus \ {"SOLD"}]
          /\ owned.holding = "HOLDING" => owned.quantity > 0 /\ owned.average > 0
       \/ \E q1, q2 \in LegacyQuantities, t1, t2 \in LegacyTimes, p \in LegacyPrices,
             a \in LegacyAverages \ {0} :
             LET past(at, q, after) ==
                     [kind |-> "HISTORICAL_SALE", sold_at |-> at, quantity |-> q, price |-> p,
                      average |-> a, before |-> q + after, after |-> after, status |-> "ACTIVE"]
             IN  /\ t1 <= t2
                 /\ owned = [quantity |-> 0, average |-> a, holding |-> "SOLD"]
                 /\ sold = <<past(t1, q1, q2), past(t2, q2, 0)>>

MigrationNext ==
    \/ \E at \in LegacyTimes, q \in LegacyQuantities, p \in LegacyPrices :
          Sell(at, q, p) \/ Supplement(at, q, p)
    \/ \E i \in DOMAIN sold, at \in LegacyTimes, p \in LegacyPrices : AmendSale(i, at, p)
    \/ \E i \in DOMAIN sold : VoidSale(i)
    \/ \E h \in HoldingStatus, q \in LegacyQuantities \cup {0}, a \in LegacyAverages :
          EditOwned(h, q, a)
    \/ Upgrade
    \/ Downgrade

MigrationSpec == MigrationInit /\ [][MigrationNext]_migrationVars

-----------------------------------------------------------------------------
MigrationTypeOK ==
    /\ owned \in OwnedItem
    /\ \A i \in DOMAIN sold : sold[i] \in LegacySale
    /\ Len(sold) <= MaxSales
    /\ upgrade.schema \in Schemas
    /\ \A i \in DOMAIN upgrade.ledger : upgrade.ledger[i] \in Row

\* The ledger that the migration makes is one that the program would have made:
\* it replays, to the quantity and the position the item shows and, while it is
\* held, to its average price, no active row changes in the first replay, and
\* every active sale is the one that its row would have made.
MigratedLedgerReplays ==
    upgrade.schema = "new" =>
        LET run == Replay(upgrade.ledger) IN
        /\ ~run.failed
        /\ run.quantity = owned.quantity
        /\ owned.quantity > 0 => run.average = owned.average
        /\ upgrade.position = Settled(NewItem("HOLDING", 0, 0, upgrade.tracking), run).position
        /\ \A i \in DOMAIN upgrade.ledger : IsActive(upgrade.ledger[i]) =>
              [run.ledger[i] EXCEPT !.sequence_number = 1]
                 = [upgrade.ledger[i] EXCEPT !.sequence_number = 1]
        /\ LET opening == Len(upgrade.ledger) - Len(sold) IN
           \A i \in ActiveSales : SaleOf(run.ledger[opening + i]) =
              [type |-> sold[i].kind, sold_at |-> sold[i].sold_at,
               quantity |-> sold[i].quantity, sale_price |-> sold[i].price,
               purchase_average |-> sold[i].average, quantity_before |-> sold[i].before,
               quantity_after |-> sold[i].after,
               realized_pnl |-> sold[i].quantity * (sold[i].price - sold[i].average),
               status |-> sold[i].status]
=============================================================================
