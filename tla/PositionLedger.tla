--------------------------- MODULE PositionLedger ---------------------------
(***************************************************************************)
(* One portfolio item, its ledger of buys and sells and the sale rows kept *)
(* in step with it: server/app/services/{transactions,portfolio}.py behind *)
(* server/app/api/portfolio.py.                                            *)
(*                                                                         *)
(* Every action is one HTTP request that commits.  A request that raises   *)
(* rolls its session back and leaves no trace, so it is not a step.        *)
(* Requests run one at a time here; LedgerConcurrency interleaves them.    *)
(***************************************************************************)
EXTENDS PositionRules, FiniteSets

CONSTANTS
    Quantities,     \* quantities a request may carry
    Prices,         \* unit prices and average prices a request may carry
    Edits,          \* <<quantity, average>> an edit of the item may set
    Trackings,      \* tracking statuses a request on the item may set
    Positions,      \* position statuses a context request may leave
    MaxTime,        \* bound: the clock stops here
    MaxRows,        \* bound: rows of the ledger
    MaxImport       \* bound: entries of one historical import

ASSUME LedgerAssumption ==
    /\ Quantities \subseteq Nat \ {0}
    /\ Prices \subseteq Nat \ {0}
    /\ Edits \subseteq Nat \X Nat
    /\ Trackings \subseteq {"NONE", "WATCHLIST", "REENTRY_WATCH"}
    /\ Positions \subseteq {"EMPTY", "HOLDING", "CLOSED", "NEEDS_REVIEW"}
    /\ MaxTime \in Nat \ {0} /\ MaxRows \in Nat /\ MaxImport \in Nat

VARIABLES
    item,    \* the PortfolioItemRecord
    ledger,  \* its PositionTransactionRecords, in insertion order
    sales,   \* ledger index -> the SaleTransactionRecord made for that row
    now      \* the clock

vars == <<item, ledger, sales, now>>

Sale == [type : {"PARTIAL_SALE", "FULL_SALE", "HISTORICAL_SALE"},
         sold_at : Int, quantity : Nat \ {0}, sale_price : Nat \ {0},
         purchase_average : Nat \ {0}, quantity_before : Nat, quantity_after : Nat,
         realized_pnl : Int, status : Status]

TypeOK ==
    /\ item \in Item
    /\ ledger \in Seq(Row)
    /\ DOMAIN sales \subseteq DOMAIN ledger
    /\ \A i \in DOMAIN sales : sales[i] \in Sale
    /\ now \in 1..MaxTime

Times == 1..now      \* a later traded_at is refused as a trade of the future

-----------------------------------------------------------------------------
(* How a request ends.                                                     *)

\* Defect: the status of the row is not copied.
SyncedButStatus(rows) ==
    [i \in DOMAIN sales |->
        IF rows[i].side = "SELL" THEN [SaleOf(rows[i]) EXCEPT !.status = sales[i].status]
        ELSE sales[i]]

\* _sync_compatibility_sale, called for every row a replay visits.
Synced(rows) ==
    [i \in DOMAIN sales |-> IF rows[i].side = "SELL" THEN SaleOf(rows[i]) ELSE sales[i]]

\* _create_compatibility_sale for the rows in new: a sale row that exists is
\* only synced, a missing one is made, active whatever the status of its row.
WithSales(rows, new) ==
    [i \in DOMAIN sales \cup new |->
        IF i \in DOMAIN sales THEN Synced(rows)[i]
        ELSE [SaleOf(rows[i]) EXCEPT !.status = "ACTIVE"]]

\* The end of _replay: a replay that did not raise sets rows and item.
Commit(run) ==
    /\ ~run.failed
    /\ ledger' = run.ledger
    /\ item' = Settled(item, run)

-----------------------------------------------------------------------------
(* The ledger's requests.                                                  *)

CreateBuy(at, quantity, price, key) ==
    /\ MayTrade(item, ledger)
    /\ ~HasKey(ledger, key)
    /\ LET run == Replay(Append(Opened(item, ledger, at),
                                NewRow("BUY", "NORMAL", at, quantity, price, key)))
       IN  Commit(run) /\ sales' = Synced(run.ledger)
    /\ UNCHANGED now

CreateSell(at, quantity, price, key) ==
    /\ MayTrade(item, ledger)
    /\ ~HasKey(ledger, key)
    /\ LET rows == Append(Opened(item, ledger, at), NewRow("SELL", "NORMAL", at, quantity, price, key))
           run == Replay(rows)
       IN  /\ Commit(run)
           /\ sales' = WithSales(run.ledger, {Len(rows)})
    /\ UNCHANGED now

\* A sell request whose key is already in the ledger gets the row of that key
\* back, whichever side it has, and goes on to make its sale row.
RepeatSell(key) ==
    /\ MayTrade(item, ledger)
    /\ HasKey(ledger, key)
    /\ LET i == RowOfKey(ledger, key)
       IN  /\ i \notin DOMAIN sales => ledger[i].average_before > 0
           /\ sales' = WithSales(ledger, {i})
    /\ UNCHANGED <<item, ledger, now>>

\* Defect: a voided row can be corrected.
UpdateAnyTransaction(i, at, price) ==
    /\ LET changed == [ledger EXCEPT ![i].traded_at = at, ![i].unit_price = price]
           run == ReplayIn(ledger, changed)
       IN  Commit(run) /\ sales' = Synced(run.ledger)
    /\ UNCHANGED now

\* The rows are read ORDER BY traded_at before the new traded_at is flushed
\* (autoflush is off), so this replay still goes by the old times.
UpdateTransaction(i, at, price) ==
    /\ ledger[i].status = "ACTIVE"
    /\ LET changed == [ledger EXCEPT ![i].traded_at = at, ![i].unit_price = price]
           run == ReplayIn(ledger, changed)
       IN  Commit(run) /\ sales' = Synced(run.ledger)
    /\ UNCHANGED now

\* Defect: the rows after a voided one are not recomputed.
VoidAlone(i) ==
    /\ ledger[i].status = "ACTIVE"
    /\ LET rows == [ledger EXCEPT ![i].status = "VOIDED"]
           run == [Replay(rows) EXCEPT !.ledger = rows]
       IN  Commit(run) /\ sales' = Synced(run.ledger)
    /\ UNCHANGED now

VoidTransaction(i) ==
    /\ ledger[i].status = "ACTIVE"
    /\ LET run == Replay([ledger EXCEPT ![i].status = "VOIDED"])
       IN  Commit(run) /\ sales' = Synced(run.ledger)
    /\ UNCHANGED now

\* One entry of an import after the other; a known key adds no row.
ImportEntry(rows, entry) ==
    IF HasKey(rows, entry.key) THEN rows
    ELSE Append(rows, NewRow(entry.side, "HISTORICAL_IMPORT", entry.at,
                             entry.quantity, entry.price, entry.key))

\* Defect: only the entries with a key are looked at.
ImportedByKey(rows, entries) ==
    {RowOfKey(rows, k) : k \in {entries[e].key : e \in DOMAIN entries} \ {NoKey}}

\* The rows an import reports: those it added and those its keys name.
Imported(rows, entries) ==
    (DOMAIN rows \ DOMAIN ledger)
        \cup {RowOfKey(rows, k) : k \in {entries[e].key : e \in DOMAIN entries} \ {NoKey}}

WithImported(entries) ==
    LET rows[n \in 0..Len(entries)] ==
            IF n = 0 THEN ledger ELSE ImportEntry(rows[n - 1], entries[n])
    IN  rows[Len(entries)]

HistoricalImport(entries) ==
    /\ item.position # "NEEDS_REVIEW"
    /\ LET rows == WithImported(entries)
           run == Replay(rows)
           sold == {i \in Imported(rows, entries) : rows[i].side = "SELL"}
       IN  /\ Commit(run)
           /\ sales' = WithSales(run.ledger, sold)
    /\ UNCHANGED now

-----------------------------------------------------------------------------
(* The requests on the item itself.                                        *)

\* PATCH /{item_id}.
UpdateItem(holding, quantity, average, tracking, trackingGiven) ==
    /\ trackingGiven \/ tracking = item.tracking
    /\ EditAllowed(item, ledger, holding, quantity, average)
    /\ item' = Edited(item, holding, quantity, average, tracking, trackingGiven)
    /\ UNCHANGED <<ledger, sales, now>>

\* PATCH /{item_id}/context writes the item without replaying the ledger.
UpdateContext(position, tracking, quantity, average) ==
    /\ ContextAllowed(position, tracking, quantity, average)
    /\ item' = InContext(item, position, tracking, quantity, average)
    /\ UNCHANGED <<ledger, sales, now>>

Archive == /\ ~item.archived
           /\ item' = [item EXCEPT !.archived = TRUE]
           /\ UNCHANGED <<ledger, sales, now>>

Restore == /\ item.archived
           /\ item' = [item EXCEPT !.archived = FALSE]
           /\ UNCHANGED <<ledger, sales, now>>

Tick == now < MaxTime /\ now' = now + 1 /\ UNCHANGED <<item, ledger, sales>>

-----------------------------------------------------------------------------
Init ==
    /\ \E h \in HoldingStatus, e \in Edits, k \in Trackings :
            /\ h = "HOLDING" => e[1] > 0 /\ e[2] > 0
            /\ item = NewItem(h, e[1], e[2], k)
    /\ ledger = <<>>
    /\ sales = [i \in {} |-> 0]
    /\ now = 1

Room(n) == Len(Opened(item, ledger, 1)) + n <= MaxRows

Entries == [side : {"BUY", "SELL"}, at : Times, quantity : Quantities,
            price : Prices, key : Keys \cup {NoKey}]

LedgerRequest ==
    \/ \E at \in Times, q \in Quantities, p \in Prices, k \in Keys \cup {NoKey} :
            Room(1) /\ (CreateBuy(at, q, p, k) \/ CreateSell(at, q, p, k))
    \/ \E k \in Keys : RepeatSell(k)
    \/ \E i \in DOMAIN ledger, at \in Times, p \in Prices : UpdateTransaction(i, at, p)
    \/ \E i \in DOMAIN ledger : VoidTransaction(i)
    \/ \E n \in 1..MaxImport : \E entries \in [1..n -> Entries] :
            Len(ledger) + n <= MaxRows /\ HistoricalImport(entries)

\* What a request on the item leaves out keeps its value.
EditOrCurrent == Edits \cup {<<item.quantity, item.average>>}
TrackingOrCurrent == Trackings \cup {item.tracking}

ItemRequest ==
    \/ \E e \in EditOrCurrent, k \in TrackingOrCurrent :
            \/ \E h \in HoldingStatus, given \in BOOLEAN : UpdateItem(h, e[1], e[2], k, given)
            \/ \E s \in Positions : UpdateContext(s, k, e[1], e[2])
    \/ Archive
    \/ Restore

Next == LedgerRequest \/ ItemRequest \/ Tick

Spec == Init /\ [][Next]_vars

-----------------------------------------------------------------------------
(* What the ledger promises.                                               *)

ActiveRows == {i \in DOMAIN ledger : IsActive(ledger[i])}

ActiveBefore(i) ==
    {j \in ActiveRows : ledger[j].sequence_number < ledger[i].sequence_number}

LastOf(S) ==
    CHOOSE i \in S : \A j \in S : ledger[j].sequence_number <= ledger[i].sequence_number

\* Quantity and average price after the rows of S, numbered from the first.
After(S) ==
    IF S = {} THEN <<0, 0>>
    ELSE <<ledger[LastOf(S)].quantity_after, ledger[LastOf(S)].average_after>>

\* The stored rows tell one story: they are numbered 1..n, each active row
\* starts from the quantity and average price the active row before it left,
\* and no row sells more than was there.  It must survive voids, corrections
\* and imports in the past, which rewrite rows written by earlier requests.
ChainInSequence ==
    /\ {ledger[i].sequence_number : i \in DOMAIN ledger} = DOMAIN ledger
    /\ \A i \in ActiveRows :
          LET row == ledger[i] IN
          /\ <<row.quantity_before, row.average_before>> = After(ActiveBefore(i))
          /\ row.quantity_after = row.quantity_before + Signed(row)

\* A request that touches the ledger leaves the item showing exactly what the
\* ledger now ends with, whatever a context update had put there before.
LedgerStepSetsItem ==
    [][ledger' # ledger =>
         /\ <<item'.quantity, item'.average>> = After(ActiveRows)'
         /\ item'.position = (IF item'.quantity > 0 THEN "HOLDING"
                              ELSE IF ActiveRows' # {} THEN "CLOSED" ELSE "EMPTY")]_vars

\* Whatever the order of rows, the ledger ends with what was bought less what
\* was sold: no correction of a time or a price creates or loses quantity.
QuantityConserved == After(ActiveRows)[1] = NetQuantity(ledger)

\* Rounded or not, an average price lies between the cheapest and the dearest
\* of the buys replayed up to it, also after the position was once closed.
AverageWithinPrices ==
    \A i \in ActiveRows :
        LET buys == {j \in ActiveBefore(i) \cup {i} : ledger[j].side = "BUY"} IN
        /\ \E j \in buys : ledger[j].unit_price <= ledger[i].average_after
        /\ \E j \in buys : ledger[i].average_after <= ledger[j].unit_price

\* What a step leaves of the rows it finds.
RowsKept ==
    \A i \in DOMAIN ledger :
        /\ i \in DOMAIN ledger'
        /\ \A c \in {"side", "type", "quantity", "key"} : ledger'[i][c] = ledger[i][c]
        /\ ledger[i].status = "VOIDED" =>
              ledger'[i] = [ledger[i] EXCEPT !.sequence_number = ledger'[i].sequence_number]

\* No request edits the side, type, quantity or key of a row or removes it,
\* and a voided row keeps every column but its number: the audit trail.
VoidedIsFinal == [][RowsKept]_vars

\* Every sell, active or voided, has a sale row equal to it, though replays
\* triggered by other rows keep changing its averages and its result.
SalesMirrorSells ==
    \A i \in DOMAIN ledger :
        ledger[i].side = "SELL" => i \in DOMAIN sales /\ sales[i] = SaleOf(ledger[i])

\* The first buy or sell of an item that shows a quantity without a ledger
\* counts from that quantity and does not start again from zero.
FirstTradeKeepsSnapshot ==
    [][ledger = <<>> /\ ledger' # <<>> /\ ledger'[Len(ledger')].type = "NORMAL"
         => item'.quantity = item.quantity + Signed(ledger'[Len(ledger')])]_vars

\* An item shown as held has a quantity and a price to value it with, whether
\* the ledger, an edit or a context update made it so.
HoldingHasAverage == item.holding = "HOLDING" => item.quantity > 0 /\ item.average > 0

-----------------------------------------------------------------------------
(* What a comment or a text of the program says and the code does not do.  *)

\* "Buys and sells are recomputed in time order in one ledger": the rows, read
\* by traded_at, replay without a sell that exceeds what is held.
LedgerReplays == ~Replay(ledger).failed

\* The opening balance preserves the current quantity of an existing item.
SnapshotPreserved ==
    [][ledger = <<>> /\ ledger' # <<>> /\ item.quantity > 0
         => \E i \in DOMAIN ledger' : /\ ledger'[i].type = "OPENING_BALANCE"
                                      /\ ledger'[i].quantity = item.quantity]_vars
=============================================================================
