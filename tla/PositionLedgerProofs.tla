------------------------ MODULE PositionLedgerProofs ------------------------
(***************************************************************************)
(* Theorems about PositionLedger: the types of its state, that the rows of *)
(* a ledger tell one story in which no quantity is lost and no average     *)
(* leaves the prices, that item and sale rows follow the ledger, that an   *)
(* item shown as held can be valued, and the audit trail of the rows; and  *)
(* about LedgerMigration: that the ledger it makes is one of these.        *)
(***************************************************************************)
EXTENDS PositionLedger, LedgerMigration, ReplayProofs

-----------------------------------------------------------------------------
(* The inductive invariant: besides the types, every sell, voided ones     *)
(* included, has the average price its sale row must copy and has that     *)
(* sale row, and the rows are what some replay left.  A step that replays  *)
(* reads only the terms of the rows, so the story needs no more than that. *)

SellsHaveAverage == \A i \in DOMAIN ledger : SellHasAverage(ledger[i])

LedgerTells == \E quantity, average : Tells(ledger, quantity, average)

IInv == TypeOK /\ SellsHaveAverage /\ LedgerTells /\ SalesMirrorSells /\ HoldingHasAverage

\* What the action properties say of one step.
ItemFollows ==
    ledger' # ledger =>
        /\ <<item'.quantity, item'.average>> = After(ActiveRows)'
        /\ item'.position = (IF item'.quantity > 0 THEN "HOLDING"
                             ELSE IF ActiveRows' # {} THEN "CLOSED" ELSE "EMPTY")

SnapshotKept ==
    ledger = <<>> /\ ledger' # <<>> /\ ledger'[Len(ledger')].type = "NORMAL"
        => item'.quantity = item.quantity + Signed(ledger'[Len(ledger')])

StepKept == RowsKept /\ ItemFollows /\ SnapshotKept

-----------------------------------------------------------------------------
(* Rows that tell one story.                                               *)

AfterIn(rows, S) ==
    LET last == CHOOSE i \in S : \A j \in S : rows[j].sequence_number <= rows[i].sequence_number
    IN  IF S = {} THEN <<0, 0>> ELSE <<rows[last].quantity_after, rows[last].average_after>>

\* The rows S of a story end with the quantity q and the average a.
Ends(rows, n, all, S, q, a) ==
    n \in Nat /\ Chained(rows, all, n) /\ S \subseteq all /\ EndsWith(rows, S, q, a)

\* Numbers that differ make the last row of S the one EndsWith speaks of.
LEMMA EndsOnce ==
    ASSUME NEW rows, NEW n, NEW all, NEW S, NEW q, NEW a, Ends(rows, n, all, S, q, a)
    PROVE  AfterIn(rows, S) = <<q, a>>
<1> DEFINE Last(i) == i \in S /\ \A j \in S : rows[j].sequence_number <= rows[i].sequence_number
           last == CHOOSE i \in S : \A j \in S : rows[j].sequence_number <= rows[i].sequence_number
<1>0. n \in Nat /\ Chained(rows, all, n) /\ S \subseteq all /\ EndsWith(rows, S, q, a)
  BY DEF Ends
<1>1. CASE S = {} /\ q = 0 /\ a = 0
  BY <1>1 DEF AfterIn
<1>2. CASE ~(S = {} /\ q = 0 /\ a = 0)
  <2>1. PICK m : Last(m) /\ q = rows[m].quantity_after /\ a = rows[m].average_after
    BY <1>0, <1>2 DEF EndsWith
  <2>2. Last(last)
    BY <2>1
  <2> HIDE DEF last
  <2>3. /\ m \in all /\ last \in all
        /\ rows[m].sequence_number \in Nat /\ rows[last].sequence_number \in Nat
        /\ rows[m].sequence_number <= rows[last].sequence_number
        /\ rows[last].sequence_number <= rows[m].sequence_number
    BY <1>0, <2>1, <2>2 DEF Chained
  <2>4. rows[m].sequence_number = rows[last].sequence_number
    BY <2>3
  <2>5. last = m
    BY <1>0, <2>3, <2>4 DEF Chained
  <2>6. S # {}
    BY <2>1
  <2> QED
    BY <2>1, <2>5, <2>6 DEF AfterIn, last
<1> QED
  BY <1>1, <1>2

\* The story of the ledger, in the terms of its properties.
LEMMA TellsFacts ==
    ASSUME NEW rows \in Seq(Row), NEW q, NEW a, Tells(rows, q, a)
    PROVE  LET all == DOMAIN rows
               active == Active(rows, all)
           IN  /\ {rows[i].sequence_number : i \in all} = all
               /\ AfterIn(rows, active) = <<q, a>>
               /\ \A i \in active :
                     LET row == rows[i]
                         before == Below(rows, all, i)
                     IN  /\ <<row.quantity_before, row.average_before>> = AfterIn(rows, before)
                         /\ row.quantity_after = row.quantity_before + Signed(row)
                         /\ Between(rows, before \cup {i}, row.average_after)
<1> DEFINE all == DOMAIN rows
           active == Active(rows, all)
<1>1. Len(rows) \in Nat /\ all = 1..Len(rows) /\ Chained(rows, all, Len(rows))
  BY LenProperties DEF Tells
<1>2. {rows[i].sequence_number : i \in all} = all
  BY <1>1 DEF Chained
<1>3. active \subseteq all
  BY DEF Active
<1>4. AfterIn(rows, active) = <<q, a>>
  <2>1. EndsWith(rows, active, q, a)
    BY DEF Tells
  <2> HIDE DEF active, all
  <2>2. Ends(rows, Len(rows), all, active, q, a)
    BY <1>1, <1>3, <2>1 DEF Ends
  <2> QED
    BY <2>2, EndsOnce
<1>5. ASSUME NEW i \in active
      PROVE  LET row == rows[i]
                 before == Below(rows, all, i)
             IN  /\ <<row.quantity_before, row.average_before>> = AfterIn(rows, before)
                 /\ row.quantity_after = row.quantity_before + Signed(row)
                 /\ Between(rows, before \cup {i}, row.average_after)
  <2> DEFINE before == Below(rows, all, i)
  <2>1. /\ EndsWith(rows, before, rows[i].quantity_before, rows[i].average_before)
        /\ rows[i].quantity_after = rows[i].quantity_before + Signed(rows[i])
        /\ Between(rows, before \cup {i}, rows[i].average_after)
    BY <1>1 DEF Chained
  <2>2. before \subseteq all
    BY DEF Below, Active
  <2> HIDE DEF active, all, before
  <2>3. Ends(rows, Len(rows), all, before, rows[i].quantity_before, rows[i].average_before)
    BY <1>1, <2>1, <2>2 DEF Ends
  <2>4. AfterIn(rows, before) = <<rows[i].quantity_before, rows[i].average_before>>
    BY <2>3, EndsOnce
  <2> QED
    BY <2>1, <2>4 DEF before
<1> QED
  BY <1>2, <1>4, <1>5

LEMMA SaleOfType ==
    ASSUME NEW row \in Row, row.average_before > 0
    PROVE  SaleOf(row) \in Sale
<1> DEFINE type == CASE row.type = "HISTORICAL_IMPORT" -> "HISTORICAL_SALE"
                     [] row.type # "HISTORICAL_IMPORT" /\ row.quantity_after = 0 -> "FULL_SALE"
                     [] OTHER -> "PARTIAL_SALE"
<1>1. type \in {"PARTIAL_SALE", "FULL_SALE", "HISTORICAL_SALE"}
  OBVIOUS
<1>2. SaleOf(row) = [type |-> type,
     sold_at |-> row.traded_at, quantity |-> row.quantity,
     sale_price |-> row.unit_price, purchase_average |-> row.average_before,
     quantity_before |-> row.quantity_before, quantity_after |-> row.quantity_after,
     realized_pnl |-> row.realized_pnl, status |-> row.status]
  BY DEF SaleOf
<1> HIDE DEF type
<1>3. row.average_before \in Nat \ {0}
  BY DEF Row
<1> QED
  BY <1>1, <1>2, <1>3 DEF Row, Sale

LEMMA WithSalesType ==
    ASSUME TypeOK, NEW L \in Nat, NEW r \in Rows(L), NEW new \in SUBSET (1..L),
           DOMAIN sales \subseteq 1..L,
           \A i \in 1..L : SellHasAverage(r[i]),
           \A i \in new \ DOMAIN sales : r[i].average_before > 0
    PROVE  /\ DOMAIN WithSales(r, new) \subseteq 1..L
           /\ \A i \in DOMAIN WithSales(r, new) : WithSales(r, new)[i] \in Sale
<1>1. DOMAIN WithSales(r, new) = DOMAIN sales \cup new
  BY DEF WithSales
<1>2. \A i \in 1..L : r[i] \in Row
  BY RowInRows
<1>3. ASSUME NEW i \in DOMAIN sales
      PROVE  WithSales(r, new)[i] \in Sale
  <2>1. WithSales(r, new)[i] = IF r[i].side = "SELL" THEN SaleOf(r[i]) ELSE sales[i]
    BY DEF WithSales, Synced
  <2>2. sales[i] \in Sale
    BY DEF TypeOK
  <2>3. r[i].side = "SELL" => SaleOf(r[i]) \in Sale
    BY <1>2, SaleOfType DEF SellHasAverage
  <2> QED
    BY <2>1, <2>2, <2>3
<1>4. ASSUME NEW i \in new \ DOMAIN sales
      PROVE  WithSales(r, new)[i] \in Sale
  <2>1. WithSales(r, new)[i] = [SaleOf(r[i]) EXCEPT !.status = "ACTIVE"]
    BY DEF WithSales
  <2>2. SaleOf(r[i]) \in Sale
    BY <1>2, SaleOfType
  <2> QED
    BY <2>1, <2>2 DEF Sale, Status
<1> QED
  BY <1>1, <1>3, <1>4

\* The rows of a request: those of the ledger on their sides, and active ones
\* whose sells are all among the rows it makes sale rows for.
AddsSells(rows, new) ==
    /\ \A i \in DOMAIN ledger : rows[i].side = ledger[i].side
    /\ \A i \in DOMAIN rows \ DOMAIN ledger :
          IsActive(rows[i]) /\ (rows[i].side = "SELL" => i \in new)

\* What every request that replays the ledger has in common.
LEMMA CommitFacts ==
    ASSUME IInv, now' = now,
           NEW rows \in Seq(Row), NEW stored \in Seq(Row), Len(stored) = Len(rows),
           Len(ledger) <= Len(rows), VoidedSellsHaveAverage(rows),
           Commit(ReplayIn(stored, rows)),
           NEW new \in SUBSET DOMAIN rows, \A i \in new : rows[i].side = "SELL",
           AddsSells(rows, new),
           sales' = WithSales(ReplayIn(stored, rows).ledger, new)
    PROVE  /\ IInv' /\ ItemFollows
           /\ ledger' \in Seq(Row) /\ Len(ledger') = Len(rows)
           /\ item'.quantity = NetQuantity(ledger')
           /\ \A i \in DOMAIN rows : i \in DOMAIN ledger' /\ SameTerms(ledger'[i], rows[i])
<1> DEFINE run == ReplayIn(stored, rows)
           L == Len(rows)
<1>1. L \in Nat /\ DOMAIN rows = 1..L
  BY LenProperties
<1>2. /\ run \in Runs(L)
      /\ run.quantity > 0 => run.average > 0
      /\ \A i \in 1..L : SameTerms(run.ledger[i], rows[i]) /\ SellHasAverage(run.ledger[i])
      /\ Tells(run.ledger, run.quantity, run.average)
      /\ run.active = 0 <=> Active(run.ledger, DOMAIN run.ledger) = {}
  <2>1. run.failed = FALSE
    <3>1. run \in Runs(L)
      BY ReplayEnds DEF RunInv
    <3> QED
      BY <3>1 DEF Commit, Runs
  <2> QED
    BY <2>1, ReplayFacts
<1> DEFINE position == CASE run.quantity > 0 -> "HOLDING"
                        [] run.quantity = 0 /\ run.active > 0 -> "CLOSED"
                        [] OTHER -> "EMPTY"
           holding == HoldingOf(position, item.tracking)
<1>3. /\ ledger' = run.ledger /\ sales' = WithSales(run.ledger, new)
      /\ item' = [item EXCEPT !.quantity = run.quantity, !.average = run.average,
                              !.position = position, !.holding = holding]
  BY DEF Commit, Settled
<1>4. position \in PositionStatus /\ (position = "HOLDING" => run.quantity > 0)
  BY DEF PositionStatus
<1> HIDE DEF run, position
<1>5. /\ run.ledger \in Rows(L) /\ run.quantity \in Nat /\ run.average \in Nat
      /\ run.active \in Nat
  BY <1>2 DEF Runs
<1>6. /\ ledger' \in Seq(Row) /\ DOMAIN ledger' = 1..L /\ Len(ledger') = L
  BY <1>1, <1>3, <1>5, RowInRows
<1>7. /\ item' \in Item /\ HoldingHasAverage' /\ item'.position = position
      /\ item'.quantity = run.quantity /\ item'.average = run.average
  <2>1. holding \in HoldingStatus /\ (holding = "HOLDING" => position = "HOLDING")
    BY <1>4 DEF HoldingOf, HoldingStatus
  <2>2. item \in Item
    BY DEF IInv, TypeOK
  <2> HIDE DEF holding
  <2>4. item' \in Item
    BY <1>3, <1>4, <1>5, <2>1, <2>2 DEF Item
  <2>5. /\ item'.holding = holding /\ item'.quantity = run.quantity
        /\ item'.average = run.average /\ item'.position = position
    BY <1>3, <2>2 DEF Item
  <2> QED
    BY <1>2, <1>4, <2>1, <2>4, <2>5 DEF HoldingHasAverage
<1>8. DOMAIN sales \subseteq 1..L
  <2>1. DOMAIN ledger = 1..Len(ledger) /\ Len(ledger) \in Nat
    BY LenProperties DEF IInv, TypeOK
  <2> QED
    BY <1>1, <2>1 DEF IInv, TypeOK
<1>9. \A i \in new \ DOMAIN sales : run.ledger[i].average_before > 0
  <2> TAKE i \in new \ DOMAIN sales
  <2>1. i \in 1..L /\ rows[i].side = "SELL"
    BY <1>1
  <2> QED
    BY <1>2, <2>1 DEF SameTerms, SellHasAverage
<1>10. /\ DOMAIN sales' \subseteq 1..L
       /\ \A i \in DOMAIN sales' : sales'[i] \in Sale
  BY <1>1, <1>2, <1>3, <1>5, <1>8, <1>9, WithSalesType DEF IInv
<1>11. SellsHaveAverage'
  BY <1>2, <1>3, <1>6 DEF SellsHaveAverage
<1>12. TypeOK'
  BY <1>6, <1>7, <1>10 DEF IInv, TypeOK
<1>13. Tells(ledger', item'.quantity, item'.average)
  BY <1>2, <1>3, <1>7
<1>14. SalesMirrorSells'
  <2>1. ASSUME NEW i \in 1..L, run.ledger[i].side = "SELL"
        PROVE  i \in DOMAIN sales' /\ sales'[i] = SaleOf(run.ledger[i])
    <3>1. rows[i].side = "SELL" /\ rows[i].status = run.ledger[i].status
      BY <1>2, <2>1 DEF SameTerms
    <3>2. CASE i \in DOMAIN sales
      BY <1>3, <2>1, <3>2 DEF WithSales, Synced
    <3>3. CASE i \notin DOMAIN sales
      <4>1. i \notin DOMAIN ledger
        BY <3>1, <3>3 DEF IInv, SalesMirrorSells, AddsSells
      <4>2. i \in new /\ IsActive(rows[i])
        BY <1>1, <3>1, <4>1 DEF AddsSells
      <4>3. sales'[i] = [SaleOf(run.ledger[i]) EXCEPT !.status = "ACTIVE"]
            /\ i \in DOMAIN sales'
        BY <1>3, <3>3, <4>2 DEF WithSales
      <4>4. SaleOf(run.ledger[i]).status = "ACTIVE"
        BY <3>1, <4>2 DEF SaleOf, IsActive
      <4>5. SaleOf(run.ledger[i]) = [SaleOf(run.ledger[i]) EXCEPT !.status = "ACTIVE"]
        BY <4>4 DEF SaleOf
      <4> QED
        BY <4>3, <4>5
    <3> QED
      BY <3>2, <3>3
  <2> QED
    BY <1>3, <1>6, <2>1 DEF SalesMirrorSells
<1>15. ItemFollows
  <2>1. AfterIn(ledger', Active(ledger', DOMAIN ledger')) = <<item'.quantity, item'.average>>
    BY <1>6, <1>13, TellsFacts
  <2>2. ActiveRows' = Active(ledger', DOMAIN ledger')
    BY DEF ActiveRows, Active
  <2>3. After(ActiveRows)' = AfterIn(ledger', ActiveRows')
    BY DEF After, LastOf, AfterIn
  <2>4. <<item'.quantity, item'.average>> = After(ActiveRows)'
    BY <2>1, <2>2, <2>3
  <2>5. item'.position = (IF item'.quantity > 0 THEN "HOLDING"
                          ELSE IF ActiveRows' # {} THEN "CLOSED" ELSE "EMPTY")
    BY <1>2, <1>3, <1>5, <1>7, <2>2 DEF position
  <2> QED
    BY <2>4, <2>5 DEF ItemFollows
<1>16. IInv'
  BY <1>7, <1>11, <1>12, <1>13, <1>14 DEF IInv, LedgerTells
<1>17. item'.quantity = NetQuantity(ledger')
  BY <1>13 DEF Tells
<1> QED
  BY <1>1, <1>2, <1>3, <1>6, <1>15, <1>16, <1>17

-----------------------------------------------------------------------------
(* One lemma per request.                                                  *)

LEMMA RowsKeptFacts ==
    ASSUME IInv, NEW rows \in Seq(Row), Len(ledger) <= Len(rows),
           \A i \in DOMAIN rows : i \in DOMAIN ledger' /\ SameTerms(ledger'[i], rows[i]),
           \A i \in DOMAIN ledger :
              /\ \A c \in {"side", "type", "quantity", "key"} : rows[i][c] = ledger[i][c]
              /\ ledger[i].status = "VOIDED" => rows[i] = ledger[i]
    PROVE  RowsKept
<1>1. /\ DOMAIN rows = 1..Len(rows) /\ Len(rows) \in Nat
      /\ DOMAIN ledger = 1..Len(ledger) /\ Len(ledger) \in Nat
  BY LenProperties DEF IInv, TypeOK
<1>2. ASSUME NEW i \in DOMAIN ledger
      PROVE  /\ i \in DOMAIN ledger'
             /\ \A c \in {"side", "type", "quantity", "key"} : ledger'[i][c] = ledger[i][c]
             /\ ledger[i].status = "VOIDED" =>
                   ledger'[i] = [ledger[i] EXCEPT !.sequence_number = ledger'[i].sequence_number]
  <2>1. i \in DOMAIN rows
    BY <1>1
  <2>2. i \in DOMAIN ledger' /\ SameTerms(ledger'[i], rows[i])
    BY <2>1
  <2>3. /\ ledger'[i].side = rows[i].side /\ ledger'[i].type = rows[i].type
        /\ ledger'[i].quantity = rows[i].quantity /\ ledger'[i].key = rows[i].key
    BY <2>2 DEF SameTerms
  <2>4. \A c \in {"side", "type", "quantity", "key"} : ledger'[i][c] = ledger[i][c]
    BY <2>3
  <2>5. ledger[i].status = "VOIDED" =>
           ledger'[i] = [ledger[i] EXCEPT !.sequence_number = ledger'[i].sequence_number]
    <3>1. ledger[i].status = "VOIDED" => rows[i] = ledger[i]
      OBVIOUS
    <3>2. ledger[i].status = "VOIDED" => ~IsActive(rows[i])
      BY <3>1 DEF IsActive
    <3> QED
      BY <2>2, <3>1, <3>2 DEF SameTerms
  <2> QED
    BY <2>2, <2>4, <2>5
<1> QED
  BY <1>2 DEF RowsKept

LEMMA NewRowType ==
    ASSUME NEW side \in {"BUY", "SELL"},
           NEW type \in {"OPENING_BALANCE", "NORMAL", "HISTORICAL_IMPORT"},
           NEW at \in Int, NEW q \in Nat \ {0}, NEW p \in Nat \ {0},
           NEW key \in Keys \cup {NoKey}
    PROVE  /\ NewRow(side, type, at, q, p, key) \in Row
           /\ IsActive(NewRow(side, type, at, q, p, key))
           /\ NewRow(side, type, at, q, p, key).side = side
           /\ NewRow(side, type, at, q, p, key).key = key
BY DEF NewRow, Row, Status, IsActive

LEMMA OpenedFacts ==
    ASSUME IInv, MayTrade(item, ledger), NEW at \in Int
    PROVE  /\ NetQuantity(Opened(item, ledger, at)) =
                  IF ledger = <<>> THEN item.quantity ELSE NetQuantity(ledger)
           /\ \A i \in DOMAIN Opened(item, ledger, at) \ DOMAIN ledger :
                 /\ IsActive(Opened(item, ledger, at)[i])
                 /\ Opened(item, ledger, at)[i].side = "BUY"
           /\ Opened(item, ledger, at) \in Seq(Row) /\ Len(ledger) <= Len(Opened(item, ledger, at))
           /\ VoidedSellsHaveAverage(Opened(item, ledger, at))
           /\ \A i \in DOMAIN ledger : Opened(item, ledger, at)[i] = ledger[i]
<1>1. ledger \in Seq(Row) /\ item \in Item /\ Len(ledger) \in Nat
  BY LenProperties DEF IInv, TypeOK
<1>2. CASE ~NeedsOpening(item, ledger)
  <2>1. Opened(item, ledger, at) = ledger
    BY <1>2 DEF Opened
  <2>2. ledger = <<>> => NetQuantity(ledger) = item.quantity
    <3>1. ledger = <<>> => item.quantity = 0
      BY <1>1, <1>2 DEF NeedsOpening, Item
    <3> QED
      BY <3>1, NetQuantityOfNothing
  <2> QED
    BY <1>1, <2>1, <2>2 DEF IInv, SellsHaveAverage, VoidedSellsHaveAverage
<1>3. CASE NeedsOpening(item, ledger)
  <2> DEFINE t == IF at - 1 < 1 THEN at - 1 ELSE 1
             row == NewRow("BUY", "OPENING_BALANCE", t, item.quantity, item.average, NoKey)
  <2>1. item.quantity \in Nat \ {0} /\ item.average \in Nat \ {0}
    BY <1>1, <1>3 DEF MayTrade, NeedsOpening, Item
  <2>2. row \in Row /\ IsActive(row)
    <3>1. t \in Int /\ NoKey \in Keys \cup {NoKey}
      OBVIOUS
    <3> QED
      BY <2>1, <3>1, NewRowType
  <2>3. OpeningBalance(item, at) = [row EXCEPT !.quantity_after = item.quantity,
                                         !.average_after = item.average]
    BY DEF OpeningBalance
  <2> HIDE DEF row
  <2>4. OpeningBalance(item, at) \in Row /\ IsActive(OpeningBalance(item, at))
    BY <2>1, <2>2, <2>3 DEF Row, IsActive
  <2>5. Opened(item, ledger, at) = <<OpeningBalance(item, at)>>
    BY <1>3 DEF Opened
  <2>6. ledger = <<>>
    BY <1>3 DEF NeedsOpening
  <2> HIDE DEF row, t
  <2>7. /\ OpeningBalance(item, at).side = "BUY"
        /\ OpeningBalance(item, at).quantity = item.quantity
    BY DEF OpeningBalance, NewRow
  <2>8. NetQuantity(<<OpeningBalance(item, at)>>) = item.quantity
    <3>1. <<OpeningBalance(item, at)>> = Append(<<>>, OpeningBalance(item, at))
      BY <2>4
    <3>2. Contribution(OpeningBalance(item, at)) = item.quantity
      BY <2>4, <2>7 DEF Contribution, Signed
    <3>3. NetQuantity(<<OpeningBalance(item, at)>>)
            = NetQuantity(<<>>) + Contribution(OpeningBalance(item, at))
      <4>1. <<>> \in Seq(Row)
        OBVIOUS
      <4> QED
        BY <2>4, <3>1, <4>1, NetQuantityAppend
    <3> QED
      BY <2>1, <3>2, <3>3, NetQuantityOfNothing
  <2> HIDE DEF row, t
  <2>9. Len(ledger) = 0
    BY <2>6
  <2> QED
    BY <2>4, <2>5, <2>6, <2>7, <2>8, <2>9 DEF VoidedSellsHaveAverage
<1> QED
  BY <1>2, <1>3

LEMMA CreateFacts ==
    ASSUME IInv, MayTrade(item, ledger), now' = now, NEW at \in Times,
           NEW side \in {"BUY", "SELL"}, NEW q \in Quantities, NEW p \in Prices,
           NEW key \in Keys \cup {NoKey}, NEW new,
           new = IF side = "SELL" THEN {Len(Opened(item, ledger, at)) + 1} ELSE {},
           LET run == Replay(Append(Opened(item, ledger, at), NewRow(side, "NORMAL", at, q, p, key)))
           IN  Commit(run) /\ sales' = WithSales(run.ledger, new)
    PROVE  IInv' /\ StepKept
<1> DEFINE row == NewRow(side, "NORMAL", at, q, p, key)
           rows == Append(Opened(item, ledger, at), row)
<1>1. /\ row \in Row /\ IsActive(row) /\ row.side = side
  BY LedgerAssumption, NewRowType DEF Times
<1>2. at \in Int
  BY DEF Times
<1>3. /\ Opened(item, ledger, at) \in Seq(Row) /\ Len(ledger) <= Len(Opened(item, ledger, at))
      /\ VoidedSellsHaveAverage(Opened(item, ledger, at))
      /\ \A i \in DOMAIN ledger : Opened(item, ledger, at)[i] = ledger[i]
      /\ \A i \in DOMAIN Opened(item, ledger, at) \ DOMAIN ledger :
            /\ IsActive(Opened(item, ledger, at)[i])
            /\ Opened(item, ledger, at)[i].side = "BUY"
      /\ ledger = <<>> => NetQuantity(Opened(item, ledger, at)) = item.quantity
  BY <1>2, OpenedFacts
<1>4. Commit(Replay(rows)) /\ sales' = WithSales(Replay(rows).ledger, new)
  OBVIOUS
<1> HIDE DEF row
<1>5. /\ rows \in Seq(Row) /\ Len(rows) = Len(Opened(item, ledger, at)) + 1
      /\ rows[Len(rows)] = row
      /\ \A i \in 1..Len(Opened(item, ledger, at)) : rows[i] = Opened(item, ledger, at)[i]
      /\ NetQuantity(rows) = NetQuantity(Opened(item, ledger, at)) + Contribution(row)
  BY <1>1, <1>3, AppendProperties, NetQuantityAppend
<1>6. /\ DOMAIN rows = 1..Len(rows) /\ DOMAIN Opened(item, ledger, at) = 1..Len(Opened(item, ledger, at))
      /\ DOMAIN ledger = 1..Len(ledger) /\ Len(Opened(item, ledger, at)) \in Nat /\ Len(ledger) \in Nat
  BY <1>3, <1>5, LenProperties DEF IInv, TypeOK
<1> HIDE DEF rows
<1>7. VoidedSellsHaveAverage(rows)
  BY <1>1, <1>3, <1>5, <1>6 DEF VoidedSellsHaveAverage
<1>8. new \in SUBSET DOMAIN rows /\ (\A i \in new : rows[i].side = "SELL")
      /\ AddsSells(rows, new)
  <2>1. new \in SUBSET DOMAIN rows /\ \A i \in new : rows[i].side = "SELL"
    BY <1>1, <1>5, <1>6
  <2>2. \A i \in DOMAIN ledger : rows[i].side = ledger[i].side
    BY <1>3, <1>5, <1>6
  <2>3. ASSUME NEW i \in DOMAIN rows \ DOMAIN ledger
        PROVE  IsActive(rows[i]) /\ (rows[i].side = "SELL" => i \in new)
    <3>1. CASE i = Len(rows)
      BY <1>1, <1>5, <3>1
    <3>2. CASE i # Len(rows)
      <4>1. i \in 1..Len(Opened(item, ledger, at))
        BY <1>5, <1>6, <3>2
      <4> QED
        BY <1>3, <1>5, <1>6, <4>1
    <3> QED
      BY <3>1, <3>2
  <2> QED
    BY <2>1, <2>2, <2>3 DEF AddsSells
<1>9. /\ Commit(ReplayIn(rows, rows))
      /\ sales' = WithSales(ReplayIn(rows, rows).ledger, new)
  BY <1>4 DEF Replay
<1>10. Len(ledger) <= Len(rows)
  BY <1>3, <1>5, <1>6
<1>11. /\ IInv' /\ ItemFollows
       /\ ledger' \in Seq(Row) /\ Len(ledger') = Len(rows)
       /\ item'.quantity = NetQuantity(ledger')
       /\ \A i \in DOMAIN rows : i \in DOMAIN ledger' /\ SameTerms(ledger'[i], rows[i])
  BY <1>5, <1>7, <1>8, <1>9, <1>10, CommitFacts
<1>12. \A i \in DOMAIN ledger : rows[i] = ledger[i]
  BY <1>3, <1>5, <1>6
<1>13. RowsKept
  BY <1>5, <1>10, <1>11, <1>12, RowsKeptFacts
<1>14. SnapshotKept
  <2>1. SUFFICES ASSUME ledger = <<>>
                 PROVE  item'.quantity = item.quantity + Signed(ledger'[Len(ledger')])
    BY DEF SnapshotKept
  <2>2. NetQuantity(ledger') = NetQuantity(rows)
    BY <1>5, <1>6, <1>11, SameNetQuantity
  <2>3. SameTerms(ledger'[Len(ledger')], row)
    BY <1>5, <1>6, <1>11
  <2>4. Contribution(row) = Signed(ledger'[Len(ledger')])
    BY <1>1, <2>3 DEF SameTerms, Contribution, Signed
  <2> QED
    BY <1>3, <1>5, <1>11, <2>1, <2>2, <2>4
<1> QED
  BY <1>11, <1>13, <1>14 DEF StepKept

LEMMA SyncedIsWithSales ==
    ASSUME NEW r
    PROVE  Synced(r) = WithSales(r, {})
BY DEF Synced, WithSales

LEMMA BuyFacts ==
    ASSUME IInv, NEW at \in Times, NEW q \in Quantities, NEW p \in Prices,
           NEW key \in Keys \cup {NoKey}, CreateBuy(at, q, p, key)
    PROVE  IInv' /\ StepKept
<1> DEFINE rows == Append(Opened(item, ledger, at), NewRow("BUY", "NORMAL", at, q, p, key))
<1>1. /\ MayTrade(item, ledger) /\ now' = now /\ Commit(Replay(rows))
      /\ sales' = Synced(Replay(rows).ledger)
  BY DEF CreateBuy
<1>2. sales' = WithSales(Replay(rows).ledger, {})
  BY <1>1, SyncedIsWithSales
<1> QED
  BY <1>1, <1>2, CreateFacts

LEMMA SellFacts ==
    ASSUME IInv, NEW at \in Times, NEW q \in Quantities, NEW p \in Prices,
           NEW key \in Keys \cup {NoKey}, CreateSell(at, q, p, key)
    PROVE  IInv' /\ StepKept
<1> DEFINE rows == Append(Opened(item, ledger, at), NewRow("SELL", "NORMAL", at, q, p, key))
<1>1. /\ MayTrade(item, ledger) /\ now' = now /\ Commit(Replay(rows))
      /\ sales' = WithSales(Replay(rows).ledger, {Len(rows)})
  BY DEF CreateSell
<1>2. Len(rows) = Len(Opened(item, ledger, at)) + 1
  <2>1. at \in Int
    BY DEF Times
  <2>2. Opened(item, ledger, at) \in Seq(Row)
    BY <1>1, <2>1, OpenedFacts
  <2>3. NewRow("SELL", "NORMAL", at, q, p, key) \in Row
    BY <2>1, LedgerAssumption, NewRowType
  <2> QED
    BY <2>2, <2>3, AppendProperties
<1> QED
  BY <1>1, <1>2, CreateFacts

\* A request that leaves the ledger alone.
LEMMA SameLedgerKept ==
    ASSUME TypeOK, ledger' = ledger
    PROVE  StepKept
<1>1. \A i \in DOMAIN ledger : ledger[i] \in Row
  BY LenProperties, ElementOfSeq DEF TypeOK
<1>2. \A i \in DOMAIN ledger :
         ledger[i] = [ledger[i] EXCEPT !.sequence_number = ledger[i].sequence_number]
  BY <1>1 DEF Row
<1>3. RowsKept
  BY <1>2 DEF RowsKept
<1> QED
  BY <1>3 DEF StepKept, ItemFollows, SnapshotKept

LEMMA RepeatFacts ==
    ASSUME IInv, NEW key \in Keys, RepeatSell(key)
    PROVE  IInv' /\ StepKept
<1> DEFINE i == RowOfKey(ledger, key)
           L == Len(ledger)
<1>1. /\ ledger' = ledger /\ item' = item /\ now' = now
      /\ sales' = WithSales(ledger, {i})
      /\ i \notin DOMAIN sales => ledger[i].average_before > 0
      /\ HasKey(ledger, key)
  BY DEF RepeatSell
<1>2. ledger \in Rows(L) /\ L \in Nat /\ DOMAIN ledger = 1..L
  BY LenProperties DEF IInv, TypeOK, Rows
<1>3. i \in 1..L
  BY <1>1, <1>2 DEF HasKey, RowOfKey
<1> HIDE DEF i
<1>4. /\ DOMAIN sales' \subseteq 1..L
      /\ \A j \in DOMAIN sales' : sales'[j] \in Sale
  <2>1. TypeOK /\ DOMAIN sales \subseteq 1..L /\ {i} \in SUBSET (1..L)
        /\ (\A j \in 1..L : SellHasAverage(ledger[j]))
        /\ (\A j \in {i} \ DOMAIN sales : ledger[j].average_before > 0)
    BY <1>1, <1>2, <1>3 DEF IInv, TypeOK, SellsHaveAverage
  <2>2. /\ DOMAIN WithSales(ledger, {i}) \subseteq 1..L
        /\ \A j \in DOMAIN WithSales(ledger, {i}) : WithSales(ledger, {i})[j] \in Sale
    BY <1>2, <2>1, WithSalesType
  <2> QED
    BY <1>1, <2>2
<1>5. SalesMirrorSells'
  <2>1. ASSUME NEW j \in DOMAIN ledger, ledger[j].side = "SELL"
        PROVE  j \in DOMAIN sales' /\ sales'[j] = SaleOf(ledger[j])
    <3>1. j \in DOMAIN sales
      BY <2>1 DEF IInv, SalesMirrorSells
    <3> QED
      BY <1>1, <2>1, <3>1 DEF WithSales, Synced
  <2> QED
    BY <1>1, <2>1 DEF SalesMirrorSells
<1>6. IInv'
  BY <1>1, <1>2, <1>4, <1>5 DEF IInv, TypeOK, SellsHaveAverage, LedgerTells, HoldingHasAverage
<1> QED
  BY <1>1, <1>6, SameLedgerKept DEF IInv

\* A correction or a void of one active row.
LEMMA RewriteFacts ==
    ASSUME IInv, now' = now, NEW i \in DOMAIN ledger, ledger[i].status = "ACTIVE",
           NEW row \in Row, row.average_before = ledger[i].average_before,
           row.side = ledger[i].side, row.type = ledger[i].type,
           row.quantity = ledger[i].quantity, row.key = ledger[i].key,
           NEW stored \in Seq(Row), Len(stored) = Len(ledger),
           Commit(ReplayIn(stored, [ledger EXCEPT ![i] = row])),
           sales' = Synced(ReplayIn(stored, [ledger EXCEPT ![i] = row]).ledger)
    PROVE  IInv' /\ StepKept
<1> DEFINE L == Len(ledger)
           rows == [ledger EXCEPT ![i] = row]
<1>1. ledger \in Rows(L) /\ L \in Nat /\ DOMAIN ledger = 1..L
  BY LenProperties DEF IInv, TypeOK, Rows
<1>2. /\ rows \in Rows(L) /\ rows[i] = row
      /\ \A j \in 1..L : j # i => rows[j] = ledger[j]
  BY <1>1, RowsExcept
<1>3. Commit(ReplayIn(stored, rows)) /\ sales' = WithSales(ReplayIn(stored, rows).ledger, {})
  BY SyncedIsWithSales
<1> HIDE DEF rows
<1>4. rows \in Seq(Row) /\ Len(rows) = L /\ DOMAIN rows = 1..L
  BY <1>1, <1>2, RowInRows
<1>5. VoidedSellsHaveAverage(rows)
  <2>1. \A j \in DOMAIN ledger : SellHasAverage(ledger[j])
    BY DEF IInv, SellsHaveAverage
  <2>2. SellHasAverage(row)
    BY <2>1 DEF SellHasAverage
  <2>3. \A j \in 1..L : SellHasAverage(rows[j])
    BY <1>1, <1>2, <2>1, <2>2
  <2> QED
    BY <1>4, <2>3 DEF VoidedSellsHaveAverage
<1>6. /\ IInv' /\ ItemFollows
      /\ \A j \in DOMAIN rows : j \in DOMAIN ledger' /\ SameTerms(ledger'[j], rows[j])
  <2>1. Len(ledger) <= Len(rows) /\ Len(stored) = Len(rows) /\ {} \in SUBSET DOMAIN rows
    BY <1>1, <1>4
  <2>2. AddsSells(rows, {})
    BY <1>1, <1>2, <1>4 DEF AddsSells
  <2> QED
    BY <1>3, <1>4, <1>5, <2>1, <2>2, CommitFacts
<1>7. \A j \in DOMAIN ledger :
         /\ \A c \in {"side", "type", "quantity", "key"} : rows[j][c] = ledger[j][c]
         /\ ledger[j].status = "VOIDED" => rows[j] = ledger[j]
  BY <1>1, <1>2
<1>8. Len(ledger) <= Len(rows)
  BY <1>1, <1>4
<1>9. RowsKept
  BY <1>4, <1>6, <1>7, <1>8, RowsKeptFacts
<1>10. SnapshotKept
  <2>1. ledger # <<>>
    OBVIOUS
  <2> QED
    BY <2>1 DEF SnapshotKept
<1> QED
  BY <1>6, <1>9, <1>10 DEF StepKept

LEMMA UpdateFacts ==
    ASSUME IInv, NEW i \in DOMAIN ledger, NEW at \in Times, NEW p \in Prices,
           UpdateTransaction(i, at, p)
    PROVE  IInv' /\ StepKept
<1> DEFINE row == [ledger[i] EXCEPT !.traded_at = at, !.unit_price = p]
           rows == [ledger EXCEPT ![i] = row]
<1>1. ledger \in Seq(Row) /\ ledger[i] \in Row
  BY LenProperties, ElementOfSeq DEF IInv, TypeOK
<1>2. /\ row \in Row /\ row.average_before = ledger[i].average_before
      /\ row.side = ledger[i].side /\ row.type = ledger[i].type
      /\ row.quantity = ledger[i].quantity /\ row.key = ledger[i].key
  <2>1. at \in Int /\ p \in Nat \ {0}
    BY LedgerAssumption DEF Times
  <2> QED
    BY <1>1, <2>1 DEF Row
<1>3. [ledger EXCEPT ![i].traded_at = at, ![i].unit_price = p] = rows
  BY <1>1 DEF Row
<1>4. /\ ledger[i].status = "ACTIVE" /\ now' = now
      /\ Commit(ReplayIn(ledger, rows)) /\ sales' = Synced(ReplayIn(ledger, rows).ledger)
  <2> HIDE DEF rows
  <2> QED
    BY <1>3 DEF UpdateTransaction
<1> HIDE DEF row
<1> QED
  BY <1>1, <1>2, <1>4, RewriteFacts

LEMMA VoidFacts ==
    ASSUME IInv, NEW i \in DOMAIN ledger, VoidTransaction(i)
    PROVE  IInv' /\ StepKept
<1> DEFINE row == [ledger[i] EXCEPT !.status = "VOIDED"]
           rows == [ledger EXCEPT ![i] = row]
<1>1. ledger \in Seq(Row) /\ ledger[i] \in Row
  BY LenProperties, ElementOfSeq DEF IInv, TypeOK
<1>2. /\ row \in Row /\ row.average_before = ledger[i].average_before
      /\ row.side = ledger[i].side /\ row.type = ledger[i].type
      /\ row.quantity = ledger[i].quantity /\ row.key = ledger[i].key
  BY <1>1 DEF Row, Status
<1>3. /\ ledger[i].status = "ACTIVE" /\ now' = now
      /\ Commit(ReplayIn(rows, rows)) /\ sales' = Synced(ReplayIn(rows, rows).ledger)
  BY DEF VoidTransaction, Replay
<1>4. rows \in Seq(Row) /\ Len(rows) = Len(ledger)
  <2>1. ledger \in Rows(Len(ledger)) /\ Len(ledger) \in Nat /\ i \in 1..Len(ledger)
    BY <1>1, LenProperties DEF Rows
  <2> HIDE DEF row
  <2>2. rows \in Rows(Len(ledger))
    BY <1>2, <2>1, RowsExcept
  <2> QED
    BY <2>2 DEF Rows
<1> HIDE DEF row
<1> QED
  BY <1>2, <1>3, <1>4, RewriteFacts

-----------------------------------------------------------------------------
(* The historical import, an induction on the entries of the request.      *)

LEMMA ImportRuns ==
    ASSUME NEW entries, NEW L \in Nat
    PROVE  \E rows : rows = [n \in 0..L |-> IF n = 0 THEN ledger
                                            ELSE ImportEntry(rows[n - 1], entries[n])]
<1> DEFINE Good(m, rows) == rows = [n \in 0..m |-> IF n = 0 THEN ledger
                                                  ELSE ImportEntry(rows[n - 1], entries[n])]
           Done == {m \in 0..L : \E rows : Good(m, rows)}
<1>1. 0 \in Done
  <2> DEFINE zero == [n \in 0..0 |-> ledger]
  <2>1. zero = [n \in 0..0 |-> IF n = 0 THEN ledger ELSE ImportEntry(zero[n - 1], entries[n])]
    OBVIOUS
  <2>2. \E rows : Good(0, rows)
    BY <2>1
  <2> HIDE DEF Good
  <2> QED
    BY <2>2
<1>2. ASSUME NEW m \in 0..L, m < L, m \in Done
      PROVE  m + 1 \in Done
  <2>1. PICK f : Good(m, f)
    BY <1>2
  <2> DEFINE g == [n \in 0..(m + 1) |->
                     IF n = m + 1 THEN ImportEntry(f[m], entries[m + 1]) ELSE f[n]]
  <2>2. ASSUME NEW n \in 0..(m + 1)
        PROVE  g[n] = IF n = 0 THEN ledger ELSE ImportEntry(g[n - 1], entries[n])
    <3>1. CASE n = m + 1
      <4>1. n - 1 = m /\ n # 0 /\ m \in 0..(m + 1) /\ m # m + 1
        BY <3>1
      <4>2. g[n - 1] = f[m]
        BY <4>1
      <4> QED
        BY <3>1, <4>1, <4>2
    <3>2. CASE n = 0
      <4>1. n # m + 1 /\ n \in 0..m
        BY <3>2
      <4> QED
        BY <3>2, <4>1, <2>1
    <3>3. CASE n # 0 /\ n # m + 1
      <4>1. n \in 0..m /\ n - 1 \in 0..(m + 1) /\ n - 1 # m + 1
        BY <3>3
      <4>2. g[n] = f[n] /\ g[n - 1] = f[n - 1]
        BY <3>3, <4>1
      <4>3. f[n] = ImportEntry(f[n - 1], entries[n])
        BY <2>1, <3>3, <4>1
      <4> QED
        BY <3>3, <4>2, <4>3
    <3> QED
      BY <3>1, <3>2, <3>3
  <2>3. Good(m + 1, g)
    <3>1. DOMAIN g = 0..(m + 1) /\ g = [n \in 0..(m + 1) |-> g[n]]
      OBVIOUS
    <3> HIDE DEF g
    <3> QED
      BY <2>2, <3>1
  <2>4. \E rows : Good(m + 1, rows)
    BY <2>3
  <2> HIDE DEF Good
  <2> QED
    BY <1>2, <2>4
<1>3. L \in Done
  <2> HIDE DEF Done
  <2>1. \A m \in 0..L : m \in Done
    BY <1>1, <1>2, NatSetInduction
  <2> QED
    BY <2>1
<1> QED
  BY <1>3

\* What holds of the rows after n entries of an import.
ImportInv(entries, n, rows) ==
    /\ rows \in Seq(Row) /\ Len(ledger) <= Len(rows)
    /\ \A i \in DOMAIN ledger : rows[i] = ledger[i]
    /\ VoidedSellsHaveAverage(rows)
    /\ \A i \in DOMAIN rows \ DOMAIN ledger :
          IsActive(rows[i]) /\ rows[i].type = "HISTORICAL_IMPORT"
    /\ \A e \in 1..n : entries[e].key # NoKey =>
          \E i \in DOMAIN rows : rows[i].key = entries[e].key

LEMMA ImportedRowType ==
    ASSUME NEW entry \in Entries
    PROVE  LET row == NewRow(entry.side, "HISTORICAL_IMPORT", entry.at,
                             entry.quantity, entry.price, entry.key)
           IN  /\ row \in Row /\ IsActive(row) /\ row.key = entry.key
               /\ row.type = "HISTORICAL_IMPORT"
<1>1. /\ entry.side \in {"BUY", "SELL"} /\ entry.at \in Times
      /\ entry.quantity \in Quantities /\ entry.price \in Prices
      /\ entry.key \in Keys \cup {NoKey}
  BY DEF Entries
<1>2. entry.at \in Int
  BY <1>1 DEF Times
<1>3. entry.quantity \in Nat \ {0} /\ entry.price \in Nat \ {0}
  BY <1>1, LedgerAssumption, Zenon
<1> QED
  BY <1>1, <1>2, <1>3 DEF NewRow, Row, Status, IsActive

LEMMA ImportEntryFacts ==
    ASSUME NEW L \in Nat, NEW entries \in [1..L -> Entries], NEW n \in 0..L, n < L,
           ledger \in Seq(Row), NEW rows, ImportInv(entries, n, rows)
    PROVE  ImportInv(entries, n + 1, ImportEntry(rows, entries[n + 1]))
<1> DEFINE entry == entries[n + 1]
           row == NewRow(entry.side, "HISTORICAL_IMPORT", entry.at,
                         entry.quantity, entry.price, entry.key)
           out == ImportEntry(rows, entry)
<1>1. /\ rows \in Seq(Row) /\ Len(ledger) <= Len(rows)
      /\ \A i \in DOMAIN ledger : rows[i] = ledger[i]
      /\ VoidedSellsHaveAverage(rows)
      /\ \A i \in DOMAIN rows \ DOMAIN ledger :
            IsActive(rows[i]) /\ rows[i].type = "HISTORICAL_IMPORT"
      /\ \A e \in 1..n : entries[e].key # NoKey =>
            \E i \in DOMAIN rows : rows[i].key = entries[e].key
  BY DEF ImportInv
<1>2. \A e \in 1..(n + 1) : e = n + 1 \/ e \in 1..n
  OBVIOUS
<1>3. CASE HasKey(rows, entry.key)
  <2>1. out = rows
    BY <1>3 DEF ImportEntry
  <2>2. \A e \in 1..(n + 1) : entries[e].key # NoKey =>
            \E i \in DOMAIN rows : rows[i].key = entries[e].key
    BY <1>1, <1>2, <1>3 DEF HasKey
  <2> HIDE DEF out
  <2>3. ImportInv(entries, n + 1, out)
    BY <1>1, <2>1, <2>2 DEF ImportInv
  <2> QED
    BY <2>3 DEF out
<1>4. CASE ~HasKey(rows, entry.key)
  <2>1. out = Append(rows, row)
    BY <1>4 DEF ImportEntry
  <2>2. entry \in Entries
    <3>1. n + 1 \in 1..L
      OBVIOUS
    <3> QED
      BY <3>1
  <2>3. /\ row \in Row /\ IsActive(row) /\ row.key = entry.key
        /\ row.type = "HISTORICAL_IMPORT"
    BY <2>2, ImportedRowType
  <2> HIDE DEF row, out
  <2>4. /\ out \in Seq(Row) /\ Len(out) = Len(rows) + 1 /\ out[Len(out)] = row
        /\ \A i \in 1..Len(rows) : out[i] = rows[i]
    BY <1>1, <2>1, <2>3, AppendProperties
  <2>5. /\ DOMAIN out = 1..Len(out) /\ DOMAIN rows = 1..Len(rows)
        /\ DOMAIN ledger = 1..Len(ledger) /\ Len(rows) \in Nat /\ Len(ledger) \in Nat
    BY <1>1, <2>4, LenProperties
  <2>6. VoidedSellsHaveAverage(out)
    BY <1>1, <2>3, <2>4, <2>5 DEF VoidedSellsHaveAverage
  <2>7. \A i \in DOMAIN ledger : out[i] = ledger[i]
    BY <1>1, <2>4, <2>5
  <2>8. \A e \in 1..(n + 1) : entries[e].key # NoKey =>
            \E i \in DOMAIN out : out[i].key = entries[e].key
    <3> TAKE e \in 1..(n + 1)
    <3>1. CASE e = n + 1
      <4>1. Len(out) \in DOMAIN out
        BY <2>4, <2>5
      <4> QED
        BY <2>3, <2>4, <3>1, <4>1
    <3>2. CASE e \in 1..n
      <4>1. \A i \in DOMAIN rows : i \in DOMAIN out /\ out[i] = rows[i]
        BY <2>4, <2>5
      <4> QED
        BY <1>1, <3>2, <4>1
    <3> QED
      BY <1>2, <3>1, <3>2
  <2>9. Len(ledger) <= Len(out)
    BY <1>1, <2>4, <2>5
  <2>10. \A i \in DOMAIN out \ DOMAIN ledger :
             IsActive(out[i]) /\ out[i].type = "HISTORICAL_IMPORT"
    <3> TAKE i \in DOMAIN out \ DOMAIN ledger
    <3>1. CASE i = Len(out)
      BY <2>3, <2>4, <3>1
    <3>2. CASE i # Len(out)
      <4>1. i \in DOMAIN rows \ DOMAIN ledger
        BY <2>4, <2>5, <3>2
      <4>2. out[i] = rows[i]
        BY <2>4, <2>5, <4>1
      <4> QED
        BY <1>1, <4>1, <4>2
    <3> QED
      BY <3>1, <3>2
  <2>11. ImportInv(entries, n + 1, out)
    BY <2>4, <2>6, <2>7, <2>8, <2>9, <2>10 DEF ImportInv
  <2> QED
    BY <2>11 DEF out
<1> QED
  BY <1>3, <1>4

LEMMA WithImportedFacts ==
    ASSUME IInv, NEW L \in Nat, NEW entries \in [1..L -> Entries]
    PROVE  ImportInv(entries, L, WithImported(entries)) /\ Len(entries) = L
<1> DEFINE f == CHOOSE rows : rows = [n \in 0..L |-> IF n = 0 THEN ledger
                                        ELSE ImportEntry(rows[n - 1], entries[n])]
           Done == {n \in 0..L : ImportInv(entries, n, f[n])}
<1>1. Len(entries) = L
  <2>1. entries \in Seq(Entries)
    BY SeqDef
  <2> QED
    BY <2>1, LenProperties
<1>2. WithImported(entries) = f[L]
  BY <1>1 DEF WithImported
<1>3. f = [n \in 0..L |-> IF n = 0 THEN ledger ELSE ImportEntry(f[n - 1], entries[n])]
  BY ImportRuns
<1> HIDE DEF f
<1>4. ledger \in Seq(Row) /\ Len(ledger) \in Nat
  BY LenProperties DEF IInv, TypeOK
<1>5. 0 \in Done
  <2>1. f[0] = ledger
    BY <1>3
  <2>2. VoidedSellsHaveAverage(ledger)
    BY DEF IInv, SellsHaveAverage, VoidedSellsHaveAverage
  <2>3. ImportInv(entries, 0, ledger)
    BY <1>4, <2>2 DEF ImportInv
  <2> QED
    BY <2>1, <2>3
<1>6. ASSUME NEW n \in 0..L, n < L, n \in Done
      PROVE  n + 1 \in Done
  <2>1. n + 1 \in 0..L /\ n + 1 # 0 /\ (n + 1) - 1 = n
    BY <1>6
  <2>2. f[n + 1] = ImportEntry(f[n], entries[n + 1])
    BY <1>3, <2>1
  <2>3. ImportInv(entries, n + 1, ImportEntry(f[n], entries[n + 1]))
    BY <1>4, <1>6, ImportEntryFacts
  <2> QED
    BY <2>1, <2>2, <2>3
<1>7. \A n \in 0..L : n \in Done
  <2> HIDE DEF Done
  <2> QED
    BY <1>5, <1>6, NatSetInduction
<1> QED
  BY <1>1, <1>2, <1>7

LEMMA ImportFacts ==
    ASSUME IInv, NEW L \in Nat, NEW entries \in [1..L -> Entries],
           HistoricalImport(entries)
    PROVE  IInv' /\ StepKept
<1> DEFINE rows == WithImported(entries)
           newSells == {i \in Imported(rows, entries) : rows[i].side = "SELL"}
<1>1. /\ now' = now /\ Commit(ReplayIn(rows, rows))
      /\ sales' = WithSales(ReplayIn(rows, rows).ledger, newSells)
  BY DEF HistoricalImport, Replay
<1>2. ImportInv(entries, L, rows) /\ Len(entries) = L
  BY WithImportedFacts
<1>3. DOMAIN entries = 1..L
  OBVIOUS
<1> HIDE DEF rows
<1>4. /\ rows \in Seq(Row) /\ Len(ledger) <= Len(rows)
      /\ \A i \in DOMAIN ledger : rows[i] = ledger[i]
      /\ VoidedSellsHaveAverage(rows)
      /\ \A i \in DOMAIN rows \ DOMAIN ledger :
            IsActive(rows[i]) /\ rows[i].type = "HISTORICAL_IMPORT"
  BY <1>2 DEF ImportInv
<1>5. Imported(rows, entries) \subseteq DOMAIN rows
  <2>1. ASSUME NEW k \in {entries[e].key : e \in DOMAIN entries} \ {NoKey}
        PROVE  RowOfKey(rows, k) \in DOMAIN rows
    <3>1. \E i \in DOMAIN rows : rows[i].key = k
      BY <1>2, <1>3, <2>1 DEF ImportInv
    <3> QED
      BY <3>1 DEF RowOfKey
  <2> QED
    BY <2>1 DEF Imported
<1>6. newSells \in SUBSET DOMAIN rows /\ (\A i \in newSells : rows[i].side = "SELL")
      /\ AddsSells(rows, newSells)
  <2>1. newSells \in SUBSET DOMAIN rows /\ \A i \in newSells : rows[i].side = "SELL"
    BY <1>5
  <2>2. DOMAIN rows \ DOMAIN ledger \subseteq Imported(rows, entries)
    BY DEF Imported
  <2> QED
    BY <1>4, <2>1, <2>2 DEF AddsSells
<1> HIDE DEF newSells
<1>7. /\ IInv' /\ ItemFollows
      /\ ledger' \in Seq(Row) /\ Len(ledger') = Len(rows)
      /\ \A j \in DOMAIN rows : j \in DOMAIN ledger' /\ SameTerms(ledger'[j], rows[j])
  BY <1>1, <1>4, <1>6, CommitFacts
<1>8. RowsKept
  BY <1>4, <1>7, RowsKeptFacts
<1>9. SnapshotKept
  <2>1. SUFFICES ASSUME ledger = <<>>, ledger' # <<>>
                 PROVE  ledger'[Len(ledger')].type # "NORMAL"
    BY DEF SnapshotKept
  <2>2. Len(ledger') \in DOMAIN rows \ DOMAIN ledger
    BY <1>4, <1>7, <2>1, LenProperties, EmptySeq
  <2> QED
    BY <1>4, <1>7, <2>2 DEF SameTerms
<1> QED
  BY <1>7, <1>8, <1>9 DEF StepKept

-----------------------------------------------------------------------------
(* The requests on the item, and the theorems.                             *)

LEMMA ItemFacts ==
    ASSUME IInv, ItemRequest
    PROVE  IInv' /\ UNCHANGED <<ledger, sales, now>>
<1>1. /\ item \in Item /\ item.quantity \in Nat /\ item.average \in Nat
      /\ item.tracking \in TrackingStatus /\ item.position \in PositionStatus
  BY DEF IInv, TypeOK, Item
<1>2. ASSUME NEW e \in EditOrCurrent
      PROVE  e[1] \in Nat /\ e[2] \in Nat
  <2>1. e \in Nat \X Nat
    BY <1>1, LedgerAssumption DEF EditOrCurrent
  <2> QED
    BY <2>1
<1>3. \A k \in TrackingOrCurrent : k \in TrackingStatus
  BY <1>1, LedgerAssumption DEF TrackingOrCurrent, TrackingStatus
<1>4. \A s \in Positions : s \in PositionStatus
  BY LedgerAssumption DEF PositionStatus
<1>5. \A s \in PositionStatus, k \in TrackingStatus :
         /\ HoldingOf(s, k) \in HoldingStatus
         /\ HoldingOf(s, k) = "HOLDING" => s = "HOLDING"
  BY DEF HoldingOf, HoldingStatus, PositionStatus, TrackingStatus
<1>6. UNCHANGED <<ledger, sales, now>>
  BY DEF ItemRequest, UpdateItem, EditAllowed, Edited, UpdateContext, ContextAllowed, InContext, Archive, Restore
<1>7. item' \in Item /\ HoldingHasAverage'
  <2>1. ASSUME NEW e \in EditOrCurrent, NEW k \in TrackingOrCurrent,
               NEW h \in HoldingStatus, NEW given \in BOOLEAN,
               UpdateItem(h, e[1], e[2], k, given)
        PROVE  item' \in Item /\ HoldingHasAverage'
    <3> DEFINE holding == IF given /\ item.position = "EMPTY"
                          THEN HoldingOf("EMPTY", k) ELSE h
    <3>1. item' = [item EXCEPT !.quantity = e[1], !.average = e[2],
                               !.tracking = k, !.holding = holding]
      BY <2>1 DEF UpdateItem, EditAllowed, Edited
    <3>2. holding \in HoldingStatus /\ (holding = "HOLDING" => e[1] > 0 /\ e[2] > 0)
      BY <1>3, <1>5, <2>1 DEF UpdateItem, EditAllowed, Edited, PositionStatus
    <3> HIDE DEF holding
    <3> QED
      BY <1>1, <1>2, <1>3, <3>1, <3>2 DEF Item, HoldingHasAverage
  <2>2. ASSUME NEW e \in EditOrCurrent, NEW k \in TrackingOrCurrent,
               NEW s \in Positions, UpdateContext(s, k, e[1], e[2])
        PROVE  item' \in Item /\ HoldingHasAverage'
    <3> DEFINE holding == HoldingOf(s, k)
    <3>1. item' = [item EXCEPT !.position = s, !.tracking = k,
                               !.quantity = e[1], !.average = e[2], !.holding = holding]
      BY <2>2 DEF UpdateContext, ContextAllowed, InContext
    <3>2. holding \in HoldingStatus /\ (holding = "HOLDING" => e[1] > 0 /\ e[2] > 0)
      BY <1>3, <1>4, <1>5, <2>2 DEF UpdateContext, ContextAllowed, InContext
    <3> HIDE DEF holding
    <3> QED
      BY <1>1, <1>2, <1>3, <1>4, <3>1, <3>2 DEF Item, HoldingHasAverage
  <2>3. CASE Archive
    BY <1>1, <2>3 DEF Archive, Item, IInv, HoldingHasAverage
  <2>4. CASE Restore
    BY <1>1, <2>4 DEF Restore, Item, IInv, HoldingHasAverage
  <2> QED
    BY <2>1, <2>2, <2>3, <2>4 DEF ItemRequest
<1> QED
  BY <1>6, <1>7 DEF IInv, TypeOK, SellsHaveAverage, LedgerTells, SalesMirrorSells

LEMMA InitFacts == Init => IInv
<1> SUFFICES ASSUME Init PROVE IInv
  OBVIOUS
<1>1. PICK h \in HoldingStatus, e \in Edits, k \in Trackings :
         /\ h = "HOLDING" => e[1] > 0 /\ e[2] > 0
         /\ item = NewItem(h, e[1], e[2], k)
  BY DEF Init
<1>2. e[1] \in Nat /\ e[2] \in Nat /\ k \in TrackingStatus
  <2>1. e \in Nat \X Nat
    BY LedgerAssumption
  <2> QED
    BY <2>1, LedgerAssumption DEF TrackingStatus
<1>3. item \in Item /\ item.holding = h /\ item.quantity = e[1] /\ item.average = e[2]
  BY <1>1, <1>2 DEF NewItem, Item, PositionStatus
<1>4. ledger \in Seq(Row) /\ DOMAIN ledger = {} /\ DOMAIN sales = {} /\ now \in 1..MaxTime
  BY LedgerAssumption DEF Init
<1>5. Tells(ledger, 0, 0)
  <2>1. Chained(<<>>, {}, 0) /\ Active(<<>>, {}) = {}
    BY DEF Chained, Active
  <2>2. ledger = <<>> /\ Len(<<>>) = 0 /\ DOMAIN <<>> = {}
    BY DEF Init
  <2> QED
    BY <2>1, <2>2, NetQuantityOfNothing DEF Tells, EndsWith
<1> QED
  BY <1>1, <1>3, <1>4, <1>5
  DEF IInv, TypeOK, SellsHaveAverage, LedgerTells, SalesMirrorSells, HoldingHasAverage

LEMMA StepFacts == IInv /\ [Next]_vars => IInv' /\ StepKept
<1> SUFFICES ASSUME IInv, [Next]_vars PROVE IInv' /\ StepKept
  OBVIOUS
<1>1. CASE LedgerRequest
  <2>1. ASSUME NEW at \in Times, NEW q \in Quantities, NEW p \in Prices,
               NEW k \in Keys \cup {NoKey}, CreateBuy(at, q, p, k)
        PROVE  IInv' /\ StepKept
    BY <2>1, BuyFacts
  <2>2. ASSUME NEW at \in Times, NEW q \in Quantities, NEW p \in Prices,
               NEW k \in Keys \cup {NoKey}, CreateSell(at, q, p, k)
        PROVE  IInv' /\ StepKept
    BY <2>2, SellFacts
  <2>3. ASSUME NEW k \in Keys, RepeatSell(k)
        PROVE  IInv' /\ StepKept
    BY <2>3, RepeatFacts
  <2>4. ASSUME NEW i \in DOMAIN ledger, NEW at \in Times, NEW p \in Prices,
               UpdateTransaction(i, at, p)
        PROVE  IInv' /\ StepKept
    BY <2>4, UpdateFacts
  <2>5. ASSUME NEW i \in DOMAIN ledger, VoidTransaction(i)
        PROVE  IInv' /\ StepKept
    BY <2>5, VoidFacts
  <2>6. ASSUME NEW n \in 1..MaxImport, NEW entries \in [1..n -> Entries],
               HistoricalImport(entries)
        PROVE  IInv' /\ StepKept
    <3>1. n \in Nat
      BY LedgerAssumption
    <3> QED
      BY <2>6, <3>1, ImportFacts
  <2> QED
    BY <1>1, <2>1, <2>2, <2>3, <2>4, <2>5, <2>6 DEF LedgerRequest
<1>2. CASE ItemRequest
  <2>1. IInv' /\ ledger' = ledger
    BY <1>2, ItemFacts
  <2> QED
    BY <2>1, SameLedgerKept DEF IInv
<1>3. CASE Tick
  <2>1. IInv'
    <3>1. now' \in 1..MaxTime
      BY <1>3, LedgerAssumption DEF Tick, IInv, TypeOK
    <3> QED
      BY <1>3, <3>1
      DEF Tick, IInv, TypeOK, SellsHaveAverage, LedgerTells, SalesMirrorSells, HoldingHasAverage
  <2>2. StepKept
    BY <1>3, SameLedgerKept DEF Tick, IInv
  <2> QED
    BY <2>1, <2>2
<1>4. CASE UNCHANGED vars
  <2>1. IInv'
    BY <1>4
    DEF vars, IInv, TypeOK, SellsHaveAverage, LedgerTells, SalesMirrorSells, HoldingHasAverage
  <2>2. StepKept
    BY <1>4, SameLedgerKept DEF vars, IInv
  <2> QED
    BY <2>1, <2>2
<1> QED
  BY <1>1, <1>2, <1>3, <1>4 DEF Next

LEMMA Invariance == Spec => []IInv
BY InitFacts, StepFacts, PTL DEF Spec

\* The types hold for every set of quantities and prices: no sequence of
\* requests leaves a negative quantity or a sale without an average price.
THEOREM TypeCorrect == Spec => []TypeOK
<1>1. IInv => TypeOK
  BY DEF IInv
<1> QED
  BY <1>1, Invariance, PTL

\* An item shown as held can always be valued.
THEOREM HeldItemsAreValued == Spec => []HoldingHasAverage
<1>1. IInv => HoldingHasAverage
  BY DEF IInv
<1> QED
  BY <1>1, Invariance, PTL

\* The audit trail of the ledger: rows are never removed, what a trade was is
\* never edited and a voided row is final.
THEOREM AuditTrail == Spec => VoidedIsFinal
<1>1. IInv /\ [Next]_vars => [RowsKept]_vars
  BY StepFacts DEF StepKept
<1> QED
  BY <1>1, Invariance, PTL DEF Spec, VoidedIsFinal

\* The rows of the ledger are numbered in one chain, whatever voids,
\* corrections and imports rewrote.
THEOREM RowsTellOneStory == Spec => []ChainInSequence
<1>1. IInv => ChainInSequence
  <2>1. SUFFICES ASSUME IInv PROVE ChainInSequence
    OBVIOUS
  <2>2. PICK q, a : Tells(ledger, q, a)
    BY <2>1 DEF IInv, LedgerTells
  <2>3. ledger \in Seq(Row)
    BY <2>1 DEF IInv, TypeOK
  <2>4. ActiveRows = Active(ledger, DOMAIN ledger)
    BY DEF ActiveRows, Active
  <2>5. \A i : ActiveBefore(i) = Below(ledger, DOMAIN ledger, i)
    BY <2>4 DEF ActiveBefore, Below
  <2>6. \A S : After(S) = AfterIn(ledger, S)
    BY DEF After, LastOf, AfterIn
  <2> QED
    BY <2>2, <2>3, <2>4, <2>5, <2>6, TellsFacts DEF ChainInSequence
<1> QED
  BY <1>1, Invariance, PTL

\* Nothing a request does to the ledger creates or loses quantity.
THEOREM QuantityIsConserved == Spec => []QuantityConserved
<1>1. IInv => QuantityConserved
  <2>1. SUFFICES ASSUME IInv PROVE QuantityConserved
    OBVIOUS
  <2>2. PICK q, a : Tells(ledger, q, a)
    BY <2>1 DEF IInv, LedgerTells
  <2>3. ledger \in Seq(Row)
    BY <2>1 DEF IInv, TypeOK
  <2>4. After(ActiveRows) = AfterIn(ledger, Active(ledger, DOMAIN ledger))
    BY DEF ActiveRows, Active, After, LastOf, AfterIn
  <2>5. After(ActiveRows) = <<q, a>>
    BY <2>2, <2>3, <2>4, TellsFacts
  <2>6. q = NetQuantity(ledger)
    BY <2>2 DEF Tells
  <2> QED
    BY <2>5, <2>6 DEF QuantityConserved
<1> QED
  BY <1>1, Invariance, PTL

\* However often it was rounded, an average price stays between the prices of
\* the buys it comes from.
THEOREM AveragesStayWithinPrices == Spec => []AverageWithinPrices
<1>1. IInv => AverageWithinPrices
  <2>1. SUFFICES ASSUME IInv PROVE AverageWithinPrices
    OBVIOUS
  <2>2. PICK q, a : Tells(ledger, q, a)
    BY <2>1 DEF IInv, LedgerTells
  <2>3. ledger \in Seq(Row)
    BY <2>1 DEF IInv, TypeOK
  <2>4. ActiveRows = Active(ledger, DOMAIN ledger)
    BY DEF ActiveRows, Active
  <2>5. ASSUME NEW i \in ActiveRows
        PROVE  LET buys == {j \in ActiveBefore(i) \cup {i} : ledger[j].side = "BUY"} IN
               /\ \E j \in buys : ledger[j].unit_price <= ledger[i].average_after
               /\ \E j \in buys : ledger[i].average_after <= ledger[j].unit_price
    <3>1. ActiveBefore(i) = Below(ledger, DOMAIN ledger, i)
      BY <2>4 DEF ActiveBefore, Below
    <3>2. Between(ledger, ActiveBefore(i) \cup {i}, ledger[i].average_after)
      BY <2>2, <2>3, <2>4, <3>1, TellsFacts
    <3> QED
      BY <3>2 DEF Between
  <2> QED
    BY <2>5 DEF AverageWithinPrices
<1> QED
  BY <1>1, Invariance, PTL

\* Every sell has the sale row the older screens read, equal to it column by
\* column, though the two are written by different functions.
THEOREM SalesFollowSells == Spec => []SalesMirrorSells
<1>1. IInv => SalesMirrorSells
  BY DEF IInv
<1> QED
  BY <1>1, Invariance, PTL

\* A request that touches the ledger leaves the item as the ledger ends.
THEOREM ItemIsSetByLedger == Spec => LedgerStepSetsItem
<1>1. IInv /\ [Next]_vars => [ItemFollows]_vars
  BY StepFacts DEF StepKept
<1> QED
  BY <1>1, Invariance, PTL DEF Spec, LedgerStepSetsItem, ItemFollows

\* The first trade of an item counts from the quantity it showed.
THEOREM SnapshotIsKept == Spec => FirstTradeKeepsSnapshot
<1>1. IInv /\ [Next]_vars => [SnapshotKept]_vars
  BY StepFacts DEF StepKept
<1> QED
  BY <1>1, Invariance, PTL DEF Spec, FirstTradeKeepsSnapshot, SnapshotKept
-----------------------------------------------------------------------------
(* The migration.  An item that is upgraded passed the audit, and what it  *)
(* passed is what the ledger was made of: no request is answered by the    *)
(* old program after the upgrade.                                          *)

SaleKind(sale) == sale.kind # "HISTORICAL_SALE" => (sale.kind = "FULL_SALE" <=> sale.after = 0)

Convertible == Audit /\ ~(OpeningQuantity > 0 /\ OpeningAverage = 0)

OldTables ==
    /\ owned \in OwnedItem /\ sold \in Seq(LegacySale)
    /\ \A i \in DOMAIN sold : SaleKind(sold[i])

MigrationInv ==
    /\ OldTables
    /\ upgrade.schema = "new" => Convertible /\ upgrade = Converted

LEMMA MigrationStart == MigrationInit => MigrationInv
<1> SUFFICES ASSUME MigrationInit PROVE MigrationInv
  OBVIOUS
<1> USE MigrationAssumption
<1>1. upgrade.schema # "new"
  BY DEF MigrationInit, NotUpgraded
<1>2. CASE sold = <<>> /\ owned \in [quantity : LegacyQuantities \cup {0},
                                     average : LegacyAverages,
                                     holding : HoldingStatus \ {"SOLD"}]
  <2>1. owned \in OwnedItem
    <3>1. LegacyQuantities \cup {0} \subseteq Nat /\ LegacyAverages \subseteq Nat
      OBVIOUS
    <3> QED
      BY <1>2, <3>1 DEF OwnedItem, HoldingStatus
  <2>2. sold \in Seq(LegacySale) /\ DOMAIN sold = {}
    BY <1>2
  <2> QED
    BY <1>1, <2>1, <2>2 DEF MigrationInv, OldTables
<1>3. ASSUME NEW q1 \in LegacyQuantities, NEW q2 \in LegacyQuantities, NEW t1 \in LegacyTimes,
             NEW t2 \in LegacyTimes, NEW p \in LegacyPrices, NEW a \in LegacyAverages \ {0},
             owned = [quantity |-> 0, average |-> a, holding |-> "SOLD"],
             NEW first, NEW second, sold = <<first, second>>,
             first = [kind |-> "HISTORICAL_SALE", sold_at |-> t1, quantity |-> q1, price |-> p,
                      average |-> a, before |-> q1 + q2, after |-> q2, status |-> "ACTIVE"],
             second = [kind |-> "HISTORICAL_SALE", sold_at |-> t2, quantity |-> q2, price |-> p,
                       average |-> a, before |-> q2 + 0, after |-> 0, status |-> "ACTIVE"]
      PROVE  OldTables
  <2>1. owned \in OwnedItem
    BY <1>3 DEF OwnedItem, HoldingStatus
  <2>2. q1 \in Nat /\ q2 \in Nat /\ q1 + q2 \in Nat /\ q2 + 0 \in Nat /\ a \in Nat /\ 0 \in Nat
    OBVIOUS
  <2>3. first \in LegacySale /\ second \in LegacySale
    BY <1>3, <2>2 DEF LegacySale, Status
  <2>4. first.kind = "HISTORICAL_SALE" /\ second.kind = "HISTORICAL_SALE"
    BY <1>3
  <2>5. sold \in Seq(LegacySale) /\ DOMAIN sold = 1..2 /\ sold[1] = first /\ sold[2] = second
    BY <1>3, <2>3
  <2>6. \A i \in DOMAIN sold : SaleKind(sold[i])
    BY <2>4, <2>5 DEF SaleKind
  <2> QED
    BY <2>1, <2>5, <2>6 DEF OldTables
<1>4. \/ OldTables
      \/ sold = <<>> /\ owned \in [quantity : LegacyQuantities \cup {0},
                                  average : LegacyAverages,
                                  holding : HoldingStatus \ {"SOLD"}]
  BY <1>3, Zenon DEF MigrationInit
<1> QED
  BY <1>1, <1>2, <1>4 DEF MigrationInv

\* A sale that is new, or that has been changed, is one.
LEMMA SaleIsStored ==
    ASSUME sold \in Seq(LegacySale), \A i \in DOMAIN sold : SaleKind(sold[i]),
           NEW sale, sale \in LegacySale, SaleKind(sale)
    PROVE  /\ Append(sold, sale) \in Seq(LegacySale)
           /\ \A i \in DOMAIN Append(sold, sale) : SaleKind(Append(sold, sale)[i])
           /\ \A k \in DOMAIN sold :
                 /\ [sold EXCEPT ![k] = sale] \in Seq(LegacySale)
                 /\ \A i \in DOMAIN [sold EXCEPT ![k] = sale] :
                       SaleKind([sold EXCEPT ![k] = sale][i])
<1>1. /\ Len(sold) \in Nat /\ DOMAIN sold = 1..Len(sold)
      /\ sold \in [1..Len(sold) -> LegacySale]
  BY LenProperties
<1>2. /\ Append(sold, sale) \in Seq(LegacySale) /\ Len(Append(sold, sale)) = Len(sold) + 1
      /\ \A i \in 1..Len(sold) : Append(sold, sale)[i] = sold[i]
      /\ Append(sold, sale)[Len(sold) + 1] = sale
  BY AppendProperties
<1>3. DOMAIN Append(sold, sale) = 1..(Len(sold) + 1)
  BY <1>2, LenProperties
<1>4. \A i \in 1..(Len(sold) + 1) : i \in 1..Len(sold) \/ i = Len(sold) + 1
  BY <1>1
<1>5. ASSUME NEW k \in DOMAIN sold
      PROVE  /\ [sold EXCEPT ![k] = sale] \in Seq(LegacySale)
             /\ \A i \in DOMAIN [sold EXCEPT ![k] = sale] : SaleKind([sold EXCEPT ![k] = sale][i])
  <2>1. [sold EXCEPT ![k] = sale] \in [1..Len(sold) -> LegacySale]
    BY <1>1
  <2> QED
    BY <1>1, <2>1, SeqDef
<1> QED
  BY <1>1, <1>2, <1>3, <1>4, <1>5

\* What the migration reads is not changed once it is done.
LEMMA MigrationKept ==
    ASSUME MigrationInv, UNCHANGED <<owned, sold>>,
           upgrade' = upgrade \/ upgrade'.schema # "new"
                              \/ (Convertible /\ upgrade' = Converted)
    PROVE  MigrationInv'
<1>1. Convertible' = Convertible /\ Converted' = Converted /\ OldTables' = OldTables
  <2>1. ActiveSales' = ActiveSales /\ Snapshots' = Snapshots /\ OldTables' = OldTables
    BY DEF ActiveSales, Snapshots, OldTables
  <2>2. \A i, j : SoldBefore(i, j)' = SoldBefore(i, j)
    BY DEF SoldBefore
  <2>3. \A S : SoldIn(S)' = SoldIn(S)
    BY Zenon DEF SoldIn
  <2>4. OpeningQuantity' = OpeningQuantity
    BY <2>1, <2>3, Zenon DEF OpeningQuantity
  <2>5. \A i : LeftBefore(i)' = LeftBefore(i)
    BY <2>1, <2>2, <2>3, <2>4 DEF LeftBefore
  <2>6. FirstSale' = FirstSale
    BY <2>1, <2>2 DEF FirstSale
  <2>7. OpeningAverage' = OpeningAverage
    BY <2>1, <2>6 DEF OpeningAverage
  <2>8. OpeningRow' = OpeningRow
    BY <2>1, <2>4, <2>6, <2>7 DEF OpeningRow
  <2>9. \A i : SaleRow(i)' = SaleRow(i)
    BY <2>2, <2>4, <2>5, <2>7 DEF SaleRow
  <2>10. Audit' = Audit
    BY <2>1, <2>5 DEF Audit
  <2>11. Convertible' = Convertible
    BY <2>4, <2>7, <2>10 DEF Convertible
  <2>12. Converted' = Converted
    BY <2>1, <2>4, <2>8, <2>9 DEF Converted
  <2> QED
    BY <2>1, <2>11, <2>12
<1>2. OldTables'
  BY <1>1 DEF MigrationInv
<1>3. upgrade'.schema = "new" => Convertible /\ upgrade' = Converted
  BY DEF MigrationInv
<1> QED
  BY <1>1, <1>2, <1>3 DEF MigrationInv

\* A request of the old program keeps the old tables.
LEMMA RequestKept ==
    ASSUME MigrationInv, BeforeUpgrade, OldTables'
    PROVE  MigrationInv'
BY DEF BeforeUpgrade, MigrationInv

LEMMA MigrationStep == MigrationInv /\ [MigrationNext]_migrationVars => MigrationInv'
<1> SUFFICES ASSUME MigrationInv, [MigrationNext]_migrationVars
             PROVE  MigrationInv'
  OBVIOUS
<1> USE MigrationAssumption
<1>1. /\ owned \in OwnedItem /\ sold \in Seq(LegacySale)
      /\ \A i \in DOMAIN sold : SaleKind(sold[i])
      /\ owned.quantity \in Nat /\ owned.average \in Nat
  BY DEF MigrationInv, OldTables, OwnedItem
<1>2. \A i \in DOMAIN sold : sold[i] \in LegacySale
  BY <1>1, ElementOfSeq, LenProperties
<1>3. ASSUME NEW at \in LegacyTimes, NEW q \in LegacyQuantities, NEW p \in LegacyPrices,
             Sell(at, q, p)
      PROVE  MigrationInv'
  <2> DEFINE left == owned.quantity - q
             sale == NewSale(IF left = 0 THEN "FULL_SALE" ELSE "PARTIAL_SALE",
                             at, q, p, owned.quantity, left)
  <2>1. BeforeUpgrade /\ left >= 0 /\ sold' = Append(sold, sale)
        /\ owned' = [owned EXCEPT !.quantity = left,
                                  !.holding = IF left = 0 THEN "SOLD" ELSE "HOLDING"]
    BY <1>3 DEF Sell
  <2>2. left \in Nat
    BY <1>1, <2>1
  <2> HIDE DEF left
  <2>3. sale \in LegacySale /\ SaleKind(sale)
    BY <1>1, <2>2 DEF NewSale, LegacySale, SaleKind, Status
  <2>4. owned' \in OwnedItem
    BY <1>1, <2>1, <2>2 DEF OwnedItem, HoldingStatus
  <2> HIDE DEF sale
  <2>5. OldTables'
    BY <1>1, <2>1, <2>3, <2>4, SaleIsStored DEF OldTables
  <2> QED
    BY <2>1, <2>5, RequestKept
<1>4. ASSUME NEW at \in LegacyTimes, NEW q \in LegacyQuantities, NEW p \in LegacyPrices,
             Supplement(at, q, p)
      PROVE  MigrationInv'
  <2> DEFINE sale == NewSale("HISTORICAL_SALE", at, q, p, q, 0)
  <2>1. BeforeUpgrade /\ sold' = Append(sold, sale) /\ owned' = owned
    BY <1>4 DEF Supplement
  <2>2. sale \in LegacySale /\ SaleKind(sale)
    BY <1>1 DEF NewSale, LegacySale, SaleKind, Status
  <2> HIDE DEF sale
  <2>3. OldTables'
    BY <1>1, <2>1, <2>2, SaleIsStored DEF OldTables
  <2> QED
    BY <2>1, <2>3, RequestKept
<1>5. ASSUME NEW i \in DOMAIN sold, NEW at \in LegacyTimes, NEW p \in LegacyPrices,
             AmendSale(i, at, p)
      PROVE  MigrationInv'
  <2> DEFINE sale == [sold[i] EXCEPT !.sold_at = at, !.price = p]
  <2>1. BeforeUpgrade /\ sold' = [sold EXCEPT ![i] = sale] /\ owned' = owned
    BY <1>5 DEF AmendSale
  <2>2. sale \in LegacySale /\ SaleKind(sale)
    BY <1>1, <1>2 DEF LegacySale, SaleKind
  <2> HIDE DEF sale
  <2>3. OldTables'
    BY <1>1, <2>1, <2>2, SaleIsStored DEF OldTables
  <2> QED
    BY <2>1, <2>3, RequestKept
<1>6. ASSUME NEW i \in DOMAIN sold, VoidSale(i)
      PROVE  MigrationInv'
  <2> DEFINE sale == [sold[i] EXCEPT !.status = "VOIDED"]
  <2>1. /\ BeforeUpgrade /\ sold' = [sold EXCEPT ![i] = sale]
        /\ owned' = IF i \notin Current THEN owned
                    ELSE [owned EXCEPT !.quantity = @ + sold[i].quantity, !.holding = "HOLDING"]
    BY <1>6 DEF VoidSale
  <2>2. sale \in LegacySale /\ SaleKind(sale) /\ sold[i].quantity \in Nat
    BY <1>1, <1>2 DEF LegacySale, SaleKind, Status
  <2> HIDE DEF sale
  <2>3. owned' \in OwnedItem
    <3>1. owned.quantity + sold[i].quantity \in Nat
      BY <1>1, <2>2
    <3> QED
      BY <1>1, <2>1, <3>1 DEF OwnedItem, HoldingStatus
  <2>4. OldTables'
    BY <1>1, <2>1, <2>2, <2>3, SaleIsStored DEF OldTables
  <2> QED
    BY <2>1, <2>4, RequestKept
<1>7. ASSUME NEW h \in HoldingStatus, NEW q \in LegacyQuantities \cup {0},
             NEW a \in LegacyAverages, EditOwned(h, q, a)
      PROVE  MigrationInv'
  <2>1. BeforeUpgrade /\ owned' = [quantity |-> q, average |-> a, holding |-> h] /\ sold' = sold
    BY <1>7 DEF EditOwned
  <2>2. owned' \in OwnedItem
    BY <2>1 DEF OwnedItem
  <2>3. OldTables'
    BY <1>1, <2>1, <2>2 DEF OldTables
  <2> QED
    BY <2>1, <2>3, RequestKept
<1>8. CASE Upgrade
  <2>1. CASE OpeningQuantity > 0 /\ OpeningAverage = 0
    <3>1. upgrade'.schema = "half" /\ UNCHANGED <<owned, sold>>
      BY <1>8, <2>1 DEF Upgrade, NotUpgraded
    <3> QED
      BY <3>1, MigrationKept
  <2>2. CASE ~(OpeningQuantity > 0 /\ OpeningAverage = 0)
    <3>1. Convertible /\ upgrade' = Converted /\ UNCHANGED <<owned, sold>>
      BY <1>8, <2>2 DEF Upgrade, Convertible
    <3> QED
      BY <3>1, MigrationKept
  <2> QED
    BY <2>1, <2>2
<1>9. CASE Downgrade
  <2>1. upgrade'.schema = "old" /\ UNCHANGED <<owned, sold>>
    BY <1>9 DEF Downgrade, NotUpgraded
  <2> QED
    BY <2>1, MigrationKept
<1>10. CASE UNCHANGED migrationVars
  <2>1. upgrade' = upgrade /\ UNCHANGED <<owned, sold>>
    BY <1>10 DEF migrationVars
  <2> QED
    BY <2>1, MigrationKept
<1> QED
  BY <1>3, <1>4, <1>5, <1>6, <1>7, <1>8, <1>9, <1>10 DEF MigrationNext

-----------------------------------------------------------------------------
(* The quantities of the sales.                                            *)

SoldWeights(S) == [n \in 1..Len(sold) |-> IF n \in S THEN sold[n].quantity ELSE 0]

LEMMA SoldWeightsType ==
    ASSUME OldTables, NEW S
    PROVE  /\ Len(sold) \in Nat /\ DOMAIN sold = 1..Len(sold)
           /\ SoldWeights(S) \in [1..Len(sold) -> Nat]
           /\ SoldWeights(S) \in [1..Len(sold) -> Int]
           /\ \A n \in 1..Len(sold) : sold[n] \in LegacySale /\ sold[n].quantity \in Nat \ {0}
<1>1. Len(sold) \in Nat /\ DOMAIN sold = 1..Len(sold)
  BY LenProperties DEF OldTables
<1>2. \A n \in 1..Len(sold) : sold[n] \in LegacySale
  BY <1>1, ElementOfSeq DEF OldTables
<1>3. \A n \in 1..Len(sold) : sold[n].quantity \in Nat \ {0}
  BY <1>2, MigrationAssumption DEF LegacySale
<1> QED
  BY <1>1, <1>2, <1>3 DEF SoldWeights

LEMMA SoldInIsSum ==
    ASSUME OldTables, NEW S
    PROVE  \E t : IsSum(t, SoldWeights(S), Len(sold)) /\ t[Len(sold)] = SoldIn(S)
<1> DEFINE L == Len(sold)
           w == SoldWeights(S)
           d(n) == IF n \in S THEN sold[n].quantity ELSE 0
           f == CHOOSE sum : sum = [n \in 0..L |-> IF n = 0 THEN 0 ELSE sum[n - 1] + d(n)]
<1>1. L \in Nat /\ w \in [1..L -> Int] /\ \A j \in 1..L : w[j] = d(j)
  BY SoldWeightsType DEF SoldWeights
<1>2. SoldIn(S) = f[L]
  BY DEF SoldIn
<1> HIDE DEF L, w, d
<1>3. PICK s : IsSum(s, w, L)
  BY <1>1, SumExists
<1>4. s = [n \in 0..L |-> IF n = 0 THEN 0 ELSE s[n - 1] + d(n)]
  <2>1. ASSUME NEW n \in 0..L
        PROVE  s[n] = IF n = 0 THEN 0 ELSE s[n - 1] + d(n)
    <3>1. n # 0 => n \in 1..L
      BY <1>1
    <3> QED
      BY <1>1, <1>3, <3>1 DEF IsSum
  <2> QED
    BY <1>3, <2>1 DEF IsSum
<1>5. f = [n \in 0..L |-> IF n = 0 THEN 0 ELSE f[n - 1] + d(n)]
  BY <1>4
<1> HIDE DEF f
<1> DEFINE Done == {n \in 0..L : f[n] = s[n]}
<1>6. 0 \in Done
  BY <1>1, <1>3, <1>5 DEF IsSum
<1>7. ASSUME NEW n \in 0..L, n < L, n \in Done
      PROVE  n + 1 \in Done
  <2>1. n + 1 \in 0..L /\ n + 1 # 0 /\ (n + 1) - 1 = n /\ n + 1 \in 1..L
    BY <1>1, <1>7
  <2>2. f[n + 1] = f[n] + d(n + 1)
    BY <1>5, <2>1
  <2>3. s[n + 1] = s[n] + d(n + 1)
    BY <1>1, <1>3, <2>1 DEF IsSum
  <2> QED
    BY <1>7, <2>1, <2>2, <2>3
<1>8. L \in Done
  <2> HIDE DEF Done
  <2>1. \A n \in 0..L : n \in Done
    BY <1>1, <1>6, <1>7, NatSetInduction
  <2> QED
    BY <1>1, <2>1
<1> QED
  BY <1>2, <1>3, <1>8 DEF L, w

\* Weights that are not smaller give a sum that is not smaller.
LEMMA SumGrows ==
    ASSUME NEW L \in Nat, NEW w, w \in [1..L -> Int], NEW v, v \in [1..L -> Int],
           \A n \in 1..L : w[n] <= v[n],
           NEW s, IsSum(s, w, L), NEW t, IsSum(t, v, L)
    PROVE  s[L] <= t[L] /\ s[L] \in Int /\ t[L] \in Int
<1> DEFINE Done == {n \in 0..L : s[n] <= t[n]}
<1>1. 0 \in Done
  BY DEF IsSum
<1>2. ASSUME NEW n \in 0..L, n < L, n \in Done
      PROVE  n + 1 \in Done
  <2>1. n + 1 \in 0..L /\ (n + 1) - 1 = n /\ n + 1 \in 1..L
    BY <1>2
  <2>2. t[n + 1] = t[n] + v[n + 1] /\ s[n + 1] = s[n] + w[n + 1]
    BY <2>1 DEF IsSum
  <2>3. /\ t[n] \in Int /\ s[n] \in Int /\ v[n + 1] \in Int /\ w[n + 1] \in Int
        /\ s[n] <= t[n] /\ w[n + 1] <= v[n + 1]
    BY <1>2, <2>1 DEF IsSum
  <2> QED
    BY <2>1, <2>2, <2>3
<1>3. \A n \in 0..L : n \in Done
  <2> HIDE DEF Done
  <2> QED
    BY <1>1, <1>2, NatSetInduction
<1> QED
  BY <1>3 DEF IsSum

\* More sales have a quantity that is not smaller; none have none, and one more sale
\* adds its own.
LEMMA SoldInFacts ==
    ASSUME OldTables, NEW S, NEW T, S \subseteq T
    PROVE  /\ SoldIn({}) = 0 /\ SoldIn(S) \in Nat /\ SoldIn(S) <= SoldIn(T)
           /\ (\E i \in DOMAIN sold : i \in S) => SoldIn(S) > 0
<1> DEFINE L == Len(sold)
<1>1. /\ L \in Nat /\ DOMAIN sold = 1..L
      /\ \A U : SoldWeights(U) \in [1..L -> Int]
      /\ \A n \in 1..L : sold[n].quantity \in Nat \ {0}
  BY SoldWeightsType
<1>2. \A U : \E t : IsSum(t, SoldWeights(U), L) /\ t[L] = SoldIn(U)
  BY SoldInIsSum
<1>3. SoldIn({}) = 0
  <2>1. PICK t : IsSum(t, SoldWeights({}), L) /\ t[L] = SoldIn({})
    BY <1>2
  <2>2. \A j \in 1..L : SoldWeights({})[j] = 0
    BY DEF SoldWeights
  <2> QED
    BY <1>1, <2>1, <2>2, SumOfNothing
<1>4. ASSUME NEW U, NEW V, U \subseteq V
      PROVE  SoldIn(U) <= SoldIn(V) /\ SoldIn(U) \in Int /\ SoldIn(V) \in Int
  <2>1. PICK s : IsSum(s, SoldWeights(U), L) /\ s[L] = SoldIn(U)
    BY <1>2
  <2>2. PICK t : IsSum(t, SoldWeights(V), L) /\ t[L] = SoldIn(V)
    BY <1>2
  <2>3. \A n \in 1..L : SoldWeights(U)[n] <= SoldWeights(V)[n]
    BY <1>1, <1>4 DEF SoldWeights
  <2> HIDE DEF L
  <2> QED
    BY <1>1, <2>1, <2>2, <2>3, SumGrows
<1>5. SoldIn(S) \in Nat
  <2>1. SoldIn({}) <= SoldIn(S) /\ SoldIn(S) \in Int
    BY <1>4
  <2> QED
    BY <1>3, <2>1
<1>6. ASSUME NEW i \in 1..L, i \in S
      PROVE  SoldIn(S) > 0
  <2> DEFINE d == sold[i].quantity
             w == SoldWeights({})
             v == SoldWeights({i})
  <2>1. DifferBy(L, w, v, i, d)
    <3>1. w \in [1..L -> Int] /\ v \in [1..L -> Int] /\ d \in Nat \ {0}
      BY <1>1
    <3>2. w[i] = 0 /\ v[i] = d /\ \A j \in 1..L : j # i => v[j] = w[j]
      BY DEF SoldWeights
    <3> HIDE DEF w, v, d
    <3> QED
      BY <3>1, <3>2 DEF DifferBy
  <2>2. PICK s : IsSum(s, SoldWeights({}), L) /\ s[L] = SoldIn({})
    BY <1>2
  <2>3. PICK t : IsSum(t, SoldWeights({i}), L) /\ t[L] = SoldIn({i})
    BY <1>2
  <2>4. SoldIn({i}) = SoldIn({}) + d
    <3> HIDE DEF L, w, v, d
    <3>1. IsSum(s, w, L) /\ IsSum(t, v, L)
      BY <2>2, <2>3 DEF w, v
    <3>2. L \in Nat
      BY <1>1
    <3>3. t[L] = s[L] + d
      BY <2>1, <3>1, <3>2, SumChanges
    <3> QED
      BY <2>2, <2>3, <3>3
  <2>5. d \in Nat \ {0}
    BY <1>1
  <2>6. SoldIn({i}) <= SoldIn(S) /\ SoldIn(S) \in Int
    <3>1. {i} \subseteq S
      BY <1>6
    <3> QED
      BY <1>4, <3>1
  <2> HIDE DEF d
  <2> QED
    BY <1>3, <2>4, <2>5, <2>6
<1>7. SoldIn(S) <= SoldIn(T)
  BY <1>4
<1> QED
  BY <1>1, <1>3, <1>5, <1>6, <1>7

-----------------------------------------------------------------------------
(* The order of the sales.                                                 *)

LEMMA SoldBeforeFacts ==
    ASSUME OldTables, NEW i \in DOMAIN sold, NEW j \in DOMAIN sold
    PROVE  /\ ~(SoldBefore(i, j) /\ SoldBefore(j, i)) /\ ~SoldBefore(i, i)
           /\ sold[i].sold_at \in Int
<1>1. Len(sold) \in Nat /\ DOMAIN sold = 1..Len(sold)
      /\ sold[i] \in LegacySale /\ sold[j] \in LegacySale
  BY SoldWeightsType
<1>2. sold[i].sold_at \in Int /\ sold[j].sold_at \in Int
  BY <1>1, MigrationAssumption DEF LegacySale
<1> QED
  BY <1>1, <1>2 DEF SoldBefore

LEMMA FirstSaleFacts ==
    ASSUME OldTables, ActiveSales # {}
    PROVE  /\ FirstSale \in ActiveSales /\ FirstSale \in DOMAIN sold
           /\ \A i \in ActiveSales \ {FirstSale} : SoldBefore(FirstSale, i)
<1> DEFINE L == Len(sold)
           stored == [i \in 1..L |-> NewRow("SELL", "NORMAL", sold[i].sold_at, 1, 1, NoKey)]
<1>1. L \in Nat /\ DOMAIN sold = 1..L /\ \A i \in 1..L : sold[i].sold_at \in Int
  BY SoldWeightsType, SoldBeforeFacts
<1>2. stored \in Seq(Row) /\ DOMAIN stored = 1..L
  <2>1. \A i \in 1..L : NewRow("SELL", "NORMAL", sold[i].sold_at, 1, 1, NoKey) \in Row
    BY <1>1 DEF NewRow, Row, Status
  <2>2. stored \in [1..L -> Row]
    BY <2>1
  <2> HIDE DEF stored, L
  <2> QED
    BY <1>1, <2>2, SeqDef
<1>3. \A i \in 1..L : stored[i].traded_at = sold[i].sold_at
  BY DEF NewRow
<1> HIDE DEF stored
<1>4. \A i, j \in 1..L : Earlier(stored, i, j) <=> SoldBefore(i, j)
  BY <1>3 DEF Earlier, SoldBefore
<1>5. ActiveSales \in SUBSET (1..L)
  BY <1>1 DEF ActiveSales
<1> DEFINE e == Earliest(stored, ActiveSales)
<1>6. e \in ActiveSales /\ \A j \in ActiveSales \ {e} : Earlier(stored, e, j)
  BY <1>2, <1>5, EarliestFacts
<1> HIDE DEF e, L
<1>7. \A j \in ActiveSales \ {e} : SoldBefore(e, j)
  BY <1>4, <1>5, <1>6
<1>8. /\ FirstSale \in ActiveSales
      /\ \A i \in ActiveSales \ {FirstSale} : SoldBefore(FirstSale, i)
  BY <1>6, <1>7 DEF FirstSale
<1> QED
  BY <1>8 DEF ActiveSales

\* All active sales have the average price that the opening row has.
LEMMA AveragesAgree ==
    ASSUME OldTables, Audit, NEW i \in ActiveSales
    PROVE  sold[i].average = OpeningAverage
<1>1. FirstSale \in ActiveSales /\ OpeningAverage = sold[FirstSale].average
  BY FirstSaleFacts DEF OpeningAverage
<1>2. Cardinality(Snapshots) = 1
  BY DEF Audit
<1>3. IsFiniteSet(Snapshots)
  <2>1. IsFiniteSet(ActiveSales)
    <3>1. Len(sold) \in Int /\ 1 \in Int /\ ActiveSales \subseteq 1..Len(sold)
      BY SoldWeightsType DEF ActiveSales
    <3>2. IsFiniteSet(1..Len(sold))
      BY <3>1, FS_Interval, Zenon
    <3> QED
      BY <3>1, <3>2, FS_Subset
  <2> DEFINE f == [j \in ActiveSales |-> sold[j].average]
  <2>2. f \in Surjection(ActiveSales, Snapshots)
    BY DEF Surjection, Snapshots
  <2> HIDE DEF f
  <2> QED
    BY <2>1, <2>2, FS_Surjection
<1>4. PICK x : Snapshots = {x}
  BY <1>2, <1>3, FS_Singleton
<1>5. sold[i].average \in Snapshots /\ sold[FirstSale].average \in Snapshots
  BY <1>1 DEF Snapshots
<1> QED
  BY <1>1, <1>4, <1>5

-----------------------------------------------------------------------------
(* The rows that the migration makes.                                      *)

\* How many rows come before those of the sales.
Openings == IF OpeningQuantity > 0 THEN 1 ELSE 0

LEMMA OpeningFacts ==
    ASSUME OldTables, Convertible
    PROVE  /\ OpeningQuantity \in Nat /\ OpeningAverage \in Nat
           /\ OpeningQuantity = owned.quantity + SoldIn(ActiveSales)
           /\ owned.quantity \in Nat /\ SoldIn(ActiveSales) \in Nat
           /\ OpeningQuantity > 0 => OpeningAverage > 0
           /\ ActiveSales # {} => OpeningQuantity > 0
           /\ ActiveSales = {} => SoldIn(ActiveSales) = 0
<1>1. owned.quantity \in Nat /\ owned.average \in Nat
  BY DEF OldTables, OwnedItem
<1>2. SoldIn(ActiveSales) \in Nat
  BY SoldInFacts
<1>3. OpeningQuantity = owned.quantity + SoldIn(ActiveSales)
  BY DEF OpeningQuantity
<1>4. OpeningAverage \in Nat
  <2>1. CASE ActiveSales = {}
    BY <1>1, <2>1 DEF OpeningAverage
  <2>2. CASE ActiveSales # {}
    <3>1. FirstSale \in DOMAIN sold /\ OpeningAverage = sold[FirstSale].average
      BY <2>2, FirstSaleFacts DEF OpeningAverage
    <3>2. sold[FirstSale] \in LegacySale
      BY <3>1, SoldWeightsType
    <3> QED
      BY <3>1, <3>2 DEF LegacySale
  <2> QED
    BY <2>1, <2>2
<1>5. ActiveSales # {} => SoldIn(ActiveSales) > 0
  BY SoldInFacts DEF ActiveSales
<1>6. ActiveSales = {} => SoldIn(ActiveSales) = 0
  BY SoldInFacts
<1>7. ~(OpeningQuantity > 0 /\ OpeningAverage = 0)
  BY DEF Convertible
<1> HIDE DEF OpeningQuantity
<1> QED
  BY <1>1, <1>2, <1>3, <1>4, <1>5, <1>6, <1>7

LEMMA OpeningRowFacts ==
    ASSUME OldTables, Convertible, OpeningQuantity > 0
    PROVE  /\ OpeningRow \in Row /\ OpeningRow.side = "BUY" /\ IsActive(OpeningRow)
           /\ OpeningRow.quantity = OpeningQuantity /\ OpeningRow.unit_price = OpeningAverage
           /\ OpeningRow.quantity_before = 0 /\ OpeningRow.quantity_after = OpeningQuantity
           /\ OpeningRow.average_before = 0 /\ OpeningRow.average_after = OpeningAverage
           /\ OpeningRow.realized_pnl = 0
           /\ OpeningRow.traded_at \in Int
           /\ \A i \in ActiveSales : OpeningRow.traded_at < sold[i].sold_at
<1> DEFINE at == IF ActiveSales = {} THEN CreatedAt ELSE sold[FirstSale].sold_at - 1
<1>1. OpeningQuantity \in Nat \ {0} /\ OpeningAverage \in Nat \ {0}
  BY OpeningFacts
<1>2. at \in Int /\ \A i \in ActiveSales : at < sold[i].sold_at
  <2>1. CASE ActiveSales = {}
    BY <2>1, MigrationAssumption
  <2>2. CASE ActiveSales # {}
    <3>1. /\ FirstSale \in DOMAIN sold
          /\ \A i \in ActiveSales \ {FirstSale} : SoldBefore(FirstSale, i)
      BY <2>2, FirstSaleFacts
    <3>2. \A i \in DOMAIN sold : sold[i].sold_at \in Int
      BY SoldBeforeFacts
    <3>3. \A i \in ActiveSales : i \in DOMAIN sold
      BY DEF ActiveSales
    <3>4. \A i \in ActiveSales : sold[FirstSale].sold_at <= sold[i].sold_at
      BY <3>1, <3>2, <3>3 DEF SoldBefore
    <3> QED
      BY <2>2, <3>1, <3>2, <3>3, <3>4
  <2> QED
    BY <2>1, <2>2
<1>3. OpeningRow = [NewRow("BUY", "OPENING_BALANCE", at, OpeningQuantity, OpeningAverage, NoKey)
                       EXCEPT !.quantity_after = OpeningQuantity,
                              !.average_after = OpeningAverage]
  BY DEF OpeningRow
<1> HIDE DEF at
<1>4. OpeningRow =
        [side |-> "BUY", type |-> "OPENING_BALANCE", traded_at |-> at,
         quantity |-> OpeningQuantity, unit_price |-> OpeningAverage,
         status |-> "ACTIVE", sequence_number |-> 1,
         quantity_before |-> 0, quantity_after |-> OpeningQuantity,
         average_before |-> 0, average_after |-> OpeningAverage,
         realized_pnl |-> 0, key |-> NoKey]
  BY <1>3 DEF NewRow
<1>5. OpeningRow \in Row
  BY <1>1, <1>2, <1>4 DEF Row, Status
<1> QED
  BY <1>2, <1>4, <1>5 DEF IsActive

LEMMA SaleRowFacts ==
    ASSUME OldTables, Convertible, NEW i \in DOMAIN sold
    PROVE  LET row == SaleRow(i) IN
           /\ row \in Row /\ row.side = "SELL"
           /\ row.type = IF sold[i].kind = "HISTORICAL_SALE" THEN "HISTORICAL_IMPORT"
                         ELSE "NORMAL"
           /\ row.traded_at = sold[i].sold_at /\ row.quantity = sold[i].quantity
           /\ row.unit_price = sold[i].price /\ row.status = sold[i].status
           /\ row.average_before = OpeningAverage /\ row.average_after = OpeningAverage
           /\ row.realized_pnl = sold[i].quantity * (sold[i].price - sold[i].average)
           /\ i \in ActiveSales =>
                 /\ row.quantity_before = LeftBefore(i) /\ row.quantity_before = sold[i].before
                 /\ row.quantity_after = row.quantity_before - row.quantity
                 /\ row.quantity_after = sold[i].after
                 /\ sold[i].average = OpeningAverage
<1>1. /\ sold[i] \in LegacySale /\ sold[i].quantity \in Nat \ {0} /\ sold[i].price \in Nat \ {0}
      /\ sold[i].sold_at \in Int /\ sold[i].average \in Nat /\ sold[i].after \in Nat
      /\ sold[i].status \in Status
  <2>1. sold[i] \in LegacySale
    BY SoldWeightsType
  <2> QED
    BY <2>1, MigrationAssumption DEF LegacySale
<1>2. LeftBefore(i) \in Nat
  <2> DEFINE earlier == {j \in ActiveSales : SoldBefore(j, i)}
  <2>1. SoldIn(earlier) \in Nat /\ SoldIn(earlier) <= SoldIn(ActiveSales)
    BY SoldInFacts
  <2>2. LeftBefore(i) = OpeningQuantity - SoldIn(earlier)
    BY DEF LeftBefore
  <2> HIDE DEF earlier
  <2> QED
    BY <2>1, <2>2, OpeningFacts
<1>3. i \in ActiveSales => /\ sold[i].before = LeftBefore(i)
                           /\ sold[i].after = LeftBefore(i) - sold[i].quantity
                           /\ sold[i].average = OpeningAverage
  BY AveragesAgree DEF Audit, Convertible
<1>4. IsActive(sold[i]) <=> i \in ActiveSales
  BY DEF ActiveSales
<1> DEFINE number == Cardinality({j \in DOMAIN sold : SoldBefore(j, i)})
                        + (IF OpeningQuantity > 0 THEN 2 ELSE 1)
           after == IF IsActive(sold[i]) THEN LeftBefore(i) - sold[i].quantity ELSE sold[i].after
           pnl == sold[i].quantity * (sold[i].price - sold[i].average)
           type == IF sold[i].kind = "HISTORICAL_SALE" THEN "HISTORICAL_IMPORT" ELSE "NORMAL"
<1>5. number \in Nat \ {0}
  <2> DEFINE earlier == {j \in DOMAIN sold : SoldBefore(j, i)}
  <2>1. IsFiniteSet(earlier)
    <3>1. Len(sold) \in Int /\ 1 \in Int /\ earlier \subseteq 1..Len(sold)
      BY SoldWeightsType
    <3>2. IsFiniteSet(1..Len(sold))
      BY <3>1, FS_Interval, Zenon
    <3> QED
      BY <3>1, <3>2, FS_Subset
  <2>2. Cardinality(earlier) \in Nat
    BY <2>1, FS_CardinalityType
  <2>3. number = Cardinality(earlier) + (IF OpeningQuantity > 0 THEN 2 ELSE 1)
    OBVIOUS
  <2> HIDE DEF earlier, number
  <2> QED
    BY <2>2, <2>3
<1>6. after \in Nat
  BY <1>1, <1>3, <1>4
<1>7. pnl \in Int /\ type \in {"NORMAL", "HISTORICAL_IMPORT"} /\ OpeningAverage \in Nat
  BY <1>1, OpeningFacts
<1>8. SaleRow(i) =
        [NewRow("SELL", type, sold[i].sold_at, sold[i].quantity, sold[i].price, NoKey) EXCEPT
            !.status = sold[i].status, !.sequence_number = number,
            !.quantity_before = LeftBefore(i), !.quantity_after = after,
            !.average_before = OpeningAverage, !.average_after = OpeningAverage,
            !.realized_pnl = pnl]
  BY DEF SaleRow
<1>9. i \in ActiveSales => after = LeftBefore(i) - sold[i].quantity
  BY <1>4
<1> HIDE DEF number, after, pnl, type
<1> DEFINE row == SaleRow(i)
           average == OpeningAverage
           before == LeftBefore(i)
<1>10. /\ row \in Row /\ row.side = "SELL" /\ row.type = type
       /\ row.traded_at = sold[i].sold_at /\ row.quantity = sold[i].quantity
       /\ row.unit_price = sold[i].price /\ row.status = sold[i].status
       /\ row.quantity_before = before /\ row.quantity_after = after
       /\ row.average_before = average /\ row.average_after = average
       /\ row.realized_pnl = pnl
  <2> DEFINE at == sold[i].sold_at
             q == sold[i].quantity
             p == sold[i].price
             status == sold[i].status
  <2>1. /\ type \in {"NORMAL", "HISTORICAL_IMPORT"} /\ at \in Int /\ q \in Nat \ {0}
        /\ p \in Nat \ {0} /\ status \in Status /\ number \in Nat \ {0}
        /\ before \in Nat /\ after \in Nat /\ average \in Nat /\ pnl \in Int
    BY <1>1, <1>2, <1>5, <1>6, <1>7
  <2> DEFINE r == NewRow("SELL", type, at, q, p, NoKey)
             r1 == [r EXCEPT !.status = status, !.sequence_number = number,
                             !.quantity_before = before, !.quantity_after = after]
  <2>2. row = [r1 EXCEPT !.average_before = average, !.average_after = average,
                         !.realized_pnl = pnl]
    BY <1>8
  <2> HIDE DEF at, q, p, status, before, average, row
  <2>3. r \in Row
    BY <2>1 DEF NewRow, Row, Status
  <2>4. /\ r.side = "SELL" /\ r.type = type /\ r.traded_at = at /\ r.quantity = q
        /\ r.unit_price = p
    BY DEF NewRow
  <2> HIDE DEF r
  <2>5. r1 \in Row
    BY <2>1, <2>3 DEF Row
  <2>6. /\ r1.side = "SELL" /\ r1.type = type /\ r1.traded_at = at /\ r1.quantity = q
        /\ r1.unit_price = p /\ r1.status = status
        /\ r1.quantity_before = before /\ r1.quantity_after = after
    BY <2>3, <2>4 DEF Row
  <2> HIDE DEF r1
  <2>7. row \in Row
    BY <2>1, <2>2, <2>5 DEF Row
  <2>8. /\ row.side = "SELL" /\ row.type = type
        /\ row.traded_at = at /\ row.quantity = q
        /\ row.unit_price = p /\ row.status = status
        /\ row.quantity_before = before /\ row.quantity_after = after
        /\ row.average_before = average /\ row.average_after = average
        /\ row.realized_pnl = pnl
    BY <2>2, <2>5, <2>6 DEF Row
  <2> QED
    BY <2>7, <2>8 DEF at, q, p, status
<1> HIDE DEF row
<1> QED
  BY <1>3, <1>9, <1>10 DEF type, pnl, row

LEMMA MigratedRows ==
    ASSUME OldTables, Convertible, NEW rows, rows = Converted.ledger
    PROVE  /\ Openings \in {0, 1} /\ rows \in Seq(Row) /\ Len(rows) = Openings + Len(sold)
           /\ Openings = 1 => rows[1] = OpeningRow
           /\ \A i \in DOMAIN sold : rows[Openings + i] = SaleRow(i)
<1> DEFINE L == Len(sold)
           first == IF OpeningQuantity > 0 THEN <<OpeningRow>> ELSE <<>>
           rest == [i \in DOMAIN sold |-> SaleRow(i)]
<1>1. L \in Nat /\ DOMAIN sold = 1..L
  BY SoldWeightsType
<1>2. rest \in Seq(Row) /\ Len(rest) = L /\ \A i \in 1..L : rest[i] = SaleRow(i)
  <2>1. \A i \in 1..L : SaleRow(i) \in Row
    BY <1>1, SaleRowFacts
  <2>2. rest \in [1..L -> Row] /\ \A i \in 1..L : rest[i] = SaleRow(i)
    BY <1>1, <2>1
  <2> HIDE DEF rest, L
  <2> QED
    BY <1>1, <2>2, SeqDef, LenProperties
<1>3. /\ first \in Seq(Row) /\ Len(first) = Openings /\ Openings \in {0, 1}
      /\ Openings = 1 => first[1] = OpeningRow
  <2>1. CASE OpeningQuantity > 0
    <3>1. OpeningRow \in Row
      BY <2>1, OpeningRowFacts
    <3> QED
      BY <2>1, <3>1 DEF Openings
  <2>2. CASE ~(OpeningQuantity > 0)
    BY <2>2 DEF Openings
  <2> QED
    BY <2>1, <2>2
<1>4. rows = first \o rest
  BY DEF Converted
<1> HIDE DEF first, rest
<1>5. /\ rows \in Seq(Row) /\ Len(rows) = Openings + L
      /\ \A i \in 1 .. Openings + L :
            rows[i] = IF i <= Openings THEN first[i] ELSE rest[i - Openings]
  BY <1>2, <1>3, <1>4, ConcatProperties
<1>6. Openings = 1 => rows[1] = OpeningRow
  BY <1>1, <1>3, <1>5
<1>7. ASSUME NEW i \in 1..L
      PROVE  rows[Openings + i] = SaleRow(i)
  <2>1. /\ Openings + i \in 1 .. Openings + L /\ ~(Openings + i <= Openings)
        /\ (Openings + i) - Openings = i
    BY <1>1, <1>3
  <2> QED
    BY <1>2, <1>5, <2>1
<1> QED
  BY <1>1, <1>3, <1>5, <1>6, <1>7

\* The quantity that the rows outside U add up to.
LEMMA MigratedSum ==
    ASSUME OldTables, Convertible, NEW rows, rows = Converted.ledger, NEW U,
           NEW T, T = {j \in ActiveSales : Openings + j \notin U},
           NEW s, IsSum(s, Weights(rows, U), Len(rows))
    PROVE  s[Len(rows)] = (IF Openings = 1 /\ 1 \notin U THEN OpeningQuantity ELSE 0) - SoldIn(T)
<1> DEFINE L == Len(sold)
           o == Openings
           base == IF o = 1 /\ 1 \notin U THEN OpeningQuantity ELSE 0
           w == Weights(rows, U)
           v == SoldWeights(T)
<1>1. /\ o \in {0, 1} /\ rows \in Seq(Row) /\ Len(rows) = o + L
      /\ o = 1 => rows[1] = OpeningRow
      /\ \A i \in DOMAIN sold : rows[o + i] = SaleRow(i)
  BY MigratedRows
<1>2. L \in Nat /\ DOMAIN sold = 1..L /\ v \in [1..L -> Int] /\ w \in [1..(o + L) -> Int]
  BY <1>1, SoldWeightsType, WeightsType
<1>3. PICK t : IsSum(t, v, L) /\ t[L] = SoldIn(T)
  BY SoldInIsSum
<1>4. OpeningQuantity \in Nat
  BY OpeningFacts
<1>5. o = 1 => w[1] = base
  <2> SUFFICES ASSUME o = 1 PROVE w[1] = base
    OBVIOUS
  <2>1. OpeningQuantity > 0
    BY DEF Openings
  <2>2. Contribution(rows[1]) = OpeningQuantity
    BY <1>1, <2>1, OpeningRowFacts DEF Contribution, Signed
  <2>3. 1 \in 1..Len(rows)
    BY <1>1, <1>2
  <2> QED
    BY <2>2, <2>3 DEF Weights
<1>6. ASSUME NEW n \in 1..L
      PROVE  w[o + n] = 0 - v[n]
  <2>1. o + n \in 1..Len(rows) /\ rows[o + n] = SaleRow(n)
    BY <1>1, <1>2
  <2>2. w[o + n] = IF o + n \in U THEN 0 ELSE Contribution(SaleRow(n))
    BY <2>1 DEF Weights
  <2>3. Contribution(SaleRow(n)) = IF n \in ActiveSales THEN 0 - sold[n].quantity ELSE 0
    <3>1. /\ SaleRow(n).side = "SELL" /\ SaleRow(n).quantity = sold[n].quantity
          /\ SaleRow(n).status = sold[n].status
      BY <1>2, SaleRowFacts
    <3>2. IsActive(SaleRow(n)) <=> n \in ActiveSales
      BY <1>2, <3>1 DEF IsActive, ActiveSales
    <3>3. sold[n].quantity \in Nat
      BY SoldWeightsType
    <3> QED
      BY <3>1, <3>2, <3>3 DEF Contribution, Signed
  <2>4. v[n] = IF n \in ActiveSales /\ o + n \notin U THEN sold[n].quantity ELSE 0
    BY DEF SoldWeights
  <2> QED
    BY <2>2, <2>3, <2>4
<1>7. IsSum(s, w, o + L)
  BY <1>1
<1>8. base \in Nat
  BY <1>4
<1> HIDE DEF L, o, base, w, v
<1> DEFINE Done == {n \in 0..L : s[o + n] = base - t[n]}
<1>9. 0 \in Done
  <2>1. t[0] = 0 /\ s[0] = 0
    BY <1>3, <1>7 DEF IsSum
  <2>2. CASE o = 0
    <3>1. base = 0
      BY <2>2 DEF base
    <3> QED
      BY <1>2, <2>1, <2>2, <3>1
  <2>3. CASE o = 1
    <3>1. 1 \in 1..(o + L) /\ 1 - 1 = 0
      BY <1>2, <2>3
    <3>2. s[1] = s[0] + w[1]
      BY <1>7, <3>1 DEF IsSum
    <3>3. s[1] = base
      BY <1>5, <1>8, <2>1, <2>3, <3>2
    <3> QED
      BY <1>2, <1>8, <2>1, <2>3, <3>3
  <2> QED
    BY <1>1, <2>2, <2>3
<1>10. ASSUME NEW n \in 0..L, n < L, n \in Done
       PROVE  n + 1 \in Done
  <2>1. /\ n + 1 \in 0..L /\ n + 1 \in 1..L /\ (n + 1) - 1 = n
        /\ o + (n + 1) \in 1..(o + L) /\ (o + (n + 1)) - 1 = o + n
        /\ n \in 0..L /\ o + n \in 0..(o + L)
    BY <1>1, <1>2, <1>10
  <2>2. s[o + (n + 1)] = s[o + n] + w[o + (n + 1)]
    BY <1>7, <2>1 DEF IsSum
  <2>3. t[n + 1] = t[n] + v[n + 1]
    BY <1>3, <2>1 DEF IsSum
  <2>4. s[o + n] = base - t[n] /\ w[o + (n + 1)] = 0 - v[n + 1]
    BY <1>6, <1>10, <2>1
  <2>5. t[n] \in Int /\ v[n + 1] \in Int
    BY <1>2, <1>3, <2>1 DEF IsSum
  <2>6. s[o + (n + 1)] = base - t[n + 1]
    BY <1>8, <2>2, <2>3, <2>4, <2>5
  <2> QED
    BY <2>1, <2>6
<1>11. L \in Done
  <2> HIDE DEF Done
  <2>1. \A n \in 0..L : n \in Done
    BY <1>2, <1>9, <1>10, NatSetInduction
  <2> QED
    BY <1>2, <2>1
<1>12. s[o + L] = base - SoldIn(T)
  BY <1>3, <1>11
<1> QED
  BY <1>1, <1>12 DEF base, o

\* The order of the rows is that of the sales, after the opening row.
LEMMA MigratedOrder ==
    ASSUME OldTables, Convertible, NEW rows, rows = Converted.ledger, NEW i \in ActiveSales
    PROVE  /\ Openings = 1 /\ i \in DOMAIN sold /\ 1 + i \in DOMAIN rows /\ 1 \in DOMAIN rows
           /\ Earlier(rows, 1, 1 + i) /\ ~Earlier(rows, 1 + i, 1)
           /\ \A j \in DOMAIN sold : Earlier(rows, 1 + j, 1 + i) <=> SoldBefore(j, i)
<1>1. Openings = 1
  BY OpeningFacts DEF Openings
<1>2. i \in DOMAIN sold
  BY DEF ActiveSales
<1>3. /\ rows \in Seq(Row) /\ Len(rows) = 1 + Len(sold) /\ rows[1] = OpeningRow
      /\ \A j \in DOMAIN sold : rows[1 + j] = SaleRow(j)
  BY <1>1, MigratedRows
<1>4. Len(sold) \in Nat /\ DOMAIN sold = 1..Len(sold) /\ DOMAIN rows = 1..(1 + Len(sold))
  BY <1>3, SoldWeightsType, LenProperties
<1>5. \A j \in DOMAIN sold : rows[1 + j].traded_at = sold[j].sold_at
  BY <1>3, SaleRowFacts
<1>6. /\ rows[1].traded_at \in Int /\ rows[1].traded_at < sold[i].sold_at
  BY <1>1, <1>3, OpeningRowFacts DEF Openings
<1>7. \A j \in DOMAIN sold : sold[j].sold_at \in Int
  BY SoldBeforeFacts
<1>8. Earlier(rows, 1, 1 + i) /\ ~Earlier(rows, 1 + i, 1)
  BY <1>2, <1>5, <1>6, <1>7 DEF Earlier
<1>9. \A j \in DOMAIN sold : Earlier(rows, 1 + j, 1 + i) <=> SoldBefore(j, i)
  BY <1>2, <1>4, <1>5 DEF Earlier, SoldBefore
<1> QED
  BY <1>1, <1>2, <1>4, <1>8, <1>9

\* The price of the opening row, if there is one.
MigratedPrice == IF OpeningQuantity > 0 THEN OpeningAverage ELSE 1

LEMMA MigratedFlat ==
    ASSUME OldTables, Convertible, NEW rows, rows = Converted.ledger
    PROVE  Flat(rows, MigratedPrice)
<1> DEFINE L == Len(sold)
           o == Openings
<1>1. /\ o \in {0, 1} /\ rows \in Seq(Row) /\ Len(rows) = o + L
      /\ o = 1 => rows[1] = OpeningRow
      /\ \A i \in DOMAIN sold : rows[o + i] = SaleRow(i)
  BY MigratedRows
<1>2. L \in Nat /\ DOMAIN sold = 1..L /\ DOMAIN rows = 1..(o + L)
  BY <1>1, SoldWeightsType, LenProperties
<1>3. MigratedPrice \in Nat \ {0}
  BY OpeningFacts DEF MigratedPrice
<1>4. o = 1 <=> OpeningQuantity > 0
  BY DEF Openings
<1>5. ASSUME NEW i \in DOMAIN sold
      PROVE  IsActive(rows[o + i]) <=> i \in ActiveSales
  BY <1>1, <1>5, SaleRowFacts DEF IsActive, ActiveSales
<1> HIDE DEF L, o
<1>6. ASSUME NEW k \in DOMAIN rows, ~(o = 1 /\ k = 1)
      PROVE  k - o \in DOMAIN sold /\ k = o + (k - o)
  BY <1>1, <1>2, <1>6
<1>7. ASSUME o = 1
      PROVE  FlatRow(rows, MigratedPrice, 1)
  <2> DEFINE U == {j \in DOMAIN rows : ~Earlier(rows, j, 1)}
             row == rows[1]
  <2>1. OpeningQuantity > 0 /\ MigratedPrice = OpeningAverage /\ row = OpeningRow
    BY <1>1, <1>4, <1>7 DEF MigratedPrice
  <2>2. 1 \in DOMAIN rows /\ ~Earlier(rows, 1, 1)
    <3>1. 1 \in DOMAIN rows /\ 1 \in 1..Len(rows)
      BY <1>1, <1>2, <1>7
    <3> QED
      BY <1>1, <3>1, EarlierOneWay
  <2>3. ASSUME NEW j \in DOMAIN rows, IsActive(rows[j])
        PROVE  ~Earlier(rows, j, 1)
    <3>1. CASE j = 1
      BY <2>2, <3>1
    <3>2. CASE j # 1
      <4>1. j - 1 \in DOMAIN sold /\ j = 1 + (j - 1)
        BY <1>6, <1>7, <3>2
      <4>2. j - 1 \in ActiveSales
        BY <1>5, <1>7, <2>3, <4>1
      <4>3. ~Earlier(rows, 1 + (j - 1), 1)
        BY <4>2, MigratedOrder
      <4> QED
        BY <4>1, <4>3
    <3> QED
      BY <3>1, <3>2
  <2>4. Ahead(rows, 1) = {}
    BY <2>3 DEF Ahead
  <2>5. ASSUME NEW s, IsSum(s, Weights(rows, U), Len(rows))
        PROVE  s[Len(rows)] = 0
    <3>1. 1 \in U
      BY <2>2
    <3>2. {j \in ActiveSales : Openings + j \notin U} = {}
      <4>1. \A j \in ActiveSales : 1 + j \in DOMAIN rows /\ ~Earlier(rows, 1 + j, 1)
        BY MigratedOrder
      <4>2. Openings = 1
        BY <1>7 DEF o
      <4> QED
        BY <4>1, <4>2
    <3> HIDE DEF U
    <3>3. s[Len(rows)] = (IF Openings = 1 /\ 1 \notin U THEN OpeningQuantity ELSE 0)
                            - SoldIn({})
      <4> DEFINE T == {j \in ActiveSales : Openings + j \notin U}
      <4>1. s[Len(rows)] = (IF Openings = 1 /\ 1 \notin U THEN OpeningQuantity ELSE 0)
                              - SoldIn(T)
        BY <2>5, MigratedSum
      <4>2. T = {}
        BY <3>2
      <4> HIDE DEF T
      <4> QED
        BY <4>1, <4>2
    <3>4. SoldIn({}) = 0
      BY SoldInFacts
    <3> QED
      BY <3>1, <3>3, <3>4
  <2>6. /\ row.side = "BUY" /\ row.quantity = OpeningQuantity
        /\ row.unit_price = OpeningAverage
        /\ row.quantity_before = 0 /\ row.quantity_after = OpeningQuantity
        /\ row.average_before = 0 /\ row.average_after = OpeningAverage
        /\ row.realized_pnl = 0
    BY <2>1, OpeningRowFacts
  <2>7. row.quantity_after = row.quantity_before + Signed(row)
    <3>1. OpeningQuantity \in Nat
      BY OpeningFacts
    <3> QED
      BY <2>6, <3>1 DEF Signed
  <2> QED
    BY <2>1, <2>4, <2>5, <2>6, <2>7 DEF FlatRow
<1>8. ASSUME NEW i \in ActiveSales
      PROVE  o = 1 /\ FlatRow(rows, MigratedPrice, 1 + i)
  <2> DEFINE U == {j \in DOMAIN rows : ~Earlier(rows, j, 1 + i)}
             row == rows[1 + i]
  <2>1. /\ Openings = 1 /\ i \in DOMAIN sold /\ 1 + i \in DOMAIN rows /\ 1 \in DOMAIN rows
        /\ Earlier(rows, 1, 1 + i)
        /\ \A j \in DOMAIN sold : Earlier(rows, 1 + j, 1 + i) <=> SoldBefore(j, i)
    BY MigratedOrder
  <2>2. o = 1 /\ row = SaleRow(i) /\ OpeningQuantity > 0 /\ MigratedPrice = OpeningAverage
    BY <1>1, <1>4, <2>1 DEF o, MigratedPrice
  <2>3. 1 \in Ahead(rows, 1 + i)
    <3>1. IsActive(rows[1])
      BY <1>1, <2>2, OpeningRowFacts
    <3> QED
      BY <2>1, <3>1 DEF Ahead
  <2>4. ASSUME NEW s, IsSum(s, Weights(rows, U), Len(rows))
        PROVE  s[Len(rows)] = LeftBefore(i)
    <3>1. 1 \notin U
      BY <2>1
    <3>2. {j \in ActiveSales : Openings + j \notin U} = {j \in ActiveSales : SoldBefore(j, i)}
      <4>1. \A j \in ActiveSales : j \in DOMAIN sold /\ 1 + j \in DOMAIN rows
        BY MigratedOrder
      <4> QED
        BY <2>1, <4>1
    <3> HIDE DEF U
    <3>3. s[Len(rows)] = (IF Openings = 1 /\ 1 \notin U THEN OpeningQuantity ELSE 0)
                            - SoldIn({j \in ActiveSales : SoldBefore(j, i)})
      BY <2>4, <3>2, MigratedSum
    <3> QED
      BY <2>1, <3>1, <3>3 DEF LeftBefore
  <2>5. /\ row \in Row /\ row.side = "SELL" /\ row.quantity = sold[i].quantity
        /\ row.unit_price = sold[i].price
        /\ row.average_before = OpeningAverage /\ row.average_after = OpeningAverage
        /\ row.realized_pnl = sold[i].quantity * (sold[i].price - sold[i].average)
        /\ row.quantity_before = LeftBefore(i)
        /\ row.quantity_after = row.quantity_before - row.quantity
        /\ sold[i].average = OpeningAverage
    BY <2>1, <2>2, SaleRowFacts
  <2>6. row.quantity_after = row.quantity_before + Signed(row)
    <3>1. row.quantity \in Nat /\ row.quantity_before \in Nat
      BY <2>5 DEF Row
    <3> QED
      BY <2>5, <3>1 DEF Signed
  <2> QED
    BY <2>2, <2>3, <2>4, <2>5, <2>6 DEF FlatRow
<1>9. ASSUME NEW k \in DOMAIN rows, IsActive(rows[k])
      PROVE  FlatRow(rows, MigratedPrice, k)
  <2>1. CASE o = 1 /\ k = 1
    BY <1>7, <2>1
  <2>2. CASE ~(o = 1 /\ k = 1)
    <3>1. k - o \in DOMAIN sold /\ k = o + (k - o)
      BY <1>6, <2>2
    <3>2. k - o \in ActiveSales
      BY <1>5, <1>9, <3>1
    <3>3. o = 1 /\ FlatRow(rows, MigratedPrice, 1 + (k - o))
      BY <1>8, <3>2
    <3> QED
      BY <3>1, <3>3
  <2> QED
    BY <2>1, <2>2
<1> QED
  BY <1>1, <1>3, <1>9 DEF Flat

\* The migrated ledger replays to the item, and its rows to the sales.
LEMMA MigratedReplays ==
    ASSUME OldTables, Convertible, upgrade = Converted
    PROVE  MigratedLedgerReplays
<1> DEFINE rows == upgrade.ledger
           run == Replay(rows)
<1>1. rows = Converted.ledger
  OBVIOUS
<1>2. /\ Openings \in {0, 1} /\ rows \in Seq(Row) /\ Len(rows) = Openings + Len(sold)
      /\ Openings = 1 => rows[1] = OpeningRow
      /\ \A i \in DOMAIN sold : rows[Openings + i] = SaleRow(i)
  BY MigratedRows
<1>3. Len(sold) \in Nat /\ DOMAIN sold = 1..Len(sold)
      /\ DOMAIN rows = 1..(Openings + Len(sold))
  BY <1>2, SoldWeightsType, LenProperties
<1>4. Flat(rows, MigratedPrice)
  BY MigratedFlat
<1>5. PICK s : IsSum(s, Weights(rows, {}), Len(rows))
  <2>1. Len(rows) \in Nat /\ Weights(rows, {}) \in [1..Len(rows) -> Int]
    BY <1>2, LenProperties, WeightsType
  <2> QED
    BY <2>1, SumExists
<1>6. /\ run.failed = FALSE /\ run.quantity = s[Len(rows)] /\ run.active \in Nat
      /\ run.active = 0 <=> \A i \in DOMAIN rows : ~IsActive(rows[i])
      /\ run.active # 0 => run.average = MigratedPrice
      /\ \A i \in DOMAIN rows : Renumbered(run.ledger[i], rows[i])
  BY <1>4, <1>5, FlatReplay
<1>7. /\ OpeningQuantity \in Nat /\ owned.quantity \in Nat /\ SoldIn(ActiveSales) \in Nat
      /\ OpeningQuantity = owned.quantity + SoldIn(ActiveSales)
      /\ ActiveSales # {} => OpeningQuantity > 0
      /\ ActiveSales = {} => SoldIn(ActiveSales) = 0
      /\ Openings = 1 <=> OpeningQuantity > 0
  BY OpeningFacts DEF Openings
<1>8. run.quantity = owned.quantity
  <2> DEFINE T == {j \in ActiveSales : Openings + j \notin {}}
  <2>1. s[Len(rows)] = (IF Openings = 1 /\ 1 \notin {} THEN OpeningQuantity ELSE 0) - SoldIn(T)
    BY <1>1, <1>5, MigratedSum
  <2>2. T = ActiveSales
    OBVIOUS
  <2> HIDE DEF T
  <2>3. s[Len(rows)] = (IF Openings = 1 THEN OpeningQuantity ELSE 0) - SoldIn(ActiveSales)
    BY <2>1, <2>2
  <2>4. Openings # 1 => OpeningQuantity = 0 /\ SoldIn(ActiveSales) = 0
    BY <1>7
  <2> QED
    BY <1>6, <1>7, <2>3, <2>4
<1> HIDE DEF rows, run
<1>9. run.active > 0 <=> OpeningQuantity > 0
  <2>1. CASE OpeningQuantity > 0
    <3>1. 1 \in DOMAIN rows /\ rows[1] = OpeningRow
      BY <1>2, <1>3, <1>7, <2>1
    <3>2. IsActive(OpeningRow)
      BY <2>1, OpeningRowFacts
    <3> QED
      BY <1>6, <2>1, <3>1, <3>2
  <2>2. CASE ~(OpeningQuantity > 0)
    <3>1. Openings = 0 /\ ActiveSales = {}
      BY <1>2, <1>7, <2>2
    <3>2. ASSUME NEW i \in DOMAIN rows
          PROVE  ~IsActive(rows[i])
      <4>1. i \in DOMAIN sold /\ Openings + i = i
        BY <1>3, <3>1, <3>2
      <4>2. rows[i] = SaleRow(i)
        BY <1>2, <4>1
      <4>3. rows[i].status = sold[i].status
        BY <4>1, <4>2, SaleRowFacts
      <4> QED
        BY <3>1, <4>1, <4>3 DEF ActiveSales, IsActive
    <3> QED
      BY <1>6, <2>2, <3>2
  <2> QED
    BY <2>1, <2>2
<1>10. ASSUME owned.quantity > 0
       PROVE  run.average = owned.average
  <2>1. OpeningQuantity > 0
    BY <1>7, <1>10
  <2>2. run.average = OpeningAverage
    BY <1>6, <1>9, <2>1 DEF MigratedPrice
  <2>3. CASE ActiveSales = {}
    BY <2>2, <2>3 DEF OpeningAverage
  <2>4. CASE ActiveSales # {}
    <3>1. owned.holding = "HOLDING" /\ owned.average > 0 /\ owned.average \in Snapshots
      <4>1. owned.holding = "HOLDING" /\ owned.average > 0
        BY <1>10, <2>4 DEF Convertible, Audit
      <4>2. owned.average = 0 \/ owned.average \in Snapshots
        BY <1>10, <2>4 DEF Convertible, Audit
      <4> QED
        BY <4>1, <4>2
    <3>2. PICK i \in ActiveSales : owned.average = sold[i].average
      BY <3>1 DEF Snapshots
    <3>3. sold[i].average = OpeningAverage
      BY AveragesAgree DEF Convertible
    <3> QED
      BY <2>2, <3>2, <3>3
  <2> QED
    BY <2>3, <2>4
<1>11. upgrade.position = Settled(NewItem("HOLDING", 0, 0, upgrade.tracking), run).position
  <2> DEFINE fresh == NewItem("HOLDING", 0, 0, upgrade.tracking)
             settled == CASE run.quantity > 0 -> "HOLDING"
                          [] run.quantity = 0 /\ run.active > 0 -> "CLOSED"
                          [] OTHER -> "EMPTY"
  <2>1. Settled(fresh, run).position = settled
    BY DEF Settled, NewItem
  <2>2. upgrade.position = IF owned.quantity > 0 THEN "HOLDING"
                           ELSE IF ActiveSales # {} THEN "CLOSED" ELSE "EMPTY"
    BY DEF Converted
  <2>3. CASE owned.quantity > 0
    BY <1>8, <2>1, <2>2, <2>3
  <2>4. CASE ~(owned.quantity > 0)
    <3>1. run.quantity = 0 /\ owned.quantity = 0
      BY <1>7, <1>8, <2>4
    <3>2. run.active > 0 <=> ActiveSales # {}
      BY <1>7, <1>9, <3>1
    <3> QED
      BY <2>1, <2>2, <2>4, <3>1, <3>2
  <2> QED
    BY <2>3, <2>4
<1>12. ASSUME NEW i \in DOMAIN rows
       PROVE  /\ rows[i] \in Row
              /\ [run.ledger[i] EXCEPT !.sequence_number = 1]
                    = [rows[i] EXCEPT !.sequence_number = 1]
              /\ SaleOf(run.ledger[i]) = SaleOf(rows[i])
  <2>1. rows[i] \in Row
    BY <1>2, LenProperties, ElementOfSeq
  <2> DEFINE old == rows[i]
             new == run.ledger[i]
             number == new.sequence_number
  <2>2. new = [old EXCEPT !.sequence_number = number]
    BY <1>6 DEF Renumbered
  <2> HIDE DEF old, new, number
  <2>3. old \in Row
    BY <2>1 DEF old
  <2>4. [new EXCEPT !.sequence_number = 1] = [old EXCEPT !.sequence_number = 1]
    BY <2>2, <2>3 DEF Row
  <2>5. SaleOf(new) = SaleOf(old)
    <3>1. /\ new.type = old.type /\ new.quantity_after = old.quantity_after
          /\ new.traded_at = old.traded_at /\ new.quantity = old.quantity
          /\ new.unit_price = old.unit_price /\ new.average_before = old.average_before
          /\ new.quantity_before = old.quantity_before
          /\ new.realized_pnl = old.realized_pnl /\ new.status = old.status
      BY <2>2, <2>3 DEF Row
    <3> QED
      BY <3>1 DEF SaleOf
  <2> QED
    BY <2>1, <2>4, <2>5 DEF old, new
<1>13. ASSUME NEW i \in ActiveSales
       PROVE  SaleOf(run.ledger[Openings + i]) =
                [type |-> sold[i].kind, sold_at |-> sold[i].sold_at,
                 quantity |-> sold[i].quantity, sale_price |-> sold[i].price,
                 purchase_average |-> sold[i].average, quantity_before |-> sold[i].before,
                 quantity_after |-> sold[i].after,
                 realized_pnl |-> sold[i].quantity * (sold[i].price - sold[i].average),
                 status |-> sold[i].status]
  <2>1. /\ i \in DOMAIN sold /\ Openings + i \in DOMAIN rows
        /\ rows[Openings + i] = SaleRow(i)
    <3>1. i \in DOMAIN sold
      BY DEF ActiveSales
    <3> QED
      BY <1>2, <1>3, <3>1
  <2>2. SaleOf(run.ledger[Openings + i]) = SaleOf(SaleRow(i))
    BY <1>12, <2>1
  <2> DEFINE row == SaleRow(i)
             pnl == sold[i].quantity * (sold[i].price - sold[i].average)
  <2>3. /\ row.type = IF sold[i].kind = "HISTORICAL_SALE" THEN "HISTORICAL_IMPORT"
                      ELSE "NORMAL"
        /\ row.traded_at = sold[i].sold_at /\ row.quantity = sold[i].quantity
        /\ row.unit_price = sold[i].price /\ row.status = sold[i].status
        /\ row.average_before = sold[i].average
        /\ row.realized_pnl = pnl
        /\ row.quantity_before = sold[i].before
        /\ row.quantity_after = sold[i].after
    BY <2>1, SaleRowFacts
  <2>4. /\ sold[i].kind \in {"FULL_SALE", "PARTIAL_SALE", "HISTORICAL_SALE"}
        /\ sold[i].kind # "HISTORICAL_SALE" => (sold[i].kind = "FULL_SALE" <=> sold[i].after = 0)
    <3>1. sold[i] \in LegacySale
      BY <2>1, SoldWeightsType
    <3>2. SaleKind(sold[i])
      BY <2>1 DEF OldTables
    <3> QED
      BY <3>1, <3>2 DEF LegacySale, SaleKind
  <2> DEFINE type == CASE row.type = "HISTORICAL_IMPORT" -> "HISTORICAL_SALE"
                       [] row.type # "HISTORICAL_IMPORT" /\ row.quantity_after = 0 -> "FULL_SALE"
                       [] OTHER -> "PARTIAL_SALE"
  <2>5. SaleOf(row) =
          [type |-> type, sold_at |-> row.traded_at, quantity |-> row.quantity,
           sale_price |-> row.unit_price, purchase_average |-> row.average_before,
           quantity_before |-> row.quantity_before, quantity_after |-> row.quantity_after,
           realized_pnl |-> row.realized_pnl, status |-> row.status]
    BY DEF SaleOf
  <2> HIDE DEF row, pnl
  <2>6. type = sold[i].kind
    BY <2>3, <2>4
  <2> HIDE DEF type
  <2> QED
    BY <2>2, <2>3, <2>5, <2>6 DEF row, pnl
<1>14. Len(rows) - Len(sold) = Openings
  BY <1>2, <1>3
<1> QED
  BY <1>6, <1>8, <1>10, <1>11, <1>12, <1>13, <1>14 DEF MigratedLedgerReplays, rows, run

\* A ledger that was made of the sales of an item replays to what the item shows, and
\* every sale is the one its row makes (_audit_existing_data, _migrate_online, and
\* _replay and _sync_compatibility_sale of the program that goes on with it).
THEOREM LedgersAreMigrated == MigrationSpec => []MigratedLedgerReplays
<1>1. MigrationInv => MigratedLedgerReplays
  <2> SUFFICES ASSUME MigrationInv, upgrade.schema = "new" PROVE MigratedLedgerReplays
    BY DEF MigratedLedgerReplays
  <2> QED
    BY MigratedReplays DEF MigrationInv
<1> QED
  BY <1>1, MigrationStart, MigrationStep, PTL DEF MigrationSpec
=============================================================================
