----------------------- MODULE LedgerConcurrencyProofs -----------------------
(***************************************************************************)
(* Theorems about LedgerConcurrency: for any number of sessions, any       *)
(* quantities, prices and edits, what is committed is always a ledger that *)
(* replays to itself with one row per key, no commit loses a row, and a    *)
(* request that read the item under its lock leaves it as the ledger ends. *)
(***************************************************************************)
EXTENDS LedgerConcurrency, ReplayProofs

-----------------------------------------------------------------------------
(* The inductive invariant.  Only the holder of the row lock of the item   *)
(* has a replay to commit, and what it holds was made from the ledger that *)
(* is still committed, because nobody else writes rows while it has the    *)
(* lock.                                                                   *)

SameRow(new, old) ==
    /\ \A c \in {"side", "type", "quantity", "key"} : new[c] = old[c]
    /\ old.status = "VOIDED" => new.status = "VOIDED"

\* The rows old are still there in rows.
Grows(rows, old) ==
    Len(old) <= Len(rows) /\ \A i \in DOMAIN old : SameRow(rows[i], old[i])

KeysUnique(rows) ==
    \A i, j \in DOMAIN rows : rows[i].key = rows[j].key /\ rows[i].key # NoKey => i = j

\* Rows as a replay leaves them.
Sound(rows) ==
    /\ rows \in Seq(Row) /\ Len(rows) <= MaxRows /\ KeysUnique(rows)
    /\ \A i \in DOMAIN rows : SellHasAverage(rows[i])
    /\ Replay(rows).failed = FALSE /\ Replay(rows).ledger = rows

\* POST /sales is the one request that keeps an item it read without the lock.
Fresh(r) == r.op = "trade" => r.route # "sales"

Asked(r) ==
    \/ r \in Trades
    \/ r \in Corrections \cup Voids /\ r.row \in DOMAIN ledger

\* What a session under the lock sends goes on from what is committed.
Ready(f, it) ==
    f.ok => /\ Sound(f.ledger) /\ Grows(f.ledger, ledger)
            /\ f.item = Settled(it, Replay(f.ledger))

SessionInv(s) ==
    /\ at[s] = "waiting" =>
          /\ Asked(request[s])
          /\ Fresh(request[s]) => copy[s] = Unread
    /\ at[s] = "locked" =>
          /\ lock = s /\ copy[s] \in Item /\ Ready(flush[s], copy[s])
          /\ Fresh(request[s]) => copy[s] = item
    /\ at[s] = "writing" => request[s] \in Writes /\ copy[s] \in Item

IInv == TypeOK /\ Sound(ledger) /\ \A s \in Sessions : SessionInv(s)

\* What the action properties say of one step.
RowsSurviveHere ==
    \A i \in DOMAIN ledger :
        /\ i \in DOMAIN ledger'
        /\ \A c \in {"side", "type", "quantity", "key"} : ledger'[i][c] = ledger[i][c]
        /\ ledger[i].status = "VOIDED" => ledger'[i].status = "VOIDED"

FreshSetsHere ==
    \A s \in Sessions :
        /\ at[s] = "locked" /\ lock = s /\ ledger' # ledger
        /\ request[s].op = "trade" => request[s].route # "sales"
        =>
           /\ item'.quantity = Replay(ledger').quantity
           /\ item'.average = Replay(ledger').average

StepKept == RowsSurviveHere /\ FreshSetsHere

-----------------------------------------------------------------------------
(* The rows a request replays.                                             *)

LEMMA NewRowFacts ==
    ASSUME NEW side \in {"BUY", "SELL"}, NEW type \in {"OPENING_BALANCE", "NORMAL"},
           NEW t \in Int, NEW q \in Nat \ {0}, NEW p \in Nat \ {0},
           NEW key \in Keys \cup {NoKey}
    PROVE  /\ NewRow(side, type, t, q, p, key) \in Row
           /\ IsActive(NewRow(side, type, t, q, p, key))
           /\ NewRow(side, type, t, q, p, key).key = key
BY DEF NewRow, Row, Status, IsActive

\* The opening balance comes first or not at all.
LEMMA OpenedFacts ==
    ASSUME Sound(ledger), NEW it \in Item, MayTrade(it, ledger)
    PROVE  LET rows == Opened(it, ledger, 1) IN
           /\ rows \in Seq(Row) /\ Len(ledger) <= Len(rows)
           /\ \A i \in DOMAIN rows \ DOMAIN ledger : IsActive(rows[i]) /\ rows[i].key = NoKey
           /\ \A i \in DOMAIN ledger : rows[i] = ledger[i]
<1> DEFINE rows == Opened(it, ledger, 1)
<1>1. ledger \in Seq(Row) /\ Len(ledger) \in Nat
  BY LenProperties DEF Sound
<1>2. CASE ~NeedsOpening(it, ledger)
  BY <1>1, <1>2 DEF Opened
<1>3. CASE NeedsOpening(it, ledger)
  <2> DEFINE row == NewRow("BUY", "OPENING_BALANCE", 0, it.quantity, it.average, NoKey)
             open == OpeningBalance(it, 1)
  <2>1. it.quantity \in Nat \ {0} /\ it.average \in Nat \ {0}
    BY <1>3 DEF MayTrade, NeedsOpening, Item
  <2>2. row \in Row /\ IsActive(row) /\ row.key = NoKey
    <3>1. NoKey \in Keys \cup {NoKey}
      OBVIOUS
    <3> QED
      BY <2>1, <3>1, NewRowFacts
  <2>3. open = [row EXCEPT !.quantity_after = it.quantity, !.average_after = it.average]
    BY DEF OpeningBalance
  <2> HIDE DEF row, open
  <2>4. open \in Row /\ IsActive(open) /\ open.key = NoKey
    BY <2>1, <2>2, <2>3 DEF Row, IsActive
  <2>5. rows = <<open>> /\ ledger = <<>>
    BY <1>3 DEF Opened, NeedsOpening, open
  <2> HIDE DEF rows
  <2>6. Len(ledger) = 0 /\ DOMAIN ledger = {} /\ Len(rows) = 1 /\ DOMAIN rows = {1}
        /\ rows[1] = open /\ rows \in Seq(Row)
    BY <2>4, <2>5
  <2> QED
    BY <2>4, <2>6 DEF rows
<1> QED
  BY <1>2, <1>3

\* Rows that go on from the committed ones and can be replayed.
Replayable(rows) ==
    /\ rows \in Seq(Row) /\ VoidedSellsHaveAverage(rows)
    /\ Grows(rows, ledger) /\ KeysUnique(rows)

LEMMA TradeRows ==
    ASSUME Sound(ledger), NEW it \in Item, NEW r \in Trades, Goes(r, it)
    PROVE  Replayable(Append(Opened(it, ledger, 1),
                             NewRow(r.side, "NORMAL", 1, r.quantity, r.price, r.key)))
<1> DEFINE row == NewRow(r.side, "NORMAL", 1, r.quantity, r.price, r.key)
           opened == Opened(it, ledger, 1)
           rows == Append(opened, row)
<1>1. /\ r.op = "trade" /\ r.side \in {"BUY", "SELL"} /\ r.quantity \in Nat \ {0}
      /\ r.price \in Nat \ {0} /\ r.key \in Keys \cup {NoKey}
  BY ConcurrencyAssumption DEF Trades
<1>2. row \in Row /\ IsActive(row) /\ row.key = r.key
  <2>1. \A side \in {"BUY", "SELL"}, q \in Nat \ {0}, p \in Nat \ {0}, key \in Keys \cup {NoKey} :
           /\ NewRow(side, "NORMAL", 1, q, p, key) \in Row
           /\ IsActive(NewRow(side, "NORMAL", 1, q, p, key))
           /\ NewRow(side, "NORMAL", 1, q, p, key).key = key
    BY NewRowFacts
  <2> QED
    BY <1>1, <2>1
<1>3. MayTrade(it, ledger) /\ ~HasKey(ledger, r.key)
  BY <1>1 DEF Goes
<1>4. /\ opened \in Seq(Row) /\ Len(ledger) <= Len(opened)
      /\ \A i \in DOMAIN opened \ DOMAIN ledger : IsActive(opened[i]) /\ opened[i].key = NoKey
      /\ \A i \in DOMAIN ledger : opened[i] = ledger[i]
  BY <1>3, OpenedFacts
<1> HIDE DEF row, opened
<1>5. /\ rows \in Seq(Row) /\ Len(rows) = Len(opened) + 1 /\ rows[Len(rows)] = row
      /\ \A i \in 1..Len(opened) : rows[i] = opened[i]
  BY <1>2, <1>4, AppendProperties
<1>6. /\ DOMAIN rows = 1..Len(rows) /\ DOMAIN opened = 1..Len(opened)
      /\ DOMAIN ledger = 1..Len(ledger) /\ Len(opened) \in Nat /\ Len(ledger) \in Nat
  BY <1>4, <1>5, LenProperties DEF Sound
<1> HIDE DEF rows
<1>7. ASSUME NEW i \in DOMAIN rows
      PROVE  \/ i \in DOMAIN ledger /\ rows[i] = ledger[i]
             \/ i \notin DOMAIN ledger /\ i # Len(rows) /\ IsActive(rows[i]) /\ rows[i].key = NoKey
             \/ i \notin DOMAIN ledger /\ i = Len(rows) /\ rows[i] = row
  <2>1. CASE i = Len(rows)
    BY <1>4, <1>5, <1>6, <2>1
  <2>2. CASE i # Len(rows)
    <3>1. i \in DOMAIN opened
      BY <1>5, <1>6, <2>2
    <3> QED
      BY <1>4, <1>5, <1>6, <2>2, <3>1
  <2> QED
    BY <2>1, <2>2
<1>8. \A i \in DOMAIN ledger : i \in DOMAIN rows /\ rows[i] = ledger[i]
  BY <1>4, <1>5, <1>6
<1>9. VoidedSellsHaveAverage(rows)
  BY <1>2, <1>7 DEF VoidedSellsHaveAverage, Sound
<1>10. Grows(rows, ledger)
  BY <1>4, <1>5, <1>6, <1>8 DEF Grows, SameRow
<1>11. KeysUnique(rows)
  <2> SUFFICES ASSUME NEW i \in DOMAIN rows, NEW j \in DOMAIN rows,
                      rows[i].key = rows[j].key, rows[i].key # NoKey
               PROVE  i = j
    BY DEF KeysUnique
  <2>1. \A k \in DOMAIN ledger : ledger[k].key # r.key \/ r.key = NoKey
    BY <1>3 DEF HasKey
  <2>2. CASE i \in DOMAIN ledger /\ j \in DOMAIN ledger
    BY <1>8, <2>2 DEF Sound, KeysUnique
  <2>3. CASE i \notin DOMAIN ledger \/ j \notin DOMAIN ledger
    BY <1>2, <1>7, <1>8, <2>1, <2>3
  <2> QED
    BY <2>2, <2>3
<1> QED
  BY <1>5, <1>9, <1>10, <1>11 DEF Replayable, rows, row, opened

\* Replacing an active row by one with its identity.
LEMMA RewrittenRows ==
    ASSUME Sound(ledger), NEW i \in DOMAIN ledger, IsActive(ledger[i]), NEW row \in Row,
           row.average_before = ledger[i].average_before, row.side = ledger[i].side,
           row.type = ledger[i].type, row.quantity = ledger[i].quantity,
           row.key = ledger[i].key
    PROVE  Replayable([ledger EXCEPT ![i] = row])
<1> DEFINE rows == [ledger EXCEPT ![i] = row]
           L == Len(ledger)
<1>1. ledger \in Rows(L) /\ L \in Nat /\ DOMAIN ledger = 1..L
  BY LenProperties DEF Sound, Rows
<1>2. /\ rows \in Rows(L) /\ rows[i] = row
      /\ \A j \in 1..L : j # i => rows[j] = ledger[j]
  BY <1>1, RowsExcept
<1> HIDE DEF rows
<1>3. rows \in Seq(Row) /\ Len(rows) = L /\ DOMAIN rows = 1..L
  BY <1>1, <1>2, RowInRows
<1>4. VoidedSellsHaveAverage(rows)
  BY <1>1, <1>2, <1>3 DEF VoidedSellsHaveAverage, SellHasAverage, Sound
<1>5. Grows(rows, ledger)
  <2>1. SameRow(rows[i], ledger[i])
    <3>1. rows[i].side = ledger[i].side /\ rows[i].type = ledger[i].type
          /\ rows[i].quantity = ledger[i].quantity /\ rows[i].key = ledger[i].key
      BY <1>2
    <3> QED
      BY <3>1 DEF SameRow, IsActive
  <2>2. \A j \in 1..L : j # i => SameRow(rows[j], ledger[j])
    BY <1>2 DEF SameRow
  <2>3. Len(ledger) <= Len(rows)
    BY <1>1, <1>3
  <2> QED
    BY <1>1, <2>1, <2>2, <2>3 DEF Grows
<1>6. KeysUnique(rows)
  BY <1>1, <1>2, <1>3 DEF KeysUnique, Sound
<1> QED
  BY <1>3, <1>4, <1>5, <1>6 DEF Replayable, rows

\* The row a correction or a void puts in the place of row r.row.
LEMMA RewrittenRow ==
    ASSUME Sound(ledger), NEW i \in DOMAIN ledger, NEW p \in Nat \ {0}
    PROVE  /\ [ledger EXCEPT ![i].unit_price = p] =
                 [ledger EXCEPT ![i] = [ledger[i] EXCEPT !.unit_price = p]]
           /\ [ledger EXCEPT ![i].status = "VOIDED"] =
                 [ledger EXCEPT ![i] = [ledger[i] EXCEPT !.status = "VOIDED"]]
           /\ [ledger[i] EXCEPT !.unit_price = p] \in Row
           /\ [ledger[i] EXCEPT !.status = "VOIDED"] \in Row
           /\ \A row \in {[ledger[i] EXCEPT !.unit_price = p],
                          [ledger[i] EXCEPT !.status = "VOIDED"]} :
                 /\ row.average_before = ledger[i].average_before
                 /\ row.side = ledger[i].side /\ row.type = ledger[i].type
                 /\ row.quantity = ledger[i].quantity /\ row.key = ledger[i].key
<1>1. ledger[i] \in Row
  BY LenProperties, ElementOfSeq DEF Sound
<1>2. [ledger[i] EXCEPT !.unit_price = p] \in Row /\ [ledger[i] EXCEPT !.status = "VOIDED"] \in Row
  BY <1>1 DEF Row, Status
<1>3. \A row \in {[ledger[i] EXCEPT !.unit_price = p], [ledger[i] EXCEPT !.status = "VOIDED"]} :
         /\ row.average_before = ledger[i].average_before
         /\ row.side = ledger[i].side /\ row.type = ledger[i].type
         /\ row.quantity = ledger[i].quantity /\ row.key = ledger[i].key
  BY <1>1 DEF Row
<1> QED
  BY <1>2, <1>3

\* Whatever the request, what it replays goes on from the committed rows.
LEMMA RunOfFacts ==
    ASSUME Sound(ledger), NEW it \in Item, NEW r, Asked(r), Goes(r, it)
    PROVE  \E rows : Replayable(rows) /\ RunOf(r, it) = Replay(rows)
<1>1. CASE r \in Trades
  <2>1. r.op = "trade"
    BY <1>1 DEF Trades
  <2>2. RunOf(r, it) = Replay(Append(Opened(it, ledger, 1),
                             NewRow(r.side, "NORMAL", 1, r.quantity, r.price, r.key)))
    BY <2>1 DEF RunOf
  <2> QED
    BY <1>1, <2>2, TradeRows
<1>2. CASE r \in Corrections /\ r.row \in DOMAIN ledger
  <2>1. r.op = "correct" /\ r.price \in Nat \ {0}
    BY <1>2, ConcurrencyAssumption DEF Corrections
  <2> DEFINE row == [ledger[r.row] EXCEPT !.unit_price = r.price]
  <2>2. RunOf(r, it) = Replay([ledger EXCEPT ![r.row].unit_price = r.price])
    BY <2>1 DEF RunOf
  <2>3. IsActive(ledger[r.row])
    BY <2>1 DEF Goes
  <2>4. /\ [ledger EXCEPT ![r.row].unit_price = r.price] = [ledger EXCEPT ![r.row] = row]
        /\ row \in Row /\ row.average_before = ledger[r.row].average_before
        /\ row.side = ledger[r.row].side /\ row.type = ledger[r.row].type
        /\ row.quantity = ledger[r.row].quantity /\ row.key = ledger[r.row].key
    BY <1>2, <2>1, RewrittenRow
  <2> HIDE DEF row
  <2>5. Replayable([ledger EXCEPT ![r.row] = row])
    BY <1>2, <2>3, <2>4, RewrittenRows
  <2> QED
    BY <2>2, <2>4, <2>5
<1>3. CASE r \in Voids /\ r.row \in DOMAIN ledger
  <2>1. r.op = "void"
    BY <1>3 DEF Voids
  <2> DEFINE row == [ledger[r.row] EXCEPT !.status = "VOIDED"]
  <2>2. RunOf(r, it) = Replay([ledger EXCEPT ![r.row].status = "VOIDED"])
    BY <2>1 DEF RunOf
  <2>3. IsActive(ledger[r.row])
    BY <2>1 DEF Goes
  <2>4. /\ [ledger EXCEPT ![r.row].status = "VOIDED"] = [ledger EXCEPT ![r.row] = row]
        /\ row \in Row /\ row.average_before = ledger[r.row].average_before
        /\ row.side = ledger[r.row].side /\ row.type = ledger[r.row].type
        /\ row.quantity = ledger[r.row].quantity /\ row.key = ledger[r.row].key
    <3>1. 1 \in Nat \ {0}
      OBVIOUS
    <3> QED
      BY <1>3, <3>1, RewrittenRow
  <2> HIDE DEF row
  <2>5. Replayable([ledger EXCEPT ![r.row] = row])
    BY <1>3, <2>3, <2>4, RewrittenRows
  <2> QED
    BY <2>2, <2>4, <2>5
<1> QED
  BY <1>1, <1>2, <1>3 DEF Asked

\* A replay that did not raise can be committed.
LEMMA ReplayIsSound ==
    ASSUME NEW rows, Replayable(rows), ledger \in Seq(Row),
           Replay(rows).failed = FALSE, Len(Replay(rows).ledger) <= MaxRows
    PROVE  LET run == Replay(rows) IN
           /\ run \in Runs(Len(rows))
           /\ Sound(run.ledger) /\ Grows(run.ledger, ledger)
           /\ Replay(run.ledger) = run
<1> DEFINE run == Replay(rows)
           L == Len(rows)
<1>1. rows \in Seq(Row) /\ VoidedSellsHaveAverage(rows)
  BY DEF Replayable
<1>2. /\ run \in Runs(L)
      /\ \A i \in 1..L : SameTerms(run.ledger[i], rows[i]) /\ SellHasAverage(run.ledger[i])
  BY <1>1, ReplayFacts DEF Replay
<1>3. Replay(run.ledger) = run
  BY <1>1, ReplayAgain
<1>4. run.failed = FALSE /\ Len(run.ledger) <= MaxRows
  OBVIOUS
<1> HIDE DEF run
<1>5. /\ run.ledger \in Seq(Row) /\ Len(run.ledger) = L /\ DOMAIN run.ledger = 1..L
      /\ L \in Nat /\ DOMAIN rows = 1..L
  BY <1>1, <1>2, RowInRows, LenProperties DEF Runs
<1>6. KeysUnique(run.ledger)
  <2>1. \A i \in 1..L : run.ledger[i].key = rows[i].key
    BY <1>2 DEF SameTerms
  <2> QED
    BY <1>5, <2>1 DEF KeysUnique, Replayable
<1>7. Grows(run.ledger, ledger)
  <2>1. Len(ledger) <= L /\ \A i \in DOMAIN ledger : SameRow(rows[i], ledger[i])
    BY DEF Replayable, Grows
  <2>2. DOMAIN ledger = 1..Len(ledger) /\ Len(ledger) \in Nat
    BY LenProperties
  <2>3. ASSUME NEW i \in DOMAIN ledger
        PROVE  SameRow(run.ledger[i], ledger[i])
    <3>1. i \in 1..L
      BY <1>5, <2>1, <2>2
    <3>2. SameTerms(run.ledger[i], rows[i])
      BY <1>2, <3>1
    <3>3. /\ run.ledger[i].side = rows[i].side /\ run.ledger[i].type = rows[i].type
          /\ run.ledger[i].quantity = rows[i].quantity /\ run.ledger[i].key = rows[i].key
          /\ run.ledger[i].status = rows[i].status
      BY <3>2 DEF SameTerms
    <3> QED
      BY <2>1, <3>3 DEF SameRow
  <2> QED
    BY <1>5, <2>1, <2>3 DEF Grows
<1>8. Sound(run.ledger)
  BY <1>2, <1>3, <1>4, <1>5, <1>6 DEF Sound
<1> QED
  BY <1>2, <1>3, <1>7, <1>8 DEF run

Flushes == [ok : {TRUE}, ledger : Seq(Row), item : Item, sales : SUBSET (1..MaxRows)]

LEMMA SettledType ==
    ASSUME NEW it \in Item, NEW L \in Nat, NEW run \in Runs(L)
    PROVE  /\ Settled(it, run) \in Item
           /\ Settled(it, run).quantity = run.quantity
           /\ Settled(it, run).average = run.average
<1> DEFINE position == CASE run.quantity > 0 -> "HOLDING"
                        [] run.quantity = 0 /\ run.active > 0 -> "CLOSED"
                        [] OTHER -> "EMPTY"
           holding == HoldingOf(position, it.tracking)
<1>1. Settled(it, run) = [it EXCEPT !.quantity = run.quantity, !.average = run.average,
                                    !.position = position, !.holding = holding]
  BY DEF Settled
<1>2. position \in PositionStatus /\ holding \in HoldingStatus
  BY DEF PositionStatus, HoldingStatus, HoldingOf
<1> HIDE DEF position, holding
<1>3. run.quantity \in Nat /\ run.average \in Nat
  BY DEF Runs
<1> QED
  BY <1>1, <1>2, <1>3 DEF Item

\* What a request has to send once it holds the lock.
LEMMA ReplayedFacts ==
    ASSUME Sound(ledger), NEW it \in Item, NEW r, Asked(r)
    PROVE  Replayed(r, it) \in {Nothing} \cup Flushes /\ Ready(Replayed(r, it), it)
<1> DEFINE run == RunOf(r, it)
           sent == {i \in DOMAIN ledger : /\ ledger[i].side = "SELL"
                                          /\ SaleOf(run.ledger[i]) # SaleOf(ledger[i])}
<1>1. CASE ~Goes(r, it) \/ run.failed \/ Len(run.ledger) > MaxRows
  <2>1. Replayed(r, it) = Nothing
    BY <1>1 DEF Replayed
  <2>2. Nothing.ok = FALSE
    BY DEF Nothing
  <2> QED
    BY <2>1, <2>2 DEF Ready
<1>2. CASE ~(~Goes(r, it) \/ run.failed \/ Len(run.ledger) > MaxRows)
  <2>1. Replayed(r, it) = [ok |-> TRUE, ledger |-> run.ledger, item |-> Settled(it, run),
                           sales |-> sent]
    BY <1>2 DEF Replayed
  <2>2. PICK rows : Replayable(rows) /\ run = Replay(rows)
    BY <1>2, RunOfFacts
  <2>3. ~run.failed /\ ~(Len(run.ledger) > MaxRows)
    BY <1>2
  <2> HIDE DEF run, sent
  <2>4. rows \in Seq(Row) /\ Len(rows) \in Nat /\ ledger \in Seq(Row)
    BY <2>2, LenProperties DEF Replayable, Sound
  <2>5. Replay(rows).failed = FALSE /\ Len(Replay(rows).ledger) <= MaxRows
    <3>1. RunInv(rows, Len(rows), ReplayIn(rows, rows))
      BY <2>2, <2>4, ReplayEnds DEF Replayable
    <3>2. run \in Runs(Len(rows))
      BY <2>2, <3>1 DEF RunInv, Replay
    <3>3. run.failed = FALSE /\ Len(run.ledger) \in Nat
      BY <2>3, <2>4, <3>2, RowInRows DEF Runs
    <3> QED
      BY <2>2, <2>3, <3>3, ConcurrencyAssumption
  <2>6. /\ run \in Runs(Len(rows)) /\ Sound(run.ledger) /\ Grows(run.ledger, ledger)
        /\ Replay(run.ledger) = run
    BY <2>2, <2>4, <2>5, ReplayIsSound
  <2>7. Settled(it, run) \in Item
    BY <2>4, <2>6, SettledType
  <2>8. run.ledger \in Seq(Row)
    BY <2>6 DEF Sound
  <2>9. sent \subseteq 1..MaxRows
    <3>1. Len(ledger) <= Len(run.ledger)
      BY <2>6 DEF Grows
    <3>2. /\ DOMAIN ledger = 1..Len(ledger) /\ Len(ledger) \in Nat /\ Len(run.ledger) \in Nat
          /\ MaxRows \in Nat
      BY <2>4, <2>8, LenProperties, ConcurrencyAssumption
    <3>3. DOMAIN ledger \subseteq 1..MaxRows
      BY <2>3, <3>1, <3>2
    <3> QED
      BY <3>3 DEF sent
  <2>10. Replayed(r, it) \in Flushes
    BY <2>1, <2>7, <2>8, <2>9 DEF Flushes
  <2>11. Ready(Replayed(r, it), it)
    BY <2>1, <2>6 DEF Ready
  <2> QED
    BY <2>10, <2>11
<1> QED
  BY <1>1, <1>2

-----------------------------------------------------------------------------
(* What the actions have in common.                                        *)

LEMMA GrowsFacts ==
    ASSUME NEW rows \in Seq(Row), NEW old \in Seq(Row), Grows(rows, old)
    PROVE  DOMAIN old \subseteq DOMAIN rows
BY LenProperties DEF Grows

LEMMA GrowsItself == \A rows \in Seq(Row) : Grows(rows, rows)
BY LenProperties DEF Grows, SameRow

\* A session that does not move keeps what is said of it.
LEMMA OtherSession ==
    ASSUME NEW t, SessionInv(t), at'[t] = at[t], request'[t] = request[t],
           copy'[t] = copy[t], flush'[t] = flush[t],
           at[t] = "locked" => lock' = lock /\ item' = item /\ ledger' = ledger,
           DOMAIN ledger \subseteq DOMAIN ledger'
    PROVE  SessionInv(t)'
<1>1. at[t] = "waiting" => Asked(request[t])' /\ (Fresh(request[t])' => copy'[t] = Unread)
  BY DEF SessionInv, Fresh, Asked
<1>2. at[t] = "locked" => /\ lock' = t /\ copy'[t] \in Item
                          /\ Fresh(request[t])' => copy'[t] = item'
  BY DEF SessionInv, Fresh
<1>3. at[t] = "locked" => Ready(flush[t], copy[t])'
  BY DEF SessionInv, Ready
<1>4. at[t] = "writing" => request'[t] \in Writes /\ copy'[t] \in Item
  BY DEF SessionInv
<1> QED
  BY <1>1, <1>2, <1>3, <1>4 DEF SessionInv

\* The end of a request, with what it commits.
LEMMA EndKeeps ==
    ASSUME IInv, NEW s \in Sessions, End(s), item' \in Item, Sound(ledger'),
           Grows(ledger', ledger),
           \A t \in Sessions : at[t] = "locked" /\ t # s => item' = item /\ ledger' = ledger
    PROVE  IInv'
<1>1. DOMAIN ledger \subseteq DOMAIN ledger'
  BY GrowsFacts DEF IInv, Sound
<1>2. TypeOK'
  <2>1. TypeOK
    BY DEF IInv
  <2>2. lock' \in Sessions \cup {Free} /\ saleLock' \in [1..MaxRows -> Sessions \cup {Free}]
    BY <2>1 DEF End, TypeOK
  <2>3. /\ at' \in [Sessions -> {"idle", "waiting", "locked", "writing"}]
        /\ request' \in [Sessions -> Trades \cup Corrections \cup Voids \cup Writes \cup {NoRequest}]
        /\ copy' \in [Sessions -> Item \cup {Unread}]
    BY <2>1 DEF End, TypeOK
  <2>4. flush' \in [Sessions -> {Nothing} \cup
                  [ok : {TRUE}, ledger : Seq(Row), item : Item, sales : SUBSET (1..MaxRows)]]
    BY <2>1 DEF End, TypeOK
  <2>5. ledger' \in Seq(Row)
    BY DEF Sound
  <2> QED
    BY <2>2, <2>3, <2>4, <2>5 DEF TypeOK
<1>3. ASSUME NEW t \in Sessions
      PROVE  SessionInv(t)'
  <2>1. CASE t = s
    <3>1. at'[t] = "idle"
      BY <2>1 DEF End, IInv, TypeOK
    <3> QED
      BY <3>1 DEF SessionInv
  <2>2. CASE t # s
    <3>1. /\ at'[t] = at[t] /\ request'[t] = request[t]
          /\ copy'[t] = copy[t] /\ flush'[t] = flush[t]
      BY <2>2 DEF End, IInv, TypeOK
    <3>2. SessionInv(t)
      BY DEF IInv
    <3>3. at[t] = "locked" => lock' = lock /\ item' = item /\ ledger' = ledger
      BY <2>2, <3>2 DEF SessionInv, End
    <3> QED
      BY <1>1, <3>1, <3>2, <3>3, OtherSession
  <2> QED
    BY <2>1, <2>2
<1> QED
  BY <1>2, <1>3 DEF IInv

\* A request that comes in or gets on, with the state of its session.
LEMMA SessionKeeps ==
    ASSUME IInv, NEW s \in Sessions, UNCHANGED <<item, ledger>>,
           NEW r \in Trades \cup Corrections \cup Voids \cup Writes \cup {NoRequest},
           NEW it \in Item \cup {Unread}, NEW f \in {Nothing} \cup Flushes,
           NEW step \in {"idle", "waiting", "locked", "writing"},
           at' = [at EXCEPT ![s] = step], request' = [request EXCEPT ![s] = r],
           copy' = [copy EXCEPT ![s] = it], flush' = [flush EXCEPT ![s] = f],
           saleLock' \in [1..MaxRows -> Sessions \cup {Free}],
           lock' = lock \/ (lock = Free /\ lock' = s),
           SessionInv(s)'
    PROVE  IInv'
<1>1. TypeOK'
  BY DEF IInv, TypeOK, Flushes
<1>2. ASSUME NEW t \in Sessions
      PROVE  SessionInv(t)'
  <2>1. CASE t # s
    <3>1. /\ at'[t] = at[t] /\ request'[t] = request[t]
          /\ copy'[t] = copy[t] /\ flush'[t] = flush[t]
      BY <2>1 DEF IInv, TypeOK
    <3>2. SessionInv(t)
      BY DEF IInv
    <3>3. at[t] = "locked" => lock' = lock /\ item' = item /\ ledger' = ledger
      BY <3>2, ConcurrencyAssumption DEF SessionInv
    <3>4. DOMAIN ledger \subseteq DOMAIN ledger'
      OBVIOUS
    <3> QED
      BY <3>1, <3>2, <3>3, <3>4, OtherSession
  <2> QED
    BY <2>1
<1>3. Sound(ledger)'
  BY DEF IInv, Sound
<1> QED
  BY <1>1, <1>2, <1>3 DEF IInv

\* The new values of the session that moves.
LEMMA Moved ==
    ASSUME TypeOK, NEW s \in Sessions, NEW r, NEW it, NEW f, NEW step,
           at' = [at EXCEPT ![s] = step], request' = [request EXCEPT ![s] = r],
           copy' = [copy EXCEPT ![s] = it], flush' = [flush EXCEPT ![s] = f]
    PROVE  at'[s] = step /\ request'[s] = r /\ copy'[s] = it /\ flush'[s] = f
BY DEF TypeOK

LEMMA SameRowsKept ==
    ASSUME IInv, UNCHANGED ledger
    PROVE  StepKept
BY DEF StepKept, RowsSurviveHere, FreshSetsHere

\* A flush keeps the columns of an item columns of an item.
LEMMA FlushedFacts ==
    ASSUME item \in Item, NEW loaded \in Item, NEW new \in Item
    PROVE  /\ Flushed(loaded, new) \in Item
           /\ loaded = item => Flushed(loaded, new) = new
<1> DEFINE out == Flushed(loaded, new)
           columns == {"quantity", "average", "position", "holding", "tracking", "archived"}
<1>1. DOMAIN item = columns /\ DOMAIN new = columns
  BY DEF Item
<1>2. out = [c \in columns |-> IF new[c] # loaded[c] THEN new[c] ELSE item[c]]
  BY <1>1 DEF Flushed
<1>3. out \in Item
  <2>1. \A c \in columns : out[c] = new[c] \/ out[c] = item[c]
    BY <1>2
  <2> HIDE DEF out
  <2>2. /\ out["quantity"] \in Nat /\ out["average"] \in Nat
        /\ out["position"] \in PositionStatus /\ out["holding"] \in HoldingStatus
        /\ out["tracking"] \in TrackingStatus /\ out["archived"] \in BOOLEAN
    BY <2>1 DEF Item
  <2> QED
    BY <1>2, <2>2 DEF Item
<1>4. loaded = item => out = new
  <2> SUFFICES ASSUME loaded = item
               PROVE  out = new
    OBVIOUS
  <2>1. \A c \in columns : out[c] = new[c]
    BY <1>2
  <2> QED
    BY <1>1, <1>2, <2>1 DEF Item
<1> QED
  BY <1>3, <1>4

-----------------------------------------------------------------------------
(* One lemma per action.                                                   *)

AllRequests == Trades \cup Corrections \cup Voids \cup Writes \cup {NoRequest}

LEMMA InitFacts == Init => IInv
<1> SUFFICES ASSUME Init
             PROVE  IInv
  OBVIOUS
<1>1. ledger = <<>> /\ ledger \in Seq(Row) /\ Len(ledger) = 0 /\ DOMAIN ledger = {}
  BY DEF Init
<1>2. Replay(ledger).failed = FALSE /\ Replay(ledger).ledger = ledger
  <2>1. VoidedSellsHaveAverage(ledger)
    BY <1>1 DEF VoidedSellsHaveAverage
  <2>2. PICK f : IsHistory(f, ledger, ledger) /\ ReplayIn(ledger, ledger) = f[Len(ledger)]
    BY <1>1, <2>1, ReplayHistory
  <2>3. f[0] = ReplayStart(ledger)
    BY <2>2 DEF IsHistory
  <2> QED
    BY <1>1, <2>2, <2>3 DEF ReplayStart, Replay
<1>3. Sound(ledger)
  BY <1>1, <1>2, ConcurrencyAssumption DEF Sound, KeysUnique
<1>4. TypeOK
  BY <1>1, ConcurrencyAssumption DEF Init, TypeOK
<1>5. \A s \in Sessions : SessionInv(s)
  BY DEF Init, SessionInv
<1> QED
  BY <1>3, <1>4, <1>5 DEF IInv

LEMMA AskLedgerFacts ==
    ASSUME IInv, NEW s \in Sessions, AskLedger(s)
    PROVE  IInv' /\ StepKept
<1>1. PICK r \in Trades \cup Corrections \cup Voids :
         /\ IF r.op = "trade" THEN r.route = "transactions" ELSE r.row \in DOMAIN ledger
         /\ Ask(s, r, item, "locked")
         /\ flush' = [flush EXCEPT ![s] = Replayed(r, item)]
  BY DEF AskLedger
<1>2. lock = Free /\ lock' = s /\ UNCHANGED <<item, ledger, saleLock>>
  BY DEF AskLedger
<1> DEFINE f == Replayed(r, item)
<1>3. TypeOK /\ Sound(ledger) /\ item \in Item
  BY DEF IInv, TypeOK
<1>4. Asked(r)
  <2>1. CASE r \in Trades
    BY <2>1 DEF Asked
  <2>2. CASE r \in Corrections \cup Voids
    <3>1. r.op # "trade"
      BY <2>2 DEF Corrections, Voids
    <3> QED
      BY <1>1, <2>2, <3>1 DEF Asked
  <2> QED
    BY <2>1, <2>2
<1>5. f \in {Nothing} \cup Flushes /\ Ready(f, item)
  BY <1>3, <1>4, ReplayedFacts
<1>6. Fresh(r)
  BY <1>1 DEF Fresh
<1> HIDE DEF f
<1>7. /\ at' = [at EXCEPT ![s] = "locked"] /\ request' = [request EXCEPT ![s] = r]
      /\ copy' = [copy EXCEPT ![s] = item] /\ flush' = [flush EXCEPT ![s] = f]
  BY <1>1 DEF Ask, f
<1>8. at'[s] = "locked" /\ request'[s] = r /\ copy'[s] = item /\ flush'[s] = f
  BY <1>3, <1>7, Moved
<1>9. SessionInv(s)'
  <2>1. Ready(flush[s], copy[s])'
    BY <1>2, <1>5, <1>8 DEF Ready
  <2> QED
    BY <1>2, <1>3, <1>8, <2>1 DEF SessionInv
<1>10. IInv'
  BY <1>2, <1>3, <1>5, <1>7, <1>9, SessionKeeps DEF TypeOK
<1> QED
  BY <1>2, <1>10, SameRowsKept

LEMMA AskSaleFacts ==
    ASSUME IInv, NEW s \in Sessions, AskSale(s)
    PROVE  IInv' /\ StepKept
<1>1. PICK r \in Trades : r.route = "sales" /\ Ask(s, r, item, "waiting")
  BY DEF AskSale
<1>2. UNCHANGED <<item, ledger, lock, saleLock, flush>>
  BY DEF AskSale
<1>3. TypeOK /\ item \in Item
  BY DEF IInv, TypeOK
<1>4. flush' = [flush EXCEPT ![s] = flush[s]] /\ flush[s] \in {Nothing} \cup Flushes
  BY <1>2, <1>3 DEF TypeOK, Flushes
<1>5. /\ at' = [at EXCEPT ![s] = "waiting"] /\ request' = [request EXCEPT ![s] = r]
      /\ copy' = [copy EXCEPT ![s] = item]
  BY <1>1 DEF Ask
<1>6. at'[s] = "waiting" /\ request'[s] = r
  BY <1>3, <1>4, <1>5, Moved
<1>7. r.op = "trade"
  BY DEF Trades
<1>8. SessionInv(s)'
  BY <1>1, <1>6, <1>7 DEF SessionInv, Asked, Fresh
<1>9. IInv'
  BY <1>2, <1>3, <1>4, <1>5, <1>8, SessionKeeps DEF TypeOK
<1> QED
  BY <1>2, <1>9, SameRowsKept

LEMMA AskVoidSaleFacts ==
    ASSUME IInv, NEW s \in Sessions, AskVoidSale(s)
    PROVE  IInv' /\ StepKept
<1>1. PICK i \in ActiveSales :
         /\ saleLock' = [saleLock EXCEPT ![i] = s]
         /\ Ask(s, [op |-> "void", row |-> i], Unread, "waiting")
         /\ UNCHANGED <<item, ledger, lock, flush>>
  BY DEF AskVoidSale
<1> DEFINE r == [op |-> "void", row |-> i]
<1>2. TypeOK
  BY DEF IInv
<1>3. flush' = [flush EXCEPT ![s] = flush[s]] /\ flush[s] \in {Nothing} \cup Flushes
  BY <1>1, <1>2 DEF TypeOK, Flushes
<1>4. i \in DOMAIN ledger /\ i \in 1..MaxRows
  <2>1. Len(ledger) \in Nat /\ DOMAIN ledger = 1..Len(ledger) /\ Len(ledger) <= MaxRows
    BY LenProperties DEF IInv, Sound
  <2> QED
    BY <2>1, ConcurrencyAssumption DEF ActiveSales
<1>5. r.op = "void" /\ r.row = i /\ r \in Voids
  BY <1>4 DEF Voids
<1> HIDE DEF r
<1>6. /\ at' = [at EXCEPT ![s] = "waiting"] /\ request' = [request EXCEPT ![s] = r]
      /\ copy' = [copy EXCEPT ![s] = Unread]
  BY <1>1 DEF Ask, r
<1>7. at'[s] = "waiting" /\ request'[s] = r /\ copy'[s] = Unread
  BY <1>2, <1>3, <1>6, Moved
<1>8. saleLock' \in [1..MaxRows -> Sessions \cup {Free}]
  BY <1>1, <1>2 DEF TypeOK
<1>9. SessionInv(s)'
  <2>1. Asked(request[s])'
    BY <1>1, <1>4, <1>5, <1>7 DEF Asked
  <2> QED
    BY <1>7, <2>1 DEF SessionInv
<1>10. IInv'
  BY <1>1, <1>3, <1>5, <1>6, <1>8, <1>9, SessionKeeps
<1> QED
  BY <1>1, <1>10, SameRowsKept

LEMMA AskWriteFacts ==
    ASSUME IInv, NEW s \in Sessions, AskWrite(s)
    PROVE  IInv' /\ StepKept
<1>1. PICK new \in {Edited(item, item.holding, e[1], e[2], item.tracking, FALSE) :
                      e \in {f \in Edits : EditAllowed(item, ledger, item.holding, f[1], f[2])}}
                  \cup {[item EXCEPT !.archived = ~@]} :
          Ask(s, [op |-> "write", item |-> new], item, "writing")
  BY DEF AskWrite
<1>2. UNCHANGED <<item, ledger, lock, saleLock, flush>>
  BY DEF AskWrite
<1>3. TypeOK /\ item \in Item
  BY DEF IInv, TypeOK
<1>4. new \in Item
  <2>1. CASE new = [item EXCEPT !.archived = ~@]
    BY <1>3, <2>1 DEF Item
  <2>2. ASSUME NEW e \in Edits,
               new = Edited(item, item.holding, e[1], e[2], item.tracking, FALSE)
        PROVE  new \in Item
    <3>1. e[1] \in Nat /\ e[2] \in Nat
      BY ConcurrencyAssumption
    <3> QED
      BY <1>3, <2>2, <3>1 DEF Edited, Item
  <2> QED
    BY <2>1, <2>2
<1> DEFINE r == [op |-> "write", item |-> new]
<1>5. r \in Writes
  BY <1>4 DEF Writes
<1> HIDE DEF r
<1>6. flush' = [flush EXCEPT ![s] = flush[s]] /\ flush[s] \in {Nothing} \cup Flushes
  BY <1>2, <1>3 DEF TypeOK, Flushes
<1>7. /\ at' = [at EXCEPT ![s] = "writing"] /\ request' = [request EXCEPT ![s] = r]
      /\ copy' = [copy EXCEPT ![s] = item]
  BY <1>1 DEF Ask, r
<1>8. at'[s] = "writing" /\ request'[s] = r /\ copy'[s] = item
  BY <1>3, <1>6, <1>7, Moved
<1>9. SessionInv(s)'
  BY <1>3, <1>5, <1>8 DEF SessionInv
<1>10. IInv'
  BY <1>2, <1>3, <1>5, <1>6, <1>7, <1>9, SessionKeeps DEF TypeOK
<1> QED
  BY <1>2, <1>10, SameRowsKept

LEMMA TakeLockFacts ==
    ASSUME IInv, NEW s \in Sessions, TakeLock(s)
    PROVE  IInv' /\ StepKept
<1> DEFINE it == IF copy[s] = Unread THEN item ELSE copy[s]
           r == request[s]
           f == Replayed(r, it)
<1>1. /\ at[s] = "waiting" /\ lock = Free /\ lock' = s
      /\ at' = [at EXCEPT ![s] = "locked"]
      /\ copy' = [copy EXCEPT ![s] = it] /\ flush' = [flush EXCEPT ![s] = f]
      /\ UNCHANGED <<item, ledger, saleLock, request>>
  BY DEF TakeLock
<1>2. TypeOK /\ Sound(ledger) /\ item \in Item /\ SessionInv(s)
  BY DEF IInv, TypeOK
<1>3. it \in Item
  BY <1>2 DEF TypeOK
<1>4. Asked(r) /\ (Fresh(r) => it = item)
  BY <1>1, <1>2 DEF SessionInv
<1>5. r \in AllRequests /\ request' = [request EXCEPT ![s] = r]
  BY <1>1, <1>2 DEF TypeOK, AllRequests
<1> HIDE DEF it, r
<1>6. f \in {Nothing} \cup Flushes /\ Ready(f, it)
  BY <1>2, <1>3, <1>4, ReplayedFacts
<1> HIDE DEF f
<1>7. at'[s] = "locked" /\ request'[s] = r /\ copy'[s] = it /\ flush'[s] = f
  BY <1>1, <1>2, <1>5, Moved
<1>8. SessionInv(s)'
  <2>1. Ready(flush[s], copy[s])'
    BY <1>1, <1>6, <1>7 DEF Ready
  <2> QED
    BY <1>1, <1>3, <1>4, <1>7, <2>1 DEF SessionInv
<1>9. IInv'
  BY <1>1, <1>2, <1>3, <1>5, <1>6, <1>8, SessionKeeps DEF TypeOK, AllRequests
<1> QED
  BY <1>1, <1>9, SameRowsKept

LEMMA CommitFacts ==
    ASSUME IInv, NEW s \in Sessions, Commit(s)
    PROVE  IInv' /\ StepKept
<1> DEFINE new == Flushed(copy[s], flush[s].item)
<1>1. /\ at[s] = "locked" /\ flush[s].ok /\ End(s)
      /\ \/ item' = new /\ ledger' = flush[s].ledger
         \/ UNCHANGED <<item, ledger>>
  BY DEF Commit, CanCommit
<1>2. TypeOK /\ Sound(ledger) /\ item \in Item /\ SessionInv(s)
  BY DEF IInv, TypeOK
<1>3. /\ lock = s /\ copy[s] \in Item /\ Sound(flush[s].ledger)
      /\ Grows(flush[s].ledger, ledger)
      /\ flush[s].item = Settled(copy[s], Replay(flush[s].ledger))
      /\ Fresh(request[s]) => copy[s] = item
  BY <1>1, <1>2 DEF SessionInv, Ready
<1>4. flush[s] \in Flushes
  <2>1. flush[s] \in {Nothing} \cup Flushes
    BY <1>2 DEF TypeOK, Flushes
  <2> QED
    BY <1>1, <2>1 DEF Nothing
<1>5. flush[s].item \in Item
  BY <1>4 DEF Flushes
<1>6. new \in Item /\ (copy[s] = item => new = flush[s].item)
  BY <1>2, <1>3, <1>5, FlushedFacts
<1> HIDE DEF new
<1>7. \A t \in Sessions : at[t] = "locked" => t = s
  BY <1>3 DEF IInv, SessionInv
<1>8. item' \in Item /\ Sound(ledger') /\ Grows(ledger', ledger)
  <2>1. Grows(ledger, ledger)
    BY <1>2, GrowsItself DEF Sound
  <2> QED
    BY <1>1, <1>2, <1>3, <1>6, <2>1
<1>9. IInv'
  BY <1>1, <1>7, <1>8, EndKeeps
<1>10. RowsSurviveHere
  <2>1. DOMAIN ledger \subseteq DOMAIN ledger'
    BY <1>2, <1>8, GrowsFacts DEF Sound
  <2> QED
    BY <1>8, <2>1 DEF Grows, SameRow, RowsSurviveHere
<1>11. FreshSetsHere
  <2> SUFFICES ASSUME NEW t \in Sessions, at[t] = "locked", ledger' # ledger,
                      request[t].op = "trade" => request[t].route # "sales"
               PROVE  /\ item'.quantity = Replay(ledger').quantity
                      /\ item'.average = Replay(ledger').average
    BY DEF FreshSetsHere
  <2>1. Fresh(request[s])
    BY <1>7 DEF Fresh
  <2>2. item' = Settled(copy[s], Replay(ledger')) /\ ledger' = flush[s].ledger
    BY <1>1, <1>3, <1>6, <2>1
  <2>3. Replay(ledger') \in Runs(Len(ledger')) /\ Len(ledger') \in Nat
    <3>1. ledger' \in Seq(Row) /\ VoidedSellsHaveAverage(ledger')
      BY <1>8 DEF Sound, VoidedSellsHaveAverage
    <3>2. RunInv(ledger', Len(ledger'), ReplayIn(ledger', ledger'))
      BY <3>1, ReplayEnds
    <3> QED
      BY <3>1, <3>2, LenProperties DEF RunInv, Replay
  <2> QED
    BY <1>3, <2>2, <2>3, SettledType
<1> QED
  BY <1>9, <1>10, <1>11 DEF StepKept

\* A request that ends without writing rows.
LEMMA EndFacts ==
    ASSUME IInv, NEW s \in Sessions, End(s), item' \in Item, ledger' = ledger,
           item' = item \/ lock = Free
    PROVE  IInv' /\ StepKept
<1>1. Sound(ledger') /\ Grows(ledger', ledger)
  BY GrowsItself DEF IInv, Sound
<1>2. \A t \in Sessions : at[t] = "locked" => item' = item /\ ledger' = ledger
  BY ConcurrencyAssumption DEF IInv, SessionInv
<1>3. IInv'
  BY <1>1, <1>2, EndKeeps
<1> QED
  BY <1>3, SameRowsKept

LEMMA WriteFacts ==
    ASSUME IInv, NEW s \in Sessions, Write(s)
    PROVE  IInv' /\ StepKept
<1> DEFINE new == Flushed(copy[s], request[s].item)
<1>1. at[s] = "writing" /\ lock = Free /\ End(s) /\ ledger' = ledger
      /\ (item' = new \/ item' = item)
  BY DEF Write
<1>2. item \in Item /\ SessionInv(s)
  BY DEF IInv, TypeOK
<1>3. copy[s] \in Item /\ request[s].item \in Item
  BY <1>1, <1>2 DEF SessionInv, Writes
<1>4. new \in Item
  BY <1>2, <1>3, FlushedFacts
<1> QED
  BY <1>1, <1>2, <1>4, EndFacts

LEMMA StepFacts == IInv /\ [Next]_vars => IInv' /\ StepKept
<1> SUFFICES ASSUME IInv, [Next]_vars
             PROVE  IInv' /\ StepKept
  OBVIOUS
<1>1. CASE UNCHANGED vars
  <2>1. IInv'
    BY <1>1 DEF vars, IInv, TypeOK, SessionInv, Asked, Fresh, Ready, Sound
  <2> QED
    BY <1>1, <2>1, SameRowsKept DEF vars
<1>2. ASSUME NEW s \in Sessions, Return(s) \/ BreakDeadlock(s) \/ Disconnect(s)
      PROVE  IInv' /\ StepKept
  <2>1. End(s) /\ item' = item /\ ledger' = ledger
    BY <1>2 DEF Return, BreakDeadlock, Disconnect
  <2>2. item' \in Item
    BY <2>1 DEF IInv, TypeOK
  <2> QED
    BY <2>1, <2>2, EndFacts
<1> QED
  BY <1>1, <1>2, AskLedgerFacts, AskSaleFacts, AskVoidSaleFacts, AskWriteFacts,
     TakeLockFacts, CommitFacts, WriteFacts DEF Next

LEMMA Invariance == Spec => []IInv
BY InitFacts, StepFacts, PTL DEF Spec

-----------------------------------------------------------------------------
\* Every session, lock, copy and flush keeps its type: what a session has to
\* send is a whole replay, and no ledger outgrows its bound.
THEOREM OverlapTypeCorrect == Spec => []TypeOK
<1>1. IInv => TypeOK
  BY DEF IInv
<1> QED
  BY <1>1, Invariance, PTL

\* Overlapping requests leave rows that a replay rewrites to themselves.
THEOREM CommittedRowsReplay == Spec => []LedgerIsReplayed
<1>1. IInv => LedgerIsReplayed
  BY DEF IInv, Sound, LedgerIsReplayed
<1> QED
  BY <1>1, Invariance, PTL

\* A retry that overlaps the first attempt leaves no second row.
THEOREM KeysLeaveOneRow == Spec => []OneRowPerKey
<1>1. IInv => OneRowPerKey
  BY DEF IInv, Sound, KeysUnique, OneRowPerKey
<1> QED
  BY <1>1, Invariance, PTL

\* No commit loses a row that another request wrote, or takes back a void.
THEOREM NoRowIsLost == Spec => RowsSurvive
<1>1. IInv /\ [Next]_vars => [RowsSurviveHere]_vars
  BY StepFacts DEF StepKept
<1> QED
  BY <1>1, Invariance, PTL DEF Spec, RowsSurvive, RowsSurviveHere

\* A request that read the item under its lock leaves it showing the ledger.
THEOREM FreshRequestsSettle == Spec => FreshRequestSetsItem
<1>1. IInv /\ [Next]_vars => [FreshSetsHere]_vars
  BY StepFacts DEF StepKept
<1> QED
  BY <1>1, Invariance, PTL DEF Spec, FreshRequestSetsItem, FreshSetsHere
=============================================================================
