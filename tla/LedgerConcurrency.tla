-------------------------- MODULE LedgerConcurrency --------------------------
(***************************************************************************)
(* Requests on one portfolio item that overlap, on PostgreSQL at READ      *)
(* COMMITTED: each runs in a session of its own (server/app/database.py),  *)
(* ledger requests take the row lock of the item before they read its      *)
(* ledger, the requests that edit the item take it only when they flush.   *)
(*                                                                         *)
(* A session keeps the first copy of the item it loads: SELECT ... FOR     *)
(* UPDATE does not refresh columns that are loaded already, and a flush    *)
(* sends only the columns that differ from that copy.  The commit releases *)
(* what the session holds; a request that raises is rolled back.  All      *)
(* trades carry one trade time: the order of rows is their insertion.      *)
(***************************************************************************)
EXTENDS PositionRules, FiniteSets

CONSTANTS
    Sessions,       \* requests that may be under way at once
    Free,           \* the holder of a lock nobody holds
    Quantities,     \* quantities a trade may carry
    Prices,         \* unit prices a request may carry
    Edits,          \* <<quantity, average>> an edit of the item may set
    InitialItems,   \* the item as earlier requests left it
    MaxRows         \* bound: rows of the ledger

ASSUME ConcurrencyAssumption ==
    /\ Free \notin Sessions
    /\ Quantities \subseteq Nat \ {0} /\ Prices \subseteq Nat \ {0}
    /\ Edits \subseteq Nat \X Nat
    /\ InitialItems \subseteq Item
    /\ MaxRows \in Nat

VARIABLES
    item,      \* the committed PortfolioItemRecord
    ledger,    \* its committed PositionTransactionRecords
    lock,      \* the session that holds the row lock of the item
    saleLock,  \* ledger index -> holder of the row lock of its sale row
    at,        \* where each session's request is
    request,   \* what it asks for
    copy,      \* the item as the session loaded it
    flush      \* what the session replayed under the lock and has to send

vars == <<item, ledger, lock, saleLock, at, request, copy, flush>>

Unread == [quantity |-> 0]      \* the copy of a session that has not read the item
NoRequest == [op |-> "none"]
Nothing == [ok |-> FALSE]       \* nothing to send: a request that raises or returns

Trades == [op : {"trade"}, route : {"transactions", "sales"}, side : {"BUY", "SELL"},
           quantity : Quantities, price : Prices, key : Keys \cup {NoKey}]
Corrections == [op : {"correct"}, row : 1..MaxRows, price : Prices]
Voids == [op : {"void"}, row : 1..MaxRows]
Writes == [op : {"write"}, item : Item]

TypeOK ==
    /\ item \in Item
    /\ ledger \in Seq(Row)
    /\ lock \in Sessions \cup {Free}
    /\ saleLock \in [1..MaxRows -> Sessions \cup {Free}]
    /\ at \in [Sessions -> {"idle", "waiting", "locked", "writing"}]
    /\ request \in [Sessions -> Trades \cup Corrections \cup Voids \cup Writes \cup {NoRequest}]
    /\ copy \in [Sessions -> Item \cup {Unread}]
    /\ flush \in [Sessions -> {Nothing} \cup
                  [ok : {TRUE}, ledger : Seq(Row), item : Item, sales : SUBSET (1..MaxRows)]]

-----------------------------------------------------------------------------
(* What a request does in memory, once it has the lock and reads the rows. *)

\* Defect: a correction rewrites its row and leaves the later ones alone.
RunOfOneRow(r, it) ==
    LET rows == IF r.op = "trade" THEN Append(Opened(it, ledger, 1),
                                              NewRow(r.side, "NORMAL", 1, r.quantity, r.price, r.key))
                ELSE IF r.op = "correct" THEN [ledger EXCEPT ![r.row].unit_price = r.price]
                ELSE [ledger EXCEPT ![r.row].status = "VOIDED"]
        run == Replay(rows)
    IN  IF r.op = "correct" THEN [run EXCEPT !.ledger = rows] ELSE run

\* The replay request r ends in, with the copy it of the item.
RunOf(r, it) ==
    CASE r.op = "trade" ->
            Replay(Append(Opened(it, ledger, 1),
                          NewRow(r.side, "NORMAL", 1, r.quantity, r.price, r.key)))
      [] r.op = "correct" -> Replay([ledger EXCEPT ![r.row].unit_price = r.price])
      [] r.op = "void" -> Replay([ledger EXCEPT ![r.row].status = "VOIDED"])

\* Defect: the key of a trade is not looked up.
GoesAgain(r, it) ==
    IF r.op = "trade" THEN MayTrade(it, ledger) ELSE IsActive(ledger[r.row])

\* The guards before the replay; a known key or a row voided before ends the
\* request as well, with the row that is there.
Goes(r, it) ==
    IF r.op = "trade" THEN MayTrade(it, ledger) /\ ~HasKey(ledger, r.key)
    ELSE IsActive(ledger[r.row])

\* The sale rows to update are those of the sells the replay changed.
Replayed(r, it) ==
    LET run == RunOf(r, it)
    IN  IF ~Goes(r, it) \/ run.failed \/ Len(run.ledger) > MaxRows THEN Nothing
        ELSE [ok |-> TRUE, ledger |-> run.ledger, item |-> Settled(it, run),
              sales |-> {i \in DOMAIN ledger :
                            /\ ledger[i].side = "SELL"
                            /\ SaleOf(run.ledger[i]) # SaleOf(ledger[i])}]

-----------------------------------------------------------------------------
(* A request arrives.                                                      *)

Ask(s, r, it, step) ==
    /\ at[s] = "idle"
    /\ at' = [at EXCEPT ![s] = step]
    /\ request' = [request EXCEPT ![s] = r]
    /\ copy' = [copy EXCEPT ![s] = it]

\* Defect: the rows are read without the lock.
AskLedgerUnlocked(s) ==
    /\ \E r \in Trades \cup Corrections \cup Voids :
          /\ IF r.op = "trade" THEN r.route = "transactions" ELSE r.row \in DOMAIN ledger
          /\ Ask(s, r, item, "locked")
          /\ flush' = [flush EXCEPT ![s] = Replayed(r, item)]
    /\ UNCHANGED <<item, ledger, lock, saleLock>>

\* POST /transactions/buys and /sells, PATCH /transactions/{id} and POST
\* /transactions/{id}/void read nothing before get_by_id_for_update, so they
\* begin with the lock, and then read the rows and replay them.
AskLedger(s) ==
    /\ lock = Free
    /\ \E r \in Trades \cup Corrections \cup Voids :
          /\ IF r.op = "trade" THEN r.route = "transactions" ELSE r.row \in DOMAIN ledger
          /\ Ask(s, r, item, "locked")
          /\ flush' = [flush EXCEPT ![s] = Replayed(r, item)]
    /\ lock' = s
    /\ UNCHANGED <<item, ledger, saleLock>>

\* POST /sales looks at the item first, and keeps it.
AskSale(s) ==
    /\ item.holding = "HOLDING" /\ item.quantity > 0 /\ item.average > 0
    /\ \E r \in Trades :
          /\ r.route = "sales" /\ r.side = "SELL" /\ r.key = NoKey
          /\ r.quantity <= item.quantity
          /\ Ask(s, r, item, "waiting")
    /\ UNCHANGED <<item, ledger, lock, saleLock, flush>>

\* POST /sales/{id}/void, of a sale that is not historical, locks the row of
\* the latest sale before the ledger request inside it locks the item.
ActiveSales == {i \in DOMAIN ledger : ledger[i].side = "SELL" /\ IsActive(ledger[i])}

AskVoidSale(s) ==
    \E i \in ActiveSales :
        /\ \A j \in ActiveSales : j <= i
        /\ saleLock[i] = Free
        /\ saleLock' = [saleLock EXCEPT ![i] = s]
        /\ Ask(s, [op |-> "void", row |-> i], Unread, "waiting")
        /\ UNCHANGED <<item, ledger, lock, flush>>

\* PATCH /{item_id}, and DELETE and /restore: the checks use the item and the
\* ledger as they are now, the flush comes later.
AskWrite(s) ==
    /\ \E new \in {Edited(item, item.holding, e[1], e[2], item.tracking, FALSE) :
                      e \in {f \in Edits : EditAllowed(item, ledger, item.holding, f[1], f[2])}}
                  \cup {[item EXCEPT !.archived = ~@]} :
          Ask(s, [op |-> "write", item |-> new], item, "writing")
    /\ UNCHANGED <<item, ledger, lock, saleLock, flush>>

-----------------------------------------------------------------------------
(* The request goes on.                                                    *)

\* get_by_id_for_update of a request that has read before, and its replay.
TakeLock(s) ==
    /\ at[s] = "waiting" /\ lock = Free
    /\ lock' = s
    /\ at' = [at EXCEPT ![s] = "locked"]
    /\ LET it == IF copy[s] = Unread THEN item ELSE copy[s]
       IN  /\ copy' = [copy EXCEPT ![s] = it]
           /\ flush' = [flush EXCEPT ![s] = Replayed(request[s], it)]
    /\ UNCHANGED <<item, ledger, saleLock, request>>

\* The end of the transaction, committed or rolled back.
End(s) ==
    /\ at' = [at EXCEPT ![s] = "idle"]
    /\ request' = [request EXCEPT ![s] = NoRequest]
    /\ copy' = [copy EXCEPT ![s] = Unread]
    /\ flush' = [flush EXCEPT ![s] = Nothing]
    /\ lock' = IF lock = s THEN Free ELSE lock
    /\ saleLock' = [i \in DOMAIN saleLock |-> IF saleLock[i] = s THEN Free ELSE saleLock[i]]

\* A flush sends the columns that differ from the loaded ones.
Flushed(loaded, new) ==
    [c \in DOMAIN item |-> IF new[c] # loaded[c] THEN new[c] ELSE item[c]]

\* The check constraint of the table: a flush that breaks it ends the request.
Storable(it) == it.holding = "HOLDING" => it.quantity > 0

\* The UPDATE of a sale row waits for the lock of that row.
CanCommit(s) == flush[s].ok /\ \A i \in flush[s].sales : saleLock[i] \in {Free, s}

Commit(s) ==
    /\ at[s] = "locked" /\ CanCommit(s)
    /\ LET new == Flushed(copy[s], flush[s].item)
       IN  IF Storable(new) THEN item' = new /\ ledger' = flush[s].ledger
           ELSE UNCHANGED <<item, ledger>>
    /\ End(s)

\* Defect: the lock outlives the request that raised.
ReturnLocked(s) ==
    /\ at[s] = "locked" /\ ~flush[s].ok
    /\ at' = [at EXCEPT ![s] = "idle"]
    /\ request' = [request EXCEPT ![s] = NoRequest]
    /\ copy' = [copy EXCEPT ![s] = Unread]
    /\ flush' = [flush EXCEPT ![s] = Nothing]
    /\ UNCHANGED <<item, ledger, lock, saleLock>>

\* A request that raises, or has nothing to do.
Return(s) ==
    /\ at[s] = "locked" /\ ~flush[s].ok
    /\ UNCHANGED <<item, ledger>>
    /\ End(s)

\* Defect: the edit does not wait for the row.
WriteUnlocked(s) ==
    /\ at[s] = "writing"
    /\ LET new == Flushed(copy[s], request[s].item)
       IN  item' = IF Storable(new) THEN new ELSE item
    /\ UNCHANGED ledger
    /\ End(s)

\* The UPDATE of an edit waits for the row lock and never reads again.
Write(s) ==
    /\ at[s] = "writing" /\ lock = Free
    /\ LET new == Flushed(copy[s], request[s].item)
       IN  item' = IF Storable(new) THEN new ELSE item
    /\ UNCHANGED ledger
    /\ End(s)

\* s waits for the item with a sale row locked that the holder of the item
\* waits for.
Deadlocked(s, t) ==
    /\ at[s] = "waiting" /\ lock = t
    /\ at[t] = "locked" /\ flush[t].ok
    /\ \E i \in flush[t].sales : saleLock[i] = s

\* PostgreSQL breaks the circle: one of the two fails.
BreakDeadlock(s) ==
    /\ \E t \in Sessions : Deadlocked(s, t) \/ Deadlocked(t, s)
    /\ UNCHANGED <<item, ledger>>
    /\ End(s)

\* The server stops or the connection is lost before the commit.
Disconnect(s) ==
    /\ at[s] # "idle"
    /\ UNCHANGED <<item, ledger>>
    /\ End(s)

-----------------------------------------------------------------------------
Init ==
    /\ item \in InitialItems
    /\ ledger = <<>>
    /\ lock = Free
    /\ saleLock = [i \in 1..MaxRows |-> Free]
    /\ at = [s \in Sessions |-> "idle"]
    /\ request = [s \in Sessions |-> NoRequest]
    /\ copy = [s \in Sessions |-> Unread]
    /\ flush = [s \in Sessions |-> Nothing]

Next ==
    \E s \in Sessions :
        \/ AskLedger(s) \/ AskSale(s) \/ AskVoidSale(s) \/ AskWrite(s)
        \/ TakeLock(s) \/ Commit(s) \/ Return(s) \/ Write(s)
        \/ BreakDeadlock(s) \/ Disconnect(s)

Spec == Init /\ [][Next]_vars

\* PostgreSQL queues the sessions that wait for a row, so one that waits gets
\* its turn; a session that is not blocked goes on, or is cut off; a deadlock
\* is detected.
Turn(s) == at[s] = "waiting" /\ lock = Free /\ at' = [at EXCEPT ![s] = "locked"]
Close(s) == at' = [at EXCEPT ![s] = "idle"]

Fairness ==
    /\ \A s \in Sessions :
          /\ SF_at(Turn(s))
          /\ SF_at(at[s] = "writing" /\ lock = Free /\ Close(s))
          /\ SF_at(at[s] = "locked" /\ CanCommit(s) /\ Close(s))
          /\ WF_at(at[s] = "locked" /\ ~flush[s].ok /\ Close(s))
    /\ WF_at(\E s, t \in Sessions : Deadlocked(s, t) /\ (Close(s) \/ Close(t)))

FairSpec == Spec /\ Fairness

-----------------------------------------------------------------------------
(* What the locks promise.                                                 *)

\* Whatever overlaps, the committed rows are what a replay of them computes:
\* no session ever numbers or values rows it has read before another commit.
LedgerIsReplayed ==
    ~Replay(ledger).failed /\ Replay(ledger).ledger = ledger

\* Two requests with one idempotency key leave one row, also when the retry
\* arrives while the first is still under way.
OneRowPerKey ==
    \A i, j \in DOMAIN ledger :
        ledger[i].key = ledger[j].key /\ ledger[i].key # NoKey => i = j

\* No commit drops or takes back what another request wrote: every row stays,
\* with its terms, and a voided one stays voided.
RowsSurvive ==
    [][\A i \in DOMAIN ledger :
         /\ i \in DOMAIN ledger'
         /\ \A c \in {"side", "type", "quantity", "key"} : ledger'[i][c] = ledger[i][c]
         /\ ledger[i].status = "VOIDED" => ledger'[i].status = "VOIDED"]_vars

\* A ledger request that read the item under its lock leaves the item showing
\* the ledger, whatever edit was flushed before or waits to be.
FreshRequestSetsItem ==
    [][\A s \in Sessions :
         /\ at[s] = "locked" /\ lock = s /\ ledger' # ledger
         /\ request[s].op = "trade" => request[s].route # "sales"
         =>
            /\ item'.quantity = Replay(ledger').quantity
            /\ item'.average = Replay(ledger').average]_vars

\* Every request ends: the two orders in which the locks of the item and of a
\* sale are taken block each other no longer than the database lets them.
RequestsEnd == \A s \in Sessions : at[s] # "idle" ~> at[s] = "idle"

-----------------------------------------------------------------------------
(* What a text of the program says and the code does not do.               *)

\* "Current quantity (computed from the ledger)".
ItemShowsLedger == ledger # <<>> => item.quantity = Replay(ledger).quantity
=============================================================================
