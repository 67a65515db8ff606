---------------------------- MODULE LedgerReplay ----------------------------
(***************************************************************************)
(* The arithmetic of the position ledger: the order in which the rows of   *)
(* position_transactions are read, and the replay that rebuilds quantity,  *)
(* weighted average price and realized result from them                    *)
(* (server/app/services/transactions.py).                                  *)
(*                                                                         *)
(* A ledger is a sequence of rows, indexed in insertion order: row i has a *)
(* smaller created_at than row i+1, so <<traded_at, index>> orders rows as *)
(* ORDER BY traded_at, created_at, id does.  Quantities, prices and        *)
(* amounts are integers, in units of STORAGE_QUANTUM.  A missing average   *)
(* price is 0: the code treats NULL and 0 alike in every guard.  Fees and  *)
(* taxes, subtracted from the realized result only, are left out.          *)
(***************************************************************************)
EXTENDS Integers, Sequences

\* _round: quantize to the storage quantum with ROUND_HALF_EVEN.
RoundHalfEven(n, d) ==
    LET floor == n \div d
        twice == 2 * (n % d)
    IN  IF twice > d \/ (twice = d /\ floor % 2 = 1) THEN floor + 1 ELSE floor

Earlier(ledger, i, j) ==
    \/ ledger[i].traded_at < ledger[j].traded_at
    \/ ledger[i].traded_at = ledger[j].traded_at /\ i < j

\* The first of the rows S in the order list_for_portfolio returns them, by
\* the trade times of the rows as they are stored.
Earliest(stored, S) == CHOOSE i \in S : \A j \in S \ {i} : Earlier(stored, i, j)

IsActive(row) == row.status = "ACTIVE"

\* The running values of _replay: the rows, rewritten as far as the loop has
\* come, those still to visit, and the position the visited ones leave.
ReplayStart(ledger) ==
    [ledger |-> ledger, unvisited |-> DOMAIN ledger, visited |-> 0,
     quantity |-> 0, average |-> 0, active |-> 0, failed |-> FALSE]

\* Defect: the plain mean of the average and the price.
PlainAverage(run, row) == RoundHalfEven(run.average + row.unit_price, 2)

WeightedAverage(run, row) ==
    RoundHalfEven(run.quantity * run.average + row.quantity * row.unit_price,
                  run.quantity + row.quantity)

\* Defect: nothing is refused.
RefusesNothing(run, row) == FALSE

\* A sell of more than is held, or with no average price, raises.
Refuses(run, row) ==
    row.side = "SELL" /\ (row.quantity > run.quantity \/ run.average = 0)

\* The derived columns of an active row.
Recomputed(run, row) ==
    LET buys == row.side = "BUY"
        after == IF buys THEN run.quantity + row.quantity
                         ELSE run.quantity - row.quantity
        average == IF buys THEN WeightedAverage(run, row) ELSE run.average
    IN  [row EXCEPT !.sequence_number = run.visited + 1,
                    !.quantity_before = run.quantity,
                    !.quantity_after = after,
                    !.average_before = run.average,
                    !.average_after = average,
                    !.realized_pnl =
                        IF buys THEN 0 ELSE row.quantity * (row.unit_price - average)]

\* Defect: a voided row counts.
ReplayEveryRow(stored, run) ==
    LET i == Earliest(stored, run.unvisited)
        row == run.ledger[i]
        new == Recomputed(run, row)
    IN  CASE run.failed \/ run.unvisited = {} -> run
          [] OTHER ->
             IF Refuses(run, row) THEN [run EXCEPT !.failed = TRUE]
             ELSE [run EXCEPT !.unvisited = @ \ {i}, !.visited = @ + 1,
                              !.ledger[i] = new, !.active = @ + 1,
                              !.quantity = new.quantity_after,
                              !.average = new.average_after]

\* One iteration of the loop of _replay: a voided row only gets its number.
ReplayRow(stored, run) ==
    LET i == Earliest(stored, run.unvisited)
        row == run.ledger[i]
        new == Recomputed(run, row)
        next == [run EXCEPT !.unvisited = @ \ {i}, !.visited = @ + 1]
    IN  CASE run.failed \/ run.unvisited = {} -> run
          [] OTHER ->
             CASE ~IsActive(row) ->
                    [next EXCEPT !.ledger[i].sequence_number = next.visited]
               [] IsActive(row) /\ Refuses(run, row) -> [run EXCEPT !.failed = TRUE]
               [] OTHER -> [next EXCEPT !.ledger[i] = new, !.active = @ + 1,
                                        !.quantity = new.quantity_after,
                                        !.average = new.average_after]

\* _replay of the rows of ledger, read in the order of the stored ones.
ReplayIn(stored, ledger) ==
    LET run[n \in 0..Len(ledger)] ==
            IF n = 0 THEN ReplayStart(ledger) ELSE ReplayRow(stored, run[n - 1])
    IN  run[Len(ledger)]

\* The replay of rows whose columns are all flushed.
Replay(ledger) == ReplayIn(ledger, ledger)

-----------------------------------------------------------------------------
(* What the properties say of a ledger.                                    *)

\* What an active row adds to the quantity that is held.
Signed(row) == IF row.side = "BUY" THEN row.quantity ELSE -row.quantity

Contribution(row) == IF IsActive(row) THEN Signed(row) ELSE 0

\* What was bought less what was sold, in whatever order.
NetQuantity(ledger) ==
    LET sum[n \in 0..Len(ledger)] ==
            IF n = 0 THEN 0 ELSE sum[n - 1] + Contribution(ledger[n])
    IN  sum[Len(ledger)]
=============================================================================
