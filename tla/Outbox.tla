-------------------------------- MODULE Outbox --------------------------------
(***************************************************************************)
(* What the delivery of briefings promises, without the database: the      *)
(* letters that have arrived, and the books that record them.  A state of  *)
(* an event is not mailed again to whom the books say it was mailed, and   *)
(* the books record no letter that has not arrived.  The books may forget. *)
(***************************************************************************)
EXTENDS Naturals

CONSTANTS States, Recipients

VARIABLES
    letters,   \* how often each state arrived at each recipient
    recorded   \* the pairs of state and recipient in the books

Init ==
    /\ letters = [p \in States \X Recipients |-> 0]
    /\ recorded = {}

\* One letter about a set of states arrives.
Mail(states, r) ==
    /\ \A s \in states : <<s, r>> \notin recorded
    /\ letters' = [p \in States \X Recipients |->
                      IF p \in states \X {r} THEN letters[p] + 1 ELSE letters[p]]
    /\ UNCHANGED recorded

\* The books change: what they record from now on has arrived.
Keep(books) ==
    /\ \A p \in books \ recorded : letters[p] > 0
    /\ recorded' = books
    /\ UNCHANGED letters

Next ==
    \/ \E states \in SUBSET States, r \in Recipients : Mail(states, r)
    \/ \E books \in SUBSET (States \X Recipients) : Keep(books)

Spec == Init /\ [][Next]_<<letters, recorded>>
=============================================================================
