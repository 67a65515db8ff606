----------------------------- MODULE ReviewDesk -----------------------------
(***************************************************************************)
(* What the review of discovered references promises, with one step per    *)
(* decision: every decision is taken on the status the item has at that    *)
(* moment, a promotion and the reference it points to appear together, and *)
(* references are never lost.                                              *)
(***************************************************************************)
CONSTANTS
    Items,    \* what an index page lists
    Urls,     \* canonical addresses: the identity of a reference
    None

VARIABLES
    status,      \* of each item
    reference,   \* the reference it was promoted to, or None
    library      \* the references there are

vars == <<status, reference, library>>

Init ==
    /\ status \in [Items -> {"ABSENT", "DATE_UNVERIFIED"}]
    /\ reference = [i \in Items |-> None]
    /\ library = {}

Decide(i, from, to) ==
    /\ status[i] \in from
    /\ status' = [status EXCEPT ![i] = to]

Verify(i) ==
    /\ Decide(i, {"DATE_UNVERIFIED"}, "DATE_VERIFIED")
    /\ UNCHANGED <<reference, library>>

Promote(i, u) ==
    /\ Decide(i, {"DATE_VERIFIED"}, "PROMOTED")
    /\ reference' = [reference EXCEPT ![i] = u]
    /\ library' = library \cup {u}

Dismiss(i) ==
    /\ Decide(i, {"DATE_UNVERIFIED", "DATE_VERIFIED"}, "DISMISSED")
    /\ UNCHANGED <<reference, library>>

\* A batch, or a user, brings new items and references.
Collect(found) ==
    /\ \A i \in found : status[i] = "ABSENT"
    /\ status' = [i \in Items |-> IF i \in found THEN "DATE_UNVERIFIED" ELSE status[i]]
    /\ library \subseteq library' /\ library' \subseteq Urls
    /\ UNCHANGED reference

Next ==
    \/ \E i \in Items : Verify(i) \/ Dismiss(i) \/ \E u \in Urls : Promote(i, u)
    \/ \E found \in SUBSET Items : Collect(found)

Spec == Init /\ [][Next]_vars
=============================================================================
