-------------------------------- MODULE Rows --------------------------------
(***************************************************************************)
(* Rows as the object-relational mapper writes them: a request loads a row *)
(* and sets its columns, and the UPDATE names those columns only whose     *)
(* value is not the one that was loaded.                                   *)
(***************************************************************************)
EXTENDS Functions

Patched(row, patch) ==
    [f \in DOMAIN row \cup DOMAIN patch |-> IF f \in DOMAIN patch THEN patch[f] ELSE row[f]]

\* A table with a row that is inserted, or written over.
Put(rows, id, row) == [k \in DOMAIN rows \cup {id} |-> IF k = id THEN row ELSE rows[k]]

Differing(row, new) == {f \in DOMAIN row : row[f] # new[f]}

\* What becomes of a row when a request that loaded view writes new.
Updated(row, view, new) == Patched(row, Restrict(new, Differing(view, new)))
=============================================================================
