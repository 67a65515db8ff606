------------------------- MODULE MCCandidateReview -------------------------
(* Small instances of CandidateReview for TLC. *)
EXTENDS CandidateReview, TLC

\* Two undated items; then the first has a date, and the second is at the
\* address of the first, without a date or with a later one.
Pages ==
    { {[item |-> 1, url |-> "u", date |-> Undated], [item |-> 2, url |-> "v", date |-> Undated]},
      {[item |-> 1, url |-> "u", date |-> 1], [item |-> 2, url |-> "u", date |-> Undated]},
      {[item |-> 1, url |-> "u", date |-> 1], [item |-> 2, url |-> "u", date |-> 2]} }

Interchangeable == Permutations(Requests)
=============================================================================
