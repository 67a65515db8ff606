----------------------------- MODULE EventRules -----------------------------
(***************************************************************************)
(* How a document becomes a statement about an information event, without  *)
(* the database: what a filing says (disclosure_sync.py), what state a new *)
(* filing or a new article gives its event (disclosures.py, news.py).      *)
(***************************************************************************)
EXTENDS Integers, Sequences, FiniteSets, FiniteSetsExt

Lifecycle == {"ACTIVE", "UPDATED", "CORRECTED", "DENIED", "STALE"}
Verification ==
    {"NEEDS_VERIFICATION", "MULTI_SOURCE_CONFIRMED", "OFFICIAL_CONFIRMED", "CONFLICTING",
     "CORRECTED", "OFFICIALLY_DENIED", "STALE_REUSED"}

-----------------------------------------------------------------------------
(* What a filing says.                                                     *)

\* The words a title is searched for, by what they mean, in the order of the
\* search: the first that occurs decides.
Classifications ==
    <<"CORRECTION", "GUIDANCE_CHANGE", "EARNINGS", "EARNINGS", "MAJOR_CONTRACT",
      "MAJOR_CONTRACT", "CONTRACT_TERMINATION", "EQUITY_FINANCING", "CONVERTIBLE_BOND",
      "ACQUISITION_OR_DISPOSAL", "ACQUISITION_OR_DISPOSAL", "MANAGEMENT_CHANGE",
      "AUDIT_OR_ACCOUNTING", "LISTING_RISK", "LITIGATION_OR_REGULATION", "DIVIDEND">>

FormTypes ==
    [f \in {"8-K", "10-K", "10-Q", "6-K", "20-F", "40-F", "none"} |->
        CASE f = "8-K" -> "CURRENT_REPORT"
          [] f = "10-K" -> "ANNUAL_REPORT"
          [] f = "10-Q" -> "QUARTERLY_REPORT"
          [] f = "6-K" -> "FOREIGN_CURRENT_REPORT"
          [] f = "20-F" -> "FOREIGN_ANNUAL_REPORT"
          [] f = "40-F" -> "CANADIAN_ANNUAL_REPORT"
          [] f = "none" -> "OFFICIAL_DISCLOSURE"]

\* A filing has a form ("none" at OpenDART) that may be an amendment, the words
\* found in its title, whether the title denies something, and the title.
EventType(filing) ==
    IF filing.denies THEN "OFFICIAL_DENIAL"
    ELSE IF filing.words # {} THEN Classifications[Min(filing.words)]
    ELSE FormTypes[filing.form]

Immaterial == {"CANADIAN_ANNUAL_REPORT", "OFFICIAL_DISCLOSURE"}

\* The display title is the label of the form where there is one, so that all
\* reports of a form of one company carry the same claim.
ClaimOf(filing) ==
    IF filing.form \in {"none", "40-F"} THEN <<"title", filing.title>>
    ELSE <<filing.form, filing.amended>>

\* _event_metadata.  The summary is made of the claim and of what is material.
Metadata(filing) ==
    LET material == EventType(filing) \notin Immaterial IN
    [type |-> EventType(filing), claim |-> ClaimOf(filing),
     summary |-> <<"about", ClaimOf(filing), material>>, denied |-> filing.denies,
     material |-> material]

\* The state a new filing gets and gives its event; known means that the event
\* existed.
OfficialStatus(corrects, denied, known, material) ==
    [lifecycle |-> IF corrects THEN "CORRECTED" ELSE IF denied THEN "DENIED"
                   ELSE IF known THEN "UPDATED" ELSE "ACTIVE",
     verification |-> IF corrects THEN "CORRECTED" ELSE IF denied THEN "OFFICIALLY_DENIED"
                      ELSE "OFFICIAL_CONFIRMED",
     material |-> corrects \/ denied \/ known \/ material]

-----------------------------------------------------------------------------
(* What an article says of an event.                                       *)

\* Defect: a second article of the same origin confirms the first.
ConfirmedByAnyone(independent, others, grade) == others # {} /\ grade \in {"A", "B"}

\* Another origin than those before it, one at least, of a good source.
Confirmed(independent, others, grade) ==
    independent /\ others # {} /\ grade \in {"A", "B"}

\* What speaks for an article before its title is looked at.
Standing(official, conflicting, source, independent, others) ==
    IF conflicting THEN "CONFLICTING"
    ELSE IF official \/ source.official THEN "OFFICIAL_CONFIRMED"
    ELSE IF Confirmed(independent, others, source.grade) THEN "MULTI_SOURCE_CONFIRMED"
    ELSE "NEEDS_VERIFICATION"

\* An event that official records come to support, whatever the title says.
Transition(held, official) ==
    held # "none" /\ official /\ held \notin {"OFFICIAL_CONFIRMED", "CONFLICTING"}

\* held is the verification of the event, "none" if the event is new; repeated
\* means that the event has an article with the same claim.
NewsStatus(held, repeated, official, conflicting, notice, standing) ==
    LET material == held # "none" /\ ~repeated IN
    IF Transition(held, official)
    THEN [lifecycle |-> "UPDATED",
          verification |-> IF conflicting THEN "CONFLICTING" ELSE "OFFICIAL_CONFIRMED",
          material |-> TRUE, stale |-> FALSE]
    ELSE IF notice = "correction"
    THEN [lifecycle |-> "CORRECTED", verification |-> "CORRECTED",
          material |-> TRUE, stale |-> repeated]
    ELSE IF notice = "denial"
    THEN [lifecycle |-> "DENIED", verification |-> "OFFICIALLY_DENIED",
          material |-> TRUE, stale |-> repeated]
    ELSE IF repeated /\ standing # "MULTI_SOURCE_CONFIRMED"
    THEN [lifecycle |-> "STALE", verification |-> "STALE_REUSED",
          material |-> FALSE, stale |-> TRUE]
    ELSE [lifecycle |-> IF material THEN "UPDATED" ELSE "ACTIVE", verification |-> standing,
          material |-> material, stale |-> repeated]

\* An official record contradicts a claim that is certain and that it leaves open.
Contradicts(recorded, claimed) ==
    claimed = "CONFIRMED"
        /\ recorded \in {"UNDER_REVIEW", "PROPOSED", "POSSIBLE", "SPECULATIVE"}

TrustScore(grade, verification, independent) ==
    LET base == CASE grade = "A" -> 80 [] grade = "B" -> 65
                  [] grade = "C" -> 40 [] grade = "D" -> 20
        change == CASE verification = "OFFICIAL_CONFIRMED" -> 15
                    [] verification = "MULTI_SOURCE_CONFIRMED" -> 10
                    [] verification \in {"CONFLICTING", "OFFICIALLY_DENIED"} -> -20
                    [] OTHER -> 0
        score == base + change + (IF independent THEN 5 ELSE 0)
    IN  Min({100, Max({0, score})})

=============================================================================
