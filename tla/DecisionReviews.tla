--------------------------- MODULE DecisionReviews ---------------------------
(***************************************************************************)
(* What an event means to an item, and the review of the item that follows *)
(* from it: services/analysis.py behind the cycle, which brings the        *)
(* impacts up to date after the feeds, and /portfolio/{id}/thesis and      *)
(* /portfolio/{id}/decision-review.  The feeds themselves are              *)
(* InformationFeeds; an event is here what a review reads of it.           *)
(***************************************************************************)
EXTENDS InstrumentMap, Rows

CONSTANTS
    InfoEvents,
    InstrumentOf,    \* event -> its instrument
    EventStates,     \* [verification, material, stale, official]
    Prices,          \* what a user enters as a price
    NoPrice, NotYet,
    Quantities

VARIABLES
    info,            \* event -> its state
    impact,          \* <<event, item>> -> the PortfolioImpactRecord
    thesis,          \* items with an InvestmentThesisRecord
    quantity,        \* item -> what is held
    review,          \* item -> the last DecisionReviewRecord
    settled          \* history: nothing has changed since the impacts were made

reviewVars == <<info, impact, thesis, quantity, review, settled>>

PortfolioImpactRecord ==
    [verification : {state.verification : state \in EventStates} \cup {"STALE_REUSED"},
     direction : {"POSITIVE", "NEGATIVE", "MIXED", "UNCLEAR"},
     effect : {"STRENGTHENS", "SLIGHTLY_STRENGTHENS", "SLIGHTLY_WEAKENS", "WEAKENS", "BREAKS",
               "UNKNOWN"}]

DecisionDirection ==
    {"ADD_REVIEW", "HOLD", "REDUCE_REVIEW", "EXIT_REVIEW", "WAIT", "INSUFFICIENT_DATA"}

DecisionReviewRecord ==
    [events : SUBSET InfoEvents, direction : DecisionDirection, reasons : BOOLEAN,
     price : Prices \cup {NoPrice}, quantity : Quantities, thesis : BOOLEAN, decided : BOOLEAN]

Verified ==
    {"OFFICIAL_CONFIRMED", "MULTI_SOURCE_CONFIRMED", "CORRECTED", "OFFICIALLY_DENIED", "CONFLICTING"}
Special == {"CORRECTED", "OFFICIALLY_DENIED", "CONFLICTING"}

\* The direction of an impact that is made is never known, nor its effect.
Impact(e) ==
    [verification |-> info[e].verification, direction |-> "UNCLEAR", effect |-> "UNKNOWN"]

EventsOf(i) == {e \in DOMAIN info : InstrumentOf[e] \in InstrumentsOf(i)}

\* Defect: an impact that is there is left as it is.
SyncNewImpacts ==
    LET official == {x \in InfoEvents \X MappedItems :
                        x[1] \in EventsOf(x[2]) /\ ~info[x[1]].stale /\ info[x[1]].official}
        fresh == {x \in official \ DOMAIN impact : info[x[1]].material}
    IN  /\ impact' = [x \in DOMAIN impact \cup fresh |->
                         IF x \in fresh THEN Impact(x[1]) ELSE impact[x]]
        /\ settled' = TRUE
        /\ UNCHANGED <<info, thesis, quantity, review, mapVars>>

\* sync_direct_impacts.  Impacts of an instrument that an item was linked to
\* stay as they are.  Nothing in the program makes an event stale yet (the cycle
\* only guards against it), so a run has no such event.
SyncImpacts ==
    LET pairs == {x \in InfoEvents \X MappedItems : x[1] \in EventsOf(x[2])}
        stale == {x \in pairs \cap DOMAIN impact : info[x[1]].stale}
        official == {x \in pairs : ~info[x[1]].stale /\ info[x[1]].official}
        fresh == {x \in official \ DOMAIN impact : info[x[1]].material}
        again == official \cap DOMAIN impact
    IN  /\ impact' = [x \in DOMAIN impact \cup fresh |->
                         IF x \in stale THEN [impact[x] EXCEPT !.verification = "STALE_REUSED"]
                         ELSE IF x \in fresh THEN Impact(x[1])
                         ELSE IF x \in again
                              THEN [impact[x] EXCEPT !.verification = info[x[1]].verification]
                         ELSE impact[x]]
        /\ settled' = TRUE
        /\ UNCHANGED <<info, thesis, quantity, review, mapVars>>

-----------------------------------------------------------------------------
(* Reviews.                                                                *)

VerifiedImpacts(i) ==
    {x \in DOMAIN impact : x[2] = i /\ impact[x].verification \in Verified /\ info[x[1]].material}

\* The cascade of _draft.
Direction(S) ==
    LET any(field, values) == \E x \in S : impact[x][field] \in values IN
    IF any("effect", {"BREAKS"}) THEN "EXIT_REVIEW"
    ELSE IF \/ any("direction", {"MIXED"}) \/ any("verification", {"CONFLICTING"})
            \/ any("direction", {"POSITIVE"}) /\ any("direction", {"NEGATIVE"}) THEN "WAIT"
    ELSE IF any("verification", Special) THEN "WAIT"
    ELSE IF any("effect", {"WEAKENS", "SLIGHTLY_WEAKENS"}) \/ any("direction", {"NEGATIVE"})
         THEN "REDUCE_REVIEW"
    ELSE IF /\ any("direction", {"POSITIVE"})
            /\ Cardinality({x \in S : impact[x].effect \in {"STRENGTHENS", "SLIGHTLY_STRENGTHENS"}}) >= 2
         THEN "ADD_REVIEW"
    ELSE IF any("direction", {"POSITIVE"}) THEN "HOLD"
    ELSE IF S # {} THEN "WAIT" ELSE "INSUFFICIENT_DATA"

\* _draft, with what distinguishes one analysis from another.
Draft(i, price) ==
    [events |-> {x[1] : x \in VerifiedImpacts(i)}, direction |-> Direction(VerifiedImpacts(i)),
     reasons |-> {impact[x].verification : x \in VerifiedImpacts(i)} \cap Special # {},
     price |-> price, quantity |-> quantity[i], thesis |-> i \in thesis, decided |-> FALSE]

SameAnalysis(r, draft) == r # NotYet /\ [r EXCEPT !.decided = FALSE] = draft

\* latest_review.
Shown(i) ==
    IF SameAnalysis(review[i], Draft(i, NoPrice)) THEN review[i] ELSE Draft(i, NoPrice)

RefreshReview(i, price) ==
    /\ review' = [review EXCEPT ![i] = IF SameAnalysis(@, Draft(i, price)) THEN @ ELSE Draft(i, price)]
    /\ UNCHANGED <<info, impact, thesis, quantity, settled, mapVars>>

\* acknowledge: of the analysis of now, which is stored if it is not yet.
Acknowledge(i) ==
    /\ review' = [review EXCEPT ![i] = [Draft(i, NoPrice) EXCEPT !.decided = TRUE]]
    /\ UNCHANGED <<info, impact, thesis, quantity, settled, mapVars>>

SaveThesis(i) ==
    /\ thesis' = thesis \cup {i}
    /\ UNCHANGED <<info, impact, quantity, review, settled, mapVars>>

-----------------------------------------------------------------------------
(* What reviews are made of changes.                                       *)

ChangeEvent(e, state) ==
    /\ InstrumentOf[e] \in DOMAIN instrument
    /\ e \in DOMAIN info /\ info[e].official => state.official
    /\ info' = Put(info, e, state)
    /\ settled' = FALSE
    /\ UNCHANGED <<impact, thesis, quantity, review, mapVars>>

Trade(i, q) ==
    /\ quantity' = [quantity EXCEPT ![i] = q]
    /\ UNCHANGED <<info, impact, thesis, review, settled, mapVars>>

ChangeMap ==
    /\ MapNext /\ settled' = FALSE
    /\ UNCHANGED <<info, impact, thesis, quantity, review>>

ReviewInit ==
    /\ MapInit
    /\ info = [e \in {} |-> NotYet] /\ impact = [x \in {} |-> NotYet]
    /\ thesis = {} /\ quantity \in [MappedItems -> Quantities]
    /\ review = [i \in MappedItems |-> NotYet] /\ settled = FALSE

ReviewNext ==
    \/ SyncImpacts
    \/ \E i \in MappedItems :
          \/ \E price \in Prices \cup {NoPrice} : RefreshReview(i, price)
          \/ Acknowledge(i)
          \/ SaveThesis(i)
          \/ \E q \in Quantities : Trade(i, q)
    \/ \E e \in InfoEvents, state \in EventStates : ChangeEvent(e, state)
    \/ ChangeMap

ReviewSpec == ReviewInit /\ [][ReviewNext]_<<mapVars, reviewVars>>

-----------------------------------------------------------------------------
ReviewTypeOK ==
    /\ MapTypeOK
    /\ DOMAIN info \subseteq InfoEvents /\ \A e \in DOMAIN info : info[e] \in EventStates
    /\ DOMAIN impact \subseteq (DOMAIN info) \X MappedItems
    /\ thesis \subseteq MappedItems
    /\ \A x \in DOMAIN impact : impact[x] \in PortfolioImpactRecord
    /\ \A i \in MappedItems : review[i] # NotYet =>
          review[i] \in DecisionReviewRecord /\ review[i].events \subseteq DOMAIN info

\* Once the cycle has brought the impacts up to date, the review that a user is
\* shown of an item rests on those official and material events of its
\* instruments that are verified as of now and on no other of them, and it tells
\* that one of them was corrected, denied or contradicted, however often they
\* changed since the item first met them and whatever review was stored or
\* acknowledged before; and such a review never proposes a trade.
ReviewIsCurrent ==
    settled => \A i \in MappedItems :
        LET basis == {e \in EventsOf(i) :
                         /\ info[e].official /\ info[e].material /\ ~info[e].stale
                         /\ info[e].verification \in Verified}
        IN  /\ Shown(i).events \cap EventsOf(i) = basis
            /\ (\E e \in basis : info[e].verification \in Special) => Shown(i).reasons
            /\ Shown(i).direction \in {"WAIT", "INSUFFICIENT_DATA"}
=============================================================================
