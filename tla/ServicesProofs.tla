--------------------------- MODULE ServicesProofs ---------------------------
(***************************************************************************)
(* What is proved of the smaller services, each by itself: the calendar of *)
(* the markets, the risk profile, the reviews of items, the titles of      *)
(* references, the public quotes and the budget.  Each section begins with *)
(* the invariant that its theorem needs.                                   *)
(***************************************************************************)
EXTENDS MarketCalendar, RiskProfile, DecisionReviews, ReferenceTitles, PublicQuotes, OperatingBudget,
        TLAPS, FiniteSetTheorems, WellFoundedInduction

-----------------------------------------------------------------------------
(* The calendar of the markets.  As long as the preference is what it was, *)
(* what was announced is a session and its scheduled time.                 *)

\* The first of the sessions that are upcoming is one of them.
LEMMA FirstUpcoming ==
    ASSUME NEW S, S \subseteq Nat, S # {}
    PROVE  Min(S) \in S
<1>1. PICK x \in S : \A y \in S : <<y, x>> \notin OpToRel(<, Nat)
  BY NatLessThanWellFounded, WFMin
<1>2. \A y \in S : y \in Nat /\ <<y, x>> \in Nat \X Nat
  OBVIOUS
<1>3. \A y \in S : ~(y < x)
  BY <1>1, <1>2 DEF OpToRel
<1>4. \A y \in S : x <= y
  BY <1>2, <1>3
<1> QED
  BY <1>4 DEF Min

-----------------------------------------------------------------------------
Announcement(type, next) ==
    next # NotAnnounced =>
        /\ next.day \in 0 .. LastDay
        /\ Confirmed(type, next.day)
        /\ next.at = ScheduledAt(type, next.day)

\* What was announced under this preference is a session and its time.
Announcements ==
    /\ announced = [type \in BriefingTypes |-> announced[type]]
    /\ \A type \in BriefingTypes : Announcement(type, announced[type])

LEMMA AnnouncementsStart == CalendarInit => Announcements
  BY DEF CalendarInit, Announcements, Announcement

LEMMA AnnouncementsStay == Announcements /\ [CalendarNext]_calendarVars => Announcements'
<1> SUFFICES ASSUME Announcements, [CalendarNext]_calendarVars PROVE Announcements'
  OBVIOUS
<1> USE DEF Announcements, Announcement
<1>1. CASE UNCHANGED <<preference, announced>>
  BY <1>1 DEF ScheduledAt, Offset, Confirmed
<1>2. CASE Announce
  <2>1. \A type \in BriefingTypes : Upcoming(type) \subseteq Nat \cap (0 .. LastDay)
    BY CalendarAssumption DEF Upcoming, Confirmed
  <2>2. \A type \in BriefingTypes : Upcoming(type) # {} => Min(Upcoming(type)) \in Upcoming(type)
    BY <2>1, FirstUpcoming
  <2>3. \A type \in BriefingTypes : \A day : ScheduledAt(type, day)' = ScheduledAt(type, day)
    BY <1>2 DEF Announce, ScheduledAt, Offset
  <2>4. \A type \in BriefingTypes : Upcoming(type) # {} =>
            Min(Upcoming(type)) \in 0 .. LastDay /\ Confirmed(type, Min(Upcoming(type)))
    BY <2>1, <2>2 DEF Upcoming
  <2> QED
    BY <1>2, <2>3, <2>4 DEF Announce, Confirmed
<1>3. CASE \E p \in Preferences : SetPreference(p)
  BY <1>3 DEF SetPreference
<1> QED
  BY <1>1, <1>2, <1>3
  DEF CalendarNext, calendarVars, Cycle, Command, Tick

\* What is announced is met: the briefing of an announced session is there or
\* due, from its time to the end of its local day (next_schedule, due_schedules).
THEOREM AnnouncementsAreMet == CalendarSpec => []AnnouncedIsMet
<1>1. Announcements => AnnouncedIsMet
  <2> SUFFICES ASSUME Announcements, NEW type \in BriefingTypes,
                      announced[type] # NotAnnounced, Enabled(type),
                      announced[type].at <= now,
                      LocalDay(type, now) = announced[type].day
               PROVE  <<type, announced[type].day>> \in made \cup Due
    BY DEF AnnouncedIsMet
  <2>1. /\ announced[type].day \in 0 .. LastDay
        /\ Confirmed(type, announced[type].day)
        /\ ScheduledAt(type, announced[type].day) <= now
    BY DEF Announcements, Announcement
  <2> QED
    BY <2>1 DEF Due, Unreported
<1> QED
  BY <1>1, AnnouncementsStart, AnnouncementsStay, PTL DEF CalendarSpec
-----------------------------------------------------------------------------
(* The risk profile.  What a request is about to write is what it agreed   *)
(* on, and unless another one has written since, it has loaded the profile *)
(* that is there, so that the columns which the mapper leaves out are      *)
(* equal already.                                                          *)

LimitFields == {"style", "single", "volatile", "crypto", "cash", "policy", "count"}
Fields == {"source", "fingerprint"} \cup LimitFields

\* What the profile or a request holds of what the user agreed to.
AsAgreed(row, terms) ==
    IF terms = Unset THEN row.source = "CUSTOM" /\ row.fingerprint = Unset
    ELSE /\ row.source = "DATA_ASSISTED"
         /\ row.fingerprint = terms.fingerprint
         /\ \A f \in DOMAIN terms.limits :
               terms.limits[f] # Unset => row[f] = terms.limits[f]

\* A request that is about to write, while the profile is row.
Request(q, row) ==
    /\ q = [view |-> q.view, new |-> q.new, terms |-> q.terms, behind |-> q.behind]
    /\ AsAgreed(q.new, q.terms) /\ DOMAIN q.new = Fields
    /\ q.view # Unset => DOMAIN q.view = Fields
    /\ q.terms # Unset => DOMAIN q.terms.limits \subseteq Fields
    /\ ~q.behind => q.view = row

RiskInv ==
    /\ riskRequest = [r \in RiskRequests |-> riskRequest[r]]
    /\ shown # Unset => shown.limits = Recommended(shown.answers, shown.fingerprint)
    /\ profile # Unset => DOMAIN profile = Fields
    /\ \A r \in RiskRequests : riskRequest[r] # Unset => Request(riskRequest[r], profile)
    /\ profile # Unset /\ ~mixed => AsAgreed(profile, agreed)

-----------------------------------------------------------------------------
LEMMA RecommendedFields ==
    ASSUME NEW a, NEW p
    PROVE  DOMAIN Recommended(a, p) = LimitFields
  BY DEF Recommended, LimitFields

\* The columns of a row that is made of limits and of where they come from.
LEMMA JoinedFields ==
    ASSUME NEW limits, DOMAIN limits = LimitFields, NEW s, NEW p
    PROVE  LET row == Patched(limits, [source |-> s, fingerprint |-> p]) IN
           /\ DOMAIN row = Fields
           /\ row.source = s /\ row.fingerprint = p
           /\ \A f \in LimitFields : row[f] = limits[f]
  BY DEF Patched, Fields, LimitFields

\* The mapper leaves a row with all columns, and when the row is the one that the
\* request has loaded, it has what the request wrote.
LEMMA UpdatedColumns ==
    ASSUME NEW row, NEW view, NEW new,
           DOMAIN row = Fields, DOMAIN view = Fields, DOMAIN new = Fields
    PROVE  /\ DOMAIN Updated(row, view, new) = Fields
           /\ row = view => \A f \in Fields : Updated(row, view, new)[f] = new[f]
  BY DEF Updated, Patched, Differing, Restrict

LEMMA RiskStart == RiskInit => RiskInv
  BY DEF RiskInit, RiskInv

\* A request that is submitted has loaded the profile that is there.
LEMMA Submitted ==
    ASSUME RiskInv, NEW r \in RiskRequests, NEW new, NEW terms,
           Submit(r, new, terms), DOMAIN new = Fields, AsAgreed(new, terms),
           terms # Unset => DOMAIN terms.limits \subseteq Fields
    PROVE  RiskInv'
<1> DEFINE q == [view |-> profile, new |-> new, terms |-> terms, behind |-> FALSE]
<1>1. /\ riskRequest' = [riskRequest EXCEPT ![r] = q]
      /\ UNCHANGED <<portfolio, shown, profile, agreed, mixed, writes>>
  BY DEF Submit
<1>2. Request(q, profile)
  BY <1>1 DEF Request, AsAgreed, RiskInv
<1>3. \A s \in RiskRequests : riskRequest[s] # Unset => Request(riskRequest[s], profile)
  BY <1>1 DEF RiskInv, Request, AsAgreed
<1>4. \A s \in RiskRequests : riskRequest'[s] # Unset => Request(riskRequest[s], profile)'
  <2> HIDE DEF q
  <2> TAKE s \in RiskRequests
  <2>1. riskRequest'[s] = IF s = r THEN q ELSE riskRequest[s]
    BY <1>1 DEF RiskInv
  <2> QED
    BY <2>1, <1>1, <1>2, <1>3
<1>5. riskRequest' = [s \in RiskRequests |-> riskRequest'[s]]
  BY <1>1 DEF RiskInv
<1> QED
  BY <1>1, <1>4, <1>5 DEF RiskInv, AsAgreed

LEMMA RiskStep == RiskInv /\ [RiskNext]_riskVars => RiskInv'
<1> SUFFICES ASSUME RiskInv, [RiskNext]_riskVars PROVE RiskInv'
  OBVIOUS
<1>1. CASE UNCHANGED <<shown, profile, riskRequest, agreed, mixed>>
  BY <1>1 DEF RiskInv, Request, AsAgreed
<1>2. ASSUME NEW a \in Answers, Recommend(a) PROVE RiskInv'
  <2>1. shown'.limits = Recommended(shown'.answers, shown'.fingerprint)
    BY <1>2 DEF Recommend
  <2>2. UNCHANGED <<profile, riskRequest, agreed, mixed>>
    BY <1>2 DEF Recommend
  <2>3. Recommended(shown.answers, shown.fingerprint)'
            = Recommended(shown'.answers, shown'.fingerprint)
    OBVIOUS
  <2> QED
    BY <2>1, <2>2, <2>3 DEF RiskInv, Request, AsAgreed
<1>3. ASSUME NEW r \in RiskRequests, SubmitApply(r) PROVE RiskInv'
  <2> DEFINE fresh == Recommended(shown.answers, portfolio)
             cash == IF fresh.cash # Unset THEN fresh.cash
                     ELSE IF profile # Unset THEN profile.cash ELSE Unset
             limits == [fresh EXCEPT !.cash = cash]
             new == Patched(limits, [source |-> "DATA_ASSISTED", fingerprint |-> portfolio])
  <2>1. Submit(r, new, shown) /\ shown # Unset /\ shown.fingerprint = portfolio
    BY <1>3 DEF SubmitApply
  <2>2. fresh = shown.limits /\ DOMAIN fresh = LimitFields
    BY <2>1, RecommendedFields DEF RiskInv
  <2> HIDE DEF fresh
  <2>3. /\ DOMAIN limits = LimitFields
        /\ \A f \in LimitFields : fresh[f] # Unset => limits[f] = fresh[f]
    BY <2>2 DEF LimitFields
  <2> HIDE DEF limits
  <2>4. /\ DOMAIN new = Fields
        /\ new.source = "DATA_ASSISTED" /\ new.fingerprint = portfolio
        /\ \A f \in LimitFields : new[f] = limits[f]
    BY <2>3, JoinedFields
  <2> HIDE DEF new
  <2>5. AsAgreed(new, shown)
    BY <2>1, <2>2, <2>3, <2>4 DEF AsAgreed
  <2> QED
    BY <2>1, <2>2, <2>4, <2>5, Submitted DEF Fields
<1>4. ASSUME NEW r \in RiskRequests, NEW limits \in CustomLimits, SubmitCustom(r, limits)
      PROVE  RiskInv'
  <2> DEFINE new == Patched(limits, [source |-> "CUSTOM", fingerprint |-> Unset])
  <2>1. DOMAIN limits = LimitFields
    BY RiskAssumption DEF Limits, LimitFields
  <2>2. DOMAIN new = Fields /\ new.source = "CUSTOM" /\ new.fingerprint = Unset
    BY <2>1, JoinedFields
  <2>3. Submit(r, new, Unset)
    BY <1>4 DEF SubmitCustom
  <2> HIDE DEF new
  <2>4. AsAgreed(new, Unset)
    BY <2>2 DEF AsAgreed
  <2> QED
    BY <2>2, <2>3, <2>4, Submitted
<1>5. ASSUME NEW r \in RiskRequests, WriteProfile(r) PROVE RiskInv'
  <2> DEFINE q == riskRequest[r]
  <2>1. /\ q # Unset /\ (q.view = Unset => profile = Unset)
        /\ profile' = IF profile = Unset THEN q.new ELSE Updated(profile, q.view, q.new)
        /\ agreed' = q.terms /\ mixed' = q.behind /\ UNCHANGED shown
        /\ riskRequest' = [p \in RiskRequests |->
                              IF p = r \/ riskRequest[p] = Unset THEN Unset
                              ELSE [riskRequest[p] EXCEPT !.behind = TRUE]]
    BY <1>5 DEF WriteProfile
  <2>2. Request(q, profile)
    BY <2>1 DEF RiskInv
  <2>3. profile # Unset => DOMAIN profile = Fields
    BY DEF RiskInv
  <2>4. /\ DOMAIN profile' = Fields
        /\ ~q.behind => \A f \in Fields : profile'[f] = q.new[f]
    BY <2>1, <2>2, <2>3, UpdatedColumns DEF Request
  <2>5. profile' # Unset /\ ~mixed' => AsAgreed(profile, agreed)'
    <3> SUFFICES ASSUME ~q.behind PROVE AsAgreed(profile, agreed)'
      BY <2>1
    <3>1. /\ AsAgreed(q.new, agreed')
          /\ agreed' # Unset => DOMAIN agreed'.limits \subseteq Fields
      BY <2>1, <2>2 DEF Request
    <3>2. CASE agreed' = Unset
      BY <3>1, <3>2, <2>4 DEF AsAgreed, Fields
    <3>3. CASE agreed' # Unset
      BY <3>1, <3>3, <2>4 DEF AsAgreed, Fields, LimitFields
    <3> QED
      BY <3>2, <3>3
  <2>6. ASSUME NEW p \in RiskRequests, riskRequest'[p] # Unset
        PROVE  Request(riskRequest'[p], profile')
    <3>1. riskRequest[p] # Unset /\ riskRequest'[p] = [riskRequest[p] EXCEPT !.behind = TRUE]
      BY <2>1, <2>6
    <3>2. Request(riskRequest[p], profile)
      BY <3>1 DEF RiskInv
    <3> QED
      BY <3>1, <3>2 DEF Request
  <2> QED
    BY <2>1, <2>4, <2>5, <2>6 DEF RiskInv
<1>6. ASSUME NEW r \in RiskRequests, FailWrite(r) PROVE RiskInv'
  BY <1>6 DEF FailWrite, RiskInv, Request, AsAgreed
<1>7. CASE \E p \in Portfolios : ChangePortfolio(p)
  BY <1>1, <1>7 DEF ChangePortfolio
<1>8. CASE UNCHANGED riskVars
  BY <1>1, <1>8 DEF riskVars
<1> QED
  BY <1>2, <1>3, <1>4, <1>5, <1>6, <1>7, <1>8 DEF RiskNext

\* A profile that says it was made of data holds what the user was shown of it
\* and names that portfolio, unless two requests wrote over each other (recommend,
\* apply and replace, and the mapper that writes what has changed).
THEOREM ProfileIsAsShown == RiskSpec => []AssistedAsShown
<1>1. RiskInv => AssistedAsShown
  BY DEF RiskInv, AssistedAsShown, AsAgreed
<1> QED
  BY <1>1, RiskStart, RiskStep, PTL DEF RiskSpec
-----------------------------------------------------------------------------
(* The reviews of items.  Every impact is of an official event and says no *)
(* direction; once the impacts are settled, those of the events of an item *)
(* have the verification of now, and no event that matters lacks one.      *)

VerificationNow(e) == IF info[e].stale THEN "STALE_REUSED" ELSE info[e].verification
Matters(e) == info[e].official /\ info[e].material /\ ~info[e].stale

ImpactIsPlain(x) ==
    /\ x = <<x[1], x[2]>> /\ x[1] \in DOMAIN info /\ info[x[1]].official
    /\ impact[x] = [verification |-> impact[x].verification,
                    direction |-> "UNCLEAR", effect |-> "UNKNOWN"]

ImpactsAreCurrent ==
    /\ \A x \in DOMAIN impact : x[1] \in EventsOf(x[2]) =>
          impact[x].verification = VerificationNow(x[1])
    /\ \A i \in MappedItems : \A e \in EventsOf(i) : Matters(e) => <<e, i>> \in DOMAIN impact

ReviewInv ==
    /\ DOMAIN info \subseteq InfoEvents
    /\ \A x \in DOMAIN impact : ImpactIsPlain(x) /\ x[2] \in MappedItems
    /\ settled => ImpactsAreCurrent

LEMMA ReviewStart == ReviewInit => ReviewInv
  BY DEF ReviewInit, ReviewInv

LEMMA SyncKeepsReview == ReviewInv /\ SyncImpacts => ReviewInv'
<1> SUFFICES ASSUME ReviewInv, SyncImpacts PROVE ReviewInv'
  OBVIOUS
<1> DEFINE pairs == {x \in InfoEvents \X MappedItems : x[1] \in EventsOf(x[2])}
           stale == {x \in pairs \cap DOMAIN impact : info[x[1]].stale}
           official == {x \in pairs : ~info[x[1]].stale /\ info[x[1]].official}
           fresh == {x \in official \ DOMAIN impact : info[x[1]].material}
           again == official \cap DOMAIN impact
<1>1. /\ impact' = [x \in DOMAIN impact \cup fresh |->
                      IF x \in stale THEN [impact[x] EXCEPT !.verification = "STALE_REUSED"]
                      ELSE IF x \in fresh THEN Impact(x[1])
                      ELSE IF x \in again
                           THEN [impact[x] EXCEPT !.verification = info[x[1]].verification]
                      ELSE impact[x]]
      /\ UNCHANGED <<info, link, instrument, mapping>>
  BY DEF SyncImpacts, mapVars
<1>2. \A i : EventsOf(i)' = EventsOf(i)
  BY <1>1 DEF EventsOf, InstrumentsOf
<1>3. \A x : x \in pairs <=> x = <<x[1], x[2]>> /\ x[1] \in InfoEvents /\ x[2] \in MappedItems
                             /\ x[1] \in EventsOf(x[2])
  OBVIOUS
<1>4. \A i : EventsOf(i) \subseteq DOMAIN info
  BY DEF EventsOf
<1> HIDE DEF pairs
<1>5. ASSUME NEW x \in DOMAIN impact'
      PROVE  /\ x = <<x[1], x[2]>> /\ x[1] \in DOMAIN info /\ info[x[1]].official
             /\ x[2] \in MappedItems
             /\ impact'[x] = [verification |-> impact'[x].verification,
                              direction |-> "UNCLEAR", effect |-> "UNKNOWN"]
             /\ x[1] \in EventsOf(x[2]) => impact'[x].verification = VerificationNow(x[1])
  <2>1. CASE x \in fresh
    <3>1. impact'[x] = Impact(x[1]) /\ x \in pairs /\ ~info[x[1]].stale /\ info[x[1]].official
      BY <1>1, <2>1
    <3> QED
      BY <3>1, <1>3, <1>4 DEF Impact, VerificationNow
  <2>2. CASE x \notin fresh
    <3>1. x \in DOMAIN impact /\ ImpactIsPlain(x) /\ x[2] \in MappedItems
      BY <1>1, <2>2 DEF ReviewInv
    <3>2. x[1] \in EventsOf(x[2]) => x \in stale \/ x \in again
      BY <3>1, <1>3 DEF ImpactIsPlain, ReviewInv
    <3>3. CASE x \in stale
      <4>1. impact'[x] = [impact[x] EXCEPT !.verification = "STALE_REUSED"]
        BY <1>1, <3>1, <3>3
      <4> QED
        BY <4>1, <3>1, <3>3 DEF ImpactIsPlain, VerificationNow
    <3>4. CASE x \notin stale /\ x \in again
      <4>1. impact'[x] = [impact[x] EXCEPT !.verification = info[x[1]].verification]
        BY <1>1, <2>2, <3>1, <3>4
      <4>2. ~info[x[1]].stale
        BY <3>4
      <4> QED
        BY <4>1, <4>2, <3>1 DEF ImpactIsPlain, VerificationNow
    <3>5. CASE x \notin stale /\ x \notin again
      <4>1. impact'[x] = impact[x]
        BY <1>1, <2>2, <3>1, <3>5
      <4> QED
        BY <4>1, <3>1, <3>2, <3>5 DEF ImpactIsPlain
    <3> QED
      BY <3>3, <3>4, <3>5
  <2> QED
    BY <2>1, <2>2
<1>6. ASSUME NEW i \in MappedItems, NEW e \in EventsOf(i), Matters(e)
      PROVE  <<e, i>> \in DOMAIN impact'
  <2>1. <<e, i>> \in pairs
    BY <1>3, <1>4 DEF ReviewInv
  <2>2. <<e, i>> \in official /\ info[<<e, i>>[1]].material
    BY <2>1, <1>6 DEF Matters
  <2>3. <<e, i>> \in DOMAIN impact \/ <<e, i>> \in fresh
    BY <2>2
  <2> QED
    BY <1>1, <2>3
<1>7. \A e : VerificationNow(e)' = VerificationNow(e) /\ Matters(e)' = Matters(e)
  BY <1>1 DEF VerificationNow, Matters
<1>8. ImpactsAreCurrent'
  BY <1>2, <1>5, <1>6, <1>7 DEF ImpactsAreCurrent
<1>9. \A x \in DOMAIN impact' : ImpactIsPlain(x)' /\ x[2] \in MappedItems
  BY <1>1, <1>5 DEF ImpactIsPlain
<1> QED
  BY <1>1, <1>8, <1>9 DEF ReviewInv

LEMMA ReviewStep == ReviewInv /\ [ReviewNext]_<<mapVars, reviewVars>> => ReviewInv'
<1> SUFFICES ASSUME ReviewInv, [ReviewNext]_<<mapVars, reviewVars>> PROVE ReviewInv'
  OBVIOUS
<1>1. ASSUME UNCHANGED <<info, impact, settled, link, instrument, mapping>> PROVE ReviewInv'
  <2>1. \A i : EventsOf(i)' = EventsOf(i)
    BY <1>1 DEF EventsOf, InstrumentsOf
  <2>2. ImpactsAreCurrent => ImpactsAreCurrent'
    BY <1>1, <2>1 DEF ImpactsAreCurrent, VerificationNow, Matters
  <2> QED
    BY <1>1, <2>2 DEF ReviewInv, ImpactIsPlain
<1>2. ASSUME NEW e \in InfoEvents, NEW state \in EventStates, ChangeEvent(e, state)
      PROVE  ReviewInv'
  <2>1. /\ info' = Put(info, e, state) /\ impact' = impact /\ settled' = FALSE
        /\ e \in DOMAIN info /\ info[e].official => state.official
    BY <1>2 DEF ChangeEvent
  <2>2. /\ DOMAIN info' = DOMAIN info \cup {e}
        /\ \A d \in DOMAIN info : info'[d] = IF d = e THEN state ELSE info[d]
    BY <2>1 DEF Put
  <2>3. \A d \in DOMAIN info : info[d].official => info'[d].official
    BY <2>1, <2>2
  <2> QED
    BY <2>1, <2>2, <2>3 DEF ReviewInv, ImpactIsPlain
<1>3. CASE ChangeMap
  BY <1>3 DEF ChangeMap, ReviewInv, ImpactIsPlain
<1>4. CASE UNCHANGED <<mapVars, reviewVars>>
  BY <1>1, <1>4 DEF mapVars, reviewVars
<1>5. ASSUME NEW i \in MappedItems,
             \/ \E price \in Prices \cup {NoPrice} : RefreshReview(i, price)
             \/ Acknowledge(i)
             \/ SaveThesis(i)
             \/ \E q \in Quantities : Trade(i, q)
      PROVE  ReviewInv'
  BY <1>1, <1>5 DEF RefreshReview, Acknowledge, SaveThesis, Trade, mapVars
<1> QED
  BY <1>2, <1>3, <1>4, <1>5, SyncKeepsReview DEF ReviewNext

\* A review that is shown says what a fresh draft says.
LEMMA ShownIsDraft ==
    ASSUME NEW i
    PROVE  /\ Shown(i).events = Draft(i, NoPrice).events
           /\ Shown(i).reasons = Draft(i, NoPrice).reasons
           /\ Shown(i).direction = Draft(i, NoPrice).direction
<1>1. CASE SameAnalysis(review[i], Draft(i, NoPrice))
  <2> DEFINE r == review[i]
             d == Draft(i, NoPrice)
  <2>1. DOMAIN d = {"events", "direction", "reasons", "price", "quantity", "thesis", "decided"}
    BY DEF Draft
  <2>2. [r EXCEPT !.decided = FALSE] = d /\ Shown(i) = r
    BY <1>1 DEF SameAnalysis, Shown
  <2> HIDE DEF r, d
  <2>3. r.events = d.events /\ r.reasons = d.reasons /\ r.direction = d.direction
    BY <2>1, <2>2
  <2> QED
    BY <2>2, <2>3 DEF d
<1>2. CASE ~SameAnalysis(review[i], Draft(i, NoPrice))
  BY <1>2 DEF Shown
<1> QED
  BY <1>1, <1>2

\* Once the impacts are settled, a review rests on the official and verified events
\* of its item, tells of corrections, denials and contradictions, and proposes no
\* trade (sync_direct_impacts, latest_review and _draft).
THEOREM ReviewsAreCurrent == ReviewSpec => []ReviewIsCurrent
<1>1. ReviewInv => ReviewIsCurrent
  <2> SUFFICES ASSUME ReviewInv, settled, NEW i \in MappedItems
               PROVE  LET basis == {e \in EventsOf(i) :
                                       /\ info[e].official /\ info[e].material /\ ~info[e].stale
                                       /\ info[e].verification \in Verified}
                      IN  /\ Shown(i).events \cap EventsOf(i) = basis
                          /\ (\E e \in basis : info[e].verification \in Special) => Shown(i).reasons
                          /\ Shown(i).direction \in {"WAIT", "INSUFFICIENT_DATA"}
    BY DEF ReviewIsCurrent
  <2> DEFINE basis == {e \in EventsOf(i) :
                          /\ info[e].official /\ info[e].material /\ ~info[e].stale
                          /\ info[e].verification \in Verified}
             S == VerifiedImpacts(i)
             d == Draft(i, NoPrice)
  <2>1. /\ d.events = {x[1] : x \in S} /\ d.direction = Direction(S)
        /\ d.reasons = ({impact[x].verification : x \in S} \cap Special # {})
    BY DEF Draft
  <2>2. \A x \in S : x \in DOMAIN impact /\ ImpactIsPlain(x) /\ x[2] = i
                     /\ impact[x].verification \in Verified /\ info[x[1]].material
    BY DEF VerifiedImpacts, ReviewInv
  <2>3. ASSUME NEW x \in S, x[1] \in EventsOf(i) PROVE x[1] \in basis
    <3>1. impact[x].verification = VerificationNow(x[1])
      BY <2>2, <2>3 DEF ReviewInv, ImpactsAreCurrent
    <3>2. ~info[x[1]].stale /\ impact[x].verification = info[x[1]].verification
      BY <2>2, <3>1 DEF VerificationNow, Verified
    <3> QED
      BY <2>2, <2>3, <3>2 DEF ImpactIsPlain
  <2>4. ASSUME NEW e \in basis
        PROVE  /\ <<e, i>> \in S /\ impact[<<e, i>>].verification = info[e].verification
    <3>1. <<e, i>> \in DOMAIN impact /\ <<e, i>>[1] = e /\ <<e, i>>[2] = i
      BY <2>4 DEF ReviewInv, ImpactsAreCurrent, Matters
    <3>2. impact[<<e, i>>].verification = VerificationNow(e)
      BY <2>4, <3>1 DEF ReviewInv, ImpactsAreCurrent
    <3> QED
      BY <2>4, <3>1, <3>2 DEF VerificationNow, VerifiedImpacts
  <2>5. d.events \cap EventsOf(i) = basis
    <3>1. \A e \in d.events \cap EventsOf(i) : e \in basis
      BY <2>1, <2>3
    <3>2. \A e \in basis : e \in d.events /\ e \in EventsOf(i)
      <4> TAKE e \in basis
      <4>1. <<e, i>> \in S /\ <<e, i>>[1] = e
        BY <2>4
      <4> HIDE DEF S
      <4> QED
        BY <4>1, <2>1
    <3> QED
      BY <3>1, <3>2
  <2>6. ASSUME NEW e \in basis, info[e].verification \in Special PROVE d.reasons
    <3>1. <<e, i>> \in S /\ impact[<<e, i>>].verification \in Special
      BY <2>4, <2>6
    <3> HIDE DEF S
    <3> QED
      BY <3>1, <2>1
  <2>7. d.direction \in {"WAIT", "INSUFFICIENT_DATA"}
    <3>1. ASSUME NEW x \in S PROVE impact[x].direction = "UNCLEAR" /\ impact[x].effect = "UNKNOWN"
      <4>1. ImpactIsPlain(x)
        BY <2>2
      <4> DEFINE v == impact[x].verification
      <4>2. impact[x] = [verification |-> v, direction |-> "UNCLEAR", effect |-> "UNKNOWN"]
        BY <4>1 DEF ImpactIsPlain
      <4> HIDE DEF v
      <4> QED
        BY <4>2
    <3> HIDE DEF S
    <3> QED
      BY <3>1, <2>1 DEF Direction
  <2> HIDE DEF d, basis
  <2>8. /\ Shown(i).events = d.events /\ Shown(i).reasons = d.reasons
        /\ Shown(i).direction = d.direction
    BY ShownIsDraft DEF d
  <2> QED
    BY <2>5, <2>6, <2>7, <2>8 DEF basis
<1> QED
  BY <1>1, ReviewStart, ReviewStep, PTL DEF ReviewSpec

-----------------------------------------------------------------------------
(* The titles of references.  A translation that nothing speaks against    *)
(* scores enough to be approved, so the choice ends with none only where   *)
(* there is none; what the script is about to store is such a translation  *)
(* for every English title, and all others are Korean, for the counts.     *)

\* There is a best of some forms, whatever their scores.
LEMMA BestForm ==
    ASSUME NEW G \in SUBSET {10, 20, 30, 40}, G # {}, NEW s \in [{10, 20, 30, 40} -> Int]
    PROVE  \E f \in G : \A g \in G : s[g] <= s[f]
<1> DEFINE better(f, g) == IF f \in G /\ (g \notin G \/ s[g] <= s[f]) THEN f ELSE g
<1>1. s[10] \in Int /\ s[20] \in Int /\ s[30] \in Int /\ s[40] \in Int
  OBVIOUS
<1>2. ASSUME 10 \in G \/ 20 \in G PROVE \E f \in G : \A g \in G \cap {10, 20} : s[g] <= s[f]
  BY <1>1, <1>2
<1>3. ASSUME 30 \in G \/ 40 \in G PROVE \E f \in G : \A g \in G \cap {30, 40} : s[g] <= s[f]
  BY <1>1, <1>3
<1>4. \A f \in G : s[f] \in Int
  OBVIOUS
<1>5. CASE (10 \in G \/ 20 \in G) /\ (30 \in G \/ 40 \in G)
  <2>1. PICK a \in G : \A g \in G \cap {10, 20} : s[g] <= s[a]
    BY <1>2, <1>5
  <2>2. PICK b \in G : \A g \in G \cap {30, 40} : s[g] <= s[b]
    BY <1>3, <1>5
  <2>3. CASE s[a] <= s[b]
    BY <1>4, <2>1, <2>2, <2>3
  <2>4. CASE s[b] <= s[a]
    BY <1>4, <2>1, <2>2, <2>4
  <2> QED
    BY <1>4, <2>3, <2>4
<1>6. CASE ~(10 \in G \/ 20 \in G)
  BY <1>3, <1>6
<1>7. CASE ~(30 \in G \/ 40 \in G)
  BY <1>2, <1>7
<1> QED
  BY <1>5, <1>6, <1>7

LEMMA GreatestForm ==
    ASSUME NEW G \in SUBSET {10, 20, 30, 40}, G # {}
    PROVE  Max(G) \in G
<1> DEFINE s == [f \in {10, 20, 30, 40} |-> f]
<1>1. s \in [{10, 20, 30, 40} -> Int]
  OBVIOUS
<1>2. \E f \in G : \A g \in G : s[g] <= s[f]
  <2> HIDE DEF s
  <2> QED
    BY <1>1, BestForm
<1>3. \E f \in G : \A g \in G : f >= g
  BY <1>2
<1> QED
  BY <1>3 DEF Max

LEMMA SoundScores ==
    ASSUME NEW title, NEW t
    PROVE  /\ Score(title, t) \in Int
           /\ ~Unsound(title, t) => Score(title, t) >= 70
  BY DEF Score, Unsound

\* The translation of a title that is chosen of the answers is one of them that
\* nothing speaks against, and there is one exactly when there is such an answer.
LEMMA SelectedIsSound ==
    ASSUME NEW title, NEW answers \in AnswersTo(title)
    PROVE  /\ Selected(title, answers) = NoTranslation
                 <=> ~\E f \in Forms(title) :
                         answers[f] # Failed /\ ~Unsound(title, answers[f])
           /\ Selected(title, answers) # NoTranslation => ~Unsound(title, Selected(title, answers))
<1> DEFINE good == {f \in Forms(title) : Approved(title, answers[f])}
           best == {f \in good : \A g \in good :
                       Score(title, answers[g]) <= Score(title, answers[f])}
           s == [f \in {10, 20, 30, 40} |-> IF f \in good THEN Score(title, answers[f]) ELSE 0]
<1>1. good \in SUBSET {10, 20, 30, 40} /\ s \in [{10, 20, 30, 40} -> Int]
  BY SoundScores DEF Forms
<1>2. \A f \in good : s[f] = Score(title, answers[f])
  BY <1>1
<1>3. \A f \in Forms(title) : f \in good <=> answers[f] # Failed /\ ~Unsound(title, answers[f])
  BY SoundScores DEF Approved
<1>4. Selected(title, answers) = IF good = {} THEN NoTranslation ELSE answers[Max(best)]
  BY DEF Selected
<1>5. ASSUME good # {} PROVE Max(best) \in good
  <2>1. \E f \in good : \A g \in good : s[g] <= s[f]
    <3> HIDE DEF s, good
    <3> QED
      BY <1>1, <1>5, BestForm
  <2>2. best # {}
    BY <1>2, <2>1
  <2>3. best \in SUBSET {10, 20, 30, 40}
    BY <1>1
  <2>4. Max(best) \in best
    <3> HIDE DEF best
    <3> QED
      BY <2>2, <2>3, GreatestForm
  <2> QED
    BY <2>4
<1>6. \A f \in good : f \in Forms(title)
  OBVIOUS
<1>7. \A f \in Forms(title) : answers[f] \in Translations \cup {Failed}
  BY DEF AnswersTo
<1> HIDE DEF good, best
<1>8. CASE good = {}
  BY <1>3, <1>4, <1>8
<1>9. CASE good # {}
  <2>1. /\ Max(best) \in Forms(title) /\ answers[Max(best)] # Failed
        /\ ~Unsound(title, answers[Max(best)])
    BY <1>3, <1>5, <1>6, <1>9
  <2>2. answers[Max(best)] # NoTranslation
    BY <1>7, <2>1, TitlesAssumption
  <2> QED
    BY <1>4, <1>9, <2>1, <2>2
<1> QED
  BY <1>8, <1>9

\* What is stored of a title says whether it was earned.
Tells(i, fields, is) ==
    /\ fields.korean # NoTranslation <=> is
    /\ fields.status = "COMPLETED" <=> is
    /\ is => ~Unsound(TitleOf[i], fields.korean)

TitlesInv ==
    /\ \A i \in DOMAIN titled : Tells(i, titled[i], i \in earned)
    /\ earned \subseteq DOMAIN titled /\ applied \subseteq DOMAIN titled
    /\ IsFiniteSet(DOMAIN titled)
    /\ \A i \in applied : titled[i].status \in {"COMPLETED", "NOT_NEEDED"}
    /\ script # NoTranslation => \A i \in DOMAIN script :
          /\ script[i].status \in {"COMPLETED", "NOT_NEEDED"}
          /\ Tells(i, script[i], script[i].status = "COMPLETED")

LEMMA TitlesStart == TitlesInit => TitlesInv
  BY FS_EmptySet DEF TitlesInit, TitlesInv

\* A reference that comes with a title that was or was not earned.
LEMMA TitleAdded ==
    ASSUME TitlesInv, NEW i, i \notin DOMAIN titled, NEW fields, titled' = Put(titled, i, fields),
           UNCHANGED <<script, applied>>, NEW is \in BOOLEAN, Tells(i, fields, is),
           earned' = IF is THEN earned \cup {i} ELSE earned
    PROVE  TitlesInv'
<1>1. DOMAIN titled' = DOMAIN titled \cup {i} /\ titled'[i] = fields
      /\ \A j \in DOMAIN titled : titled'[j] = titled[j]
  BY DEF Put
<1>2. IsFiniteSet(DOMAIN titled')
  BY <1>1, FS_AddElement DEF TitlesInv
<1>3. \A j \in DOMAIN titled' : Tells(j, titled'[j], j \in earned')
  <2> TAKE j \in DOMAIN titled'
  <2>1. CASE j = i
    <3>1. (i \in earned') = is
      BY DEF TitlesInv
    <3> QED
      BY <1>1, <2>1, <3>1 DEF Tells
  <2>2. CASE j # i
    <3>1. j \in earned' <=> j \in earned
      BY <2>2
    <3> QED
      BY <1>1, <2>2, <3>1 DEF TitlesInv, Tells
  <2> QED
    BY <2>1, <2>2
<1> QED
  BY <1>1, <1>2, <1>3 DEF TitlesInv, Tells

LEMMA IngestKeepsTitles == ASSUME TitlesInv, NEW i \in TitledItems, IngestTitle(i) PROVE TitlesInv'
<1>1. PICK answers \in AnswersTo(TitleOf[i]) \cup {<<>>} :
          /\ titled' = Put(titled, i, FieldsOf(TitleOf[i], answers))
          /\ earned' = IF Sound(TitleOf[i], answers) THEN earned \cup {i} ELSE earned
  BY DEF IngestTitle
<1> DEFINE title == TitleOf[i]
           fields == FieldsOf(title, answers)
           korean == IF answers = <<>> THEN NoTranslation ELSE Selected(title, answers)
<1>2. title.language = "en" =>
          /\ korean # NoTranslation <=> Sound(title, answers)
          /\ korean # NoTranslation => ~Unsound(title, korean)
  <2>1. CASE answers = <<>>
    BY <2>1 DEF Sound
  <2>2. CASE answers # <<>>
    <3>1. answers \in AnswersTo(title)
      BY <2>2
    <3>2. DOMAIN answers = Forms(title)
      BY <3>1 DEF AnswersTo
    <3> QED
      BY <2>2, <3>1, <3>2, SelectedIsSound DEF Sound
  <2> QED
    BY <2>1, <2>2
<1>3. Tells(i, fields, Sound(title, answers))
  <2>1. CASE title.language = "en"
    <3>1. fields = [language |-> "en", korean |-> korean,
                    status |-> IF korean = NoTranslation THEN "PENDING" ELSE "COMPLETED"]
      BY <2>1 DEF FieldsOf
    <3> HIDE DEF korean, fields
    <3>2. fields.korean = korean
          /\ fields.status = IF korean = NoTranslation THEN "PENDING" ELSE "COMPLETED"
      BY <3>1
    <3> QED
      BY <1>2, <2>1, <3>2 DEF Tells
  <2>2. CASE title.language # "en"
    <3>1. fields.korean = NoTranslation /\ fields.status \in {"NOT_NEEDED", "NOT_REQUESTED"}
      BY <2>2 DEF FieldsOf, Untouched
    <3> QED
      BY <2>2, <3>1 DEF Tells, Sound
  <2> QED
    BY <2>1, <2>2
<1>4. Sound(title, answers) \in BOOLEAN
  BY DEF Sound
<1>5. i \notin DOMAIN titled /\ UNCHANGED <<script, applied>>
  BY DEF IngestTitle
<1> HIDE DEF fields
<1> QED
  BY <1>1, <1>3, <1>4, <1>5, TitleAdded DEF fields

LEMMA ReadKeepsTitles == TitlesInv /\ ReadTitles => TitlesInv'
<1> SUFFICES ASSUME TitlesInv, ReadTitles PROVE TitlesInv'
  OBVIOUS
<1>1. DOMAIN titled = Ofs("en") \cup Ofs("ko")
  <2> DEFINE E == Ofs("en")
             K == Ofs("ko")
             D == DOMAIN titled
  <2>1. E \in SUBSET D /\ K \in SUBSET D /\ E \cap K = {}
    BY DEF Ofs
  <2>2. Cardinality(D) = Cardinality(E) + Cardinality(K)
    BY DEF ReadTitles
  <2>3. IsFiniteSet(D)
    BY DEF TitlesInv
  <2> HIDE DEF E, K, D
  <2>4. IsFiniteSet(E) /\ IsFiniteSet(K)
    BY <2>1, <2>3, FS_Subset
  <2>5. Cardinality(E \cup K) = Cardinality(E) + Cardinality(K) - Cardinality({})
    BY <2>1, <2>4, FS_Union
  <2>6. Cardinality(E \cup K) = Cardinality(D)
    BY <2>2, <2>4, <2>5, FS_EmptySet, FS_CardinalityType
  <2>7. E \cup K \in SUBSET D
    BY <2>1
  <2> QED
    BY <2>3, <2>6, <2>7, FS_Subset DEF E, K, D
<1>2. PICK pick \in [Ofs("en") -> Translations] :
          /\ \A i \in Ofs("en") :
                \E answers \in AnswersTo(TitleOf[i]) : Selected(TitleOf[i], answers) = pick[i]
          /\ script' =
                [i \in DOMAIN titled |->
                    IF i \in Ofs("ko")
                    THEN [language |-> "ko", status |-> "NOT_NEEDED", korean |-> NoTranslation]
                    ELSE [language |-> "en", status |-> "COMPLETED", korean |-> pick[i]]]
  BY DEF ReadTitles
<1>3. \A i \in Ofs("en") : pick[i] # NoTranslation /\ ~Unsound(TitleOf[i], pick[i])
  <2> TAKE i \in Ofs("en")
  <2>1. PICK answers \in AnswersTo(TitleOf[i]) : Selected(TitleOf[i], answers) = pick[i]
    BY <1>2
  <2>2. pick[i] # NoTranslation
    BY TitlesAssumption
  <2> QED
    BY <2>1, <2>2, SelectedIsSound
<1>4. ASSUME NEW i \in DOMAIN script'
      PROVE  /\ script'[i].status \in {"COMPLETED", "NOT_NEEDED"}
             /\ Tells(i, script'[i], script'[i].status = "COMPLETED")
  <2>1. CASE i \in Ofs("ko")
    BY <1>2, <2>1 DEF Tells
  <2>2. CASE i \notin Ofs("ko")
    <3>1. script'[i] = [language |-> "en", status |-> "COMPLETED", korean |-> pick[i]]
      BY <1>2, <2>2
    <3>2. script'[i].status = "COMPLETED" /\ script'[i].korean = pick[i]
      BY <3>1
    <3>3. i \in Ofs("en")
      BY <1>1, <1>2, <2>2
    <3> QED
      BY <1>3, <3>2, <3>3 DEF Tells
  <2> QED
    BY <2>1, <2>2
<1>5. UNCHANGED <<titled, earned, applied>>
  BY DEF ReadTitles
<1> QED
  BY <1>4, <1>5 DEF TitlesInv, Tells

LEMMA TitlesStep == TitlesInv /\ [TitlesNext]_titleVars => TitlesInv'
<1> SUFFICES ASSUME TitlesInv, [TitlesNext]_titleVars PROVE TitlesInv'
  OBVIOUS
<1>1. ASSUME NEW i \in TitledItems, ImportTitle(i) PROVE TitlesInv'
  <2>1. Tells(i, Untouched, FALSE)
    BY DEF Tells, Untouched
  <2>2. /\ i \notin DOMAIN titled /\ titled' = Put(titled, i, Untouched)
        /\ UNCHANGED <<script, earned, applied>>
    BY <1>1 DEF ImportTitle
  <2> QED
    BY <2>1, <2>2, TitleAdded
<1>2. CASE ApplyTitles
  <2>1. /\ script # NoTranslation /\ DOMAIN titled = DOMAIN script /\ Unused /\ titled' = script
        /\ earned' = earned \cup {i \in DOMAIN script : script[i].status = "COMPLETED"}
        /\ applied' = applied \cup DOMAIN script /\ script' = NoTranslation
    BY <1>2 DEF ApplyTitles
  <2>2. earned = {}
    <3>1. \A i \in DOMAIN titled : titled[i].korean = NoTranslation
      BY <2>1 DEF Unused, Untouched
    <3> QED
      BY <3>1 DEF TitlesInv, Tells
  <2>3. \A i \in DOMAIN titled' : Tells(i, titled'[i], i \in earned')
    <3> TAKE i \in DOMAIN titled'
    <3>1. (i \in earned') = (script[i].status = "COMPLETED")
      BY <2>1, <2>2
    <3>2. Tells(i, script[i], script[i].status = "COMPLETED")
      BY <2>1 DEF TitlesInv
    <3> QED
      BY <2>1, <3>1, <3>2 DEF Tells
  <2> QED
    BY <2>1, <2>2, <2>3 DEF TitlesInv, Tells
<1>3. CASE AbandonTitles
  BY <1>3 DEF AbandonTitles, TitlesInv, Tells
<1>4. CASE UNCHANGED titleVars
  BY <1>4 DEF titleVars, TitlesInv, Tells
<1> QED
  BY <1>1, <1>2, <1>3, <1>4, IngestKeepsTitles, ReadKeepsTitles DEF TitlesNext

\* A reference has a Korean title exactly when its own title was given a translation
\* that nothing speaks against, and the script leaves none without (the choice of
\* select_title_translation, ingest, and apply_actions of the script).
THEOREM TranslationsAreEarned == TitlesSpec => []TranslationIsEarned
<1>1. TitlesInv => TranslationIsEarned
  BY DEF TitlesInv, TranslationIsEarned, Tells
<1> QED
  BY <1>1, TitlesStart, TitlesStep, PTL DEF TitlesSpec

-----------------------------------------------------------------------------
(* The public quotes.  A quote of which a provider was asked after another *)
(* one had its time is of no earlier event, and so is an answer that a     *)
(* command has yet to take; of the newest that was ever stored it is known *)
(* when it goes.  So what is shown instead of it was answered before.      *)

Busy(c) == command[c] # NoState
Known(q) == q \in quoted \/ \E c \in QuoteCommands : Busy(c) /\ q \in command[c].quotes

\* A quote or an answer that came after the time of a quote is no older.
Follows(x, q) == x.since > q.fetched => x.event >= q.event

\* What a provider has answered.
Answered(x, p) ==
    /\ x.event \in Nat \ {0} /\ x.since \in Nat /\ x.event <= market[p]
    /\ Follows(x, heard[p])
    /\ \A q : Known(q) /\ q.provider = p => Follows(x, q)

QuoteIsPlain(q) ==
    /\ q.provider \in QuoteProviders /\ Answered(q, q.provider)
    /\ q.fetched \in Nat /\ q.since <= q.fetched /\ q.fetched < moment

JobIsPlain(job) ==
    /\ job = [left |-> job.left, answer |-> job.answer, quotes |-> job.quotes,
              lists |-> job.lists, states |-> job.states]
    /\ job.left \in Seq(QuoteProviders)
    /\ \A m, n \in DOMAIN job.left : m # n => job.left[m] # job.left[n]
    /\ \A q, r \in job.quotes : q.provider = r.provider => q = r
    /\ \A q \in job.quotes : \A n \in DOMAIN job.left : job.left[n] # q.provider

AnswerIsPlain(job) ==
    job.answer # NoState =>
        /\ job.left # <<>> /\ Answered(job.answer, Head(job.left))
        /\ job.answer.since <= moment

StoredTells(p) ==
    /\ \A q, r \in QuotesOf(p) : q.event = r.event => q = r
    /\ \A q \in QuotesOf(p) :
          /\ q.event <= heard[p].event
          /\ q.event = heard[p].event => q.fetched >= heard[p].fetched
    /\ \/ \E q \in QuotesOf(p) : q.event = heard[p].event
       \/ heard[p].event = 0
       \/ /\ heard[p].fetched + QuoteLife <= moment
          /\ \A q \in QuotesOf(p) : q.fetched > heard[p].fetched

Clocks ==
    /\ moment \in Nat /\ market \in [QuoteProviders -> Nat \ {0}]
    /\ command = [c \in QuoteCommands |-> command[c]]
    /\ \A p \in QuoteProviders :
          heard[p].event \in Nat /\ heard[p].fetched \in Nat /\ heard[p].event <= market[p]

KnownArePlain == \A q : Known(q) => QuoteIsPlain(q)
JobsArePlain == \A c \in QuoteCommands : Busy(c) => JobIsPlain(command[c])
AnswersArePlain == \A c \in QuoteCommands : Busy(c) => AnswerIsPlain(command[c])
StoredTell == \A p \in QuoteProviders : StoredTells(p)

QuotesInv == Clocks /\ KnownArePlain /\ JobsArePlain /\ AnswersArePlain /\ StoredTell

LEMMA QuotesStart == QuotesInit => QuotesInv
<1> SUFFICES ASSUME QuotesInit PROVE QuotesInv
  OBVIOUS
<1>1. \A q : ~Known(q)
  BY DEF QuotesInit, Known, Busy
<1>2. \A p \in QuoteProviders : StoredTells(p)
  BY DEF QuotesInit, StoredTells, QuotesOf
<1>3. Clocks
  BY DEF QuotesInit, Clocks
<1> QED
  BY <1>1, <1>2, <1>3
  DEF QuotesInv, KnownArePlain, JobsArePlain, AnswersArePlain, StoredTell, QuotesInit, Busy

\* One command goes on.
LEMMA OneJobChanges ==
    ASSUME Clocks, NEW c \in QuoteCommands, NEW job, command' = [command EXCEPT ![c] = job]
    PROVE  /\ command' = [d \in QuoteCommands |-> command'[d]] /\ command'[c] = job
           /\ \A d \in QuoteCommands \ {c} : command'[d] = command[d]
  BY DEF Clocks

\* The order of quotes and answers stays where no quote becomes known, and time and
\* the market go on.
LEMMA NoNewQuote ==
    ASSUME QuotesInv, Clocks', \A q : Known(q)' => Known(q), moment' >= moment,
           \A p \in QuoteProviders : market'[p] >= market[p], heard' = heard
    PROVE  /\ KnownArePlain'
           /\ \A p \in QuoteProviders : \A x : Answered(x, p) => Answered(x, p)'
<1>1. ASSUME NEW p \in QuoteProviders, NEW x, Answered(x, p) PROVE Answered(x, p)'
  <2>1. market[p] \in Nat /\ market'[p] \in Nat /\ market'[p] >= market[p]
    BY DEF QuotesInv, Clocks
  <2>2. x.event <= market'[p]
    BY <1>1, <2>1 DEF Answered
  <2> QED
    BY <1>1, <2>2 DEF Answered, Follows
<1>2. ASSUME NEW q, Known(q)' PROVE QuoteIsPlain(q)'
  <2>1. QuoteIsPlain(q) /\ moment \in Nat /\ moment' \in Nat
    BY <1>2 DEF QuotesInv, KnownArePlain, Clocks
  <2>2. Answered(q, q.provider)' /\ q.provider \in QuoteProviders
    BY <1>1, <2>1 DEF QuoteIsPlain
  <2> QED
    BY <2>1, <2>2 DEF QuoteIsPlain
<1> QED
  BY <1>1, <1>2 DEF KnownArePlain

\* What a command still asks is of the providers.
LEMMA AskedProvider ==
    ASSUME NEW job, JobIsPlain(job), job.left # <<>>
    PROVE  /\ Head(job.left) \in QuoteProviders /\ Head(job.left) = job.left[1]
           /\ 1 \in DOMAIN job.left
  BY DEF JobIsPlain

\* The answer of a command that stays is still one when what is answered stays so.
LEMMA AnswersStay ==
    ASSUME QuotesInv, moment' \in Nat, moment' >= moment,
           \A p \in QuoteProviders : \A x : Answered(x, p) /\ x.since <= moment => Answered(x, p)',
           NEW d \in QuoteCommands, command'[d] = command[d], Busy(d)
    PROVE  AnswerIsPlain(command[d])'
<1>1. JobIsPlain(command[d]) /\ AnswerIsPlain(command[d]) /\ moment \in Nat
  BY DEF QuotesInv, JobsArePlain, AnswersArePlain, Clocks
<1>2. CASE command[d].answer = NoState
  BY <1>2 DEF AnswerIsPlain
<1>3. CASE command[d].answer # NoState
  <2> DEFINE x == command[d].answer
             left == command[d].left
  <2>1. left # <<>> /\ Answered(x, Head(left)) /\ x.since <= moment /\ x.since \in Nat
    BY <1>1, <1>3 DEF AnswerIsPlain, Answered
  <2>2. Head(left) \in QuoteProviders
    BY <1>1, <2>1, AskedProvider
  <2>3. Answered(x, Head(left))' /\ x.since <= moment'
    BY <1>1, <2>1, <2>2
  <2> QED
    BY <2>1, <2>3 DEF AnswerIsPlain
<1> QED
  BY <1>2, <1>3

LEMMA StoredStay ==
    ASSUME QuotesInv, Clocks', moment' >= moment, UNCHANGED <<quoted, heard>>
    PROVE  StoredTell'
<1> SUFFICES ASSUME NEW p \in QuoteProviders PROVE StoredTells(p)'
  BY DEF StoredTell
<1>1. StoredTells(p)
  BY DEF QuotesInv, StoredTell
<1>2. QuotesOf(p)' = QuotesOf(p)
  BY DEF QuotesOf
<1>3. heard[p].fetched \in Nat /\ moment \in Nat /\ moment' \in Nat
  BY DEF QuotesInv, Clocks
<1> QED
  BY <1>1, <1>2, <1>3, QuotesAssumption DEF StoredTells

\* A step of one command, or none.
LEMMA CommandGoesOn ==
    ASSUME QuotesInv, Clocks', KnownArePlain', UNCHANGED <<quoted, heard>>, moment' >= moment,
           \A p \in QuoteProviders : \A x : Answered(x, p) /\ x.since <= moment => Answered(x, p)',
           NEW c, \A d \in QuoteCommands \ {c} : command'[d] = command[d],
           c \in QuoteCommands /\ Busy(c)' => JobIsPlain(command[c])' /\ AnswerIsPlain(command[c])'
    PROVE  QuotesInv'
<1>1. ASSUME NEW d \in QuoteCommands, Busy(d)'
      PROVE  JobIsPlain(command[d])' /\ AnswerIsPlain(command[d])'
  <2>1. CASE d = c
    BY <1>1, <2>1
  <2>2. CASE d # c
    <3>1. command'[d] = command[d] /\ Busy(d)
      BY <1>1, <2>2 DEF Busy
    <3>2. JobIsPlain(command[d])'
      BY <3>1 DEF QuotesInv, JobsArePlain, JobIsPlain
    <3>3. moment' \in Nat
      BY DEF Clocks
    <3> QED
      BY <3>1, <3>2, <3>3, AnswersStay
  <2> QED
    BY <2>1, <2>2
<1>2. JobsArePlain' /\ AnswersArePlain'
  BY <1>1 DEF JobsArePlain, AnswersArePlain
<1>3. StoredTell'
  BY StoredStay
<1> QED
  BY <1>2, <1>3 DEF QuotesInv

\* The providers that are left are others.
LEMMA OthersAreLeft ==
    ASSUME NEW job, JobIsPlain(job), job.left # <<>>, NEW left, left = Tail(job.left)
    PROVE  /\ left \in Seq(QuoteProviders)
           /\ \A m, n \in DOMAIN left : m # n => left[m] # left[n]
           /\ \A n \in DOMAIN left : left[n] # Head(job.left)
           /\ \A q \in job.quotes : q.provider # Head(job.left)
           /\ \A q \in job.quotes : \A n \in DOMAIN left : left[n] # q.provider
<1>1. Head(job.left) = job.left[1] /\ 1 \in DOMAIN job.left
  BY AskedProvider
<1>2. left \in Seq(QuoteProviders) /\ \A n \in DOMAIN left :
         n + 1 \in DOMAIN job.left /\ left[n] = job.left[n + 1] /\ n \in Nat \ {0}
  BY DEF JobIsPlain
<1>3. \A m, n \in DOMAIN left : m # n => left[m] # left[n]
  <2> TAKE m, n \in DOMAIN left
  <2>1. m + 1 \in DOMAIN job.left /\ n + 1 \in DOMAIN job.left /\ (m # n => m + 1 # n + 1)
    BY <1>2
  <2> QED
    BY <1>2, <2>1 DEF JobIsPlain
<1>4. \A n \in DOMAIN left : left[n] # Head(job.left)
  <2> TAKE n \in DOMAIN left
  <2>1. n + 1 \in DOMAIN job.left /\ n + 1 # 1
    BY <1>2
  <2> QED
    BY <1>1, <1>2, <2>1 DEF JobIsPlain
<1>5. \A q \in job.quotes : q.provider # Head(job.left)
  BY <1>1 DEF JobIsPlain
<1>6. \A q \in job.quotes : \A n \in DOMAIN left : left[n] # q.provider
  BY <1>2 DEF JobIsPlain
<1> QED
  BY <1>2, <1>3, <1>4, <1>5, <1>6

LEMMA SkipKeepsQuotes ==
    ASSUME QuotesInv, NEW c \in QuoteCommands, Skip(c)
    PROVE  QuotesInv'
<1> DEFINE job == command[c]
           left == Tail(job.left)
           next == [left |-> left, answer |-> job.answer, quotes |-> job.quotes,
                    lists |-> job.lists, states |-> job.states]
<1>1. /\ Busy(c) /\ job.left # <<>> /\ job.answer = NoState
      /\ command' = [command EXCEPT ![c].left = Tail(@)]
      /\ UNCHANGED <<moment, market, quoted, heard>>
  BY DEF Skip, Asking, Busy
<1>2. JobIsPlain(job) /\ Clocks
  BY <1>1 DEF QuotesInv, JobsArePlain
<1>3. job = [left |-> job.left, answer |-> job.answer, quotes |-> job.quotes,
             lists |-> job.lists, states |-> job.states]
  BY <1>2 DEF JobIsPlain
<1>4. /\ command' = [d \in QuoteCommands |-> command'[d]] /\ command'[c] = next
      /\ \A d \in QuoteCommands \ {c} : command'[d] = command[d]
  <2>1. command = [d \in QuoteCommands |-> command[d]]
    BY <1>2 DEF Clocks
  <2>2. command'[c] = next
    BY <1>1, <1>3, <2>1
  <2> HIDE DEF next
  <2> QED
    BY <1>1, <2>1, <2>2
<1>5. /\ left \in Seq(QuoteProviders)
      /\ \A m, n \in DOMAIN left : m # n => left[m] # left[n]
      /\ \A q \in job.quotes : \A n \in DOMAIN left : left[n] # q.provider
  BY <1>1, <1>2, OthersAreLeft
<1>6. JobIsPlain(next) /\ next.quotes = job.quotes /\ next.answer = NoState
  <2>1. /\ next = [left |-> next.left, answer |-> next.answer, quotes |-> next.quotes,
                   lists |-> next.lists, states |-> next.states]
        /\ next.left = left /\ next.quotes = job.quotes /\ next.answer = NoState
    BY <1>1
  <2>2. \A q, r \in job.quotes : q.provider = r.provider => q = r
    BY <1>2 DEF JobIsPlain
  <2> HIDE DEF next, left
  <2> QED
    BY <1>5, <2>1, <2>2 DEF JobIsPlain
<1> HIDE DEF next
<1>7. \A q : Known(q)' => Known(q)
  BY <1>1, <1>6, <1>4 DEF Known, Busy
<1>8. Clocks' /\ moment' >= moment /\ \A p \in QuoteProviders : market'[p] >= market[p]
  BY <1>1, <1>2, <1>4 DEF Clocks
<1>9. JobIsPlain(command[c])' /\ AnswerIsPlain(command[c])'
  BY <1>6, <1>4 DEF AnswerIsPlain, JobIsPlain
<1> QED
  BY <1>1, <1>4, <1>7, <1>8, <1>9, NoNewQuote, CommandGoesOn

\* The provider answers with its last event: no quote that has its time is newer.
LEMMA AskKeepsQuotes ==
    ASSUME QuotesInv, NEW c \in QuoteCommands, NEW status, Ask(c, status)
    PROVE  QuotesInv'
<1> DEFINE job == command[c]
           p == Head(job.left)
           answer == [status |-> status, event |-> market[p], since |-> moment]
           next == [left |-> job.left, answer |-> answer, quotes |-> job.quotes,
                    lists |-> job.lists, states |-> job.states]
<1>1. /\ Busy(c) /\ job.left # <<>> /\ command' = [command EXCEPT ![c].answer = answer]
      /\ UNCHANGED <<moment, market, quoted, heard>>
  BY DEF Ask, Asking, Busy
<1>2. JobIsPlain(job) /\ Clocks
  BY <1>1 DEF QuotesInv, JobsArePlain
<1>3. job = [left |-> job.left, answer |-> job.answer, quotes |-> job.quotes,
             lists |-> job.lists, states |-> job.states]
  BY <1>2 DEF JobIsPlain
<1>4. /\ command' = [d \in QuoteCommands |-> command'[d]] /\ command'[c] = next
      /\ \A d \in QuoteCommands \ {c} : command'[d] = command[d]
  <2> HIDE DEF answer
  <2>1. command = [d \in QuoteCommands |-> command[d]]
    BY <1>2 DEF Clocks
  <2>2. command'[c] = next
    BY <1>1, <1>3, <2>1
  <2> HIDE DEF next
  <2> QED
    BY <1>1, <2>1, <2>2
<1>5. p \in QuoteProviders
  BY <1>1, <1>2, AskedProvider
<1>6. answer.event = market[p] /\ answer.since = moment
  OBVIOUS
<1>7. /\ next = [left |-> next.left, answer |-> next.answer, quotes |-> next.quotes,
                 lists |-> next.lists, states |-> next.states]
      /\ next.left = job.left /\ next.quotes = job.quotes /\ next.answer = answer
  OBVIOUS
<1> HIDE DEF answer, next
<1>8. JobIsPlain(next)
  BY <1>2, <1>7 DEF JobIsPlain
<1>9. \A q : Known(q)' => Known(q)
  <2> TAKE q
  <2>1. ASSUME NEW d \in QuoteCommands, Busy(d)', q \in command'[d].quotes PROVE Known(q)
    <3>1. CASE d = c
      BY <1>1, <1>4, <1>7, <2>1, <3>1 DEF Known, Busy
    <3>2. CASE d # c
      BY <1>4, <2>1, <3>2 DEF Known, Busy
    <3> QED
      BY <3>1, <3>2
  <2> QED
    BY <1>1, <2>1 DEF Known
<1>10. Clocks' /\ moment' >= moment /\ \A x \in QuoteProviders : market'[x] >= market[x]
  BY <1>1, <1>2, <1>4 DEF Clocks
<1>11. Answered(answer, p)
  <2>1. /\ market[p] \in Nat \ {0} /\ moment \in Nat /\ heard[p].event <= market[p]
        /\ heard[p].event \in Nat
    BY <1>2, <1>5 DEF Clocks
  <2>2. \A q : Known(q) /\ q.provider = p => q.event <= market[p] /\ q.event \in Nat
    BY DEF QuotesInv, KnownArePlain, QuoteIsPlain, Answered
  <2> QED
    BY <1>6, <2>1, <2>2 DEF Answered, Follows
<1>12. AnswerIsPlain(command[c])'
  <2>1. command'[c].answer = answer /\ command'[c].left = job.left
    BY <1>7, <1>4
  <2>2. \A y, z : Answered(y, z) /\ y = answer /\ z = p => Answered(y, z)'
    BY <1>1, <1>5, <1>9, <1>10, NoNewQuote
  <2>3. \E y, z : y = answer /\ z = p /\ Answered(y, z)'
    BY <1>11, <2>2
  <2> QED
    BY <1>1, <1>2, <1>6, <2>1, <2>3 DEF AnswerIsPlain, Clocks
<1>13. JobIsPlain(command[c])'
  BY <1>8, <1>4 DEF JobIsPlain
<1> QED
  BY <1>1, <1>4, <1>9, <1>10, <1>12, <1>13, NoNewQuote, CommandGoesOn

\* A command takes the time: whatever was answered before is not after it.
LEMMA TakeKeepsQuotes ==
    ASSUME QuotesInv, NEW c \in QuoteCommands, Take(c)
    PROVE  QuotesInv'
<1> DEFINE job == command[c]
           p == Head(job.left)
           answer == job.answer
           news == Fresh(p, answer)
           left == Tail(job.left)
           lists == IF answer.status = "READY" /\ p \notin listedCoins
                    THEN job.lists \cup {p} ELSE job.lists
           states == Put(job.states, p, [view |-> providerState[p],
                                         new |-> Recorded(p, answer.status)])
           next == [left |-> left, answer |-> NoState, quotes |-> job.quotes \cup news,
                    lists |-> lists, states |-> states]
<1>1. /\ Busy(c) /\ answer # NoState /\ moment' = moment + 1
      /\ command' = [command EXCEPT ![c] = next]
      /\ UNCHANGED <<market, quoted, heard>>
  BY DEF Take, Busy
<1>2. JobIsPlain(job) /\ AnswerIsPlain(job) /\ Clocks
  BY <1>1 DEF QuotesInv, JobsArePlain, AnswersArePlain
<1>3. job.left # <<>> /\ Answered(answer, p) /\ answer.since <= moment
  BY <1>1, <1>2 DEF AnswerIsPlain
<1>4. \A q \in news : /\ q.provider = p /\ q.event = answer.event /\ q.since = answer.since
                      /\ q.fetched = moment
  BY DEF Fresh
<1>5. \A q, r \in news : q = r
  BY DEF Fresh
<1>6. /\ next = [left |-> next.left, answer |-> next.answer, quotes |-> next.quotes,
                 lists |-> next.lists, states |-> next.states]
      /\ next.left = left /\ next.quotes = job.quotes \cup news /\ next.answer = NoState
  <2> HIDE DEF left, news, lists, states
  <2> QED
    OBVIOUS
<1>7. /\ left \in Seq(QuoteProviders)
      /\ \A m, n \in DOMAIN left : m # n => left[m] # left[n]
      /\ \A n \in DOMAIN left : left[n] # p
      /\ \A q \in job.quotes : q.provider # p
      /\ \A q \in job.quotes : \A n \in DOMAIN left : left[n] # q.provider
  BY <1>2, <1>3, OthersAreLeft
<1>8. p \in QuoteProviders
  BY <1>2, <1>3, AskedProvider
<1>9. \A q, r \in job.quotes : q.provider = r.provider => q = r
  BY <1>2 DEF JobIsPlain
<1> HIDE DEF next, news, p, left
<1>10. /\ command' = [d \in QuoteCommands |-> command'[d]] /\ command'[c] = next
       /\ \A d \in QuoteCommands \ {c} : command'[d] = command[d]
  BY <1>1, <1>2, OneJobChanges
<1>11. Clocks' /\ moment' >= moment /\ moment \in Nat
  BY <1>1, <1>2, <1>10 DEF Clocks
<1>12. JobIsPlain(next)
  <2>1. \A q, r \in next.quotes : q.provider = r.provider => q = r
    <3> TAKE q, r \in next.quotes
    <3>1. (q \in job.quotes \/ q \in news) /\ (r \in job.quotes \/ r \in news)
      BY <1>6
    <3> QED
      BY <1>4, <1>5, <1>7, <1>9, <3>1
  <2>2. \A q \in next.quotes : \A n \in DOMAIN left : left[n] # q.provider
    <3> TAKE q \in next.quotes
    <3>1. q \in job.quotes \/ q \in news
      BY <1>6
    <3> QED
      BY <1>4, <1>7, <3>1
  <2> QED
    BY <1>6, <1>7, <2>1, <2>2 DEF JobIsPlain
<1>13. JobIsPlain(command[c])' /\ AnswerIsPlain(command[c])'
  BY <1>6, <1>10, <1>12 DEF JobIsPlain, AnswerIsPlain
<1>14. \A q : Known(q)' => Known(q) \/ q \in news
  <2> TAKE q
  <2>1. ASSUME NEW d \in QuoteCommands, Busy(d)', q \in command'[d].quotes
        PROVE  Known(q) \/ q \in news
    <3>1. CASE d = c
      BY <1>1, <1>6, <1>10, <2>1, <3>1 DEF Known, Busy
    <3>2. CASE d # c
      BY <1>10, <2>1, <3>2 DEF Known, Busy
    <3> QED
      BY <3>1, <3>2
  <2> QED
    BY <1>1, <2>1 DEF Known
<1>15. ASSUME NEW r \in QuoteProviders, NEW x, Answered(x, r), x.since <= moment
       PROVE  Answered(x, r)'
  <2>1. ASSUME NEW q, Known(q)', q.provider = r PROVE Follows(x, q)
    <3>1. CASE Known(q)
      BY <1>15, <2>1, <3>1 DEF Answered
    <3>2. CASE q \in news
      <4>1. q.fetched = moment /\ x.since \in Nat
        BY <1>4, <1>15, <3>2 DEF Answered
      <4> QED
        BY <1>11, <1>15, <4>1 DEF Follows
    <3> QED
      BY <1>14, <2>1, <3>1, <3>2
  <2> QED
    BY <1>1, <1>15, <2>1 DEF Answered, Follows
<1>16. KnownArePlain'
  <2>1. ASSUME NEW q, Known(q)' PROVE QuoteIsPlain(q)'
    <3>1. CASE Known(q)
      <4>1. QuoteIsPlain(q)
        BY <3>1 DEF QuotesInv, KnownArePlain
      <4>2. q.since <= moment /\ q.fetched < moment + 1
        BY <1>11, <4>1 DEF QuoteIsPlain, Answered
      <4>3. Answered(q, q.provider)' /\ q.provider \in QuoteProviders
        BY <1>15, <4>1, <4>2 DEF QuoteIsPlain
      <4> QED
        BY <1>1, <4>1, <4>2, <4>3 DEF QuoteIsPlain
    <3>2. CASE q \in news
      <4>1. /\ q.provider = p /\ q.event = answer.event /\ q.since = answer.since
            /\ q.fetched = moment
        BY <1>4, <3>2
      <4>2. Answered(q, p)
        BY <1>3, <4>1 DEF Answered, Follows
      <4>3. Answered(q, q.provider)'
        BY <1>3, <1>8, <1>15, <4>1, <4>2
      <4>4. q.since <= q.fetched /\ q.fetched < moment + 1 /\ q.fetched \in Nat
        BY <1>3, <1>11, <4>1
      <4> QED
        BY <1>1, <1>8, <4>1, <4>3, <4>4 DEF QuoteIsPlain
    <3> QED
      BY <1>14, <2>1, <3>1, <3>2
  <2> QED
    BY <2>1 DEF KnownArePlain
<1> QED
  BY <1>1, <1>10, <1>11, <1>13, <1>15, <1>16, CommandGoesOn

\* What a provider is known for when a command has stored its quotes.
LEMMA CommitTells ==
    ASSUME QuotesInv, NEW c \in QuoteCommands, CommitQuotes(c), NEW p \in QuoteProviders
    PROVE  /\ StoredTells(p)'
           /\ heard'[p].event \in Nat /\ heard'[p].fetched \in Nat /\ heard'[p].event <= market[p]
           /\ \A x : Answered(x, p) => Follows(x, heard'[p])
<1> DEFINE job == command[c]
           Q == QuotesOf(p)
           N == {q \in job.quotes : q.provider = p}
           news == {q \in job.quotes : q.provider = p /\ q.event > heard[p].event}
           h == heard[p]
           k == heard'[p]
<1>1. /\ Busy(c) /\ ~Collides(job) /\ quoted' = quoted \cup job.quotes
      /\ \A q \in job.quotes : q.fetched + QuoteLife > moment
      /\ UNCHANGED <<moment, market>>
      /\ k = IF news = {} THEN h
             ELSE LET q == CHOOSE q \in news : TRUE IN [event |-> q.event, fetched |-> q.fetched]
  BY DEF CommitQuotes, Busy
<1>2. QuotesOf(p)' = Q \cup N
  BY <1>1 DEF QuotesOf
<1>3. \A q \in Q \cup N : Known(q) /\ q.provider = p
  BY <1>1 DEF Known, QuotesOf
<1>4. \A q : Known(q) /\ q.provider = p =>
          /\ q.event \in Nat \ {0} /\ q.fetched \in Nat /\ q.event <= market[p]
  BY DEF QuotesInv, KnownArePlain, QuoteIsPlain, Answered
<1>5. \A q \in N : \A r \in Q : q.event # r.event
  BY <1>1 DEF Collides
<1>6. \A q, r \in N : q = r
  <2>1. JobIsPlain(job)
    BY <1>1 DEF QuotesInv, JobsArePlain
  <2>2. \A q \in N : q \in job.quotes /\ q.provider = p
    OBVIOUS
  <2> HIDE DEF N, job
  <2> QED
    BY <2>1, <2>2 DEF JobIsPlain
<1>7. /\ h.event \in Nat /\ h.fetched \in Nat /\ h.event <= market[p] /\ market[p] \in Nat
      /\ moment \in Nat /\ QuoteLife \in Nat
  BY QuotesAssumption DEF QuotesInv, Clocks
<1>8. /\ \A q, r \in Q : q.event = r.event => q = r
      /\ \A q \in Q : q.event <= h.event /\ (q.event = h.event => q.fetched >= h.fetched)
      /\ \/ \E q \in Q : q.event = h.event
         \/ h.event = 0
         \/ h.fetched + QuoteLife <= moment /\ \A q \in Q : q.fetched > h.fetched
  BY DEF QuotesInv, StoredTell, StoredTells
<1>9. \A q \in N : q.fetched + QuoteLife > moment
  BY <1>1
<1>10. \A q : q \in news <=> q \in N /\ q.event > h.event
  OBVIOUS
<1>11. news # {} => \E q \in news : k.event = q.event /\ k.fetched = q.fetched
  <2> SUFFICES ASSUME news # {}
               PROVE  \E q \in news : k.event = q.event /\ k.fetched = q.fetched
    OBVIOUS
  <2> DEFINE first == CHOOSE q \in news : TRUE
  <2>1. first \in news
    OBVIOUS
  <2>2. k = [event |-> first.event, fetched |-> first.fetched]
    BY <1>1
  <2> HIDE DEF first, news, k
  <2> QED
    BY <2>1, <2>2
<1>12. news = {} => k = h
  BY <1>1
<1> HIDE DEF Q, N, news, h, k
<1>13. \A q, r \in Q \cup N : q.event = r.event => q = r
  BY <1>5, <1>6, <1>8
<1>14. CASE news # {}
  <2>1. PICK n \in news : k.event = n.event /\ k.fetched = n.fetched
    BY <1>11, <1>14
  <2>2. n \in N /\ n.event > h.event
    BY <1>10
  <2>3. \A q \in N : q = n
    BY <1>6, <2>2
  <2>4. Known(n) /\ n.provider = p /\ n.event \in Nat \ {0} /\ n.fetched \in Nat
        /\ n.event <= market[p]
    BY <1>3, <1>4, <2>2
  <2>5. \A x : Answered(x, p) => Follows(x, k)
    BY <2>1, <2>4 DEF Answered, Follows
  <2>6. \A q \in Q \cup N : q.event <= k.event /\ (q.event = k.event => q = n)
    <3> TAKE q \in Q \cup N
    <3>1. q.event \in Nat
      BY <1>3, <1>4
    <3> QED
      BY <1>7, <1>8, <2>1, <2>2, <2>3, <2>4, <3>1
  <2>7. \A q \in Q \cup N : q.event = k.event => q.fetched >= k.fetched
    BY <2>1, <2>4, <2>6
  <2>8. \E q \in Q \cup N : q.event = k.event
    BY <2>1, <2>2
  <2>9. StoredTells(p)'
    BY <1>2, <1>13, <2>6, <2>7, <2>8 DEF StoredTells, k
  <2> QED
    BY <2>1, <2>4, <2>5, <2>9 DEF k
<1>15. CASE news = {}
  <2>1. k = h
    BY <1>12, <1>15
  <2>2. ASSUME NEW q \in N
        PROVE  /\ q.event <= h.event
               /\ \/ \E r \in Q : r.event = h.event
                  \/ q.fetched > h.fetched /\ h.fetched + QuoteLife <= moment
    <3>1. q.event \in Nat \ {0} /\ q.fetched \in Nat /\ ~(q.event > h.event)
      BY <1>3, <1>4, <1>10, <1>15
    <3> QED
      BY <1>7, <1>8, <1>9, <3>1
  <2>3. ASSUME NEW q \in N, q.event = h.event PROVE q.fetched >= h.fetched
    <3>1. ~ \E r \in Q : r.event = h.event
      BY <1>5, <2>3
    <3> QED
      BY <1>3, <1>4, <1>7, <2>2, <3>1
  <2>4. \A q \in Q \cup N :
           q.event <= h.event /\ (q.event = h.event => q.fetched >= h.fetched)
    BY <1>8, <2>2, <2>3
  <2>5. \/ \E q \in Q \cup N : q.event = h.event
        \/ h.event = 0
        \/ h.fetched + QuoteLife <= moment /\ \A q \in Q \cup N : q.fetched > h.fetched
    BY <1>8, <2>2
  <2>6. StoredTells(p)'
    BY <1>1, <1>2, <1>13, <2>1, <2>4, <2>5 DEF StoredTells, k
  <2>7. \A x : Answered(x, p) => Follows(x, h)
    BY DEF Answered, h
  <2> QED
    BY <1>7, <2>1, <2>6, <2>7 DEF k
<1> QED
  BY <1>14, <1>15

LEMMA CommitKeepsQuotes ==
    ASSUME QuotesInv, NEW c \in QuoteCommands, CommitQuotes(c)
    PROVE  QuotesInv'
<1>1. /\ Busy(c) /\ quoted' = quoted \cup command[c].quotes
      /\ command' = [command EXCEPT ![c] = NoState] /\ UNCHANGED <<moment, market>>
  BY DEF CommitQuotes, Busy
<1>2. /\ command' = [d \in QuoteCommands |-> command'[d]] /\ command'[c] = NoState
      /\ \A d \in QuoteCommands \ {c} : command'[d] = command[d]
  BY <1>1, OneJobChanges DEF QuotesInv
<1>3. \A q : Known(q)' => Known(q)
  BY <1>1, <1>2 DEF Known, Busy
<1>4. Clocks' /\ moment \in Nat
  BY <1>1, <1>2, CommitTells DEF QuotesInv, Clocks
<1>5. StoredTell'
  BY CommitTells DEF StoredTell
<1>6. ASSUME NEW p \in QuoteProviders, NEW x, Answered(x, p) PROVE Answered(x, p)'
  <2>1. Follows(x, heard'[p])
    BY <1>6, CommitTells
  <2> QED
    BY <1>1, <1>3, <1>6, <2>1 DEF Answered, Follows
<1>7. KnownArePlain'
  <2>1. ASSUME NEW q, Known(q)' PROVE QuoteIsPlain(q)'
    <3>1. QuoteIsPlain(q)
      BY <1>3, <2>1 DEF QuotesInv, KnownArePlain
    <3>2. Answered(q, q.provider)'
      BY <1>6, <3>1 DEF QuoteIsPlain
    <3> QED
      BY <1>1, <3>1, <3>2 DEF QuoteIsPlain
  <2> QED
    BY <2>1 DEF KnownArePlain
<1>8. JobsArePlain'
  BY <1>2 DEF QuotesInv, JobsArePlain, Busy
<1>9. AnswersArePlain'
  <2> SUFFICES ASSUME NEW d \in QuoteCommands, Busy(d)' PROVE AnswerIsPlain(command[d])'
    BY DEF AnswersArePlain
  <2>1. command'[d] = command[d] /\ Busy(d)
    BY <1>2 DEF Busy
  <2>2. moment' \in Nat /\ moment' >= moment
    BY <1>1, <1>4
  <2> QED
    BY <1>6, <2>1, <2>2, AnswersStay
<1> QED
  BY <1>4, <1>5, <1>7, <1>8, <1>9 DEF QuotesInv

\* What is removed is older than what stays.
LEMMA ExpireKeepsQuotes == QuotesInv /\ ExpireQuotes => QuotesInv'
<1> SUFFICES ASSUME QuotesInv, ExpireQuotes PROVE QuotesInv'
  OBVIOUS
<1>1. /\ quoted' = {q \in quoted : q.fetched + QuoteLife > moment}
      /\ UNCHANGED <<moment, market, command, heard>>
  BY DEF ExpireQuotes
<1>2. Clocks' /\ JobsArePlain' /\ moment \in Nat
  BY <1>1 DEF QuotesInv, Clocks, JobsArePlain, JobIsPlain, Busy
<1>3. \A q : Known(q)' => Known(q)
  BY <1>1 DEF Known, Busy
<1>4. KnownArePlain' /\ \A p \in QuoteProviders : \A x : Answered(x, p) => Answered(x, p)'
  <2>1. moment' >= moment /\ \A p \in QuoteProviders : market'[p] >= market[p]
    BY <1>1 DEF QuotesInv, Clocks
  <2> QED
    BY <1>1, <1>2, <1>3, <2>1, NoNewQuote
<1>5. AnswersArePlain'
  <2> SUFFICES ASSUME NEW d \in QuoteCommands, Busy(d)' PROVE AnswerIsPlain(command[d])'
    BY DEF AnswersArePlain
  <2>1. command'[d] = command[d] /\ Busy(d) /\ moment' \in Nat /\ moment' >= moment
    BY <1>1, <1>2 DEF Busy
  <2> QED
    BY <1>4, <2>1, AnswersStay
<1>6. ASSUME NEW p \in QuoteProviders PROVE StoredTells(p)'
  <2> DEFINE Q == QuotesOf(p)
             R == {q \in Q : q.fetched + QuoteLife > moment}
             h == heard[p]
  <2>1. QuotesOf(p)' = R /\ heard'[p] = h /\ moment' = moment
    BY <1>1 DEF QuotesOf
  <2>2. /\ \A q, r \in Q : q.event = r.event => q = r
        /\ \A q \in Q : q.event <= h.event /\ (q.event = h.event => q.fetched >= h.fetched)
        /\ \/ \E q \in Q : q.event = h.event
           \/ h.event = 0
           \/ h.fetched + QuoteLife <= moment /\ \A q \in Q : q.fetched > h.fetched
    BY DEF QuotesInv, StoredTell, StoredTells
  <2>3. \A q \in Q : q.fetched \in Nat
    BY DEF QuotesOf, Known, QuotesInv, KnownArePlain, QuoteIsPlain
  <2>4. h.fetched \in Nat /\ moment \in Nat /\ QuoteLife \in Nat
    BY QuotesAssumption DEF QuotesInv, Clocks
  <2>5. \A q : q \in R <=> q \in Q /\ q.fetched + QuoteLife > moment
    OBVIOUS
  <2> HIDE DEF Q, R, h
  <2>6. \/ \E q \in R : q.event = h.event
        \/ h.event = 0
        \/ h.fetched + QuoteLife <= moment /\ \A q \in R : q.fetched > h.fetched
    <3>1. ASSUME NEW q \in Q, q.event = h.event, q \notin R
          PROVE  h.fetched + QuoteLife <= moment /\ \A r \in R : r.fetched > h.fetched
      <4>1. ~(q.fetched + QuoteLife > moment) /\ q.fetched >= h.fetched /\ q.fetched \in Nat
        BY <2>2, <2>3, <2>5, <3>1
      <4>2. h.fetched + QuoteLife <= moment
        BY <2>4, <4>1
      <4>3. \A r \in R : r.fetched + QuoteLife > moment /\ r.fetched \in Nat
        BY <2>3, <2>5
      <4> QED
        BY <2>4, <4>2, <4>3
    <3> QED
      BY <2>2, <2>5, <3>1
  <2>7. /\ \A q, r \in R : q.event = r.event => q = r
        /\ \A q \in R : q.event <= h.event /\ (q.event = h.event => q.fetched >= h.fetched)
    BY <2>2, <2>5
  <2> QED
    BY <2>1, <2>6, <2>7 DEF StoredTells
<1> QED
  BY <1>2, <1>4, <1>5, <1>6 DEF QuotesInv, StoredTell

LEMMA QuotesStep == QuotesInv /\ [QuotesNext]_quoteVars => QuotesInv'
<1> SUFFICES ASSUME QuotesInv, [QuotesNext]_quoteVars PROVE QuotesInv'
  OBVIOUS
<1>1. Clocks
  BY DEF QuotesInv
<1>2. ASSUME UNCHANGED <<quoted, heard>>, Clocks', moment' >= moment,
             \A p \in QuoteProviders : market'[p] >= market[p],
             \A q : Known(q)' => Known(q),
             NEW c, \A d \in QuoteCommands \ {c} : command'[d] = command[d],
             c \in QuoteCommands /\ Busy(c)' =>
                JobIsPlain(command[c])' /\ AnswerIsPlain(command[c])'
      PROVE  QuotesInv'
  <2>1. KnownArePlain' /\ \A p \in QuoteProviders : \A x : Answered(x, p) => Answered(x, p)'
    BY <1>2, NoNewQuote
  <2> QED
    BY <1>2, <2>1, CommandGoesOn
<1>3. ASSUME NEW c \in QuoteCommands, NEW order \in QuoteOrders, StartQuotes(c, order)
      PROVE  QuotesInv'
  <2> DEFINE job == [left |-> order, answer |-> NoState, quotes |-> {}, lists |-> {},
                     states |-> <<>>]
  <2>1. command' = [command EXCEPT ![c] = job] /\ UNCHANGED <<moment, market, quoted, heard>>
    BY <1>3 DEF StartQuotes
  <2>2. JobIsPlain(job) /\ job.quotes = {} /\ job.answer = NoState
    BY QuotesAssumption DEF JobIsPlain
  <2> HIDE DEF job
  <2>3. /\ command' = [d \in QuoteCommands |-> command'[d]] /\ command'[c] = job
        /\ \A d \in QuoteCommands \ {c} : command'[d] = command[d]
    BY <1>1, <2>1, OneJobChanges
  <2>4. \A q : Known(q)' => Known(q)
    BY <2>1, <2>2, <2>3 DEF Known, Busy
  <2>5. Clocks' /\ moment' >= moment /\ \A p \in QuoteProviders : market'[p] >= market[p]
    BY <1>1, <2>1, <2>3 DEF Clocks
  <2>6. JobIsPlain(command[c])' /\ AnswerIsPlain(command[c])'
    BY <2>2, <2>3 DEF JobIsPlain, AnswerIsPlain
  <2> QED
    BY <1>2, <2>1, <2>3, <2>4, <2>5, <2>6
<1>4. ASSUME NEW c \in QuoteCommands, AbandonQuotes(c) PROVE QuotesInv'
  <2>1. command' = [command EXCEPT ![c] = NoState] /\ UNCHANGED <<moment, market, quoted, heard>>
    BY <1>4 DEF AbandonQuotes
  <2>2. /\ command' = [d \in QuoteCommands |-> command'[d]] /\ command'[c] = NoState
        /\ \A d \in QuoteCommands \ {c} : command'[d] = command[d]
    BY <1>1, <2>1 DEF Clocks
  <2>3. ~Busy(c)' /\ \A q : Known(q)' => Known(q)
    BY <2>1, <2>2 DEF Known, Busy
  <2>4. Clocks' /\ moment' >= moment /\ \A p \in QuoteProviders : market'[p] >= market[p]
    BY <1>1, <2>1, <2>2 DEF Clocks
  <2> QED
    BY <1>2, <2>1, <2>2, <2>3, <2>4
<1>5. ASSUME UNCHANGED <<quoted, heard, command>>, moment' \in {moment, moment + 1},
             \/ market' = market
             \/ \E p \in QuoteProviders : market' = [market EXCEPT ![p] = @ + 1]
      PROVE  QuotesInv'
  <2>1. /\ market' \in [QuoteProviders -> Nat \ {0}]
        /\ \A p \in QuoteProviders : market'[p] >= market[p]
    BY <1>1, <1>5 DEF Clocks
  <2>2. moment' \in Nat /\ moment' >= moment
    BY <1>1, <1>5 DEF Clocks
  <2>3. Clocks'
    BY <1>1, <1>5, <2>1, <2>2 DEF Clocks
  <2>4. \A q : Known(q)' => Known(q)
    BY <1>5 DEF Known, Busy
  <2>5. PICK c : c \notin QuoteCommands
    BY NoSetContainsEverything
  <2> QED
    BY <1>2, <1>5, <2>1, <2>2, <2>3, <2>4, <2>5
<1>6. CASE \E p \in QuoteProviders : NewPrice(p)
  BY <1>5, <1>6 DEF NewPrice
<1>7. CASE \E S \in SUBSET QuoteProviders : HoldCoins(S)
  BY <1>5, <1>7 DEF HoldCoins
<1>8. CASE Elapse
  BY <1>5, <1>8 DEF Elapse
<1>9. CASE UNCHANGED quoteVars
  BY <1>5, <1>9 DEF quoteVars
<1> QED
  BY <1>3, <1>4, <1>6, <1>7, <1>8, <1>9, SkipKeepsQuotes, AskKeepsQuotes, TakeKeepsQuotes,
     CommitKeepsQuotes, ExpireKeepsQuotes
  DEF QuotesNext

\* Of quotes that are stored, one was fetched last.
LEMMA SomeIsLatest ==
    ASSUME QuotesInv, NEW p \in QuoteProviders, QuotesOf(p) # {}
    PROVE  Latest(p) # {}
<1> DEFINE Q == QuotesOf(p)
           S == {moment - q.fetched : q \in Q}
<1>1. \A q \in Q : q.fetched \in Nat /\ q.fetched < moment
  BY DEF QuotesOf, Known, QuotesInv, KnownArePlain, QuoteIsPlain
<1>2. moment \in Nat
  BY DEF QuotesInv, Clocks
<1>3. \A q \in Q : moment - q.fetched \in Nat
  BY <1>1, <1>2
<1>4. S \subseteq Nat /\ S # {}
  BY <1>3
<1>5. PICK x \in S : \A y \in S : <<y, x>> \notin OpToRel(<, Nat)
  BY <1>4, NatLessThanWellFounded, WFMin
<1>6. PICK q \in Q : x = moment - q.fetched
  BY <1>5
<1>7. \A r \in Q : r.fetched <= q.fetched
  <2> TAKE r \in Q
  <2> DEFINE y == moment - r.fetched
  <2>1. y \in S /\ y \in Nat /\ x \in Nat
    BY <1>3, <1>4
  <2>2. ~(y < x)
    BY <1>5, <2>1 DEF OpToRel
  <2> QED
    BY <1>1, <1>2, <1>6, <2>1, <2>2
<1> QED
  BY <1>6, <1>7 DEF Latest

\* The price that is shown of a provider is the newest that any finished sync had
\* brought by the time its provider answered, until retention removes it (sync,
\* _latest_quotes and cleanup).
THEOREM LatestQuoteIsNewest == QuotesSpec => []LatestIsNewest
<1>1. QuotesInv => LatestIsNewest
  <2> SUFFICES ASSUME QuotesInv, NEW p \in QuoteProviders
               PROVE  IF Latest(p) = {}
                      THEN heard[p].event = 0 \/ heard[p].fetched + QuoteLife <= moment
                      ELSE \A q \in Latest(p) :
                              \/ q.event = heard[p].event
                              \/ q.since <= heard[p].fetched /\ heard[p].fetched <= q.fetched
    BY DEF LatestIsNewest
  <2> DEFINE Q == QuotesOf(p)
             h == heard[p]
  <2>1. /\ \A q \in Q : q.event <= h.event /\ (q.event = h.event => q.fetched >= h.fetched)
        /\ \/ \E q \in Q : q.event = h.event
           \/ h.event = 0
           \/ h.fetched + QuoteLife <= moment /\ \A q \in Q : q.fetched > h.fetched
    BY DEF QuotesInv, StoredTell, StoredTells
  <2>2. \A q \in Q : /\ q.event \in Nat \ {0} /\ q.fetched \in Nat /\ q.since \in Nat
                     /\ Follows(q, h)
    BY DEF QuotesOf, Known, QuotesInv, KnownArePlain, QuoteIsPlain, Answered
  <2>3. Latest(p) = {q \in Q : \A other \in Q : other.fetched <= q.fetched}
    BY DEF Latest
  <2>4. h.event \in Nat /\ h.fetched \in Nat
    BY DEF QuotesInv, Clocks
  <2>5. Q # {} => Latest(p) # {}
    BY SomeIsLatest
  <2> HIDE DEF Q, h
  <2>6. CASE Latest(p) = {}
    BY <2>1, <2>5, <2>6 DEF h
  <2>7. ASSUME NEW q \in Latest(p)
        PROVE  q.event = h.event \/ (q.since <= h.fetched /\ h.fetched <= q.fetched)
    <3>1. q \in Q /\ \A r \in Q : r.fetched <= q.fetched
      BY <2>3
    <3>2. h.fetched <= q.fetched
      BY <2>1, <2>2, <2>4, <3>1
    <3>3. q.since > h.fetched => q.event = h.event
      BY <2>1, <2>2, <2>4, <3>1 DEF Follows
    <3> QED
      BY <2>2, <2>4, <3>1, <3>2, <3>3
  <2> QED
    BY <2>6, <2>7 DEF h
<1> QED
  BY <1>1, QuotesStart, QuotesStep, PTL DEF QuotesSpec

-----------------------------------------------------------------------------
(* The budget.  First what is needed of numbers and of sums.               *)

\* A nonempty set of naturals has a least element.
LEMMA NatMinimum ==
    ASSUME NEW T, T \subseteq Nat, T # {}
    PROVE  \E x \in T : \A y \in T : x <= y
<1>1. \E x \in T : \A y \in T : <<y, x>> \notin OpToRel(<, Nat)
  BY NatLessThanWellFounded, WFMin
<1>2. PICK x \in T : \A y \in T : <<y, x>> \notin OpToRel(<, Nat)
  BY <1>1
<1>3. \A y \in T : <<y, x>> \in Nat \X Nat
  OBVIOUS
<1>4. \A y \in T : ~(y < x)
  BY <1>2, <1>3 DEF OpToRel
<1>5. \A y \in T : y \in Nat
  OBVIOUS
<1>6. \A y \in T : x <= y
  BY <1>4, <1>5, SMT
<1> QED
  BY <1>6

\* A set with 0 that is closed under successor up to N contains 0..N.
LEMMA NatSetInduction ==
    ASSUME NEW N \in Nat, NEW T, 0 \in T,
           \A n \in 0..N : n < N /\ n \in T => n + 1 \in T
    PROVE  \A n \in 0..N : n \in T
<1> DEFINE Missing == {n \in 0..N : n \notin T}
<1>1. SUFFICES ASSUME Missing # {} PROVE FALSE
  OBVIOUS
<1>2. PICK m \in Missing : \A y \in Missing : m <= y
  <2>1. Missing \subseteq Nat
    BY SMT
  <2> QED
    BY <1>1, <2>1, NatMinimum
<1>3. m \in 0..N /\ m \notin T /\ m # 0
  BY <1>2
<1>4. m - 1 \in 0..N /\ m - 1 < N /\ (m - 1) + 1 = m
  BY <1>3, SMT
<1>5. m - 1 \in T
  BY <1>2, <1>4
<1> QED
  BY <1>3, <1>4, <1>5

-----------------------------------------------------------------------------
(* Sums over finite sets, as FoldSet computes them: one chosen element     *)
(* after the other.  The sum does not depend on the order.                 *)

Some(s) == CHOOSE x \in s : TRUE

Summing(f, w, S) ==
    f = [s \in SUBSET S |-> IF s = {} THEN 0 ELSE w[Some(s)] + f[s \ {Some(s)}]]

LEMMA SomeIsOne ==
    ASSUME NEW s, s # {}
    PROVE  Some(s) \in s
BY DEF Some

\* What a fold that is defined on subsets is on each of them.
LEMMA SummingAtNone ==
    ASSUME NEW S, NEW f, NEW w, Summing(f, w, S)
    PROVE  f[{}] = 0
<1> DEFINE rhs(x) == IF x = {} THEN 0 ELSE w[Some(x)] + f[x \ {Some(x)}]
<1>1. f = [x \in SUBSET S |-> rhs(x)]
  BY DEF Summing
<1>2. f[{}] = rhs({})
  <2> HIDE DEF rhs
  <2> QED
    BY <1>1
<1> QED
  BY <1>2

OneAndRest(f, w, s) == f[s] = w[Some(s)] + f[s \ {Some(s)}]

LEMMA SummingAt ==
    ASSUME NEW S, NEW f, NEW w, Summing(f, w, S), NEW s, s \subseteq S, s # {}
    PROVE  OneAndRest(f, w, s)
<1> DEFINE rhs(x) == IF x = {} THEN 0 ELSE w[Some(x)] + f[x \ {Some(x)}]
<1>1. f = [x \in SUBSET S |-> rhs(x)]
  BY DEF Summing
<1>2. f[s] = rhs(s)
  <2> HIDE DEF rhs
  <2> QED
    BY <1>1
<1> QED
  BY <1>2 DEF OneAndRest

\* The fold is defined on the subsets of every finite set.
LEMMA SummingExists ==
    ASSUME NEW S, IsFiniteSet(S), NEW w
    PROVE  \E f : Summing(f, w, S)
<1> DEFINE Upto(n) == {s \in SUBSET S : Cardinality(s) <= n}
           Value(f, s) == IF s = {} THEN 0 ELSE w[Some(s)] + f[s \ {Some(s)}]
           Good(n, f) == f = [s \in Upto(n) |-> Value(f, s)]
           Done == {n \in 0 .. Cardinality(S) : \E f : Good(n, f)}
<1>1. /\ Cardinality(S) \in Nat
      /\ \A s \in SUBSET S : IsFiniteSet(s) /\ Cardinality(s) \in Nat /\ Cardinality(s) <= Cardinality(S)
  BY FS_CardinalityType, FS_Subset
<1>2. ASSUME NEW s \in SUBSET S, s # {}
      PROVE  /\ s \ {Some(s)} \in SUBSET S
             /\ Cardinality(s \ {Some(s)}) = Cardinality(s) - 1
  BY <1>1, <1>2, SomeIsOne, FS_RemoveElement
<1>3. 0 \in Done
  <2> DEFINE zero == [s \in Upto(0) |-> 0]
  <2>1. ASSUME NEW s \in Upto(0) PROVE s = {}
    BY <1>1, FS_EmptySet
  <2>2. Good(0, zero)
    BY <2>1
  <2> HIDE DEF Good
  <2> QED
    BY <1>1, <2>2
<1>4. ASSUME NEW n \in 0 .. Cardinality(S), n < Cardinality(S), n \in Done
      PROVE  n + 1 \in Done
  <2>1. PICK f : Good(n, f)
    BY <1>4
  <2> DEFINE g == [s \in Upto(n + 1) |-> IF s \in Upto(n) THEN f[s] ELSE Value(f, s)]
  <2>2. ASSUME NEW s \in Upto(n + 1)
        PROVE  g[s] = Value(g, s)
    <3>1. CASE s = {}
      <4>1. s \in Upto(n)
        BY <1>1, <1>4, <3>1, FS_EmptySet
      <4>2. f[s] = Value(f, s)
        BY <2>1, <4>1
      <4> QED
        BY <3>1, <4>1, <4>2
    <3>2. CASE s # {}
      <4> DEFINE rest == s \ {Some(s)}
      <4>1. rest \in Upto(n) /\ rest \in Upto(n + 1)
        BY <1>1, <1>2, <1>4, <3>2
      <4>2. g[rest] = f[rest]
        BY <4>1
      <4>3. g[s] = Value(f, s)
        <5>1. CASE s \in Upto(n)
          <6>1. f[s] = Value(f, s)
            <7> HIDE DEF Value, Upto
            <7> QED
              BY <2>1, <5>1
          <6>2. g[s] = f[s]
            BY <5>1
          <6> HIDE DEF g, Value
          <6> QED
            BY <6>1, <6>2
        <5>2. CASE s \notin Upto(n)
          <6> HIDE DEF Value, Upto
          <6> QED
            BY <5>2
        <5> QED
          BY <5>1, <5>2
      <4>4. Value(f, s) = Value(g, s)
        BY <3>2, <4>2
      <4> HIDE DEF g, Value
      <4> QED
        BY <4>3, <4>4
    <3> QED
      BY <3>1, <3>2
  <2>3. Good(n + 1, g)
    <3>1. g = [s \in Upto(n + 1) |-> g[s]]
      OBVIOUS
    <3> HIDE DEF g, Value, Upto
    <3> QED
      BY <2>2, <3>1
  <2>4. \E h : Good(n + 1, h)
    BY <2>3
  <2> HIDE DEF Good
  <2> QED
    BY <1>1, <1>4, <2>4
<1>5. Cardinality(S) \in Done
  <2> HIDE DEF Done
  <2>1. \A n \in 0 .. Cardinality(S) : n \in Done
    BY <1>1, <1>3, <1>4, NatSetInduction
  <2> QED
    BY <1>1, <2>1
<1>6. PICK f : Good(Cardinality(S), f)
  BY <1>5
<1>7. Upto(Cardinality(S)) = SUBSET S
  BY <1>1
<1>8. Summing(f, w, S)
  <2> HIDE DEF Upto
  <2> QED
    BY <1>6, <1>7 DEF Summing
<1> QED
  BY <1>8

\* A fold on a larger set is one on its subsets.
LEMMA SummingUnique ==
    ASSUME NEW S, IsFiniteSet(S), NEW f, NEW w, Summing(f, w, S),
           NEW T \in SUBSET S, NEW g, NEW v, Summing(g, v, T), \A x \in T : v[x] = w[x]
    PROVE  g[T] = f[T]
<1> DEFINE Done == {n \in 0 .. Cardinality(T) :
                       \A s \in SUBSET T : Cardinality(s) = n => g[s] = f[s]}
<1>1. /\ IsFiniteSet(T) /\ Cardinality(T) \in Nat
      /\ \A s \in SUBSET T : IsFiniteSet(s)
  BY FS_CardinalityType, FS_Subset
<1>2. 0 \in Done
  <2> SUFFICES ASSUME NEW s \in SUBSET T, Cardinality(s) = 0 PROVE g[s] = f[s]
    BY <1>1
  <2>1. s = {}
    BY <1>1, FS_EmptySet
  <2> QED
    BY <2>1, SummingAtNone
<1>3. ASSUME NEW n \in 0 .. Cardinality(T), n < Cardinality(T), n \in Done
      PROVE  n + 1 \in Done
  <2> SUFFICES ASSUME NEW s \in SUBSET T, Cardinality(s) = n + 1 PROVE g[s] = f[s]
    BY <1>1, <1>3
  <2>1. s # {}
    BY <1>3, FS_EmptySet
  <2>2. Some(s) \in s
    BY <2>1, SomeIsOne
  <2> DEFINE rest == s \ {Some(s)}
  <2>3. rest \in SUBSET T /\ Cardinality(rest) = n
    <3>1. Cardinality(rest) = Cardinality(s) - 1
      BY <1>1, <2>2, FS_RemoveElement
    <3> QED
      BY <1>3, <3>1
  <2>4. g[rest] = f[rest]
    BY <1>3, <2>3
  <2>5. g[s] = v[Some(s)] + g[rest]
    <3>1. s \subseteq T
      OBVIOUS
    <3>2. OneAndRest(g, v, s)
      BY <2>1, <3>1, SummingAt
    <3> QED
      BY <3>2 DEF OneAndRest
  <2>6. f[s] = w[Some(s)] + f[rest]
    <3>1. s \subseteq S
      OBVIOUS
    <3>2. OneAndRest(f, w, s)
      BY <2>1, <3>1, SummingAt
    <3> QED
      BY <3>2 DEF OneAndRest
  <2>7. v[Some(s)] = w[Some(s)]
    BY <2>2
  <2> HIDE DEF rest
  <2> QED
    BY <2>4, <2>5, <2>6, <2>7
<1>4. Cardinality(T) \in Done
  <2> HIDE DEF Done
  <2>1. \A n \in 0 .. Cardinality(T) : n \in Done
    BY <1>1, <1>2, <1>3, NatSetInduction
  <2> QED
    BY <1>1, <2>1
<1> QED
  BY <1>4

\* What sets of numbers have: the sum is a number, and an element and the rest.
SplitsUp(f, w, S) ==
    \A s \in SUBSET S : f[s] \in Nat /\ \A x \in s : f[s] = w[x] + f[s \ {x}]

\* The sum is a number, and that of a set is the sum of any element and of the rest.
LEMMA SummingSplits ==
    ASSUME NEW S, IsFiniteSet(S), NEW f, NEW w, Summing(f, w, S), \A x \in S : w[x] \in Nat
    PROVE  SplitsUp(f, w, S)
<1> DEFINE Splits(s) == f[s] \in Nat /\ \A x \in s : f[s] = w[x] + f[s \ {x}]
           Done == {n \in 0 .. Cardinality(S) :
                       \A s \in SUBSET S : Cardinality(s) <= n => Splits(s)}
<1>1. /\ Cardinality(S) \in Nat
      /\ \A s \in SUBSET S : IsFiniteSet(s) /\ Cardinality(s) \in Nat /\ Cardinality(s) <= Cardinality(S)
  BY FS_CardinalityType, FS_Subset
<1>2. 0 \in Done
  <2> SUFFICES ASSUME NEW s \in SUBSET S, Cardinality(s) <= 0 PROVE Splits(s)
    BY <1>1
  <2>1. s = {}
    BY <1>1, FS_EmptySet
  <2>2. f[s] = 0
    BY <2>1, SummingAtNone
  <2> QED
    BY <2>1, <2>2
<1>3. ASSUME NEW n \in 0 .. Cardinality(S), n < Cardinality(S), n \in Done
      PROVE  n + 1 \in Done
  <2> SUFFICES ASSUME NEW s \in SUBSET S, Cardinality(s) <= n + 1 PROVE Splits(s)
    <3>1. n + 1 \in 0 .. Cardinality(S)
      BY <1>1, <1>3
    <3> HIDE DEF Splits
    <3> QED
      BY <3>1
  <2>1. CASE Cardinality(s) <= n
    <3> HIDE DEF Splits
    <3> QED
      BY <1>3, <2>1
  <2>2. CASE ~(Cardinality(s) <= n)
    <3>1. Cardinality(s) = n + 1 /\ s # {}
      <4>1. Cardinality(s) = n + 1
        BY <1>1, <1>3, <2>2
      <4> QED
        BY <1>3, <4>1, FS_EmptySet
    <3> DEFINE c == Some(s)
    <3>2. c \in s
      BY <3>1, SomeIsOne
    <3> HIDE DEF c
    <3>3. \A x \in s : s \ {x} \in SUBSET S /\ Cardinality(s \ {x}) <= n
      <4> SUFFICES ASSUME NEW x \in s PROVE s \ {x} \in SUBSET S /\ Cardinality(s \ {x}) <= n
        OBVIOUS
      <4>1. Cardinality(s \ {x}) = Cardinality(s) - 1
        BY <1>1, FS_RemoveElement
      <4> QED
        BY <1>3, <3>1, <4>1
    <3>4. \A x \in s : Splits(s \ {x})
      <4> HIDE DEF Splits
      <4> QED
        BY <1>3, <3>3
    <3>5. f[s] = w[c] + f[s \ {c}]
      <4>1. s \subseteq S
        OBVIOUS
      <4>2. OneAndRest(f, w, s)
        BY <3>1, <4>1, SummingAt
      <4> QED
        BY <4>2 DEF OneAndRest, c
    <3>6. w[c] \in Nat /\ f[s \ {c}] \in Nat
      BY <3>2, <3>4
    <3>7. ASSUME NEW x \in s, x # c
          PROVE  f[s] = w[x] + f[s \ {x}]
      <4> DEFINE a == s \ {c}
                 b == s \ {x}
                 d == a \ {x}
      <4>1. x \in a /\ c \in b /\ d = b \ {c}
        BY <3>2, <3>7
      <4>2. Splits(a) /\ Splits(b)
        BY <3>2, <3>4
      <4>3. Splits(d)
        <5>1. d \in SUBSET S
          OBVIOUS
        <5>2. Cardinality(d) = Cardinality(a) - 1 /\ Cardinality(a) \in Nat /\ Cardinality(a) <= n
          <6>1. a \in SUBSET S /\ Cardinality(a) <= n
            BY <3>2, <3>3
          <6>2. IsFiniteSet(a) /\ Cardinality(a) \in Nat
            BY <1>1, <6>1
          <6>3. Cardinality(d) = Cardinality(a) - 1
            BY <4>1, <6>2, FS_RemoveElement
          <6> QED
            BY <6>1, <6>2, <6>3
        <5>3. Cardinality(d) <= n
          BY <1>3, <5>2
        <5> HIDE DEF Splits, d
        <5> QED
          BY <1>3, <5>1, <5>3
      <4>4. f[a] = w[x] + f[d]
        BY <4>1, <4>2
      <4>5. f[b] = w[c] + f[d]
        <5> HIDE DEF d, b
        <5> QED
          BY <4>1, <4>2
      <4>6. f[s] = w[c] + f[a] /\ f[d] \in Nat /\ w[x] \in Nat /\ w[c] \in Nat
        BY <3>5, <3>6, <4>3
      <4>7. f[s] = w[x] + f[b]
        <5> HIDE DEF a, b, d
        <5> QED
          BY <4>4, <4>5, <4>6
      <4> QED
        BY <4>7
    <3>8. f[s] \in Nat
      BY <3>5, <3>6
    <3>9. \A x \in s : f[s] = w[x] + f[s \ {x}]
      BY <3>5, <3>7
    <3> QED
      BY <3>8, <3>9
  <2> QED
    BY <2>1, <2>2
<1>4. Cardinality(S) \in Done
  <2> HIDE DEF Done
  <2>1. \A n \in 0 .. Cardinality(S) : n \in Done
    BY <1>1, <1>2, <1>3, NatSetInduction
  <2> QED
    BY <1>1, <2>1
<1> QED
  BY <1>1, <1>4 DEF SplitsUp

\* More is not less.
LEMMA SummingGrows ==
    ASSUME NEW S, IsFiniteSet(S), NEW f, NEW w, Summing(f, w, S), \A x \in S : w[x] \in Nat,
           NEW B \in SUBSET S, NEW A \in SUBSET B
    PROVE  f[A] <= f[B]
<1> DEFINE Below == {n \in 0 .. Cardinality(B) :
                       \A s \in SUBSET B : A \subseteq s /\ Cardinality(s \ A) = n => f[A] <= f[s]}
<1>1. /\ IsFiniteSet(B) /\ Cardinality(B) \in Nat
      /\ \A s \in SUBSET B : IsFiniteSet(s) /\ Cardinality(s) \in Nat
  BY FS_CardinalityType, FS_Subset
<1>2. \A s \in SUBSET B : f[s] \in Nat /\ \A x \in s : f[s] = w[x] + f[s \ {x}]
  <2>1. \A s \in SUBSET B : s \in SUBSET S
    OBVIOUS
  <2>2. SplitsUp(f, w, S)
    BY SummingSplits, Zenon
  <2> QED
    BY <2>1, <2>2, Zenon DEF SplitsUp
<1>3. 0 \in Below
  <2>0. 0 \in 0 .. Cardinality(B)
    BY <1>1
  <2> SUFFICES ASSUME NEW s \in SUBSET B, A \subseteq s, Cardinality(s \ A) = 0
               PROVE  f[A] <= f[s]
    BY <2>0
  <2>1. s \ A = {}
    <3>1. IsFiniteSet(s \ A)
      BY <1>1, FS_Subset
    <3> QED
      BY <3>1, FS_EmptySet
  <2>2. s = A
    BY <2>1
  <2> QED
    BY <1>2, <2>2
<1>4. ASSUME NEW n \in 0 .. Cardinality(B), n < Cardinality(B), n \in Below
      PROVE  n + 1 \in Below
  <2> SUFFICES ASSUME NEW s \in SUBSET B, A \subseteq s, Cardinality(s \ A) = n + 1
               PROVE  f[A] <= f[s]
    BY <1>1, <1>4
  <2>1. s \ A # {}
    BY <1>4, FS_EmptySet
  <2>2. PICK x : x \in s \ A
    BY <2>1
  <2>3. (s \ {x}) \ A = (s \ A) \ {x} /\ A \subseteq s \ {x} /\ s \ {x} \in SUBSET B
    BY <2>2
  <2>4. Cardinality((s \ {x}) \ A) = n
    <3>1. IsFiniteSet(s \ A)
      BY <1>1, FS_Subset
    <3>2. Cardinality((s \ A) \ {x}) = Cardinality(s \ A) - 1
      BY <2>2, <3>1, FS_RemoveElement
    <3>3. Cardinality((s \ A) \ {x}) = n
      BY <1>4, <3>2
    <3> QED
      BY <2>3, <3>3, Zenon
  <2>5. f[A] <= f[s \ {x}]
    BY <1>4, <2>3, <2>4
  <2>6. f[s] = w[x] + f[s \ {x}] /\ w[x] \in Nat /\ f[s \ {x}] \in Nat /\ f[A] \in Nat
    <3>1. f[s] = w[x] + f[s \ {x}]
      BY <1>2, <2>2, Zenon
    <3>2. f[s \ {x}] \in Nat /\ f[A] \in Nat
      BY <1>2, <2>3, Zenon
    <3> QED
      BY <2>2, <3>1, <3>2
  <2> QED
    BY <2>5, <2>6
<1>5. Cardinality(B \ A) \in 0 .. Cardinality(B)
  <2>1. B \ A \in SUBSET B
    OBVIOUS
  <2>2. Cardinality(B \ A) <= Cardinality(B)
    BY <1>1, <2>1, FS_Subset
  <2> QED
    BY <1>1, <2>1, <2>2
<1>6. Cardinality(B \ A) \in Below
  <2> HIDE DEF Below
  <2>1. \A n \in 0 .. Cardinality(B) : n \in Below
    BY <1>1, <1>3, <1>4, NatSetInduction
  <2> QED
    BY <1>5, <2>1
<1> QED
  BY <1>6
-----------------------------------------------------------------------------
(* What the runs of a month have taken, and its mails.                     *)

\* How long each run has taken.
Length(rs) == [r \in rs |-> r.duration]

\* The time of runs is the sum of how long they have taken.
LEMMA TimeIsSum ==
    ASSUME NEW rs, IsFiniteSet(rs)
    PROVE  \E f : Summing(f, Length(rs), rs) /\ Time(rs) = f[rs]
<1> DEFINE Adds(f) == f = [s \in SUBSET rs |->
                              IF s = {} THEN 0 ELSE Some(s).duration + f[s \ {Some(s)}]]
<1>1. ASSUME NEW f PROVE Adds(f) <=> Summing(f, Length(rs), rs)
  <2>1. \A s \in SUBSET rs : s # {} => Length(rs)[Some(s)] = Some(s).duration
    <3> SUFFICES ASSUME NEW s \in SUBSET rs, s # {} PROVE Length(rs)[Some(s)] = Some(s).duration
      OBVIOUS
    <3>1. Some(s) \in rs
      BY SomeIsOne
    <3> QED
      BY <3>1 DEF Length
  <2> DEFINE one(s) == IF s = {} THEN 0 ELSE Some(s).duration + f[s \ {Some(s)}]
             two(s) == IF s = {} THEN 0 ELSE Length(rs)[Some(s)] + f[s \ {Some(s)}]
  <2>2. \A s \in SUBSET rs : one(s) = two(s)
    BY <2>1
  <2>3. Adds(f) <=> f = [s \in SUBSET rs |-> one(s)]
    OBVIOUS
  <2>4. Summing(f, Length(rs), rs) <=> f = [s \in SUBSET rs |-> two(s)]
    BY DEF Summing
  <2> HIDE DEF one, two, Adds
  <2>5. [s \in SUBSET rs |-> one(s)] = [s \in SUBSET rs |-> two(s)]
    BY <2>2
  <2> QED
    BY <2>3, <2>4, <2>5
<1>2. \E f : Adds(f)
  <2>1. \E f : Summing(f, Length(rs), rs)
    BY SummingExists
  <2> HIDE DEF Adds
  <2> QED
    BY <1>1, <2>1
<1>3. Time(rs) = (CHOOSE f : Adds(f))[rs]
  BY DEF Time, FoldSet, MapThenFoldSet, Some
<1> HIDE DEF Adds
<1>4. Adds(CHOOSE f : Adds(f))
  BY <1>2, Zenon
<1> QED
  BY <1>1, <1>3, <1>4, Zenon

\* It is a number, and that of fewer runs is not larger.
LEMMA TimeGrows ==
    ASSUME NEW B, IsFiniteSet(B), \A r \in B : r.duration \in Nat, NEW A, A \subseteq B
    PROVE  Time(A) \in Nat /\ Time(B) \in Nat /\ Time(A) <= Time(B)
<1>1. IsFiniteSet(A)
  BY FS_Subset
<1>2. PICK f : Summing(f, Length(B), B) /\ Time(B) = f[B]
  BY TimeIsSum
<1>3. PICK g : Summing(g, Length(A), A) /\ Time(A) = g[A]
  BY <1>1, TimeIsSum
<1> DEFINE w == Length(B)
           v == Length(A)
<1>4. (\A x \in B : w[x] \in Nat) /\ (\A x \in A : v[x] = w[x]) /\ A \in SUBSET B /\ B \in SUBSET B
  BY DEF Length
<1> HIDE DEF w, v
<1>5. Summing(f, w, B) /\ Summing(g, v, A)
  BY <1>2, <1>3 DEF w, v
<1>6. g[A] = f[A]
  BY <1>4, <1>5, SummingUnique
<1>7. f[A] <= f[B]
  BY <1>4, <1>5, SummingGrows
<1>8. SplitsUp(f, w, B)
  BY <1>4, <1>5, SummingSplits
<1>9. f[A] \in Nat /\ f[B] \in Nat
  BY <1>4, <1>8, Zenon DEF SplitsUp
<1> QED
  BY <1>2, <1>3, <1>6, <1>7, <1>9

\* Mails are counted in natural numbers.
LEMMA MailsAreCounted ==
    ASSUME NEW month, NEW ms, IsFiniteSet(DOMAIN ms), \A t \in DOMAIN ms : ms[t] \in Nat
    PROVE  MailsOf(month, ms) \in Nat
<1> DEFINE T == {t \in DOMAIN ms : MonthOf(t) >= month}
           Adds(f) == f = [s \in SUBSET T |->
                              IF s = {} THEN 0 ELSE ms[Some(s)] + f[s \ {Some(s)}]]
<1>1. T \subseteq DOMAIN ms
  OBVIOUS
<1>2. MailsOf(month, ms) = (CHOOSE f : Adds(f))[T]
  BY DEF MailsOf, FoldSet, MapThenFoldSet, Some
<1> HIDE DEF T
<1>3. \A f : Adds(f) <=> Summing(f, ms, T)
  BY DEF Summing
<1>4. IsFiniteSet(T)
  BY <1>1, FS_Subset
<1>5. \E f : Summing(f, ms, T)
  BY <1>4, SummingExists
<1> HIDE DEF Adds
<1>6. Adds(CHOOSE f : Adds(f))
  BY <1>3, <1>5, Zenon
<1>7. PICK f : Summing(f, ms, T) /\ MailsOf(month, ms) = f[T]
  BY <1>2, <1>3, <1>6, Zenon
<1>8. \A t \in T : ms[t] \in Nat
  BY <1>1
<1>9. SplitsUp(f, ms, T)
  BY <1>4, <1>7, <1>8, SummingSplits
<1>10. f[T] \in Nat
  <2>1. T \in SUBSET T
    OBVIOUS
  <2> QED
    BY <1>9, <2>1, Zenon DEF SplitsUp
<1> QED
  BY <1>7, <1>10

-----------------------------------------------------------------------------
(* Numbers.                                                                *)

\* What a quotient is.
LEMMA QuotientBounds ==
    ASSUME NEW a \in Nat, NEW p \in Nat \ {0}
    PROVE  a \div p \in Nat /\ p * (a \div p) <= a /\ a < p * (a \div p) + p
BY SMTT(30)

\* A later moment is of no earlier month.
LEMMA QuotientsGrow ==
    ASSUME NEW a \in Nat, NEW b \in Nat, a <= b, NEW p \in Nat \ {0}
    PROVE  a \div p <= b \div p
<1> DEFINE x == a \div p
           y == b \div p
<1>1. x \in Nat /\ p * x <= a
  BY QuotientBounds
<1>2. y \in Nat /\ b < p * y + p
  BY QuotientBounds
<1> HIDE DEF x, y
<1>3. ASSUME y + 1 <= x PROVE FALSE
  <2>1. p * (y + 1) <= p * x
    BY <1>1, <1>2, <1>3, SMTT(30)
  <2>2. p * (y + 1) = p * y + p
    BY <1>2, SMTT(30)
  <2> QED
    BY <1>1, <1>2, <2>1, <2>2
<1>4. x <= y
  BY <1>1, <1>2, <1>3
<1> QED
  BY <1>4 DEF x, y

\* Time that has reached a threshold has reached it in minutes, and minutes that
\* have reached it stand for time that lacks less than a minute of it.
LEMMA MinutesOfTime ==
    ASSUME NEW t \in Nat, NEW p \in Nat \ {0}, NEW k \in Nat
    PROVE  LET m == (t + p - 1) \div p
           IN  /\ m \in Nat
               /\ t * 100 >= k * p => m * 100 >= k
               /\ m * 100 >= k => (t + p - 1) * 100 >= k * p
<1> DEFINE m == (t + p - 1) \div p
<1>1. t + p - 1 \in Nat
  OBVIOUS
<1>2. m \in Nat /\ p * m <= t + p - 1 /\ t + p - 1 < p * m + p
  BY <1>1, QuotientBounds
<1> HIDE DEF m
<1> DEFINE pm == p * m
<1>3. pm \in Nat /\ pm * 100 = p * (m * 100)
  BY <1>2, SMTT(30)
<1>4. t <= pm /\ pm <= t + p - 1
  BY <1>2, <1>3
<1> HIDE DEF pm
<1>5. ASSUME t * 100 >= k * p PROVE m * 100 >= k
  <2>1. p * (m * 100) >= k * p
    <3> DEFINE kp == k * p
    <3>1. kp \in Nat
      BY SMT
    <3>2. t * 100 >= kp
      BY <1>5
    <3> HIDE DEF kp
    <3>3. pm * 100 >= kp
      BY <1>3, <1>4, <3>1, <3>2
    <3> QED
      BY <1>3, <3>3 DEF kp
  <2> SUFFICES ASSUME m * 100 + 1 <= k PROVE FALSE
    BY <1>2
  <2>2. p * (m * 100 + 1) <= p * k
    BY <1>2, SMTT(30)
  <2>3. p * (m * 100 + 1) = p * (m * 100) + p /\ p * k = k * p
    BY <1>2, SMTT(30)
  <2> DEFINE l == p * (m * 100)
             q == k * p
  <2>4. l \in Nat /\ q \in Nat
    BY <1>2, SMT
  <2>5. l >= q /\ l + p <= q
    BY <2>1, <2>2, <2>3
  <2> HIDE DEF l, q
  <2> QED
    BY <2>4, <2>5
<1>6. ASSUME m * 100 >= k PROVE (t + p - 1) * 100 >= k * p
  <2>1. p * (m * 100) >= p * k
    BY <1>2, <1>6, SMTT(30)
  <2>2. p * k = k * p /\ k * p \in Nat
    BY SMT
  <2>3. pm * 100 >= k * p
    BY <1>3, <2>1, <2>2
  <2> DEFINE kp == k * p
  <2>4. kp \in Nat /\ pm * 100 >= kp
    BY <2>2, <2>3
  <2> HIDE DEF kp
  <2>5. (t + p - 1) * 100 >= kp
    BY <1>3, <1>4, <2>4
  <2> QED
    BY <2>5 DEF kp
<1> QED
  BY <1>2, <1>5, <1>6 DEF m
-----------------------------------------------------------------------------
(* The mode and the news.                                                  *)

\* One of the budgets is used to so many percent.
Hit(minutes, mailCount, bytes, threshold) ==
    \/ Reaches(minutes, ComputeBudget, threshold)
    \/ Reaches(mailCount, MailBudget, threshold)
    \/ Reaches(bytes, SizeBudget, threshold)

LEMMA HitLower ==
    ASSUME NEW m \in Nat, NEW c \in Nat, NEW b \in Nat, NEW high \in Nat, NEW low \in Nat,
           low <= high, Hit(m, c, b, high)
    PROVE  Hit(m, c, b, low)
<1>1. ASSUME NEW used \in Nat, NEW budget \in {ComputeBudget, MailBudget, SizeBudget},
             Reaches(used, budget, high)
      PROVE  Reaches(used, budget, low)
  <2>1. budget # NoBudget /\ used * 100 >= high * budget /\ budget \in Nat
    BY <1>1, BudgetAssumption DEF Reaches
  <2>2. low * budget <= high * budget /\ low * budget \in Nat /\ high * budget \in Nat
    BY <2>1, SMTT(30)
  <2> DEFINE h == high * budget
             l == low * budget
  <2>3. h \in Nat /\ l \in Nat /\ l <= h /\ used * 100 >= h
    BY <2>1, <2>2
  <2> HIDE DEF h, l
  <2>4. used * 100 >= l
    BY <2>3
  <2> QED
    BY <2>1, <2>4 DEF l, Reaches
<1> HIDE DEF Reaches
<1> QED
  BY <1>1, Zenon DEF Hit

\* Which news are collected when so much is used.
LEMMA NewsOfUse ==
    ASSUME NEW m \in Nat, NEW c \in Nat, NEW b \in Nat
    PROVE  /\ Hit(m, c, b, Minimal) <=> NewsOf(ModeOf(m, c, b)) = "none"
           /\ Hit(m, c, b, Saving) <=> NewsOf(ModeOf(m, c, b)) # "watched"
<1> DEFINE hit(t) == Hit(m, c, b, t)
<1>1. /\ hit(Pause) => hit(Minimal)
      /\ hit(Minimal) => hit(Saving)
      /\ hit(Saving) => hit(Warning)
  <2>1. /\ Warning \in Nat /\ Saving \in Nat /\ Minimal \in Nat /\ Pause \in Nat
        /\ Warning <= Saving /\ Saving <= Minimal /\ Minimal <= Pause
    BY BudgetAssumption
  <2> QED
    BY <2>1, HitLower
<1>2. ModeOf(m, c, b) =
        CASE hit(Pause) -> "PAUSED"
          [] hit(Minimal) /\ ~hit(Pause) -> "MINIMAL"
          [] hit(Saving) /\ ~hit(Minimal) -> "SAVING"
          [] hit(Warning) /\ ~hit(Saving) -> "WARNING"
          [] OTHER -> "NORMAL"
  BY DEF ModeOf, Hit
<1> HIDE DEF hit
<1>3. CASE hit(Pause)
  <2>1. ModeOf(m, c, b) = "PAUSED"
    BY <1>1, <1>2, <1>3
  <2> QED
    BY <1>1, <1>3, <2>1 DEF NewsOf, hit
<1>4. CASE hit(Minimal) /\ ~hit(Pause)
  <2>1. ModeOf(m, c, b) = "MINIMAL"
    BY <1>1, <1>2, <1>4
  <2> QED
    BY <1>1, <1>4, <2>1 DEF NewsOf, hit
<1>5. CASE hit(Saving) /\ ~hit(Minimal)
  <2>1. ModeOf(m, c, b) = "SAVING"
    BY <1>1, <1>2, <1>5
  <2> QED
    BY <1>1, <1>5, <2>1 DEF NewsOf, hit
<1>6. CASE ~hit(Saving)
  <2>1. ModeOf(m, c, b) \in {"WARNING", "NORMAL"}
    BY <1>1, <1>2, <1>6
  <2> QED
    BY <1>1, <1>6, <2>1 DEF NewsOf, hit
<1> QED
  BY <1>1, <1>3, <1>4, <1>5, <1>6

-----------------------------------------------------------------------------
(* The invariant.                                                          *)

\* What NewsWithinBudget says of news and of what the month had cost before them.
Reached(n, threshold, part, more) ==
    \/ /\ ComputeBudget # NoBudget
       /\ (part + more) * 100 >= threshold * ComputeBudget * PerMinute
    \/ Reaches(n.before.mails, MailBudget, threshold)
    \/ Reaches(n.before.bytes, SizeBudget, threshold)

Within(n) ==
    /\ Reached(n, Minimal, n.before.recent, 0) => n.items = "none"
    /\ Reached(n, Saving, n.before.recent, 0) => n.items # "watched"
    /\ n.items = "none" => Reached(n, Minimal, n.before.time, PerMinute - 1)
    /\ n.items # "watched" => Reached(n, Saving, n.before.time, PerMinute - 1)

\* The rows of collection_runs, and which of them are still there.
RunsInv ==
    /\ time \in 0 .. LastMoment /\ size \in Nat
    /\ mails \in [0 .. LastMoment -> Nat]
    /\ IsFiniteSet(past) /\ runs \subseteq past
    /\ \A r \in past : /\ r.duration \in Nat /\ r.started \in Nat /\ r.created \in Nat
                       /\ r.started <= time
                       /\ r.created + LogLife >= time => r \in runs

\* What a cycle that runs has asked for was right when it asked.
CycleInv ==
    /\ DOMAIN cycle = Cycles
    /\ \A c \in Cycles : cycle[c] # NoBudget =>
          /\ cycle[c].at \in 0 .. LastMoment /\ cycle[c].at <= time
          /\ Within([items |-> NewsOf(cycle[c].mode), before |-> cycle[c].before])

BudgetInv ==
    /\ RunsInv /\ CycleInv
    /\ collected # NoBudget => Within(collected)

LEMMA WithinIsProperty ==
    BudgetInv => NewsWithinBudget
BY DEF BudgetInv, NewsWithinBudget, Within, Reached

\* What a cycle finds when it begins.
Asked ==
    [time |-> Time(Past(MonthOf(time))),
     recent |-> Time(Kept(Past(MonthOf(time)), time)),
     mails |-> MailsOf(MonthOf(time), mails), bytes |-> size]

\* The rows that UsageService.collect counts are of this month, and no row is missing
\* that need not have been removed: the time it finds lies between that of these rows
\* and that of all.
LEMMA TimeIsBetween ==
    ASSUME RunsInv
    PROVE  /\ Asked.time \in Nat /\ Asked.recent \in Nat
           /\ Time(RunsOf(MonthOf(time))) \in Nat
           /\ Asked.recent <= Time(RunsOf(MonthOf(time)))
           /\ Time(RunsOf(MonthOf(time))) <= Asked.time
<1> DEFINE month == MonthOf(time)
           all == Past(month)
           counted == RunsOf(month)
           recent == Kept(all, time)
<1>1. counted \subseteq all
  <2> SUFFICES ASSUME NEW r \in counted PROVE r \in all
    OBVIOUS
  <2>1. r \in past /\ r.started \in Nat /\ r.started <= time /\ time \in Nat
    BY DEF RunsOf, RunsInv
  <2>2. MonthOf(r.started) <= month
    BY <2>1, QuotientsGrow, BudgetAssumption DEF MonthOf
  <2>3. MonthOf(r.started) \in Nat /\ month \in Nat
    BY <2>1, QuotientBounds, BudgetAssumption DEF MonthOf
  <2>4. MonthOf(r.started) >= month
    BY DEF RunsOf
  <2>5. MonthOf(r.started) = month
    <3> HIDE DEF month
    <3> QED
      BY <2>2, <2>3, <2>4
  <2> QED
    BY <2>1, <2>5 DEF Past
<1>2. recent \subseteq counted
  <2> SUFFICES ASSUME NEW r \in recent PROVE r \in counted
    OBVIOUS
  <2>1. r \in past /\ MonthOf(r.started) = month /\ r.created + LogLife >= time
    BY DEF Kept, Past
  <2>2. r \in runs
    BY <2>1 DEF RunsInv
  <2>3. month \in Nat
    BY QuotientBounds, BudgetAssumption DEF MonthOf, RunsInv
  <2> HIDE DEF month
  <2>4. MonthOf(r.started) >= month
    BY <2>1, <2>3
  <2> QED
    BY <2>2, <2>4 DEF RunsOf
<1>3. all \subseteq past
  BY DEF Past
<1>4. IsFiniteSet(all) /\ IsFiniteSet(counted)
  BY <1>1, <1>3, FS_Subset DEF RunsInv
<1>5. (\A r \in all : r.duration \in Nat) /\ (\A r \in counted : r.duration \in Nat)
  BY <1>1, <1>3 DEF RunsInv
<1>6. Asked.time = Time(all) /\ Asked.recent = Time(recent)
  BY DEF Asked
<1> HIDE DEF all, counted, recent
<1>7. Time(counted) \in Nat /\ Time(all) \in Nat /\ Time(counted) <= Time(all)
  BY <1>1, <1>4, <1>5, TimeGrows
<1>8. Time(recent) \in Nat /\ Time(recent) <= Time(counted)
  BY <1>2, <1>4, <1>5, TimeGrows
<1> QED
  BY <1>6, <1>7, <1>8 DEF counted

\* Minutes reach a threshold when the time they are counted from does.
LEMMA StartIsWithin ==
    ASSUME RunsInv
    PROVE  Within([items |-> NewsOf(Usage(time, RunsOf(MonthOf(time)), mails)), before |-> Asked])
<1> DEFINE spent == Time(RunsOf(MonthOf(time)))
           minutes == Minutes(RunsOf(MonthOf(time)))
           mailCount == MailsOf(MonthOf(time), mails)
           news == NewsOf(Usage(time, RunsOf(MonthOf(time)), mails))
           n == [items |-> news, before |-> Asked]
           part == Asked.recent
           whole == Asked.time
<1>1. spent \in Nat /\ part \in Nat /\ whole \in Nat /\ part <= spent /\ spent <= whole
  BY TimeIsBetween
<1>2. mailCount \in Nat
  <2>1. DOMAIN mails = 0 .. LastMoment /\ \A t \in 0 .. LastMoment : mails[t] \in Nat
    BY DEF RunsInv
  <2>2. IsFiniteSet(0 .. LastMoment)
    BY FS_Interval, BudgetAssumption
  <2> QED
    BY <2>1, <2>2, MailsAreCounted
<1>3. size \in Nat
  BY DEF RunsInv
<1>4. news = NewsOf(ModeOf(minutes, mailCount, size))
  BY DEF Usage
<1>5. minutes = (spent + PerMinute - 1) \div PerMinute
  BY DEF Minutes
<1>6. n.items = news /\ n.before.mails = mailCount /\ n.before.bytes = size
      /\ n.before.recent = part /\ n.before.time = whole
  BY DEF Asked
<1> HIDE DEF spent, minutes, mailCount, news, n, part, whole
<1>7. minutes \in Nat
  BY <1>1, <1>5, MinutesOfTime, BudgetAssumption
<1>8. ASSUME NEW threshold \in Nat, ComputeBudget # NoBudget
      PROVE  /\ part * 100 >= threshold * ComputeBudget * PerMinute => minutes * 100 >= threshold * ComputeBudget
             /\ minutes * 100 >= threshold * ComputeBudget =>
                   (whole + PerMinute - 1) * 100 >= threshold * ComputeBudget * PerMinute
  <2> DEFINE k == threshold * ComputeBudget
             kp == k * PerMinute
  <2>1. k \in Nat
    <3>1. ComputeBudget \in Nat
      BY <1>8, BudgetAssumption
    <3> QED
      BY <3>1, SMT
  <2> HIDE DEF k
  <2>2. kp \in Nat /\ PerMinute \in Nat \ {0}
    BY <2>1, BudgetAssumption, SMT
  <2>3. /\ spent * 100 >= kp => minutes * 100 >= k
        /\ minutes * 100 >= k => (spent + PerMinute - 1) * 100 >= kp
    BY <1>1, <1>5, <2>1, <2>2, MinutesOfTime
  <2> HIDE DEF kp
  <2>4. /\ part * 100 >= kp => minutes * 100 >= k
        /\ minutes * 100 >= k => (whole + PerMinute - 1) * 100 >= kp
    BY <1>1, <2>2, <2>3
  <2> QED
    BY <2>4 DEF k, kp
<1>9. ASSUME NEW threshold \in Nat
      PROVE  /\ Reached(n, threshold, part, 0) => Hit(minutes, mailCount, size, threshold)
             /\ Hit(minutes, mailCount, size, threshold) => Reached(n, threshold, whole, PerMinute - 1)
  <2>1. part + 0 = part /\ whole + (PerMinute - 1) = whole + PerMinute - 1
    BY <1>1, BudgetAssumption
  <2>2. ComputeBudget # NoBudget =>
          /\ (part + 0) * 100 >= threshold * ComputeBudget * PerMinute => Reaches(minutes, ComputeBudget, threshold)
          /\ Reaches(minutes, ComputeBudget, threshold) =>
                (whole + (PerMinute - 1)) * 100 >= threshold * ComputeBudget * PerMinute
    BY <1>8, <2>1 DEF Reaches
  <2>3. Reaches(minutes, ComputeBudget, threshold) => ComputeBudget # NoBudget
    BY DEF Reaches
  <2> QED
    BY <1>6, <2>2, <2>3 DEF Reached, Hit
<1>10. Minimal \in Nat /\ Saving \in Nat
  BY BudgetAssumption
<1>11. /\ Hit(minutes, mailCount, size, Minimal) <=> news = "none"
       /\ Hit(minutes, mailCount, size, Saving) <=> news # "watched"
  BY <1>2, <1>3, <1>4, <1>7, NewsOfUse
<1>12. Within(n)
  BY <1>6, <1>9, <1>10, <1>11 DEF Within
<1> QED
  BY <1>12 DEF n, news

LEMMA BudgetInitInv ==
    BudgetInit => BudgetInv
<1> SUFFICES ASSUME BudgetInit PROVE BudgetInv
  OBVIOUS
<1>1. time \in 0 .. LastMoment
  BY BudgetAssumption DEF BudgetInit
<1>2. size \in Nat
  <2>1. Sizes \subseteq Nat /\ Sizes # {}
    BY BudgetAssumption
  <2>2. \E x \in Sizes : \A y \in Sizes : x <= y
    BY <2>1, NatMinimum
  <2>3. Min(Sizes) \in Sizes
    BY <2>2 DEF Min
  <2> QED
    BY <2>1, <2>3 DEF BudgetInit
<1>3. mails \in [0 .. LastMoment -> Nat]
  BY DEF BudgetInit
<1>4. past = {} /\ runs = {} /\ IsFiniteSet(past)
  BY FS_EmptySet DEF BudgetInit
<1>5. CycleInv
  BY DEF BudgetInit, CycleInv
<1>6. collected = NoBudget
  BY DEF BudgetInit
<1> QED
  BY <1>1, <1>2, <1>3, <1>4, <1>5, <1>6 DEF BudgetInv, RunsInv

\* A cycle that begins has asked for what the month allows.
LEMMA StartCycleInv ==
    ASSUME BudgetInv, NEW c \in Cycles, StartCycle(c)
    PROVE  BudgetInv'
<1>1. RunsInv'
  BY DEF BudgetInv, RunsInv, StartCycle
<1>2. Within([items |-> NewsOf(Usage(time, RunsOf(MonthOf(time)), mails)), before |-> Asked])
  BY StartIsWithin DEF BudgetInv
<1> DEFINE job == [at |-> time, mode |-> Usage(time, RunsOf(MonthOf(time)), mails), before |-> Asked]
<1>3. cycle' = [cycle EXCEPT ![c] = job]
  BY DEF StartCycle, Asked
<1>4. /\ job.at = time
      /\ Within([items |-> NewsOf(job.mode), before |-> job.before])
  BY <1>2
<1> HIDE DEF job
<1>5. CycleInv'
  <2>1. DOMAIN cycle = Cycles /\ time \in 0 .. LastMoment /\ time' = time
    BY DEF BudgetInv, RunsInv, CycleInv, StartCycle
  <2>2. DOMAIN cycle' = Cycles /\ \A d \in Cycles : cycle'[d] = IF d = c THEN job ELSE cycle[d]
    BY <1>3, <2>1
  <2> SUFFICES ASSUME NEW d \in Cycles, cycle'[d] # NoBudget
               PROVE  /\ cycle'[d].at \in 0 .. LastMoment /\ cycle'[d].at <= time'
                      /\ Within([items |-> NewsOf(cycle'[d].mode), before |-> cycle'[d].before])
    BY <2>2 DEF CycleInv, Within, Reached, Reaches, NewsOf
  <2>3. CASE d = c
    BY <1>4, <2>1, <2>2, <2>3
  <2>4. CASE d # c
    BY <2>1, <2>2, <2>4 DEF BudgetInv, CycleInv
  <2> QED
    BY <2>3, <2>4
<1> QED
  BY <1>1, <1>5 DEF BudgetInv, StartCycle, Within, Reached, Reaches

\* The record of a cycle is added, and none goes that has to stay.
LEMMA FinishCycleInv ==
    ASSUME BudgetInv, NEW c \in Cycles, NEW duration \in Durations,
           NEW status \in {"SUCCEEDED", "FAILED"}, NEW sent \in {0, 1}, NEW cleans \in BOOLEAN,
           FinishCycle(c, duration, status, sent, cleans)
    PROVE  BudgetInv'
<1> DEFINE job == cycle[c]
           left == IF cleans THEN Kept(runs, job.at) ELSE runs
           run == [number |-> Cardinality(past) + 1, started |-> job.at, created |-> time,
                   duration |-> duration, status |-> status]
<1>1. /\ job # NoBudget /\ time' = time /\ size' = size
      /\ collected' = [items |-> NewsOf(job.mode), before |-> job.before]
      /\ mails' = [mails EXCEPT ![job.at] = @ + sent]
      /\ runs' = left \cup {run} /\ past' = past \cup {run}
      /\ cycle' = [cycle EXCEPT ![c] = NoBudget]
  BY DEF FinishCycle
<1>2. /\ job.at \in 0 .. LastMoment /\ job.at <= time /\ time \in 0 .. LastMoment
      /\ Within([items |-> NewsOf(job.mode), before |-> job.before])
  BY <1>1 DEF BudgetInv, CycleInv, RunsInv
<1>3. run.duration \in Nat /\ run.started = job.at /\ run.created = time
  BY BudgetAssumption
<1>4. left \subseteq runs
  BY DEF Kept
<1>5. \A r \in runs : r \in past /\ r.created \in Nat
  BY DEF BudgetInv, RunsInv
<1>6. \A r \in runs : r.created + LogLife >= time => r \in left
  <2> SUFFICES ASSUME NEW r \in runs, r.created + LogLife >= time PROVE r \in left
    OBVIOUS
  <2>1. r.created + LogLife >= job.at
    BY <1>2, <1>5, BudgetAssumption
  <2> QED
    BY <2>1 DEF Kept
<1> HIDE DEF job, left, run
<1>7. RunsInv'
  <2>1. mails' \in [0 .. LastMoment -> Nat]
    <3>1. mails \in [0 .. LastMoment -> Nat]
      BY DEF BudgetInv, RunsInv
    <3>2. mails[job.at] + sent \in Nat
      BY <1>2, <3>1
    <3> QED
      BY <1>1, <1>2, <3>1, <3>2
  <2>2. IsFiniteSet(past')
    BY <1>1, FS_AddElement DEF BudgetInv, RunsInv
  <2>3. runs' \subseteq past'
    BY <1>1, <1>4, <1>5
  <2>4. ASSUME NEW r \in past'
        PROVE  /\ r.duration \in Nat /\ r.started \in Nat /\ r.created \in Nat
               /\ r.started <= time
               /\ r.created + LogLife >= time => r \in runs'
    <3>1. CASE r \in past
      <4>1. /\ r.duration \in Nat /\ r.started \in Nat /\ r.created \in Nat
            /\ r.started <= time
            /\ r.created + LogLife >= time => r \in runs
        BY <3>1 DEF BudgetInv, RunsInv
      <4> QED
        BY <1>1, <1>6, <4>1
    <3>2. CASE r = run
      BY <1>1, <1>2, <1>3, <3>2
    <3> QED
      BY <1>1, <2>4, <3>1, <3>2
  <2>5. size' \in Nat
    BY <1>1 DEF BudgetInv, RunsInv
  <2> QED
    BY <1>1, <1>2, <2>1, <2>2, <2>3, <2>4, <2>5 DEF RunsInv
<1>8. CycleInv'
  <2>1. DOMAIN cycle = Cycles
    BY DEF BudgetInv, CycleInv
  <2>2. DOMAIN cycle' = Cycles /\ \A d \in Cycles : cycle'[d] = IF d = c THEN NoBudget ELSE cycle[d]
    BY <1>1, <2>1
  <2>3. ASSUME NEW d \in Cycles, cycle'[d] # NoBudget
        PROVE  cycle'[d] = cycle[d]
    BY <2>2, <2>3
  <2> QED
    BY <1>1, <2>2, <2>3 DEF BudgetInv, CycleInv, Within, Reached, Reaches, NewsOf
<1>9. Within(collected')
  BY <1>1, <1>2
<1> QED
  BY <1>7, <1>8, <1>9 DEF BudgetInv, Within, Reached, Reaches

LEMMA AbandonCycleInv ==
    ASSUME BudgetInv, NEW c \in Cycles, AbandonCycle(c)
    PROVE  BudgetInv'
<1>1. RunsInv'
  BY DEF BudgetInv, RunsInv, AbandonCycle
<1>2. CycleInv'
  <2>1. DOMAIN cycle = Cycles /\ cycle' = [cycle EXCEPT ![c] = NoBudget] /\ time' = time
    BY DEF BudgetInv, CycleInv, AbandonCycle
  <2>2. DOMAIN cycle' = Cycles /\ \A d \in Cycles : cycle'[d] = IF d = c THEN NoBudget ELSE cycle[d]
    BY <2>1
  <2>3. ASSUME NEW d \in Cycles, cycle'[d] # NoBudget
        PROVE  cycle'[d] = cycle[d]
    BY <2>2, <2>3
  <2> QED
    BY <2>1, <2>2, <2>3 DEF BudgetInv, CycleInv, Within, Reached, Reaches, NewsOf
<1> QED
  BY <1>1, <1>2 DEF BudgetInv, AbandonCycle, Within, Reached, Reaches

\* What leaves the cycles and what they have collected alone.
LEMMA OthersKeepCycles ==
    ASSUME BudgetInv, time' \in 0 .. LastMoment, time <= time', UNCHANGED <<cycle, collected>>
    PROVE  CycleInv' /\ (collected # NoBudget => Within(collected))'
<1>1. \A c \in Cycles : cycle[c] # NoBudget => cycle[c].at <= time'
  <2> SUFFICES ASSUME NEW c \in Cycles, cycle[c] # NoBudget PROVE cycle[c].at <= time'
    OBVIOUS
  <2>1. cycle[c].at \in 0 .. LastMoment /\ cycle[c].at <= time /\ time \in 0 .. LastMoment
    BY DEF BudgetInv, CycleInv, RunsInv
  <2> QED
    BY <2>1
<1> QED
  BY <1>1 DEF BudgetInv, CycleInv, Within, Reached, Reaches, NewsOf

LEMMA SendMailInv ==
    ASSUME BudgetInv, SendMail
    PROVE  BudgetInv'
<1>1. time \in 0 .. LastMoment /\ mails \in [0 .. LastMoment -> Nat]
  BY DEF BudgetInv, RunsInv
<1>2. mails' = [mails EXCEPT ![time] = @ + 1] /\ UNCHANGED <<time, size, runs, past, cycle, collected>>
  BY DEF SendMail
<1>3. mails' \in [0 .. LastMoment -> Nat]
  <2>1. mails[time] + 1 \in Nat
    BY <1>1
  <2> QED
    BY <1>1, <1>2, <2>1
<1>4. RunsInv'
  BY <1>2, <1>3 DEF BudgetInv, RunsInv
<1>5. time <= time' /\ time' \in 0 .. LastMoment
  BY <1>1, <1>2
<1> QED
  BY <1>2, <1>4, <1>5, OthersKeepCycles DEF BudgetInv

LEMMA CleanUpInv ==
    ASSUME BudgetInv, CleanUp
    PROVE  BudgetInv'
<1>1. time \in 0 .. LastMoment /\ mails \in [0 .. LastMoment -> Nat]
  BY DEF BudgetInv, RunsInv
<1>2. /\ runs' = Kept(runs, time) /\ mails' \in {mails, [t \in DOMAIN mails |-> 0]}
      /\ UNCHANGED <<time, size, past, cycle, collected>>
  BY DEF CleanUp
<1>3. mails' \in [0 .. LastMoment -> Nat]
  BY <1>1, <1>2
<1>4. runs' \subseteq runs /\ \A r \in runs : r.created + LogLife >= time => r \in runs'
  BY <1>2 DEF Kept
<1>5. RunsInv'
  BY <1>2, <1>3, <1>4 DEF BudgetInv, RunsInv
<1>6. time <= time' /\ time' \in 0 .. LastMoment
  BY <1>1, <1>2
<1> QED
  BY <1>2, <1>5, <1>6, OthersKeepCycles DEF BudgetInv

LEMMA ResizeInv ==
    ASSUME BudgetInv, NEW bytes \in Sizes, Resize(bytes)
    PROVE  BudgetInv'
<1>1. time \in 0 .. LastMoment /\ bytes \in Nat
  BY BudgetAssumption DEF BudgetInv, RunsInv
<1>2. size' = bytes /\ UNCHANGED <<time, mails, runs, past, cycle, collected>>
  BY DEF Resize
<1>3. RunsInv'
  BY <1>1, <1>2 DEF BudgetInv, RunsInv
<1>4. time <= time' /\ time' \in 0 .. LastMoment
  BY <1>1, <1>2
<1> QED
  BY <1>2, <1>3, <1>4, OthersKeepCycles DEF BudgetInv

LEMMA PassInv ==
    ASSUME BudgetInv, Pass
    PROVE  BudgetInv'
<1>1. time \in 0 .. LastMoment /\ LastMoment \in Nat /\ LogLife \in Nat
  BY BudgetAssumption DEF BudgetInv, RunsInv
<1>2. time < LastMoment /\ time' = time + 1 /\ UNCHANGED <<size, mails, runs, past, cycle, collected>>
  BY DEF Pass
<1>3. time <= time' /\ time' \in 0 .. LastMoment
  BY <1>1, <1>2
<1>4. ASSUME NEW r \in past
      PROVE  r.started <= time' /\ (r.created + LogLife >= time' => r \in runs)
  <2>1. /\ r.started \in Nat /\ r.created \in Nat /\ r.started <= time
        /\ r.created + LogLife >= time => r \in runs
    BY DEF BudgetInv, RunsInv
  <2> QED
    BY <1>1, <1>2, <2>1
<1>5. RunsInv'
  BY <1>2, <1>3, <1>4 DEF BudgetInv, RunsInv
<1> QED
  BY <1>2, <1>3, <1>5, OthersKeepCycles DEF BudgetInv

LEMMA BudgetNextInv ==
    BudgetInv /\ [BudgetNext]_budgetVars => BudgetInv'
<1> SUFFICES ASSUME BudgetInv, [BudgetNext]_budgetVars PROVE BudgetInv'
  OBVIOUS
<1>1. ASSUME NEW c \in Cycles, StartCycle(c) PROVE BudgetInv'
  BY <1>1, StartCycleInv
<1>2. ASSUME NEW c \in Cycles, NEW duration \in Durations, NEW status \in {"SUCCEEDED", "FAILED"},
             NEW sent \in {0, 1}, NEW cleans \in BOOLEAN, FinishCycle(c, duration, status, sent, cleans)
      PROVE  BudgetInv'
  BY <1>2, FinishCycleInv
<1>3. ASSUME NEW c \in Cycles, AbandonCycle(c) PROVE BudgetInv'
  BY <1>3, AbandonCycleInv
<1>4. CASE CollectUsage \/ UNCHANGED budgetVars
  <2>1. UNCHANGED <<time, size, mails, runs, past, cycle, collected>>
    BY <1>4 DEF CollectUsage, budgetVars
  <2>2. RunsInv'
    BY <2>1 DEF BudgetInv, RunsInv
  <2>3. time <= time' /\ time' \in 0 .. LastMoment
    <3>1. time \in 0 .. LastMoment
      BY DEF BudgetInv, RunsInv
    <3> QED
      BY <2>1, <3>1
  <2> QED
    BY <2>1, <2>2, <2>3, OthersKeepCycles DEF BudgetInv
<1>5. CASE SendMail
  BY <1>5, SendMailInv
<1>6. CASE CleanUp
  BY <1>6, CleanUpInv
<1>7. ASSUME NEW bytes \in Sizes, Resize(bytes) PROVE BudgetInv'
  BY <1>7, ResizeInv
<1>8. CASE Pass
  BY <1>8, PassInv
<1> QED
  BY <1>1, <1>2, <1>3, <1>4, <1>5, <1>6, <1>7, <1>8, Zenon DEF BudgetNext

\* What a cycle leaves out for the budget is what the month had reached when it began,
\* for any budgets and thresholds, any life of the records and any number of cycles that
\* overlap: UsageService.collect, BudgetService.mode and _eligible_instruments of the
\* radar cycle.
THEOREM NewsStayWithinBudget ==
    BudgetSpec => []NewsWithinBudget
<1>1. BudgetSpec => []BudgetInv
  BY BudgetInitInv, BudgetNextInv, PTL DEF BudgetSpec
<1> QED
  BY <1>1, WithinIsProperty, PTL
=============================================================================
