---------------------------- MODULE RiskProfile ----------------------------
(***************************************************************************)
(* The risk limits of the user and the recommendation for them:            *)
(* services/risk_recommendation.py and risk_profile.py.                    *)
(*                                                                         *)
(* A recommendation is made of the answers and of the portfolio, and what  *)
(* is applied is made again, so a fingerprint of the portfolio that the    *)
(* user was shown has to be the one of now.  The limits that depend on the *)
(* style alone are left out, and so are the older columns that repeat the  *)
(* newer ones.                                                             *)
(***************************************************************************)
EXTENDS Integers, FiniteSets, FiniteSetsExt, Rows

CONSTANTS
    RiskRequests,
    Portfolios,    \* item -> [currency, cost, crypto, trades]; cost 0 is not held
    Answers,       \* [funds, loss, emergency, averaging]
    CustomLimits,  \* what a user enters instead
    Unset,
    MaxWrites      \* bound: writes of the profile

VARIABLES
    portfolio,     \* the active items with their active trades
    shown,         \* the recommendation that the user is shown, or Unset
    profile,       \* RiskProfileRecord, or Unset
    riskRequest,   \* request -> what it has read and is about to write
    agreed,        \* history: what the user was shown of the profile applied last
    mixed,         \* history: a write was based on a profile that was not the last
    writes         \* number of writes

riskVars == <<portfolio, shown, profile, riskRequest, agreed, mixed, writes>>

Styles == {"CONSERVATIVE", "BALANCED", "AGGRESSIVE"}
Policies == {"DISABLED", "CONDITIONAL", "ALLOWED"}

Limits ==
    [style : Styles, single : 1 .. 100, volatile : 0 .. 100, crypto : 0 .. 100,
     cash : 0 .. 100 \cup {Unset}, policy : Policies, count : 0 .. 3]

\* What a user enters is checked before it is written.
ASSUME RiskAssumption == CustomLimits \subseteq Limits

RiskProfileRecord ==
    [source : {"CUSTOM", "DATA_ASSISTED"}, fingerprint : Portfolios \cup {Unset},
     style : Styles, single : 1 .. 100, volatile : 0 .. 100, crypto : 0 .. 100,
     cash : 0 .. 100 \cup {Unset}, policy : Policies, count : 0 .. 3]

RiskProfileRecommendation == [answers : Answers, limits : Limits, fingerprint : Portfolios]

-----------------------------------------------------------------------------
(* The recommendation.                                                     *)

Style(a) ==
    IF a.funds = "YES" \/ a.emergency = "NO" \/ a.loss = "UP_TO_10" THEN "CONSERVATIVE"
    ELSE IF a.funds = "NO" /\ a.emergency = "YES" /\ a.loss = "OVER_20" THEN "AGGRESSIVE"
    ELSE "BALANCED"

\* _style_settings, of the limits that the portfolio may lower.
StyleSettings(style) ==
    CASE style = "CONSERVATIVE" -> [single |-> 15, volatile |-> 10, crypto |-> 5, cash |-> 20]
      [] style = "AGGRESSIVE" -> [single |-> 30, volatile |-> 25, crypto |-> 20, cash |-> 5]
      [] style = "BALANCED" -> [single |-> 20, volatile |-> 15, crypto |-> 10, cash |-> 10]

\* _percent, in ten-thousandths, of which a half is rounded to the even one.
Percent(part, whole) ==
    LET scaled == part * 1000000
        rest == 2 * (scaled % whole)
        floor == scaled \div whole
    IN  IF rest > whole \/ (rest = whole /\ floor % 2 = 1) THEN floor + 1 ELSE floor

Held(p) == {i \in DOMAIN p : p[i].cost > 0}
HeldIn(p, currency) == {i \in Held(p) : p[i].currency = currency}
CostOf(p, S) == FoldSet(LAMBDA i, sum : p[i].cost + sum, 0, S)
ShareOf(p, S, currency) == Percent(CostOf(p, S), CostOf(p, HeldIn(p, currency)))

\* The largest share of what was paid in a currency: by one item, by crypto assets.
Concentration(p) == Max({0} \cup {ShareOf(p, {i}, p[i].currency) : i \in Held(p)})

CryptoShare(p) ==
    Max({0} \cup {ShareOf(p, {j \in HeldIn(p, p[i].currency) : p[j].crypto}, p[i].currency) :
                     i \in Held(p)})

AtMost(limit, cap) == Min({limit, cap})

\* recommend.
Recommended(a, p) ==
    LET settings == StyleSettings(Style(a))
        crowded == CryptoShare(p) >= 250000
    IN  [style |-> Style(a),
         single |-> IF Concentration(p) >= 500000 THEN AtMost(settings.single, 15)
                    ELSE IF Concentration(p) >= 350000 THEN AtMost(settings.single, 20)
                    ELSE settings.single,
         volatile |-> IF crowded THEN AtMost(settings.volatile, 15) ELSE settings.volatile,
         crypto |-> IF crowded THEN AtMost(settings.crypto, 10) ELSE settings.crypto,
         cash |-> CASE a.emergency = "NO" -> 30 [] a.emergency = "YES" -> settings.cash
                    [] OTHER -> Unset,
         policy |-> a.averaging,
         count |-> CASE a.averaging = "DISABLED" -> 0 [] a.averaging = "ALLOWED" -> 3
                     [] a.averaging = "CONDITIONAL" -> 2]

-----------------------------------------------------------------------------
(* The requests.                                                           *)

\* Trades, edits and archiving change what there is to recommend on.
ChangePortfolio(p) ==
    /\ p # portfolio /\ portfolio' = p
    /\ UNCHANGED <<shown, profile, riskRequest, agreed, mixed, writes>>

\* GET /recommendation and POST /recommendation/refresh.
Recommend(a) ==
    /\ shown' = [answers |-> a, limits |-> Recommended(a, portfolio), fingerprint |-> portfolio]
    /\ UNCHANGED <<portfolio, profile, riskRequest, agreed, mixed, writes>>

Submit(r, new, terms) ==
    /\ riskRequest[r] = Unset
    /\ riskRequest' = [riskRequest EXCEPT ![r] =
                          [view |-> profile, new |-> new, terms |-> terms, behind |-> FALSE]]
    /\ UNCHANGED <<portfolio, shown, profile, agreed, mixed, writes>>

\* Defect: what the user was shown is not compared with what there is now.
SubmitApplyUnchecked(r) ==
    /\ shown # Unset
    /\ LET fresh == Recommended(shown.answers, portfolio)
           cash == IF fresh.cash # Unset THEN fresh.cash
                   ELSE IF profile # Unset THEN profile.cash ELSE Unset
       IN  Submit(r, Patched([fresh EXCEPT !.cash = cash],
                             [source |-> "DATA_ASSISTED", fingerprint |-> portfolio]), shown)

\* apply, up to the write: refused when the portfolio is not the one shown.  The
\* cash that is not recommended stays as it is.  That CHANGED_ONLY leaves out
\* what is equal makes no difference to what the mapper writes.
SubmitApply(r) ==
    /\ shown # Unset /\ shown.fingerprint = portfolio
    /\ LET fresh == Recommended(shown.answers, portfolio)
           cash == IF fresh.cash # Unset THEN fresh.cash
                   ELSE IF profile # Unset THEN profile.cash ELSE Unset
       IN  Submit(r, Patched([fresh EXCEPT !.cash = cash],
                             [source |-> "DATA_ASSISTED", fingerprint |-> portfolio]), shown)

\* RiskProfileService.replace, up to the write.
SubmitCustom(r, limits) ==
    Submit(r, Patched(limits, [source |-> "CUSTOM", fingerprint |-> Unset]), Unset)

\* upsert and the commit.
WriteProfile(r) ==
    LET q == riskRequest[r] IN
    /\ q # Unset /\ writes < MaxWrites
    /\ q.view = Unset => profile = Unset
    /\ profile' = IF profile = Unset THEN q.new ELSE Updated(profile, q.view, q.new)
    /\ agreed' = q.terms
    /\ mixed' = q.behind
    /\ writes' = writes + 1
    /\ riskRequest' = [p \in RiskRequests |->
                          IF p = r \/ riskRequest[p] = Unset THEN Unset
                          ELSE [riskRequest[p] EXCEPT !.behind = TRUE]]
    /\ UNCHANGED <<portfolio, shown>>

\* A request that fails: two first profiles have the same key.
FailWrite(r) ==
    /\ riskRequest[r] # Unset /\ riskRequest[r].view = Unset /\ profile # Unset
    /\ riskRequest' = [riskRequest EXCEPT ![r] = Unset]
    /\ UNCHANGED <<portfolio, shown, profile, agreed, mixed, writes>>

-----------------------------------------------------------------------------
RiskInit ==
    /\ portfolio \in Portfolios /\ shown = Unset /\ profile = Unset
    /\ riskRequest = [r \in RiskRequests |-> Unset]
    /\ agreed = Unset /\ mixed = FALSE /\ writes = 0

RiskNext ==
    \/ \E p \in Portfolios : ChangePortfolio(p)
    \/ \E a \in Answers : Recommend(a)
    \/ \E r \in RiskRequests :
          \/ SubmitApply(r)
          \/ \E limits \in CustomLimits : SubmitCustom(r, limits)
          \/ WriteProfile(r)
          \/ FailWrite(r)

RiskSpec == RiskInit /\ [][RiskNext]_riskVars

-----------------------------------------------------------------------------
RiskTypeOK ==
    /\ portfolio \in Portfolios
    /\ shown # Unset => shown \in RiskProfileRecommendation
    /\ profile # Unset => profile \in RiskProfileRecord
    /\ mixed \in BOOLEAN /\ writes \in 0 .. MaxWrites

\* A profile that says it was made of data holds what the user was shown and
\* nothing else, for the portfolio it names, whatever was traded between the
\* recommendation, the application of it and the write, and one that the user
\* entered names no portfolio; unless two requests wrote one over the other.
AssistedAsShown ==
    profile # Unset /\ ~mixed =>
        IF agreed = Unset THEN profile.source = "CUSTOM" /\ profile.fingerprint = Unset
        ELSE /\ profile.source = "DATA_ASSISTED"
             /\ profile.fingerprint = agreed.fingerprint
             /\ \A f \in DOMAIN agreed.limits :
                   agreed.limits[f] # Unset => profile[f] = agreed.limits[f]
=============================================================================
