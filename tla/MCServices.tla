----------------------------- MODULE MCServices -----------------------------
(***************************************************************************)
(* Nine small instances in one run of TLC, of components that share no     *)
(* state (the batch works on what the registry holds):                     *)
(*   "registry"   one source, and one that is added, with a subscription   *)
(*                and two requests at a time;                              *)
(*   "batch"      batches of one subscription over an index of four items; *)
(*   "migration"  an item with up to two sales, upgraded at any time;      *)
(*   "risk"       three portfolios, two sets of answers, two requests;       *)
(*   "calendar"   a briefing of either market over two and a half days;    *)
(*   "reviews"    an item, two listings, two companies and an event;       *)
(*   "quotes"     two commands that ask one provider or both;              *)
(*   "titles"     three references, one with a title of four forms;        *)
(*   "budget"     two radar cycles at a time over four moments, in months  *)
(*                of three, with records that are kept for less.           *)
(* What does not belong to the regime of a behaviour stays as it begins,   *)
(* and the requests, commands and cycles of all regimes have two names.    *)
(***************************************************************************)
EXTENDS ReferenceBatch, LedgerMigration, RiskProfile, MarketCalendar, DecisionReviews,
        PublicQuotes, ReferenceTitles, OperatingBudget

VARIABLE regime

(* The registry and its batches.                                           *)

MCFoldOf == [n \in SourceNames |-> IF n = "elm" THEN "elm" ELSE "oak"]
MCSourcePatches ==
    {("enabled" :> FALSE), ("enabled" :> TRUE), ("detail" :> "slow"),
     ("name" :> "Oak") @@ ("official" :> FALSE)}
MCSubscriptionPatches ==
    {("enabled" :> FALSE), ("enabled" :> TRUE), ("mode" :> "ALL_SOURCE"),
     ("mode" :> "AUTHOR") @@ ("terms" :> {"t"})}

Oak == [name |-> "oak", feed |-> "feed", official |-> TRUE, enabled |-> TRUE, detail |-> "fast"]
OakSubscription ==
    [source |-> "s1", name |-> "A", mode |-> "ALL_SOURCE", terms |-> {}, enabled |-> TRUE]

MCBootstrapped == [Oak EXCEPT !.name = "elm", !.feed = "other"]

\* One kind of source is added, by a request or, as the first of all and without
\* a subscription beside it, by the script, whose source is only slowed down.  The
\* subscriptions ask for all that their source lists.
AddedIs(new) ==
    \A r \in Requests :
        LET q == request'[r] IN
        q # Nothing =>
           /\ q.about = "source" /\ q.view = Nothing => q.new = new
           /\ q.about = "bootstrap" => change' = <<>> /\ subscription' = <<>>
           /\ q.view = MCBootstrapped => q.new.detail = "slow"
           /\ q.about = "subscription" =>
                 q.new.source = "s1" /\ q.new.mode = "ALL_SOURCE" /\ MCBootstrapped \notin Range(source)

RegistryStart ==
    /\ source = [s \in {"s1"} |-> Oak] /\ subscription = <<>> /\ change = <<>>
    /\ request = [r \in Requests |-> Nothing] /\ crossed = {}

BatchStart ==
    /\ source = [s \in {"s1"} |-> Oak] /\ subscription = [u \in {"u1"} |-> OakSubscription]
    /\ change = <<>> /\ request = [r \in Requests |-> Nothing] /\ crossed = {}

Listing(date, dated, address) ==
    [source |-> "s1", date |-> date, dated |-> dated, address |-> address,
     phrases |-> [mode \in {"AUTHOR", "KEYWORD"} |-> IF address = "c" THEN {"t"} ELSE {}]]
MCEntry ==
    [i \in Items |-> CASE i = "a" -> Listing(1, TRUE, "a") [] i = "b" -> Listing(2, TRUE, "b")
                       [] i = "c" -> Listing(2, TRUE, "c") [] i = "undated" -> Listing(1, FALSE, "d")]
MCOrder == [i \in Items |-> CASE i = "a" -> 1 [] i = "b" -> 2 [] i = "c" -> 3 [] i = "undated" -> 4]

\* One request at a time, that pauses the subscription or resumes it, or changes
\* the items that it asks for: all of them, or "c".
OneSubscriptionRequest ==
    \E r \in Requests :
        /\ \A other \in Requests \ {r} : request[other] = Nothing
        /\ SubscriptionRequest(r) \/ GiveUp(r)
ImportsOfOne == \A i \in DOMAIN reference' : reference'[i].subscription = Nothing => i = "c"

(* Risk, calendar, reviews.                                                *)

Stake(currency, cost, crypto) ==
    [currency |-> currency, cost |-> cost, crypto |-> crypto, trades |-> 1]
MCPortfolios ==
    {[i \in 1 .. 3 |-> IF i = 1 THEN Stake("KRW", cost, FALSE)
                       ELSE Stake("KRW", 1, i = 3)] : cost \in {0, 1}}
    \cup {[i \in {1} |-> Stake("USD", 2, FALSE)]}
Answer(funds, loss, emergency, averaging) ==
    [funds |-> funds, loss |-> loss, emergency |-> emergency, averaging |-> averaging]
MCAnswers ==
    {Answer("NO", "OVER_20", "YES", "ALLOWED"), Answer("UNSURE", "UNSURE", "UNSURE", "CONDITIONAL")}
MCCustomLimits ==
    {[style |-> "BALANCED", single |-> 40, volatile |-> 15, crypto |-> 0, cash |-> 7,
      policy |-> "DISABLED", count |-> 0]}

MCMarket ==
    [type \in BriefingTypes |->
        IF type = "KRX_PRE_OPEN"
        THEN [shift |-> 3, open |-> 3, close |-> 5, preOpen |-> TRUE, sessions |-> {0, 1}]
        ELSE [shift |-> -2, open |-> 3, close |-> 5, preOpen |-> FALSE, sessions |-> {0, 2}]]
MCPreferences ==
    {[type \in BriefingTypes |-> [offset |-> offset, enabled |-> TRUE]] : offset \in {0, 1}}

MCListingOf == [i \in MappedItems |-> "old"]
MCFits == [i \in MappedItems |-> Listings]
MCMappingAnswers ==
    {[c \in {"c1"} |-> "old"], [c \in {"c1"} |-> "new"], [c \in {"c1", "c2"} |-> "old"], <<>>}
MCInstrumentOf == [e \in InfoEvents |-> "old"]
State(verification, material, stale, official) ==
    [verification |-> verification, material |-> material, stale |-> stale, official |-> official]
MCEventStates ==
    {State("OFFICIAL_CONFIRMED", TRUE, FALSE, TRUE), State("CORRECTED", TRUE, FALSE, TRUE),
     State("OFFICIAL_CONFIRMED", FALSE, FALSE, TRUE),
     State("NEEDS_VERIFICATION", TRUE, FALSE, FALSE)}

(* Quotes and titles.                                                      *)

MCQuoteOrders == {<<"UPBIT">>, <<"UPBIT", "BINANCE">>}
\* A command has brought its first quote, which shortens the way to the others.
FirstSync ==
    /\ quoted = {[provider |-> "UPBIT", event |-> 1, since |-> 0, fetched |-> 0, sequence |-> 1]}
    /\ listedCoins = {"UPBIT"} /\ moment = 1
    /\ heard = [p \in QuoteProviders |-> [event |-> IF p = "UPBIT" THEN 1 ELSE 0, fetched |-> 0]]
    /\ providerState =
          [p \in QuoteProviders |->
              IF p # "UPBIT" THEN NoState
              ELSE [configured |-> TRUE, status |-> "READY", failures |-> 0, requests |-> 1,
                    successes |-> 1, lastSuccess |-> 0]]
    /\ market = [p \in QuoteProviders |-> 1] /\ coins = QuoteProviders
    /\ command = [c \in QuoteCommands |-> NoState]

\* One kind of failure, at first; the item of one provider comes and goes, and time
\* passes by itself, between commands.  The other provider is not enabled, and its
\* price stays.
QuotesAre ==
    /\ market'["BINANCE"] = 1
    /\ coins' # coins \/ (moment' # moment /\ command' = command) =>
          "BINANCE" \in coins' /\ \A c \in QuoteCommands : command[c] = NoState
    /\ \A c \in QuoteCommands : command'[c] # NoState /\ command'[c].answer # NoState =>
          LET status == command'[c].answer.status IN
          \/ status \in {"READY", "NOT_CONFIGURED"}
          \/ status = "FAILED" /\ moment = 0

MCTitleOf ==
    [i \in TitledItems |->
        [language |-> IF i = "memo" THEN "ko" ELSE "en", ai |-> i # "letter",
         hurtles |-> i = "essay", abstract |-> FALSE]]
Translation(structure, cjk, ai, progress) ==
    [structure |-> structure, cjk |-> cjk, ai |-> ai, progress |-> progress, bad |-> FALSE]
MCTranslations ==
    {Translation(TRUE, FALSE, TRUE, TRUE), Translation(TRUE, FALSE, TRUE, FALSE),
     Translation(TRUE, TRUE, TRUE, TRUE)}

\* Mails of one moment, a change of size before anything else, and failures of the
\* longer cycles only.
BudgetsAre ==
    /\ \A t \in DOMAIN mails' : mails'[t] > 0 => t = 1
    /\ size' # size => time = 0 /\ past = {}
    /\ \A r \in past' : r.status = "FAILED" <=> r.duration = 3
    /\ snapshot' # snapshot => past' # past \/ snapshot = NoBudget

Sym == Permutations(Requests)

-----------------------------------------------------------------------------
RegistryVars == <<registryVars, batchVars>>
AnalysisVars == <<mapVars, reviewVars>>
RestVars == <<quoteVars, titleVars, budgetVars>>

MigrationStart ==
    \/ regime = "migration"
    \/ sold = <<>> /\ owned = [quantity |-> 0, average |-> 0, holding |-> "WATCHLIST"]

MCInit ==
    /\ regime \in {"registry", "batch", "migration", "risk", "calendar", "reviews",
                  "quotes", "titles", "budget"}
    /\ IF regime = "batch" THEN BatchStart ELSE RegistryStart
    /\ BatchInit
    /\ MigrationInit /\ MigrationStart
    /\ RiskInit /\ portfolio[1].cost = 0
    /\ CalendarInit
    /\ ReviewInit /\ quantity = [i \in MappedItems |-> 0]
    /\ QuotesInit \/ (regime = "quotes" /\ FirstSync)
    /\ TitlesInit
    /\ BudgetInit

MCNext ==
    /\ UNCHANGED regime
    /\ \/ /\ regime = "registry" /\ RegistryNext
          /\ AddedIs([Oak EXCEPT !.name = "elm", !.feed = "other", !.official = FALSE])
          /\ UNCHANGED <<batchVars, migrationVars, riskVars, calendarVars, AnalysisVars, RestVars>>
       \/ /\ regime = "batch"
          /\ \/ OneSubscriptionRequest /\ Widen
             \/ BatchNext /\ ImportsOfOne /\ UNCHANGED registryVars
          /\ UNCHANGED <<migrationVars, riskVars, calendarVars, AnalysisVars, RestVars>>
       \/ /\ regime = "migration" /\ MigrationNext
          /\ UNCHANGED <<RegistryVars, riskVars, calendarVars, AnalysisVars, RestVars>>
       \/ /\ regime = "risk" /\ RiskNext
          /\ UNCHANGED <<RegistryVars, migrationVars, calendarVars, AnalysisVars, RestVars>>
       \/ /\ regime = "calendar" /\ CalendarNext
          /\ UNCHANGED <<RegistryVars, migrationVars, riskVars, AnalysisVars, RestVars>>
       \/ /\ regime = "reviews" /\ ReviewNext
          /\ UNCHANGED <<RegistryVars, migrationVars, riskVars, calendarVars, RestVars>>
       \/ /\ regime = "quotes" /\ QuotesNext /\ QuotesAre
          /\ UNCHANGED <<RegistryVars, migrationVars, riskVars, calendarVars, AnalysisVars, titleVars,
                         budgetVars>>
       \/ /\ regime = "titles" /\ TitlesNext
          /\ UNCHANGED <<RegistryVars, migrationVars, riskVars, calendarVars, AnalysisVars, quoteVars,
                         budgetVars>>
       \/ /\ regime = "budget" /\ BudgetNext /\ BudgetsAre
          /\ UNCHANGED <<RegistryVars, migrationVars, riskVars, calendarVars, AnalysisVars, quoteVars,
                         titleVars>>

MCSpec ==
    MCInit /\ [][MCNext]_<<regime, registryVars, batchVars, migrationVars, riskVars,
                          calendarVars, mapVars, reviewVars, RestVars>>
=============================================================================
