------------------------- MODULE MCInformationFeeds -------------------------
(***************************************************************************)
(* Three small instances of InformationFeeds in one run of TLC:            *)
(*   "cursor"   two companies at OpenDART, their filings over five ticks,  *)
(*              runs that fail, are limited or restricted, items that      *)
(*              leave the list;                                            *)
(*   "filings"  one company at SEC EDGAR with two reports of a form and an *)
(*              amendment, by runs and imports, and a reprocessing;        *)
(*   "news"     five articles of three sources about the last company and  *)
(*              one report of it, by feeds and imported links.             *)
(***************************************************************************)
EXTENDS InformationFeeds, TLC

MCProviderOf == [c \in Companies |-> IF c = "Tesla" THEN "SEC_EDGAR" ELSE "OPENDART"]
MCRank == [c \in Companies |-> CASE c = "Hynix" -> 1 [] c = "Samsung" -> 2 [] c = "Tesla" -> 3]

Held == [position |-> "HOLDING", tracking |-> "NONE", holding |-> "HOLDING", archived |-> FALSE]
Watching == [position |-> "EMPTY", tracking |-> "WATCHLIST", holding |-> "WATCHLIST",
             archived |-> FALSE]
Sold == [position |-> "CLOSED", tracking |-> "NONE", holding |-> "SOLD", archived |-> FALSE]
MCItemStates == {Held, Watching, Sold}

Paper(company, form, amended, words, denies, title, certainty) ==
    [company |-> company, form |-> form, amended |-> amended, words |-> words,
     denies |-> denies, title |-> title, certainty |-> certainty]

MCFiling ==
    [d \in Documents |->
        CASE d = "results" -> Paper("Samsung", "none", FALSE, {4}, FALSE, "t1", "ANNOUNCED")
          [] d = "denial" -> Paper("Samsung", "none", FALSE, {}, TRUE, "t2", "ANNOUNCED")
          [] d = "notice" -> Paper("Hynix", "none", FALSE, {}, FALSE, "t1", "ANNOUNCED")
          [] d = "10-Q 1" -> Paper("Tesla", "10-Q", FALSE, {}, FALSE, "t1", "POSSIBLE")
          [] d = "10-Q/A" -> Paper("Tesla", "10-Q", TRUE, {}, FALSE, "t1", "ANNOUNCED")
          [] d = "10-Q 2" -> Paper("Tesla", "10-Q", FALSE, {}, FALSE, "t1", "ANNOUNCED")]

MCSource ==
    [s \in Sources |-> IF s = "ir" THEN [grade |-> "A", official |-> TRUE]
                       ELSE IF s = "blog" THEN [grade |-> "C", official |-> FALSE]
                       ELSE [grade |-> "B", official |-> FALSE]]

Entry(source, manual, id, claim, origin, certainty, notice) ==
    [source |-> source, manual |-> manual, id |-> id, company |-> "Tesla", subject |-> <<"news", "x">>,
     claim |-> <<"news", claim>>, origin |-> origin, certainty |-> certainty, notice |-> notice]

WithAddress(entry, address) == [address |-> address] @@ entry

MCArticle ==
    [a \in Articles |-> WithAddress(
        CASE a = "first" -> Entry("wire", "blog", 1, "p", "wire", "ANNOUNCED", "none")
          [] a = "second" -> Entry("paper", "blog", 2, "p", "paper", "ANNOUNCED", "none")
          [] a = "own" -> Entry("ir", "blog", 3, "q", "ir", "CONFIRMED", "none")
          [] a = "reprint" -> Entry("wire", "blog", 2, "p", "wire", "ANNOUNCED", "none")
          [] a = "correction" -> Entry(None, "blog", 4, "r", "paper", "ANNOUNCED", "correction"),
        a)]

MCAbout == {<<"own", "10-Q 1">>, <<"second", "10-Q 1">>}

VARIABLE regime

Cursors == INSTANCE InformationFeeds WITH
    ItemStates <- {Held, Sold}, Documents <- {"results", "notice"}

Filings == INSTANCE InformationFeeds WITH
    ItemStates <- {Watching, Sold}, Documents <- {"10-Q 1", "10-Q/A", "10-Q 2"},
    Limits <- {2}, MappingLimit <- 3, MaxTime <- 3

News == INSTANCE InformationFeeds WITH
    ItemStates <- {Watching, Sold}, Documents <- {"10-Q 1"}, Limits <- {2}, MaxTime <- 1

\* What a regime takes from the requests that a user may make.
Imported(ids) ==
    \A r \in DOMAIN record' : record'[r].event[2] = "OFFICIAL_DISCLOSURE" => r \in ids
NoImport == \A key \in DOMAIN event' : key[3] # Noted /\ Noted \notin {event'[key].claim, event'[key].summary}
Linked(links) == \A a \in DOMAIN reference' : reference'[a].manual => a \in links

MCInit ==
    /\ Init
    /\ \/ regime = "cursor" /\ item \in [Companies -> {Held, Sold}] /\ item["Tesla"] = Sold
       \/ /\ regime \in {"filings", "news"}
          /\ item = [c \in Companies |-> IF c = "Tesla" THEN Watching ELSE Sold]

MCNext ==
    /\ UNCHANGED regime
    /\ \/ /\ regime = "cursor" /\ Cursors!FeedNext /\ UNCHANGED newsVars
          /\ NoImport /\ item'["Tesla"] = Sold
       \/ /\ regime = "filings" /\ Filings!FeedNext /\ UNCHANGED <<newsVars, item>>
          /\ Imported({<<"10-Q 1", "number">>, <<"10-Q/A", "address">>})
       \/ /\ regime = "news" /\ News!Next /\ UNCHANGED item
          /\ NoImport /\ Linked({"correction"})

MCSpec == MCInit /\ [][MCNext]_<<vars, regime>>
=============================================================================
