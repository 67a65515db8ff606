------------------------------ MODULE NewsFeed ------------------------------
(***************************************************************************)
(* Articles, from the feeds of the sources and from links that a user      *)
(* imports, to the information events: server/app/services/news.py.        *)
(* Articles and filings share the events and the portfolio items; the      *)
(* records of filings decide what an article can be confirmed by.          *)
(***************************************************************************)
EXTENDS DisclosureFeed

CONSTANTS
    Sources,
    Source,        \* source -> [grade, official]
    Articles,
    Article,       \* article -> [source, manual, id, address, company, subject, claim,
                   \*             origin, certainty, notice]
    About,         \* pairs of an article and a filing with two words in common
    FeedLimit,     \* max_items of a feed
    MatchLimit     \* 20: records an article is compared with

ASSUME ArticlesAssumption == IsFiniteSet(Articles)

VARIABLES
    posted,        \* article -> the time it carries, 0 while it is not in its feed
    reference,     \* article -> the NewsReferenceRecord
    read           \* source -> last_successful_at of its cursor

newsVars == <<posted, reference, read>>

NewsReference ==
    [event : Companies \X {"NEWS"} \X {Article[a].subject : a \in Articles},
     published : Nat, origin : {Article[a].origin : a \in Articles}, independent : BOOLEAN,
     duplicateOf : Articles \cup {None}, verification : Verification, lifecycle : Lifecycle,
     material : BOOLEAN, stale : BOOLEAN, trust : 0 .. 100, manual : BOOLEAN]

-----------------------------------------------------------------------------
(* Which articles are read, and for which company.                         *)

\* In a saving mode only what is held is followed; include_sold_in_news_sync is off.
NewsFor(i, saving) ==
    ~i.archived /\ i.holding \in IF saving THEN {"HOLDING"}
                                 ELSE {"HOLDING", "WATCHLIST", "REENTRY_WATCH"}

\* _match: the company named in the article, unless it is an advertisement.
Matched(a, saving) ==
    Article[a].company # None /\ NewsFor(item[Article[a].company], saving)

ArticleKey(a) == <<Article[a].company, "NEWS", Article[a].subject>>

\* Known by the number the feed gives it, or by its address.
Known(ref, a, manual) ==
    \E q \in DOMAIN ref :
        \/ Article[q].address = Article[a].address
        \/ ~manual /\ ~ref[q].manual /\ Article[q].id = Article[a].id

\* The records of the company that share words with the claim.
Officials(a) ==
    LET own == {r \in DOMAIN record : CompanyOf(r[1]) = Article[a].company}
        latest == {r \in own : Cardinality({q \in own : record[q].published
                                                          > record[r].published}) < MatchLimit}
    IN  {r \in latest : <<a, r[1]>> \in About}

-----------------------------------------------------------------------------
(* What becomes of one article.                                            *)

NewsBooks == [event |-> event, reference |-> reference]

\* A reprint leaves the state of the event alone.
State(old, status) == IF status.lifecycle = "STALE" THEN old ELSE status

\* NewsService.ingest: an article that is known changes nothing; a new one joins
\* the event of its subject or makes it.
IngestArticle(books, a, published, manual) ==
    LET art == Article[a]
        source == Source[IF manual THEN art.manual ELSE art.source]
        key == ArticleKey(a)
        own == {q \in DOMAIN books.reference : books.reference[q].event = key}
        same == {q \in own : Article[q].claim = art.claim}
        first == IF same = {} THEN None
                 ELSE CHOOSE q \in same : \A r \in same :
                        books.reference[q].published <= books.reference[r].published
        held == IF key \in DOMAIN books.event THEN books.event[key].verification ELSE "none"
        officials == Officials(a)
        conflicting == \E r \in officials : Contradicts(Filing[r[1]].certainty, art.certainty)
        others == {books.reference[q].origin : q \in own}
        independent == art.origin \notin others
        standing == Standing(officials # {}, conflicting, source, independent, others)
        status == NewsStatus(held, same # {}, officials # {}, conflicting, art.notice, standing)
        old == IF held # "none" THEN books.event[key]
               ELSE [NewEvent("NEWS", [claim |-> art.claim, summary |-> None], published)
                        EXCEPT !.lifecycle = status.lifecycle,
                               !.verification = status.verification]
    IN  IF Known(books.reference, a, manual) THEN books
        ELSE
        [event |-> Put(books.event, key, [old EXCEPT
            !.news = @ + 1, !.sources = @ + 1,
            !.origins = Cardinality(others \cup {art.origin}),
            !.official = Max({@, Cardinality(officials)}),
            !.seen = Max({@, published}), !.material = status.material,
            !.changed = IF status.material THEN published ELSE @,
            !.lifecycle = State(old, status).lifecycle,
            !.verification = State(old, status).verification]),
         reference |-> Put(books.reference, a, [event |-> key, published |-> published, origin |-> art.origin,
            independent |-> independent, duplicateOf |-> first,
            verification |-> status.verification, lifecycle |-> status.lifecycle,
            material |-> status.material, stale |-> status.stale,
            trust |-> TrustScore(source.grade, status.verification, independent),
            manual |-> manual])]

-----------------------------------------------------------------------------
(* The requests.                                                           *)

\* What the feed of a source may hold: its newest entries, and of those of one time
\* any.
Feeds(s) ==
    LET all == {a \in Articles : Article[a].source = s /\ posted[a] # 0}
    IN  {feed \in SUBSET all :
            /\ Cardinality(feed) = Min({Cardinality(all), FeedLimit})
            /\ \A a \in feed, b \in all \ feed : posted[a] >= posted[b]}

\* The entries of a feed, one after the other.
IngestAll(articles) ==
    LET order == NewestFirst(articles, posted)
        after[n \in 0 .. Cardinality(articles)] ==
            IF n = 0 THEN NewsBooks
            ELSE IngestArticle(after[n - 1], order[n], posted[order[n]], FALSE)
    IN  after[Cardinality(articles)]

\* One source of NewsSyncService.sync.  The cursor moves also past what names no
\* company that is followed; a feed that cannot be read leaves no trace.
SyncSource(s, feed, since, saving) ==
    LET start == IF since # None THEN since
                 ELSE IF read[s] = None THEN 0 ELSE read[s] - DayLength
        books == IngestAll({a \in feed : posted[a] >= start /\ Matched(a, saving)})
    IN  /\ event' = books.event
        /\ reference' = books.reference
        /\ read' = [read EXCEPT ![s] = now]
        /\ UNCHANGED <<now, filed, item, record, cursor, unread, posted>>

\* preview: a known address is refused.
LinkImportable(a) ==
    /\ Article[a].company # None /\ ~item[Article[a].company].archived
    /\ ~Known(reference, a, TRUE)

\* POST /news/import-link: the user's word on what is material and on the summary
\* goes over what ingest has found.
ImportLink(a, material, summary) ==
    LET published == IF posted[a] = 0 THEN now ELSE posted[a]
        books == IngestArticle(NewsBooks, a, published, TRUE)
        key == ArticleKey(a)
    IN  /\ LinkImportable(a)
        /\ reference' = [books.reference EXCEPT ![a].material = material]
        /\ event' = [books.event EXCEPT
                        ![key].summary = IF summary = None THEN Article[a].claim ELSE summary,
                        ![key].material = material,
                        ![key].changed = IF material THEN published ELSE @]
        /\ UNCHANGED <<now, filed, item, record, cursor, unread, posted, read>>

\* A source puts an article into its feed, dated now or earlier.
Publish(a, published) ==
    /\ Article[a].source # None /\ posted[a] = 0
    /\ posted' = [posted EXCEPT ![a] = published]
    /\ UNCHANGED <<now, filed, item, record, event, cursor, unread, reference, read>>

-----------------------------------------------------------------------------
NewsInit ==
    /\ posted = [a \in Articles |-> 0]
    /\ reference = <<>>
    /\ read = [s \in Sources |-> None]

NewsNext ==
    \/ \E s \in Sources, since \in {None, now}, saving \in BOOLEAN :
            /\ s \in {Article[a].source : a \in Articles}
            /\ \E feed \in Feeds(s) : SyncSource(s, feed, since, saving)
    \/ \E a \in Articles, material \in BOOLEAN, summary \in {Noted, None} :
            ImportLink(a, material, summary)
    \/ \E a \in Articles, published \in 1 .. now : Publish(a, published)
=============================================================================
