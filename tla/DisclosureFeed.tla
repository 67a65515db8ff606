--------------------------- MODULE DisclosureFeed ---------------------------
(***************************************************************************)
(* Official filings, from the providers to the information events:         *)
(* server/app/services/{disclosure_sync,disclosures}.py behind the cycle,  *)
(* the command sync-disclosures and POST /disclosures/import-link.         *)
(*                                                                         *)
(* Every action is one database transaction that commits.  Time is counted *)
(* in ticks, DayLength of them to a day.  A company stands for an          *)
(* instrument, its portfolio item and its verified mapping.                *)
(***************************************************************************)
EXTENDS EventRules, Rows

CONSTANTS
    Companies,
    Rank,            \* a company's place by market and symbol
    ProviderOf,      \* company -> "OPENDART" or "SEC_EDGAR"
    ItemStates,      \* [position, tracking, holding, archived] of an item
    IncludeSold,     \* include_sold_in_disclosure_sync
    Documents,
    Filing,          \* document -> what it says; see EventRules
    Noted,           \* the claim a user types on an import
    None,
    MaxMappings,     \* 3: mappings of one run
    MappingLimit,    \* 10: filings asked of one mapping
    Limits,          \* the limit of a run, 50 at most
    DayLength, Shift, \* a day of filings begins Shift ticks before a day in UTC
    MaxTime          \* bound: the clock stops here

ASSUME FeedAssumption ==
    /\ ProviderOf \in [Companies -> {"OPENDART", "SEC_EDGAR"}]
    /\ IncludeSold \in BOOLEAN
    /\ Limits \subseteq Nat \ {0} /\ MaxMappings \in Nat \ {0} /\ MappingLimit \in Nat \ {0}
    /\ DayLength \in Nat \ {0} /\ Shift \in 0 .. DayLength - 1 /\ MaxTime \in Nat \ {0}

\* A filing is of a company, has a form that is known, and of the words those that
\* are searched for.
ASSUME FilingsAssumption ==
    /\ IsFiniteSet(Companies) /\ IsFiniteSet(Documents)
    /\ \A d \in Documents : /\ Filing[d].company \in Companies
                            /\ Filing[d].form \in DOMAIN FormTypes
                            /\ Filing[d].words \subseteq DOMAIN Classifications

VARIABLES
    now,
    filed,     \* document -> when the provider began to list it, 0 if not yet
    item,      \* company -> the state of its portfolio item
    record,    \* <<document, identity>> -> the DisclosureRecord
    event,     \* event key -> the InformationEventRecord
    cursor,    \* provider -> last_successful_at of its cursor
    unread     \* history: companies a run moved the cursor past, not read in full

feedVars == <<now, filed, item, record, event, cursor, unread>>

Providers == {"OPENDART", "SEC_EDGAR"}
CompanyOf(d) == Filing[d].company
Of(p) == {c \in Companies : ProviderOf[c] = p}

\* OpenDART dates a filing, SEC EDGAR tells when it was accepted.
Published(d) ==
    IF ProviderOf[CompanyOf(d)] = "OPENDART"
    THEN DayLength * ((filed[d] + Shift) \div DayLength) ELSE filed[d]

Listed(c) == {d \in Documents : CompanyOf(d) = c /\ filed[d] # 0}

\* The identity of a record is the number of the filing when the address shows
\* it, and the address otherwise.
Identities == {"number", "address"}
Claims == {ClaimOf(Filing[d]) : d \in Documents} \cup {Noted}
Types == {EventType(Filing[d]) : d \in Documents} \cup {"OFFICIAL_DISCLOSURE"}
Texts == {<<"about", c, m>> : c \in Claims, m \in BOOLEAN} \cup {Noted, None}

DisclosureRecord ==
    [event : Companies \X Types \X Claims, published : Int, summary : Texts,
     material : BOOLEAN, lifecycle : Lifecycle, verification : Verification,
     corrects : (Documents \X Identities) \cup {None}]

-----------------------------------------------------------------------------
(* Which mappings a run reads.                                             *)

Statuses == {"HOLDING", "WATCHLIST", "REENTRY_WATCH"} \cup (IF IncludeSold THEN {"SOLD"} ELSE {})

Followed(i) ==
    /\ ~i.archived
    /\ \/ i.position = "HOLDING"
       \/ i.tracking \in {"REENTRY_WATCH", "WATCHLIST"}
       \/ i.holding \in Statuses
    /\ ~(i.position = "CLOSED" /\ i.tracking = "NONE")

Urgency(i) ==
    CASE i.position = "HOLDING" -> 0
      [] i.position # "HOLDING" /\ i.tracking = "REENTRY_WATCH" -> 1
      [] i.position # "HOLDING" /\ i.tracking = "WATCHLIST" -> 2
      [] OTHER -> CASE i.holding = "HOLDING" -> 3 [] i.holding = "REENTRY_WATCH" -> 4
                    [] i.holding = "WATCHLIST" -> 5 [] OTHER -> 99

Before(b, c) ==
    \/ Urgency(item[b]) < Urgency(item[c])
    \/ Urgency(item[b]) = Urgency(item[c]) /\ Rank[b] < Rank[c]

\* _eligible_mappings, of the companies a command may name: the first in order.
Mappings(p, named) ==
    LET followed == {c \in Of(p) \cap named : Followed(item[c])}
    IN  {c \in followed : Cardinality({b \in followed : Before(b, c)}) < MaxMappings}

Nth(mappings, n) ==
    CHOOSE c \in mappings : Cardinality({b \in mappings : Before(b, c)}) = n - 1

-----------------------------------------------------------------------------
(* What becomes of one filing.                                             *)

\* A run or a request works on books, its view of records and events.
Books == [record |-> record, event |-> event]

NewEvent(type, text, published) ==
    [claim |-> text.claim, summary |-> text.summary, type |-> type, lifecycle |-> "ACTIVE",
     verification |-> "OFFICIAL_CONFIRMED", material |-> FALSE, changed |-> 0,
     seen |-> published, sources |-> 0, official |-> 0, news |-> 0, origins |-> 0]

\* Defect: a filing that is read again gives its event a state, too.
RereadWithState(books, id, text) ==
    LET key == books.record[id].event
        old == books.event[key]
    IN  [books EXCEPT !.event[key] =
            [old EXCEPT !.claim = text.claim, !.lifecycle = "UPDATED",
                        !.summary = IF text.summary = None THEN @ ELSE text.summary,
                        !.material = @ \/ text.material]]

\* A filing that is known rewrites what its event says.
Reread(books, id, text) ==
    LET key == books.record[id].event
        old == books.event[key]
    IN  [books EXCEPT !.event[key] =
            [old EXCEPT !.claim = text.claim,
                        !.summary = IF text.summary = None THEN @ ELSE text.summary,
                        !.material = @ \/ text.material]]

\* Defect: the sources are counted when an event is made only.
EnterUncounted(books, id, text, corrects) ==
    LET d == id[1]
        key == IF corrects # None THEN books.record[corrects].event
               ELSE <<CompanyOf(d), text.type, text.claim>>
        known == key \in DOMAIN books.event
        old == IF known THEN books.event[key]
               ELSE [NewEvent(text.type, text, Published(d)) EXCEPT !.sources = 1]
        status == OfficialStatus(corrects # None, text.denied, known, text.material)
    IN  [books EXCEPT
          !.record = Put(@, id, [event |-> key, published |-> Published(d),
                                 summary |-> text.summary, material |-> status.material,
                                 lifecycle |-> status.lifecycle,
                                 verification |-> status.verification,
                                 corrects |-> corrects]),
          !.event = Put(@, key, [old EXCEPT
                        !.official = @ + 1,
                        !.seen = Max({@, Published(d)}), !.material = status.material,
                        !.lifecycle = status.lifecycle, !.verification = status.verification,
                        !.changed = IF status.material THEN Published(d) ELSE @,
                        !.summary = IF text.summary = None THEN @ ELSE text.summary])]

\* A filing that is new joins the event of the filing it corrects, or the event
\* with its key, or makes one.
Enter(books, id, text, corrects) ==
    LET d == id[1]
        key == IF corrects # None THEN books.record[corrects].event
               ELSE <<CompanyOf(d), text.type, text.claim>>
        known == key \in DOMAIN books.event
        old == IF known THEN books.event[key] ELSE NewEvent(text.type, text, Published(d))
        status == OfficialStatus(corrects # None, text.denied, known, text.material)
    IN  [books EXCEPT
          !.record = Put(@, id, [event |-> key, published |-> Published(d),
                                 summary |-> text.summary, material |-> status.material,
                                 lifecycle |-> status.lifecycle,
                                 verification |-> status.verification,
                                 corrects |-> corrects]),
          !.event = Put(@, key, [old EXCEPT
                        !.sources = @ + 1, !.official = @ + 1,
                        !.seen = Max({@, Published(d)}), !.material = status.material,
                        !.lifecycle = status.lifecycle, !.verification = status.verification,
                        !.changed = IF status.material THEN Published(d) ELSE @,
                        !.summary = IF text.summary = None THEN @ ELSE text.summary])]

Ingest(books, id, text, corrects) ==
    IF id \in DOMAIN books.record THEN Reread(books, id, text)
    ELSE Enter(books, id, text, corrects)

\* _correction_target: the latest filing of the same form that is no amendment
\* itself; OpenDART tells no form, so its corrections find none.
Target(books, d) ==
    LET f == Filing[d]
        same == {r \in DOMAIN books.record :
                   /\ CompanyOf(r[1]) = f.company
                   /\ Filing[r[1]].form = f.form /\ ~Filing[r[1]].amended}
    IN  IF ~f.amended \/ f.form = "none" \/ same = {} THEN None
        ELSE CHOOSE r \in same : \A q \in same :
                books.record[q].published <= books.record[r].published

\* One filing of a run.
Take(books, d) ==
    Ingest(books, <<d, "number">>, Metadata(Filing[d]), Target(books, d))

\* The members of a list, the newest first.
NewestFirst(list, time) ==
    CHOOSE order \in [1 .. Cardinality(list) -> list] :
        \A m, n \in 1 .. Cardinality(list) :
            m < n => order[m] # order[n] /\ time[order[m]] >= time[order[n]]

\* The filings of an answer, one after the other.
TakeAll(books, docs) ==
    LET order == NewestFirst(docs, filed)
        after[n \in 0 .. Cardinality(docs)] ==
            IF n = 0 THEN books ELSE Take(after[n - 1], order[n])
    IN  after[Cardinality(docs)]

-----------------------------------------------------------------------------
(* One run of a provider.                                                  *)

\* fetch_disclosures of OpenDART: what is dated on the days of the window.
Dated(c, start) ==
    {d \in Listed(c) : Published(d) \div DayLength
                          \in (start \div DayLength) .. (now \div DayLength)}

\* fetch_submissions of SEC EDGAR: the forms that matter, of any age.
Submissions(c) == Listed(c)

\* Of either, the newest.
Answer(c, start, n) ==
    LET all == IF ProviderOf[c] = "SEC_EDGAR" THEN Submissions(c) ELSE Dated(c, start)
    IN  {d \in all : Cardinality({e \in all : filed[e] > filed[d]}) < n}

InWindow(d, start) == start <= Published(d) /\ Published(d) <= now

\* One mapping of a run that is in the middle of its work.
Read(run, c, start, limit, failing) ==
    LET answer == Answer(c, start, Min({MappingLimit, limit - run.fetched}))
        taken == {d \in answer : InWindow(d, start)}
        whole == \A d \in Listed(c) : InWindow(d, start) => d \in answer
    IN  IF run.fetched >= limit \/ c \in failing THEN run
        ELSE [run EXCEPT !.books = TakeAll(@, taken), !.fetched = @ + Cardinality(taken),
                         !.read = TRUE, !.whole = @ \cup (IF whole THEN {c} ELSE {})]

\* The mappings in their order.
Run(p, start, limit, named, failing) ==
    LET mappings == Mappings(p, named)
        after[n \in 0 .. Cardinality(mappings)] ==
            IF n = 0 THEN [books |-> Books, fetched |-> 0, read |-> FALSE, whole |-> {}]
            ELSE Read(after[n - 1], Nth(mappings, n), start, limit, failing)
    IN  after[Cardinality(mappings)]

\* Defect: no overlap with the time before the cursor.
StartAtCursor(p, since) ==
    IF since # None THEN since ELSE IF cursor[p] = None THEN 0 ELSE cursor[p]

\* A run begins a day before the cursor; the first one goes back 30 days, which
\* is before the first tick.
Start(p, since) ==
    IF since # None THEN since
    ELSE IF cursor[p] = None THEN 0 ELSE cursor[p] - DayLength

\* sync: also for a run of one company or from a given time the cursor moves as
\* soon as one mapping was read.  Without mappings the run leaves no trace.  The
\* counters of the run and of the provider are left out.
Sync(p, since, limit, named, failing) ==
    LET run == Run(p, Start(p, since), limit, named, failing) IN
    /\ Mappings(p, named) # {}
    /\ record' = run.books.record
    /\ event' = run.books.event
    /\ cursor' = [cursor EXCEPT ![p] = IF run.read THEN now ELSE @]
    /\ unread' = IF ~run.read THEN unread
                 ELSE unread \cup (Of(p) \ (IF since = None THEN run.whole ELSE {}))
    /\ UNCHANGED <<now, filed, item>>

-----------------------------------------------------------------------------
(* The other requests, and the world.                                      *)

\* preview_import: a duplicate is refused.
Importable(d, identity) ==
    filed[d] # 0 /\ <<d, identity>> \notin DOMAIN record /\ ~item[CompanyOf(d)].archived

\* POST /disclosures/import-link of a filing that is listed, by an address that
\* shows its number or by another one.
Import(d, identity, material, summary) ==
    /\ Importable(d, identity)
    /\ LET text == [type |-> "OFFICIAL_DISCLOSURE", claim |-> Noted, summary |-> summary,
                    denied |-> FALSE, material |-> material]
           books == Ingest(Books, <<d, identity>>, text, None)
       IN  record' = books.record /\ event' = books.event
    /\ UNCHANGED <<now, filed, item, cursor, unread>>

\* What reprocess_existing plans for an event: the text of its latest record (of
\* two that OpenDART dates alike, of either), and what any of its records makes
\* material.  A denial is read from the title again, a correction is not.
Replanned(key) ==
    LET own == {r \in DOMAIN record : record[r].event = key}
        latest == CHOOSE r \in own : \A q \in own : record[q].published <= record[r].published
        text == Metadata(Filing[latest[1]])
    IN  [event[key] EXCEPT
            !.claim = text.claim, !.summary = text.summary, !.type = text.type,
            !.material = \E r \in own : Metadata(Filing[r[1]]).material]

Reprocess ==
    /\ record # <<>>
    /\ record' = [r \in DOMAIN record |->
                    [record[r] EXCEPT !.summary = Metadata(Filing[r[1]]).summary,
                                      !.material = Metadata(Filing[r[1]]).material]]
    /\ event' = [key \in DOMAIN event |->
                    IF \E r \in DOMAIN record : record[r].event = key
                    THEN Replanned(key) ELSE event[key]]
    /\ UNCHANGED <<now, filed, item, cursor, unread>>

\* The provider lists a filing; those of a company are listed one by one.
File(d) ==
    /\ filed[d] = 0
    /\ \A e \in Listed(CompanyOf(d)) : filed[e] # now
    /\ filed' = [filed EXCEPT ![d] = now]
    /\ UNCHANGED <<now, item, record, event, cursor, unread>>

\* A request on the portfolio changes the item of a company.
Relist(c, state) ==
    /\ item' = [item EXCEPT ![c] = state]
    /\ UNCHANGED <<now, filed, record, event, cursor, unread>>

Pass ==
    /\ now < MaxTime /\ now' = now + 1
    /\ UNCHANGED <<filed, item, record, event, cursor, unread>>

-----------------------------------------------------------------------------
FeedInit ==
    /\ now = 1
    /\ filed = [d \in Documents |-> 0]
    /\ item \in [Companies -> ItemStates]
    /\ record = <<>> /\ event = <<>>
    /\ cursor = [p \in Providers |-> None]
    /\ unread = {}

\* The commands sync-disclosures, which names one company or none, and
\* process-disclosure-events.
FeedCommand ==
    \/ \E p \in Providers, since \in {None, now}, limit \in Limits,
          named \in {Companies} \cup {{c} : c \in Companies}, failing \in SUBSET Companies :
            failing \subseteq Of(p) \cap named /\ Sync(p, since, limit, named, failing)
    \/ Reprocess

FeedRequest ==
    \E d \in Documents, identity \in Identities, material \in BOOLEAN,
       summary \in {Noted, None} : Import(d, identity, material, summary)

FeedNext ==
    \/ FeedCommand
    \/ FeedRequest
    \/ \E d \in Documents : File(d)
    \/ \E c \in Companies, state \in ItemStates : Relist(c, state)
    \/ Pass
=============================================================================
