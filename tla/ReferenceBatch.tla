--------------------------- MODULE ReferenceBatch ---------------------------
(***************************************************************************)
(* One batch of a subscription: scripts/reference_subscription_batch_apply *)
(* with services/reference_batch_ingest.py, reference_sync.py and          *)
(* reference_freshness*.py.  It loads the subscription and its source,     *)
(* fetches the index of the source, and writes all it has to write in one  *)
(* transaction at the end; requests on the subscription and the source,    *)
(* imports, promotions and the index itself go on in between.              *)
(***************************************************************************)
EXTENDS SourceRegistry

CONSTANTS
    Items,
    Entry,          \* item -> [source, date, dated, phrases, address]; dates are days, phrases
                   \* the terms that its author or its text contains
    Order,         \* item -> its place by number in the index
    CreationLimit, \* --limit
    CurrentAge, AgingAge,   \* 30 and 90 days
    MaxDay         \* bound: the last day

\* A source numbers its items.
ASSUME BatchAssumption ==
    /\ Nothing \notin SubscriptionIds
    /\ CreationLimit \in Nat /\ MaxDay \in Nat
    /\ \A i \in Items : Entry[i].date \in Nat /\ Order[i] \in Int
    /\ \A i, j \in Items : Entry[i].source = Entry[j].source /\ Order[i] = Order[j] => i = j

VARIABLES
    day,
    index,         \* the items the sources list
    staged,        \* items without a date, as candidates of their subscription
    reference,     \* item -> AnalystReferenceRecord
    batch,         \* what the batch at work has loaded and fetched, or Nothing
    excused        \* history: items listed late, left by a full batch, or asked for late

batchVars == <<day, index, staged, reference, batch, excused>>

Freshness == {"CURRENT", "AGING", "STALE", "UNKNOWN"}

ReferenceRecord ==
    [subscription : SubscriptionIds \cup {Nothing}, published : 1 .. MaxDay,
     freshness : Freshness]

\* calculate_reference_freshness.
FreshnessOf(published) ==
    IF published > day THEN "UNKNOWN"
    ELSE IF day - published <= CurrentAge THEN "CURRENT"
    ELSE IF day - published <= AgingAge THEN "AGING" ELSE "STALE"

\* Links that a user imports have no subscription; the others are AUTOMATIC.
AutomaticOf(ref, u) == {i \in DOMAIN ref : ref[i].subscription = u}

\* refresh_automatic_reference_freshness.
Refreshed(u) ==
    [i \in DOMAIN reference |->
        IF i \in AutomaticOf(reference, u)
        THEN [reference[i] EXCEPT !.freshness = FreshnessOf(reference[i].published)]
        ELSE reference[i]]

\* Defect: the newest reference of any kind is where a batch begins.
CutoffOfAll(u) ==
    LET dates == {reference[i].published : i \in DOMAIN reference} IN
    IF dates = {} THEN 0 ELSE Max(dates)

\* _existing_automatic_cutoff.
Cutoff(u) ==
    LET dates == {reference[i].published : i \in AutomaticOf(reference, u)} IN
    IF dates = {} THEN 0 ELSE Max(dates)

\* _duplicate: the number of an item and its fingerprint go with its address.
Duplicate(ref, i) == \E q \in DOMAIN ref : Entry[q].address = Entry[i].address

\* partition_reference_candidates.
DateVerified(i) == Entry[i].dated

\* reference_item_matches of a subscription that is enabled.
Matches(row, i) ==
    \/ row.mode = "ALL_SOURCE"
    \/ row.mode # "ALL_SOURCE" /\ row.terms \cap Entry[i].phrases[row.mode] # {}

\* The items that a batch may store.  The subscription is the row as it was loaded
\* before the fetch, active and of an open source.
Backlog(b) ==
    {i \in b.fetched :
        DateVerified(i) /\ Matches(b.view, i) /\ Entry[i].date >= Cutoff(b.subscription)}

Newer(i, j) ==
    \/ Entry[i].date > Entry[j].date
    \/ Entry[i].date = Entry[j].date /\ Order[i] > Order[j]

\* ingest() of one item; duplicates do not count against the limit.
Ingest(i, u, state) ==
    IF state.created >= CreationLimit \/ Duplicate(state.ref, i) THEN state
    ELSE [ref |-> Put(state.ref, i, [subscription |-> u, published |-> Entry[i].date,
                                      freshness |-> FreshnessOf(Entry[i].date)]),
          created |-> state.created + 1]

\* ingest_reference_candidates: the newest items first.
Ingested(b) ==
    LET todo == Backlog(b)
        nth(n) == CHOOSE i \in todo : Cardinality({j \in todo : Newer(j, i)}) = n - 1
        state[n \in 0 .. Cardinality(todo)] ==
            IF n = 0 THEN [ref |-> Refreshed(b.subscription), created |-> 0]
            ELSE Ingest(nth(n), b.subscription, state[n - 1])
    IN  state[Cardinality(todo)]

\* The items that a subscription asks for now and did not before, when newer ones
\* already have a reference of it.
AskedLate(ref, u, old, new) ==
    {i \in index : Matches(new, i) /\ ~Matches(old, i)
                   /\ \E q \in AutomaticOf(ref, u) : Entry[i].date < ref[q].published}

-----------------------------------------------------------------------------
\* The batch loads what it works for and fetches the index.  It fails when the
\* source is not open, and ends at once when the subscription is paused.
BeginBatch(u) ==
    /\ batch = Nothing
    /\ Open(subscription[u].source) /\ subscription[u].enabled
    /\ batch' = [subscription |-> u, view |-> subscription[u],
                 fetched |-> {i \in index : Entry[i].source = subscription[u].source}]
    /\ UNCHANGED <<day, index, staged, reference, excused>>

FinishBatch ==
    /\ batch # Nothing
    /\ LET done == Ingested(batch) IN
       /\ reference' = done.ref
       /\ excused' = excused
             \cup (IF done.created < CreationLimit THEN {} ELSE batch.fetched \ DOMAIN done.ref)
             \cup AskedLate(done.ref, batch.subscription, batch.view,
                            subscription[batch.subscription])
    /\ staged' = staged \cup {i \in batch.fetched : ~DateVerified(i)}
    /\ batch' = Nothing
    /\ UNCHANGED <<day, index>>

\* The fetch fails, a check fails, the process dies: all is rolled back.
AbandonBatch ==
    /\ batch # Nothing /\ batch' = Nothing
    /\ UNCHANGED <<day, index, staged, reference, excused>>

\* A user promotes a candidate with the date that the user has found.
PromoteItem(i, u, published) ==
    /\ i \in staged /\ ~Duplicate(reference, i) /\ published <= day
    /\ subscription[u].source = Entry[i].source
    /\ reference' = Put(reference, i, [subscription |-> u, published |-> published,
                                       freshness |-> FreshnessOf(published)])
    /\ excused' = excused \cup {j \in Items : Entry[j].date < published}
    /\ UNCHANGED <<day, index, staged, batch>>

\* A user imports the link of an item.
ImportItem(i, published) ==
    /\ i \in index /\ ~Duplicate(reference, i) /\ published <= day
    /\ reference' = Put(reference, i, [subscription |-> Nothing, published |-> published,
                                       freshness |-> FreshnessOf(published)])
    /\ UNCHANGED <<day, index, staged, batch, excused>>

\* A source lists an item, in the order of their dates or later.
ListItem(i) ==
    /\ i \notin index /\ Entry[i].date <= day
    /\ index' = index \cup {i}
    /\ excused' = IF \E j \in index : Entry[j].date > Entry[i].date THEN excused \cup {i}
                  ELSE excused
    /\ UNCHANGED <<day, staged, reference, batch>>

\* A request on a subscription changes what the next batches look for; they do not go
\* back for an item that it adds and that is older than the newest reference.
Widen ==
    /\ excused' = excused \cup
          UNION {AskedLate(reference, u, subscription[u], subscription'[u]) :
                 u \in DOMAIN subscription}
    /\ UNCHANGED <<day, index, staged, reference, batch>>

NextDay ==
    /\ day < MaxDay /\ day' = day + 1
    /\ UNCHANGED <<index, staged, reference, batch, excused>>

-----------------------------------------------------------------------------
BatchInit ==
    /\ day = 1 /\ index = {} /\ staged = {} /\ reference = <<>>
    /\ batch = Nothing /\ excused = {}

BatchNext ==
    \/ \E u \in DOMAIN subscription : BeginBatch(u)
    \/ FinishBatch
    \/ AbandonBatch
    \/ \E i \in Items, u \in DOMAIN subscription, published \in 1 .. MaxDay :
          PromoteItem(i, u, published)
    \/ \E i \in Items, published \in 1 .. MaxDay : ImportItem(i, published)
    \/ \E i \in Items : ListItem(i)
    \/ NextDay

\* Batches, and the requests on subscriptions and sources beside them.
BatchSpec ==
    /\ RegistryInit /\ BatchInit
    /\ [][\/ RegistryNext /\ Widen
          \/ BatchNext /\ UNCHANGED registryVars]_<<registryVars, batchVars>>

-----------------------------------------------------------------------------
BatchTypeOK ==
    /\ day \in 1 .. MaxDay
    /\ index \subseteq Items /\ staged \subseteq index /\ excused \subseteq Items
    /\ DOMAIN reference \subseteq index
    /\ \A i \in DOMAIN reference : reference[i] \in ReferenceRecord
    /\ batch # Nothing => batch.fetched \subseteq index /\ batch.view \in SubscriptionRecord

\* What a subscription stands for is not left behind: an item of its source that
\* it asks for by now, that the index has listed in the order of the dates, that no
\* user has overtaken with a later date and no batch has left because it was full, is
\* stored or will be by the next batch, although a batch looks at nothing older
\* than its newest reference, and although it was paused in the meantime.  Not
\* promised is what a change of the terms asks for when newer items have a reference
\* already, or get one by a batch that began with the terms of before.
NothingLeftBehind ==
    \A u \in DOMAIN subscription, i \in index \ excused :
        Entry[i].source = subscription[u].source /\ Entry[i].dated /\ Matches(subscription[u], i)
        => Duplicate(reference, i) \/ Entry[i].date >= Cutoff(u)
=============================================================================
