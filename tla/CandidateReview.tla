--------------------------- MODULE CandidateReview ---------------------------
(***************************************************************************)
(* The review of discovered reference candidates and the two other writers *)
(* of references, as concurrent database transactions:                     *)
(*   - verify_date, promote and dismiss of                                 *)
(*     server/app/services/reference_discovery_candidate_review.py;        *)
(*   - the batch of reference_subscription_batch_apply.py, which stages    *)
(*     undated items and ingests dated ones;                               *)
(*   - the import of a link by the user.                                   *)
(*                                                                         *)
(* A review is read, swapped, perhaps ingested, and committed; what it     *)
(* wrote is seen by others only then.  The database is PostgreSQL, with    *)
(* row locks, or SQLite, with one writer; batches run on SQLite only.      *)
(***************************************************************************)
EXTENDS Integers, FiniteSets, Sequences

CONSTANTS
    Requests,        \* the review requests under way
    Items,           \* provider_item_id of the items of one source: numbers
    Urls,            \* canonical addresses
    Dates,           \* publication dates: numbers
    Undated,         \* an entry of an index page without a date
    None,            \* no reference
    Listings,        \* what the index page may list: sets of entries
    CreationLimit    \* creation_limit of a batch

Entry == [item : Items, url : Urls, date : Dates \cup {Undated}]

ASSUME ReviewAssumption ==
    /\ Items \subseteq Nat /\ Dates \subseteq Nat /\ Dates # {}
    /\ Undated \notin Dates /\ None \notin Urls /\ None \notin Items
    /\ Listings \subseteq SUBSET Entry /\ \A listing \in Listings : IsFiniteSet(listing)
    /\ CreationLimit \in Nat \ {0}

VARIABLES
    candidate,   \* the committed row of each item
    history,     \* the committed review history of each item
    references,  \* the committed references
    enabled,     \* whether the subscription and its source are enabled
    request,     \* the transaction of each review request
    batch,       \* what the running batch has fetched, or None
    oneWriter    \* whether the database is SQLite

vars == <<candidate, history, references, enabled, request, batch, oneWriter>>

Status == {"ABSENT", "DATE_UNVERIFIED", "DATE_VERIFIED", "PROMOTED", "DISMISSED"}
Action == {"VERIFY_DATE", "PROMOTE", "DISMISS"}
Candidate == [status : Status, date : Dates \cup {Undated}, url : Urls \cup {None},
              reference : Urls \cup {None}]
Review == [action : Action, previous : Status, new : Status, reference : Urls \cup {None}]
\* No rule reads the date of a reference that the user imported.
Reference == [url : Urls, item : Items, date : Dates, by : {"batch", "review"}]
             \cup [url : Urls, item : {None}, date : {Undated}, by : {"user"}]

Idle == [at |-> "idle"]
Transaction ==
    [at : {"read", "swapped", "looked", "written"}, action : Action, item : Items,
     from : Status, url : Urls \cup {None}, date : Dates \cup {Undated}, active : BOOLEAN,
     reference : Urls \cup {None}, made : SUBSET Reference]

TypeOK ==
    /\ candidate \in [Items -> Candidate]
    /\ history \in [Items -> Seq(Review)]
    /\ references \subseteq Reference
    /\ enabled \in BOOLEAN
    /\ request \in [Requests -> Transaction \cup {Idle}]
    /\ batch \in (SUBSET Entry) \cup {None}
    /\ oneWriter \in BOOLEAN

-----------------------------------------------------------------------------
(* Locks.                                                                  *)

Writes(r) == request[r].at \in {"swapped", "looked", "written"}

\* The row of item i, or the only write lock, is not held by another.
MayWrite(i, r) ==
    \A s \in Requests \ {r} : Writes(s) => ~oneWriter /\ request[s].item # i

\* No review holds the write lock of SQLite.
NoWriter == oneWriter => \A s \in Requests : ~Writes(s)

\* A unique index makes an insertion wait for another of the same address.
MayInsert(u, r) ==
    \A s \in Requests \ {r} : Writes(s) => \A made \in request[s].made : made.url # u

-----------------------------------------------------------------------------
(* References.                                                             *)

\* _duplicate: by provider item, else by address.
SameItem(refs, i) == {ref \in refs : ref.item = i}
SameUrl(refs, u) == {ref \in refs : ref.url = u}
Duplicate(refs, i, u) ==
    IF SameItem(refs, i) # {} THEN SameItem(refs, i) ELSE SameUrl(refs, u)

\* The unique constraints of the table.
Unique(refs) ==
    \A a, b \in refs : a # b => a.url # b.url /\ (a.item = b.item => a.item = None)

-----------------------------------------------------------------------------
(* Review requests.                                                        *)

Expected(action) ==
    CASE action = "VERIFY_DATE" -> {"DATE_UNVERIFIED"}
      [] action = "PROMOTE" -> {"DATE_VERIFIED"}
      [] action = "DISMISS" -> {"DATE_UNVERIFIED", "DATE_VERIFIED"}

Outcome(action) ==
    CASE action = "VERIFY_DATE" -> "DATE_VERIFIED"
      [] action = "PROMOTE" -> "PROMOTED"
      [] action = "DISMISS" -> "DISMISSED"

Set(r, transaction) ==
    /\ request' = [request EXCEPT ![r] = transaction]
    /\ UNCHANGED <<enabled, batch, oneWriter>>

\* Defect: any status that is not final may be promoted.
ReadAnyStatus(r, action, i, date) ==
    LET row == candidate[i] IN
    /\ request[r] = Idle
    /\ row.status \in {"DATE_UNVERIFIED", "DATE_VERIFIED"}
    /\ date = row.date
    /\ Set(r, [at |-> "read", action |-> action, item |-> i, from |-> row.status, date |-> date,
               url |-> row.url, active |-> TRUE, reference |-> None, made |-> {}])
    /\ UNCHANGED <<candidate, history, references>>

\* The request reads the candidate and its subscription, and keeps what it
\* will use: the status, and for a promotion the address, the date and whether
\* the subscription is enabled.  Another status ends it here.
Read(r, action, i, date) ==
    LET row == candidate[i] IN
    /\ request[r] = Idle
    /\ row.status \in Expected(action)
    /\ date \in CASE action = "VERIFY_DATE" -> Dates
                  [] action = "PROMOTE" -> {row.date} \ {Undated}
                  [] action = "DISMISS" -> {Undated}
    /\ Set(r, [at |-> "read", action |-> action, item |-> i, from |-> row.status, date |-> date,
               url |-> IF action = "PROMOTE" THEN row.url ELSE None,
               active |-> action = "PROMOTE" => enabled,
               reference |-> None, made |-> {}])
    /\ UNCHANGED <<candidate, history, references>>

\* Defect: the update does not compare the status.
SwapAny(r) ==
    LET t == request[r] IN
    /\ t.at = "read"
    /\ MayWrite(t.item, r)
    /\ Set(r, [t EXCEPT !.at = IF t.action = "PROMOTE" THEN "swapped" ELSE "written"])
    /\ UNCHANGED <<candidate, history, references>>

\* compare_and_swap_status waits for the row, then updates it if its status is
\* still the one that was read; else the request ends with a conflict.
Swap(r) ==
    LET t == request[r] IN
    /\ t.at = "read"
    /\ MayWrite(t.item, r)
    /\ Set(r, IF candidate[t.item].status # t.from THEN Idle
              ELSE [t EXCEPT !.at = IF t.action = "PROMOTE" THEN "swapped" ELSE "written"])
    /\ UNCHANGED <<candidate, history, references>>

\* ingest(): a disabled subscription blocks the promotion, a duplicate is what
\* the candidate is promoted to.
Lookup(r) ==
    LET t == request[r]
        found == Duplicate(references, t.item, t.url)
    IN  /\ t.at = "swapped"
        /\ \/ ~t.active /\ Set(r, Idle)
           \/ /\ t.active /\ found # {}
              /\ \E ref \in found :
                    Set(r, [t EXCEPT !.at = "written", !.reference = ref.url])
           \/ /\ t.active /\ found = {}
              /\ Set(r, [t EXCEPT !.at = "looked"])
        /\ UNCHANGED <<candidate, history, references>>

\* Defect: the reference is committed as soon as it is flushed.
InsertCommitted(r) ==
    LET t == request[r]
        ref == [url |-> t.url, item |-> t.item, date |-> t.date, by |-> "review"]
    IN  /\ t.at = "looked"
        /\ MayInsert(ref.url, r) /\ Unique(references \cup {ref})
        /\ Set(r, [t EXCEPT !.at = "written", !.reference = ref.url])
        /\ references' = references \cup {ref}
        /\ UNCHANGED <<candidate, history>>

\* The new reference; a unique constraint that fails ends the request.
Insert(r) ==
    LET t == request[r]
        ref == [url |-> t.url, item |-> t.item, date |-> t.date, by |-> "review"]
    IN  /\ t.at = "looked"
        /\ MayInsert(ref.url, r)
        /\ Set(r, IF Unique(references \cup {ref})
                  THEN [t EXCEPT !.at = "written", !.reference = ref.url, !.made = {ref}]
                  ELSE Idle)
        /\ UNCHANGED <<candidate, history, references>>

\* The row after the review: only verify_date sets published_at.
Reviewed(t) ==
    [candidate EXCEPT
        ![t.item].status = Outcome(t.action),
        ![t.item].date = IF t.action = "VERIFY_DATE" THEN t.date ELSE @,
        ![t.item].reference = t.reference]

\* The candidate, its history and the reference are committed together.
Commit(r) ==
    LET t == request[r] IN
    /\ t.at = "written"
    /\ candidate' = Reviewed(t)
    /\ history' = [history EXCEPT ![t.item] = Append(@,
                     [action |-> t.action, previous |-> t.from,
                      new |-> Outcome(t.action), reference |-> t.reference])]
    /\ references' = references \cup t.made
    /\ Set(r, Idle)

\* A connection that is lost, a lock that is not granted in time, a write that
\* fails: the transaction is rolled back.
Rollback(r) ==
    /\ request[r] # Idle
    /\ Set(r, Idle)
    /\ UNCHANGED <<candidate, history, references>>

-----------------------------------------------------------------------------
(* The batch, and the user.                                                *)

\* The batch checks the subscription, then waits for the index page.
Fetch(listing) ==
    /\ oneWriter /\ enabled /\ batch = None
    /\ batch' = listing
    /\ UNCHANGED <<candidate, history, references, enabled, request, oneWriter>>

EntryOf(entries, i) == CHOOSE e \in entries : e.item = i
Listed(entries) == {e.item : e \in entries}

\* Defect: staging writes every column of a row it finds again.
StagedAnew(undated, rows) ==
    [i \in Items |->
        IF i \notin Listed(undated) THEN rows[i]
        ELSE [rows[i] EXCEPT
                 !.status = IF @ = "ABSENT" THEN "DATE_UNVERIFIED" ELSE @,
                 !.date = Undated,
                 !.url = EntryOf(undated, i).url]]

\* stage_unverified_reference_candidates: a new row, or the descriptive columns
\* of the one there is.
Staged(undated, rows) ==
    [i \in Items |->
        IF i \notin Listed(undated) THEN rows[i]
        ELSE [rows[i] EXCEPT
                 !.status = IF @ = "ABSENT" THEN "DATE_UNVERIFIED" ELSE @,
                 !.url = EntryOf(undated, i).url]]

\* The entries not older than the newest reference that was ingested.
Eligible(dated) ==
    {e \in dated : \A ref \in references : ref.by # "user" => e.date >= ref.date}

Newer(d, e) == d.date > e.date \/ (d.date = e.date /\ d.item > e.item)
RefOf(e) == [url |-> e.url, item |-> e.item, date |-> e.date, by |-> "batch"]

\* Defect: duplicates are looked up among the committed references only.
IngestBlind(e, accepted) ==
    IF Cardinality(accepted) < CreationLimit /\ Duplicate(references, e.item, e.url) = {}
    THEN accepted \cup {e} ELSE accepted

\* ingest() of one entry, after those that were accepted.
Ingest(e, accepted) ==
    LET known == references \cup {RefOf(d) : d \in accepted}
    IN  IF Cardinality(accepted) < CreationLimit /\ Duplicate(known, e.item, e.url) = {}
        THEN accepted \cup {e} ELSE accepted

\* ingest_reference_candidates: the newest entries first.
Accepted(entries) ==
    LET nth(n) == CHOOSE e \in entries : Cardinality({d \in entries : Newer(d, e)}) = n - 1
        accepted[n \in 0 .. Cardinality(entries)] ==
            IF n = 0 THEN {} ELSE Ingest(nth(n), accepted[n - 1])
    IN  accepted[Cardinality(entries)]

Ingested(dated) == {RefOf(e) : e \in Eligible(dated) \cap Accepted(Eligible(dated))}

\* The batch stages, ingests and commits; it holds the write lock meanwhile.
RunBatch ==
    /\ batch # None
    /\ NoWriter
    /\ candidate' = Staged({e \in batch : e.date = Undated}, candidate)
    /\ references' = references \cup Ingested({e \in batch : e.date # Undated})
    /\ batch' = None
    /\ UNCHANGED <<history, enabled, request, oneWriter>>

BatchFails ==
    /\ batch # None
    /\ batch' = None
    /\ UNCHANGED <<candidate, history, references, enabled, request, oneWriter>>

\* AnalystReferenceImportLinkService.confirm, for an address that no reference
\* has and no review is about to insert.
ImportLink(u) ==
    /\ NoWriter
    /\ SameUrl(references, u) = {}
    /\ \A s \in Requests : Writes(s) => \A made \in request[s].made : made.url # u
    /\ references' = references \cup {[url |-> u, item |-> None, date |-> Undated, by |-> "user"]}
    /\ UNCHANGED <<candidate, history, enabled, request, batch, oneWriter>>

\* The user disables or enables the subscription.
SetEnabled ==
    /\ NoWriter
    /\ enabled' = ~enabled
    /\ UNCHANGED <<candidate, history, references, request, batch, oneWriter>>

-----------------------------------------------------------------------------
NoRow == [status |-> "ABSENT", date |-> Undated, url |-> None, reference |-> None]

\* An earlier batch has staged what the index page listed then.
Init ==
    /\ \E listing \in Listings :
          candidate = Staged({e \in listing : e.date = Undated}, [i \in Items |-> NoRow])
    /\ history = [i \in Items |-> <<>>]
    /\ references = {}
    /\ enabled = TRUE
    /\ request = [r \in Requests |-> Idle]
    /\ batch = None
    /\ oneWriter \in BOOLEAN

Next ==
    \/ \E r \in Requests :
          \/ \E action \in Action, i \in Items, date \in Dates \cup {Undated} :
                Read(r, action, i, date)
          \/ Swap(r) \/ Lookup(r) \/ Insert(r) \/ Commit(r) \/ Rollback(r)
    \/ \E listing \in Listings : Fetch(listing)
    \/ RunBatch \/ BatchFails
    \/ \E u \in Urls : ImportLink(u)
    \/ SetEnabled

Spec == Init /\ [][Next]_vars

-----------------------------------------------------------------------------
(* What a review relies on.                                                *)

\* No two references share an address or a provider item, although a batch
\* looks each entry up before it has written the others.
ReferencesUnique == Unique(references)

\* The history of a candidate leads, step by step, from the status it was
\* staged with to the status and the reference it has: of the reviews that
\* overlap one wins, and it leaves one record.
HistoryExplains ==
    \A i \in Items :
        LET trail == history[i]
            reached(n) == IF n = 0 THEN "DATE_UNVERIFIED" ELSE trail[n].new
        IN  /\ \A n \in DOMAIN trail : trail[n].previous = reached(n - 1)
            /\ candidate[i].status # "ABSENT" => candidate[i].status = reached(Len(trail))
            /\ trail # <<>> => candidate[i].reference = trail[Len(trail)].reference

\* A promotion is whole: a candidate is promoted if and only if it points to a
\* reference that exists, and a reference made by a review belongs to a
\* promoted candidate and has the date that was verified.
PromotionIsWhole ==
    /\ \A i \in Items :
          IF candidate[i].status = "PROMOTED"
          THEN SameUrl(references, candidate[i].reference) # {}
          ELSE candidate[i].reference = None
    /\ \A ref \in references : ref.by = "review" =>
          /\ candidate[ref.item].status = "PROMOTED"
          /\ candidate[ref.item].reference = ref.url
          /\ candidate[ref.item].date = ref.date

\* A date that was verified stays, also when a batch lists the item again
\* without one, and so does a final decision.
DecisionsStay ==
    [][\A i \in Items :
          /\ candidate[i].date # Undated => candidate'[i].date = candidate[i].date
          /\ candidate[i].status \in {"PROMOTED", "DISMISSED"} =>
                candidate'[i].status = candidate[i].status
                /\ candidate'[i].reference = candidate[i].reference]_vars

\* What is committed is a behaviour of the desk: every decision is taken on the
\* status of its moment.
Desk == INSTANCE ReviewDesk WITH
    status <- [i \in Items |-> candidate[i].status],
    reference <- [i \in Items |-> candidate[i].reference],
    library <- {ref.url : ref \in references}

DeskSpec == Desk!Spec
=============================================================================
