# Investment AI Radar: models, checks and proofs

Investment AI Radar is an information service for one investor. A FastAPI
server (`server/app`) keeps portfolio items with a ledger of trades, collects
news, disclosures and references of analysts, and makes briefings; a Next.js
client (`web/src`) shows them; PowerShell scripts and the Windows task scheduler
start the periodic work (`scripts`, `server/scripts`). The data is in
PostgreSQL; the reference batch, its scheduler and the tests use SQLite.

This directory holds TLA+ models of the parts where the order of events
decides whether the data stays right, TLC runs that check them on small
instances, and TLAPS proofs for all instances. Source paths below are relative
to the repository; `app/` stands for `server/app/`.

## 1. Inventory

| Part | State it keeps | Operations | What is hard | What makes it correct | Modules |
|---|---|---|---|---|---|
| Position ledger (`app/services/transactions.py`, routes of `app/api/portfolio.py`) | rows of `position_transactions` with derived columns, sale rows kept in step | buy, sell, correct, void, import a history; a replay recomputes every derived column | each request rewrites rows of earlier requests; unflushed columns; rounding; idempotency keys | the rows are one chain, quantity is conserved, averages are within the prices, sale rows equal their sells, nothing of the audit trail is lost | `LedgerReplay`, `PositionRules`, `PositionLedger` |
| Portfolio items (`app/services/portfolio.py`) | quantity, average, three statuses, archive flag | create, edit, context, archive, restore | the same columns are written by the ledger | an item shown as held can be valued; a trade sets what the item shows | `PositionRules`, `PositionLedger` |
| Overlapping portfolio requests (`app/database.py`, the routes above) | sessions, row locks, copies of rows | every request above, in its own transaction | stale copies, lock order, retries, lost connections | the ledger stays a replay of itself, one row per key, every request ends | `LedgerConcurrency` |
| Legacy sales and the migration to the ledger (`app/services/sales.py`, `alembic/versions/20260726_0008_position_ledger.py`) | sale rows with snapshots; the ledger made of them | sell, supplement, amend, void; upgrade, downgrade | sales that were checked one by one become rows that are checked together | what the migration makes replays, and shows what the item showed | `LedgerMigration` |
| Reference scheduler (`app/services/reference_scheduler.py`, `reference_scheduler_runner.py`) | a lock file, a child process | acquire with recovery of stale locks, run with a timeout, release | every call to the file system is a step of its own; crashes | one batch at a time; the lock is returned | `SchedulerLock` |
| Candidate review (`app/services/reference_discovery_candidate_review.py`) | candidates, review history, references | verify date, promote, dismiss | overlapping reviews, half a promotion | a decision is taken on the status of its moment, once, and is explained by the history | `ReviewDesk`, `CandidateReview` |
| Reference batch (`reference_discovery_staging.py`, `reference_sync.py`, `reference_batch_ingest.py`, `server/scripts/reference_subscription_batch_apply.py`) | candidates, references | stage undated entries, ingest dated ones | re-listed items, duplicates inside a page, a cutoff by date with a limit per batch | a re-listing takes nothing back, references stay unique, nothing that matches is left behind | `CandidateReview`, `ReferenceBatch` |
| Import of a link (`app/services/analyst_references.py`) | references | preview, confirm | meets a promotion of the same address | references stay unique | `CandidateReview`, `ReferenceBatch` |
| Subscriptions and sources (`reference_subscriptions.py`, `reference_source_management.py`, `reference_source_history*.py`, `scripts/reference_real_source_bootstrap.py`) | subscriptions, sources, change history with backups | confirm, create, change, pause, resume, bootstrap | overlapping requests that write what they have not seen; a protection that is checked in another service | the history shows the source; an active subscription has an open one | `SourceRegistry` |
| Titles and freshness of references (`reference_translation*.py`, `reference_freshness*.py`, `scripts/reference_translation_validation_apply.py`) | translated title with status, freshness | translate at ingest, translate what is there, refresh | several forms of a title, some of which fail; a script that reads before it writes | a Korean title is a good translation of its own title, and there is one when there can be | `ReferenceTitles`, `ReferenceBatch` |
| Disclosures (`disclosure_sync.py`, `disclosures.py`, providers) | one cursor per provider, filings, events with counters and a state | sync, import a filing, reprocess | partial failure, limits, overlapping runs, days in another time zone | the cursor passes nothing that was not read; counters agree; a state changes with a document | `EventRules`, `DisclosureFeed` |
| News (`news.py`) | articles, origins, the same events | sync the feeds, import a link | duplicates, reprints, late corrections, filings that confirm | what an event is confirmed by is there | `EventRules`, `NewsFeed`, `InformationFeeds` |
| Instruments (`instruments.py`) | instruments, mappings to companies of the providers | sync companies, map, unmap | a company changes its listing, two companies claim one | part of the reviews below | `InstrumentMap` |
| Analysis (`analysis.py`) | impacts, theses, reviews | sync impacts, refresh, acknowledge | events change after an item has met them | the review that is shown rests on the events as they are | `DecisionReviews` |
| Risk profile (`risk_recommendation.py`, `risk_profile.py`) | one profile | recommend, apply, replace | the portfolio changes between recommendation, application and write; overlapping requests | what is applied is what was shown | `RiskProfile` |
| Public quotes (`public_quotes.py`) | quotes with a sequence, states of providers | sync, expire, show the latest | overlapping syncs with the same numbers, one provider that fails | the price that is shown is the newest | `PublicQuotes` |
| Briefings, email, retention (`briefings.py`, `market_briefings.py`, `email_delivery.py`, `retention.py`) | briefings, items with fingerprints, deliveries | generate, send, clean up | overlapping jobs, a crash between letter and commit, lost answers, deletion under a job that is mailing | a state is reported in one briefing and mailed once as far as the books know; corrections stay; the books claim no letter that did not arrive | `BriefingDelivery`, `Outbox` |
| Radar cycle and calendar (`radar_cycle.py`, `market_calendar.py`, `market_sessions.py`, `cli.py`) | keys of market briefings, preferences | run a cycle, announce, run a command for a date | time zones, offsets over midnight, changes of the preference | an announced briefing is there or due at its time | `MarketCalendar`, `BriefingDelivery` (order of a cycle) |
| Operating budget (`operations.py`) | records of cycles, mails, snapshots of usage | ask for the mode, record, clean up | overlapping and failing cycles, months, records that are removed | news are collected within the budget, and left out only for it | `OperatingBudget` |
| Sequence tracking and backoff (`app/core/sequence.py`, `backoff.py`) | the last number; attempts | observe, reset; delay | - | - | not modelled: see 5 |
| Web client, reports, seeds | - | show, fill an empty database | - | - | not modelled: see 5 |

How the parts interact: the routes call services inside one database session,
committed when the route returns and rolled back when it raises
(`app/database.py:60-70`). The ledger writes the item (replay) and the sale rows
(synchronisation). The scheduler starts the batch script as a child process
under a lock file; the batch, the reviews and the import of a link write the same
table of references; reviews and batch share the candidates; the batch reads the
subscription and the source that the registry holds. Disclosures and news feed
the same information events, articles are confirmed by filings, and both choose
what to read by the statuses of the portfolio items. Analysis and briefings read
the events; deliveries and retention read and delete briefings; the cycle runs
all of these in one transaction, unless the budget leaves some out.

`PROJECT.json` lists every part with its status, the hazards with the lines
where they bite, and for each definition the lines it models.

## 2. Modules

| Module | Role |
|---|---|
| `LedgerReplay` | the arithmetic of `_replay`: order of rows, half-even rounding, the loop as a recursive function |
| `PositionRules` | guards and assignments of a single request, shared by the modules below |
| `PositionLedger` | one item with its ledger and sale rows; one action per request |
| `LedgerConcurrency` | overlapping requests on one item as PostgreSQL transactions |
| `LedgerMigration` | sales of the older schema and the migration that makes a ledger of them; uses `PositionRules` for what the ledger has to be |
| `SchedulerLock` | runs of the scheduler, one step per call to the file system |
| `ReviewDesk` | abstract: what the review of candidates promises, one step per decision |
| `CandidateReview` | reviews, batch, link import as transactions; implements `ReviewDesk` |
| `Outbox` | abstract: what the delivery of briefings promises about letters |
| `BriefingDelivery` | cycles, commands and requests that make, mail and delete briefings, as transactions; implements `Outbox` |
| `EventRules` | pure rules: what a filing says and what state a document gives its event |
| `DisclosureFeed` | filings, runs, cursors, events |
| `NewsFeed` | articles on top of the same events and items; extends `DisclosureFeed` |
| `InformationFeeds` | the two together, with the properties of both |
| `Rows` | how the object-relational mapper writes a row: the columns that differ from the copy |
| `SourceRegistry` | sources, subscriptions and history under overlapping requests |
| `ReferenceBatch` | batch after batch of a subscription; extends `SourceRegistry` |
| `RiskProfile` | recommendation, application and profile under overlapping requests |
| `MarketCalendar` | when market briefings are due and what is announced |
| `InstrumentMap` | items, instruments and companies of the providers |
| `DecisionReviews` | impacts and reviews of items; extends `InstrumentMap` |
| `PublicQuotes` | quotes with overlapping syncs and retention |
| `ReferenceTitles` | the choice and storage of translated titles |
| `OperatingBudget` | what a month costs and what a cycle leaves out |
| `MCInformationFeeds`, `MCServices` | several small instances ("regimes") in one run; see 3 |
| other `MC...` | one small instance each |
| `ReplayProofs`, `PositionLedgerProofs`, `LedgerConcurrencyProofs`, `ReferenceProofs`, `CandidateReviewProofs`, `BriefingDeliveryProofs`, `InformationFeedsProofs`, `ServicesProofs` | theorems; see 4 |

### PositionLedger

`item`, `ledger`, `sales` are the rows of `PortfolioItemRecord`,
`PositionTransactionRecord` and `SaleTransactionRecord`; `now` is the clock that
bounds `traded_at`. A request that raises is rolled back, so it is no step; a
request that commits is one action, replay and synchronisation included.
`UpdateTransaction` replays in the order of the *stored* trade times, because
`autoflush` is off and the rows are selected before the new time is flushed:
`ReplayIn(stored, rows)` takes both sequences. Quantities and prices are integers
in units of the storage quantum; a missing average price is 0, which every guard
treats alike. Fees and taxes only lower the realized result and are left out,
and so are the texts, the search and the summaries.

### LedgerConcurrency

A session asks (`AskLedger`, `AskSale`, `AskVoidSale`, `AskWrite`), takes the row
lock of the item, reads the ledger and replays it in memory, and commits.
`POST .../sales` reads the item before it asks for the lock and keeps that copy
(`copy`): SQLAlchemy does not refresh loaded columns by a `SELECT ... FOR UPDATE`,
and a flush sends only columns that differ from the copy. `void_sale` locks the
latest sale row first. Fairness, used by the run `LedgerDeadlock` only: a session
that waits for a row gets it in turn (PostgreSQL queues waiters; strong fairness
of `Turn`), a session that is not blocked goes on to its end or is cut off, and
a deadlock is broken (the database detects it). Nothing else is assumed, in
particular not that a request is made.

### SchedulerLock

A run is one process. `Create` is `O_CREAT | O_EXCL`, `Write` the metadata that
follows and `Undo` what a failed write does, `OpenLock`/`Read`/`Archive`/`Retry` the
recovery of a stale lock, `Fork` ... `ChildEnds` the child with its timeout,
`Release`/`Check`/`Unlink` the calls of `release()`. `lock` is each run's lock file,
`reading` the one it has open between two calls. Whether an open file may be moved
or removed is a constant (`OpenMoves`), because POSIX and Windows differ: where it
may not, `os.replace` and `unlink` are refused while another run reads the file,
nobody catches the `PermissionError`, and the run fails. A run may crash anywhere,
which closes its files and leaves its lock and its child. Verification and backup
of the database are one step that succeeds or fails.

### CandidateReview and ReviewDesk

A review reads the candidate, swaps its status (`compare_and_swap_status` waits
for the row lock and compares), for a promotion looks the reference up and
inserts it, then commits candidate, history and reference together; `Rollback`
may happen anywhere. `oneWriter` says whether the database is SQLite (one writer,
and batches run there) or PostgreSQL (row locks; an insertion waits for one of
the same unique key). The batch checks the subscription, waits for the page, and
stages and ingests what it lists, newest first, up to the creation limit.
Entries stand for those that match the subscription; one that does not match
ends a promotion like a rollback. The refinement maps the committed rows onto
`ReviewDesk`: a commit is a decision, a batch or a link is a collection,
everything else a stutter.

### BriefingDelivery and Outbox

A job is a process or a request with one transaction: the hourly cycle, the
commands of `app/cli.py`, `POST /briefings/generate`. They differ in where they
go next (`Onward`, `AfterMail`) and share the steps: `Look` (the look-ups of
`generate`), `Store` (briefing and items), `Lookup`, `Claim`, `Post`, `Finish`
(the statements of `send`), `Retain`, `Commit`; `Crash` may happen anywhere
outside a commit. A row written and not committed has its job as `owner`: others
do not see it, and an insertion of the same unique key waits for it. `Post` is
one attempt: whether the provider takes the letter and whether its answer is
heard are two choices, and `letters` counts what was taken, which no rollback
takes back. A transaction that SQLite lets write keeps all others from writing
(`oneWriter`); there foreign keys are not enforced either.

The refinement hides the database: `Recorded` is the set of states and recipients
under a committed delivery with status SENT, and every step must be a step of
`Outbox`, a letter about states that are not recorded or a change of the books
that claims only what arrived. So a crash between letter and commit, or a lost
answer, may mail a state again, and the books may forget (retention, a
rollback), but a recorded state is never mailed again. One exception is stated
in the property itself (`LetterOfDeleted`): on SQLite a job that rendered its
letter before another job deleted the briefing mails it all the same, even if the
states have been briefed and mailed anew in between; on PostgreSQL the foreign key
of the delivery stops it. `NOT_CONFIGURED` deliveries are rows like the others and
end later look-ups, as in the code.

Abstractions: a state of an event is one fact that `_state_fingerprint` tells
apart, `Plain` one that no briefing reports (also an event outside its period);
a period is any set of events; the syncs of a cycle change at most one event, and
at most one session is due in a cycle; time is not counted, so any committed
briefing without a correction may have expired; the recipient and whether mail is
configured are chosen at the look-up; briefings with neither items nor session are
left out, because their keys contain the moments of their period and nothing
finds them again; several look-ups of `generate` are one step.

### InformationFeeds: EventRules, DisclosureFeed, NewsFeed

`record` and `event` are `DisclosureRecord` and `InformationEventRecord`,
`cursor` is `last_successful_at` of a provider. A run (`Start` ... in
`DisclosureFeed`) is one transaction: it chooses the mappings by the statuses of
the items, at most three of them, asks each from a day before the cursor on, at
most ten filings of a mapping and at most the limit of the run, enters or
re-reads each filing, and advances the cursor when at least one mapping was read.
A provider answers with the filings it lists on those days, or fails. A filing
is a record of what the rules tell apart: form, amendment, words of the title,
denial. `unread` is a history variable: the companies past which a run moved the
cursor without having read them in full, because they failed, were beyond the
limit, were not followed or had more than ten filings. `NothingMissed` speaks of
the others; what it excuses is what the code really may lose, and the section on
what is not stated names it. An article is a record of source, subject, claim,
origin, certainty and notice; which articles share two words with a filing is the
constant `About`.

A cycle is a run of OpenDART, one of SEC EDGAR and one of each source. The code has
them in one transaction; here other requests may come in between, which allows
more. The look of an event (title, score) is left out. An imported filing gets a
form type of its own, so that it is never the target of a correction by form.

### SourceRegistry and ReferenceBatch

A request on a source or a subscription is three steps, load, check and write,
because SQLite begins its transaction with the first write and PostgreSQL reads
what is committed. A write goes through `Updated` of `Rows`: the columns that
differ from the request's copy. `change` is the history with the row before and
the backup of the file; `crossed` names the sources that overlapping requests
wrote, for which only the weaker half of each property is claimed. The script that
bootstraps the first source looks it up and writes it in two transactions, without
a history. A batch (`ReferenceBatch`) loads subscription and source, fetches, and
writes in one transaction at its end; imports, promotions, pauses and new entries
of the index go on in between. Which items match is asked of the subscription's mode
and terms, for a batch those it has loaded (`view`), and a request may change them
between batches or during one. `excused` holds the items that `NothingLeftBehind`
does not promise: those the index listed with a date behind the newest reference,
those that a full batch left, and those that a changed subscription asks for when a
newer item has a reference of it already (`AskedLate`, of a request in `Widen`, of
a batch that began before the request in `FinishBatch`). They may really be lost.

### LedgerMigration

`sold` are the rows of `sale_transactions` as sell, supplement, amendment and
void of the older program leave them, `upgrade` what `0008` makes of them. The
audit either refuses or the conversion is done; the property is stated with the
replay of the ledger itself (`Replay` of `LedgerReplay`), so it compares the
migration with the program that goes on from there. Products are exact, so the
audit of the amounts is that of the snapshots.

### RiskProfile, MarketCalendar, OperatingBudget

`RiskProfile`: the fingerprint of a portfolio is the portfolio; shares are in
ten-thousandths rounded half-even, as `_percent` does. `agreed` is what the user was
shown of the profile that was applied last, `mixed` whether a write was based on a
profile that was no longer there.
`MarketCalendar`: time is UTC in ticks, a market has a shift, a session is a local
day; summer time is left out. Announcements are remembered as long as the
preference does not change.
`OperatingBudget`: a cycle asks for the mode at its start and records its time at
its end. `past` remembers all records, also those that retention has removed, so
that the property can say which of them the budget must still know.

### InstrumentMap, DecisionReviews, PublicQuotes, ReferenceTitles

`InstrumentMap`: instruments by market and symbol, mappings by key of a company,
with the statuses that an answer gives them; a company that a later answer lists
elsewhere is mapped anew. `DecisionReviews`: an event is what a review reads of it;
impacts are made by the cycle, reviews by requests, and an acknowledged review is
shown until a newer one. `PublicQuotes`: a command asks the providers one after
the other, holds what it got, and writes at its end; two may overlap and number
their quotes alike. The answer of a provider (`Ask`) and the time that the command
then takes from the clock as `fetched_at` (`Take`) are two steps, so overlapping
commands may be stamped in the reverse order of their answers; `since` remembers
the moment of the answer. `ReferenceTitles`: a title is what is asked of its translation,
a translation what it meets; the forms of a title are translated one by one.

## 3. Runs

| Run | Instance | Shows |
|---|---|---|
| `PositionLedger` | two regimes: 1 quantity, 2 prices, 2 times, 3 rows, imports of one entry; and 1 price, 1 key, edits and contexts, imports of two entries | `TypeOK`, `ChainInSequence`, `QuantityConserved`, `AverageWithinPrices`, `SalesMirrorSells`, `HoldingHasAverage`, `VoidedIsFinal`, `LedgerStepSetsItem`, `FirstTradeKeepsSnapshot` over every order of requests |
| `LedgerConcurrency` | 2 sessions, 2 rows, 2 prices, 1 key | `LedgerIsReplayed`, `OneRowPerKey`, `RowsSurvive`, `FreshRequestSetsItem` under every interleaving |
| `LedgerDeadlock` | 2 sessions, fairness | `RequestsEnd`: the deadlock of the two lock orders occurs, and every request ends |
| `SchedulerLock` | 3 runs, stale after 2, timeout 1, clock to 2, open files that may be moved and that may not | `ExclusiveUntilRecovery`, `LeftoverIsExplained` (a file whose run has ended is left by a crash or by a refused removal), `AttemptsAreRaces` |
| `CandidateReview` | 2 reviews, 2 items, 2 addresses, 2 dates, 3 pages, both databases | `ReferencesUnique`, `HistoryExplains`, `PromotionIsWhole`, `DecisionsStay`, and `DeskSpec` (refinement) |
| `BriefingDelivery` | two regimes: 2 jobs, 2 briefings, 2 events (one a correction), 1 recipient, 1 attempt; and 1 job at a time, 1 event, 1 session, 2 recipients, 2 attempts; both databases | `OneBriefingPerState`, `StatusIsTrue`, `NoticesStay`, and `OutboxKept` (refinement) under every interleaving |
| `InformationFeeds` | three regimes: two companies of OpenDART over five ticks; a company of SEC EDGAR with two reports and an amendment; five articles of three sources and a filing | `NothingMissed`, `CountsAgree`, `ConfirmationIsBacked`, `StateNeedsDocument` |
| `Services` | nine regimes, below | one property of each service: `HistoryShowsSource`, `ActiveNeedsOpen`, `NothingLeftBehind`, `MigratedLedgerReplays`, `AssistedAsShown`, `AnnouncedIsMet`, `ReviewIsCurrent`, `LatestIsNewest`, `TranslationIsEarned`, `NewsWithinBudget` |
| `v_LedgerReplays` | violation | a correction of a trade time can commit a ledger that does not replay |
| `v_SnapshotPreserved` | violation | an import as first request drops the quantity the item showed |
| `v_ItemShowsLedger` | violation | a sale that waits behind another trade flushes against a stale copy |
| `v_OneBatchAtATime` | violation | an unwritten lock file is taken for stale, and two batches run |

The regimes of a run are chosen in its initial states and never change; what does
not belong to a regime stays as it begins. The regimes of `Services` are the
registry (two sources, two requests), batches (four items, pauses, imports, and terms
that ask for all items or for one), the
migration (up to two sales), risk (three portfolios, two answers, two requests),
the calendar (one briefing of either market, two and a half days), reviews (two
listings, two companies, an event), quotes (two commands, two providers of which one is enabled; some behaviours begin after a first quote), titles
(three references, one with all four forms) and the budget (two cycles, months of
three moments). They share no state, except the batch and the registry, which
are composed.

Why the bounds are enough to be interesting: three rows are the least for a buy,
a sell and a row between or after them that is moved or voided, with two times
for every reordering and two prices for an average that is not a price; two rows
and two sessions are the least for a lost update, a retry and a deadlock. Three
runs are the least for one that holds the lock, one that has judged it stale and
one that takes it in between; with a clock of 2 a lock becomes stale and a child
outlives its parent. The pages of `CandidateReview` list an item without and
then with a date, and two items at one address. Two jobs and two briefings are
the least for a race on a key, a deletion under a job that mails and a state that
is briefed again; `MaxLetters` (2) is one more than a state mailed once. Sessions,
second attempts and second recipients have a regime of their own, with one job at
a time to keep it small: jobs that overlap there are not checked.

Five ticks with days of three let a provider list a filing between two runs of a
day, before midnight here and after it there, and let a run fail and the next one
reach back; two reports of one form share a claim, and an amendment corrects the
newest. Five articles are the least for two origins, a reprint, a correction and
one that a filing confirms. Two requests at a time are the least for every write
over an unseen one, two changes of the history for one that starts from another,
two sales for one that was sold before another, three days for a session, its
eve and the day after. `MaxMoment`, `LastMoment`, `MaxEvents`, `MaxRuns`,
`MaxMails`, `MaxChanges`, `MaxWrites` and `MaxSales` only end the behaviours.

The symmetric sets are sessions, runs, requests, jobs, commands, cycles and ids,
which no definition orders; no run with symmetry checks liveness. Deadlock is
checked where the system never stops (`CandidateReview`, `BriefingDelivery`); the
others end at their bounds. Fairness is assumed in `LedgerDeadlock` only.

Every property of a passing run has a mutant in `PROJECT.json`: an operator
marked `Defect` in the module, which is a plausible bug of that code and which
breaks the property in that run. Each module also has a type invariant
(`RegistryTypeOK`, `BatchTypeOK`, ...); the run of `PositionLedger` lists its own,
those of `SchedulerLock`, `CandidateReview` and `BriefingDelivery` are proved.

The four violations are disagreements between the code and what its own texts
say; each `finding` of `PROJECT.json` quotes the line.

## 4. Proofs

All theorems are for every value of the constants, under the named assumptions
of the modules (`LedgerAssumption`, `KeysAssumption`, `ConcurrencyAssumption`,
`SchedulerAssumption`, `ReviewAssumption`, `DeliveryAssumption`, `FeedAssumption`,
`FilingsAssumption`, `ArticlesAssumption`, `RegistryAssumption`, `BatchAssumption`,
`CalendarAssumption`, `RiskAssumption`, `QuotesAssumption`, `TitlesAssumption`,
`BudgetAssumption`, `MigrationAssumption`): ranges of the inputs, distinctness of the markers and of the
items of a source (a batch sorts them by date and number), at least one
recipient, limits that a user may enter, fields that a request may carry, settings
that `Settings.from_env` accepts, and that pages, feeds and companies are finite.

What loops in the code is a recursive function or a fold in the model. Facts about
it are proved by an induction over the naturals stated as a lemma about sets
(`NatSetInduction`), because induction theorems that take an operator cannot be
instantiated; the function is shown to exist, then unfolded once per step.

- `ReplayProofs`: rounding and the weighted average stay between their operands,
  `Earliest` chooses a row of a non-empty set, one iteration keeps rows typed and
  keeps side, type, quantity and key. Then what the visited rows say after `n`
  iterations: each continues the one before it, quantities add up, averages lie
  within the prices, a voided row is left alone; and that a ledger that has been
  replayed is replayed to itself, also with one more row at its end. Last, a ledger
  whose rows buy and sell at one average (`Flat`) replays without a failure to the
  sum of its rows, and the replay changes nothing of a row but its number.
- `PositionLedgerProofs`: every property of its run (`TypeCorrect`,
  `RowsTellOneStory`, `QuantityIsConserved`, `AveragesStayWithinPrices`,
  `SalesFollowSells`, `ItemIsSetByLedger`, `SnapshotIsKept`, `HeldItemsAreValued`,
  `AuditTrail`). The invariant says that the rows are what some replay left, that
  every sell, voided ones included, has a purchase average and the sale row that
  copies it; without the voided ones a replay that leaves such a row alone could
  make a sale row without an average. A replay reads only the terms of the rows
  (side, type, time, quantity, price, status), so a correction may change the rest.
  And of `LedgerMigration`, `LedgersAreMigrated`. The invariant (`MigrationInv`) says
  that the old tables have their types, that a sale is a full one when it leaves
  nothing, and that what was upgraded is the conversion of tables that passed the
  audit. By the audit every sale has what the sales before it in time left, at
  the average of the opening purchase: what any set of rows leaves is that purchase
  less what those rows sold (`MigratedSum`), so the ledger is flat (`MigratedFlat`)
  and the replay leaves it as the migration wrote it.
- `LedgerConcurrencyProofs`: `CommittedRowsReplay`, `KeysLeaveOneRow`, `NoRowIsLost`,
  `FreshRequestsSettle`. Only the holder of the item's row lock has a replay to
  commit, and what it is about to flush was made from the ledger that is still
  committed (`Ready`), since nobody else writes rows under the lock. A request that
  read the item under the lock also has the item that is committed (`Fresh`);
  `POST .../sales` is the one that has not.
- `ReferenceProofs`, the scheduler: `ExclusiveBatch`, `LockIsReturned`,
  `SchedulerTypeCorrect`, `AttemptsAreOfOthers`. The invariant says whose the file
  at the path is: until a lock was moved away, a run past `Create` and before its
  end is its owner (`OwnedUntilRecovery`); a run has a lock file, written in full, from
  when it took the lock (`FilesAreMade`); and a run whose file is still at the path
  when it checks has read that one (`OwnIsFound`), so that `release()` does remove
  it unless it crashes or is refused. An attempt is
  spent only on a lock that another run took and that is gone or going, and a run
  takes the lock once (`Spent`), so attempts are at most as many as other runs.
  The registry: `ActiveIsOpen`, `HistoryIsTrueOfSource`. The invariant says of every
  request under way what it works on (`Work`): one that no other has overtaken has
  loaded the row that is there, and what it has checked of the other table still
  holds. The history needs that such a request also has the source in its backup
  (`Kept`), and that a source that is new has no history.
  The batches: `NothingIsLeftBehind`. The invariant keeps three relations: an item
  that its subscription asks for now and that is not excused has a reference or no reference of the subscription is newer
  (`Reached`); a reference is no newer than what is listed, or all that is older is
  excused (`Backed`), which is why an item listed in its order is not behind; and
  what is listed while a batch fetches is no older than what it has (`Fetched`).
  The first survives a change of the terms because an item that is asked for anew is
  excused or no reference is newer, and the end of a batch with older terms because
  what it did not look for is treated the same way.
  That a batch which is not full stores all of its backlog is an induction over the
  loop (`IngestedAll`), after it is shown that the order by date and number gives
  every item a turn (`EveryItemHasATurn`); the largest date is found by the same
  induction (`LargestIs`).
- `CandidateReviewProofs`: `ReviewTypeCorrect`, `HistoryIsTrue`,
  `PromotionsAreWhole`, `DecisionsAreFinal`, `ReferencesAreUnique` and the refinement
  `ReviewsAreDecisions`. A transaction that writes holds the row of its
  candidate (`Exclusive`), so the status it compared is still there when it
  commits (`Consistent`); what it holds by itself is `Sound`. Every step of one
  transaction before its commit goes through one lemma (`LocalFacts`), every step
  of batch and user through another (`WorldFacts`). References are unique together
  with those that open transactions have inserted (`Pending`), which is what the
  database compares an insertion with; the batch accepts its entries one after
  the other, and each is compared with those accepted before it.
- `BriefingDeliveryProofs`: `DeliveryTypeCorrect`, `StatesBriefedOnce`,
  `NoticesAreKept`, `StatusTellsMail` and the refinement `DeliveryIsOutbox`. The
  invariant has a part about the rows and one per job. The rows: what a sent delivery stands for has
  arrived (`Arrived`), and no other job writes deliveries of a briefing that is not
  committed (`OwnDeliveries`). A job that mails holds a pending delivery of its own
  (`Claimed`), of a briefing that no other job can take back (`Placed`) and whose
  items are the ones in its letter as long as it exists (`Carried`); a job that
  deletes is alone in it (`Deleting`). Without these a recorded state could be
  mailed again by a job that looked before the record was committed. The argument
  is of the form rely and guarantee: `Guarantee` says what a step of one job leaves
  to the others, `Others` shows once that this keeps their part of the invariant,
  and each action is shown to keep its own part and to give the guarantee.
  `StatusTellsMail` rests on a second invariant (`Told`): whoever writes a status has
  a delivery with that result in the same transaction.
- `InformationFeedsProofs`: `FilingsAreNotMissed`, `CountersAgree`, `ConfirmationsAreBacked`,
  `StatesNeedDocuments`. The invariant is about the books (`StoreOK`): every record
  and article belongs to an event that is there, counters are the numbers of
  distinct ones, and an event is confirmed only when one of its documents
  confirms. It is shown of one document at a time and carried over the documents
  of a run. That a state changes with a document only is a relation between
  two books that composes (`Follows`), so it too is shown of one document.
  For the cursors, a run keeps that what it has read in full is stored as far as
  its window goes (`RunOK`); what is dated before the window was listed before the
  old cursor (`PublishedNearFiled`: less than a day lies between), so the property
  as it was gives it, and the clock is not behind the cursors (`Times`), so what is
  listed next is not behind them either.
- `ServicesProofs`: `AnnouncementsAreMet` (what was announced under the preference is
  a session with the time that this preference gives it; a change of the
  preference takes announcements back), `ProfileIsAsShown` (what a request is about
  to write is what its user agreed to, and a request that has not been overtaken has
  loaded the profile that is there; without the second part it could leave columns
  of another one's profile), `ReviewsAreCurrent`, `TranslationsAreEarned`,
  `LatestQuoteIsNewest` and `NewsStayWithinBudget`. A quote that is answered after
  another one had its time is of no older event (`Follows`), whether that one is
  stored, held by a command or long removed, and the same holds of an answer that a
  command has yet to take (`Answered`): so what is shown above the newest quote was
  answered before that had its time. The last needs that a
  record whose life is not over has not been removed, that the sum over more runs
  is not smaller (`SummingGrows`, in whatever order the fold takes them), and that
  rounding up to minutes moves a threshold by less than a minute (`MinutesOfTime`).

Only model-checked:

- `RequestsEnd` (`LedgerDeadlock`): liveness, which the prover cannot do.
- The violations, which are refuted and not proved.

## 5. Not modelled, not stated, and next

Not modelled, and why:

- HTTP, parsing of pages, feeds and filings, the language models, layout of
  briefings: input and output of one request. Their outcomes are choices.
- The web client: views over the API; what it sends is what the requests take.
- The decimal scores of a review, scenarios of averaging, the structured packet
  of an item and the search of items: computed from the rows of one request.
- The copy of the SQLite file, the reports on operations and providers, `main.py`.
- Seeds (`scripts/seed_*.py`): fixtures that run once on an empty database. The
  migrations other than `0008` add tables and columns.
- `app/core/sequence.py`, which its tests only use, and the delays of
  `app/core/backoff.py`: attempts are modelled without the time between them.
- `AnalystReferenceTranslationService`, which its tests only use.

Assumptions of the models, besides those named above: a provider of quotes does
not send an older event after a newer one, and a command does not last as long as
a quote is kept; the title script works on its validation database; runs that
record no duration are not in the budget; summer time does not change within the
days of an instance.

Behaviours of the code that the models have and that no property states, because
no text of the repository promises otherwise:

- `create_sell` with the key of an earlier buy returns the buy's row and makes a
  sale row for it (`transactions.py:117`).
- A delivery that was not configured is stored under the key of the briefing and
  ends later look-ups (`email_delivery.py:79`); `briefing-preview` stores what it
  previews (`cli.py:576`); a market briefing with missing data keeps its states
  from the change briefing of the cycle (`radar_cycle.py:115`).
- A subscription that is disabled while its page is fetched is ingested once more
  (`reference_subscription_batch_apply.py:297`).
- An amendment corrects the newest filing of its form, not the one it amends
  (`disclosure_sync.py:573`); a company that is followed after its provider's
  cursor has moved is read for one day back only (`disclosure_sync.py:199`, what
  `NothingMissed` excuses).
- An instrument keeps the verification it was created with (`instruments.py:294`).
- A refused trade of an archived item is decided on the copy of the item
  (`transactions.py:301`).
- Where open files cannot be removed, the lock stays when another run reads it at
  the moment of its removal, until it is stale (`reference_scheduler.py:272`; what
  `LeftoverIsExplained` names).
- When the terms of a subscription are widened, batches do not go back for the items
  that match now and are older than its newest reference
  (`reference_batch_ingest.py:106`; what `NothingLeftBehind` excuses).
- Of two commands that overlap, the one that was answered first may take its time
  last; its older quote is then shown until the next one
  (`providers/public_quotes.py:151`, `api/providers.py:39`; what `LatestIsNewest`
  excludes by `since`).

Every safety property of a passing run has a theorem. Next, where it pays: the
ledger of `LedgerConcurrency` as a refinement of one that serves a request at a
time, and the parts of section 1 that are modelled in part.
