-------------------------- MODULE BriefingDelivery --------------------------
(***************************************************************************)
(* Briefings, their delivery by mail and their retention, as concurrent    *)
(* database transactions ("jobs"):                                         *)
(*   - the hourly cycle, server/app/services/radar_cycle.py;               *)
(*   - the commands briefing-preview, market-briefings, send-briefing and  *)
(*     retention of server/app/cli.py, and POST /briefings/generate;       *)
(* with the services they call: briefings.py, email_delivery.py and        *)
(* retention.py.                                                           *)
(*                                                                         *)
(* A row that a job has written and not committed has the job as its       *)
(* owner: others do not see it, and wait where a unique index or a lock    *)
(* makes them wait.  A letter that the provider has accepted is out, also  *)
(* when the job is rolled back later.                                      *)
(***************************************************************************)
EXTENDS Integers, FiniteSets

CONSTANTS
    Jobs,          \* the processes and requests that may overlap
    Ids,           \* ids of briefings
    Events,        \* information events
    Facts,         \* states of an event that a briefing reports
    Notices,       \* events and facts: corrections and denials
    Plain,         \* a state that no briefing reports
    Recipients,
    Sessions,      \* trading sessions: the keys of market briefings
    Nobody,        \* the owner of a committed row; no change by a sync
    OneWriters,    \* which databases: SQLite has one writer, PostgreSQL row locks
    MaxRetries,    \* email_max_retries
    MaxLetters     \* bound: letters about one state to one recipient

ASSUME DeliveryAssumption ==
    /\ Notices \subseteq Events \X Facts /\ Plain \notin Facts
    /\ Nobody \notin Jobs /\ Nobody \notin Ids
    /\ OneWriters \subseteq BOOLEAN
    /\ Recipients # {}
    /\ MaxRetries \in Nat \ {0} /\ MaxLetters \in Nat \ {0}

VARIABLES
    event,       \* the committed state of each event
    briefing,    \* the row of each briefing, with its items
    delivery,    \* the row of each briefing and recipient
    job,         \* the transaction of each job
    letters,     \* how often each state arrived at each recipient
    oneWriter    \* whether the database is SQLite

vars == <<event, briefing, delivery, job, letters, oneWriter>>

\* _state_fingerprint: the event and what is reported of it.
States == Events \X Facts

Status == {"READY", "SKIPPED_NO_CHANGE", "SENT", "FAILED"}

\* The key is the session, or the states that were eligible.  A briefing that has
\* no items and no session is left out: its key is made of the moments of its
\* period, which nothing looks up again, and its letter reports no state.
Key == Sessions \cup SUBSET States

Briefing == [status : Status \cup {"ABSENT", "DELETED"}, key : Key, items : SUBSET States,
             owner : Jobs \cup {Nobody}]
Delivery == [status : {"NONE", "PENDING", "NOT_CONFIGURED", "SENT", "FAILED"},
             owner : Jobs \cup {Nobody}]

NoDelivery == [status |-> "NONE", owner |-> Nobody]
NoBriefing(status) ==
    [status |-> status, key |-> {}, items |-> {}, owner |-> Nobody]

Idle == [at |-> "idle", writes |-> FALSE, deletes |-> {}, sync |-> {},
         marks |-> {}]
Transaction ==
    [briefing : Ids \cup {Nobody},                  \* the briefing at hand
     key : Key,
     items : SUBSET States,                         \* eligible, then candidates
     at : {"look", "store", "lookup", "claim", "post", "finish", "retain", "commit"},
     writes : BOOLEAN,                              \* it has flushed something
     deletes : SUBSET Ids,                          \* briefings deleted
     sync : SUBSET (Events \X Facts),               \* events it has changed
     marks : SUBSET (Ids \X Status),                \* status written to briefings
     kind : {"cycle", "generate", "send"},
     session : Sessions \cup {Nobody},              \* of a market briefing
     to : Recipients,
     ready : BOOLEAN,                               \* confirmed and configured
     loaded : Status,                               \* status of the briefing when read
     attempt : 0 .. MaxRetries,
     sent : BOOLEAN]                                \* the answer of the provider

TypeOK ==
    /\ event \in [Events -> Facts \cup {Plain}]
    /\ briefing \in [Ids -> Briefing]
    /\ delivery \in [Ids -> [Recipients -> Delivery]]
    /\ job \in [Jobs -> Transaction \cup {Idle}]
    /\ letters \in [States \X Recipients -> 0 .. MaxLetters]
    /\ oneWriter \in BOOLEAN

-----------------------------------------------------------------------------
(* What a job sees, and when it waits.                                     *)

Exists(b) == briefing[b].status \in Status
Committed(b) == Exists(b) /\ briefing[b].owner = Nobody
Visible(j, b) == Exists(b) /\ briefing[b].owner \in {j, Nobody} /\ b \notin job[j].deletes

\* SQLite has one write lock; PostgreSQL locks rows.
MayWrite(j) == oneWriter => \A s \in Jobs \ {j} : ~job[s].writes

\* No other job is deleting briefing b.
NotBeingDeleted(j, b) == \A s \in Jobs \ {j} : b \notin job[s].deletes

\* The state of event e as job j sees it.
View(j, e) == IF \E f \in Facts : <<e, f>> \in job[j].sync
              THEN CHOOSE f \in Facts : <<e, f>> \in job[j].sync
              ELSE event[e]

Set(j, t) == job' = [job EXCEPT ![j] = t]

\* The transaction is rolled back: its rows are gone.
Undo(j) ==
    /\ Set(j, Idle)
    /\ briefing' = [b \in Ids |-> IF briefing[b].owner = j THEN NoBriefing("ABSENT")
                                  ELSE briefing[b]]
    /\ delivery' = [b \in Ids |-> [r \in Recipients |->
                        IF delivery[b][r].owner = j
                        THEN NoDelivery ELSE delivery[b][r]]]
    /\ UNCHANGED <<event, letters, oneWriter>>

-----------------------------------------------------------------------------
(* The commands.                                                           *)

AnyRecipient == CHOOSE r \in Recipients : TRUE
NewJob(kind, at) ==
    [briefing |-> Nobody, key |-> {}, items |-> {}, at |-> at, writes |-> FALSE,
     deletes |-> {}, sync |-> {}, marks |-> {}, kind |-> kind, session |-> Nobody,
     to |-> AnyRecipient, ready |-> FALSE, loaded |-> "READY", attempt |-> 0,
     sent |-> FALSE]

Start(j, t) ==
    /\ job[j] = Idle
    /\ Set(j, t)
    /\ UNCHANGED <<event, briefing, delivery, letters, oneWriter>>

\* A session is due when no briefing has its key.
Due(s) == \A b \in Ids : Committed(b) => briefing[b].key # s

\* RadarCycleService.run with confirm_send.  The syncs may change an event.
StartCycle(j, sync, session) ==
    /\ session # Nobody => Due(session)
    /\ \A u \in sync : event[u[1]] # u[2]
    /\ sync # {} => MayWrite(j)
    /\ \A s \in Jobs \ {j} : \A u \in sync, v \in job[s].sync : u[1] # v[1]
    /\ Start(j, [NewJob("cycle", "look") EXCEPT
                   !.sync = sync, !.session = session, !.writes = sync # {}])

\* briefing-preview, market-briefings --confirm, POST /briefings/generate (which
\* answers 409 instead when there is nothing new).
StartGenerate(j, session) ==
    Start(j, [NewJob("generate", "look") EXCEPT !.session = session])

\* send-briefing, of a given briefing or of one it generates first.
StartSendOf(j, b) ==
    /\ Committed(b)
    /\ Start(j, [NewJob("send", "lookup") EXCEPT !.briefing = b, !.loaded = briefing[b].status])
StartSend(j) == Start(j, NewJob("send", "look"))

\* The command retention is the end of a cycle.
StartRetention(j) == Start(j, NewJob("cycle", "retain"))

-----------------------------------------------------------------------------
(* BriefingService.generate.                                               *)

\* Where a job goes with a briefing that has these items.  A cycle mails it if
\* it has items, the preference says so, and no data of a market are missing.
Onward(t, items) ==
    CASE t.kind = "generate" -> {"commit"}
      [] t.kind = "send" -> {"lookup"}
      [] t.kind = "cycle" -> {IF t.session # Nobody THEN "look" ELSE "retain"}
                             \cup (IF items # {} THEN {"lookup"} ELSE {})

\* Mailing keeps what is known of the briefing; every other step forgets it.
\* From there on all jobs are alike.  One that has written nothing is done.
Proceed(t, at) ==
    IF at = "lookup" THEN [t EXCEPT !.at = at, !.key = {}, !.items = {}]
    ELSE IF at = "commit" /\ ~t.writes THEN Idle
    ELSE [NewJob("cycle", at) EXCEPT !.sync = t.sync, !.marks = t.marks, !.writes = t.writes]

\* The look-ups of generate: the eligible states of a period, the briefing that
\* has their key, and else the states that no item reports yet.  They are one
\* step: what another job commits between them changes the answer to one that
\* another period, or a unique constraint that fails, gives as well.
Look(j, period) ==
    LET t == job[j]
        eligible == {s \in States : s[1] \in period /\ View(j, s[1]) = s[2]}
        key == IF t.session = Nobody THEN eligible ELSE t.session
        found == {b \in Ids : Visible(j, b) /\ briefing[b].key = key}
        fresh == {s \in eligible : \A b \in Ids : Visible(j, b) => s \notin briefing[b].items}
    IN  /\ t.at = "look"
        /\ \/ \E b \in found : \E at \in Onward(t, briefing[b].items) :
                 Set(j, Proceed([t EXCEPT !.briefing = b, !.loaded = briefing[b].status], at))
           \/ /\ found = {} /\ (fresh # {} \/ t.session # Nobody)
              /\ Set(j, [t EXCEPT !.at = "store", !.key = key, !.items = fresh])
           \/ /\ found = {} /\ fresh = {} /\ t.session = Nobody
              /\ Set(j, Proceed(t, IF t.kind = "cycle" THEN "retain" ELSE "commit"))
        /\ UNCHANGED <<event, briefing, delivery, letters, oneWriter>>

\* Defect: the table of items has no unique constraint on the fingerprint.
ClashOfKeys(b, t) == Exists(b) /\ briefing[b].key = t.key

\* A row of another job, not committed or being deleted, makes an insertion of
\* the same key or the same states wait.
Clash(b, t) ==
    Exists(b) /\ (briefing[b].key = t.key \/ briefing[b].items \cap t.items # {})

MayStore(j) ==
    /\ MayWrite(j)
    /\ \A b \in Ids : Clash(b, job[j]) =>
          briefing[b].owner \in {j, Nobody} /\ NotBeingDeleted(j, b)

\* The briefing and its items are flushed; a unique constraint that fails ends
\* the job.
Store(j, b) ==
    LET t == job[j] IN
    /\ t.at = "store" /\ briefing[b].status = "ABSENT"
    /\ MayStore(j)
    /\ IF \E c \in Ids : Clash(c, t) THEN Undo(j)
       ELSE \E status \in {"READY"} \cup (IF t.items = {} THEN {"SKIPPED_NO_CHANGE"} ELSE {}),
               at \in Onward(t, t.items) :
              /\ briefing' = [briefing EXCEPT ![b] = [status |-> status, key |-> t.key,
                                 items |-> t.items, owner |-> j]]
              /\ Set(j, Proceed([t EXCEPT !.briefing = b, !.loaded = status, !.writes = TRUE], at))
              /\ UNCHANGED <<event, delivery, letters, oneWriter>>

-----------------------------------------------------------------------------
(* EmailDeliveryService.send.                                              *)

\* Where a job goes when the mail is dealt with.
AfterMail(t) ==
    Proceed(t, CASE t.kind = "send" -> "commit"
                 [] t.kind = "cycle" -> IF t.session # Nobody THEN "look" ELSE "retain")

\* A delivery of this briefing to this recipient ends it.  Else the letter is
\* rendered, before anything is written.  Ready means that the command confirms
\* and mail is configured; a market briefing is not mailed without.
Lookup(j, to, ready) ==
    LET t == job[j]
        row == delivery[t.briefing][to]
    IN  /\ t.at = "lookup"
        /\ t.session # Nobody => ready
        /\ Set(j, IF row.status # "NONE" /\ row.owner \in {j, Nobody}
                  THEN AfterMail(t)
                  ELSE [t EXCEPT !.at = "claim", !.to = to, !.ready = ready,
                                 !.items = briefing[t.briefing].items])
        /\ UNCHANGED <<event, briefing, delivery, letters, oneWriter>>

\* Defect: the table of deliveries has no unique key, and a second row joins one
\* that another job has committed meanwhile.
ClaimAgain(j) ==
    LET t == job[j]
        row == delivery[t.briefing][t.to]
    IN  /\ t.at = "claim"
        /\ MayWrite(j) /\ row.owner = Nobody /\ NotBeingDeleted(j, t.briefing)
        /\ IF ~oneWriter /\ ~Exists(t.briefing) THEN Undo(j)
           ELSE /\ delivery' = [delivery EXCEPT ![t.briefing][t.to] = IF @.status # "NONE" THEN @
                      ELSE [status |-> IF t.ready THEN "PENDING" ELSE "NOT_CONFIGURED", owner |-> j]]
                /\ Set(j, IF t.ready THEN [t EXCEPT !.at = "post", !.writes = TRUE]
                          ELSE AfterMail([t EXCEPT !.writes = TRUE]))
                /\ UNCHANGED <<event, briefing, letters, oneWriter>>

\* The row is flushed before any letter is sent.  It waits for the same row of
\* another job; the unique key that fails, and on PostgreSQL the foreign key of
\* a briefing that was deleted, ends the job.
Claim(j) ==
    LET t == job[j]
        row == delivery[t.briefing][t.to]
    IN  /\ t.at = "claim"
        /\ MayWrite(j) /\ row.owner = Nobody /\ NotBeingDeleted(j, t.briefing)
        /\ IF row.status # "NONE" \/ (~oneWriter /\ ~Exists(t.briefing)) THEN Undo(j)
           ELSE /\ delivery' = [delivery EXCEPT ![t.briefing][t.to] =
                      [status |-> IF t.ready THEN "PENDING" ELSE "NOT_CONFIGURED", owner |-> j]]
                /\ Set(j, IF t.ready THEN [t EXCEPT !.at = "post", !.writes = TRUE]
                          ELSE AfterMail([t EXCEPT !.writes = TRUE]))
                /\ UNCHANGED <<event, briefing, letters, oneWriter>>

\* Defect: the answer of an attempt that timed out counts as a success.
PostUnheard(j, taken, heard) ==
    LET t == job[j]
        about == t.items \X {t.to}
        sent == taken \/ ~heard
    IN  /\ t.at = "post"
        /\ taken => \A p \in about : letters[p] < MaxLetters
        /\ letters' = [p \in States \X Recipients |->
                          IF taken /\ p \in about THEN letters[p] + 1 ELSE letters[p]]
        /\ Set(j, [t EXCEPT !.sent = sent, !.attempt = @ + 1,
                            !.at = IF sent \/ t.attempt + 1 = MaxRetries
                                   THEN "finish" ELSE "post"])
        /\ UNCHANGED <<event, briefing, delivery, oneWriter>>

\* Defect: the attempts are counted after the comparison, so there is one more.
PostOnceMore(j, taken, heard) ==
    LET t == job[j]
        about == t.items \X {t.to}
        sent == taken /\ heard
    IN  /\ t.at = "post"
        /\ taken => \A p \in about : letters[p] < MaxLetters
        /\ letters' = [p \in States \X Recipients |->
                          IF taken /\ p \in about THEN letters[p] + 1 ELSE letters[p]]
        /\ Set(j, [t EXCEPT !.sent = sent, !.attempt = @ + 1,
                            !.at = IF sent \/ t.attempt = MaxRetries
                                   THEN "finish" ELSE "post"])
        /\ UNCHANGED <<event, briefing, delivery, oneWriter>>

\* One attempt: the provider takes the letter or not, and its answer is heard
\* or not.  A letter that was taken is out.
Post(j, taken, heard) ==
    LET t == job[j]
        about == t.items \X {t.to}
        sent == taken /\ heard
    IN  /\ t.at = "post"
        /\ taken => \A p \in about : letters[p] < MaxLetters
        /\ letters' = [p \in States \X Recipients |->
                          IF taken /\ p \in about THEN letters[p] + 1 ELSE letters[p]]
        /\ Set(j, [t EXCEPT !.sent = sent, !.attempt = @ + 1,
                            !.at = IF sent \/ t.attempt + 1 = MaxRetries
                                   THEN "finish" ELSE "post"])
        /\ UNCHANGED <<event, briefing, delivery, oneWriter>>

\* Defect: the briefing is marked as sent after a failure, too.
FinishAsSent(j) ==
    LET t == job[j]
        b == t.briefing
        result == IF t.sent THEN "SENT" ELSE "FAILED"
        update == t.loaded # "SENT"
    IN  /\ t.at = "finish"
        /\ \A s \in Jobs \ {j} : update => \A m \in job[s].marks : m[1] # b
        /\ IF update /\ ~Exists(b) THEN Undo(j)
           ELSE /\ delivery' = [delivery EXCEPT ![b][t.to].status = result]
                /\ Set(j, AfterMail([t EXCEPT !.marks = IF update THEN @ \cup {<<b, "SENT">>}
                                                        ELSE @]))
                /\ UNCHANGED <<event, briefing, letters, oneWriter>>

\* The delivery and the briefing get the result.  The briefing is written when
\* its status differs from the one that was read, after other writers of it;
\* a row that was deleted meanwhile ends the job.
Finish(j) ==
    LET t == job[j]
        b == t.briefing
        result == IF t.sent THEN "SENT" ELSE "FAILED"
        update == result # t.loaded
    IN  /\ t.at = "finish"
        /\ \A s \in Jobs \ {j} : update => \A m \in job[s].marks : m[1] # b
        /\ IF update /\ ~Exists(b) THEN Undo(j)
           ELSE /\ delivery' = [delivery EXCEPT ![b][t.to].status = result]
                /\ Set(j, AfterMail([t EXCEPT !.marks = IF update THEN @ \cup {<<b, result>>}
                                                        ELSE @]))
                /\ UNCHANGED <<event, briefing, letters, oneWriter>>

-----------------------------------------------------------------------------
(* RetentionService.run, the end of a job, and the world.                  *)

\* Defect: a briefing is protected only when all its items are.
ExpirableUnlessAll(j) ==
    {b \in Ids : /\ Committed(b)
                 /\ \E s \in briefing[b].items : s \notin Notices
                 /\ \A m \in job[j].marks : m[1] # b}

\* The briefings that may have expired: committed, without a correction or a
\* denial, and not updated by this job.  Time is not counted: any of them may be
\* older than the retention period.
Expirable(j) ==
    {b \in Ids : /\ Committed(b)
                 /\ \A s \in briefing[b].items : s \notin Notices
                 /\ \A m \in job[j].marks : m[1] # b}

\* A row that another job has inserted for the briefing or has updated, or a
\* deletion by another job, makes the deletion wait.
MayDelete(j, b) ==
    /\ NotBeingDeleted(j, b)
    /\ \A r \in Recipients : delivery[b][r].owner \in {j, Nobody}
    /\ \A s \in Jobs \ {j} : \A m \in job[s].marks : m[1] # b

Retain(j) ==
    /\ job[j].at = "retain"
    /\ MayWrite(j)
    /\ \E chosen \in SUBSET Expirable(j) \ {{}} :
          /\ \A b \in chosen : MayDelete(j, b)
          /\ Set(j, [job[j] EXCEPT !.at = "commit", !.deletes = chosen, !.writes = TRUE])
    /\ UNCHANGED <<event, briefing, delivery, letters, oneWriter>>

\* The row after the commit of job j.
Kept(j, b) ==
    LET marks == {m \in job[j].marks : m[1] = b}
        mine == briefing[b].owner = j
    IN  IF marks = {} THEN [briefing[b] EXCEPT !.owner = IF mine THEN Nobody ELSE @]
        ELSE [briefing[b] EXCEPT !.status = (CHOOSE m \in marks : TRUE)[2],
                                 !.owner = Nobody]

\* A cycle may end without a retention; it flushes the record of its run.
Commit(j) ==
    LET t == job[j] IN
    /\ t.at = "commit" \/ (t.at = "retain" /\ MayWrite(j))
    /\ event' = [e \in Events |-> View(j, e)]
    /\ briefing' = [b \in Ids |-> IF b \in t.deletes THEN NoBriefing("DELETED") ELSE Kept(j, b)]
    /\ delivery' = [b \in Ids |-> [r \in Recipients |->
                        IF b \in t.deletes THEN NoDelivery
                        ELSE IF delivery[b][r].owner = j
                        THEN [delivery[b][r] EXCEPT !.owner = Nobody] ELSE delivery[b][r]]]
    /\ Set(j, Idle)
    /\ UNCHANGED <<letters, oneWriter>>

\* A process that is killed, a lock that is not granted in time, a statement
\* that fails.
Crash(j) == job[j] # Idle /\ Undo(j)

-----------------------------------------------------------------------------
Init ==
    /\ event = [e \in Events |-> Plain]
    /\ briefing = [b \in Ids |-> NoBriefing("ABSENT")]
    /\ delivery = [b \in Ids |-> [r \in Recipients |-> NoDelivery]]
    /\ job = [j \in Jobs |-> Idle]
    /\ letters = [p \in States \X Recipients |-> 0]
    /\ oneWriter \in OneWriters

\* At most one event changes in a cycle.  One that turns plain looks to a job
\* like one outside its period.
Syncs == {{}} \cup {{u} : u \in Events \X Facts}

Next ==
    \/ \E j \in Jobs :
          \/ \E sync \in Syncs, session \in Sessions \cup {Nobody} : StartCycle(j, sync, session)
          \/ \E session \in Sessions \cup {Nobody} : StartGenerate(j, session)
          \/ \E b \in Ids : StartSendOf(j, b)
          \/ StartSend(j)
          \/ StartRetention(j)
          \/ \E period \in SUBSET Events : Look(j, period)
          \/ \E b \in Ids : Store(j, b)
          \/ \E taken, heard \in BOOLEAN : Post(j, taken, heard)
          \/ \E to \in Recipients, ready \in BOOLEAN : Lookup(j, to, ready)
          \/ Claim(j) \/ Finish(j) \/ Retain(j) \/ Commit(j)
          \/ Crash(j)

Spec == Init /\ [][Next]_vars

-----------------------------------------------------------------------------
(* What the readers of briefings rely on.                                  *)

\* No state of an event is in two briefings, although jobs look the items up
\* long before they insert theirs.
OneBriefingPerState ==
    \A b, c \in Ids : b # c => briefing[b].items \cap briefing[c].items = {}

\* The status of a committed briefing tells what became of its mail, whatever
\* jobs wrote it: sent means that a delivery was sent, failed that one failed,
\* and as long as neither is written no delivery has ended.
StatusIsTrue ==
    \A b \in Ids : Committed(b) =>
        LET ended == {delivery[b][r].status : r \in {x \in Recipients :
                                                   delivery[b][x].owner = Nobody}}
        IN  IF briefing[b].status \in {"SENT", "FAILED"} THEN briefing[b].status \in ended
            ELSE ended \cap {"SENT", "FAILED"} = {}

\* A correction or a denial that was briefed stays: no retention removes it.
NoticesStay ==
    [][\A b \in Ids : Committed(b) /\ (\E s \in briefing[b].items : s \in Notices) =>
          briefing'[b].items = briefing[b].items]_vars

\* The books: the states and recipients under a committed delivery that is sent.
Recorded ==
    UNION {briefing[b].items \X {r \in Recipients : delivery[b][r] =
                                     [status |-> "SENT", owner |-> Nobody]} : b \in Ids}

Books == INSTANCE Outbox WITH recorded <- Recorded

\* The one exception: on SQLite, a letter that was rendered before its briefing
\* was deleted.
LetterOfDeleted ==
    oneWriter /\ \E j \in Jobs : job[j].at = "post" /\ ~Exists(job[j].briefing)

\* The delivery keeps its promise: no state is mailed again to whom the books
\* say it was mailed, and the books record no letter that did not arrive.
OutboxKept ==
    Books!Init /\ [][Books!Next \/ LetterOfDeleted]_<<letters, Recorded>>
=============================================================================
