---------------------------- MODULE PublicQuotes ----------------------------
(***************************************************************************)
(* The public prices of Bitcoin: services/public_quotes.py behind the      *)
(* command sync-public-quotes, providers/public_quotes.py, and the reports *)
(* of api/providers.py.  A command asks the providers one after the other  *)
(* and writes what it has in one transaction at its end; two commands may  *)
(* overlap.  A provider answers before the command reads the clock.        *)
(*                                                                         *)
(* A price is known by the number of its event at the provider, and time   *)
(* passes with every reading of the clock, as it does in microseconds.     *)
(***************************************************************************)
EXTENDS Integers, Sequences, FiniteSets, FiniteSetsExt, Rows

CONSTANTS
    QuoteCommands,
    QuoteProviders,    \* UPBIT and BINANCE
    QuoteOrders,       \* what a command may ask: sequences of providers
    EnabledProviders,  \* in the settings
    QuoteLife,         \* how long a quote is kept: thirty days
    NoState,
    MaxMoment,         \* bound: the last moment
    MaxEvents          \* bound: events of a provider

\* A command asks a provider once.
ASSUME QuotesAssumption ==
    /\ \A order \in QuoteOrders :
          /\ order \in Seq(QuoteProviders)
          /\ \A m, n \in DOMAIN order : m # n => order[m] # order[n]
    /\ QuoteLife \in Nat

VARIABLES
    moment,
    market,         \* provider -> its last event
    coins,          \* providers for which the user has an active item of BTC
    listedCoins,    \* providers whose instrument and mapping have been made
    quoted,         \* rows of quote_snapshots
    providerState,  \* provider -> ProviderSyncStateRecord, or NoState
    command,        \* command -> what it still asks and is about to write
    heard           \* history: provider -> the newest quote that was stored

quoteVars == <<moment, market, coins, listedCoins, quoted, providerState, command, heard>>

\* since is history: the moment of the answer, before fetched_at was taken.
QuoteSnapshotRecord ==
    [provider : QuoteProviders, event : 1 .. MaxEvents, since : 0 .. MaxMoment,
     fetched : 0 .. MaxMoment, sequence : Nat \ {0}]

ProviderStatus ==
    {"READY", "NOT_CONFIGURED", "RATE_LIMITED", "NETWORK_UNAVAILABLE", "FAILED"}

ProviderSyncStateRecord ==
    [configured : BOOLEAN, status : ProviderStatus, failures : Nat, requests : Nat,
     successes : Nat, lastSuccess : -1 .. MaxMoment]

QuotesOf(p) == {q \in quoted : q.provider = p}

-----------------------------------------------------------------------------
(* One provider in the course of a command.                                *)

\* fetch_btc: one that is not enabled is not asked.
AnswersOf(p) ==
    IF p \in EnabledProviders THEN ProviderStatus \ {"NOT_CONFIGURED"} ELSE {"NOT_CONFIGURED"}

Blank ==
    [configured |-> FALSE, status |-> "FAILED", failures |-> 0, requests |-> 0,
     successes |-> 0, lastSuccess |-> -1]

\* _record_state.
Recorded(p, status) ==
    LET old == IF providerState[p] = NoState THEN Blank ELSE providerState[p]
        asked == IF p \in EnabledProviders THEN 1 ELSE 0
        ready == status = "READY"
    IN  [configured |-> p \in EnabledProviders, status |-> status,
         failures |-> IF ready THEN 0 ELSE old.failures + 1,
         requests |-> old.requests + asked,
         successes |-> old.successes + (IF ready THEN 1 ELSE 0),
         lastSuccess |-> IF ready THEN moment ELSE old.lastSuccess]

\* The quote that is to be stored; none when its fingerprint is there.
Fresh(p, answer) ==
    IF answer.status # "READY" \/ \E q \in QuotesOf(p) : q.event = answer.event THEN {}
    ELSE {[provider |-> p, event |-> answer.event, since |-> answer.since, fetched |-> moment,
           sequence |-> Max({0} \cup {q.sequence : q \in QuotesOf(p)}) + 1]}

Asking(c) == command[c] # NoState /\ command[c].left # <<>> /\ command[c].answer = NoState

\* NOT_APPLICABLE: the user has no active item of it.
Skip(c) ==
    /\ Asking(c) /\ Head(command[c].left) \notin coins
    /\ command' = [command EXCEPT ![c].left = Tail(@)]
    /\ UNCHANGED <<moment, market, coins, listedCoins, quoted, providerState, heard>>

\* The provider answers.
Ask(c, status) ==
    /\ Asking(c)
    /\ LET p == Head(command[c].left) IN
       /\ p \in coins /\ status \in AnswersOf(p)
       /\ command' = [command EXCEPT
             ![c].answer = [status |-> status, event |-> market[p], since |-> moment]]
    /\ UNCHANGED <<moment, market, coins, listedCoins, quoted, providerState, heard>>

\* The command takes the time, and looks at what is stored.  A quote that another
\* one stores between the two is one that Collides finds.
Take(c) ==
    /\ command[c] # NoState /\ command[c].answer # NoState /\ moment < MaxMoment
    /\ LET p == Head(command[c].left)
           answer == command[c].answer
       IN  command' = [command EXCEPT ![c] =
              [left |-> Tail(@.left), answer |-> NoState,
               quotes |-> @.quotes \cup Fresh(p, answer),
               lists |-> IF answer.status = "READY" /\ p \notin listedCoins
                         THEN @.lists \cup {p} ELSE @.lists,
               states |-> Put(@.states, p, [view |-> providerState[p],
                                            new |-> Recorded(p, answer.status)])]]
    /\ moment' = moment + 1
    /\ UNCHANGED <<market, coins, listedCoins, quoted, providerState, heard>>

-----------------------------------------------------------------------------
(* Commands.                                                               *)

StartQuotes(c, order) ==
    /\ command[c] = NoState
    /\ command' = [command EXCEPT ![c] =
                      [left |-> order, answer |-> NoState, quotes |-> {}, lists |-> {},
                       states |-> <<>>]]
    /\ UNCHANGED <<moment, market, coins, listedCoins, quoted, providerState, heard>>

\* A quote, an instrument or a state that another command has stored in the
\* meantime violates a UNIQUE.
Collides(job) ==
    \/ \E q \in job.quotes : \E other \in QuotesOf(q.provider) : other.event = q.event
    \/ job.lists \cap listedCoins # {}
    \/ \E p \in DOMAIN job.states : job.states[p].view = NoState /\ providerState[p] # NoState

\* A command does not last as long as a quote is kept.
CommitQuotes(c) ==
    LET job == command[c] IN
    /\ job # NoState /\ job.left = <<>> /\ ~Collides(job)
    /\ \A q \in job.quotes : q.fetched + QuoteLife > moment
    /\ quoted' = quoted \cup job.quotes
    /\ listedCoins' = listedCoins \cup job.lists
    /\ providerState' =
          [p \in QuoteProviders |->
              IF p \notin DOMAIN job.states THEN providerState[p]
              ELSE IF providerState[p] = NoState THEN job.states[p].new
              ELSE Updated(providerState[p], job.states[p].view, job.states[p].new)]
    /\ heard' = [p \in QuoteProviders |->
                    LET news == {q \in job.quotes : q.provider = p /\ q.event > heard[p].event} IN
                    IF news = {} THEN heard[p]
                    ELSE LET q == CHOOSE q \in news : TRUE IN
                         [event |-> q.event, fetched |-> q.fetched]]
    /\ command' = [command EXCEPT ![c] = NoState]
    /\ UNCHANGED <<moment, market, coins>>

\* A collision, or the end of the process: nothing is written.
AbandonQuotes(c) ==
    /\ command[c] # NoState
    /\ command' = [command EXCEPT ![c] = NoState]
    /\ UNCHANGED <<moment, market, coins, listedCoins, quoted, providerState, heard>>

\* RetentionService.cleanup.
ExpireQuotes ==
    /\ quoted' = {q \in quoted : q.fetched + QuoteLife > moment}
    /\ UNCHANGED <<moment, market, coins, listedCoins, providerState, command, heard>>

-----------------------------------------------------------------------------
(* What goes on around them.                                               *)

NewPrice(p) ==
    /\ market[p] < MaxEvents
    /\ market' = [market EXCEPT ![p] = @ + 1]
    /\ UNCHANGED <<moment, coins, listedCoins, quoted, providerState, command, heard>>

\* Requests on the portfolio.
HoldCoins(S) ==
    /\ S # coins /\ coins' = S
    /\ UNCHANGED <<moment, market, listedCoins, quoted, providerState, command, heard>>

Elapse ==
    /\ moment < MaxMoment /\ moment' = moment + 1
    /\ UNCHANGED <<market, coins, listedCoins, quoted, providerState, command, heard>>

\* Defect: the quote that was stored last is the latest.
LatestBySequence(p) ==
    {q \in QuotesOf(p) : \A other \in QuotesOf(p) : other.sequence <= q.sequence}

\* _latest_quotes: that which was fetched last.
Latest(p) ==
    {q \in QuotesOf(p) : \A other \in QuotesOf(p) : other.fetched <= q.fetched}

QuotesInit ==
    /\ moment = 0 /\ market = [p \in QuoteProviders |-> 1] /\ coins = QuoteProviders
    /\ listedCoins = {} /\ quoted = {}
    /\ providerState = [p \in QuoteProviders |-> NoState]
    /\ command = [c \in QuoteCommands |-> NoState]
    /\ heard = [p \in QuoteProviders |-> [event |-> 0, fetched |-> 0]]

QuotesNext ==
    \/ \E c \in QuoteCommands :
          \/ \E order \in QuoteOrders : StartQuotes(c, order)
          \/ Skip(c)
          \/ \E status \in ProviderStatus : Ask(c, status)
          \/ Take(c)
          \/ CommitQuotes(c)
          \/ AbandonQuotes(c)
    \/ ExpireQuotes
    \/ \E p \in QuoteProviders : NewPrice(p)
    \/ \E S \in SUBSET QuoteProviders : HoldCoins(S)
    \/ Elapse

QuotesSpec == QuotesInit /\ [][QuotesNext]_quoteVars

-----------------------------------------------------------------------------
QuotesTypeOK ==
    /\ moment \in 0 .. MaxMoment /\ market \in [QuoteProviders -> 1 .. MaxEvents]
    /\ coins \subseteq QuoteProviders /\ listedCoins \subseteq QuoteProviders
    /\ quoted \subseteq QuoteSnapshotRecord
    /\ \A p \in QuoteProviders : providerState[p] # NoState =>
          providerState[p] \in ProviderSyncStateRecord

\* The price that is shown of a provider is the newest that any finished sync has
\* brought, in whatever order overlapping syncs committed, and although their
\* numbers in the sequence may be the same: no quote that was stored before the
\* request of the shown one was answered is newer than it, none is lost with the
\* failure of another provider, and nothing is shown only when there was none yet or
\* retention has removed it at its time.  One that was fetched between the answer to
\* the shown one and its fetched_at may be newer, and is hidden by it.
LatestIsNewest ==
    \A p \in QuoteProviders :
        IF Latest(p) = {}
        THEN heard[p].event = 0 \/ heard[p].fetched + QuoteLife <= moment
        ELSE \A q \in Latest(p) :
                \/ q.event = heard[p].event
                \/ q.since <= heard[p].fetched /\ heard[p].fetched <= q.fetched
=============================================================================
