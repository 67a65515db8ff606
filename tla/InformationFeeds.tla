-------------------------- MODULE InformationFeeds --------------------------
(***************************************************************************)
(* Filings and articles together, as the hourly cycle, the commands and    *)
(* the imports feed them to the same information events, and what the      *)
(* readers of the events rely on.  A cycle is the run of OpenDART, the run *)
(* of SEC EDGAR and then the sources, one transaction in the code; here    *)
(* other requests may come between them.                                   *)
(***************************************************************************)
EXTENDS NewsFeed

vars == <<now, filed, item, record, event, cursor, unread, posted, reference, read>>

Init == FeedInit /\ NewsInit

Next ==
    \/ FeedNext /\ UNCHANGED newsVars
    \/ NewsNext

Spec == Init /\ [][Next]_vars

-----------------------------------------------------------------------------
EventKey == Companies \X (Types \cup {"NEWS"}) \X (Claims \cup {Article[a].subject : a \in Articles})

InformationEvent ==
    [claim : Claims \cup {Article[a].claim : a \in Articles},
     summary : Texts \cup {Article[a].claim : a \in Articles},
     type : Types \cup {"NEWS"}, lifecycle : Lifecycle \ {"STALE"},
     verification : Verification \ {"STALE_REUSED"}, material : BOOLEAN, changed : Nat,
     seen : Nat, sources : Nat, official : Nat, news : Nat, origins : Nat]

TypeOK ==
    /\ now \in 1 .. MaxTime
    /\ filed \in [Documents -> 0 .. now]
    /\ item \in [Companies -> ItemStates]
    /\ DOMAIN record \subseteq Documents \X Identities
    /\ \A r \in DOMAIN record : record[r] \in DisclosureRecord
    /\ DOMAIN event \subseteq EventKey
    /\ \A key \in DOMAIN event : event[key] \in InformationEvent
    /\ cursor \in [Providers -> (1 .. now) \cup {None}]
    /\ unread \subseteq Companies
    /\ posted \in [Articles -> 0 .. now]
    /\ DOMAIN reference \subseteq Articles
    /\ \A a \in DOMAIN reference : reference[a] \in NewsReference
    /\ read \in [Sources -> (1 .. now) \cup {None}]

RecordsOf(key) == {r \in DOMAIN record : record[r].event = key}
ReferencesOf(key) == {a \in DOMAIN reference : reference[a].event = key}

\* Behind the cursor of a provider nothing is lost: a company that every run
\* that moved the cursor has read, and read in full, has all its filings stored,
\* although OpenDART tells only the day, and that in another time zone, and
\* although a filing may be listed between two runs of one day.
NothingMissed ==
    \A d \in Documents :
        LET c == CompanyOf(d)
            read_to == cursor[ProviderOf[c]]
        IN  /\ filed[d] # 0 /\ c \notin unread
            /\ read_to # None /\ filed[d] < read_to /\ Published(d) <= read_to
            => <<d, "number">> \in DOMAIN record

\* The counters an event shows agree with what is stored of it, however runs,
\* imports and corrections have added to it: every filing and article counts
\* once, and of every origin exactly one article is the independent one.
CountsAgree ==
    \A key \in DOMAIN event :
        LET arts == ReferencesOf(key)
            origins == {reference[a].origin : a \in arts}
        IN  /\ event[key].sources = Cardinality(RecordsOf(key)) + Cardinality(arts)
            /\ event[key].news = Cardinality(arts)
            /\ event[key].official >= Cardinality(RecordsOf(key))
            /\ event[key].origins = Cardinality(origins)
            /\ \A o \in origins :
                  Cardinality({a \in arts : reference[a].origin = o
                                              /\ reference[a].independent}) = 1

\* What an event of the news is confirmed by is there: two origins, or a filing
\* that shares words with one of its articles, or an official source.
ConfirmationIsBacked ==
    \A key \in DOMAIN event :
        LET arts == ReferencesOf(key) IN
        /\ event[key].verification = "MULTI_SOURCE_CONFIRMED" =>
              Cardinality({reference[a].origin : a \in arts}) > 1
        /\ event[key].type = "NEWS" /\ event[key].verification = "OFFICIAL_CONFIRMED" =>
              \E a \in arts :
                 \/ Source[IF reference[a].manual THEN Article[a].manual
                           ELSE Article[a].source].official
                 \/ \E r \in DOMAIN record : <<a, r[1]>> \in About

\* Whether an event counts as corrected, denied, updated or confirmed changes
\* only with a document that is new to it.  The filings that each run reads
\* again, because runs overlap by a day, and a reprocessing leave it alone.
StateNeedsDocument ==
    [][\A key \in DOMAIN event :
          <<event'[key].lifecycle, event'[key].verification>>
             # <<event[key].lifecycle, event[key].verification>>
          => event'[key].sources > event[key].sources]_vars

=============================================================================
