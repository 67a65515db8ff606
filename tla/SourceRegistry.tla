--------------------------- MODULE SourceRegistry ---------------------------
(***************************************************************************)
(* Sources of expert references, their history and backups, and the        *)
(* subscriptions to them: services/reference_source_management.py,         *)
(* reference_source_history.py, sqlite_backup.py and                       *)
(* reference_subscriptions.py behind /analyst-references/subscriptions,    *)
(* and scripts/reference_real_source_bootstrap.py beside them.             *)
(*                                                                         *)
(* A request loads the row that it is about, checks what else it depends   *)
(* on, and writes: three steps, because SQLite is asked for a transaction  *)
(* by the first write only.  A request that is refused has no effect, and  *)
(* listings and previews write nothing; so neither is a step.              *)
(***************************************************************************)
EXTENDS Integers, Sequences, FiniteSets, SequencesExt, Rows

CONSTANTS
    SourceIds, SubscriptionIds, Requests,
    SourceNames, FoldOf,   \* names, and what of a name sources are told apart by
    Feeds,                 \* an address with a provider type; Nothing if one is missing
    UnsafeFeeds,           \* not https, not public, or not of the domain
    Details,               \* grade, language, interval, time limit, number of items
    SourcePatches,         \* the fields a PATCH of a source may carry, with values
    Bootstrapped,          \* the source that the script makes
    SubscriptionNames, Terms, SubscriptionPatches,
    Nothing,
    MaxChanges             \* bound: rows of the history

VARIABLES
    source,        \* id -> SourceRecord
    subscription,  \* id -> ReferenceSubscriptionRecord
    change,        \* ReferenceSourceChangeRecord, oldest first
    request,       \* request -> what it has read and is about to write
    crossed        \* history: sources written to by a request while another one wrote

registryVars == <<source, subscription, change, request, crossed>>

SourceRecord ==
    [name : SourceNames, feed : Feeds \cup {Nothing}, official : BOOLEAN, enabled : BOOLEAN,
     detail : Details]

MatchModes == {"ALL_SOURCE", "AUTHOR", "KEYWORD"}

SubscriptionRecord ==
    [source : SourceIds, name : SubscriptionNames, mode : MatchModes,
     terms : SUBSET Terms, enabled : BOOLEAN]

Managed == {"name", "feed", "official", "enabled", "detail"}

\* Defect: what decides whether a source may be read is not protected.
ProtectedIdentity == {"name", "feed"}

Protected == {"name", "feed", "official", "enabled"}

-----------------------------------------------------------------------------
(* Conditions.                                                             *)

\* The blocking warnings of _normalize_source_values.
Blocked(new) == new.feed \in UnsafeFeeds \/ (new.enabled /\ new.feed = Nothing)

\* The schemas of the two PATCH requests name these fields only: a subscription
\* stays with its source.  The script makes a source that the service would accept.
ASSUME RegistryAssumption ==
    /\ \A patch \in SourcePatches : DOMAIN patch \subseteq Managed
    /\ \A patch \in SubscriptionPatches : DOMAIN patch \subseteq {"name", "mode", "terms", "enabled"}
    /\ Bootstrapped \in SourceRecord /\ ~Blocked(Bootstrapped)

\* _duplicate_source.
Clash(new, own) ==
    \E s \in DOMAIN source \ {own} :
        \/ FoldOf[source[s].name] = FoldOf[new.name]
        \/ new.feed # Nothing /\ source[s].feed = new.feed

\* The UNIQUE of the name, which is of its exact letters.
NameTaken(new, own) == \E s \in DOMAIN source \ {own} : source[s].name = new.name

Open(s) == source[s].official /\ source[s].enabled

SubscriptionsOf(s) == {u \in DOMAIN subscription : subscription[u].source = s}
Active(s) == {u \in SubscriptionsOf(s) : subscription[u].enabled}

\* by_identity, and the UNIQUE of it.
SubscriptionTaken(new, own) ==
    \E u \in SubscriptionsOf(new.source) \ {own} : subscription[u].name = new.name

-----------------------------------------------------------------------------
(* The steps of a request.                                                 *)

Idle(r) == request[r] = Nothing

SourceOf(q) == IF q.about = "subscription" THEN q.new.source ELSE q.id

\* view is the row as it was loaded, Nothing for a new one; others says whether
\* another request has written since.
Loaded(about, id, view, new, phase, backup) ==
    [about |-> about, id |-> id, view |-> view, new |-> new, phase |-> phase,
     backup |-> backup, others |-> FALSE]

LoadSource(r, s, patch) ==
    LET new == Patched(source[s], patch) IN
    /\ Idle(r) /\ ~Blocked(new) /\ Differing(source[s], new) # {}
    /\ request' = [request EXCEPT ![r] = Loaded("source", s, source[s], new, "loaded", Nothing)]
    /\ UNCHANGED <<source, subscription, change, crossed>>

\* The backup copies the database as committed when the checks have passed.
CheckSource(r) ==
    LET q == request[r] IN
    /\ q # Nothing /\ q.about = "source" /\ q.phase = "loaded"
    /\ ~Clash(q.new, q.id)
    /\ Active(q.id) # {} => Differing(q.view, q.new) \cap Protected = {}
    /\ request' = [request EXCEPT ![r].phase = "checked", ![r].backup = source]
    /\ UNCHANGED <<source, subscription, change, crossed>>

CheckNewSource(r, s, new) ==
    /\ Idle(r) /\ s \notin DOMAIN source
    /\ new.feed # Nothing /\ ~Blocked(new) /\ ~Clash(new, s)
    /\ request' = [request EXCEPT ![r] = Loaded("source", s, Nothing, new, "checked", source)]
    /\ UNCHANGED <<source, subscription, change, crossed>>

LoadSubscription(r, u, patch) ==
    LET old == subscription[u]
        patched == Patched(old, patch)
        new == [patched EXCEPT !.terms = IF patched.mode = "ALL_SOURCE" THEN {} ELSE @]
    IN  /\ Idle(r)
        /\ new.mode = "ALL_SOURCE" \/ new.terms # {}
        /\ request' = [request EXCEPT ![r] =
                          Loaded("subscription", u, old, new, "loaded", Nothing)]
        /\ UNCHANGED <<source, subscription, change, crossed>>

CheckSubscription(r) ==
    LET q == request[r] IN
    /\ q # Nothing /\ q.about = "subscription" /\ q.phase = "loaded"
    /\ q.new.enabled => Open(q.new.source)
    /\ q.new.name # q.view.name => ~SubscriptionTaken(q.new, q.id)
    /\ request' = [request EXCEPT ![r].phase = "checked"]
    /\ UNCHANGED <<source, subscription, change, crossed>>

\* A new subscription is active.  That its terms suit its mode is not asked.
CheckNewSubscription(r, u, new) ==
    /\ Idle(r) /\ u \notin DOMAIN subscription
    /\ new.source \in DOMAIN source /\ Open(new.source) /\ ~SubscriptionTaken(new, u)
    /\ new.enabled
    /\ request' = [request EXCEPT ![r] =
                      Loaded("subscription", u, Nothing, new, "checked", Nothing)]
    /\ UNCHANGED <<source, subscription, change, crossed>>

\* The script looks for its source by exact name and by domain, of which a feed
\* here is the only address, makes its backup, and ends its transaction.
FindExisting(r, s) ==
    /\ Idle(r) /\ s \notin DOMAIN source
    /\ \A t \in DOMAIN source :
          source[t].name # Bootstrapped.name /\ source[t].feed # Bootstrapped.feed
    /\ request' = [request EXCEPT ![r] =
                      Loaded("bootstrap", s, Nothing, Bootstrapped, "checked", source)]
    /\ UNCHANGED <<source, subscription, change, crossed>>

\* A request ends without a write: refused, or failed at a UNIQUE.
GiveUp(r) ==
    /\ ~Idle(r)
    /\ request' = [request EXCEPT ![r] = Nothing]
    /\ UNCHANGED <<source, subscription, change, crossed>>

\* The writer is done, and whoever is at work on the same source is overtaken.
Overtaken(q, s) == IF q # Nothing /\ SourceOf(q) = s THEN [q EXCEPT !.others = TRUE] ELSE q

Done(r) ==
    LET s == SourceOf(request[r]) IN
    /\ request' = [p \in Requests |-> IF p = r THEN Nothing ELSE Overtaken(request[p], s)]
    /\ crossed' = IF request[r].others THEN crossed \cup {s} ELSE crossed

\* The row takes the columns in which the request differs from what it loaded.
Stored(row, q) ==
    IF q.view = Nothing THEN q.new ELSE Updated(row, q.view, q.new)

\* Defect: the history is left out when nothing protected has changed.
ChangeProtected(q) ==
    LET fields == IF q.view = Nothing THEN Managed ELSE Differing(q.view, q.new) IN
    IF fields \cap Protected = {} THEN <<>>
    ELSE << [source |-> q.id, before |-> IF q.view = Nothing THEN Nothing ELSE Restrict(q.view, fields),
             after |-> Restrict(q.new, fields), backup |-> q.backup] >>

\* create_reference_source_change, of the fields that changed.
Change(q) ==
    LET fields == IF q.view = Nothing THEN Managed ELSE Differing(q.view, q.new) IN
    << [source |-> q.id, before |-> IF q.view = Nothing THEN Nothing ELSE Restrict(q.view, fields),
        after |-> Restrict(q.new, fields), backup |-> q.backup] >>

WriteSource(r) ==
    LET q == request[r] IN
    /\ q # Nothing /\ q.about = "source" /\ q.phase = "checked"
    /\ Len(change) < MaxChanges
    /\ ~NameTaken(q.new, q.id) \/ (q.view # Nothing /\ q.view.name = q.new.name)
    /\ q.view = Nothing => q.id \notin DOMAIN source
    /\ source' = Put(source, q.id, Stored(IF q.view = Nothing THEN q.new ELSE source[q.id], q))
    /\ change' = change \o Change(q)
    /\ Done(r)
    /\ UNCHANGED subscription

\* It writes its source in another transaction, without a row of the history;
\* what it checks after that undoes nothing.
WriteBootstrapped(r) ==
    LET q == request[r] IN
    /\ q # Nothing /\ q.about = "bootstrap"
    /\ ~NameTaken(q.new, q.id) /\ q.id \notin DOMAIN source
    /\ source' = Put(source, q.id, q.new)
    /\ Done(r)
    /\ UNCHANGED <<subscription, change>>

WriteSubscription(r) ==
    LET q == request[r] IN
    /\ q # Nothing /\ q.about = "subscription" /\ q.phase = "checked"
    /\ ~SubscriptionTaken(q.new, q.id)
    /\ q.view = Nothing => q.id \notin DOMAIN subscription
    /\ subscription' = Put(subscription, q.id,
                           Stored(IF q.view = Nothing THEN q.new ELSE subscription[q.id], q))
    /\ Done(r)
    /\ UNCHANGED <<source, change>>

-----------------------------------------------------------------------------
RegistryInit ==
    /\ source = <<>> /\ subscription = <<>> /\ change = <<>>
    /\ request = [r \in Requests |-> Nothing]
    /\ crossed = {}

\* POST and PATCH of /subscriptions/source-management.
SourceRequest(r) ==
    \/ \E s \in DOMAIN source, patch \in SourcePatches : LoadSource(r, s, patch)
    \/ CheckSource(r)
    \/ \E s \in SourceIds, new \in SourceRecord : CheckNewSource(r, s, new)
    \/ WriteSource(r)

\* POST /subscriptions/import and PATCH /subscriptions/{id}.
SubscriptionRequest(r) ==
    \/ \E u \in DOMAIN subscription, patch \in SubscriptionPatches :
          LoadSubscription(r, u, patch)
    \/ CheckSubscription(r)
    \/ \E u \in SubscriptionIds, new \in SubscriptionRecord : CheckNewSubscription(r, u, new)
    \/ WriteSubscription(r)

\* main of the script, which another process runs.
Bootstrap(r) == (\E s \in SourceIds : FindExisting(r, s)) \/ WriteBootstrapped(r)

RegistryNext ==
    \E r \in Requests : SourceRequest(r) \/ SubscriptionRequest(r) \/ Bootstrap(r) \/ GiveUp(r)

RegistrySpec == RegistryInit /\ [][RegistryNext]_registryVars

-----------------------------------------------------------------------------
RegistryTypeOK ==
    /\ DOMAIN source \subseteq SourceIds
    /\ \A s \in DOMAIN source : source[s] \in SourceRecord
    /\ DOMAIN subscription \subseteq SubscriptionIds
    /\ \A u \in DOMAIN subscription :
          subscription[u] \in SubscriptionRecord /\ subscription[u].source \in DOMAIN source
    /\ Len(change) <= MaxChanges
    /\ \A i \in 1 .. Len(change) : change[i].source \in DOMAIN source
    /\ \A r \in Requests :
          request[r] # Nothing =>
             /\ request[r].about \in {"source", "subscription", "bootstrap"}
             /\ request[r].phase \in {"loaded", "checked"}
    /\ crossed \subseteq DOMAIN source

Names(i, s, f) == change[i].source = s /\ f \in DOMAIN change[i].after

\* What the first n changes say of a source: of each field the value in the last
\* change that names it.
Attested(row, s, n) ==
    \A f \in DOMAIN row, i \in 1 .. n :
        Names(i, s, f) /\ (\A j \in i + 1 .. n : ~Names(j, s, f)) => row[f] = change[i].after[f]

\* The last change of a source that names a field shows the value the source
\* has, also when requests overlap and each writes over what it did not see.
\* While they do not, each change starts from what the ones before it left, and
\* its backup holds the source as it was before.
HistoryShowsSource ==
    \A s \in DOMAIN source :
        /\ Attested(source[s], s, Len(change))
        /\ s \notin crossed =>
              \A i \in 1 .. Len(change) : change[i].source = s /\ change[i].before # Nothing =>
                 /\ Attested(change[i].before, s, i - 1)
                 /\ Attested(change[i].backup[s], s, i - 1)
                 /\ \A f \in DOMAIN change[i].before : change[i].before[f] = change[i].backup[s][f]

\* A subscription is active only while its source is official and enabled and
\* has what it takes to be read: the source is not changed under it, and it is
\* not resumed on a source that was closed, as long as the two requests are not
\* at work at the same time.
ActiveNeedsOpen ==
    \A s \in DOMAIN source \ crossed :
        Active(s) # {} => Open(s) /\ ~Blocked(source[s])
=============================================================================
