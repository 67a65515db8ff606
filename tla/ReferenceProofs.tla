--------------------------- MODULE ReferenceProofs ---------------------------
(***************************************************************************)
(* Theorems about the sources of expert references and the scheduler that  *)
(* collects from them.                                                     *)
(*                                                                         *)
(* Sources: an active subscription has a source that is open and can be    *)
(* read, for any number of sources, subscriptions and requests at a time.  *)
(* A request that no other one has overtaken has loaded the rows that are  *)
(* there, so what it has checked of the other table still holds when it    *)
(* writes, and what it writes about the row into the history is true.      *)
(*                                                                         *)
(* Batches: one begins at the newest reference of its subscription, and    *)
(* what it looks at no more has been stored, or has been overtaken by a    *)
(* user, by an index that lists out of order, or by a change of the terms. *)
(*                                                                         *)
(* Scheduler: what its lock promises, for every set of runs and every      *)
(* limit, whether or not open files can be moved and removed.              *)
(***************************************************************************)
EXTENDS SchedulerLock, ReferenceBatch, TLAPS, FiniteSetTheorems,
        WellFoundedInduction

-----------------------------------------------------------------------------
(* Sources and subscriptions.                                              *)

Columns == {"source", "name", "mode", "terms", "enabled"}

\* A request on a source: what it has loaded, and what it has checked.
SourceWork(q) ==
    /\ DOMAIN q.new = Managed /\ ~Blocked(q.new)
    /\ q.view # Nothing =>
          /\ q.id \in DOMAIN source /\ DOMAIN q.view = Managed
          /\ ~q.others => q.view = source[q.id]
          /\ q.phase = "checked" /\ ~q.others /\ Active(q.id) # {} =>
                Differing(q.view, q.new) \cap Protected = {}

\* A request on a subscription.
SubscriptionWork(q) ==
    /\ DOMAIN q.new = Columns /\ q.new.source \in DOMAIN source
    /\ q.view # Nothing =>
          /\ q.id \in DOMAIN subscription /\ DOMAIN q.view = Columns
          /\ q.view.source = q.new.source /\ subscription[q.id].source = q.new.source
          /\ ~q.others => q.view = subscription[q.id]
    /\ q.phase = "checked" /\ ~q.others /\ q.new.enabled => Open(q.new.source)

Work(q) ==
    /\ q = [about |-> q.about, id |-> q.id, view |-> q.view, new |-> q.new, phase |-> q.phase,
            backup |-> q.backup, others |-> q.others]
    /\ q.about \in {"source", "subscription", "bootstrap"}
    /\ q.about = "source" => SourceWork(q)
    /\ q.about = "subscription" => SubscriptionWork(q)
    /\ q.about = "bootstrap" => q.new = Bootstrapped

Tables ==
    /\ \A s \in DOMAIN source : DOMAIN source[s] = Managed
    /\ \A u \in DOMAIN subscription :
          DOMAIN subscription[u] = Columns /\ subscription[u].source \in DOMAIN source

Readable == \A s \in DOMAIN source \ crossed : ~Blocked(source[s])

RegistryInv ==
    /\ request = [r \in Requests |-> request[r]]
    /\ Tables /\ Readable /\ ActiveNeedsOpen
    /\ \A r \in Requests : request[r] # Nothing => Work(request[r])

-----------------------------------------------------------------------------
LEMMA PatchedColumns ==
    ASSUME NEW row, NEW patch, DOMAIN patch \subseteq DOMAIN row
    PROVE  /\ DOMAIN Patched(row, patch) = DOMAIN row
           /\ \A f \in DOMAIN row \ DOMAIN patch : Patched(row, patch)[f] = row[f]
  BY DEF Patched

\* The mapper leaves a row with its columns, those that the request has changed
\* as it has them and the others as they are.
LEMMA UpdatedRow ==
    ASSUME NEW row, NEW view, NEW new,
           DOMAIN view = DOMAIN row, DOMAIN new = DOMAIN row
    PROVE  /\ DOMAIN Updated(row, view, new) = DOMAIN row
           /\ \A f \in DOMAIN row : Updated(row, view, new)[f] =
                 IF f \in Differing(view, new) THEN new[f] ELSE row[f]
  BY DEF Updated, Patched, Differing, Restrict

LEMMA RegistryStart == RegistryInit => RegistryInv
  BY DEF RegistryInit, RegistryInv, Tables, Readable, ActiveNeedsOpen

\* A request that only reads keeps the invariant, if what it then works on is in
\* order.
LEMMA Reads ==
    ASSUME RegistryInv, NEW r \in Requests, NEW q, Work(q),
           request' = [request EXCEPT ![r] = q],
           UNCHANGED <<source, subscription, crossed>>
    PROVE  RegistryInv'
<1>1. \A p \in Requests : request'[p] = IF p = r THEN q ELSE request[p]
  BY DEF RegistryInv
<1>2. \A p \in Requests : request'[p] # Nothing => Work(request'[p])
  BY <1>1 DEF RegistryInv
<1>3. ASSUME NEW p \in Requests, request'[p] # Nothing PROVE Work(request[p])'
  <2> DEFINE w == request'[p]
  <2>1. Work(w)
    BY <1>2, <1>3
  <2> QED
    BY <2>1 DEF Work, SourceWork, SubscriptionWork, Open, Active, SubscriptionsOf
<1>4. request' = [p \in Requests |-> request'[p]]
  BY DEF RegistryInv
<1> QED
  BY <1>3, <1>4
  DEF RegistryInv, Tables, Readable, ActiveNeedsOpen, Open, Active, SubscriptionsOf

\* A source is written: whoever is at work on it is overtaken, the others look at
\* rows that stay.
LEMMA SourceWritten ==
    ASSUME RegistryInv, NEW r \in Requests, request[r] # Nothing, NEW row,
           LET s == SourceOf(request[r]) IN
           /\ source' = Put(source, s, row) /\ DOMAIN row = Managed
           /\ s \notin crossed' => ~Blocked(row)
           /\ s \notin crossed' /\ Active(s) # {} => row.official /\ row.enabled,
           Done(r), UNCHANGED subscription
    PROVE  RegistryInv'
<1> DEFINE s == SourceOf(request[r])
<1>1. /\ DOMAIN source' = DOMAIN source \cup {s}
      /\ source'[s] = row /\ \A t \in DOMAIN source : t # s => source'[t] = source[t]
  BY DEF Put
<1>2. /\ crossed \subseteq crossed'
      /\ request' = [p \in Requests |-> IF p = r THEN Nothing ELSE Overtaken(request[p], s)]
  BY DEF Done
<1>3. s \notin crossed' => ~Blocked(row)
  OBVIOUS
<1>4. s \notin crossed' /\ Active(s) # {} => row.official /\ row.enabled
  OBVIOUS
<1>5. DOMAIN row = Managed
  OBVIOUS
<1> HIDE DEF s
<1>6. Tables'
  BY <1>1, <1>5 DEF RegistryInv, Tables
<1>7. Readable'
  <2> SUFFICES ASSUME NEW t \in DOMAIN source', t \notin crossed' PROVE ~Blocked(source'[t])
    BY DEF Readable, Blocked
  <2>1. CASE t = s
    BY <2>1, <1>1, <1>3
  <2>2. CASE t # s
    BY <2>2, <1>1, <1>2 DEF RegistryInv, Readable
  <2> QED
    BY <2>1, <2>2
<1>8. ActiveNeedsOpen'
  <2> SUFFICES ASSUME NEW t \in DOMAIN source', t \notin crossed', Active(t)' # {}
               PROVE  Open(t)'
    BY <1>7 DEF ActiveNeedsOpen, Readable
  <2>1. Active(t) # {}
    BY DEF Active, SubscriptionsOf
  <2>2. CASE t = s
    BY <2>1, <2>2, <1>1, <1>4 DEF Open
  <2>3. CASE t # s
    BY <2>1, <2>3, <1>1, <1>2 DEF RegistryInv, ActiveNeedsOpen, Open
  <2> QED
    BY <2>2, <2>3
<1>9. ASSUME NEW p \in Requests, request'[p] # Nothing PROVE Work(request[p])'
  <2>1. /\ request[p] # Nothing /\ Work(request[p])
        /\ request'[p] = Overtaken(request[p], s)
    BY <1>2, <1>9 DEF RegistryInv, Overtaken
  <2>2. CASE SourceOf(request[p]) = s
    <3>1. request'[p] = [request[p] EXCEPT !.others = TRUE]
      BY <2>1, <2>2 DEF Overtaken
    <3> QED
      BY <3>1, <2>1, <1>1 DEF Work, SourceWork, SubscriptionWork
  <2>3. CASE SourceOf(request[p]) # s
    <3>1. request'[p] = request[p]
      BY <2>1, <2>3 DEF Overtaken
    <3> QED
      BY <3>1, <2>1, <2>3, <1>1
      DEF Work, SourceWork, SubscriptionWork, SourceOf, Open, Active, SubscriptionsOf
  <2> QED
    BY <2>2, <2>3
<1> QED
  BY <1>2, <1>6, <1>7, <1>8, <1>9 DEF RegistryInv

LEMMA SubscriptionWritten ==
    ASSUME RegistryInv, NEW r \in Requests, request[r] # Nothing, NEW u, NEW row,
           LET s == SourceOf(request[r]) IN
           /\ DOMAIN row = Columns /\ row.source = s /\ s \in DOMAIN source
           /\ u \in DOMAIN subscription => subscription[u].source = s
           /\ s \notin crossed' /\ row.enabled => Open(s),
           subscription' = Put(subscription, u, row), Done(r), UNCHANGED source
    PROVE  RegistryInv'
<1> DEFINE s == SourceOf(request[r])
<1>1. /\ DOMAIN subscription' = DOMAIN subscription \cup {u} /\ subscription'[u] = row
      /\ \A v \in DOMAIN subscription : v # u => subscription'[v] = subscription[v]
  BY DEF Put
<1>2. /\ crossed \subseteq crossed'
      /\ request' = [p \in Requests |-> IF p = r THEN Nothing ELSE Overtaken(request[p], s)]
  BY DEF Done
<1>3. /\ DOMAIN row = Columns /\ row.source = s /\ s \in DOMAIN source
      /\ u \in DOMAIN subscription => subscription[u].source = s
      /\ s \notin crossed' /\ row.enabled => Open(s)
  OBVIOUS
<1> HIDE DEF s
<1>4. Tables'
  BY <1>1, <1>3 DEF RegistryInv, Tables
<1>5. Readable'
  BY <1>2 DEF RegistryInv, Readable, Blocked
<1>6. \A t : t # s => Active(t)' = Active(t)
  BY <1>1, <1>3 DEF Active, SubscriptionsOf
<1>7. ActiveNeedsOpen'
  <2> SUFFICES ASSUME NEW t \in DOMAIN source', t \notin crossed', Active(t)' # {}
               PROVE  Open(t)'
    BY <1>5 DEF ActiveNeedsOpen, Readable
  <2>1. CASE t = s
    <3>1. PICK v \in DOMAIN subscription' :
             subscription'[v].source = t /\ subscription'[v].enabled
      BY DEF Active, SubscriptionsOf
    <3>2. CASE v = u
      BY <3>1, <3>2, <2>1, <1>1, <1>3 DEF Open
    <3>3. CASE v # u
      <4>1. v \in Active(t)
        BY <3>1, <3>3, <1>1 DEF Active, SubscriptionsOf
      <4> QED
        BY <4>1, <1>2 DEF RegistryInv, ActiveNeedsOpen, Open
    <3> QED
      BY <3>2, <3>3
  <2>2. CASE t # s
    BY <2>2, <1>6, <1>2 DEF RegistryInv, ActiveNeedsOpen, Open
  <2> QED
    BY <2>1, <2>2
<1>8. ASSUME NEW p \in Requests, request'[p] # Nothing PROVE Work(request[p])'
  <2>1. /\ request[p] # Nothing /\ Work(request[p])
        /\ request'[p] = Overtaken(request[p], s)
    BY <1>2, <1>8 DEF RegistryInv, Overtaken
  <2>2. CASE SourceOf(request[p]) = s
    <3>1. request'[p] = [request[p] EXCEPT !.others = TRUE]
      BY <2>1, <2>2 DEF Overtaken
    <3>2. request[p].about = "source" => SourceWork(request[p])'
      BY <3>1, <2>1 DEF Work, SourceWork
    <3>3. request[p].about = "subscription" => SubscriptionWork(request[p])'
      <4> SUFFICES ASSUME request[p].about = "subscription"
                   PROVE  SubscriptionWork(request[p])'
        OBVIOUS
      <4>1. SubscriptionWork(request[p]) /\ request[p].new.source = s
        BY <2>1, <2>2 DEF Work, SourceOf
      <4>2. /\ request'[p].others = TRUE /\ request'[p].view = request[p].view
            /\ request'[p].new = request[p].new /\ request'[p].id = request[p].id
        BY <3>1, <2>1 DEF Work
      <4> QED
        BY <4>1, <4>2, <1>1, <1>3 DEF SubscriptionWork
    <3> QED
      BY <3>1, <3>2, <3>3, <2>1 DEF Work
  <2>3. CASE SourceOf(request[p]) # s
    <3>1. request'[p] = request[p]
      BY <2>1, <2>3 DEF Overtaken
    <3>2. request[p].about = "source" => request[p].id # s
      BY <2>3 DEF SourceOf
    <3>3. request[p].about = "source" => SourceWork(request[p])'
      BY <3>1, <3>2, <2>1, <1>6 DEF Work, SourceWork
    <3>4. request[p].about = "subscription" => SubscriptionWork(request[p])'
      BY <3>1, <2>1, <2>3, <1>1, <1>3 DEF Work, SubscriptionWork, SourceOf, Open
    <3> QED
      BY <3>1, <3>3, <3>4, <2>1 DEF Work
  <2> QED
    BY <2>2, <2>3
<1> QED
  BY <1>2, <1>4, <1>5, <1>7, <1>8 DEF RegistryInv

-----------------------------------------------------------------------------
LEMMA SourceSteps ==
    ASSUME RegistryInv, NEW r \in Requests, SourceRequest(r)
    PROVE  RegistryInv'
<1>1. ASSUME NEW s \in DOMAIN source, NEW patch \in SourcePatches, LoadSource(r, s, patch)
      PROVE  RegistryInv'
  <2> DEFINE new == Patched(source[s], patch)
             q == Loaded("source", s, source[s], new, "loaded", Nothing)
  <2>1. /\ ~Blocked(new) /\ request' = [request EXCEPT ![r] = q]
        /\ UNCHANGED <<source, subscription, crossed>>
    BY <1>1 DEF LoadSource
  <2>2. DOMAIN source[s] = Managed /\ DOMAIN new = Managed
    BY RegistryAssumption, PatchedColumns DEF RegistryInv, Tables
  <2> HIDE DEF new
  <2>3. Work(q)
    BY <2>1, <2>2 DEF Work, SourceWork, Loaded
  <2> HIDE DEF q
  <2> QED
    BY <2>1, <2>3, Reads
<1>2. ASSUME CheckSource(r) PROVE RegistryInv'
  <2> DEFINE q == request[r]
             phased == [q EXCEPT !.phase = "checked"]
             checked == [phased EXCEPT !.backup = source]
  <2>1. /\ q # Nothing /\ q.about = "source"
        /\ Active(q.id) # {} => Differing(q.view, q.new) \cap Protected = {}
        /\ request' = [request EXCEPT ![r] = checked]
        /\ UNCHANGED <<source, subscription, crossed>>
    BY <1>2 DEF CheckSource, RegistryInv
  <2>2. Work(q)
    BY <2>1 DEF RegistryInv
  <2>3. checked = [about |-> q.about, id |-> q.id, view |-> q.view, new |-> q.new,
                   phase |-> "checked", backup |-> source, others |-> q.others]
    <3>1. phased = [about |-> q.about, id |-> q.id, view |-> q.view, new |-> q.new,
                    phase |-> "checked", backup |-> q.backup, others |-> q.others]
      BY <2>2 DEF Work
    <3> HIDE DEF phased
    <3> QED
      BY <3>1
  <2> HIDE DEF checked
  <2>4. SourceWork(checked)
    BY <2>1, <2>2, <2>3 DEF Work, SourceWork
  <2>5. Work(checked)
    BY <2>1, <2>3, <2>4 DEF Work
  <2> QED
    BY <2>1, <2>5, Reads
<1>3. ASSUME NEW s \in SourceIds, NEW new \in SourceRecord, CheckNewSource(r, s, new)
      PROVE  RegistryInv'
  <2> DEFINE q == Loaded("source", s, Nothing, new, "checked", source)
  <2>1. /\ ~Blocked(new) /\ request' = [request EXCEPT ![r] = q]
        /\ UNCHANGED <<source, subscription, crossed>>
    BY <1>3 DEF CheckNewSource
  <2>2. DOMAIN new = Managed
    BY DEF SourceRecord, Managed
  <2>3. Work(q)
    BY <2>1, <2>2 DEF Work, SourceWork, Loaded
  <2> HIDE DEF q
  <2> QED
    BY <2>1, <2>3, Reads
<1>4. ASSUME WriteSource(r) PROVE RegistryInv'
  <2> DEFINE q == request[r]
             row == Stored(IF q.view = Nothing THEN q.new ELSE source[q.id], q)
  <2>1. /\ q # Nothing /\ q.about = "source" /\ q.phase = "checked"
        /\ q.view = Nothing => q.id \notin DOMAIN source
        /\ source' = Put(source, q.id, row) /\ Done(r) /\ UNCHANGED subscription
    BY <1>4 DEF WriteSource
  <2>2. SourceWork(q)
    BY <2>1 DEF RegistryInv, Work
  <2>3. SourceOf(q) = q.id
    BY <2>1 DEF SourceOf
  <2>4. q.id \notin crossed' => ~q.others /\ q.id \notin crossed
    BY <2>1, <2>3 DEF Done
  <2>5. CASE q.view = Nothing
    <3>1. row = q.new
      BY <2>5 DEF Stored
    <3>2. Active(q.id) = {}
      BY <2>1, <2>5 DEF RegistryInv, Tables, Active, SubscriptionsOf
    <3> HIDE DEF row
    <3> QED
      BY <3>1, <3>2, <2>1, <2>2, <2>3, SourceWritten DEF SourceWork
  <2>6. CASE q.view # Nothing
    <3>1. /\ row = Updated(source[q.id], q.view, q.new) /\ q.id \in DOMAIN source
          /\ DOMAIN source[q.id] = Managed
          /\ DOMAIN q.view = Managed /\ DOMAIN q.new = Managed
      BY <2>2, <2>6 DEF Stored, SourceWork, RegistryInv, Tables
    <3> HIDE DEF row
    <3>2. /\ DOMAIN row = Managed
          /\ \A f \in Managed :
                row[f] = IF f \in Differing(q.view, q.new) THEN q.new[f] ELSE source[q.id][f]
      BY <3>1, UpdatedRow
    <3>3. ~q.others => \A f \in Managed : row[f] = q.new[f]
      BY <3>1, <3>2, <2>2, <2>6 DEF SourceWork, Differing
    <3>4. q.id \notin crossed' => ~Blocked(row)
      BY <3>3, <2>2, <2>4 DEF SourceWork, Blocked, Managed
    <3>5. ASSUME q.id \notin crossed', Active(q.id) # {}
          PROVE  row.official /\ row.enabled
      <4>1. Open(q.id)
        BY <3>1, <3>5, <2>4 DEF RegistryInv, ActiveNeedsOpen
      <4>2. row.official = source[q.id].official /\ row.enabled = source[q.id].enabled
        BY <3>2, <3>5, <2>1, <2>2, <2>4, <2>6 DEF SourceWork, Protected, Managed
      <4> QED
        BY <4>1, <4>2 DEF Open
    <3> QED
      BY <3>2, <3>4, <3>5, <2>1, <2>3, SourceWritten
  <2> QED
    BY <2>5, <2>6
<1> QED
  BY <1>1, <1>2, <1>3, <1>4 DEF SourceRequest

LEMMA SubscriptionSteps ==
    ASSUME RegistryInv, NEW r \in Requests, SubscriptionRequest(r)
    PROVE  RegistryInv'
<1>1. ASSUME NEW u \in DOMAIN subscription, NEW patch \in SubscriptionPatches,
             LoadSubscription(r, u, patch)
      PROVE  RegistryInv'
  <2> DEFINE old == subscription[u]
             patched == Patched(old, patch)
             new == [patched EXCEPT !.terms = IF patched.mode = "ALL_SOURCE" THEN {} ELSE @]
             q == Loaded("subscription", u, old, new, "loaded", Nothing)
  <2>1. request' = [request EXCEPT ![r] = q] /\ UNCHANGED <<source, subscription, crossed>>
    BY <1>1 DEF LoadSubscription
  <2>2. DOMAIN old = Columns /\ old.source \in DOMAIN source
    BY DEF RegistryInv, Tables
  <2>3. DOMAIN patched = Columns /\ patched.source = old.source
    BY <2>2, RegistryAssumption, PatchedColumns DEF Columns
  <2> HIDE DEF patched
  <2>4. DOMAIN new = Columns /\ new.source = old.source
    BY <2>3 DEF Columns
  <2> HIDE DEF new
  <2>5. Work(q)
    BY <2>2, <2>4 DEF Work, SubscriptionWork, Loaded
  <2> HIDE DEF q
  <2> QED
    BY <2>1, <2>5, Reads
<1>2. ASSUME CheckSubscription(r) PROVE RegistryInv'
  <2> DEFINE q == request[r]
             checked == [q EXCEPT !.phase = "checked"]
  <2>1. /\ q # Nothing /\ q.about = "subscription"
        /\ q.new.enabled => Open(q.new.source)
        /\ request' = [request EXCEPT ![r] = checked]
        /\ UNCHANGED <<source, subscription, crossed>>
    BY <1>2 DEF CheckSubscription, RegistryInv
  <2>2. Work(q)
    BY <2>1 DEF RegistryInv
  <2>3. Work(checked)
    BY <2>1, <2>2 DEF Work, SubscriptionWork
  <2> HIDE DEF checked
  <2> QED
    BY <2>1, <2>3, Reads
<1>3. ASSUME NEW u \in SubscriptionIds, NEW new \in SubscriptionRecord,
             CheckNewSubscription(r, u, new)
      PROVE  RegistryInv'
  <2> DEFINE q == Loaded("subscription", u, Nothing, new, "checked", Nothing)
  <2>1. /\ new.source \in DOMAIN source /\ Open(new.source)
        /\ request' = [request EXCEPT ![r] = q]
        /\ UNCHANGED <<source, subscription, crossed>>
    BY <1>3 DEF CheckNewSubscription
  <2>2. DOMAIN new = Columns
    BY DEF SubscriptionRecord, Columns
  <2>3. Work(q)
    BY <2>1, <2>2 DEF Work, SubscriptionWork, Loaded
  <2> HIDE DEF q
  <2> QED
    BY <2>1, <2>3, Reads
<1>4. ASSUME WriteSubscription(r) PROVE RegistryInv'
  <2> DEFINE q == request[r]
             row == Stored(IF q.view = Nothing THEN q.new ELSE subscription[q.id], q)
             s == q.new.source
  <2>1. /\ q # Nothing /\ q.about = "subscription" /\ q.phase = "checked"
        /\ q.view = Nothing => q.id \notin DOMAIN subscription
        /\ subscription' = Put(subscription, q.id, row) /\ Done(r) /\ UNCHANGED source
    BY <1>4 DEF WriteSubscription
  <2>2. SubscriptionWork(q)
    BY <2>1 DEF RegistryInv, Work
  <2>3. SourceOf(q) = s
    BY <2>1 DEF SourceOf
  <2>4. s \notin crossed' => ~q.others
    BY <2>1, <2>3 DEF Done
  <2>5. CASE q.view = Nothing
    <3>1. row = q.new
      BY <2>5 DEF Stored
    <3> HIDE DEF row
    <3>2. s \notin crossed' /\ row.enabled => Open(s)
      BY <3>1, <2>1, <2>2, <2>4 DEF SubscriptionWork
    <3> QED
      BY <3>1, <3>2, <2>1, <2>2, <2>3, <2>5, SubscriptionWritten DEF SubscriptionWork
  <2>6. CASE q.view # Nothing
    <3>1. /\ row = Updated(subscription[q.id], q.view, q.new) /\ q.id \in DOMAIN subscription
          /\ DOMAIN subscription[q.id] = Columns
          /\ DOMAIN q.view = Columns /\ DOMAIN q.new = Columns
      BY <2>2, <2>6 DEF Stored, SubscriptionWork, RegistryInv, Tables
    <3> HIDE DEF row
    <3>2. /\ DOMAIN row = Columns
          /\ \A f \in Columns :
                row[f] = IF f \in Differing(q.view, q.new) THEN q.new[f]
                         ELSE subscription[q.id][f]
      BY <3>1, UpdatedRow
    <3>3. row.source = s /\ subscription[q.id].source = s /\ s \in DOMAIN source
      BY <3>1, <3>2, <2>2, <2>6 DEF SubscriptionWork, Columns
    <3>4. ~q.others => row.enabled = q.new.enabled
      BY <3>1, <3>2, <2>2, <2>6 DEF SubscriptionWork, Differing, Columns
    <3>5. s \notin crossed' /\ row.enabled => Open(s)
      BY <3>4, <2>1, <2>2, <2>4 DEF SubscriptionWork
    <3> QED
      BY <3>2, <3>3, <3>5, <2>1, <2>3, SubscriptionWritten
  <2> QED
    BY <2>5, <2>6
<1> QED
  BY <1>1, <1>2, <1>3, <1>4 DEF SubscriptionRequest

LEMMA BootstrapSteps ==
    ASSUME RegistryInv, NEW r \in Requests, Bootstrap(r)
    PROVE  RegistryInv'
<1>1. ASSUME NEW s \in SourceIds, FindExisting(r, s) PROVE RegistryInv'
  <2> DEFINE q == Loaded("bootstrap", s, Nothing, Bootstrapped, "checked", source)
  <2>1. request' = [request EXCEPT ![r] = q] /\ UNCHANGED <<source, subscription, crossed>>
    BY <1>1 DEF FindExisting
  <2>2. Work(q)
    BY DEF Work, Loaded
  <2> HIDE DEF q
  <2> QED
    BY <2>1, <2>2, Reads
<1>2. ASSUME WriteBootstrapped(r) PROVE RegistryInv'
  <2> DEFINE q == request[r]
  <2>1. /\ q # Nothing /\ q.about = "bootstrap" /\ q.id \notin DOMAIN source
        /\ source' = Put(source, q.id, q.new) /\ Done(r) /\ UNCHANGED subscription
    BY <1>2 DEF WriteBootstrapped
  <2>2. SourceOf(q) = q.id /\ q.new = Bootstrapped
    BY <2>1 DEF SourceOf, RegistryInv, Work
  <2>3. DOMAIN q.new = Managed /\ ~Blocked(q.new)
    BY <2>2, RegistryAssumption DEF SourceRecord, Managed
  <2>4. Active(q.id) = {}
    BY <2>1 DEF RegistryInv, Tables, Active, SubscriptionsOf
  <2> QED
    BY <2>1, <2>2, <2>3, <2>4, SourceWritten
<1> QED
  BY <1>1, <1>2 DEF Bootstrap

LEMMA GivesUp ==
    ASSUME RegistryInv, NEW r \in Requests, GiveUp(r)
    PROVE  RegistryInv'
<1>1. \A p \in Requests : request'[p] = IF p = r THEN Nothing ELSE request[p]
  BY DEF GiveUp, RegistryInv
<1>2. UNCHANGED <<source, subscription, crossed>>
  BY DEF GiveUp
<1>3. ASSUME NEW p \in Requests, request'[p] # Nothing PROVE Work(request[p])'
  <2>1. request'[p] = request[p] /\ Work(request[p])
    BY <1>1, <1>3 DEF RegistryInv
  <2> QED
    BY <2>1, <1>2 DEF Work, SourceWork, SubscriptionWork, Open, Active, SubscriptionsOf
<1>4. request' = [p \in Requests |-> request'[p]]
  BY DEF GiveUp, RegistryInv
<1> QED
  BY <1>2, <1>3, <1>4
  DEF RegistryInv, Tables, Readable, ActiveNeedsOpen, Open, Active, SubscriptionsOf

LEMMA RegistryStep == RegistryInv /\ [RegistryNext]_registryVars => RegistryInv'
<1> SUFFICES ASSUME RegistryInv, [RegistryNext]_registryVars PROVE RegistryInv'
  OBVIOUS
<1>1. CASE RegistryNext
  BY <1>1, SourceSteps, SubscriptionSteps, BootstrapSteps, GivesUp DEF RegistryNext
<1>2. CASE UNCHANGED registryVars
  BY <1>2 DEF registryVars, RegistryInv, Tables, Readable, ActiveNeedsOpen, Open, Active,
              SubscriptionsOf, Work, SourceWork, SubscriptionWork
<1> QED
  BY <1>1, <1>2

\* A subscription is active only while its source is official, enabled and can be
\* read, unless a request wrote to the source or a subscription of it over another
\* one (the protection of sources in use, and the check before resuming).
THEOREM ActiveIsOpen == RegistrySpec => []ActiveNeedsOpen
<1>1. RegistryInv => ActiveNeedsOpen
  BY DEF RegistryInv
<1> QED
  BY <1>1, RegistryStart, RegistryStep, PTL DEF RegistrySpec

-----------------------------------------------------------------------------
(* The history of the sources.                                             *)

\* A request that has its backup and is not overtaken has the source in it.
Kept(q) ==
    q.about = "source" /\ q.phase = "checked" /\ ~q.others /\ q.view # Nothing =>
        q.backup[q.id] = source[q.id]

HistoryInv ==
    /\ \E S : change \in Seq(S)
    /\ \A i \in 1 .. Len(change) : change[i].source \in DOMAIN source
    /\ \A r \in Requests : request[r] # Nothing => Kept(request[r])
    /\ HistoryShowsSource

LEMMA OneMore ==
    ASSUME NEW S, NEW c \in Seq(S), NEW x, NEW d, d = c \o <<x>>
    PROVE  /\ d \in Seq(S \cup {x}) /\ Len(c) \in Nat /\ Len(d) = Len(c) + 1
           /\ d[Len(c) + 1] = x
           /\ \A i \in 1 .. Len(c) : d[i] = c[i]
<1>1. c \in Seq(S \cup {x}) /\ <<x>> \in Seq(S \cup {x}) /\ Len(<<x>>) = 1 /\ <<x>>[1] = x
  OBVIOUS
<1> QED
  BY <1>1

\* A request leaves the tables and the history, or ends with a write.
LEMMA HistoryWaits ==
    ASSUME RegistryInv, HistoryInv, NEW r \in Requests, NEW q,
           request' = [request EXCEPT ![r] = q], UNCHANGED <<source, change, crossed>>,
           q # Nothing => Kept(q)
    PROVE  HistoryInv'
<1>1. \A p \in Requests : request'[p] = IF p = r THEN q ELSE request[p]
  BY DEF RegistryInv
<1>2. \A p \in Requests : request'[p] # Nothing => Kept(request'[p])
  BY <1>1 DEF HistoryInv
<1>3. HistoryShowsSource'
  BY DEF HistoryInv, HistoryShowsSource, Attested, Names
<1>4. \A p \in Requests : request'[p] # Nothing => Kept(request[p])'
  BY <1>2 DEF Kept
<1> QED
  BY <1>3, <1>4 DEF HistoryInv

\* The other requests when one has written to a source.
LEMMA OthersKept ==
    ASSUME RegistryInv, HistoryInv, NEW r \in Requests, request[r] # Nothing, Done(r),
           \A s \in DOMAIN source : s # SourceOf(request[r]) => source'[s] = source[s]
    PROVE  \A p \in Requests : request'[p] # Nothing => Kept(request[p])'
<1> SUFFICES ASSUME NEW p \in Requests, request'[p] # Nothing PROVE Kept(request[p])'
  OBVIOUS
<1> DEFINE q == request[p]
           s == SourceOf(request[r])
<1>1. request'[p] = Overtaken(q, s) /\ q # Nothing
  BY DEF Done, Overtaken
<1>2. q = [about |-> q.about, id |-> q.id, view |-> q.view, new |-> q.new, phase |-> q.phase,
           backup |-> q.backup, others |-> q.others]
  BY <1>1 DEF RegistryInv, Work
<1>3. Kept(q) /\ (q.about = "source" /\ q.view # Nothing => q.id \in DOMAIN source)
  BY <1>1 DEF HistoryInv, RegistryInv, Work, SourceWork
<1> HIDE DEF q
<1>4. CASE SourceOf(q) = s
  <2>1. request'[p] = [q EXCEPT !.others = TRUE]
    BY <1>1, <1>4 DEF Overtaken
  <2>2. request'[p].others
    BY <1>2, <2>1
  <2> QED
    BY <2>2 DEF Kept
<1>5. CASE SourceOf(q) # s
  <2>1. request'[p] = q
    BY <1>1, <1>5 DEF Overtaken
  <2>2. q.about = "source" => q.id # s
    BY <1>5 DEF SourceOf
  <2> QED
    BY <1>3, <2>1, <2>2 DEF Kept
<1> QED
  BY <1>4, <1>5

\* A row of the history shows what the write leaves, and starts from what there was.
LEMMA HistoryGrows ==
    ASSUME RegistryInv, HistoryInv, NEW r \in Requests, WriteSource(r)
    PROVE  HistoryInv'
<1> DEFINE q == request[r]
           s == q.id
           fields == IF q.view = Nothing THEN Managed ELSE Differing(q.view, q.new)
           row == Stored(IF q.view = Nothing THEN q.new ELSE source[s], q)
           entry == [source |-> s,
                     before |-> IF q.view = Nothing THEN Nothing ELSE Restrict(q.view, fields),
                     after |-> Restrict(q.new, fields), backup |-> q.backup]
           n == Len(change)
<1>1. /\ q # Nothing /\ q.about = "source" /\ q.phase = "checked" /\ Done(r)
      /\ q.view = Nothing => s \notin DOMAIN source
      /\ source' = Put(source, s, row) /\ change' = change \o <<entry>>
  BY DEF WriteSource, Change
<1>2. SourceWork(q) /\ Kept(q) /\ SourceOf(q) = s
  BY <1>1 DEF RegistryInv, Work, HistoryInv, SourceOf
<1>3. DOMAIN q.new = Managed /\ (q.view # Nothing => s \in DOMAIN source /\ DOMAIN q.view = Managed)
  BY <1>2 DEF SourceWork
<1>4. ASSUME NEW f \in Managed
      PROVE  row[f] = IF f \in fields THEN q.new[f] ELSE source[s][f]
  <2>1. CASE q.view = Nothing
    BY <1>4, <2>1 DEF Stored
  <2>2. CASE q.view # Nothing
    <3>1. DOMAIN source[s] = Managed
      BY <1>3, <2>2 DEF RegistryInv, Tables
    <3>2. row = Updated(source[s], q.view, q.new)
      BY <2>2 DEF Stored
    <3>3. \A g \in DOMAIN source[s] : Updated(source[s], q.view, q.new)[g] =
             IF g \in Differing(q.view, q.new) THEN q.new[g] ELSE source[s][g]
      BY <1>3, <2>2, <3>1, UpdatedRow
    <3> HIDE DEF row
    <3> QED
      BY <1>4, <2>2, <3>1, <3>2, <3>3
  <2> QED
    BY <2>1, <2>2
<1>5. DOMAIN row = Managed
  <2>1. CASE q.view = Nothing
    BY <1>3, <2>1 DEF Stored
  <2>2. CASE q.view # Nothing
    <3>1. DOMAIN source[s] = Managed
      BY <1>3, <2>2 DEF RegistryInv, Tables
    <3>2. DOMAIN Updated(source[s], q.view, q.new) = DOMAIN source[s]
      BY <1>3, <2>2, <3>1, UpdatedRow
    <3> QED
      BY <2>2, <3>1, <3>2 DEF Stored
  <2> QED
    BY <2>1, <2>2
<1>6. PICK S : change \in Seq(S)
  BY DEF HistoryInv
<1>7. /\ \E T : change' \in Seq(T)
      /\ n \in Nat /\ Len(change') = n + 1 /\ change'[n + 1] = entry
      /\ \A i \in 1 .. n : change'[i] = change[i]
  <2> DEFINE longer == change'
  <2>1. longer = change \o <<entry>>
    BY <1>1
  <2> HIDE DEF longer, entry, n
  <2>2. /\ longer \in Seq(S \cup {entry}) /\ Len(change) \in Nat
        /\ Len(longer) = Len(change) + 1 /\ longer[Len(change) + 1] = entry
        /\ \A i \in 1 .. Len(change) : longer[i] = change[i]
    BY <1>6, <2>1, OneMore
  <2> QED
    BY <2>2 DEF longer, n
<1>8. /\ entry.source = s /\ DOMAIN entry.after = fields /\ entry.backup = q.backup
      /\ \A f \in fields : entry.after[f] = q.new[f]
      /\ entry.before = IF q.view = Nothing THEN Nothing ELSE Restrict(q.view, fields)
  BY DEF Restrict
<1>9. /\ DOMAIN source' = DOMAIN source \cup {s} /\ source'[s] = row
      /\ \A t \in DOMAIN source : t # s => source'[t] = source[t]
  BY <1>1 DEF Put
<1>10. crossed \subseteq crossed' /\ (s \notin crossed' => ~q.others)
  BY <1>1, <1>2 DEF Done
<1>11. \A p \in Requests : request'[p] # Nothing => Kept(request[p])'
  BY <1>1, <1>2, <1>9, OthersKept
<1> HIDE DEF row, entry, q, n
<1> DEFINE m == n + 1
<1>12. m \in Nat /\ m \in 1 .. m /\ Len(change) = n /\ Len(change') = m /\ change'[m] = entry
       /\ \A i \in 1 .. m : i # m => i \in 1 .. n
       /\ 1 .. n \subseteq 1 .. m
  BY <1>7 DEF n
<1> DEFINE Renamed(i, t, f) == change'[i].source = t /\ f \in DOMAIN change'[i].after
           Told(x, t, k) == \A f \in DOMAIN x, i \in 1 .. k :
               Renamed(i, t, f) /\ (\A j \in i + 1 .. k : ~Renamed(j, t, f)) =>
                  x[f] = change'[i].after[f]
<1>13. \A t, f : \A i \in 1 .. n : Renamed(i, t, f) <=> Names(i, t, f)
  BY <1>7 DEF Names
<1>14. \A t, f : Renamed(m, t, f) <=> t = s /\ f \in fields
  BY <1>8, <1>12
<1> HIDE DEF Renamed
<1>15. ASSUME NEW t, NEW x, NEW k \in Nat, k <= n, Attested(x, t, k)
       PROVE  Told(x, t, k)
  <2>1. 1 .. k \subseteq 1 .. n /\ \A i \in 1 .. k : i + 1 .. k \subseteq 1 .. n
    BY <1>7, <1>15
  <2> QED
    BY <1>7, <1>13, <1>15, <2>1 DEF Attested
<1>16. ASSUME NEW t \in DOMAIN source'
       PROVE  Told(source'[t], t, m)
  <2> SUFFICES ASSUME NEW f \in DOMAIN source'[t], NEW i \in 1 .. m, Renamed(i, t, f),
                      \A j \in i + 1 .. m : ~Renamed(j, t, f)
               PROVE  source'[t][f] = change'[i].after[f]
    OBVIOUS
  <2>1. CASE i = m
    <3>1. t = s /\ f \in fields
      BY <1>14, <2>1
    <3>2. f \in Managed
      BY <1>5, <1>9, <3>1
    <3> QED
      BY <1>4, <1>8, <1>9, <1>12, <2>1, <3>1, <3>2
  <2>2. CASE i # m
    <3>1. i \in 1 .. n /\ m \in i + 1 .. m
          /\ \A j \in i + 1 .. n : j \in i + 1 .. m /\ j \in 1 .. n
      BY <1>7, <2>2
    <3>2. Names(i, t, f) /\ \A j \in i + 1 .. n : ~Names(j, t, f)
      BY <1>13, <3>1
    <3>3. t = s => f \notin fields
      BY <1>14, <3>1
    <3>4. t \in DOMAIN source
      BY <1>12, <3>1, <3>2 DEF HistoryInv, Names
    <3>5. f \in DOMAIN source[t] /\ source'[t][f] = source[t][f]
      <4>1. CASE t = s
        BY <1>4, <1>5, <1>9, <3>3, <3>4, <4>1 DEF RegistryInv, Tables
      <4>2. CASE t # s
        BY <1>9, <3>4, <4>2
      <4> QED
        BY <4>1, <4>2
    <3>6. Attested(source[t], t, n)
      BY <1>12, <3>4 DEF HistoryInv, HistoryShowsSource
    <3>7. source[t][f] = change[i].after[f]
      BY <3>1, <3>2, <3>5, <3>6 DEF Attested
    <3> QED
      BY <1>7, <3>1, <3>5, <3>7
  <2> QED
    BY <2>1, <2>2
<1>17. ASSUME NEW t \in DOMAIN source', t \notin crossed', NEW i \in 1 .. m,
              change'[i].source = t, change'[i].before # Nothing
       PROVE  /\ Told(change'[i].before, t, i - 1)
              /\ Told(change'[i].backup[t], t, i - 1)
              /\ \A f \in DOMAIN change'[i].before :
                    change'[i].before[f] = change'[i].backup[t][f]
  <2>1. CASE i = m
    <3>1. t = s /\ q.view # Nothing /\ i - 1 = n /\ ~q.others
      BY <1>7, <1>8, <1>10, <1>12, <1>17, <2>1
    <3>2. s \in DOMAIN source /\ q.view = source[s] /\ q.backup[s] = source[s]
      BY <1>1, <1>2, <3>1 DEF SourceWork, Kept
    <3>3. Attested(source[s], s, n)
      BY <1>12, <3>2 DEF HistoryInv, HistoryShowsSource
    <3>4. /\ change'[i].backup[t] = source[s]
          /\ change'[i].before = Restrict(source[s], fields)
      BY <1>8, <1>12, <2>1, <3>1, <3>2
    <3>5. fields \subseteq DOMAIN source[s]
      BY <3>1, <3>2 DEF Differing
    <3>6. Attested(Restrict(source[s], fields), s, n)
      BY <3>3, <3>5 DEF Attested, Restrict
    <3>7. Told(source[s], s, n) /\ Told(Restrict(source[s], fields), s, n)
      BY <1>7, <1>15, <3>3, <3>6
    <3> HIDE DEF Told
    <3> QED
      BY <3>1, <3>4, <3>5, <3>7 DEF Restrict
  <2>2. CASE i # m
    <3>1. i \in 1 .. n /\ i \in 1 .. Len(change) /\ change'[i] = change[i]
          /\ i - 1 \in Nat /\ i - 1 <= n
      BY <1>7, <1>12, <2>2
    <3>2. t \in DOMAIN source /\ t \notin crossed
      BY <1>10, <1>17, <3>1 DEF HistoryInv
    <3>3. /\ Attested(change[i].before, t, i - 1) /\ Attested(change[i].backup[t], t, i - 1)
          /\ \A f \in DOMAIN change[i].before : change[i].before[f] = change[i].backup[t][f]
      BY <1>17, <3>1, <3>2 DEF HistoryInv, HistoryShowsSource
    <3>4. Told(change[i].before, t, i - 1) /\ Told(change[i].backup[t], t, i - 1)
      BY <1>15, <3>1, <3>3
    <3> HIDE DEF Told
    <3> QED
      BY <3>1, <3>3, <3>4
  <2> QED
    BY <2>1, <2>2
<1>18. HistoryShowsSource'
  BY <1>12, <1>16, <1>17 DEF HistoryShowsSource, Attested, Names, Renamed
<1>19. \A i \in 1 .. m : change'[i].source \in DOMAIN source'
  BY <1>7, <1>8, <1>9, <1>12 DEF HistoryInv
<1> QED
  BY <1>7, <1>11, <1>12, <1>18, <1>19 DEF HistoryInv

\* The script makes a source of which there is no history.
LEMMA BootstrapUnrecorded ==
    ASSUME RegistryInv, HistoryInv, NEW r \in Requests, WriteBootstrapped(r)
    PROVE  HistoryInv'
<1> DEFINE q == request[r]
<1>1. /\ q # Nothing /\ q.about = "bootstrap" /\ Done(r) /\ q.id \notin DOMAIN source
      /\ source' = Put(source, q.id, q.new) /\ change' = change
  BY DEF WriteBootstrapped
<1>2. SourceOf(q) = q.id /\ crossed \subseteq crossed'
  BY <1>1 DEF SourceOf, Done
<1> HIDE DEF q
<1>3. /\ DOMAIN source' = DOMAIN source \cup {q.id}
      /\ \A s \in DOMAIN source : source'[s] = source[s]
  BY <1>1 DEF Put
<1>4. \A p \in Requests : request'[p] # Nothing => Kept(request[p])'
  BY <1>1, <1>3, OthersKept DEF q
<1>5. \A i \in 1 .. Len(change) : change[i].source # q.id
  BY <1>1 DEF HistoryInv
<1>6. ASSUME NEW s \in DOMAIN source'
      PROVE  Attested(source'[s], s, Len(change))
  <2>1. CASE s \in DOMAIN source
    BY <1>3, <2>1 DEF HistoryInv, HistoryShowsSource
  <2>2. CASE s = q.id
    BY <1>5, <2>2 DEF Attested, Names
  <2> QED
    BY <1>3, <2>1, <2>2
<1>7. ASSUME NEW s \in DOMAIN source', s \notin crossed', NEW i \in 1 .. Len(change),
             change[i].source = s, change[i].before # Nothing
      PROVE  /\ Attested(change[i].before, s, i - 1)
             /\ Attested(change[i].backup[s], s, i - 1)
             /\ \A f \in DOMAIN change[i].before : change[i].before[f] = change[i].backup[s][f]
  BY <1>2, <1>3, <1>5, <1>7 DEF HistoryInv, HistoryShowsSource
<1>8. HistoryShowsSource'
  BY <1>1, <1>6, <1>7 DEF HistoryShowsSource, Attested, Names
<1> QED
  BY <1>1, <1>3, <1>4, <1>8 DEF HistoryInv

\* A subscription is written: sources and history stay.
LEMMA HistoryStays ==
    ASSUME RegistryInv, HistoryInv, NEW r \in Requests, request[r] # Nothing, Done(r),
           UNCHANGED <<source, change>>
    PROVE  HistoryInv'
<1>1. crossed \subseteq crossed'
  BY DEF Done
<1>2. \A p \in Requests : request'[p] # Nothing => Kept(request[p])'
  BY OthersKept
<1>3. HistoryShowsSource'
  BY <1>1 DEF HistoryInv, HistoryShowsSource, Attested, Names
<1> QED
  BY <1>2, <1>3 DEF HistoryInv

LEMMA HistoryNext == RegistryInv /\ HistoryInv /\ [RegistryNext]_registryVars => HistoryInv'
<1> SUFFICES ASSUME RegistryInv, HistoryInv, [RegistryNext]_registryVars PROVE HistoryInv'
  OBVIOUS
<1>1. CASE UNCHANGED registryVars
  BY <1>1 DEF registryVars, HistoryInv, Kept, HistoryShowsSource, Attested, Names
<1>2. ASSUME NEW r \in Requests, SourceRequest(r) PROVE HistoryInv'
  <2>1. ASSUME NEW s \in DOMAIN source, NEW patch \in SourcePatches, LoadSource(r, s, patch)
        PROVE  HistoryInv'
    BY <2>1, HistoryWaits DEF LoadSource, Loaded, Kept
  <2>2. CASE CheckSource(r)
    <3> DEFINE q == [request[r] EXCEPT !.phase = "checked", !.backup = source]
    <3>1. request' = [request EXCEPT ![r] = q] /\ request[r] # Nothing
          /\ UNCHANGED <<source, change, crossed>>
      BY <2>2 DEF CheckSource
    <3>2. q.backup = source
      BY <3>1 DEF RegistryInv, Work
    <3>3. Kept(q)
      BY <3>2 DEF Kept
    <3> HIDE DEF q
    <3> QED
      BY <3>1, <3>3, HistoryWaits
  <2>3. ASSUME NEW s \in SourceIds, NEW new \in SourceRecord, CheckNewSource(r, s, new)
        PROVE  HistoryInv'
    BY <2>3, HistoryWaits DEF CheckNewSource, Loaded, Kept
  <2>4. CASE WriteSource(r)
    BY <2>4, HistoryGrows
  <2> QED
    BY <1>2, <2>1, <2>2, <2>3, <2>4 DEF SourceRequest
<1>3. ASSUME NEW r \in Requests, SubscriptionRequest(r) PROVE HistoryInv'
  <2>1. ASSUME NEW u \in DOMAIN subscription, NEW patch \in SubscriptionPatches,
               LoadSubscription(r, u, patch)
        PROVE  HistoryInv'
    BY <2>1, HistoryWaits DEF LoadSubscription, Loaded, Kept
  <2>2. CASE CheckSubscription(r)
    <3> DEFINE q == [request[r] EXCEPT !.phase = "checked"]
    <3>1. request' = [request EXCEPT ![r] = q] /\ request[r] # Nothing
          /\ request[r].about = "subscription" /\ UNCHANGED <<source, change, crossed>>
      BY <2>2 DEF CheckSubscription
    <3>2. q.about = "subscription"
      BY <3>1 DEF RegistryInv, Work
    <3>3. Kept(q)
      BY <3>2 DEF Kept
    <3> HIDE DEF q
    <3> QED
      BY <3>1, <3>3, HistoryWaits
  <2>3. ASSUME NEW u \in SubscriptionIds, NEW new \in SubscriptionRecord,
               CheckNewSubscription(r, u, new)
        PROVE  HistoryInv'
    BY <2>3, HistoryWaits DEF CheckNewSubscription, Loaded, Kept
  <2>4. CASE WriteSubscription(r)
    BY <2>4, HistoryStays DEF WriteSubscription
  <2> QED
    BY <1>3, <2>1, <2>2, <2>3, <2>4 DEF SubscriptionRequest
<1>4. ASSUME NEW r \in Requests, Bootstrap(r) PROVE HistoryInv'
  <2>1. ASSUME NEW s \in SourceIds, FindExisting(r, s) PROVE HistoryInv'
    BY <2>1, HistoryWaits DEF FindExisting, Loaded, Kept
  <2> QED
    BY <1>4, <2>1, BootstrapUnrecorded DEF Bootstrap
<1>5. ASSUME NEW r \in Requests, GiveUp(r) PROVE HistoryInv'
  BY <1>5, HistoryWaits DEF GiveUp
<1> QED
  BY <1>1, <1>2, <1>3, <1>4, <1>5 DEF RegistryNext

\* The history of a source, read to its end, shows the source as it is, and while
\* requests do not overlap each row starts from what the rows before it left and has a
\* backup of that: for any number of sources and requests, any patches and any length
\* (create_reference_source_change and what the mapper writes).
THEOREM HistoryIsTrueOfSource == RegistrySpec => []HistoryShowsSource
<1>1. RegistryInit => HistoryInv
  <2> SUFFICES ASSUME RegistryInit PROVE HistoryInv
    OBVIOUS
  <2>1. change = <<>> /\ DOMAIN source = {} /\ \A r \in Requests : request[r] = Nothing
    BY DEF RegistryInit
  <2>2. change \in Seq({}) /\ Len(change) = 0
    BY <2>1
  <2> QED
    BY <2>1, <2>2 DEF HistoryInv, HistoryShowsSource
<1>2. HistoryInv => HistoryShowsSource
  BY DEF HistoryInv
<1> QED
  BY <1>1, <1>2, RegistryStart, RegistryStep, HistoryNext, PTL DEF RegistrySpec

-----------------------------------------------------------------------------
(* Batches of a subscription.  First the numbers, then the cutoff, then    *)
(* the loop of the ingest, and the invariant last.                         *)

\* A nonempty set of naturals has a least element.
LEMMA NatMinimum ==
    ASSUME NEW T, T \subseteq Nat, T # {}
    PROVE  \E x \in T : \A y \in T : x <= y
<1>1. \E x \in T : \A y \in T : <<y, x>> \notin OpToRel(<, Nat)
  BY NatLessThanWellFounded, WFMin
<1>2. PICK x \in T : \A y \in T : <<y, x>> \notin OpToRel(<, Nat)
  BY <1>1
<1>3. \A y \in T : <<y, x>> \in Nat \X Nat
  OBVIOUS
<1>4. \A y \in T : ~(y < x)
  BY <1>2, <1>3 DEF OpToRel
<1>5. \A y \in T : y \in Nat
  OBVIOUS
<1>6. \A y \in T : x <= y
  BY <1>4, <1>5, SMT
<1> QED
  BY <1>6

\* A set with 0 that is closed under successor up to N contains 0..N.
LEMMA NatSetInduction ==
    ASSUME NEW N \in Nat, NEW T, 0 \in T,
           \A n \in 0..N : n < N /\ n \in T => n + 1 \in T
    PROVE  \A n \in 0..N : n \in T
<1> DEFINE Missing == {n \in 0..N : n \notin T}
<1>1. SUFFICES ASSUME Missing # {} PROVE FALSE
  OBVIOUS
<1>2. PICK m \in Missing : \A y \in Missing : m <= y
  <2>1. Missing \subseteq Nat
    BY SMT
  <2> QED
    BY <1>1, <2>1, NatMinimum
<1>3. m \in 0..N /\ m \notin T /\ m # 0
  BY <1>2
<1>4. m - 1 \in 0..N /\ m - 1 < N /\ (m - 1) + 1 = m
  BY <1>3, SMT
<1>5. m - 1 \in T
  BY <1>2, <1>4
<1> QED
  BY <1>3, <1>4, <1>5


\* Of finitely many numbers one is the largest.
LEMMA LargestIs ==
    ASSUME NEW S, S \subseteq Nat, IsFiniteSet(S), S # {}
    PROVE  Max(S) \in S /\ \A x \in S : x <= Max(S)
<1> DEFINE Largest(T) == \E x \in T : \A y \in T : y <= x
           Good == {n \in 0 .. Cardinality(S) :
                       \A T \in SUBSET S : Cardinality(T) = n /\ T # {} => Largest(T)}
<1>1. Cardinality(S) \in Nat /\ \A T \in SUBSET S : IsFiniteSet(T)
  BY FS_CardinalityType, FS_Subset
<1>2. 0 \in Good
  <2> SUFFICES ASSUME NEW T \in SUBSET S, Cardinality(T) = 0, T # {} PROVE FALSE
    BY <1>1
  <2> QED
    BY <1>1, FS_EmptySet
<1>3. ASSUME NEW n \in 0 .. Cardinality(S), n < Cardinality(S), n \in Good
      PROVE  n + 1 \in Good
  <2> SUFFICES ASSUME NEW T \in SUBSET S, Cardinality(T) = n + 1, T # {} PROVE Largest(T)
    BY <1>1, <1>3
  <2>1. PICK w : w \in T
    OBVIOUS
  <2>2. Cardinality(T \ {w}) = n /\ T \ {w} \in SUBSET S
    <3>1. Cardinality(T \ {w}) = Cardinality(T) - 1
      BY <1>1, <2>1, FS_RemoveElement
    <3>2. Cardinality(T \ {w}) = n
      BY <1>3, <3>1
    <3> QED
      BY <3>2
  <2>3. CASE T \ {w} = {}
    <3>1. T = {w} /\ w \in Nat
      BY <2>1, <2>3
    <3> QED
      BY <3>1
  <2>4. CASE T \ {w} # {}
    <3>1. PICK x \in T \ {w} : \A y \in T \ {w} : y <= x
      BY <1>3, <2>2, <2>4
    <3>2. w \in Nat /\ x \in Nat /\ \A y \in T : y \in Nat
      BY <2>1
    <3>3. CASE w <= x
      BY <3>1, <3>3
    <3>4. CASE x < w
      <4>1. \A y \in T : y <= w
        BY <3>1, <3>2, <3>4
      <4> QED
        BY <2>1, <4>1
    <3> QED
      BY <3>2, <3>3, <3>4
  <2> QED
    BY <2>3, <2>4
<1>4. Cardinality(S) \in Good
  <2> HIDE DEF Good
  <2>1. \A n \in 0 .. Cardinality(S) : n \in Good
    BY <1>1, <1>2, <1>3, NatSetInduction
  <2> QED
    BY <1>1, <2>1
<1>5. PICK x \in S : \A y \in S : y <= x
  BY <1>4
<1>6. \E z \in S : \A y \in S : z >= y
  BY <1>5
<1>7. Max(S) \in S /\ \A y \in S : Max(S) >= y
  BY <1>6, Zenon DEF Max
<1> QED
  BY <1>7

Row(x) ==
    x = [subscription |-> x.subscription, published |-> x.published, freshness |-> x.freshness]

\* The references are finitely many, with the day of their publication.
References ==
    /\ IsFiniteSet(DOMAIN reference)
    /\ \A i \in DOMAIN reference :
          i \in Items /\ Row(reference[i]) /\ reference[i].published \in Nat
          /\ reference[i].subscription \in {Nothing} \cup DOMAIN subscription

\* Where a batch begins: at the newest reference of its subscription.
LEMMA CutoffIsNewest ==
    ASSUME References, NEW u
    PROVE  /\ Cutoff(u) \in Nat
           /\ \A i \in AutomaticOf(reference, u) : reference[i].published <= Cutoff(u)
           /\ Cutoff(u) = 0 \/ \E i \in AutomaticOf(reference, u) : reference[i].published = Cutoff(u)
<1> DEFINE own == AutomaticOf(reference, u)
           dates == {reference[i].published : i \in own}
<1>1. own \subseteq DOMAIN reference
  BY DEF AutomaticOf
<1>2. IsFiniteSet(own)
  BY <1>1, FS_Subset DEF References
<1>3. \A i \in own : reference[i].published \in Nat
  BY <1>1 DEF References
<1>4. Cutoff(u) = IF dates = {} THEN 0 ELSE Max(dates)
  BY DEF Cutoff
<1> HIDE DEF own
<1>5. dates \subseteq Nat
  BY <1>3
<1>6. IsFiniteSet(dates)
  <2> DEFINE date == [i \in own |-> reference[i].published]
  <2>1. date \in Surjection(own, dates)
    BY DEF Surjection
  <2> HIDE DEF date, dates
  <2> QED
    BY <1>2, <2>1, FS_Surjection
<1>7. \A i \in own : reference[i].published \in dates
  OBVIOUS
<1>8. \A x \in dates : \E i \in own : reference[i].published = x
  OBVIOUS
<1> HIDE DEF dates
<1>9. CASE dates = {}
  BY <1>4, <1>7, <1>9 DEF own
<1>10. CASE dates # {}
  <2>1. Max(dates) \in dates /\ \A x \in dates : x <= Max(dates)
    BY <1>5, <1>6, <1>10, LargestIs
  <2>2. Cutoff(u) = Max(dates)
    BY <1>4, <1>10
  <2> QED
    BY <1>5, <1>7, <1>8, <2>1, <2>2 DEF own
<1> QED
  BY <1>9, <1>10

\* All that has a turn is in a set, and all of the set has a turn.
Enumerates(nth, S) ==
    /\ \A n \in 1 .. Cardinality(S) : nth[n] \in S
    /\ \A i \in S : \E n \in 1 .. Cardinality(S) : nth[n] = i

\* Every item of a backlog has its turn: its place is the number of items that are newer.
LEMMA EveryItemHasATurn ==
    ASSUME NEW S, IsFiniteSet(S), S \subseteq Items,
           \A i, j \in S : Entry[i].source = Entry[j].source,
           NEW nth, nth = [n \in 1 .. Cardinality(S) |->
                              CHOOSE i \in S : Cardinality({j \in S : Newer(j, i)}) = n - 1]
    PROVE  Enumerates(nth, S)
<1> DEFINE before(x) == {j \in S : Newer(j, x)}
           place(x) == Cardinality(before(x))
<1>1. \A x \in S : Entry[x].date \in Nat /\ Order[x] \in Int
  BY BatchAssumption
<1>2. \A x, y \in S : Order[x] = Order[y] => x = y
  BY BatchAssumption
<1>3. \A x \in S : ~Newer(x, x)
  BY <1>1 DEF Newer
<1>4. \A x, y \in S : x = y \/ Newer(x, y) \/ Newer(y, x)
  BY <1>1, <1>2 DEF Newer
<1>5. \A x, y, z \in S : Newer(x, y) /\ Newer(y, z) => Newer(x, z)
  BY <1>1 DEF Newer
<1>6. \A x \in S : IsFiniteSet(before(x)) /\ place(x) \in Nat
  <2> SUFFICES ASSUME NEW x \in S PROVE IsFiniteSet(before(x)) /\ place(x) \in Nat
    OBVIOUS
  <2>1. before(x) \subseteq S
    OBVIOUS
  <2> HIDE DEF before
  <2> QED
    BY <2>1, FS_Subset, FS_CardinalityType
<1>7. ASSUME NEW x \in S, NEW y \in S, Newer(x, y) PROVE place(x) < place(y)
  <2>1. before(x) \subseteq before(y)
    BY <1>5, <1>7
  <2>2. x \in before(y) /\ x \notin before(x)
    BY <1>3, <1>7
  <2> DEFINE bx == before(x)
             by == before(y)
  <2>3. IsFiniteSet(bx) /\ IsFiniteSet(by) /\ bx \subseteq by /\ bx # by
    BY <1>6, <2>1, <2>2
  <2> HIDE DEF bx, by
  <2>4. Cardinality(bx) <= Cardinality(by) /\ (Cardinality(bx) = Cardinality(by) => bx = by)
    BY <2>3, FS_Subset
  <2>5. Cardinality(bx) \in Nat /\ Cardinality(by) \in Nat
    BY <2>3, FS_CardinalityType
  <2>6. Cardinality(bx) < Cardinality(by)
    BY <2>3, <2>4, <2>5
  <2> QED
    BY <2>6 DEF bx, by
<1>8. \A i \in S : place(i) < Cardinality(S) /\ Cardinality(S) \in Nat
  <2> SUFFICES ASSUME NEW i \in S PROVE place(i) < Cardinality(S) /\ Cardinality(S) \in Nat
    OBVIOUS
  <2> DEFINE bi == before(i)
  <2>1. bi \subseteq S /\ bi # S /\ IsFiniteSet(bi)
    BY <1>3, <1>6
  <2> HIDE DEF bi
  <2>2. Cardinality(bi) <= Cardinality(S) /\ (Cardinality(bi) = Cardinality(S) => bi = S)
    BY <2>1, FS_Subset
  <2>3. Cardinality(bi) \in Nat /\ Cardinality(S) \in Nat
    BY <2>1, FS_CardinalityType
  <2>4. Cardinality(bi) < Cardinality(S)
    BY <2>1, <2>2, <2>3
  <2> QED
    BY <2>3, <2>4 DEF bi
<1> HIDE DEF before
<1>9. \A x, y \in S : place(x) = place(y) => x = y
  BY <1>4, <1>6, <1>7
<1>10. \A n \in 1 .. Cardinality(S) : nth[n] = CHOOSE i \in S : place(i) = n - 1
  BY DEF before
<1> HIDE DEF place
<1> DEFINE turn == [i \in S |-> place(i) + 1]
<1>11. Cardinality(S) \in Nat
  BY FS_CardinalityType
<1>12. turn \in Surjection(S, 1 .. Cardinality(S))
  <2>1. turn \in Injection(S, 1 .. Cardinality(S))
    <3>1. \A i \in S : place(i) + 1 \in 1 .. Cardinality(S)
      BY <1>6, <1>8
    <3>2. \A x, y \in S : place(x) + 1 = place(y) + 1 => x = y
      BY <1>6, <1>9
    <3> QED
      BY <3>1, <3>2 DEF Injection, IsInjective
  <2> HIDE DEF turn
  <2>2. IsFiniteSet(1 .. Cardinality(S)) /\ Cardinality(1 .. Cardinality(S)) = Cardinality(S)
    <3>1. 1 > Cardinality(S) => Cardinality(S) = 0
      BY <1>11
    <3>2. Cardinality(S) - 1 + 1 = Cardinality(S)
      BY <1>11
    <3> QED
      BY <1>11, <3>1, <3>2, FS_Interval
  <2> QED
    BY <2>1, <2>2, FS_Injection
<1>13. ASSUME NEW n \in 1 .. Cardinality(S)
       PROVE  nth[n] \in S
  <2>1. PICK i \in S : turn[i] = n
    BY <1>12 DEF Surjection
  <2>2. place(i) = n - 1
    BY <1>6, <2>1
  <2> QED
    BY <1>10, <2>2
<1>14. ASSUME NEW i \in S
       PROVE  \E n \in 1 .. Cardinality(S) : nth[n] = i
  <2> DEFINE n == place(i) + 1
  <2>1. n \in 1 .. Cardinality(S) /\ n - 1 = place(i)
    BY <1>6, <1>8
  <2>2. nth[n] = CHOOSE x \in S : place(x) = place(i)
    BY <1>10, <2>1
  <2>3. (CHOOSE x \in S : place(x) = place(i)) = i
    BY <1>9
  <2> QED
    BY <2>1, <2>2, <2>3
<1> QED
  BY <1>13, <1>14 DEF Enumerates


-----------------------------------------------------------------------------
(* The loop of the ingest.                                                 *)

Ingesting(f, u, nth, L) ==
    f = [n \in 0 .. L |-> IF n = 0 THEN [ref |-> Refreshed(u), created |-> 0]
                          ELSE Ingest(nth[n], u, f[n - 1])]

\* The function that Ingested is defined by is there.
LEMMA IngestingRuns ==
    ASSUME NEW u, NEW nth, NEW L \in Nat
    PROVE  \E f : Ingesting(f, u, nth, L)
<1> DEFINE base == [ref |-> Refreshed(u), created |-> 0]
           Step(n, s) == Ingest(nth[n], u, s)
           Fits(m, f) == f = [n \in 0 .. m |-> IF n = 0 THEN base ELSE Step(n, f[n - 1])]
           Good == {m \in 0 .. L : \E f : Fits(m, f)}
<1> HIDE DEF Step, base
<1>1. 0 \in Good
  <2> DEFINE zero == [n \in 0 .. 0 |-> base]
  <2>1. Fits(0, zero)
    OBVIOUS
  <2> HIDE DEF Fits
  <2> QED
    BY <2>1
<1>2. ASSUME NEW m \in 0 .. L, m < L, m \in Good
      PROVE  m + 1 \in Good
  <2>1. PICK f : Fits(m, f)
    BY <1>2
  <2> DEFINE g == [n \in 0 .. m + 1 |-> IF n = m + 1 THEN Step(n, f[m]) ELSE f[n]]
  <2>2. ASSUME NEW n \in 0 .. m + 1
        PROVE  g[n] = IF n = 0 THEN base ELSE Step(n, g[n - 1])
    <3>1. CASE n = 0
      <4>1. 0 \in 0 .. m /\ n # m + 1
        BY <3>1
      <4>2. f[0] = base
        BY <2>1, <4>1
      <4> QED
        BY <3>1, <4>1, <4>2
    <3>2. CASE n # 0
      <4>1. n - 1 \in 0 .. m /\ n - 1 \in 0 .. m + 1 /\ n - 1 # m + 1
        BY <3>2
      <4>2. g[n - 1] = f[n - 1]
        BY <4>1
      <4>3. CASE n = m + 1
        <5>1. n - 1 = m
          BY <4>3
        <5> QED
          BY <3>2, <4>2, <4>3, <5>1
      <4>4. CASE n # m + 1
        <5>1. n \in 0 .. m
          BY <4>4
        <5>2. f[n] = Step(n, f[n - 1])
          BY <2>1, <3>2, <5>1
        <5>3. g[n] = f[n]
          BY <4>4
        <5> HIDE DEF g
        <5> QED
          BY <3>2, <4>2, <5>2, <5>3
      <4> QED
        BY <4>3, <4>4
    <3> QED
      BY <3>1, <3>2
  <2>3. Fits(m + 1, g)
    <3>1. g = [n \in 0 .. m + 1 |-> g[n]]
      OBVIOUS
    <3> HIDE DEF g
    <3> QED
      BY <2>2, <3>1
  <2>4. \E h : Fits(m + 1, h)
    BY <2>3
  <2> HIDE DEF Fits
  <2> QED
    BY <1>2, <2>4
<1>3. L \in Good
  <2> HIDE DEF Good
  <2>1. \A m \in 0 .. L : m \in Good
    BY <1>1, <1>2, NatSetInduction
  <2> QED
    BY <2>1
<1> QED
  BY <1>3 DEF Ingesting, Step, base

\* What the loop has done when the items of turns have had theirs: the references
\* that were there are, those that came are of the batch, and unless it is full
\* every item of turns has one at its address.
Taken(s, b, turns) ==
    /\ s = [ref |-> s.ref, created |-> s.created] /\ s.created \in Nat
    /\ IsFiniteSet(DOMAIN s.ref) /\ DOMAIN reference \subseteq DOMAIN s.ref
    /\ \A i \in DOMAIN s.ref : Row(s.ref[i])
    /\ \A i \in DOMAIN reference :
          /\ s.ref[i].subscription = reference[i].subscription
          /\ s.ref[i].published = reference[i].published
    /\ \A i \in DOMAIN s.ref \ DOMAIN reference :
          /\ i \in Backlog(b) /\ s.ref[i].subscription = b.subscription
          /\ s.ref[i].published = Entry[i].date
    /\ s.created < CreationLimit => \A i \in turns : Duplicate(s.ref, i)

LEMMA RefreshedFirst ==
    ASSUME References, NEW b
    PROVE  Taken([ref |-> Refreshed(b.subscription), created |-> 0], b, {})
<1> DEFINE ref == Refreshed(b.subscription)
<1>1. /\ DOMAIN ref = DOMAIN reference
      /\ \A i \in DOMAIN reference : ref[i].subscription = reference[i].subscription
                                     /\ ref[i].published = reference[i].published
      /\ \A i \in DOMAIN ref : Row(ref[i])
  BY DEF References, Refreshed, Row
<1> HIDE DEF ref
<1>2. IsFiniteSet(DOMAIN ref)
  BY <1>1 DEF References
<1>3. Taken([ref |-> ref, created |-> 0], b, {})
  BY <1>1, <1>2 DEF Taken
<1> QED
  BY <1>3 DEF ref

LEMMA IngestTakes ==
    ASSUME NEW s, NEW b, NEW turns, Taken(s, b, turns), NEW i \in Backlog(b)
    PROVE  Taken(Ingest(i, b.subscription, s), b, turns \cup {i})
<1> DEFINE t == Ingest(i, b.subscription, s)
           new == [subscription |-> b.subscription, published |-> Entry[i].date,
                   freshness |-> FreshnessOf(Entry[i].date)]
<1>0. s.created \in Nat /\ CreationLimit \in Nat
  BY BatchAssumption DEF Taken
<1>1. CASE s.created >= CreationLimit
  <2>1. t = s
    BY <1>1 DEF Ingest
  <2>2. ~(s.created < CreationLimit)
    BY <1>0, <1>1
  <2> QED
    BY <2>1, <2>2 DEF Taken
<1>2. CASE s.created < CreationLimit /\ Duplicate(s.ref, i)
  <2>1. t = s
    BY <1>0, <1>2 DEF Ingest
  <2> QED
    BY <1>2, <2>1 DEF Taken
<1>3. CASE s.created < CreationLimit /\ ~Duplicate(s.ref, i)
  <2>1. t = [ref |-> Put(s.ref, i, new), created |-> s.created + 1]
    BY <1>0, <1>3 DEF Ingest
  <2>2. i \notin DOMAIN s.ref
    BY <1>3 DEF Duplicate
  <2>3. new.subscription = b.subscription /\ new.published = Entry[i].date /\ Row(new)
    BY DEF Row
  <2> HIDE DEF new
  <2> DEFINE ref == Put(s.ref, i, new)
  <2>4. /\ DOMAIN ref = DOMAIN s.ref \cup {i} /\ ref[i] = new
        /\ \A j \in DOMAIN s.ref : ref[j] = s.ref[j]
    BY <2>2 DEF Put
  <2> HIDE DEF ref
  <2>5. t.ref = ref /\ t.created = s.created + 1 /\ t = [ref |-> t.ref, created |-> t.created]
    BY <2>1 DEF ref
  <2> HIDE DEF t
  <2>6. t.created \in Nat
    BY <1>0, <2>5
  <2>7. IsFiniteSet(DOMAIN ref)
    BY <2>4, FS_AddElement DEF Taken
  <2>8. \A j : Duplicate(s.ref, j) => Duplicate(ref, j)
    BY <2>4 DEF Duplicate
  <2>9. Duplicate(ref, i)
    BY <2>4 DEF Duplicate
  <2>10. \A j \in turns \cup {i} : Duplicate(t.ref, j)
    BY <1>3, <2>5, <2>8, <2>9 DEF Taken
  <2>11. DOMAIN reference \subseteq DOMAIN t.ref /\ i \notin DOMAIN reference
    BY <2>2, <2>4, <2>5 DEF Taken
  <2>12. \A j \in DOMAIN reference :
            /\ t.ref[j].subscription = reference[j].subscription
            /\ t.ref[j].published = reference[j].published
    BY <2>4, <2>5, <2>11 DEF Taken
  <2>13. \A j \in DOMAIN t.ref \ DOMAIN reference :
            /\ j \in Backlog(b) /\ t.ref[j].subscription = b.subscription
            /\ t.ref[j].published = Entry[j].date
    BY <2>3, <2>4, <2>5 DEF Taken
  <2>14. \A j \in DOMAIN t.ref : Row(t.ref[j])
    BY <2>3, <2>4, <2>5 DEF Taken
  <2>15. Taken(t, b, turns \cup {i})
    BY <2>5, <2>6, <2>7, <2>10, <2>11, <2>12, <2>13, <2>14 DEF Taken
  <2> QED
    BY <2>15 DEF t
<1> QED
  BY <1>0, <1>1, <1>2, <1>3

\* What all of a batch's backlog becomes.
LEMMA IngestedAll ==
    ASSUME References, NEW b, IsFiniteSet(b.fetched), b.fetched \subseteq Items,
           \A i, j \in b.fetched : Entry[i].source = Entry[j].source
    PROVE  Taken(Ingested(b), b, Backlog(b))
<1> DEFINE S == Backlog(b)
           L == Cardinality(S)
           pick(n) == CHOOSE i \in S : Cardinality({j \in S : Newer(j, i)}) = n - 1
           nth == [n \in 1 .. L |-> pick(n)]
           base == [ref |-> Refreshed(b.subscription), created |-> 0]
           f == CHOOSE state : state =
                    [n \in 0 .. L |-> IF n = 0 THEN base
                                      ELSE Ingest(pick(n), b.subscription, state[n - 1])]
<1>1. IsFiniteSet(S) /\ S \subseteq Items /\ \A i, j \in S : Entry[i].source = Entry[j].source
  <2>1. S \subseteq b.fetched
    BY DEF Backlog
  <2> QED
    BY <2>1, FS_Subset
<1>2. Ingested(b) = f[L]
  BY DEF Ingested
<1>3. L \in Nat
  BY <1>1, FS_CardinalityType
<1>4. /\ \A n \in 1 .. L : nth[n] \in S
      /\ \A i \in S : \E n \in 1 .. L : nth[n] = i
  <2> DEFINE order == nth
  <2>1. order = [n \in 1 .. Cardinality(S) |->
                    CHOOSE i \in S : Cardinality({j \in S : Newer(j, i)}) = n - 1]
    OBVIOUS
  <2> HIDE DEF S, order
  <2>2. Enumerates(order, S)
    BY <1>1, <2>1, EveryItemHasATurn
  <2> QED
    BY <2>2 DEF order, Enumerates
<1> HIDE DEF S, L, pick
<1>5. f = [n \in 0 .. L |-> IF n = 0 THEN base ELSE Ingest(pick(n), b.subscription, f[n - 1])]
  <2>1. PICK h : Ingesting(h, b.subscription, nth, L)
    <3> HIDE DEF nth
    <3> QED
      BY <1>3, IngestingRuns
  <2>2. h = [n \in 0 .. L |-> IF n = 0 THEN base ELSE Ingest(pick(n), b.subscription, h[n - 1])]
    <3>1. \A n \in 0 .. L : n # 0 => nth[n] = pick(n)
      BY <1>3
    <3> HIDE DEF nth
    <3> QED
      BY <2>1, <3>1 DEF Ingesting
  <2>3. \E g : g = [n \in 0 .. L |-> IF n = 0 THEN base ELSE Ingest(pick(n), b.subscription, g[n - 1])]
    BY <2>2
  <2> QED
    BY <2>3, Zenon
<1> HIDE DEF f
<1> DEFINE rhs(m) == IF m = 0 THEN base ELSE Ingest(pick(m), b.subscription, f[m - 1])
<1>6. f = [m \in 0 .. L |-> rhs(m)]
  BY <1>5
<1>7. f[0] = base
  <2>1. rhs(0) = base
    OBVIOUS
  <2> HIDE DEF rhs
  <2> QED
    BY <1>3, <1>6, <2>1
<1>8. ASSUME NEW n \in 0 .. L, n < L
      PROVE  f[n + 1] = Ingest(nth[n + 1], b.subscription, f[n]) /\ n + 1 \in 1 .. L
  <2>1. n + 1 \in 0 .. L /\ n + 1 \in 1 .. L /\ n + 1 # 0 /\ (n + 1) - 1 = n
    BY <1>3, <1>8
  <2>2. rhs(n + 1) = Ingest(pick(n + 1), b.subscription, f[n])
    BY <2>1
  <2> HIDE DEF rhs
  <2>3. f[n + 1] = rhs(n + 1)
    BY <1>6, <2>1
  <2>4. nth[n + 1] = pick(n + 1)
    BY <2>1
  <2> QED
    BY <2>1, <2>2, <2>3, <2>4
<1> HIDE DEF rhs, base
<1> DEFINE turns(n) == {nth[m] : m \in 1 .. n}
           Good == {n \in 0 .. L : Taken(f[n], b, turns(n))}
<1>9. 0 \in Good
  <2>1. turns(0) = {}
    OBVIOUS
  <2>2. Taken(base, b, {})
    BY RefreshedFirst DEF base
  <2> QED
    BY <1>3, <1>7, <2>1, <2>2
<1>10. ASSUME NEW n \in 0 .. L, n < L, n \in Good
       PROVE  n + 1 \in Good
  <2> DEFINE i == nth[n + 1]
  <2>1. f[n + 1] = Ingest(i, b.subscription, f[n]) /\ n + 1 \in 1 .. L
    BY <1>8, <1>10
  <2>2. i \in Backlog(b)
    BY <1>4, <2>1 DEF S
  <2>3. turns(n + 1) = turns(n) \cup {i}
    <3>1. 1 .. n + 1 = (1 .. n) \cup {n + 1}
      BY <1>3
    <3> HIDE DEF nth
    <3> QED
      BY <3>1
  <2>4. Taken(f[n], b, turns(n))
    BY <1>10
  <2> HIDE DEF i, turns
  <2>5. Taken(f[n + 1], b, turns(n + 1))
    BY <2>1, <2>2, <2>3, <2>4, IngestTakes
  <2> QED
    BY <2>1, <2>5
<1>11. L \in Good
  <2> HIDE DEF Good
  <2>1. \A n \in 0 .. L : n \in Good
    BY <1>3, <1>9, <1>10, NatSetInduction
  <2> QED
    BY <1>3, <2>1
<1>12. turns(L) = S
  <2> HIDE DEF nth
  <2> QED
    BY <1>4
<1>13. Taken(f[L], b, S)
  BY <1>11, <1>12
<1> QED
  BY <1>2, <1>13 DEF S

-----------------------------------------------------------------------------
(* The invariant of the batches.                                           *)

Matching(u, i) ==
    Entry[i].source = subscription[u].source /\ Entry[i].dated /\ Matches(subscription[u], i)

\* An item that nobody has excused has a reference, or no reference of the
\* subscription is newer.
Reached ==
    \A u \in DOMAIN subscription, i \in index \ excused : Matching(u, i) =>
        \/ Duplicate(reference, i)
        \/ \A q \in AutomaticOf(reference, u) : reference[q].published <= Entry[i].date

\* A reference of a subscription is no newer than what is listed, or whatever is
\* older than it is excused.
Backed ==
    \A q \in DOMAIN reference : reference[q].subscription # Nothing =>
        \/ \E j \in index : reference[q].published <= Entry[j].date
        \/ \A i \in Items : Entry[i].date < reference[q].published => i \in excused

\* What a batch has fetched is no newer than what was listed after that.
Fetched ==
    batch # Nothing =>
        /\ batch.subscription \in DOMAIN subscription /\ batch.fetched \subseteq index
        /\ \A i \in batch.fetched :
              Entry[i].source = subscription[batch.subscription].source
        /\ \A i \in index \ (batch.fetched \cup excused), j \in batch.fetched :
              Entry[i].source = subscription[batch.subscription].source =>
                 Entry[j].date <= Entry[i].date

Listed == index \subseteq Items /\ IsFiniteSet(index)

BatchInv == References /\ Listed /\ Reached /\ Backed /\ Fetched

Identified ==
    /\ DOMAIN subscription \subseteq SubscriptionIds
    /\ \A r \in Requests :
          request[r] # Nothing /\ request[r].about = "subscription" =>
             request[r].id \in SubscriptionIds

\* Subscriptions stay, with their sources.
Stay ==
    \A u \in DOMAIN subscription :
        u \in DOMAIN subscription' /\ subscription'[u].source = subscription[u].source

LEMMA BatchStart == RegistryInit /\ BatchInit => BatchInv /\ Identified
<1> SUFFICES ASSUME RegistryInit, BatchInit PROVE BatchInv /\ Identified
  OBVIOUS
<1>1. DOMAIN reference = {} /\ DOMAIN subscription = {}
  BY DEF RegistryInit, BatchInit
<1>2. References /\ Listed
  BY <1>1, FS_EmptySet DEF References, Listed, BatchInit
<1>3. Reached /\ Backed /\ Fetched
  BY <1>1 DEF Reached, Backed, Fetched, BatchInit
<1>4. Identified
  BY <1>1 DEF Identified, RegistryInit
<1> QED
  BY <1>2, <1>3, <1>4 DEF BatchInv

\* The requests of the registry leave subscriptions at their sources.
LEMMA SubscriptionsStay ==
    ASSUME RegistryInv, Identified, [RegistryNext]_registryVars
    PROVE  Identified' /\ Stay
<1>1. CASE UNCHANGED registryVars
  BY <1>1 DEF Identified, Stay, registryVars
<1>2. ASSUME NEW r \in Requests, \/ SourceRequest(r) \/ SubscriptionRequest(r)
                                 \/ Bootstrap(r) \/ GiveUp(r)
      PROVE  Identified' /\ Stay
  <2> DEFINE Starts(q) == \A p \in Requests : request'[p] = IF p = r THEN q ELSE request[p]
  <2>1. \A q : request' = [request EXCEPT ![r] = q] => Starts(q)
    BY DEF RegistryInv
  <2>2. ASSUME NEW q, request' = [request EXCEPT ![r] = q], subscription' = subscription,
               q # Nothing /\ q.about = "subscription" => q.id \in SubscriptionIds
        PROVE  Identified' /\ Stay
    <3>1. Starts(q)
      BY <2>1, <2>2
    <3> QED
      BY <2>2, <3>1 DEF Identified, Stay
  <2>3. ASSUME Done(r), DOMAIN subscription' \subseteq SubscriptionIds PROVE Identified'
    <3>1. \A p \in Requests : request'[p] = IF p = r THEN Nothing
                                            ELSE Overtaken(request[p], SourceOf(request[r]))
      BY <2>3 DEF Done
    <3>2. ASSUME NEW p \in Requests, request'[p] # Nothing, request'[p].about = "subscription"
          PROVE  request'[p].id \in SubscriptionIds
      <4> DEFINE q == request[p]
      <4>1. p # r /\ request'[p] = Overtaken(q, SourceOf(request[r]))
        BY <3>1, <3>2
      <4>2. q # Nothing
        BY <3>2, <4>1 DEF Overtaken
      <4>3. q = [about |-> q.about, id |-> q.id, view |-> q.view, new |-> q.new,
                 phase |-> q.phase, backup |-> q.backup, others |-> q.others]
        BY <4>2 DEF RegistryInv, Work
      <4> HIDE DEF q
      <4>4. request'[p].about = q.about /\ request'[p].id = q.id
        BY <4>1, <4>3 DEF Overtaken
      <4> QED
        BY <3>2, <4>2, <4>4 DEF Identified, q
    <3> QED
      BY <2>3, <3>2 DEF Identified
  <2>4. CASE SourceRequest(r)
    <3>1. ASSUME NEW s \in DOMAIN source, NEW patch \in SourcePatches, LoadSource(r, s, patch)
          PROVE  Identified' /\ Stay
      BY <2>2, <3>1 DEF LoadSource, Loaded
    <3>2. CASE CheckSource(r)
      <4> DEFINE q == [request[r] EXCEPT !.phase = "checked", !.backup = source]
      <4>1. request' = [request EXCEPT ![r] = q] /\ request[r] # Nothing
            /\ request[r].about = "source" /\ subscription' = subscription
        BY <3>2 DEF CheckSource
      <4>2. q.about = "source"
        BY <4>1 DEF RegistryInv, Work
      <4> HIDE DEF q
      <4> QED
        BY <2>2, <4>1, <4>2
    <3>3. ASSUME NEW s \in SourceIds, NEW new \in SourceRecord, CheckNewSource(r, s, new)
          PROVE  Identified' /\ Stay
      BY <2>2, <3>3 DEF CheckNewSource, Loaded
    <3>4. CASE WriteSource(r)
      BY <2>3, <3>4 DEF WriteSource, Identified, Stay
    <3> QED
      BY <2>4, <3>1, <3>2, <3>3, <3>4 DEF SourceRequest
  <2>5. CASE SubscriptionRequest(r)
    <3>1. ASSUME NEW u \in DOMAIN subscription, NEW patch \in SubscriptionPatches,
                 LoadSubscription(r, u, patch)
          PROVE  Identified' /\ Stay
      <4>1. u \in SubscriptionIds
        BY DEF Identified
      <4> QED
        BY <2>2, <3>1, <4>1 DEF LoadSubscription, Loaded
    <3>2. CASE CheckSubscription(r)
      <4> DEFINE q == [request[r] EXCEPT !.phase = "checked"]
      <4>1. request' = [request EXCEPT ![r] = q] /\ request[r] # Nothing
            /\ request[r].about = "subscription" /\ subscription' = subscription
        BY <3>2 DEF CheckSubscription
      <4>2. q.id = request[r].id
        BY <4>1 DEF RegistryInv, Work
      <4>3. q.id \in SubscriptionIds
        BY <4>1, <4>2 DEF Identified
      <4> HIDE DEF q
      <4> QED
        BY <2>2, <4>1, <4>3
    <3>3. ASSUME NEW u \in SubscriptionIds, NEW new \in SubscriptionRecord,
                 CheckNewSubscription(r, u, new)
          PROVE  Identified' /\ Stay
      BY <2>2, <3>3 DEF CheckNewSubscription, Loaded
    <3>4. CASE WriteSubscription(r)
      <4> DEFINE q == request[r]
                 row == Stored(IF q.view = Nothing THEN q.new ELSE subscription[q.id], q)
      <4>1. /\ q # Nothing /\ q.about = "subscription" /\ Done(r)
            /\ q.view = Nothing => q.id \notin DOMAIN subscription
            /\ subscription' = Put(subscription, q.id, row)
        BY <3>4 DEF WriteSubscription
      <4>2. q.id \in SubscriptionIds
        BY <4>1 DEF Identified
      <4>3. SubscriptionWork(q)
        BY <4>1 DEF RegistryInv, Work
      <4>4. ASSUME q.id \in DOMAIN subscription
            PROVE  row.source = subscription[q.id].source
        <5>1. q.view # Nothing
          BY <4>1, <4>4
        <5>2. /\ DOMAIN q.view = Columns /\ DOMAIN q.new = Columns
              /\ q.view.source = q.new.source
              /\ DOMAIN subscription[q.id] = Columns
          BY <4>3, <4>4, <5>1 DEF SubscriptionWork, RegistryInv, Tables
        <5>3. row = Updated(subscription[q.id], q.view, q.new)
          BY <5>1 DEF Stored
        <5>4. "source" \in Columns /\ "source" \notin Differing(q.view, q.new)
          BY <5>2 DEF Columns, Differing
        <5>5. \A f \in DOMAIN subscription[q.id] :
                 Updated(subscription[q.id], q.view, q.new)[f] =
                    IF f \in Differing(q.view, q.new) THEN q.new[f] ELSE subscription[q.id][f]
          BY <5>2, UpdatedRow
        <5> HIDE DEF row
        <5> QED
          BY <5>2, <5>3, <5>4, <5>5
      <4> HIDE DEF row, q
      <4>5. Stay
        BY <4>1, <4>4 DEF Stay, Put
      <4>6. DOMAIN subscription' \subseteq SubscriptionIds
        BY <4>1, <4>2 DEF Identified, Put
      <4> QED
        BY <2>3, <4>1, <4>5, <4>6
    <3> QED
      BY <2>5, <3>1, <3>2, <3>3, <3>4 DEF SubscriptionRequest
  <2>6. CASE Bootstrap(r)
    <3>1. ASSUME NEW s \in SourceIds, FindExisting(r, s) PROVE Identified' /\ Stay
      BY <2>2, <3>1 DEF FindExisting, Loaded
    <3>2. CASE WriteBootstrapped(r)
      BY <2>3, <3>2 DEF WriteBootstrapped, Identified, Stay
    <3> QED
      BY <2>6, <3>1, <3>2 DEF Bootstrap
  <2>7. CASE GiveUp(r)
    BY <2>2, <2>7 DEF GiveUp
  <2> QED
    BY <1>2, <2>4, <2>5, <2>6, <2>7
<1> QED
  BY <1>1, <1>2 DEF RegistryNext

\* A request of the registry leaves the invariant of the batches.
LEMMA RequestsKeep ==
    ASSUME BatchInv, Identified, Identified', Stay,
           UNCHANGED <<index, reference, batch>>, excused \subseteq excused',
           \A u \in DOMAIN subscription :
              AskedLate(reference, u, subscription[u], subscription'[u]) \subseteq excused'
    PROVE  BatchInv'
<1>1. References' /\ Listed'
  BY DEF BatchInv, References, Listed, Stay
<1>2. Reached'
  <2> SUFFICES ASSUME NEW u \in DOMAIN subscription', NEW i \in index \ excused',
                      Matching(u, i)', ~Duplicate(reference, i),
                      NEW q \in AutomaticOf(reference, u)
               PROVE  reference[q].published <= Entry[i].date
    BY DEF Reached, Duplicate, AutomaticOf
  <2>1. u \in DOMAIN subscription
    <3>1. u # Nothing
      BY BatchAssumption DEF Identified
    <3> QED
      BY <3>1 DEF AutomaticOf, BatchInv, References
  <2>2. CASE Matches(subscription[u], i)
    <3>1. Matching(u, i)
      BY <2>1, <2>2 DEF Matching, Stay
    <3> QED
      BY <2>1, <3>1 DEF BatchInv, Reached
  <2>3. CASE ~Matches(subscription[u], i)
    <3>1. ~(Entry[i].date < reference[q].published)
      BY <2>1, <2>3 DEF AskedLate, Matching
    <3>2. Entry[i].date \in Nat /\ reference[q].published \in Nat
      BY BatchAssumption DEF BatchInv, Listed, References, AutomaticOf
    <3> QED
      BY <3>1, <3>2
  <2> QED
    BY <2>2, <2>3
<1>3. Backed' /\ Fetched'
  BY DEF BatchInv, Backed, Fetched, Stay
<1> QED
  BY <1>1, <1>2, <1>3 DEF BatchInv

\* A user gives an item a reference: with a subscription, and what is older excused,
\* or without one.
LEMMA AddedByUser ==
    ASSUME BatchInv, Identified, NEW i \in Items, NEW u \in {Nothing} \cup DOMAIN subscription,
           NEW row, Row(row), row.subscription = u, row.published \in Nat,
           i \notin DOMAIN reference, reference' = Put(reference, i, row),
           excused \subseteq excused',
           u # Nothing => \A j \in Items : Entry[j].date < row.published => j \in excused',
           UNCHANGED <<registryVars, index, batch>>
    PROVE  BatchInv'
<1>1. /\ DOMAIN reference' = DOMAIN reference \cup {i} /\ reference'[i] = row
      /\ \A q \in DOMAIN reference : reference'[q] = reference[q]
  BY DEF Put
<1>2. UNCHANGED <<subscription, index, batch>>
  BY DEF registryVars
<1>3. IsFiniteSet(DOMAIN reference')
  BY <1>1, FS_AddElement DEF BatchInv, References
<1>4. References' /\ Listed'
  BY <1>1, <1>2, <1>3 DEF BatchInv, References, Listed
<1>5. Reached'
  <2> SUFFICES ASSUME NEW v \in DOMAIN subscription, NEW k \in index \ excused', Matching(v, k),
                      NEW q \in AutomaticOf(reference', v), ~Duplicate(reference', k)
               PROVE  reference'[q].published <= Entry[k].date
    BY <1>2 DEF Reached, Matching
  <2>1. k \in Items /\ Entry[k].date \in Nat /\ k \notin excused /\ ~Duplicate(reference, k)
    BY <1>1, BatchAssumption DEF BatchInv, Listed, Duplicate
  <2>2. CASE q = i
    <3>1. u = v /\ u # Nothing
      BY <1>1, <2>2, BatchAssumption DEF AutomaticOf, Identified
    <3> QED
      BY <1>1, <2>1, <2>2, <3>1
  <2>3. CASE q # i
    <3>1. q \in AutomaticOf(reference, v) /\ reference'[q] = reference[q]
      BY <1>1, <2>3 DEF AutomaticOf
    <3> QED
      BY <2>1, <3>1 DEF BatchInv, Reached
  <2> QED
    BY <2>2, <2>3
<1>6. Backed'
  BY <1>1, <1>2 DEF BatchInv, Backed
<1>7. Fetched'
  BY <1>2 DEF BatchInv, Fetched
<1> QED
  BY <1>4, <1>5, <1>6, <1>7 DEF BatchInv

\* What a batch stores leaves nothing behind: it begins at the newest reference, and
\* stores all that it has fetched from there on, unless it is full.
LEMMA FinishKeeps ==
    ASSUME BatchInv, Identified, FinishBatch, UNCHANGED registryVars
    PROVE  BatchInv'
<1> DEFINE u == batch.subscription
           done == Ingested(batch)
<1>1. /\ u \in DOMAIN subscription /\ batch.fetched \subseteq index /\ batch # Nothing
      /\ \A i \in batch.fetched : Entry[i].source = subscription[u].source
      /\ \A i \in index \ (batch.fetched \cup excused), j \in batch.fetched :
            Entry[i].source = subscription[u].source => Entry[j].date <= Entry[i].date
  BY DEF FinishBatch, BatchInv, Fetched
<1>2. /\ reference' = done.ref /\ batch' = Nothing /\ index' = index
      /\ excused \subseteq excused' /\ subscription' = subscription
      /\ ~(done.created < CreationLimit) => batch.fetched \ DOMAIN done.ref \subseteq excused'
      /\ AskedLate(done.ref, u, batch.view, subscription[u]) \subseteq excused'
  BY DEF FinishBatch, registryVars
<1>3. Taken(done, batch, Backlog(batch))
  <2>1. IsFiniteSet(batch.fetched) /\ batch.fetched \subseteq Items
    BY <1>1, FS_Subset DEF BatchInv, Listed
  <2>2. References /\ \A i, j \in batch.fetched : Entry[i].source = Entry[j].source
    BY <1>1 DEF BatchInv
  <2> QED
    BY <2>1, <2>2, IngestedAll
<1>4. done.created \in Nat /\ CreationLimit \in Nat
  BY <1>3, BatchAssumption DEF Taken
<1> HIDE DEF done
<1>5. /\ IsFiniteSet(DOMAIN reference') /\ DOMAIN reference \subseteq DOMAIN reference'
      /\ \A i \in DOMAIN reference' : Row(reference'[i])
      /\ \A i \in DOMAIN reference :
            /\ reference'[i].subscription = reference[i].subscription
            /\ reference'[i].published = reference[i].published
      /\ \A i \in DOMAIN reference' \ DOMAIN reference :
            /\ i \in Backlog(batch) /\ reference'[i].subscription = u
            /\ reference'[i].published = Entry[i].date
  BY <1>2, <1>3 DEF Taken
<1>6. \A i \in Backlog(batch) :
         i \in batch.fetched /\ i \in index /\ i \in Items /\ Entry[i].date \in Nat
  BY <1>1, BatchAssumption DEF Backlog, BatchInv, Listed
<1>7. References'
  <2> SUFFICES ASSUME NEW i \in DOMAIN reference'
               PROVE  /\ i \in Items /\ Row(reference'[i]) /\ reference'[i].published \in Nat
                      /\ reference'[i].subscription \in {Nothing} \cup DOMAIN subscription
    BY <1>2, <1>5 DEF References
  <2>1. CASE i \in DOMAIN reference
    BY <1>5, <2>1 DEF BatchInv, References
  <2>2. CASE i \notin DOMAIN reference
    BY <1>1, <1>5, <1>6, <2>2
  <2> QED
    BY <2>1, <2>2
<1>8. Reached'
  <2> SUFFICES ASSUME NEW v \in DOMAIN subscription, NEW i \in index \ excused', Matching(v, i),
                      ~Duplicate(reference', i), NEW q \in AutomaticOf(reference', v)
               PROVE  reference'[q].published <= Entry[i].date
    BY <1>2 DEF Reached, Matching
  <2>1. i \notin excused /\ i \in Items /\ Entry[i].date \in Nat
    BY <1>2, BatchAssumption DEF BatchInv, Listed
  <2>2. ~Duplicate(reference, i) /\ i \notin DOMAIN reference'
    BY <1>5 DEF Duplicate
  <2>3. \A p \in AutomaticOf(reference, v) : reference[p].published <= Entry[i].date
    BY <2>1, <2>2 DEF BatchInv, Reached
  <2>4. CASE q \in DOMAIN reference
    <3>1. q \in AutomaticOf(reference, v)
      BY <1>5, <2>4 DEF AutomaticOf
    <3> QED
      BY <1>5, <2>3, <2>4, <3>1
  <2>5. CASE q \notin DOMAIN reference
    <3>1. q \in Backlog(batch) /\ v = u /\ reference'[q].published = Entry[q].date
      BY <1>5, <2>5 DEF AutomaticOf
    <3>2. q \in batch.fetched
      BY <1>6, <3>1
    <3>3. /\ Entry[i].source = subscription[u].source /\ Entry[i].dated
          /\ Matches(subscription[u], i)
      BY <3>1 DEF Matching
    <3>4. CASE ~Matches(batch.view, i)
      <4>1. ~(Entry[i].date < reference'[q].published)
        BY <1>2, <2>5, <3>1, <3>3, <3>4 DEF AskedLate
      <4>2. reference'[q].published \in Nat
        BY <1>6, <3>1
      <4> QED
        BY <2>1, <4>1, <4>2
    <3>5. CASE Matches(batch.view, i)
      <4>1. ASSUME i \in batch.fetched PROVE FALSE
        <5>1. done.created < CreationLimit
          BY <1>2, <2>2, <4>1
        <5>2. Cutoff(u) \in Nat
              /\ (Cutoff(u) = 0 \/ \E p \in AutomaticOf(reference, u) :
                                       reference[p].published = Cutoff(u))
          BY CutoffIsNewest DEF BatchInv
        <5>3. Entry[i].date >= Cutoff(u)
          BY <2>1, <2>3, <3>1, <5>2
        <5>4. i \in Backlog(batch)
          BY <3>3, <3>5, <4>1, <5>3 DEF Backlog, DateVerified
        <5>5. Duplicate(reference', i)
          BY <1>2, <1>3, <5>1, <5>4 DEF Taken
        <5> QED
          BY <5>5
      <4> QED
        BY <1>1, <2>1, <3>1, <3>2, <3>3, <4>1
    <3> QED
      BY <3>4, <3>5
  <2> QED
    BY <2>4, <2>5
<1>9. Backed'
  <2> SUFFICES ASSUME NEW q \in DOMAIN reference', reference'[q].subscription # Nothing
               PROVE  \/ \E j \in index : reference'[q].published <= Entry[j].date
                      \/ \A i \in Items : Entry[i].date < reference'[q].published => i \in excused'
    BY <1>2 DEF Backed
  <2>1. CASE q \in DOMAIN reference
    BY <1>2, <1>5, <2>1 DEF BatchInv, Backed
  <2>2. CASE q \notin DOMAIN reference
    BY <1>5, <1>6, <2>2
  <2> QED
    BY <2>1, <2>2
<1>10. Listed' /\ Fetched'
  BY <1>2 DEF BatchInv, Listed, Fetched
<1> QED
  BY <1>7, <1>8, <1>9, <1>10 DEF BatchInv

LEMMA BatchStep ==
    ASSUME BatchInv, Identified, BatchNext, UNCHANGED registryVars
    PROVE  BatchInv'
<1>1. subscription' = subscription
  BY DEF registryVars
<1>2. ASSUME NEW u \in DOMAIN subscription, BeginBatch(u)
      PROVE  BatchInv'
  <2>1. UNCHANGED <<index, reference, excused>>
        /\ batch'.subscription = u
        /\ batch'.fetched = {i \in index : Entry[i].source = subscription[u].source}
    BY <1>2 DEF BeginBatch
  <2>2. Fetched'
    BY <1>1, <2>1 DEF Fetched
  <2>3. References' /\ Listed' /\ Reached' /\ Backed'
    BY <1>1, <2>1 DEF BatchInv, References, Listed, Reached, Backed, Matching, Duplicate,
                      AutomaticOf
  <2> QED
    BY <2>2, <2>3 DEF BatchInv
<1>3. CASE FinishBatch
  BY <1>3, FinishKeeps
<1>4. CASE AbandonBatch
  <2>1. UNCHANGED <<index, reference, excused>> /\ batch' = Nothing
    BY <1>4 DEF AbandonBatch
  <2> QED
    BY <1>1, <2>1 DEF BatchInv, References, Listed, Reached, Backed, Fetched, Matching,
                      Duplicate, AutomaticOf
<1>5. ASSUME NEW i \in Items, NEW u \in DOMAIN subscription, NEW published \in 1 .. MaxDay,
             PromoteItem(i, u, published)
      PROVE  BatchInv'
  <2> DEFINE row == [subscription |-> u, published |-> published,
                     freshness |-> FreshnessOf(published)]
  <2>1. /\ reference' = Put(reference, i, row) /\ i \notin DOMAIN reference
        /\ excused' = excused \cup {j \in Items : Entry[j].date < published}
        /\ UNCHANGED <<index, batch>>
    BY <1>5 DEF PromoteItem, Duplicate
  <2>2. Row(row) /\ row.subscription = u /\ row.published = published /\ published \in Nat
    BY BatchAssumption DEF Row
  <2> HIDE DEF row
  <2> QED
    BY <2>1, <2>2, AddedByUser
<1>6. ASSUME NEW i \in Items, NEW published \in 1 .. MaxDay, ImportItem(i, published)
      PROVE  BatchInv'
  <2> DEFINE row == [subscription |-> Nothing, published |-> published,
                     freshness |-> FreshnessOf(published)]
  <2>1. /\ reference' = Put(reference, i, row) /\ i \notin DOMAIN reference
        /\ UNCHANGED <<index, batch, excused>>
    BY <1>6 DEF ImportItem, Duplicate
  <2>2. Row(row) /\ row.subscription = Nothing /\ row.published = published /\ published \in Nat
    BY BatchAssumption DEF Row
  <2> HIDE DEF row
  <2> QED
    BY <2>1, <2>2, AddedByUser
<1>7. ASSUME NEW i \in Items, ListItem(i)
      PROVE  BatchInv'
  <2>1. /\ i \notin index /\ index' = index \cup {i} /\ UNCHANGED <<reference, batch>>
        /\ excused' = IF \E j \in index : Entry[j].date > Entry[i].date THEN excused \cup {i}
                      ELSE excused
    BY <1>7 DEF ListItem
  <2>2. References' /\ Listed' /\ Backed'
    BY <1>1, <2>1, FS_AddElement DEF BatchInv, References, Listed, Backed
  <2>3. \A j \in index \cup {i} : j \in Items /\ Entry[j].date \in Nat
    BY BatchAssumption DEF BatchInv, Listed
  <2>4. i \notin excused' => \A j \in index : Entry[j].date <= Entry[i].date
    BY <2>1, <2>3
  <2>5. Fetched'
    BY <1>1, <2>1, <2>4 DEF BatchInv, Fetched
  <2>6. Reached'
    <3> SUFFICES ASSUME NEW u \in DOMAIN subscription, NEW k \in index', k \notin excused',
                        Matching(u, k), ~Duplicate(reference, k),
                        NEW q \in AutomaticOf(reference, u)
                 PROVE  reference[q].published <= Entry[k].date
      BY <1>1, <2>1 DEF Reached, Matching, Duplicate, AutomaticOf
    <3>1. CASE k \in index
      BY <2>1, <3>1 DEF BatchInv, Reached
    <3>2. CASE k = i
      <4>1. i \notin excused /\ q \in DOMAIN reference /\ reference[q].published \in Nat
            /\ reference[q].subscription # Nothing
        BY <2>1, <3>2, BatchAssumption DEF AutomaticOf, BatchInv, References, Identified
      <4>2. \/ \E j \in index : reference[q].published <= Entry[j].date
            \/ ~(Entry[i].date < reference[q].published)
        BY <4>1 DEF BatchInv, Backed
      <4> QED
        BY <2>3, <2>4, <3>2, <4>1, <4>2
    <3> QED
      BY <2>1, <3>1, <3>2
  <2> QED
    BY <2>2, <2>5, <2>6 DEF BatchInv
<1>8. CASE NextDay
  <2>1. UNCHANGED <<index, reference, batch, excused>>
    BY <1>8 DEF NextDay
  <2> QED
    BY <1>1, <2>1 DEF BatchInv, References, Listed, Reached, Backed, Fetched, Matching,
                      Duplicate, AutomaticOf
<1> QED
  BY <1>2, <1>3, <1>4, <1>5, <1>6, <1>7, <1>8 DEF BatchNext

\* An item that the index lists in its order, that matches and that no one has excused
\* is stored, or will be by the next batch: for any number of subscriptions, sources
\* and items, whatever requests change in between (_existing_automatic_cutoff with
\* ingest_reference_candidates).
THEOREM NothingIsLeftBehind == BatchSpec => []NothingLeftBehind
<1> DEFINE Inv == RegistryInv /\ Identified /\ BatchInv
<1>1. RegistryInit /\ BatchInit => Inv
  BY RegistryStart, BatchStart
<1>2. ASSUME Inv, [\/ RegistryNext /\ Widen
                   \/ BatchNext /\ UNCHANGED registryVars]_<<registryVars, batchVars>>
      PROVE  Inv'
  <2>1. [RegistryNext]_registryVars
    BY <1>2
  <2>2. RegistryInv' /\ Identified' /\ Stay
    BY <1>2, <2>1, RegistryStep, SubscriptionsStay
  <2>3. CASE Widen
    <3>1. \A u \in DOMAIN subscription :
             AskedLate(reference, u, subscription[u], subscription'[u]) \subseteq excused'
      BY <2>3 DEF Widen
    <3> QED
      BY <1>2, <2>2, <2>3, <3>1, RequestsKeep DEF Widen
  <2>4. CASE BatchNext /\ UNCHANGED registryVars
    BY <1>2, <2>2, <2>4, BatchStep
  <2>5. CASE UNCHANGED <<registryVars, batchVars>>
    <3>1. UNCHANGED <<subscription, index, reference, batch, excused>>
      BY <2>5 DEF registryVars, batchVars
    <3> QED
      BY <1>2, <2>2, <3>1 DEF BatchInv, References, Listed, Reached, Backed, Fetched, Matching,
                              Duplicate, AutomaticOf
  <2> QED
    BY <1>2, <2>2, <2>3, <2>4, <2>5
<1>3. Inv => NothingLeftBehind
  <2> SUFFICES ASSUME Inv, NEW u \in DOMAIN subscription, NEW i \in index \ excused,
                      Matching(u, i), ~Duplicate(reference, i)
               PROVE  Entry[i].date >= Cutoff(u)
    BY DEF NothingLeftBehind, Matching
  <2>1. \A q \in AutomaticOf(reference, u) : reference[q].published <= Entry[i].date
    BY DEF BatchInv, Reached
  <2>2. Cutoff(u) \in Nat
        /\ (Cutoff(u) = 0 \/ \E p \in AutomaticOf(reference, u) :
                                 reference[p].published = Cutoff(u))
    BY CutoffIsNewest DEF BatchInv
  <2>3. Entry[i].date \in Nat
    BY BatchAssumption DEF BatchInv, Listed
  <2> QED
    BY <2>1, <2>2, <2>3
<1> HIDE DEF Inv
<1> QED
  BY <1>1, <1>2, <1>3, PTL DEF BatchSpec

-----------------------------------------------------------------------------
(* The lock of the scheduler.                                              *)

\* A run that holds the lock owns the file until some lock is moved away.
OwnedUntilRecovery ==
    (\A r \in Runs : ~recovered[r]) =>
        \A r \in Runs : at[r] \in Holding \/ child[r] = "running" => file = r

\* A run has a lock file, full once it was written, from when it took the lock; what
\* is at the path was made by somebody.
FilesAreMade ==
    /\ file # Absent => lock[file] # "none"
    /\ \A r \in Runs :
          /\ at[r] \in {"idle", "skipped"} \cup Acquiring => lock[r] = "none"
          /\ at[r] \in Holding => lock[r] # "none"
          /\ at[r] \in Holding \ {"write", "undo"} => lock[r] = "full"

\* A run that finds another file than its own will not find its own any more.
OwnIsFound == \A r \in Runs : at[r] = "check" /\ file = r => reading[r] = r

OnlyWhereOpenFilesStay == refused # {} => FALSE \in OpenMoves

\* A run that goes on has an attempt left.
AttemptsLeft == \A r \in Runs : at[r] \in {"idle"} \cup Acquiring => attempts[r] < 3

\* What of the invariant is about files.
FilesOK ==
    /\ LeftoverIsExplained
    /\ FilesAreMade
    /\ OwnIsFound
    /\ OnlyWhereOpenFilesStay
    /\ OwnedUntilRecovery

IInv ==
    /\ TypeOK
    /\ AttemptsLeft
    /\ FilesOK

USE DEF Goto, Acquiring, Holding, Over, fileVars, runVars

LEMMA InitFacts == Init => IInv
<1> SUFFICES ASSUME Init PROVE IInv
  OBVIOUS
<1>0. 0 \in 0..3 /\ 0 \in Nat
  OBVIOUS
<1>1. TypeOK
  BY <1>0, Zenon DEF Init, TypeOK
<1>2. \A r \in Runs : at[r] = "idle" /\ attempts[r] = 0 /\ child[r] = "none"
  BY DEF Init
<1> QED
  BY <1>1, <1>2
     DEF Init, IInv, FilesOK, LeftoverIsExplained, FilesAreMade, OwnIsFound,
         OnlyWhereOpenFilesStay, OwnedUntilRecovery, AttemptsLeft

LEMMA AcquireFacts ==
  ASSUME IInv, NEW r \in Runs,
         Start(r) \/ Create(r) \/ Write(r) \/ OpenLock(r) \/ Read(r)
  PROVE  IInv'
<1>0. Absent \notin Runs
  BY SchedulerAssumption
<1>1. CASE Start(r)
  <2>1. TypeOK'
    BY <1>0, <1>1 DEF IInv, TypeOK, Start
  <2>2. AttemptsLeft'
    BY <1>1 DEF IInv, TypeOK, AttemptsLeft, Start
  <2>3. LeftoverIsExplained' /\ OnlyWhereOpenFilesStay'
    BY <1>0, <1>1
       DEF IInv, TypeOK, FilesOK, LeftoverIsExplained, OnlyWhereOpenFilesStay, Start
  <2>4. FilesAreMade' /\ OwnIsFound'
    BY <1>0, <1>1 DEF IInv, TypeOK, FilesOK, FilesAreMade, OwnIsFound, Start
  <2>5. OwnedUntilRecovery'
    BY <1>0, <1>1 DEF IInv, TypeOK, FilesOK, FilesAreMade, OwnedUntilRecovery, Start
  <2> QED
    BY <2>1, <2>2, <2>3, <2>4, <2>5 DEF IInv, FilesOK
<1>2. CASE Create(r)
  <2>1. TypeOK'
    BY <1>0, <1>2 DEF IInv, TypeOK, Create, TakePath
  <2>2. AttemptsLeft'
    BY <1>2 DEF IInv, TypeOK, AttemptsLeft, Create, TakePath
  <2>3. LeftoverIsExplained' /\ OnlyWhereOpenFilesStay'
    <3>1. CASE file = Absent
      BY <1>0, <1>2, <3>1
         DEF IInv, TypeOK, FilesOK, LeftoverIsExplained, OnlyWhereOpenFilesStay, Create, TakePath
    <3>2. CASE file # Absent
      <4>1. /\ UNCHANGED <<file, refused>>
            /\ \A s \in Runs : at[s] \in Holding \cup {"crashed"} => at'[s] = at[s]
        BY <1>2, <3>2 DEF IInv, TypeOK, Create
      <4> QED
        BY <1>0, <3>2, <4>1
           DEF IInv, TypeOK, FilesOK, LeftoverIsExplained, OnlyWhereOpenFilesStay
    <3> QED
      BY <3>1, <3>2
  <2>4. FilesAreMade' /\ OwnIsFound'
    BY <1>0, <1>2 DEF IInv, TypeOK, FilesOK, FilesAreMade, OwnIsFound, Create, TakePath
  <2>5. OwnedUntilRecovery'
    BY <1>0, <1>2 DEF IInv, TypeOK, FilesOK, FilesAreMade, OwnedUntilRecovery, Create, TakePath
  <2> QED
    BY <2>1, <2>2, <2>3, <2>4, <2>5 DEF IInv, FilesOK
<1>3. CASE Write(r)
  BY <1>0, <1>3
     DEF IInv, TypeOK, FilesOK, LeftoverIsExplained, FilesAreMade, OwnIsFound,
         OnlyWhereOpenFilesStay, OwnedUntilRecovery, AttemptsLeft, Write
<1>4. CASE OpenLock(r)
  BY <1>0, <1>4
     DEF IInv, TypeOK, FilesOK, LeftoverIsExplained, FilesAreMade, OwnIsFound,
         OnlyWhereOpenFilesStay, OwnedUntilRecovery, AttemptsLeft, OpenLock, OpenFile
<1>5. CASE Read(r)
  BY <1>0, <1>5
     DEF IInv, TypeOK, FilesOK, LeftoverIsExplained, FilesAreMade, OwnIsFound,
         OnlyWhereOpenFilesStay, OwnedUntilRecovery, AttemptsLeft, Read, CloseFile
<1> QED
  BY <1>1, <1>2, <1>3, <1>4, <1>5

LEMMA ArchiveFacts ==
  ASSUME IInv, NEW r \in Runs, Archive(r)
  PROVE  IInv'
<1>0. Absent \notin Runs
  BY SchedulerAssumption
<1>1. attempts \in [Runs -> 0..3] /\ attempts[r] < 3 /\ at[r] = "archive"
  BY DEF IInv, TypeOK, Archive, AttemptsLeft
<1>2. attempts[r] + 1 \in 0..3
  BY <1>1
<1>3. attempts' \in [Runs -> 0..3] /\ \A s \in Runs \ {r} : attempts'[s] = attempts[s]
  BY <1>1, <1>2 DEF Archive, Retry
<1>4. \/ at'[r] = "failed"
      \/ at'[r] = "create" /\ attempts[r] < 2 /\ attempts'[r] = attempts[r] + 1
  BY <1>1 DEF IInv, TypeOK, Archive, Retry
<1>5. /\ at' \in [Runs -> {"idle"} \cup Acquiring \cup Holding \cup Over]
      /\ \A s \in Runs \ {r} : at'[s] = at[s]
  BY <1>4 DEF IInv, TypeOK, Archive, Retry
<1>6. AttemptsLeft'
  <2> SUFFICES ASSUME NEW s \in Runs, at'[s] \in {"idle"} \cup Acquiring
               PROVE  attempts'[s] < 3
    BY DEF AttemptsLeft
  <2>1. CASE s = r
    BY <1>1, <1>4, <2>1
  <2>2. CASE s # r
    BY <1>3, <1>5, <2>2 DEF IInv, AttemptsLeft
  <2> QED
    BY <2>1, <2>2
<1>7. TypeOK'
  BY <1>0, <1>1, <1>3, <1>4, <1>5 DEF IInv, TypeOK, Archive
<1>8. FilesAreMade' /\ OwnIsFound'
  BY <1>0, <1>1, <1>4, <1>5
     DEF IInv, TypeOK, FilesOK, FilesAreMade, OwnIsFound, Archive
<1>9. LeftoverIsExplained' /\ OnlyWhereOpenFilesStay'
  BY <1>0, <1>1, <1>5
     DEF IInv, TypeOK, FilesOK, LeftoverIsExplained, OnlyWhereOpenFilesStay, Archive
<1>10. OwnedUntilRecovery'
  <2>1. CASE file = Absent
    BY <1>0, <1>1, <1>4, <1>5, <2>1 DEF IInv, TypeOK, FilesOK, OwnedUntilRecovery, Archive
  <2>2. CASE recovered'[r]
    BY <2>2 DEF OwnedUntilRecovery
  <2>3. CASE file # Absent /\ ~recovered'[r]
    BY <1>0, <1>1, <1>4, <1>5, <2>3 DEF IInv, TypeOK, FilesOK, OwnedUntilRecovery, Archive
  <2> QED
    BY <2>1, <2>2, <2>3
<1> QED
  BY <1>6, <1>7, <1>8, <1>9, <1>10 DEF IInv, FilesOK

LEMMA RemoveFacts ==
  ASSUME IInv, NEW r \in Runs, at[r] \in {"undo", "unlink"},
         NEW place \in {"failed", "ended"}, RemoveFile(r, place)
  PROVE  IInv'
<1>0. Absent \notin Runs
  BY SchedulerAssumption
<1>1. /\ at' \in [Runs -> {"idle"} \cup Acquiring \cup Holding \cup Over]
      /\ at'[r] \in {"failed", "ended"}
      /\ \A s \in Runs \ {r} : at'[s] = at[s]
  BY DEF RemoveFile, IInv, TypeOK
<1>2. \/ file' = Absent /\ refused' = refused
      \/ file' = file /\ refused' = refused \cup {r} /\ FALSE \in OpenMoves
  BY DEF RemoveFile, Refuses
<1>3. UNCHANGED <<lock, reading, started, attempts, recovered, child, forked, now>>
  BY DEF RemoveFile
<1>4. TypeOK'
  BY <1>1, <1>2, <1>3 DEF IInv, TypeOK
<1>5. AttemptsLeft'
  BY <1>1, <1>3 DEF IInv, AttemptsLeft
<1>6. LeftoverIsExplained' /\ OnlyWhereOpenFilesStay'
  BY <1>0, <1>1, <1>2 DEF IInv, TypeOK, FilesOK, LeftoverIsExplained, OnlyWhereOpenFilesStay
<1>7. FilesAreMade' /\ OwnIsFound'
  <2>1. \A s \in Runs : at'[s] = at[s] \/ at'[s] \in {"failed", "ended"}
    BY <1>1
  <2>2. file' \in {file, Absent}
    BY <1>2
  <2>3. FilesAreMade'
    BY <1>3, <2>1, <2>2 DEF IInv, FilesOK, FilesAreMade
  <2>4. OwnIsFound'
    BY <1>0, <1>3, <2>1, <2>2 DEF IInv, FilesOK, OwnIsFound
  <2> QED
    BY <2>3, <2>4
<1>8. OwnedUntilRecovery'
  <2>1. ASSUME NEW s \in Runs, at'[s] \in Holding \/ child'[s] = "running",
               \A q \in Runs : ~recovered'[q]
        PROVE  file' = s
    <3>1. file = s /\ file = r
      BY <1>1, <1>3, <2>1 DEF IInv, FilesOK, TypeOK, OwnedUntilRecovery
    <3>2. child[r] # "running"
      BY DEF IInv, TypeOK
    <3> QED
      BY <1>1, <1>3, <2>1, <3>1, <3>2
  <2> QED
    BY <2>1 DEF OwnedUntilRecovery
<1> QED
  BY <1>4, <1>5, <1>6, <1>7, <1>8 DEF IInv, FilesOK

LEMMA BatchFacts ==
  ASSUME IInv, NEW r \in Runs,
         WriteFails(r) \/ Undo(r) \/ Fork(r) \/ PrepareFails(r) \/ ChildEnds(r)
  PROVE  IInv'
<1>0. Absent \notin Runs
  BY SchedulerAssumption
<1>1. CASE WriteFails(r)
  BY <1>0, <1>1
     DEF IInv, TypeOK, FilesOK, LeftoverIsExplained, FilesAreMade, OwnIsFound,
         OnlyWhereOpenFilesStay, OwnedUntilRecovery, AttemptsLeft, WriteFails
<1>2. CASE Undo(r)
  <2> HIDE DEF Goto
  <2> QED
    BY <1>2, RemoveFacts DEF Undo
<1>3. CASE Fork(r)
  BY <1>0, <1>3
     DEF IInv, TypeOK, FilesOK, LeftoverIsExplained, FilesAreMade, OwnIsFound,
         OnlyWhereOpenFilesStay, OwnedUntilRecovery, AttemptsLeft, Fork
<1>4. CASE PrepareFails(r)
  BY <1>0, <1>4
     DEF IInv, TypeOK, FilesOK, LeftoverIsExplained, FilesAreMade, OwnIsFound,
         OnlyWhereOpenFilesStay, OwnedUntilRecovery, AttemptsLeft, PrepareFails
<1>5. CASE ChildEnds(r)
  <2>1. TypeOK'
    BY <1>0, <1>5 DEF IInv, TypeOK, ChildEnds
  <2>2. AttemptsLeft'
    BY <1>5 DEF IInv, TypeOK, AttemptsLeft, ChildEnds
  <2>3. LeftoverIsExplained' /\ OnlyWhereOpenFilesStay'
    BY <1>0, <1>5
       DEF IInv, TypeOK, FilesOK, LeftoverIsExplained, OnlyWhereOpenFilesStay, ChildEnds
  <2>4. FilesAreMade' /\ OwnIsFound'
    BY <1>0, <1>5 DEF IInv, TypeOK, FilesOK, FilesAreMade, OwnIsFound, ChildEnds
  <2>5. OwnedUntilRecovery'
    BY <1>0, <1>5 DEF IInv, TypeOK, FilesOK, FilesAreMade, OwnedUntilRecovery, ChildEnds
  <2> QED
    BY <2>1, <2>2, <2>3, <2>4, <2>5 DEF IInv, FilesOK
<1> QED
  BY <1>1, <1>2, <1>3, <1>4, <1>5

LEMMA ReleaseFacts ==
  ASSUME IInv, NEW r \in Runs,
         Release(r) \/ Check(r) \/ Unlink(r) \/ Crash(r)
  PROVE  IInv'
<1>0. Absent \notin Runs
  BY SchedulerAssumption
<1>1. CASE Release(r)
  BY <1>0, <1>1
     DEF IInv, TypeOK, FilesOK, LeftoverIsExplained, FilesAreMade, OwnIsFound,
         OnlyWhereOpenFilesStay, OwnedUntilRecovery, AttemptsLeft, Release, OpenFile
<1>2. CASE Check(r)
  BY <1>0, <1>2
     DEF IInv, TypeOK, FilesOK, LeftoverIsExplained, FilesAreMade, OwnIsFound,
         OnlyWhereOpenFilesStay, OwnedUntilRecovery, AttemptsLeft, Check, CloseFile
<1>3. CASE Unlink(r)
  <2> HIDE DEF Goto
  <2> QED
    BY <1>3, RemoveFacts DEF Unlink
<1>4. CASE Crash(r)
  BY <1>0, <1>4
     DEF IInv, TypeOK, FilesOK, LeftoverIsExplained, FilesAreMade, OwnIsFound,
         OnlyWhereOpenFilesStay, OwnedUntilRecovery, AttemptsLeft, Crash, CloseFile
<1> QED
  BY <1>1, <1>2, <1>3, <1>4

LEMMA NextFacts == IInv /\ [Next]_vars => IInv'
<1> SUFFICES ASSUME IInv, [Next]_vars PROVE IInv'
  OBVIOUS
<1>1. CASE Tick
  <2>1. TypeOK'
    BY <1>1 DEF IInv, TypeOK, Tick
  <2>2. AttemptsLeft' /\ FilesOK'
    BY <1>1
       DEF IInv, FilesOK, LeftoverIsExplained, FilesAreMade, OwnIsFound,
           OnlyWhereOpenFilesStay, OwnedUntilRecovery, AttemptsLeft, Tick
  <2> QED
    BY <2>1, <2>2 DEF IInv
<1>2. CASE UNCHANGED vars
  BY <1>2
     DEF IInv, TypeOK, FilesOK, LeftoverIsExplained, FilesAreMade, OwnIsFound,
         OnlyWhereOpenFilesStay, OwnedUntilRecovery, AttemptsLeft, vars
<1> QED
  BY <1>1, <1>2, AcquireFacts, ArchiveFacts, BatchFacts, ReleaseFacts DEF Next

LEMMA Invariance == Spec => []IInv
  BY InitFacts, NextFacts, PTL DEF Spec

\* However many runs there are and however they crash, two batches are never
\* under way unless some run has moved a lock file away as stale.
THEOREM ExclusiveBatch == Spec => []ExclusiveUntilRecovery
<1>1. IInv => ExclusiveUntilRecovery
  BY DEF IInv, FilesOK, OwnedUntilRecovery, ExclusiveUntilRecovery, OneBatch
<1> QED
  BY <1>1, Invariance, PTL

\* A run that ends, in whatever way, leaves its lock file behind only where an open
\* file cannot be removed, and only after it was refused; a crash may leave it.
THEOREM LockIsReturned == Spec => []LeftoverIsExplained
<1>1. IInv => LeftoverIsExplained
  BY DEF IInv, FilesOK
<1> QED
  BY <1>1, Invariance, PTL

\* A child without its parent is that of a run that crashed.
THEOREM SchedulerTypeCorrect == Spec => []TypeOK
<1>1. IInv => TypeOK
  BY DEF IInv
<1> QED
  BY <1>1, Invariance, PTL

-----------------------------------------------------------------------------
(* The attempts.  The lock that an attempt is spent on is gone when the    *)
(* next one begins, and its run never takes another.                       *)

\* The other runs that took the lock, and those of them whose lock is gone.
Took(r) == {s \in Runs \ {r} : TookLock(s)}
Gone(r) == {s \in Took(r) : file # s}

\* Only finitely many processes have been started so far.
Begun == {s \in Runs : at[s] # "idle"}

Spent(r) ==
    /\ attempts[r] <= Cardinality(Took(r))
    /\ at[r] \in {"idle", "create"} => attempts[r] <= Cardinality(Gone(r))
    /\ at[r] \in {"open", "read", "archive"} => attempts[r] + 1 <= Cardinality(Took(r))

AttemptsInv == IsFiniteSet(Begun) /\ \A r \in Runs : Spent(r)

\* What every step leaves: whoever took the lock did, and a lock that is gone
\* does not come back.
Lasting ==
    /\ IsFiniteSet(Begun')
    /\ \A s \in Runs : TookLock(s) => TookLock(s)'
    /\ file' \notin {file, Absent} => file' \in Runs /\ ~TookLock(file')

LEMMA Counts ==
    ASSUME FilesAreMade, IsFiniteSet(Begun), NEW r \in Runs
    PROVE  /\ IsFiniteSet(Took(r)) /\ IsFiniteSet(Gone(r))
           /\ Cardinality(Took(r)) \in Nat /\ Cardinality(Gone(r)) \in Nat
<1>1. Took(r) \in SUBSET Begun /\ Gone(r) \in SUBSET Begun
  BY DEF Took, Gone, Begun, TookLock, FilesAreMade
<1>. QED
  BY <1>1, FS_Subset, FS_CardinalityType

LEMMA CountsGrow ==
    ASSUME FilesAreMade, FilesAreMade', AttemptsInv, NEW r \in Runs, Lasting
    PROVE  /\ Cardinality(Took(r)) <= Cardinality(Took(r)')
           /\ Cardinality(Gone(r)) <= Cardinality(Gone(r)')
           /\ Cardinality(Took(r)) \in Nat /\ Cardinality(Gone(r)) \in Nat
           /\ Cardinality(Took(r)') \in Nat /\ Cardinality(Gone(r)') \in Nat
           /\ IsFiniteSet(Took(r)')
<1>1. IsFiniteSet(Took(r)') /\ IsFiniteSet(Gone(r)')
  <2>1. Took(r)' \in SUBSET Begun' /\ Gone(r)' \in SUBSET Begun'
    BY DEF Took, Gone, Begun, TookLock, FilesAreMade
  <2>. QED
    BY <2>1, FS_Subset DEF Lasting
<1>2. Took(r) \in SUBSET Took(r)'
  BY DEF Took, Lasting
<1>3. Gone(r) \in SUBSET Gone(r)'
  <2>. SUFFICES ASSUME NEW s \in Gone(r) PROVE file' # s
    BY <1>2 DEF Gone
  <2>. QED
    BY SchedulerAssumption DEF Gone, Took, Lasting
<1>. QED
  BY <1>1, <1>2, <1>3, Counts, FS_Subset, FS_CardinalityType DEF AttemptsInv

\* A run that stays where it is, or has nothing more to count.
LEMMA SpentStays ==
    ASSUME IInv, IInv', AttemptsInv, NEW r \in Runs, Lasting, attempts'[r] = attempts[r],
           \/ at'[r] = at[r]
           \/ at'[r] \notin {"idle"} \cup Acquiring
           \/ at[r] = "idle" /\ at'[r] = "create"
           \/ at[r] \in {"open", "read"} /\ at'[r] \in {"read", "archive"}
    PROVE  Spent(r)'
<1>1. Spent(r) /\ attempts[r] \in Nat
  BY DEF AttemptsInv, IInv, TypeOK
<1>2. /\ Cardinality(Took(r)) <= Cardinality(Took(r)')
      /\ Cardinality(Gone(r)) <= Cardinality(Gone(r)')
      /\ Cardinality(Took(r)) \in Nat /\ Cardinality(Gone(r)) \in Nat
      /\ Cardinality(Took(r)') \in Nat /\ Cardinality(Gone(r)') \in Nat
  BY CountsGrow DEF IInv, FilesOK
<1>. QED
  BY <1>1, <1>2 DEF Spent

\* The steps of one run are lasting, and leave the others where they are.
LEMMA StepLasts ==
    ASSUME IInv, AttemptsInv, NEW r \in Runs,
           \/ Start(r) \/ Create(r) \/ Write(r) \/ WriteFails(r) \/ Undo(r) \/ OpenLock(r)
           \/ Read(r) \/ Archive(r) \/ Fork(r) \/ PrepareFails(r) \/ ChildEnds(r)
           \/ Release(r) \/ Check(r) \/ Unlink(r) \/ Crash(r)
    PROVE  /\ Lasting
           /\ \A s \in Runs \ {r} : at'[s] = at[s] /\ attempts'[s] = attempts[s]
<1>1. at \in [Runs -> {"idle"} \cup Acquiring \cup Holding \cup Over] /\ DOMAIN attempts = Runs
      /\ Absent \notin Runs
  BY SchedulerAssumption DEF IInv, TypeOK
<1>2. \/ \E place : Goto(r, place)
      \/ UNCHANGED at
  <2>. HIDE DEF Goto
  <2>. QED
    BY DEF Start, Create, Write, WriteFails, Undo, OpenLock, Read, Archive, Fork, PrepareFails,
       ChildEnds, Release, Check, Unlink, Crash, TakePath, Retry, OpenFile, RemoveFile
<1>3. \A s \in Runs \ {r} : at'[s] = at[s]
  BY <1>1, <1>2
<1>4. \A s \in Runs \ {r} : attempts'[s] = attempts[s]
  <2>1. UNCHANGED attempts \/ attempts' = [attempts EXCEPT ![r] = @ + 1]
    BY DEF Start, Create, Write, WriteFails, Undo, OpenLock, Read, Archive, Fork, PrepareFails,
       ChildEnds, Release, Check, Unlink, Crash, TakePath, Retry, OpenFile, RemoveFile
  <2>. QED
    BY <1>1, <2>1
<1>5. IsFiniteSet(Begun')
  <2>1. IsFiniteSet(Begun \cup {r})
    BY FS_AddElement DEF AttemptsInv
  <2>2. Begun' \in SUBSET (Begun \cup {r})
    BY <1>3 DEF Begun
  <2>. QED
    BY <2>1, <2>2, FS_Subset
<1>6. \/ UNCHANGED lock
      \/ lock' = [lock EXCEPT ![r] = "empty"]
      \/ lock' = [lock EXCEPT ![r] = "full"]
  BY DEF Start, Create, Write, WriteFails, Undo, OpenLock, Read, Archive, Fork, PrepareFails,
     ChildEnds, Release, Check, Unlink, Crash, TakePath, Retry, OpenFile, RemoveFile
<1>7. file' \notin {file, Absent} => file' = r /\ at[r] = "create"
  BY DEF Start, Create, Write, WriteFails, Undo, OpenLock, Read, Archive, Fork, PrepareFails,
     ChildEnds, Release, Check, Unlink, Crash, TakePath, Retry, OpenFile, RemoveFile
<1>8. Lasting
  <2>1. \A s \in Runs : TookLock(s) => TookLock(s)'
    BY <1>6 DEF TookLock, IInv, TypeOK
  <2>2. at[r] = "create" => ~TookLock(r)
    BY DEF TookLock, IInv, FilesOK, FilesAreMade
  <2>. QED
    BY <1>5, <1>7, <2>1, <2>2 DEF Lasting
<1>. QED
  BY <1>3, <1>4, <1>8

\* A lock that is found is that of one more run.
LEMMA FoundIsSpent ==
    ASSUME IInv, IInv', AttemptsInv, NEW r \in Runs, Lasting, at[r] = "create",
           file # Absent, attempts'[r] = attempts[r], at'[r] = "open"
    PROVE  Spent(r)'
<1>1. file \in Runs \ {r} /\ TookLock(file)
  BY SchedulerAssumption DEF IInv, TypeOK, FilesOK, FilesAreMade, TookLock
<1>2. file \in Took(r)' /\ file \notin Gone(r)
  BY <1>1 DEF Took, Gone, Lasting
<1>3. Gone(r) \cup {file} \in SUBSET Took(r)'
  BY <1>2 DEF Gone, Took, Lasting
<1>4. /\ Cardinality(Gone(r)) \in Nat /\ Cardinality(Took(r)') \in Nat /\ IsFiniteSet(Took(r)')
      /\ IsFiniteSet(Gone(r))
  BY CountsGrow, Counts DEF AttemptsInv, IInv, FilesOK
<1>5. Cardinality(Gone(r)) + 1 <= Cardinality(Took(r)')
  <2>1. Cardinality(Gone(r) \cup {file}) = Cardinality(Gone(r)) + 1
    BY <1>2, <1>4, FS_AddElement
  <2>2. Cardinality(Gone(r) \cup {file}) <= Cardinality(Took(r)')
    BY <1>3, <1>4, FS_Subset
  <2>. QED
    BY <2>1, <2>2
<1>6. attempts[r] <= Cardinality(Gone(r)) /\ attempts[r] \in Nat
  BY DEF AttemptsInv, Spent, IInv, TypeOK
<1>7. attempts'[r] + 1 <= Cardinality(Took(r)')
  BY <1>4, <1>5, <1>6
<1>. QED
  BY <1>4, <1>6, <1>7 DEF Spent

\* An attempt is spent when no lock is left at the path.
LEMMA RetrySpends ==
    ASSUME IInv, IInv', AttemptsInv, NEW r \in Runs, Lasting, at[r] = "archive",
           file' = Absent, attempts'[r] = attempts[r] + 1
    PROVE  Spent(r)' \/ at'[r] \in {"open", "read", "archive"}
<1>1. Gone(r)' = Took(r)'
  BY SchedulerAssumption DEF Gone, Took
<1>2. /\ Cardinality(Took(r)) <= Cardinality(Took(r)')
      /\ Cardinality(Took(r)) \in Nat /\ Cardinality(Took(r)') \in Nat
  BY CountsGrow DEF IInv, FilesOK
<1>3. attempts[r] + 1 <= Cardinality(Took(r)) /\ attempts[r] \in Nat
  BY DEF AttemptsInv, Spent, IInv, TypeOK
<1>4. attempts'[r] <= Cardinality(Took(r)')
  BY <1>2, <1>3
<1>5. attempts'[r] <= Cardinality(Gone(r)')
  BY <1>1, <1>4
<1>. QED
  BY <1>4, <1>5 DEF Spent

LEMMA AttemptsNext == IInv /\ AttemptsInv /\ [Next]_vars => AttemptsInv'
<1>. SUFFICES ASSUME IInv, AttemptsInv, [Next]_vars PROVE AttemptsInv'
  OBVIOUS
<1>0. IInv'
  BY NextFacts
<1>1. CASE UNCHANGED <<file, lock, at, attempts>>
  BY <1>1 DEF AttemptsInv, Begun, Spent, Took, Gone, TookLock
<1>2. ASSUME NEW r \in Runs,
             \/ Start(r) \/ Create(r) \/ Write(r) \/ WriteFails(r) \/ Undo(r) \/ OpenLock(r)
             \/ Read(r) \/ Archive(r) \/ Fork(r) \/ PrepareFails(r) \/ ChildEnds(r)
             \/ Release(r) \/ Check(r) \/ Unlink(r) \/ Crash(r)
      PROVE  AttemptsInv'
  <2>1. /\ Lasting
        /\ \A s \in Runs \ {r} : at'[s] = at[s] /\ attempts'[s] = attempts[s]
    BY <1>2, StepLasts
  <2>2. \A s \in Runs \ {r} : Spent(s)'
    BY <1>0, <2>1, SpentStays
  <2>3. at \in [Runs -> {"idle"} \cup Acquiring \cup Holding \cup Over]
        /\ attempts \in [Runs -> 0..3]
    BY DEF IInv, TypeOK
  <2>4. ASSUME Create(r) PROVE Spent(r)'
    <3>1. CASE at'[r] = "open"
      BY <1>0, <2>1, <2>3, <2>4, <3>1, FoundIsSpent DEF Create, TakePath
    <3>2. CASE at'[r] # "open"
      BY <1>0, <2>1, <2>3, <2>4, <3>2, SpentStays DEF Create, TakePath
    <3>. QED
      BY <3>1, <3>2
  <2>5. ASSUME Archive(r) PROVE Spent(r)'
    <3>1. \/ file' = Absent /\ attempts'[r] = attempts[r] + 1 /\ at'[r] \in {"create", "failed"}
          \/ attempts'[r] = attempts[r] /\ at'[r] = "failed"
      BY <2>3, <2>5 DEF Archive, Retry
    <3>2. at[r] = "archive"
      BY <2>5 DEF Archive
    <3>. QED
      BY <1>0, <2>1, <3>1, <3>2, RetrySpends, SpentStays
  <2>6. ASSUME ~Create(r), ~Archive(r) PROVE Spent(r)'
    <3>1. attempts'[r] = attempts[r]
      BY <1>2, <2>6 DEF Start, Write, WriteFails, Undo, OpenLock, Read, Fork, PrepareFails,
         ChildEnds, Release, Check, Unlink, Crash, OpenFile, RemoveFile
    <3>2. \/ at'[r] = at[r]
          \/ at'[r] \notin {"idle"} \cup Acquiring
          \/ at[r] = "idle" /\ at'[r] = "create"
          \/ at[r] \in {"open", "read"} /\ at'[r] \in {"read", "archive"}
      BY <1>2, <2>3, <2>6 DEF Start, Write, WriteFails, Undo, OpenLock, Read, Fork, PrepareFails,
         ChildEnds, Release, Check, Unlink, Crash, OpenFile, RemoveFile
    <3>. QED
      BY <1>0, <2>1, <3>1, <3>2, SpentStays
  <2>. QED
    BY <2>1, <2>2, <2>4, <2>5, <2>6 DEF AttemptsInv, Lasting
<1>3. CASE Tick
  BY <1>1, <1>3 DEF Tick
<1>. QED
  BY <1>1, <1>2, <1>3 DEF Next, vars

LEMMA AttemptsStart == Init => AttemptsInv
<1>. SUFFICES ASSUME Init PROVE AttemptsInv
  OBVIOUS
<1>1. Begun = {}
  BY DEF Init, Begun
<1>2. IsFiniteSet(Begun)
  BY <1>1, FS_EmptySet
<1>3. \A r \in Runs : attempts[r] = 0 /\ at[r] = "idle"
  BY DEF Init
<1>. QED
  BY <1>2, <1>3, Counts, InitFacts DEF AttemptsInv, Spent, IInv, FilesOK

\* A run fails for concurrent retries only where three others took the lock: each
\* attempt is spent on the lock of another run, and on none twice.
THEOREM AttemptsAreOfOthers == Spec => []AttemptsAreRaces
<1>1. AttemptsInv => AttemptsAreRaces
  BY DEF AttemptsInv, Spent, Took, AttemptsAreRaces
<1>. QED
  BY <1>1, AttemptsStart, AttemptsNext, Invariance, PTL DEF Spec
=============================================================================
