------------------------ MODULE InformationFeedsProofs ------------------------
(***************************************************************************)
(* Theorems about filings and articles: what lies behind the cursors, the  *)
(* counters of an event, what it is confirmed by, and that its state       *)
(* changes with a document only.                                           *)
(*                                                                         *)
(* A run is a fold of documents over the books, so each fact is shown of   *)
(* one document first (JoinRecord, RereadKeeps, IngestKeeps) and carried   *)
(* over the folds by an induction on the documents taken.                  *)
(***************************************************************************)
EXTENDS InformationFeeds, TLAPS, FiniteSetTheorems, WellFoundedInduction

-----------------------------------------------------------------------------
(* Induction over an interval, and the order of a finite set.              *)

\* A nonempty set of naturals has a least element.
LEMMA NatMinimum ==
    ASSUME NEW T, T \subseteq Nat, T # {}
    PROVE  \E x \in T : \A y \in T : x <= y
<1>1. \E x \in T : \A y \in T : <<y, x>> \notin OpToRel(<, Nat)
  BY NatLessThanWellFounded, WFMin
<1>2. PICK x \in T : \A y \in T : <<y, x>> \notin OpToRel(<, Nat)
  BY <1>1
<1>3. \A y \in T : <<y, x>> \in Nat \X Nat
  OBVIOUS
<1>4. \A y \in T : ~(y < x)
  BY <1>2, <1>3 DEF OpToRel
<1>5. \A y \in T : y \in Nat
  OBVIOUS
<1>6. \A y \in T : x <= y
  BY <1>4, <1>5, SMT
<1> QED
  BY <1>6

\* A set with 0 that is closed under successor up to N contains 0..N.
LEMMA NatSetInduction ==
    ASSUME NEW N \in Nat, NEW T, 0 \in T,
           \A n \in 0..N : n < N /\ n \in T => n + 1 \in T
    PROVE  \A n \in 0..N : n \in T
<1> DEFINE Missing == {n \in 0..N : n \notin T}
<1>1. SUFFICES ASSUME Missing # {} PROVE FALSE
  OBVIOUS
<1>2. PICK m \in Missing : \A y \in Missing : m <= y
  <2>1. Missing \subseteq Nat
    BY SMT
  <2> QED
    BY <1>1, <2>1, NatMinimum
<1>3. m \in 0..N /\ m \notin T /\ m # 0
  BY <1>2
<1>4. m - 1 \in 0..N /\ m - 1 < N /\ (m - 1) + 1 = m
  BY <1>3, SMT
<1>5. m - 1 \in T
  BY <1>2, <1>4
<1> QED
  BY <1>3, <1>4, <1>5

\* Of finitely many things with times one is the latest and one is the earliest.
LEMMA Extremes ==
    ASSUME NEW U, NEW time, \A u \in U : time[u] \in Int,
           NEW L \in SUBSET U, IsFiniteSet(L), L # {}
    PROVE  /\ \E u \in L : \A v \in L : time[v] <= time[u]
           /\ \E u \in L : \A v \in L : time[u] <= time[v]
<1> DEFINE Low(T) == \E u \in T : \A v \in T : time[u] <= time[v]
           High(T) == \E u \in T : \A v \in T : time[v] <= time[u]
           Done == {n \in 0 .. Cardinality(L) :
                       \A T \in SUBSET L : Cardinality(T) = n /\ T # {} => High(T) /\ Low(T)}
<1>1. Cardinality(L) \in Nat
  BY FS_CardinalityType
<1>2. 0 \in Done
  <2> SUFFICES ASSUME NEW T \in SUBSET L, Cardinality(T) = 0, T # {}
               PROVE  FALSE
    BY <1>1
  <2>1. IsFiniteSet(T)
    BY FS_Subset
  <2> QED
    BY <2>1, FS_EmptySet
<1>3. ASSUME NEW n \in 0 .. Cardinality(L), n < Cardinality(L), n \in Done
      PROVE  n + 1 \in Done
  <2> SUFFICES ASSUME NEW T \in SUBSET L, Cardinality(T) = n + 1, T # {}
               PROVE  High(T) /\ Low(T)
    BY <1>1, <1>3
  <2>1. PICK w : w \in T
    OBVIOUS
  <2>2. IsFiniteSet(T)
    BY FS_Subset
  <2>3. Cardinality(T \ {w}) = n
    <3>1. Cardinality(T \ {w}) = Cardinality(T) - 1
      BY <2>1, <2>2, FS_RemoveElement
    <3> QED
      BY <3>1
  <2>4. CASE T \ {w} = {}
    BY <2>1, <2>4
  <2>5. CASE T \ {w} # {}
    <3>1. T \ {w} \in SUBSET L
      OBVIOUS
    <3>2. High(T \ {w}) /\ Low(T \ {w})
      <4> HIDE DEF High, Low
      <4> QED
        BY <1>3, <2>3, <2>5, <3>1
    <3>3. PICK u \in T \ {w} : \A v \in T \ {w} : time[v] <= time[u]
      BY <3>2
    <3>4. PICK x \in T \ {w} : \A v \in T \ {w} : time[x] <= time[v]
      BY <3>2
    <3>5. \A v \in T : time[v] \in Int
      OBVIOUS
    <3>6. High(T)
      <4>1. CASE time[w] <= time[u]
        BY <3>3, <4>1
      <4>2. CASE time[u] < time[w]
        <5>1. \A v \in T : time[v] <= time[w]
          BY <3>3, <3>5, <4>2, <2>1
        <5> QED
          BY <5>1, <2>1
      <4> QED
        BY <4>1, <4>2, <3>3, <3>5, <2>1
    <3>7. Low(T)
      <4>1. CASE time[x] <= time[w]
        BY <3>4, <4>1
      <4>2. CASE time[w] < time[x]
        <5>1. \A v \in T : time[w] <= time[v]
          BY <3>4, <3>5, <4>2, <2>1
        <5> QED
          BY <5>1, <2>1
      <4> QED
        BY <4>1, <4>2, <3>4, <3>5, <2>1
    <3> QED
      BY <3>6, <3>7
  <2> QED
    BY <2>4, <2>5
<1>4. Cardinality(L) \in Done
  <2> HIDE DEF Done
  <2>1. \A n \in 0 .. Cardinality(L) : n \in Done
    BY <1>1, <1>2, <1>3, NatSetInduction
  <2> QED
    BY <1>1, <2>1
<1> QED
  BY <1>4

\* All that has a place is of the list, and all of the list has a place.
Ordered(order, list) ==
    /\ order \in [1 .. Cardinality(list) -> list]
    /\ \A u \in list : \E n \in 1 .. Cardinality(list) : order[n] = u

\* The order of a list is that of a sequence of its members.
LEMMA NewestFirstOrder ==
    ASSUME NEW U, NEW time, \A u \in U : time[u] \in Int, NEW list \in SUBSET U,
           IsFiniteSet(list)
    PROVE  Ordered(NewestFirst(list, time), list)
<1> DEFINE Sorted(order, n) ==
               \A i, j \in 1 .. n : i < j => order[i] # order[j] /\ time[order[i]] >= time[order[j]]
           Done == {n \in 0 .. Cardinality(list) :
                       \A T \in SUBSET list : Cardinality(T) = n =>
                           \E order \in [1 .. n -> T] : Sorted(order, n)}
<1>1. Cardinality(list) \in Nat
  BY FS_CardinalityType
<1>2. 0 \in Done
  <2> SUFFICES ASSUME NEW T \in SUBSET list, Cardinality(T) = 0
               PROVE  \E order \in [1 .. 0 -> T] : Sorted(order, 0)
    BY <1>1
  <2> DEFINE none == [i \in 1 .. 0 |-> None]
  <2>1. none \in [1 .. 0 -> T]
    BY SMT
  <2>2. Sorted(none, 0)
    BY SMT
  <2> QED
    BY <2>1, <2>2
<1>3. ASSUME NEW n \in 0 .. Cardinality(list), n < Cardinality(list), n \in Done
      PROVE  n + 1 \in Done
  <2> SUFFICES ASSUME NEW T \in SUBSET list, Cardinality(T) = n + 1
               PROVE  \E order \in [1 .. n + 1 -> T] : Sorted(order, n + 1)
    BY <1>1, <1>3
  <2>1. IsFiniteSet(T) /\ T # {}
    <3>1. IsFiniteSet(T)
      BY FS_Subset
    <3>2. n + 1 # 0
      BY <1>3
    <3> QED
      BY <3>1, <3>2, FS_EmptySet
  <2>2. PICK w \in T : \A v \in T : time[w] <= time[v]
    <3>1. T \in SUBSET U
      OBVIOUS
    <3> QED
      BY <2>1, <3>1, Extremes
  <2>3. Cardinality(T \ {w}) = n /\ T \ {w} \in SUBSET list
    <3>1. Cardinality(T \ {w}) = Cardinality(T) - 1
      BY <2>1, FS_RemoveElement
    <3> QED
      BY <3>1
  <2>4. PICK before \in [1 .. n -> T \ {w}] : Sorted(before, n)
    <3> HIDE DEF Sorted
    <3> QED
      BY <1>3, <2>3
  <2> DEFINE order == [i \in 1 .. n + 1 |-> IF i = n + 1 THEN w ELSE before[i]]
  <2>5. \A i \in 1 .. n + 1 : i # n + 1 => i \in 1 .. n
    BY <1>3
  <2>6. order \in [1 .. n + 1 -> T]
    BY <2>4, <2>5
  <2>7. ASSUME NEW i \in 1 .. n + 1, NEW j \in 1 .. n + 1, i < j
        PROVE  order[i] # order[j] /\ time[order[i]] >= time[order[j]]
    <3>1. i \in 1 .. n /\ i # n + 1
      BY <2>7, <1>3
    <3>2. order[i] = before[i] /\ before[i] \in T \ {w}
      BY <3>1, <2>4
    <3>3. CASE j = n + 1
      <4>1. order[j] = w
        BY <3>3
      <4>2. time[w] <= time[before[i]] /\ time[w] \in Int /\ time[before[i]] \in Int
        BY <2>2, <3>2
      <4> HIDE DEF order
      <4> QED
        BY <3>2, <4>1, <4>2
    <3>4. CASE j # n + 1
      <4>1. j \in 1 .. n /\ order[j] = before[j]
        BY <2>5, <3>4
      <4>2. before[i] # before[j] /\ time[before[i]] >= time[before[j]]
        BY <2>4, <3>1, <4>1, <2>7
      <4> HIDE DEF order
      <4> QED
        BY <3>2, <4>1, <4>2
    <3> QED
      BY <3>3, <3>4
  <2>8. Sorted(order, n + 1)
    BY <2>7
  <2> HIDE DEF order, Sorted
  <2> QED
    BY <2>6, <2>8
<1>4. Cardinality(list) \in Done
  <2> HIDE DEF Done
  <2>1. \A n \in 0 .. Cardinality(list) : n \in Done
    BY <1>1, <1>2, <1>3, NatSetInduction
  <2> QED
    BY <1>1, <2>1
<1>5. \E order \in [1 .. Cardinality(list) -> list] : Sorted(order, Cardinality(list))
  BY <1>4
<1> DEFINE L == Cardinality(list)
           order == NewestFirst(list, time)
<1>6. order \in [1 .. L -> list] /\ \A i, j \in 1 .. L : i < j => order[i] # order[j]
  BY <1>5 DEF NewestFirst
<1> HIDE DEF order
<1>7. order \in Injection(1 .. L, list)
  <2>1. \A i, j \in 1 .. L : order[i] = order[j] => i = j
    BY <1>6
  <2> QED
    BY <1>6, <2>1 DEF Injection, IsInjective
<1>8. order \in Surjection(1 .. L, list)
  <2>1. IsFiniteSet(1 .. L) /\ Cardinality(1 .. L) = L
    <3>1. 1 > L => L = 0
      BY <1>1
    <3>2. L - 1 + 1 = L
      BY <1>1
    <3> QED
      BY <1>1, <3>1, <3>2, FS_Interval
  <2> QED
    BY <1>7, <2>1, FS_Injection
<1>9. Ordered(order, list)
  BY <1>6, <1>8 DEF Surjection, Ordered
<1> QED
  BY <1>9 DEF order

-----------------------------------------------------------------------------
(* The invariant.                                                          *)

RecordColumns ==
    {"event", "published", "summary", "material", "lifecycle", "verification", "corrects"}
ReferenceColumns ==
    {"event", "published", "origin", "independent", "duplicateOf", "verification", "lifecycle",
     "material", "stale", "trust", "manual"}
EventColumns ==
    {"claim", "summary", "type", "lifecycle", "verification", "material", "changed", "seen",
     "sources", "official", "news", "origins"}

Recs(rec, key) == {r \in DOMAIN rec : rec[r].event = key}
Arts(ref, key) == {a \in DOMAIN ref : ref[a].event = key}
OriginsOf(ref, key) == {ref[a].origin : a \in Arts(ref, key)}
FirstsOf(ref, key, o) == {a \in Arts(ref, key) : ref[a].origin = o /\ ref[a].independent}

\* No event is of filings and of articles alike made: those of the news have a key
\* that no filing has, and a filing joins an event with the key of a filing only.
RecordIsPlain(row, id) ==
    /\ id[1] \in Documents /\ DOMAIN row = RecordColumns
    /\ row.published \in Int /\ row.event[2] # "NEWS"

ReferenceIsPlain(row, a) ==
    a \in Articles /\ DOMAIN row = ReferenceColumns /\ row.event[2] = "NEWS"

EventIsPlain(e, key) ==
    /\ DOMAIN e = EventColumns
    /\ e.sources \in Nat /\ e.official \in Nat /\ e.news \in Nat /\ e.origins \in Nat
    /\ e.verification \in Verification
    /\ e.type = "NEWS" <=> key[2] = "NEWS"

Counted(rec, e, ref, key) ==
    /\ e.sources = Cardinality(Recs(rec, key)) + Cardinality(Arts(ref, key))
    /\ e.news = Cardinality(Arts(ref, key))
    /\ e.official >= Cardinality(Recs(rec, key))
    /\ IsFiniteSet(OriginsOf(ref, key))
    /\ e.origins = Cardinality(OriginsOf(ref, key))
    /\ \A o \in OriginsOf(ref, key) : Cardinality(FirstsOf(ref, key, o)) = 1

SpokenFor(rec, row, a) ==
    \/ Source[IF row.manual THEN Article[a].manual ELSE Article[a].source].official
    \/ \E r \in DOMAIN rec : <<a, r[1]>> \in About

Backed(rec, e, ref, key) ==
    /\ e.verification = "MULTI_SOURCE_CONFIRMED" => Cardinality(OriginsOf(ref, key)) > 1
    /\ e.type = "NEWS" /\ e.verification = "OFFICIAL_CONFIRMED" =>
          \E a \in Arts(ref, key) : SpokenFor(rec, ref[a], a)

RecordsOK(rec, ev) ==
    /\ IsFiniteSet(DOMAIN rec)
    /\ \A r \in DOMAIN rec : RecordIsPlain(rec[r], r) /\ rec[r].event \in DOMAIN ev

ReferencesOK(ref, ev) ==
    /\ IsFiniteSet(DOMAIN ref)
    /\ \A a \in DOMAIN ref : ReferenceIsPlain(ref[a], a) /\ ref[a].event \in DOMAIN ev

EventsOK(rec, ev, ref) ==
    \A key \in DOMAIN ev :
        EventIsPlain(ev[key], key) /\ Counted(rec, ev[key], ref, key)
            /\ Backed(rec, ev[key], ref, key)

StoreOK(rec, ev, ref) == RecordsOK(rec, ev) /\ ReferencesOK(ref, ev) /\ EventsOK(rec, ev, ref)

\* What StateNeedsDocument says of the events before and after.
Moved(e, new) == <<new.lifecycle, new.verification>> # <<e.lifecycle, e.verification>>

Follows(ev, new) ==
    \A key \in DOMAIN ev :
        /\ key \in DOMAIN new
        /\ ev[key].sources \in Int /\ new[key].sources \in Int
        /\ new[key].sources >= ev[key].sources
        /\ Moved(ev[key], new[key]) => new[key].sources > ev[key].sources

LEMMA FollowsIsTransitive ==
    ASSUME NEW a, NEW b, NEW c, Follows(a, b), Follows(b, c)
    PROVE  Follows(a, c)
<1> SUFFICES ASSUME NEW key \in DOMAIN a
             PROVE  /\ key \in DOMAIN c
                    /\ a[key].sources \in Int /\ c[key].sources \in Int
                    /\ c[key].sources >= a[key].sources
                    /\ Moved(a[key], c[key]) => c[key].sources > a[key].sources
  BY DEF Follows
<1>1. /\ key \in DOMAIN b /\ a[key].sources \in Int /\ b[key].sources \in Int
      /\ b[key].sources >= a[key].sources
      /\ Moved(a[key], b[key]) => b[key].sources > a[key].sources
  BY DEF Follows
<1>2. /\ key \in DOMAIN c /\ c[key].sources \in Int
      /\ c[key].sources >= b[key].sources
      /\ Moved(b[key], c[key]) => c[key].sources > b[key].sources
  BY <1>1 DEF Follows
<1>3. Moved(a[key], c[key]) => Moved(a[key], b[key]) \/ Moved(b[key], c[key])
  BY DEF Moved
<1> QED
  BY <1>1, <1>2, <1>3

LEMMA FollowsItself ==
    ASSUME NEW rec, NEW ev, NEW ref, StoreOK(rec, ev, ref)
    PROVE  Follows(ev, ev)
BY DEF StoreOK, EventsOK, EventIsPlain, Follows, Moved

-----------------------------------------------------------------------------
(* One more document.                                                      *)

NewRecord(rec, id, row) == id \notin DOMAIN rec /\ RecordIsPlain(row, id)

\* The event of a filing counts one source more, an official one.
CountsFiling(ev, key, e) ==
    /\ EventIsPlain(e, key) /\ e.verification # "MULTI_SOURCE_CONFIRMED"
    /\ key \in DOMAIN ev =>
          /\ e.sources = ev[key].sources + 1 /\ e.official = ev[key].official + 1
          /\ e.news = ev[key].news /\ e.origins = ev[key].origins
    /\ key \notin DOMAIN ev => e.sources = 1 /\ e.official = 1 /\ e.news = 0 /\ e.origins = 0

LEMMA JoinRecord ==
    ASSUME NEW rec, NEW ev, NEW ref, StoreOK(rec, ev, ref), NEW id, NEW row, NEW e,
           NewRecord(rec, id, row), CountsFiling(ev, row.event, e)
    PROVE  /\ StoreOK(Put(rec, id, row), Put(ev, row.event, e), ref)
           /\ Follows(ev, Put(ev, row.event, e))
<1> DEFINE key == row.event
           rec2 == Put(rec, id, row)
           ev2 == Put(ev, key, e)
<1>1. /\ DOMAIN rec2 = DOMAIN rec \cup {id} /\ rec2[id] = row
      /\ \A r \in DOMAIN rec : rec2[r] = rec[r]
  BY DEF NewRecord, Put
<1>2. /\ DOMAIN ev2 = DOMAIN ev \cup {key} /\ ev2[key] = e
      /\ \A k \in DOMAIN ev \ {key} : ev2[k] = ev[k]
  BY DEF Put
<1>3. RecordIsPlain(row, id) /\ id \notin DOMAIN rec /\ key[2] # "NEWS"
  BY DEF NewRecord, RecordIsPlain
<1>4. EventIsPlain(e, key) /\ e.type # "NEWS" /\ e.verification # "MULTI_SOURCE_CONFIRMED"
  BY <1>3 DEF CountsFiling, EventIsPlain
<1>5. /\ IsFiniteSet(DOMAIN rec)
      /\ \A r \in DOMAIN rec : RecordIsPlain(rec[r], r) /\ rec[r].event \in DOMAIN ev
  BY DEF StoreOK, RecordsOK
<1>6. /\ IsFiniteSet(DOMAIN ref)
      /\ \A a \in DOMAIN ref : ReferenceIsPlain(ref[a], a) /\ ref[a].event \in DOMAIN ev
  BY DEF StoreOK, ReferencesOK
<1>7. \A k \in DOMAIN ev : /\ EventIsPlain(ev[k], k) /\ Counted(rec, ev[k], ref, k)
                           /\ Backed(rec, ev[k], ref, k)
  BY DEF StoreOK, EventsOK
<1> HIDE DEF rec2, ev2
<1>8. RecordsOK(rec2, ev2)
  <2>1. IsFiniteSet(DOMAIN rec2)
    BY <1>1, <1>5, FS_AddElement
  <2>2. ASSUME NEW r \in DOMAIN rec2
        PROVE  RecordIsPlain(rec2[r], r) /\ rec2[r].event \in DOMAIN ev2
    <3>1. CASE r = id
      BY <1>1, <1>2, <1>3, <3>1
    <3>2. CASE r # id
      BY <1>1, <1>2, <1>5, <3>2
    <3> QED
      BY <3>1, <3>2
  <2> QED
    BY <2>1, <2>2 DEF RecordsOK
<1>9. ReferencesOK(ref, ev2)
  BY <1>2, <1>6 DEF ReferencesOK
<1>10. Arts(ref, key) = {}
  BY <1>3, <1>6 DEF Arts, ReferenceIsPlain
<1>11. /\ IsFiniteSet(Recs(rec, key)) /\ id \notin Recs(rec, key)
       /\ Recs(rec2, key) = Recs(rec, key) \cup {id}
       /\ Cardinality(Recs(rec2, key)) = Cardinality(Recs(rec, key)) + 1
       /\ Cardinality(Recs(rec, key)) \in Nat
  <2>1. Recs(rec, key) \in SUBSET DOMAIN rec
    BY DEF Recs
  <2>2. IsFiniteSet(Recs(rec, key))
    BY <1>5, <2>1, FS_Subset
  <2>3. id \notin Recs(rec, key)
    BY <1>3 DEF Recs
  <2>4. Recs(rec2, key) = Recs(rec, key) \cup {id}
    BY <1>1 DEF Recs
  <2> QED
    BY <2>2, <2>3, <2>4, FS_AddElement, FS_CardinalityType
<1>12. Counted(rec2, e, ref, key)
  <2>1. OriginsOf(ref, key) = {}
    BY <1>10 DEF OriginsOf
  <2>2. CASE key \in DOMAIN ev
    <3>1. Counted(rec, ev[key], ref, key) /\ EventIsPlain(ev[key], key)
      BY <1>7, <2>2
    <3>2. /\ e.sources = ev[key].sources + 1 /\ e.official = ev[key].official + 1
          /\ e.news = ev[key].news /\ e.origins = ev[key].origins
      BY <2>2 DEF CountsFiling
    <3>3. Cardinality(Arts(ref, key)) = 0 /\ Cardinality(OriginsOf(ref, key)) = 0
      BY <1>10, <2>1, FS_EmptySet
    <3>4. /\ ev[key].sources = Cardinality(Recs(rec, key))
          /\ ev[key].news = 0 /\ ev[key].origins = 0
          /\ ev[key].official \in Nat /\ ev[key].official >= Cardinality(Recs(rec, key))
      BY <3>1, <3>3, <1>11 DEF Counted, EventIsPlain
    <3> QED
      BY <2>1, <3>2, <3>3, <3>4, <1>11, FS_EmptySet DEF Counted
  <2>3. CASE key \notin DOMAIN ev
    <3>1. Recs(rec, key) = {}
      BY <1>5, <2>3 DEF Recs
    <3>2. e.sources = 1 /\ e.official = 1 /\ e.news = 0 /\ e.origins = 0
      BY <2>3 DEF CountsFiling
    <3>3. /\ Cardinality(Recs(rec, key)) = 0 /\ Cardinality(Arts(ref, key)) = 0
          /\ IsFiniteSet(OriginsOf(ref, key)) /\ Cardinality(OriginsOf(ref, key)) = 0
      BY <3>1, <1>10, <2>1, FS_EmptySet
    <3> QED
      BY <2>1, <3>2, <3>3, <1>11 DEF Counted
  <2> QED
    BY <2>2, <2>3
<1>13. Backed(rec2, e, ref, key)
  BY <1>4 DEF Backed
<1>14. ASSUME NEW k \in DOMAIN ev \ {key}
       PROVE  /\ EventIsPlain(ev2[k], k) /\ Counted(rec2, ev2[k], ref, k)
              /\ Backed(rec2, ev2[k], ref, k)
  <2>1. ev2[k] = ev[k]
    BY <1>2
  <2>2. Recs(rec2, k) = Recs(rec, k)
    BY <1>1, <1>14 DEF Recs
  <2>3. EventIsPlain(ev[k], k) /\ Counted(rec, ev[k], ref, k) /\ Backed(rec, ev[k], ref, k)
    BY <1>7
  <2>4. Counted(rec2, ev[k], ref, k)
    BY <2>2, <2>3, Zenon DEF Counted
  <2>5. \A a : SpokenFor(rec, ref[a], a) => SpokenFor(rec2, ref[a], a)
    BY <1>1 DEF SpokenFor
  <2>6. Backed(rec2, ev[k], ref, k)
    BY <2>3, <2>5, Zenon DEF Backed
  <2> QED
    BY <2>1, <2>3, <2>4, <2>6, Zenon
<1>15. EventsOK(rec2, ev2, ref)
  <2> SUFFICES ASSUME NEW k \in DOMAIN ev2
               PROVE  /\ EventIsPlain(ev2[k], k) /\ Counted(rec2, ev2[k], ref, k)
                      /\ Backed(rec2, ev2[k], ref, k)
    BY DEF EventsOK
  <2>1. CASE k = key
    BY <1>2, <1>4, <1>12, <1>13, <2>1, Zenon
  <2>2. CASE k # key
    BY <1>2, <1>14, <2>2, Zenon
  <2> QED
    BY <2>1, <2>2
<1>16. Follows(ev, ev2)
  <2> SUFFICES ASSUME NEW k \in DOMAIN ev
               PROVE  /\ k \in DOMAIN ev2
                      /\ ev[k].sources \in Int /\ ev2[k].sources \in Int
                      /\ ev2[k].sources >= ev[k].sources
                      /\ Moved(ev[k], ev2[k]) => ev2[k].sources > ev[k].sources
    BY DEF Follows
  <2>1. ev[k].sources \in Nat
    BY <1>7 DEF EventIsPlain
  <2>2. CASE k = key
    <3>1. e.sources = ev[key].sources + 1
      BY <2>2 DEF CountsFiling
    <3> QED
      BY <1>2, <2>1, <2>2, <3>1
  <2>3. CASE k # key
    <3>1. ev2[k] = ev[k]
      BY <1>2, <2>3
    <3> QED
      BY <1>2, <2>1, <3>1 DEF Moved
  <2> QED
    BY <2>2, <2>3
<1>17. StoreOK(rec2, ev2, ref)
  BY <1>8, <1>9, <1>15 DEF StoreOK
<1> QED
  BY <1>16, <1>17 DEF rec2, ev2

NewReference(ref, a, row) ==
    /\ a \notin DOMAIN ref /\ ReferenceIsPlain(row, a)
    /\ row.independent = (row.origin \notin OriginsOf(ref, row.event))

\* The event of an article counts one source more, one of the news.
CountsArticle(rec, ev, ref, a, row, e) ==
    LET key == row.event IN
    /\ EventIsPlain(e, key)
    /\ Backed(rec, e, Put(ref, a, row), key)
    /\ e.origins = Cardinality(OriginsOf(ref, key) \cup {row.origin})
    /\ key \in DOMAIN ev =>
          /\ e.sources = ev[key].sources + 1 /\ e.news = ev[key].news + 1
          /\ e.official >= ev[key].official
    /\ key \notin DOMAIN ev => e.sources = 1 /\ e.news = 1

\* The articles of a key with one more.
OneMore(ref, ref2, a, key, origin) ==
    /\ Arts(ref2, key) = Arts(ref, key) \cup {a}
    /\ Cardinality(Arts(ref, key)) \in Nat
    /\ Cardinality(Arts(ref2, key)) = Cardinality(Arts(ref, key)) + 1
    /\ OriginsOf(ref2, key) = OriginsOf(ref, key) \cup {origin}
    /\ \A o \in OriginsOf(ref, key) : FirstsOf(ref2, key, o) = FirstsOf(ref, key, o)
    /\ origin \notin OriginsOf(ref, key) => FirstsOf(ref2, key, origin) = {a}

LEMMA MoreArticles ==
    ASSUME NEW ref, NEW a, NEW row, IsFiniteSet(DOMAIN ref), NewReference(ref, a, row)
    PROVE  OneMore(ref, Put(ref, a, row), a, row.event, row.origin)
<1> DEFINE key == row.event
           ref2 == Put(ref, a, row)
<1>1. /\ DOMAIN ref2 = DOMAIN ref \cup {a} /\ ref2[a] = row
      /\ \A b \in DOMAIN ref : ref2[b] = ref[b]
      /\ a \notin DOMAIN ref
  BY DEF NewReference, Put
<1> HIDE DEF ref2
<1>2. Arts(ref2, key) = Arts(ref, key) \cup {a}
  BY <1>1 DEF Arts
<1>3. /\ a \notin Arts(ref, key) /\ IsFiniteSet(Arts(ref, key))
      /\ Arts(ref, key) \in SUBSET DOMAIN ref
  <2>1. Arts(ref, key) \in SUBSET DOMAIN ref
    BY DEF Arts
  <2>2. IsFiniteSet(Arts(ref, key))
    BY <2>1, FS_Subset
  <2> QED
    BY <1>1, <2>1, <2>2
<1>4. Cardinality(Arts(ref2, key)) = Cardinality(Arts(ref, key)) + 1
  BY <1>2, <1>3, FS_AddElement
<1>5. Cardinality(Arts(ref, key)) \in Nat
  BY <1>3, FS_CardinalityType
<1>6. \A b \in Arts(ref, key) : b \in DOMAIN ref /\ ref2[b] = ref[b]
  BY <1>1 DEF Arts
<1>7. OriginsOf(ref2, key) = OriginsOf(ref, key) \cup {row.origin}
  BY <1>1, <1>2, <1>6 DEF OriginsOf
<1>8. ASSUME NEW o \in OriginsOf(ref, key)
      PROVE  FirstsOf(ref2, key, o) = FirstsOf(ref, key, o)
  <2>1. row.origin = o => ~row.independent
    BY <1>8 DEF NewReference
  <2> QED
    BY <1>1, <1>2, <1>6, <2>1 DEF FirstsOf
<1>9. ASSUME row.origin \notin OriginsOf(ref, key)
      PROVE  FirstsOf(ref2, key, row.origin) = {a}
  <2>1. row.independent
    BY <1>9 DEF NewReference
  <2>2. \A b \in Arts(ref, key) : ref2[b].origin # row.origin
    BY <1>6, <1>9 DEF OriginsOf
  <2> QED
    BY <1>1, <1>2, <2>1, <2>2 DEF FirstsOf
<1> QED
  BY <1>2, <1>4, <1>5, <1>7, <1>8, <1>9 DEF ref2, OneMore

LEMMA JoinArticle ==
    ASSUME NEW rec, NEW ev, NEW ref, StoreOK(rec, ev, ref), NEW a, NEW row, NEW e,
           NewReference(ref, a, row), CountsArticle(rec, ev, ref, a, row, e)
    PROVE  /\ StoreOK(rec, Put(ev, row.event, e), Put(ref, a, row))
           /\ Follows(ev, Put(ev, row.event, e))
<1> DEFINE key == row.event
           ref2 == Put(ref, a, row)
           ev2 == Put(ev, key, e)
<1>1. /\ DOMAIN ref2 = DOMAIN ref \cup {a} /\ ref2[a] = row
      /\ \A b \in DOMAIN ref : ref2[b] = ref[b]
  BY DEF NewReference, Put
<1>2. /\ DOMAIN ev2 = DOMAIN ev \cup {key} /\ ev2[key] = e
      /\ \A k \in DOMAIN ev \ {key} : ev2[k] = ev[k]
  BY DEF Put
<1>3. ReferenceIsPlain(row, a) /\ a \notin DOMAIN ref /\ key[2] = "NEWS"
  BY DEF NewReference, ReferenceIsPlain
<1>4. EventIsPlain(e, key) /\ Backed(rec, e, ref2, key)
  BY DEF CountsArticle
<1>5. /\ IsFiniteSet(DOMAIN rec)
      /\ \A r \in DOMAIN rec : RecordIsPlain(rec[r], r) /\ rec[r].event \in DOMAIN ev
  BY DEF StoreOK, RecordsOK
<1>6. /\ IsFiniteSet(DOMAIN ref)
      /\ \A b \in DOMAIN ref : ReferenceIsPlain(ref[b], b) /\ ref[b].event \in DOMAIN ev
  BY DEF StoreOK, ReferencesOK
<1>7. \A k \in DOMAIN ev : /\ EventIsPlain(ev[k], k) /\ Counted(rec, ev[k], ref, k)
                           /\ Backed(rec, ev[k], ref, k)
  BY DEF StoreOK, EventsOK
<1>8. /\ Arts(ref2, key) = Arts(ref, key) \cup {a}
      /\ Cardinality(Arts(ref, key)) \in Nat
      /\ Cardinality(Arts(ref2, key)) = Cardinality(Arts(ref, key)) + 1
      /\ OriginsOf(ref2, key) = OriginsOf(ref, key) \cup {row.origin}
      /\ \A o \in OriginsOf(ref, key) : FirstsOf(ref2, key, o) = FirstsOf(ref, key, o)
      /\ row.origin \notin OriginsOf(ref, key) => FirstsOf(ref2, key, row.origin) = {a}
  <2>1. IsFiniteSet(DOMAIN ref)
    BY <1>6
  <2>2. OneMore(ref, Put(ref, a, row), a, row.event, row.origin)
    BY <2>1, MoreArticles
  <2> QED
    BY <2>2 DEF OneMore
<1> HIDE DEF ref2, ev2
<1>9. RecordsOK(rec, ev2)
  BY <1>2, <1>5 DEF RecordsOK
<1>10. ReferencesOK(ref2, ev2)
  <2>1. IsFiniteSet(DOMAIN ref2)
    BY <1>1, <1>6, FS_AddElement
  <2>2. ASSUME NEW b \in DOMAIN ref2
        PROVE  ReferenceIsPlain(ref2[b], b) /\ ref2[b].event \in DOMAIN ev2
    <3>1. CASE b = a
      BY <1>1, <1>2, <1>3, <3>1
    <3>2. CASE b # a
      BY <1>1, <1>2, <1>6, <3>2
    <3> QED
      BY <3>1, <3>2
  <2> QED
    BY <2>1, <2>2 DEF ReferencesOK
<1>11. Recs(rec, key) = {} /\ Cardinality(Recs(rec, key)) = 0
  <2>1. Recs(rec, key) = {}
    BY <1>3, <1>5 DEF Recs, RecordIsPlain
  <2> QED
    BY <2>1, FS_EmptySet
<1>12. /\ IsFiniteSet(OriginsOf(ref, key))
       /\ \A o \in OriginsOf(ref, key) : Cardinality(FirstsOf(ref, key, o)) = 1
       /\ e.sources = Cardinality(Arts(ref, key)) + 1
       /\ e.news = Cardinality(Arts(ref, key)) + 1
       /\ e.official >= 0
  <2>1. CASE key \in DOMAIN ev
    <3>1. Counted(rec, ev[key], ref, key) /\ EventIsPlain(ev[key], key)
      BY <1>7, <2>1
    <3>2. /\ e.sources = ev[key].sources + 1 /\ e.news = ev[key].news + 1
          /\ e.official >= ev[key].official
      BY <2>1 DEF CountsArticle
    <3>3. /\ ev[key].sources = Cardinality(Arts(ref, key))
          /\ ev[key].news = Cardinality(Arts(ref, key))
      BY <3>1, <1>8, <1>11 DEF Counted
    <3>4. e.official >= 0
      BY <1>4 DEF EventIsPlain
    <3> QED
      BY <3>1, <3>2, <3>3, <3>4 DEF Counted
  <2>2. CASE key \notin DOMAIN ev
    <3>1. Arts(ref, key) = {}
      BY <1>6, <2>2 DEF Arts
    <3>2. OriginsOf(ref, key) = {}
      BY <3>1 DEF OriginsOf
    <3>3. e.sources = 1 /\ e.news = 1
      BY <2>2 DEF CountsArticle
    <3>4. e.official >= 0
      BY <1>4 DEF EventIsPlain
    <3>5. Cardinality(Arts(ref, key)) = 0 /\ IsFiniteSet(OriginsOf(ref, key))
      BY <3>1, <3>2, FS_EmptySet
    <3> QED
      BY <3>2, <3>3, <3>4, <3>5
  <2> QED
    BY <2>1, <2>2
<1>13. Counted(rec, e, ref2, key)
  <2>1. IsFiniteSet(OriginsOf(ref2, key))
    BY <1>8, <1>12, FS_AddElement
  <2>2. e.origins = Cardinality(OriginsOf(ref2, key))
    BY <1>8 DEF CountsArticle
  <2>3. ASSUME NEW o \in OriginsOf(ref2, key)
        PROVE  Cardinality(FirstsOf(ref2, key, o)) = 1
    <3>1. CASE o \in OriginsOf(ref, key)
      BY <1>8, <1>12, <3>1
    <3>2. CASE o \notin OriginsOf(ref, key)
      <4>1. FirstsOf(ref2, key, o) = {a}
        BY <1>8, <2>3, <3>2
      <4> QED
        BY <4>1, FS_Singleton
    <3> QED
      BY <3>1, <3>2
  <2> QED
    BY <1>8, <1>11, <1>12, <2>1, <2>2, <2>3 DEF Counted
<1>14. ASSUME NEW k \in DOMAIN ev \ {key}
       PROVE  /\ EventIsPlain(ev2[k], k) /\ Counted(rec, ev2[k], ref2, k)
              /\ Backed(rec, ev2[k], ref2, k)
  <2>1. ev2[k] = ev[k]
    BY <1>2
  <2>2. Arts(ref2, k) = Arts(ref, k) /\ \A b \in Arts(ref, k) : ref2[b] = ref[b]
    BY <1>1, <1>14 DEF Arts
  <2>3. OriginsOf(ref2, k) = OriginsOf(ref, k)
    BY <2>2 DEF OriginsOf
  <2>4. \A o : FirstsOf(ref2, k, o) = FirstsOf(ref, k, o)
    BY <2>2 DEF FirstsOf
  <2>5. EventIsPlain(ev[k], k) /\ Counted(rec, ev[k], ref, k) /\ Backed(rec, ev[k], ref, k)
    BY <1>7
  <2>6. Counted(rec, ev[k], ref2, k)
    BY <2>2, <2>3, <2>4, <2>5 DEF Counted
  <2>7. Backed(rec, ev[k], ref2, k)
    <3>1. \A b \in Arts(ref, k) : SpokenFor(rec, ref[b], b) => SpokenFor(rec, ref2[b], b)
      BY <2>2
    <3> QED
      BY <2>2, <2>3, <2>5, <3>1 DEF Backed
  <2> QED
    BY <2>1, <2>5, <2>6, <2>7, Zenon
<1>15. EventsOK(rec, ev2, ref2)
  <2> SUFFICES ASSUME NEW k \in DOMAIN ev2
               PROVE  /\ EventIsPlain(ev2[k], k) /\ Counted(rec, ev2[k], ref2, k)
                      /\ Backed(rec, ev2[k], ref2, k)
    BY DEF EventsOK
  <2>1. CASE k = key
    BY <1>2, <1>4, <1>13, <2>1, Zenon
  <2>2. CASE k # key
    BY <1>2, <1>14, <2>2, Zenon
  <2> QED
    BY <2>1, <2>2
<1>16. Follows(ev, ev2)
  <2> SUFFICES ASSUME NEW k \in DOMAIN ev
               PROVE  /\ k \in DOMAIN ev2
                      /\ ev[k].sources \in Int /\ ev2[k].sources \in Int
                      /\ ev2[k].sources >= ev[k].sources
                      /\ Moved(ev[k], ev2[k]) => ev2[k].sources > ev[k].sources
    BY DEF Follows
  <2>1. ev[k].sources \in Nat
    BY <1>7 DEF EventIsPlain
  <2>2. CASE k = key
    <3>1. e.sources = ev[key].sources + 1
      BY <2>2 DEF CountsArticle
    <3> QED
      BY <1>2, <2>1, <2>2, <3>1
  <2>3. CASE k # key
    <3>1. ev2[k] = ev[k]
      BY <1>2, <2>3
    <3> QED
      BY <1>2, <2>1, <3>1 DEF Moved
  <2> QED
    BY <2>2, <2>3
<1>17. StoreOK(rec, ev2, ref2)
  BY <1>9, <1>10, <1>15 DEF StoreOK
<1> QED
  BY <1>16, <1>17 DEF ref2, ev2

\* Tables whose rows differ in what is written over without a new document.
SameRecords(rec, new) ==
    /\ DOMAIN new = DOMAIN rec
    /\ \A r \in DOMAIN rec : RecordIsPlain(new[r], r) /\ new[r].event = rec[r].event

SameReferences(ref, new) ==
    /\ DOMAIN new = DOMAIN ref
    /\ \A a \in DOMAIN ref :
          /\ ReferenceIsPlain(new[a], a) /\ new[a].event = ref[a].event
          /\ new[a].origin = ref[a].origin /\ new[a].independent = ref[a].independent
          /\ new[a].manual = ref[a].manual

SameEvent(e, new, key) ==
    /\ EventIsPlain(new, key)
    /\ new.sources = e.sources /\ new.official = e.official /\ new.news = e.news
    /\ new.origins = e.origins /\ new.verification = e.verification
    /\ new.lifecycle = e.lifecycle

SameEvents(ev, new) ==
    DOMAIN new = DOMAIN ev /\ \A key \in DOMAIN ev : SameEvent(ev[key], new[key], key)

LEMMA Rewritten ==
    ASSUME NEW rec, NEW ev, NEW ref, StoreOK(rec, ev, ref), NEW rec2, NEW ev2, NEW ref2,
           SameRecords(rec, rec2), SameReferences(ref, ref2), SameEvents(ev, ev2)
    PROVE  StoreOK(rec2, ev2, ref2) /\ Follows(ev, ev2)
<1>1. RecordsOK(rec2, ev2)
  BY DEF StoreOK, RecordsOK, SameRecords, SameEvents
<1>2. ReferencesOK(ref2, ev2)
  BY DEF StoreOK, ReferencesOK, SameReferences, SameEvents
<1>3. ASSUME NEW k \in DOMAIN ev
      PROVE  /\ EventIsPlain(ev2[k], k) /\ Counted(rec2, ev2[k], ref2, k)
             /\ Backed(rec2, ev2[k], ref2, k)
  <2>1. Recs(rec2, k) = Recs(rec, k)
    BY DEF Recs, SameRecords
  <2>2. Arts(ref2, k) = Arts(ref, k)
    BY DEF Arts, SameReferences
  <2>3. \A a \in Arts(ref, k) : /\ ref2[a].origin = ref[a].origin
                                /\ ref2[a].independent = ref[a].independent
                                /\ ref2[a].manual = ref[a].manual
    BY DEF Arts, SameReferences
  <2>4. OriginsOf(ref2, k) = OriginsOf(ref, k)
    BY <2>2, <2>3 DEF OriginsOf
  <2>5. \A o : FirstsOf(ref2, k, o) = FirstsOf(ref, k, o)
    BY <2>2, <2>3 DEF FirstsOf
  <2>6. \A a \in Arts(ref, k) : SpokenFor(rec, ref[a], a) => SpokenFor(rec2, ref2[a], a)
    BY <2>3 DEF SpokenFor, SameRecords
  <2>7. EventIsPlain(ev[k], k) /\ Counted(rec, ev[k], ref, k) /\ Backed(rec, ev[k], ref, k)
    BY DEF StoreOK, EventsOK
  <2>8. SameEvent(ev[k], ev2[k], k)
    BY DEF SameEvents
  <2>9. EventIsPlain(ev2[k], k)
    BY <2>8 DEF SameEvent
  <2>10. Counted(rec2, ev2[k], ref2, k)
    BY <2>1, <2>2, <2>4, <2>5, <2>7, <2>8 DEF Counted, SameEvent
  <2>11. Backed(rec2, ev2[k], ref2, k)
    BY <2>2, <2>4, <2>6, <2>7, <2>8, <2>9 DEF Backed, SameEvent, EventIsPlain
  <2> QED
    BY <2>9, <2>10, <2>11
<1>4. EventsOK(rec2, ev2, ref2)
  BY <1>3 DEF EventsOK, SameEvents
<1>5. Follows(ev, ev2)
  BY DEF StoreOK, EventsOK, EventIsPlain, SameEvents, SameEvent, Follows, Moved
<1> QED
  BY <1>1, <1>2, <1>4, <1>5 DEF StoreOK

-----------------------------------------------------------------------------
(* One filing.                                                             *)

\* No filing has the type that an event of the news has.
LEMMA FilingsAreNoNews ==
    ASSUME NEW d \in Documents
    PROVE  EventType(Filing[d]) # "NEWS"
<1>1. /\ Filing[d].form \in {"8-K", "10-K", "10-Q", "6-K", "20-F", "40-F", "none"}
      /\ Filing[d].words \subseteq 1 .. 16
  BY FilingsAssumption DEF FormTypes, Classifications
<1>2. \A f \in {"8-K", "10-K", "10-Q", "6-K", "20-F", "40-F", "none"} : FormTypes[f] # "NEWS"
  BY DEF FormTypes
<1>3. \A n \in 1 .. 16 : Classifications[n] # "NEWS"
  BY DEF Classifications
<1>4. Filing[d].words # {} => Min(Filing[d].words) \in Filing[d].words
  <2> SUFFICES ASSUME Filing[d].words # {} PROVE Min(Filing[d].words) \in Filing[d].words
    OBVIOUS
  <2>1. Filing[d].words \subseteq Nat
    BY <1>1
  <2>2. \E x \in Filing[d].words : \A y \in Filing[d].words : x <= y
    BY <2>1, NatMinimum
  <2> QED
    BY <2>2 DEF Min
<1> QED
  BY <1>1, <1>2, <1>3, <1>4 DEF EventType

FiledOK == filed \in [Documents -> Nat]

LEMMA PublishedIsInt ==
    ASSUME FiledOK, NEW d \in Documents
    PROVE  Published(d) \in Int
<1>1. DayLength \in Nat \ {0} /\ Shift \in Nat
  BY FeedAssumption
<1>2. filed[d] \in Nat
  BY DEF FiledOK
<1>3. (filed[d] + Shift) \div DayLength \in Int
  BY <1>1, <1>2
<1> DEFINE n == (filed[d] + Shift) \div DayLength
<1>4. DayLength * n \in Int
  <2> HIDE DEF n
  <2> QED
    BY <1>1, <1>3 DEF n
<1> QED
  BY <1>2, <1>4 DEF Published

BooksOK(b) ==
    DOMAIN b = {"record", "event"} /\ StoreOK(b.record, b.event, reference)

\* A filing that may be entered: new, and what it corrects is there.
Enterable(b, id, text, corrects) ==
    /\ id \notin DOMAIN b.record /\ id[1] \in Documents
    /\ text.type # "NEWS"
    /\ Published(id[1]) \in Int
    /\ corrects # None => corrects \in DOMAIN b.record

LEMMA EnterKeeps ==
    ASSUME NEW b, BooksOK(b), NEW id, NEW text, NEW corrects, Enterable(b, id, text, corrects)
    PROVE  /\ BooksOK(Enter(b, id, text, corrects))
           /\ Follows(b.event, Enter(b, id, text, corrects).event)
<1> DEFINE d == id[1]
           key == IF corrects # None THEN b.record[corrects].event
                  ELSE <<CompanyOf(d), text.type, text.claim>>
           known == key \in DOMAIN b.event
           old == IF known THEN b.event[key] ELSE NewEvent(text.type, text, Published(d))
           status == OfficialStatus(corrects # None, text.denied, known, text.material)
           row == [event |-> key, published |-> Published(d),
                   summary |-> text.summary, material |-> status.material,
                   lifecycle |-> status.lifecycle,
                   verification |-> status.verification,
                   corrects |-> corrects]
           seen == Max({old.seen, Published(d)})
           changed == IF status.material THEN Published(d) ELSE old.changed
           summary == IF text.summary = None THEN old.summary ELSE text.summary
           e == [old EXCEPT !.sources = @ + 1, !.official = @ + 1,
                        !.seen = Max({@, Published(d)}), !.material = status.material,
                        !.lifecycle = status.lifecycle, !.verification = status.verification,
                        !.changed = IF status.material THEN Published(d) ELSE @,
                        !.summary = IF text.summary = None THEN @ ELSE text.summary]
           b2 == [b EXCEPT !.record = Put(@, id, row), !.event = Put(@, key, e)]
<1>1. Enter(b, id, text, corrects) = b2
  BY DEF Enter
<1>2. DOMAIN b = {"record", "event"} /\ StoreOK(b.record, b.event, reference)
  BY DEF BooksOK
<1>3. /\ id \notin DOMAIN b.record /\ d \in Documents /\ text.type # "NEWS"
      /\ Published(d) \in Int
      /\ corrects # None => corrects \in DOMAIN b.record
  BY DEF Enterable
<1>4. corrects # None => key = b.record[corrects].event /\ known /\ key[2] # "NEWS"
  <2> SUFFICES ASSUME corrects # None
               PROVE  key = b.record[corrects].event /\ known /\ key[2] # "NEWS"
    OBVIOUS
  <2>1. key = b.record[corrects].event
    OBVIOUS
  <2> HIDE DEF key
  <2> QED
    BY <1>2, <1>3, <2>1 DEF StoreOK, RecordsOK, RecordIsPlain
<1>5. corrects = None => key[2] = text.type
  BY DEF CompanyOf
<1>6. key[2] # "NEWS"
  <2> HIDE DEF key
  <2> QED
    BY <1>3, <1>4, <1>5
<1>7. known => EventIsPlain(b.event[key], key)
  <2> HIDE DEF key
  <2> QED
    BY <1>2 DEF StoreOK, EventsOK
<1> HIDE DEF key
<1>8. status.verification \in Verification \ {"MULTI_SOURCE_CONFIRMED"}
  BY DEF OfficialStatus, Verification
<1>9. /\ DOMAIN old = EventColumns /\ old.sources \in Nat /\ old.official \in Nat
      /\ old.news \in Nat /\ old.origins \in Nat /\ old.type # "NEWS"
  <2>1. CASE known
    BY <1>6, <1>7, <2>1 DEF EventIsPlain
  <2>2. CASE ~known
    BY <1>3, <2>2 DEF NewEvent, EventColumns
  <2> QED
    BY <2>1, <2>2
<1>10. ~known => old.sources = 0 /\ old.official = 0 /\ old.news = 0 /\ old.origins = 0
  BY DEF NewEvent
<1>11. known => old = b.event[key]
  OBVIOUS
<1>12. RecordIsPlain(row, id) /\ row.event = key
  <2>1. DOMAIN row = RecordColumns
    BY DEF RecordColumns
  <2>2. row.published = Published(d) /\ row.event = key
    OBVIOUS
  <2> HIDE DEF row
  <2> QED
    BY <1>3, <1>6, <2>1, <2>2 DEF RecordIsPlain
<1> HIDE DEF status, row, old
<1>13. /\ DOMAIN e = EventColumns
       /\ e.sources = old.sources + 1 /\ e.official = old.official + 1
       /\ e.news = old.news /\ e.origins = old.origins /\ e.type = old.type
       /\ e.verification = status.verification
  <2> DEFINE s1 == [old EXCEPT !.sources = old.sources + 1, !.official = old.official + 1,
                        !.seen = seen, !.material = status.material,
                        !.lifecycle = status.lifecycle, !.verification = status.verification,
                        !.changed = changed, !.summary = summary]
  <2>1. e = s1
    BY <1>9 DEF EventColumns
  <2> HIDE DEF e, seen, changed, summary
  <2>2. DOMAIN s1 = EventColumns
    BY <1>9
  <2>3. s1.sources = old.sources + 1
    BY <1>9 DEF EventColumns
  <2>4. s1.official = old.official + 1
    BY <1>9 DEF EventColumns
  <2>5. s1.news = old.news /\ s1.origins = old.origins /\ s1.type = old.type
    BY <1>9 DEF EventColumns
  <2>6. s1.verification = status.verification
    BY <1>9 DEF EventColumns
  <2> HIDE DEF s1
  <2> QED
    BY <2>1, <2>2, <2>3, <2>4, <2>5, <2>6
<1> HIDE DEF e
<1>14. EventIsPlain(e, key)
  BY <1>6, <1>8, <1>9, <1>13 DEF EventIsPlain
<1>15. CountsFiling(b.event, key, e)
  BY <1>8, <1>10, <1>11, <1>13, <1>14 DEF CountsFiling
<1>16. NewRecord(b.record, id, row)
  BY <1>3, <1>12 DEF NewRecord
<1>17. /\ StoreOK(Put(b.record, id, row), Put(b.event, row.event, e), reference)
       /\ Follows(b.event, Put(b.event, row.event, e))
  BY <1>2, <1>12, <1>15, <1>16, JoinRecord
<1>18. /\ DOMAIN b2 = {"record", "event"}
       /\ b2.record = Put(b.record, id, row) /\ b2.event = Put(b.event, key, e)
  BY <1>2
<1> HIDE DEF b2
<1> QED
  BY <1>1, <1>12, <1>17, <1>18 DEF BooksOK

LEMMA RereadKeeps ==
    ASSUME NEW b, BooksOK(b), NEW id \in DOMAIN b.record, NEW text
    PROVE  /\ BooksOK(Reread(b, id, text))
           /\ Follows(b.event, Reread(b, id, text).event)
<1> DEFINE key == b.record[id].event
           e == [b.event[key] EXCEPT
                    !.claim = text.claim,
                    !.summary = IF text.summary = None THEN @ ELSE text.summary,
                    !.material = @ \/ text.material]
           ev2 == [b.event EXCEPT ![key] = e]
           b2 == [b EXCEPT !.event = ev2]
<1>1. Reread(b, id, text) = b2
  BY DEF Reread
<1>2. DOMAIN b = {"record", "event"} /\ StoreOK(b.record, b.event, reference)
  BY DEF BooksOK
<1>3. key \in DOMAIN b.event
  BY <1>2 DEF StoreOK, RecordsOK
<1>4. \A k \in DOMAIN b.event : EventIsPlain(b.event[k], k)
  BY <1>2 DEF StoreOK, EventsOK
<1>5. SameEvent(b.event[key], e, key)
  <2> DEFINE old == b.event[key]
  <2>1. EventIsPlain(old, key)
    BY <1>3, <1>4
  <2>2. DOMAIN e = EventColumns
    BY <2>1 DEF EventIsPlain
  <2>3. e.sources = old.sources /\ e.official = old.official
    BY <2>1 DEF EventIsPlain, EventColumns
  <2>4. e.news = old.news /\ e.origins = old.origins /\ e.type = old.type
    BY <2>1 DEF EventIsPlain, EventColumns
  <2>5. e.verification = old.verification /\ e.lifecycle = old.lifecycle
    BY <2>1 DEF EventIsPlain, EventColumns
  <2> HIDE DEF e, old, key
  <2>6. EventIsPlain(e, key)
    BY <2>1, <2>2, <2>3, <2>4, <2>5 DEF EventIsPlain
  <2>7. SameEvent(old, e, key)
    BY <2>3, <2>4, <2>5, <2>6 DEF SameEvent
  <2> QED
    BY <2>7 DEF old
<1> HIDE DEF e
<1>6. SameEvents(b.event, ev2)
  <2>1. DOMAIN ev2 = DOMAIN b.event
    OBVIOUS
  <2>2. ASSUME NEW k \in DOMAIN b.event
        PROVE  SameEvent(b.event[k], ev2[k], k)
    <3>1. CASE k = key
      <4>1. ev2[k] = e
        BY <3>1
      <4> HIDE DEF ev2, key
      <4> QED
        BY <1>5, <3>1, <4>1
    <3>2. CASE k # key
      <4>1. ev2[k] = b.event[k]
        BY <3>2
      <4> QED
        BY <1>4, <4>1 DEF SameEvent
    <3> QED
      BY <3>1, <3>2
  <2> QED
    BY <2>1, <2>2 DEF SameEvents
<1>7. SameRecords(b.record, b.record)
  BY <1>2 DEF SameRecords, StoreOK, RecordsOK
<1>8. SameReferences(reference, reference)
  BY <1>2 DEF SameReferences, StoreOK, ReferencesOK
<1> HIDE DEF ev2
<1>9. StoreOK(b.record, ev2, reference) /\ Follows(b.event, ev2)
  BY <1>2, <1>6, <1>7, <1>8, Rewritten
<1>10. DOMAIN b2 = {"record", "event"} /\ b2.record = b.record /\ b2.event = ev2
  BY <1>2
<1> HIDE DEF b2
<1> QED
  BY <1>1, <1>9, <1>10 DEF BooksOK

\* The filing that an amendment corrects, if any, is there.
LEMMA TargetIsThere ==
    ASSUME NEW b, BooksOK(b), NEW d, Target(b, d) # None
    PROVE  Target(b, d) \in DOMAIN b.record
<1> DEFINE f == Filing[d]
           same == {r \in DOMAIN b.record :
                       /\ CompanyOf(r[1]) = f.company
                       /\ Filing[r[1]].form = f.form /\ ~Filing[r[1]].amended}
           published == [r \in DOMAIN b.record |-> b.record[r].published]
<1>1. same # {} /\ Target(b, d) = CHOOSE r \in same : \A q \in same :
                        b.record[q].published <= b.record[r].published
  BY DEF Target
<1>2. /\ IsFiniteSet(DOMAIN b.record)
      /\ \A r \in DOMAIN b.record : b.record[r].published \in Int
  BY DEF BooksOK, StoreOK, RecordsOK, RecordIsPlain
<1>3. \A r \in DOMAIN b.record : published[r] = b.record[r].published
  OBVIOUS
<1>4. same \in SUBSET DOMAIN b.record
  OBVIOUS
<1>5. IsFiniteSet(same)
  BY <1>2, <1>4, FS_Subset
<1> HIDE DEF same, published
<1>6. \A r \in DOMAIN b.record : published[r] \in Int
  BY <1>2, <1>3
<1>7. \E r \in same : \A q \in same : published[q] <= published[r]
  BY <1>1, <1>4, <1>5, <1>6, Extremes
<1>8. \E r \in same : \A q \in same : b.record[q].published <= b.record[r].published
  BY <1>3, <1>4, <1>7
<1> QED
  BY <1>1, <1>4, <1>8

LEMMA TakeKeeps ==
    ASSUME NEW b, BooksOK(b), FiledOK, NEW d \in Documents
    PROVE  BooksOK(Take(b, d)) /\ Follows(b.event, Take(b, d).event)
<1> DEFINE id == <<d, "number">>
           text == Metadata(Filing[d])
<1>1. CASE id \in DOMAIN b.record
  <2>1. Take(b, d) = Reread(b, id, text)
    BY <1>1 DEF Take, Ingest
  <2> HIDE DEF id, text
  <2> QED
    BY <1>1, <2>1, RereadKeeps
<1>2. CASE id \notin DOMAIN b.record
  <2>1. Take(b, d) = Enter(b, id, text, Target(b, d))
    BY <1>2 DEF Take, Ingest
  <2>2. id[1] = d
    OBVIOUS
  <2>3. text.type # "NEWS"
    <3>1. text.type = EventType(Filing[d])
      BY DEF Metadata
    <3> QED
      BY <3>1, FilingsAreNoNews
  <2>4. Published(d) \in Int
    BY PublishedIsInt
  <2> HIDE DEF id, text
  <2>5. Enterable(b, id, text, Target(b, d))
    BY <1>2, <2>2, <2>3, <2>4, TargetIsThere DEF Enterable
  <2> QED
    BY <2>1, <2>5, EnterKeeps
<1> QED
  BY <1>1, <1>2

\* A filing that is taken is stored, and none is lost.
LEMMA TakeStores ==
    ASSUME NEW b, BooksOK(b), NEW d
    PROVE  DOMAIN Take(b, d).record = DOMAIN b.record \cup {<<d, "number">>}
<1> DEFINE id == <<d, "number">>
<1> HIDE DEF id
<1>1. DOMAIN b = {"record", "event"}
  BY DEF BooksOK
<1>2. CASE id \in DOMAIN b.record
  <2>1. Take(b, d) = Reread(b, id, Metadata(Filing[d]))
    BY <1>2 DEF Take, Ingest, id
  <2>2. Reread(b, id, Metadata(Filing[d])).record = b.record
    BY <1>1 DEF Reread
  <2> QED
    BY <1>2, <2>1, <2>2 DEF id
<1>3. CASE id \notin DOMAIN b.record
  <2>1. Take(b, d) = Enter(b, id, Metadata(Filing[d]), Target(b, d))
    BY <1>3 DEF Take, Ingest, id
  <2>2. \E row : Enter(b, id, Metadata(Filing[d]), Target(b, d)).record = Put(b.record, id, row)
    BY <1>1 DEF Enter
  <2> QED
    BY <2>1, <2>2 DEF Put, id
<1> QED
  BY <1>2, <1>3

-----------------------------------------------------------------------------
(* Many filings: a run.                                                    *)

\* The books hold what they held before and the filings of docs.
Holds(b, old, docs) ==
    DOMAIN b.record = DOMAIN old.record \cup {<<d, "number">> : d \in docs}

\* The fold of filings is defined for every list.
LEMMA TakingRuns ==
    ASSUME NEW b, NEW order, NEW L \in Nat
    PROVE  \E f : f = [n \in 0 .. L |-> IF n = 0 THEN b ELSE Take(f[n - 1], order[n])]
<1> DEFINE Good(m, f) == f = [n \in 0 .. m |-> IF n = 0 THEN b ELSE Take(f[n - 1], order[n])]
           Done == {m \in 0 .. L : \E f : Good(m, f)}
<1>1. 0 \in Done
  <2> DEFINE zero == [n \in 0 .. 0 |-> b]
  <2>1. Good(0, zero)
    OBVIOUS
  <2> HIDE DEF Good
  <2> QED
    BY <2>1
<1>2. ASSUME NEW m \in 0 .. L, m < L, m \in Done
      PROVE  m + 1 \in Done
  <2>1. PICK f : Good(m, f)
    BY <1>2
  <2> DEFINE g == [n \in 0 .. m + 1 |-> IF n = m + 1 THEN Take(f[m], order[n]) ELSE f[n]]
  <2>2. ASSUME NEW n \in 0 .. m + 1
        PROVE  g[n] = IF n = 0 THEN b ELSE Take(g[n - 1], order[n])
    <3>1. CASE n = 0
      <4>1. 0 \in 0 .. m /\ n # m + 1
        BY <3>1
      <4>2. f[0] = b
        BY <2>1, <4>1
      <4> QED
        BY <3>1, <4>1, <4>2
    <3>2. CASE n # 0
      <4>1. n - 1 \in 0 .. m /\ n - 1 \in 0 .. m + 1 /\ n - 1 # m + 1
        BY <3>2
      <4>2. g[n - 1] = f[n - 1]
        BY <4>1
      <4>3. CASE n = m + 1
        <5>1. n - 1 = m
          BY <4>3
        <5> QED
          BY <3>2, <4>2, <4>3, <5>1
      <4>4. CASE n # m + 1
        <5>1. n \in 0 .. m
          BY <4>4
        <5>2. f[n] = Take(f[n - 1], order[n])
          BY <2>1, <3>2, <5>1
        <5>3. g[n] = f[n]
          BY <4>4
        <5> HIDE DEF g
        <5> QED
          BY <3>2, <4>2, <5>2, <5>3
      <4> QED
        BY <4>3, <4>4
    <3> QED
      BY <3>1, <3>2
  <2>3. Good(m + 1, g)
    <3>1. g = [n \in 0 .. m + 1 |-> g[n]]
      OBVIOUS
    <3> HIDE DEF g
    <3> QED
      BY <2>2, <3>1
  <2>4. \E h : Good(m + 1, h)
    BY <2>3
  <2> HIDE DEF Good
  <2> QED
    BY <1>2, <2>4
<1>3. L \in Done
  <2> HIDE DEF Done
  <2>1. \A m \in 0 .. L : m \in Done
    BY <1>1, <1>2, NatSetInduction
  <2> QED
    BY <2>1
<1> QED
  BY <1>3

LEMMA TakeAllKeeps ==
    ASSUME NEW b, BooksOK(b), FiledOK, NEW docs \in SUBSET Documents
    PROVE  /\ BooksOK(TakeAll(b, docs)) /\ Follows(b.event, TakeAll(b, docs).event)
           /\ Holds(TakeAll(b, docs), b, docs)
<1> DEFINE order == NewestFirst(docs, filed)
           L == Cardinality(docs)
           f == CHOOSE after : after = [n \in 0 .. L |-> IF n = 0 THEN b
                                                        ELSE Take(after[n - 1], order[n])]
<1>1. L \in Nat /\ IsFiniteSet(docs)
  BY FilingsAssumption, FS_Subset, FS_CardinalityType
<1>2. Ordered(order, docs)
  <2>1. \A d \in Documents : filed[d] \in Int
    BY DEF FiledOK
  <2> QED
    BY <1>1, <2>1, NewestFirstOrder
<1>3. TakeAll(b, docs) = f[L]
  BY DEF TakeAll
<1>11. order \in [1 .. L -> docs] /\ \A d \in docs : \E n \in 1 .. L : order[n] = d
  <2> HIDE DEF order
  <2> QED
    BY <1>2 DEF Ordered
<1> HIDE DEF order, L
<1>4. f = [n \in 0 .. L |-> IF n = 0 THEN b ELSE Take(f[n - 1], order[n])]
  BY <1>1, TakingRuns
<1> HIDE DEF f
<1>5. f[0] = b
  BY <1>1, <1>4
<1>6. \A n \in 1 .. L : f[n] = Take(f[n - 1], order[n])
  BY <1>1, <1>4
<1> DEFINE turns(n) == {order[m] : m \in 1 .. n}
           Done == {n \in 0 .. L : /\ BooksOK(f[n]) /\ Follows(b.event, f[n].event)
                                   /\ Holds(f[n], b, turns(n))}
<1>7. 0 \in Done
  <2>1. Follows(b.event, b.event)
    BY FollowsItself DEF BooksOK
  <2>2. turns(0) = {}
    OBVIOUS
  <2>3. Holds(b, b, {})
    BY DEF Holds
  <2> QED
    BY <1>1, <1>5, <2>1, <2>2, <2>3
<1>8. ASSUME NEW n \in 0 .. L, n < L, n \in Done
      PROVE  n + 1 \in Done
  <2>1. n + 1 \in 1 .. L /\ n + 1 \in 0 .. L /\ (n + 1) - 1 = n
    BY <1>1, <1>8
  <2>2. f[n + 1] = Take(f[n], order[n + 1])
    BY <1>6, <2>1
  <2>3. order[n + 1] \in Documents
    BY <1>11, <2>1
  <2>4. BooksOK(f[n]) /\ Follows(b.event, f[n].event) /\ Holds(f[n], b, turns(n))
    BY <1>8
  <2>5. BooksOK(f[n + 1]) /\ Follows(f[n].event, f[n + 1].event)
    BY <2>2, <2>3, <2>4, TakeKeeps
  <2>6. Follows(b.event, f[n + 1].event)
    BY <2>4, <2>5, FollowsIsTransitive
  <2>7. Holds(f[n + 1], b, turns(n + 1))
    <3>1. DOMAIN f[n + 1].record = DOMAIN f[n].record \cup {<<order[n + 1], "number">>}
      BY <2>2, <2>4, TakeStores
    <3>2. turns(n + 1) = turns(n) \cup {order[n + 1]}
      <4>1. 1 .. n + 1 = (1 .. n) \cup {n + 1}
        BY <1>1
      <4> QED
        BY <4>1
    <3> HIDE DEF turns
    <3> QED
      BY <2>4, <3>1, <3>2 DEF Holds
  <2> QED
    BY <2>1, <2>5, <2>6, <2>7
<1>9. L \in Done
  <2> HIDE DEF Done
  <2>1. \A n \in 0 .. L : n \in Done
    BY <1>1, <1>7, <1>8, NatSetInduction
  <2> QED
    BY <1>1, <2>1
<1>10. turns(L) = docs
  BY <1>11
<1> QED
  BY <1>3, <1>9, <1>10

\* A company that was read in full has its filings of the window stored.
RunOK(run, start) ==
    /\ DOMAIN run = {"books", "fetched", "read", "whole"}
    /\ BooksOK(run.books) /\ Follows(event, run.books.event)
    /\ DOMAIN record \subseteq DOMAIN run.books.record
    /\ \A c \in run.whole, d \in Documents :
          d \in Listed(c) /\ InWindow(d, start) => <<d, "number">> \in DOMAIN run.books.record
    /\ run.read \in BOOLEAN

LEMMA ReadKeeps ==
    ASSUME NEW start, NEW run, RunOK(run, start), FiledOK, NEW c, NEW limit, NEW failing
    PROVE  RunOK(Read(run, c, start, limit, failing), start)
<1> DEFINE answer == Answer(c, start, Min({MappingLimit, limit - run.fetched}))
           taken == {d \in answer : InWindow(d, start)}
           whole == \A d \in Listed(c) : InWindow(d, start) => d \in answer
           next == [run EXCEPT !.books = TakeAll(@, taken), !.fetched = @ + Cardinality(taken),
                        !.read = TRUE, !.whole = @ \cup (IF whole THEN {c} ELSE {})]
<1>1. CASE Read(run, c, start, limit, failing) = run
  BY <1>1
<1>2. CASE Read(run, c, start, limit, failing) = next
  <2>1. taken \in SUBSET Documents
    BY DEF Answer, Submissions, Dated, Listed
  <2>2. DOMAIN run = {"books", "fetched", "read", "whole"}
    BY DEF RunOK
  <2>3. DOMAIN next = {"books", "fetched", "read", "whole"}
    BY <2>2
  <2>4. /\ next.books = TakeAll(run.books, taken) /\ next.read = TRUE
        /\ next.whole = run.whole \cup (IF whole THEN {c} ELSE {})
    BY <2>2
  <2>8. \A d \in answer : InWindow(d, start) => d \in taken
    OBVIOUS
  <2> HIDE DEF next, taken
  <2>5. /\ BooksOK(next.books) /\ Follows(run.books.event, next.books.event)
        /\ Holds(next.books, run.books, taken)
    BY <2>1, <2>4, TakeAllKeeps DEF RunOK
  <2>6. Follows(event, next.books.event)
    BY <2>5, FollowsIsTransitive DEF RunOK
  <2>7. DOMAIN run.books.record \subseteq DOMAIN next.books.record
        /\ \A d \in taken : <<d, "number">> \in DOMAIN next.books.record
    BY <2>5 DEF Holds
  <2>9. \A d \in Listed(c) : whole /\ InWindow(d, start) => d \in taken
    BY <2>8
  <2> HIDE DEF whole, answer
  <2>10. ASSUME NEW e \in next.whole, NEW d \in Documents, d \in Listed(e), InWindow(d, start)
         PROVE  <<d, "number">> \in DOMAIN next.books.record
    <3>1. CASE e \in run.whole
      BY <2>7, <2>10, <3>1 DEF RunOK
    <3>2. CASE e \notin run.whole
      BY <2>4, <2>7, <2>9, <2>10, <3>2
    <3> QED
      BY <3>1, <3>2
  <2>11. DOMAIN record \subseteq DOMAIN next.books.record
    BY <2>7 DEF RunOK
  <2> QED
    BY <1>2, <2>3, <2>4, <2>5, <2>6, <2>10, <2>11 DEF RunOK
<1> QED
  BY <1>1, <1>2 DEF Read

\* The fold of companies is defined for every order.
Reading(f, run, mappings, L, start, limit, failing) ==
    f = [n \in 0 .. L |-> IF n = 0 THEN run
                          ELSE Read(f[n - 1], Nth(mappings, n), start, limit, failing)]

LEMMA ReadingRuns ==
    ASSUME NEW run, NEW mappings, NEW L \in Nat, NEW start, NEW limit, NEW failing
    PROVE  \E f : Reading(f, run, mappings, L, start, limit, failing)
<1> DEFINE Next2(r, n) == Read(r, Nth(mappings, n), start, limit, failing)
           Good(m, f) == f = [n \in 0 .. m |-> IF n = 0 THEN run ELSE Next2(f[n - 1], n)]
           Done == {m \in 0 .. L : \E f : Good(m, f)}
<1>1. 0 \in Done
  <2> DEFINE zero == [n \in 0 .. 0 |-> run]
  <2>1. Good(0, zero)
    OBVIOUS
  <2> HIDE DEF Good
  <2> QED
    BY <2>1
<1>2. ASSUME NEW m \in 0 .. L, m < L, m \in Done
      PROVE  m + 1 \in Done
  <2>1. PICK f : Good(m, f)
    BY <1>2
  <2> DEFINE g == [n \in 0 .. m + 1 |-> IF n = m + 1 THEN Next2(f[m], n) ELSE f[n]]
  <2>2. ASSUME NEW n \in 0 .. m + 1
        PROVE  g[n] = IF n = 0 THEN run ELSE Next2(g[n - 1], n)
    <3>1. CASE n = 0
      <4>1. 0 \in 0 .. m /\ n # m + 1
        BY <3>1
      <4>2. f[0] = run
        BY <2>1, <4>1
      <4> QED
        BY <3>1, <4>1, <4>2
    <3>2. CASE n # 0
      <4>1. n - 1 \in 0 .. m /\ n - 1 \in 0 .. m + 1 /\ n - 1 # m + 1
        BY <3>2
      <4>2. g[n - 1] = f[n - 1]
        BY <4>1
      <4>3. CASE n = m + 1
        <5>1. n - 1 = m
          BY <4>3
        <5> QED
          BY <3>2, <4>2, <4>3, <5>1
      <4>4. CASE n # m + 1
        <5>1. n \in 0 .. m
          BY <4>4
        <5>2. f[n] = Next2(f[n - 1], n)
          BY <2>1, <3>2, <5>1
        <5>3. g[n] = f[n]
          BY <4>4
        <5> HIDE DEF g
        <5> QED
          BY <3>2, <4>2, <5>2, <5>3
      <4> QED
        BY <4>3, <4>4
    <3> QED
      BY <3>1, <3>2
  <2>3. Good(m + 1, g)
    <3>1. g = [n \in 0 .. m + 1 |-> g[n]]
      OBVIOUS
    <3> HIDE DEF g
    <3> QED
      BY <2>2, <3>1
  <2>4. \E h : Good(m + 1, h)
    BY <2>3
  <2> HIDE DEF Good
  <2> QED
    BY <1>2, <2>4
<1>3. L \in Done
  <2> HIDE DEF Done
  <2>1. \A m \in 0 .. L : m \in Done
    BY <1>1, <1>2, NatSetInduction
  <2> QED
    BY <2>1
<1> QED
  BY <1>3 DEF Reading

LEMMA RunKeeps ==
    ASSUME StoreOK(record, event, reference), FiledOK, NEW p, NEW start, NEW limit, NEW named,
           NEW failing
    PROVE  RunOK(Run(p, start, limit, named, failing), start)
<1> DEFINE mappings == Mappings(p, named)
           L == Cardinality(mappings)
           begun == [books |-> Books, fetched |-> 0, read |-> FALSE, whole |-> {}]
           g == CHOOSE after : after = [n \in 0 .. L |-> IF n = 0 THEN begun
                    ELSE Read(after[n - 1], Nth(mappings, n), start, limit, failing)]
<1>1. Run(p, start, limit, named, failing) = g[L]
  BY DEF Run
<1>2. IsFiniteSet(mappings) /\ L \in Nat
  <2>1. mappings \in SUBSET Companies
    BY DEF Mappings, Of
  <2> QED
    BY <2>1, FilingsAssumption, FS_Subset, FS_CardinalityType
<1> HIDE DEF mappings, begun, L
<1>3. g = [n \in 0 .. L |-> IF n = 0 THEN begun
                    ELSE Read(g[n - 1], Nth(mappings, n), start, limit, failing)]
  <2>1. \E h : h = [n \in 0 .. L |-> IF n = 0 THEN begun
                    ELSE Read(h[n - 1], Nth(mappings, n), start, limit, failing)]
    <3>1. \E h : Reading(h, begun, mappings, L, start, limit, failing)
      BY <1>2, ReadingRuns
    <3> QED
      BY <3>1 DEF Reading
  <2> QED
    BY <2>1, Zenon
<1> HIDE DEF g
<1>4. g[0] = begun
  BY <1>2, <1>3
<1>5. \A n \in 1 .. L : g[n] = Read(g[n - 1], Nth(mappings, n), start, limit, failing)
  BY <1>2, <1>3
<1> DEFINE Done == {n \in 0 .. L : RunOK(g[n], start)}
<1>6. 0 \in Done
  <2>1. /\ DOMAIN begun = {"books", "fetched", "read", "whole"} /\ begun.books = Books
        /\ begun.whole = {} /\ begun.read = FALSE
    BY DEF begun
  <2>2. DOMAIN Books = {"record", "event"} /\ Books.record = record /\ Books.event = event
    BY DEF Books
  <2>3. BooksOK(Books)
    BY <2>2 DEF BooksOK
  <2>4. Follows(event, event)
    BY FollowsItself
  <2>5. RunOK(begun, start)
    BY <2>1, <2>2, <2>3, <2>4 DEF RunOK
  <2> QED
    BY <1>2, <1>4, <2>5
<1>7. ASSUME NEW n \in 0 .. L, n < L, n \in Done
      PROVE  n + 1 \in Done
  <2>1. n + 1 \in 1 .. L /\ n + 1 \in 0 .. L /\ (n + 1) - 1 = n
    BY <1>2, <1>7
  <2>2. g[n + 1] = Read(g[n], Nth(mappings, n + 1), start, limit, failing)
    BY <1>5, <2>1
  <2>3. RunOK(g[n], start)
    BY <1>7
  <2> QED
    BY <2>1, <2>2, <2>3, ReadKeeps
<1>8. L \in Done
  <2> HIDE DEF Done
  <2>1. \A n \in 0 .. L : n \in Done
    BY <1>2, <1>6, <1>7, NatSetInduction
  <2> QED
    BY <1>2, <2>1
<1> QED
  BY <1>1, <1>8

-----------------------------------------------------------------------------
(* One article.                                                            *)

LEMMA MaxOfTwo ==
    ASSUME NEW m \in Int, NEW n \in Int
    PROVE  Max({m, n}) \in Int /\ Max({m, n}) >= m /\ Max({m, n}) >= n
<1>1. \E x \in {m, n} : \A y \in {m, n} : x >= y
  <2>1. CASE m >= n
    BY <2>1
  <2>2. CASE n >= m
    BY <2>2
  <2> QED
    BY <2>1, <2>2
<1> QED
  BY <1>1 DEF Max

LEMMA StandingFacts ==
    ASSUME NEW official, NEW conflicting, NEW source, NEW independent, NEW others
    PROVE  LET standing == Standing(official, conflicting, source, independent, others)
           IN  /\ standing \in Verification
               /\ standing = "OFFICIAL_CONFIRMED" => official \/ source.official
               /\ standing = "MULTI_SOURCE_CONFIRMED" => independent /\ others # {}
BY DEF Standing, Confirmed, Verification

LEMMA NewsStatusFacts ==
    ASSUME NEW held, NEW repeated, NEW official, NEW conflicting, NEW notice, NEW standing,
           standing \in Verification
    PROVE  LET status == NewsStatus(held, repeated, official, conflicting, notice, standing)
           IN  /\ status.verification \in Verification
               /\ status.verification = "OFFICIAL_CONFIRMED" =>
                     official \/ standing = "OFFICIAL_CONFIRMED"
               /\ status.verification = "MULTI_SOURCE_CONFIRMED" =>
                     standing = "MULTI_SOURCE_CONFIRMED"
BY DEF NewsStatus, Transition, Verification

NewsOK(b) ==
    DOMAIN b = {"event", "reference"} /\ StoreOK(record, b.event, b.reference)

Stored(b, a) == a \in DOMAIN b.reference /\ ArticleKey(a) \in DOMAIN b.event

LEMMA IngestKeeps ==
    ASSUME NEW b, NewsOK(b), NEW a \in Articles, NEW published \in Int, NEW manual
    PROVE  /\ NewsOK(IngestArticle(b, a, published, manual))
           /\ Follows(b.event, IngestArticle(b, a, published, manual).event)
           /\ ~Known(b.reference, a, manual) => Stored(IngestArticle(b, a, published, manual), a)
<1> DEFINE art == Article[a]
           source == Source[IF manual THEN art.manual ELSE art.source]
           key == ArticleKey(a)
           own == {q \in DOMAIN b.reference : b.reference[q].event = key}
           same == {q \in own : Article[q].claim = art.claim}
           first == IF same = {} THEN None
                    ELSE CHOOSE q \in same : \A r \in same :
                           b.reference[q].published <= b.reference[r].published
           held == IF key \in DOMAIN b.event THEN b.event[key].verification ELSE "none"
           officials == Officials(a)
           conflicting == \E r \in officials : Contradicts(Filing[r[1]].certainty, art.certainty)
           others == {b.reference[q].origin : q \in own}
           independent == art.origin \notin others
           standing == Standing(officials # {}, conflicting, source, independent, others)
           status == NewsStatus(held, same # {}, officials # {}, conflicting, art.notice, standing)
           made == [NewEvent("NEWS", [claim |-> art.claim, summary |-> None], published)
                        EXCEPT !.lifecycle = status.lifecycle,
                               !.verification = status.verification]
           old == IF held # "none" THEN b.event[key] ELSE made
           e == [old EXCEPT
                    !.news = @ + 1, !.sources = @ + 1,
                    !.origins = Cardinality(others \cup {art.origin}),
                    !.official = Max({@, Cardinality(officials)}),
                    !.seen = Max({@, published}), !.material = status.material,
                    !.changed = IF status.material THEN published ELSE @,
                    !.lifecycle = State(old, status).lifecycle,
                    !.verification = State(old, status).verification]
           row == [event |-> key, published |-> published, origin |-> art.origin,
                   independent |-> independent, duplicateOf |-> first,
                   verification |-> status.verification, lifecycle |-> status.lifecycle,
                   material |-> status.material, stale |-> status.stale,
                   trust |-> TrustScore(source.grade, status.verification, independent),
                   manual |-> manual]
           b2 == [event |-> Put(b.event, key, e), reference |-> Put(b.reference, a, row)]
<1>1. IngestArticle(b, a, published, manual) = IF Known(b.reference, a, manual) THEN b ELSE b2
  BY DEF IngestArticle
<1>2. DOMAIN b = {"event", "reference"} /\ StoreOK(record, b.event, b.reference)
  BY DEF NewsOK
<1>3. CASE Known(b.reference, a, manual)
  <2>1. Follows(b.event, b.event)
    BY <1>2, FollowsItself
  <2> QED
    BY <1>1, <1>3, <2>1
<1>4. CASE ~Known(b.reference, a, manual)
  <2>1. a \notin DOMAIN b.reference
    BY <1>4 DEF Known
  <2>2. key[2] = "NEWS"
    BY DEF ArticleKey
  <2>3. own = Arts(b.reference, key) /\ others = OriginsOf(b.reference, key)
    BY DEF Arts, OriginsOf
  <2> HIDE DEF key
  <2>4. officials \in SUBSET DOMAIN record /\ \A r \in officials : <<a, r[1]>> \in About
    BY DEF Officials
  <2>5. Cardinality(officials) \in Int
    <3>1. IsFiniteSet(DOMAIN record)
      BY <1>2 DEF StoreOK, RecordsOK
    <3> QED
      BY <2>4, <3>1, FS_Subset, FS_CardinalityType
  <2>6. /\ standing \in Verification
        /\ standing = "OFFICIAL_CONFIRMED" => officials # {} \/ source.official
        /\ standing = "MULTI_SOURCE_CONFIRMED" => independent /\ others # {}
    BY StandingFacts
  <2>7. /\ status.verification \in Verification
        /\ status.verification = "OFFICIAL_CONFIRMED" =>
              officials # {} \/ standing = "OFFICIAL_CONFIRMED"
        /\ status.verification = "MULTI_SOURCE_CONFIRMED" =>
              standing = "MULTI_SOURCE_CONFIRMED"
    <3> HIDE DEF standing
    <3> QED
      BY <2>6, NewsStatusFacts
  <2>8. key \in DOMAIN b.event => /\ EventIsPlain(b.event[key], key) /\ held # "none"
                                  /\ Counted(record, b.event[key], b.reference, key)
                                  /\ Backed(record, b.event[key], b.reference, key)
    <3>1. key \in DOMAIN b.event => /\ EventIsPlain(b.event[key], key)
                                    /\ Counted(record, b.event[key], b.reference, key)
                                    /\ Backed(record, b.event[key], b.reference, key)
      BY <1>2 DEF StoreOK, EventsOK
    <3> QED
      BY <3>1 DEF EventIsPlain, Verification
  <2>9. key \notin DOMAIN b.event => held = "none"
    OBVIOUS
  <2>10. held = "none" => key \notin DOMAIN b.event
    <3> HIDE DEF held
    <3> QED
      BY <2>8
  <2> HIDE DEF officials, conflicting, others, independent, held, first, same, own
  <2>11. /\ DOMAIN row = ReferenceColumns /\ row.event = key /\ row.origin = art.origin
         /\ row.independent = independent /\ row.manual = manual
    BY DEF ReferenceColumns
  <2> HIDE DEF row
  <2>12. NewReference(b.reference, a, row)
    BY <2>1, <2>2, <2>3, <2>11 DEF NewReference, ReferenceIsPlain, independent
  <2> HIDE DEF status, standing
  <2>13. /\ DOMAIN made = EventColumns /\ made.type = "NEWS"
         /\ made.sources = 0 /\ made.official = 0 /\ made.news = 0 /\ made.origins = 0
         /\ made.verification = status.verification
    BY DEF NewEvent, EventColumns
  <2> HIDE DEF made
  <2>14. /\ DOMAIN old = EventColumns /\ old.type = "NEWS"
         /\ old.sources \in Nat /\ old.official \in Nat /\ old.news \in Nat
         /\ old.verification \in Verification
    <3>1. CASE held # "none"
      <4>1. key \in DOMAIN b.event /\ EventIsPlain(b.event[key], key)
        BY <2>8, <2>9, <3>1
      <4> QED
        BY <2>2, <3>1, <4>1 DEF EventIsPlain
    <3>2. CASE held = "none"
      BY <2>7, <2>13, <3>2
    <3> QED
      BY <3>1, <3>2
  <2>15. /\ held # "none" => old = b.event[key]
         /\ held = "none" => old = made
    OBVIOUS
  <2> DEFINE now1 == State(old, status)
             seen == Max({old.seen, published})
             changed == IF status.material THEN published ELSE old.changed
             e1 == [old EXCEPT
                    !.news = old.news + 1, !.sources = old.sources + 1,
                    !.origins = Cardinality(others \cup {art.origin}),
                    !.official = Max({old.official, Cardinality(officials)}),
                    !.seen = seen, !.material = status.material,
                    !.changed = changed,
                    !.lifecycle = now1.lifecycle,
                    !.verification = now1.verification]
  <2> HIDE DEF old
  <2>16. e = e1
    BY <2>14 DEF EventColumns
  <2> HIDE DEF e, seen, changed, now1
  <2>17. DOMAIN e1 = EventColumns
    BY <2>14
  <2>18. e1.news = old.news + 1
    BY <2>14 DEF EventColumns
  <2>19. e1.sources = old.sources + 1
    BY <2>14 DEF EventColumns
  <2>20. e1.origins = Cardinality(others \cup {art.origin})
    BY <2>14 DEF EventColumns
  <2>21. e1.official = Max({old.official, Cardinality(officials)})
    BY <2>14 DEF EventColumns
  <2>22. e1.type = "NEWS"
    BY <2>14 DEF EventColumns
  <2>23. e1.verification = now1.verification
    BY <2>14 DEF EventColumns
  <2> HIDE DEF e1
  <2>24. e.official \in Nat /\ e.official >= old.official
    <3>1. Max({old.official, Cardinality(officials)}) \in Int
          /\ Max({old.official, Cardinality(officials)}) >= old.official
      <4>1. old.official \in Int
        BY <2>14
      <4> QED
        BY <2>5, <4>1, MaxOfTwo, Zenon
    <3> QED
      BY <2>14, <2>16, <2>21, <3>1
  <2>25. IsFiniteSet(others)
    <3>1. CASE key \in DOMAIN b.event
      BY <2>3, <2>8, <3>1 DEF Counted
    <3>2. CASE key \notin DOMAIN b.event
      <4>1. Arts(b.reference, key) = {}
        BY <1>2, <3>2 DEF StoreOK, ReferencesOK, Arts
      <4>2. others = {}
        BY <2>3, <4>1 DEF OriginsOf
      <4> QED
        BY <4>2, FS_EmptySet
    <3> QED
      BY <3>1, <3>2
  <2>26. /\ Cardinality(others) \in Nat
         /\ Cardinality(others \cup {art.origin}) \in Nat
         /\ Cardinality(others \cup {art.origin}) >= Cardinality(others)
         /\ independent => Cardinality(others \cup {art.origin}) = Cardinality(others) + 1
         /\ others # {} => Cardinality(others) >= 1
    <3>1. /\ IsFiniteSet(others \cup {art.origin})
          /\ Cardinality(others \cup {art.origin}) =
                IF art.origin \in others THEN Cardinality(others) ELSE Cardinality(others) + 1
      BY <2>25, FS_AddElement
    <3>2. Cardinality(others) \in Nat /\ Cardinality(others \cup {art.origin}) \in Nat
      BY <2>25, <3>1, FS_CardinalityType
    <3>3. others # {} => Cardinality(others) # 0
      BY <2>25, FS_EmptySet
    <3> QED
      BY <3>1, <3>2, <3>3 DEF independent
  <2>27. now1.verification \in Verification
    BY <2>7, <2>14 DEF now1, State
  <2>28. EventIsPlain(e, key)
    BY <2>2, <2>14, <2>16, <2>17, <2>18, <2>19, <2>20, <2>22, <2>23, <2>24, <2>26, <2>27
    DEF EventIsPlain
  <2>29. OneMore(b.reference, Put(b.reference, a, row), a, key, art.origin)
    <3>1. IsFiniteSet(DOMAIN b.reference)
      BY <1>2 DEF StoreOK, ReferencesOK
    <3>2. OneMore(b.reference, Put(b.reference, a, row), a, row.event, row.origin)
      BY <2>12, <3>1, MoreArticles
    <3> QED
      BY <2>11, <3>2
  <2> DEFINE ref2 == Put(b.reference, a, row)
  <2>30. /\ Arts(ref2, key) = Arts(b.reference, key) \cup {a}
         /\ OriginsOf(ref2, key) = others \cup {art.origin}
    BY <2>3, <2>29 DEF OneMore
  <2>31. /\ ref2[a] = row
         /\ \A q \in Arts(b.reference, key) : ref2[q] = b.reference[q]
    BY <2>1 DEF Put, Arts
  <2> HIDE DEF ref2
  <2>32. now1.verification # status.verification =>
            key \in DOMAIN b.event /\ now1.verification = b.event[key].verification
    BY <2>9, <2>13, <2>15 DEF now1, State
  <2>33. Backed(record, e, ref2, key)
    <3>1. ASSUME e.verification = "MULTI_SOURCE_CONFIRMED"
          PROVE  Cardinality(OriginsOf(ref2, key)) > 1
      <4>1. CASE status.verification = "MULTI_SOURCE_CONFIRMED"
        <5>1. independent /\ others # {}
          BY <2>6, <2>7, <4>1
        <5> QED
          BY <2>26, <2>30, <5>1
      <4>2. CASE status.verification # "MULTI_SOURCE_CONFIRMED"
        <5>1. key \in DOMAIN b.event /\ b.event[key].verification = "MULTI_SOURCE_CONFIRMED"
          BY <2>16, <2>23, <2>32, <3>1, <4>2
        <5>2. Cardinality(others) > 1
          BY <2>3, <2>8, <5>1 DEF Backed
        <5> QED
          BY <2>26, <2>30, <5>2
      <4> QED
        BY <4>1, <4>2
    <3>2. ASSUME e.verification = "OFFICIAL_CONFIRMED"
          PROVE  \E q \in Arts(ref2, key) : SpokenFor(record, ref2[q], q)
      <4>1. CASE status.verification = "OFFICIAL_CONFIRMED"
        <5>1. officials # {} \/ source.official
          BY <2>6, <2>7, <4>1
        <5>2. SpokenFor(record, row, a)
          BY <2>4, <2>11, <5>1 DEF SpokenFor
        <5> QED
          BY <2>30, <2>31, <5>2
      <4>2. CASE status.verification # "OFFICIAL_CONFIRMED"
        <5>1. key \in DOMAIN b.event /\ b.event[key].verification = "OFFICIAL_CONFIRMED"
          BY <2>16, <2>23, <2>32, <3>2, <4>2
        <5>2. b.event[key].type = "NEWS"
          BY <2>2, <2>8, <5>1 DEF EventIsPlain
        <5>3. PICK q \in Arts(b.reference, key) : SpokenFor(record, b.reference[q], q)
          BY <2>8, <5>1, <5>2 DEF Backed
        <5> QED
          BY <2>30, <2>31, <5>3
      <4> QED
        BY <4>1, <4>2
    <3> QED
      BY <3>1, <3>2 DEF Backed
  <2>34. CountsArticle(record, b.event, b.reference, a, row, e)
    <3>1. e.origins = Cardinality(OriginsOf(b.reference, key) \cup {row.origin})
      BY <2>3, <2>11, <2>16, <2>20
    <3>2. ASSUME key \in DOMAIN b.event
          PROVE  /\ e.sources = b.event[key].sources + 1 /\ e.news = b.event[key].news + 1
                 /\ e.official >= b.event[key].official
      <4>1. old = b.event[key]
        BY <2>8, <2>15, <3>2
      <4> QED
        BY <2>16, <2>18, <2>19, <2>24, <4>1
    <3>3. ASSUME key \notin DOMAIN b.event
          PROVE  e.sources = 1 /\ e.news = 1
      <4>1. old = made
        BY <2>9, <2>15, <3>3
      <4> QED
        BY <2>13, <2>16, <2>18, <2>19, <4>1
    <3>4. Backed(record, e, Put(b.reference, a, row), key)
      BY <2>33 DEF ref2
    <3> QED
      BY <2>11, <2>28, <3>1, <3>2, <3>3, <3>4 DEF CountsArticle
  <2>35. /\ StoreOK(record, Put(b.event, row.event, e), Put(b.reference, a, row))
         /\ Follows(b.event, Put(b.event, row.event, e))
    BY <1>2, <2>12, <2>34, JoinArticle
  <2>36. /\ DOMAIN b2 = {"event", "reference"} /\ b2.event = Put(b.event, key, e)
         /\ b2.reference = Put(b.reference, a, row)
    OBVIOUS
  <2> HIDE DEF b2
  <2>37. Stored(b2, a)
    BY <2>36 DEF Stored, Put, key
  <2> QED
    BY <1>1, <1>4, <2>11, <2>35, <2>36, <2>37 DEF NewsOK
<1> QED
  BY <1>3, <1>4

-----------------------------------------------------------------------------
(* Many articles: a feed.                                                  *)

PostedOK == posted \in [Articles -> Nat]

Ingesting(f, b, order, L) ==
    f = [n \in 0 .. L |-> IF n = 0 THEN b
                          ELSE IngestArticle(f[n - 1], order[n], posted[order[n]], FALSE)]

\* The fold of articles is defined for every feed.
LEMMA IngestingRuns ==
    ASSUME NEW b, NEW order, NEW L \in Nat
    PROVE  \E f : Ingesting(f, b, order, L)
<1> DEFINE Next2(x, n) == IngestArticle(x, order[n], posted[order[n]], FALSE)
           Good(m, f) == f = [n \in 0 .. m |-> IF n = 0 THEN b ELSE Next2(f[n - 1], n)]
           Done == {m \in 0 .. L : \E f : Good(m, f)}
<1>1. 0 \in Done
  <2> DEFINE zero == [n \in 0 .. 0 |-> b]
  <2>1. Good(0, zero)
    OBVIOUS
  <2> HIDE DEF Good
  <2> QED
    BY <2>1
<1>2. ASSUME NEW m \in 0 .. L, m < L, m \in Done
      PROVE  m + 1 \in Done
  <2>1. PICK f : Good(m, f)
    BY <1>2
  <2> DEFINE g == [n \in 0 .. m + 1 |-> IF n = m + 1 THEN Next2(f[m], n) ELSE f[n]]
  <2>2. ASSUME NEW n \in 0 .. m + 1
        PROVE  g[n] = IF n = 0 THEN b ELSE Next2(g[n - 1], n)
    <3>1. CASE n = 0
      <4>1. 0 \in 0 .. m /\ n # m + 1
        BY <3>1
      <4>2. f[0] = b
        BY <2>1, <4>1
      <4> QED
        BY <3>1, <4>1, <4>2
    <3>2. CASE n # 0
      <4>1. n - 1 \in 0 .. m /\ n - 1 \in 0 .. m + 1 /\ n - 1 # m + 1
        BY <3>2
      <4>2. g[n - 1] = f[n - 1]
        BY <4>1
      <4>3. CASE n = m + 1
        <5>1. n - 1 = m
          BY <4>3
        <5> QED
          BY <3>2, <4>2, <4>3, <5>1
      <4>4. CASE n # m + 1
        <5>1. n \in 0 .. m
          BY <4>4
        <5>2. f[n] = Next2(f[n - 1], n)
          BY <2>1, <3>2, <5>1
        <5>3. g[n] = f[n]
          BY <4>4
        <5> HIDE DEF g
        <5> QED
          BY <3>2, <4>2, <5>2, <5>3
      <4> QED
        BY <4>3, <4>4
    <3> QED
      BY <3>1, <3>2
  <2>3. Good(m + 1, g)
    <3>1. g = [n \in 0 .. m + 1 |-> g[n]]
      OBVIOUS
    <3> HIDE DEF g
    <3> QED
      BY <2>2, <3>1
  <2>4. \E h : Good(m + 1, h)
    BY <2>3
  <2> HIDE DEF Good
  <2> QED
    BY <1>2, <2>4
<1>3. L \in Done
  <2> HIDE DEF Done
  <2>1. \A m \in 0 .. L : m \in Done
    BY <1>1, <1>2, NatSetInduction
  <2> QED
    BY <2>1
<1> QED
  BY <1>3 DEF Ingesting

LEMMA IngestAllKeeps ==
    ASSUME StoreOK(record, event, reference), PostedOK, NEW articles \in SUBSET Articles
    PROVE  NewsOK(IngestAll(articles)) /\ Follows(event, IngestAll(articles).event)
<1> DEFINE order == NewestFirst(articles, posted)
           L == Cardinality(articles)
           f == CHOOSE after : after = [n \in 0 .. L |-> IF n = 0 THEN NewsBooks
                    ELSE IngestArticle(after[n - 1], order[n], posted[order[n]], FALSE)]
<1>1. L \in Nat /\ IsFiniteSet(articles)
  BY ArticlesAssumption, FS_Subset, FS_CardinalityType
<1>2. \A a \in Articles : posted[a] \in Int
  BY DEF PostedOK
<1>3. order \in [1 .. L -> articles]
  <2>1. Ordered(order, articles)
    BY <1>1, <1>2, NewestFirstOrder
  <2> HIDE DEF order
  <2> QED
    BY <2>1 DEF Ordered
<1>4. IngestAll(articles) = f[L]
  BY DEF IngestAll
<1> HIDE DEF order, L
<1>5. Ingesting(f, NewsBooks, order, L)
  <2>1. \E h : Ingesting(h, NewsBooks, order, L)
    BY <1>1, IngestingRuns
  <2>2. \E h : h = [n \in 0 .. L |-> IF n = 0 THEN NewsBooks
                    ELSE IngestArticle(h[n - 1], order[n], posted[order[n]], FALSE)]
    BY <2>1 DEF Ingesting
  <2>3. f = [n \in 0 .. L |-> IF n = 0 THEN NewsBooks
                    ELSE IngestArticle(f[n - 1], order[n], posted[order[n]], FALSE)]
    BY <2>2, Zenon
  <2> HIDE DEF f
  <2> QED
    BY <2>3 DEF Ingesting
<1> HIDE DEF f
<1>6. f[0] = NewsBooks
  BY <1>1, <1>5 DEF Ingesting
<1>7. \A n \in 1 .. L : f[n] = IngestArticle(f[n - 1], order[n], posted[order[n]], FALSE)
  <2> SUFFICES ASSUME NEW n \in 1 .. L
               PROVE  f[n] = IngestArticle(f[n - 1], order[n], posted[order[n]], FALSE)
    OBVIOUS
  <2> DEFINE rhs(m) == IF m = 0 THEN NewsBooks
                       ELSE IngestArticle(f[m - 1], order[m], posted[order[m]], FALSE)
  <2>1. n \in 0 .. L /\ n # 0
    BY <1>1
  <2>2. f = [m \in 0 .. L |-> rhs(m)]
    BY <1>5 DEF Ingesting
  <2>3. rhs(n) = IngestArticle(f[n - 1], order[n], posted[order[n]], FALSE)
    BY <2>1
  <2> HIDE DEF rhs
  <2>4. f[n] = rhs(n)
    BY <2>1, <2>2
  <2> QED
    BY <2>3, <2>4
<1> DEFINE Done == {n \in 0 .. L : NewsOK(f[n]) /\ Follows(event, f[n].event)}
<1>8. 0 \in Done
  <2>1. /\ DOMAIN NewsBooks = {"event", "reference"}
        /\ NewsBooks.event = event /\ NewsBooks.reference = reference
    BY DEF NewsBooks
  <2>2. Follows(event, event)
    BY FollowsItself
  <2> QED
    BY <1>1, <1>6, <2>1, <2>2 DEF NewsOK
<1>9. ASSUME NEW n \in 0 .. L, n < L, n \in Done
      PROVE  n + 1 \in Done
  <2>1. n + 1 \in 1 .. L /\ n + 1 \in 0 .. L /\ (n + 1) - 1 = n
    BY <1>1, <1>9
  <2>2. f[n + 1] = IngestArticle(f[n], order[n + 1], posted[order[n + 1]], FALSE)
    BY <1>7, <2>1
  <2>3. order[n + 1] \in Articles
    BY <1>3, <2>1
  <2>4. posted[order[n + 1]] \in Int
    BY <1>2, <2>3
  <2>5. NewsOK(f[n]) /\ Follows(event, f[n].event)
    BY <1>9
  <2>6. NewsOK(f[n + 1]) /\ Follows(f[n].event, f[n + 1].event)
    BY <2>2, <2>3, <2>4, <2>5, IngestKeeps
  <2>7. Follows(event, f[n + 1].event)
    BY <2>5, <2>6, FollowsIsTransitive
  <2> QED
    BY <2>1, <2>6, <2>7
<1>10. L \in Done
  <2> HIDE DEF Done
  <2>1. \A n \in 0 .. L : n \in Done
    BY <1>1, <1>8, <1>9, NatSetInduction
  <2> QED
    BY <1>1, <2>1
<1> QED
  BY <1>4, <1>10

-----------------------------------------------------------------------------
(* The steps.                                                              *)

FeedsInv == now \in Nat /\ FiledOK /\ PostedOK /\ StoreOK(record, event, reference)

LEMMA FeedsStart == Init => FeedsInv
<1> SUFFICES ASSUME Init PROVE FeedsInv
  OBVIOUS
<1>1. record = <<>> /\ event = <<>> /\ reference = <<>>
  BY DEF Init, FeedInit, NewsInit
<1>2. DOMAIN record = {} /\ DOMAIN event = {} /\ DOMAIN reference = {}
  BY <1>1
<1>3. StoreOK(record, event, reference)
  BY <1>2, FS_EmptySet DEF StoreOK, RecordsOK, ReferencesOK, EventsOK
<1>4. now \in Nat /\ FiledOK /\ PostedOK
  BY DEF Init, FeedInit, NewsInit, FiledOK, PostedOK
<1> QED
  BY <1>3, <1>4 DEF FeedsInv

\* What a step of the events does.
Stays == StoreOK(record', event', reference') /\ Follows(event, event')

LEMMA SyncKeeps ==
    ASSUME FeedsInv, NEW p, NEW since, NEW limit, NEW named, NEW failing,
           Sync(p, since, limit, named, failing), reference' = reference
    PROVE  Stays
<1> DEFINE run == Run(p, Start(p, since), limit, named, failing)
<1>1. record' = run.books.record /\ event' = run.books.event
  BY DEF Sync
<1>2. RunOK(run, Start(p, since))
  BY RunKeeps DEF FeedsInv
<1> HIDE DEF run
<1> QED
  BY <1>1, <1>2 DEF RunOK, BooksOK, Stays

LEMMA ImportKeeps ==
    ASSUME FeedsInv, NEW d \in Documents, NEW identity, NEW material, NEW summary,
           Import(d, identity, material, summary), reference' = reference
    PROVE  Stays
<1> DEFINE id == <<d, identity>>
           text == [type |-> "OFFICIAL_DISCLOSURE", claim |-> Noted, summary |-> summary,
                    denied |-> FALSE, material |-> material]
<1>1. id \notin DOMAIN record
  BY DEF Import, Importable
<1>2. DOMAIN Books = {"record", "event"} /\ Books.record = record /\ Books.event = event
  BY DEF Books
<1>3. record' = Enter(Books, id, text, None).record /\ event' = Enter(Books, id, text, None).event
  <2>1. Ingest(Books, id, text, None) = Enter(Books, id, text, None)
    BY <1>1, <1>2 DEF Ingest
  <2> QED
    BY <2>1 DEF Import
<1>4. BooksOK(Books)
  BY <1>2 DEF BooksOK, FeedsInv
<1>5. text.type # "NEWS" /\ id[1] = d
  OBVIOUS
<1>6. Published(d) \in Int
  BY PublishedIsInt DEF FeedsInv
<1> HIDE DEF id, text
<1>7. Enterable(Books, id, text, None)
  BY <1>1, <1>2, <1>5, <1>6 DEF Enterable
<1>8. /\ BooksOK(Enter(Books, id, text, None))
      /\ Follows(Books.event, Enter(Books, id, text, None).event)
  BY <1>4, <1>7, EnterKeeps
<1> QED
  BY <1>2, <1>3, <1>8 DEF BooksOK, Stays

LEMMA ReplannedSame ==
    ASSUME FeedsInv, NEW key \in DOMAIN event, \E r \in DOMAIN record : record[r].event = key
    PROVE  SameEvent(event[key], Replanned(key), key)
<1> DEFINE own == {r \in DOMAIN record : record[r].event = key}
           published == [r \in DOMAIN record |-> record[r].published]
           latest == CHOOSE r \in own : \A q \in own : record[q].published <= record[r].published
           text == Metadata(Filing[latest[1]])
           material == \E r \in own : Metadata(Filing[r[1]]).material
           e == [event[key] EXCEPT !.claim = text.claim, !.summary = text.summary,
                                   !.type = text.type, !.material = material]
<1>1. Replanned(key) = e
  BY DEF Replanned
<1>2. RecordsOK(record, event) /\ EventIsPlain(event[key], key)
  BY DEF FeedsInv, StoreOK, EventsOK
<1>3. own # {} /\ own \in SUBSET DOMAIN record /\ IsFiniteSet(own)
  <2>1. own # {} /\ own \in SUBSET DOMAIN record
    OBVIOUS
  <2> QED
    BY <1>2, <2>1, FS_Subset DEF RecordsOK
<1>4. latest \in own
  <2>1. \A r \in DOMAIN record : published[r] \in Int /\ published[r] = record[r].published
    BY <1>2 DEF RecordsOK, RecordIsPlain
  <2> HIDE DEF own, published
  <2>2. \E r \in own : \A q \in own : published[q] <= published[r]
    BY <1>3, <2>1, Extremes
  <2>3. \E r \in own : \A q \in own : record[q].published <= record[r].published
    BY <1>3, <2>1, <2>2
  <2> QED
    BY <2>3
<1> HIDE DEF latest
<1>5. latest[1] \in Documents /\ key[2] # "NEWS"
  BY <1>2, <1>4 DEF RecordsOK, RecordIsPlain
<1>6. text.type # "NEWS"
  BY <1>5, FilingsAreNoNews DEF Metadata
<1> HIDE DEF text, material
<1> DEFINE old == event[key]
<1>7. DOMAIN e = EventColumns
  BY <1>2 DEF EventIsPlain
<1>8. e.sources = old.sources /\ e.official = old.official
  BY <1>2 DEF EventIsPlain, EventColumns
<1>9. e.news = old.news /\ e.origins = old.origins
  BY <1>2 DEF EventIsPlain, EventColumns
<1>10. e.verification = old.verification /\ e.lifecycle = old.lifecycle
  BY <1>2 DEF EventIsPlain, EventColumns
<1>11. e.type = text.type
  BY <1>2 DEF EventIsPlain, EventColumns
<1> HIDE DEF e, old
<1>12. EventIsPlain(old, key)
  BY <1>2 DEF old
<1>13. EventIsPlain(e, key)
  BY <1>5, <1>6, <1>7, <1>8, <1>9, <1>10, <1>11, <1>12 DEF EventIsPlain
<1>14. SameEvent(old, e, key)
  BY <1>8, <1>9, <1>10, <1>13 DEF SameEvent
<1> QED
  BY <1>1, <1>14 DEF old

LEMMA ReprocessKeeps ==
    ASSUME FeedsInv, Reprocess, reference' = reference
    PROVE  Stays
<1>1. RecordsOK(record, event) /\ ReferencesOK(reference, event)
  BY DEF FeedsInv, StoreOK
<1>2. SameRecords(record, record')
  <2>1. record' = [r \in DOMAIN record |->
                    [record[r] EXCEPT !.summary = Metadata(Filing[r[1]]).summary,
                                      !.material = Metadata(Filing[r[1]]).material]]
    BY DEF Reprocess
  <2>2. DOMAIN record' = DOMAIN record
    BY <2>1
  <2>3. ASSUME NEW r \in DOMAIN record
        PROVE  RecordIsPlain(record'[r], r) /\ record'[r].event = record[r].event
    <3> DEFINE row == record[r]
               s == Metadata(Filing[r[1]]).summary
               m == Metadata(Filing[r[1]]).material
               new == [row EXCEPT !.summary = s, !.material = m]
    <3>1. record'[r] = new
      BY <2>1
    <3>2. RecordIsPlain(row, r)
      BY <1>1 DEF RecordsOK
    <3> HIDE DEF row, s, m
    <3>3. DOMAIN new = RecordColumns
      BY <3>2 DEF RecordIsPlain
    <3>4. new.event = row.event /\ new.published = row.published
      BY <3>2 DEF RecordIsPlain, RecordColumns
    <3> HIDE DEF new
    <3>5. RecordIsPlain(new, r)
      BY <3>2, <3>3, <3>4 DEF RecordIsPlain
    <3> QED
      BY <3>1, <3>4, <3>5 DEF row
  <2> QED
    BY <2>2, <2>3 DEF SameRecords
<1>3. SameReferences(reference, reference')
  BY <1>1 DEF ReferencesOK, SameReferences
<1>4. SameEvents(event, event')
  <2>1. event' = [key \in DOMAIN event |->
                    IF \E r \in DOMAIN record : record[r].event = key
                    THEN Replanned(key) ELSE event[key]]
    BY DEF Reprocess
  <2>2. ASSUME NEW key \in DOMAIN event
        PROVE  SameEvent(event[key], event'[key], key)
    <3>1. CASE \E r \in DOMAIN record : record[r].event = key
      <4>1. event'[key] = Replanned(key)
        BY <2>1, <3>1
      <4> QED
        BY <3>1, <4>1, ReplannedSame
    <3>2. CASE ~\E r \in DOMAIN record : record[r].event = key
      <4>1. event'[key] = event[key]
        BY <2>1, <3>2
      <4>2. EventIsPlain(event[key], key)
        BY DEF FeedsInv, StoreOK, EventsOK
      <4> QED
        BY <4>1, <4>2 DEF SameEvent
    <3> QED
      BY <3>1, <3>2
  <2>3. DOMAIN event' = DOMAIN event
    BY <2>1
  <2> QED
    BY <2>2, <2>3 DEF SameEvents
<1>5. StoreOK(record, event, reference)
  BY DEF FeedsInv
<1> QED
  BY <1>2, <1>3, <1>4, <1>5, Rewritten DEF Stays

LEMMA SourceKeeps ==
    ASSUME FeedsInv, NEW s, NEW feed \in Feeds(s), NEW since, NEW saving,
           SyncSource(s, feed, since, saving)
    PROVE  Stays
<1> DEFINE start == IF since # None THEN since
                    ELSE IF read[s] = None THEN 0 ELSE read[s] - DayLength
           articles == {a \in feed : posted[a] >= start /\ Matched(a, saving)}
<1>1. /\ event' = IngestAll(articles).event /\ reference' = IngestAll(articles).reference
      /\ record' = record
  BY DEF SyncSource
<1>2. articles \in SUBSET Articles
  BY DEF Feeds
<1> HIDE DEF articles
<1>3. NewsOK(IngestAll(articles)) /\ Follows(event, IngestAll(articles).event)
  BY <1>2, IngestAllKeeps DEF FeedsInv
<1> QED
  BY <1>1, <1>3 DEF NewsOK, Stays

LEMMA LinkKeeps ==
    ASSUME FeedsInv, NEW a \in Articles, NEW material, NEW summary,
           ImportLink(a, material, summary)
    PROVE  Stays
<1> DEFINE published == IF posted[a] = 0 THEN now ELSE posted[a]
           b == IngestArticle(NewsBooks, a, published, TRUE)
           key == ArticleKey(a)
           said == IF summary = None THEN Article[a].claim ELSE summary
           changed == IF material THEN published ELSE b.event[key].changed
           e == [b.event[key] EXCEPT !.summary = said, !.material = material,
                                     !.changed = changed]
           row == [b.reference[a] EXCEPT !.material = material]
<1>1. /\ DOMAIN NewsBooks = {"event", "reference"}
      /\ NewsBooks.event = event /\ NewsBooks.reference = reference
  BY DEF NewsBooks
<1>2. published \in Int
  BY DEF FeedsInv, PostedOK
<1>3. ~Known(NewsBooks.reference, a, TRUE)
  BY <1>1 DEF ImportLink, LinkImportable
<1>4. NewsOK(NewsBooks)
  BY <1>1 DEF NewsOK, FeedsInv
<1>5. reference' = [b.reference EXCEPT ![a].material = material] /\ record' = record
  BY DEF ImportLink
<1>6. event' = [b.event EXCEPT ![key].summary = said, ![key].material = material,
                               ![key].changed = IF material THEN published ELSE @]
  BY DEF ImportLink
<1> HIDE DEF published
<1>7. NewsOK(b) /\ Follows(event, b.event) /\ Stored(b, a)
  BY <1>1, <1>2, <1>3, <1>4, IngestKeeps
<1> HIDE DEF b, said
<1>8. a \in DOMAIN b.reference /\ key \in DOMAIN b.event
  BY <1>7 DEF Stored
<1> HIDE DEF key
<1>9. /\ StoreOK(record, b.event, b.reference)
      /\ RecordsOK(record, b.event) /\ ReferencesOK(b.reference, b.event)
      /\ \A k \in DOMAIN b.event : EventIsPlain(b.event[k], k)
  BY <1>7 DEF NewsOK, StoreOK, EventsOK
<1>10. SameReferences(b.reference, reference')
  <2>1. ReferenceIsPlain(b.reference[a], a)
    BY <1>8, <1>9 DEF ReferencesOK
  <2>2. DOMAIN row = ReferenceColumns
    BY <2>1 DEF ReferenceIsPlain
  <2>3. /\ row.event = b.reference[a].event /\ row.origin = b.reference[a].origin
        /\ row.independent = b.reference[a].independent
        /\ row.manual = b.reference[a].manual
    BY <2>1 DEF ReferenceIsPlain, ReferenceColumns
  <2>4. DOMAIN reference' = DOMAIN b.reference /\ reference'[a] = row
    BY <1>5, <1>8
  <2>5. \A q \in DOMAIN b.reference : q # a => reference'[q] = b.reference[q]
    BY <1>5
  <2> HIDE DEF row
  <2>6. ReferenceIsPlain(row, a)
    BY <2>1, <2>2, <2>3 DEF ReferenceIsPlain
  <2>7. ASSUME NEW q \in DOMAIN b.reference
        PROVE  /\ ReferenceIsPlain(reference'[q], q)
               /\ reference'[q].event = b.reference[q].event
               /\ reference'[q].origin = b.reference[q].origin
               /\ reference'[q].independent = b.reference[q].independent
               /\ reference'[q].manual = b.reference[q].manual
    <3>1. CASE q = a
      BY <2>3, <2>4, <2>6, <3>1
    <3>2. CASE q # a
      BY <1>9, <2>5, <3>2 DEF ReferencesOK
    <3> QED
      BY <3>1, <3>2
  <2> QED
    BY <2>4, <2>7 DEF SameReferences
<1>11. SameEvents(b.event, event')
  <2> DEFINE old == b.event[key]
  <2>1. EventIsPlain(old, key)
    BY <1>8, <1>9
  <2>2. event' = [b.event EXCEPT ![key] = e]
    BY <1>6, <1>8, <2>1 DEF EventIsPlain, EventColumns
  <2>3. DOMAIN e = EventColumns
    BY <2>1 DEF EventIsPlain
  <2>4. e.sources = old.sources /\ e.official = old.official
    BY <2>1 DEF EventIsPlain, EventColumns
  <2>5. e.news = old.news /\ e.origins = old.origins /\ e.type = old.type
    BY <2>1 DEF EventIsPlain, EventColumns
  <2>6. e.verification = old.verification /\ e.lifecycle = old.lifecycle
    BY <2>1 DEF EventIsPlain, EventColumns
  <2> HIDE DEF e
  <2>7. DOMAIN event' = DOMAIN b.event /\ event'[key] = e
    BY <1>8, <2>2
  <2>8. \A k \in DOMAIN b.event : k # key => event'[k] = b.event[k]
    BY <2>2
  <2> HIDE DEF old
  <2>9. EventIsPlain(e, key)
    BY <2>1, <2>3, <2>4, <2>5, <2>6 DEF EventIsPlain
  <2>10. SameEvent(old, e, key)
    BY <2>4, <2>5, <2>6, <2>9 DEF SameEvent
  <2>11. ASSUME NEW k \in DOMAIN b.event
         PROVE  SameEvent(b.event[k], event'[k], k)
    <3>1. CASE k = key
      BY <2>7, <2>10, <3>1 DEF old
    <3>2. CASE k # key
      BY <1>9, <2>8, <3>2 DEF SameEvent
    <3> QED
      BY <3>1, <3>2
  <2> QED
    BY <2>7, <2>11 DEF SameEvents
<1>12. SameRecords(record, record)
  BY <1>9 DEF RecordsOK, SameRecords
<1>13. StoreOK(record, event', reference') /\ Follows(b.event, event')
  BY <1>9, <1>10, <1>11, <1>12, Rewritten
<1>14. Follows(event, event')
  BY <1>7, <1>13, FollowsIsTransitive
<1> QED
  BY <1>5, <1>13, <1>14 DEF Stays

\* A step that leaves the stored documents and the events alone.
LEMMA Untouched ==
    ASSUME FeedsInv, UNCHANGED <<record, event, reference>>
    PROVE  Stays
BY FollowsItself DEF FeedsInv, Stays

LEMMA FeedsStep ==
    ASSUME FeedsInv, [Next]_vars
    PROVE  FeedsInv' /\ Follows(event, event')
<1> DEFINE Times == now' \in Nat /\ FiledOK' /\ PostedOK'
<1>1. now \in Nat /\ FiledOK /\ PostedOK
  BY DEF FeedsInv
<1>2. UNCHANGED <<now, filed, posted>> => Times
  BY <1>1 DEF FiledOK, PostedOK
<1>3. ASSUME FeedCommand, UNCHANGED newsVars
      PROVE  Times /\ Stays
  <2>1. reference' = reference /\ posted' = posted
    BY <1>3 DEF newsVars
  <2>2. CASE Reprocess
    <3>1. UNCHANGED <<now, filed, posted>>
      BY <2>1, <2>2 DEF Reprocess
    <3> QED
      BY <1>2, <2>1, <2>2, <3>1, ReprocessKeeps
  <2>3. CASE ~Reprocess
    <3>1. PICK p \in Providers, since \in {None, now}, limit \in Limits,
               named \in {Companies} \cup {{c} : c \in Companies}, failing \in SUBSET Companies :
                  Sync(p, since, limit, named, failing)
      BY <1>3, <2>3, Zenon DEF FeedCommand
    <3>2. UNCHANGED <<now, filed, posted>>
      BY <2>1, <3>1 DEF Sync
    <3>3. Stays
      BY <2>1, <3>1, SyncKeeps
    <3> QED
      BY <1>2, <3>2, <3>3
  <2> QED
    BY <2>2, <2>3
<1>4. ASSUME FeedRequest, UNCHANGED newsVars
      PROVE  Times /\ Stays
  <2>1. reference' = reference /\ posted' = posted
    BY <1>4 DEF newsVars
  <2>2. PICK d \in Documents, identity \in Identities, material \in BOOLEAN,
             summary \in {Noted, None} : Import(d, identity, material, summary)
    BY <1>4 DEF FeedRequest
  <2>3. UNCHANGED <<now, filed, posted>>
    BY <2>1, <2>2 DEF Import
  <2> QED
    BY <1>2, <2>1, <2>2, <2>3, ImportKeeps
<1>5. ASSUME NEW d \in Documents, File(d), UNCHANGED newsVars
      PROVE  Times /\ Stays
  <2>1. UNCHANGED <<record, event, reference, now, posted>>
    BY <1>5 DEF File, newsVars
  <2>2. filed' = [filed EXCEPT ![d] = now]
    BY <1>5 DEF File
  <2>3. Times
    BY <1>1, <2>1, <2>2 DEF FiledOK, PostedOK
  <2> QED
    BY <2>1, <2>3, Untouched
<1>6. ASSUME NEW c \in Companies, NEW state \in ItemStates, Relist(c, state), UNCHANGED newsVars
      PROVE  Times /\ Stays
  <2>1. UNCHANGED <<record, event, reference, now, filed, posted>>
    BY <1>6 DEF Relist, newsVars
  <2> QED
    BY <1>2, <2>1, Untouched
<1>7. ASSUME Pass, UNCHANGED newsVars
      PROVE  Times /\ Stays
  <2>1. UNCHANGED <<record, event, reference, filed, posted>> /\ now' = now + 1
    BY <1>7 DEF Pass, newsVars
  <2>2. Times
    BY <1>1, <2>1 DEF FiledOK, PostedOK
  <2> QED
    BY <2>1, <2>2, Untouched
<1>8. ASSUME NEW s, NEW since, NEW saving, NEW feed \in Feeds(s),
             SyncSource(s, feed, since, saving)
      PROVE  Times /\ Stays
  <2>1. UNCHANGED <<now, filed, posted>>
    BY <1>8 DEF SyncSource
  <2> QED
    BY <1>2, <1>8, <2>1, SourceKeeps
<1>9. ASSUME NEW a \in Articles, NEW material, NEW summary, ImportLink(a, material, summary)
      PROVE  Times /\ Stays
  <2>1. UNCHANGED <<now, filed, posted>>
    BY <1>9 DEF ImportLink
  <2> QED
    BY <1>2, <1>9, <2>1, LinkKeeps
<1>10. ASSUME NEW a \in Articles, NEW published \in 1 .. now, Publish(a, published)
       PROVE  Times /\ Stays
  <2>1. UNCHANGED <<record, event, reference, now, filed>>
    BY <1>10 DEF Publish
  <2>2. posted' = [posted EXCEPT ![a] = published]
    BY <1>10 DEF Publish
  <2>3. Times
    BY <1>1, <2>1, <2>2 DEF FiledOK, PostedOK
  <2> QED
    BY <2>1, <2>3, Untouched
<1>11. ASSUME UNCHANGED vars
       PROVE  Times /\ Stays
  <2>1. UNCHANGED <<record, event, reference, now, filed, posted>>
    BY <1>11 DEF vars
  <2> QED
    BY <1>2, <2>1, Untouched
<1> HIDE DEF Times
<1>12. ASSUME FeedNext, UNCHANGED newsVars
       PROVE  Times /\ Stays
  BY <1>3, <1>4, <1>5, <1>6, <1>7, <1>12, Zenon DEF FeedNext
<1>13. ASSUME NewsNext
       PROVE  Times /\ Stays
  BY <1>8, <1>9, <1>10, <1>13, Zenon DEF NewsNext
<1>14. Times /\ Stays
  BY <1>11, <1>12, <1>13 DEF Next
<1> QED
  BY <1>14 DEF Times, Stays, FeedsInv

LEMMA FeedsInvariant == Spec => []FeedsInv
<1>1. FeedsInv /\ [Next]_vars => FeedsInv'
  BY FeedsStep
<1> QED
  BY <1>1, FeedsStart, PTL DEF Spec

-----------------------------------------------------------------------------
(* What lies behind the cursors.                                           *)

\* A day begins no more than its length before any of its times.
LEMMA DayBegins ==
    ASSUME NEW a \in Nat, NEW D \in Nat \ {0}
    PROVE  D * (a \div D) <= a /\ a < D * (a \div D) + D /\ D * (a \div D) >= 0
<1>1. a \div D \in Nat
  BY SMT
<1>2. D * (a \div D) <= a
  BY SMT
<1>3. a < D * (a \div D) + D
  BY SMT
<1>4. D * (a \div D) >= 0
  BY <1>1, SMT
<1> QED
  BY <1>2, <1>3, <1>4

\* A filing is dated less than a day before it is listed.
LEMMA PublishedNearFiled ==
    ASSUME FiledOK, NEW d \in Documents
    PROVE  /\ Published(d) \in Int /\ Published(d) >= 0
           /\ filed[d] \in Nat /\ DayLength \in Nat /\ filed[d] < Published(d) + DayLength
<1>1. DayLength \in Nat \ {0} /\ Shift \in Nat
  BY FeedAssumption
<1>2. filed[d] \in Nat /\ Published(d) \in Int
  BY PublishedIsInt DEF FiledOK
<1> DEFINE a == filed[d] + Shift
           day == DayLength * (a \div DayLength)
<1>3. a \in Nat /\ filed[d] <= a
  BY <1>1, <1>2
<1> HIDE DEF a
<1>4. a < day + DayLength /\ day >= 0
  BY <1>1, <1>3, DayBegins
<1> HIDE DEF day
<1>5. Published(d) \in {day, filed[d]}
  BY DEF Published, day, a
<1>6. CASE Published(d) = day
  BY <1>1, <1>2, <1>3, <1>4, <1>6
<1>7. CASE Published(d) = filed[d]
  BY <1>1, <1>2, <1>7
<1> QED
  BY <1>5, <1>6, <1>7

\* The clock is not behind the cursors and the filings.
Times ==
    /\ cursor = [p \in Providers |-> cursor[p]]
    /\ \A p \in Providers : cursor[p] # None => cursor[p] \in Nat /\ cursor[p] <= now
    /\ \A d \in Documents : filed[d] <= now

MissedInv == Times /\ NothingMissed

\* What a run that moves the cursor has not read was listed before the cursor that
\* was there, because a run begins a day before it and a filing is dated less than
\* a day before it is listed.
LEMMA SyncMisses ==
    ASSUME FeedsInv, MissedInv, NEW p \in Providers, NEW since \in {None, now}, NEW limit,
           NEW named, NEW failing, Sync(p, since, limit, named, failing)
    PROVE  MissedInv' /\ DOMAIN record \subseteq DOMAIN record'
<1> DEFINE start == Start(p, since)
           run == Run(p, start, limit, named, failing)
<1>1. /\ record' = run.books.record /\ UNCHANGED <<now, filed>>
      /\ cursor' = [cursor EXCEPT ![p] = IF run.read THEN now ELSE @]
      /\ unread' = IF ~run.read THEN unread
                   ELSE unread \cup (Of(p) \ (IF since = None THEN run.whole ELSE {}))
  BY DEF Sync
<1>2. RunOK(run, start)
  BY RunKeeps DEF FeedsInv
<1>3. /\ DOMAIN record \subseteq DOMAIN record' /\ run.read \in BOOLEAN
      /\ \A c \in run.whole, d \in Documents :
            d \in Listed(c) /\ InWindow(d, start) => <<d, "number">> \in DOMAIN record'
  BY <1>1, <1>2 DEF RunOK
<1>4. now \in Nat /\ FiledOK
  BY DEF FeedsInv
<1> HIDE DEF run, start
<1>5. \A q \in Providers : cursor'[q] = IF q = p /\ run.read THEN now ELSE cursor[q]
  BY <1>1 DEF MissedInv, Times
<1>6. Times'
  BY <1>1, <1>4, <1>5 DEF MissedInv, Times
<1>7. ASSUME NEW d \in Documents
      PROVE  Published(d)' = Published(d)
  BY <1>1 DEF Published
<1>8. NothingMissed'
  <2> SUFFICES ASSUME NEW d \in Documents, filed[d] # 0, CompanyOf(d) \notin unread',
                      cursor'[ProviderOf[CompanyOf(d)]] # None,
                      filed[d] < cursor'[ProviderOf[CompanyOf(d)]],
                      Published(d) <= cursor'[ProviderOf[CompanyOf(d)]]
               PROVE  <<d, "number">> \in DOMAIN record'
    BY <1>1, <1>7 DEF NothingMissed
  <2> DEFINE c == CompanyOf(d)
             q == ProviderOf[c]
  <2>1. c \in Companies /\ q \in Providers
    BY FilingsAssumption, FeedAssumption DEF CompanyOf, Providers
  <2>2. c \notin unread
    BY <1>1
  <2>3. cursor[q] # None /\ filed[d] < cursor[q] /\ Published(d) <= cursor[q]
        => <<d, "number">> \in DOMAIN record'
    BY <1>3, <2>2 DEF MissedInv, NothingMissed
  <2>4. CASE ~(q = p /\ run.read)
    BY <1>5, <2>1, <2>3, <2>4
  <2>5. CASE q = p /\ run.read
    <3>1. c \in Of(p)
      BY <2>1, <2>5 DEF Of
    <3>2. since = None /\ c \in run.whole
      BY <1>1, <2>5, <3>1
    <3>3. start = IF cursor[p] = None THEN 0 ELSE cursor[p] - DayLength
      BY <3>2 DEF start, Start
    <3>4. /\ Published(d) \in Int /\ Published(d) >= 0 /\ Published(d) <= now
          /\ filed[d] \in Nat /\ DayLength \in Nat /\ filed[d] < Published(d) + DayLength
      BY <1>4, <1>5, <2>1, <2>5, PublishedNearFiled
    <3>5. CASE start <= Published(d)
      <4>1. d \in Listed(c) /\ InWindow(d, start)
        BY <3>4, <3>5 DEF Listed, InWindow
      <4> QED
        BY <1>3, <3>2, <4>1
    <3>6. CASE ~(start <= Published(d))
      <4>1. cursor[p] # None /\ cursor[p] \in Nat
        BY <3>3, <3>4, <3>6 DEF MissedInv, Times
      <4>2. filed[d] < cursor[p] /\ Published(d) <= cursor[p]
        BY <3>3, <3>4, <3>6, <4>1
      <4> QED
        BY <2>3, <2>5, <4>1, <4>2
    <3> QED
      BY <3>5, <3>6
  <2> QED
    BY <2>4, <2>5
<1> QED
  BY <1>3, <1>6, <1>8 DEF MissedInv

\* What is stored stays stored; steps that leave cursors and filings miss nothing.
LEMMA MissesNoMore ==
    ASSUME FeedsInv, MissedInv, DOMAIN record \subseteq DOMAIN record',
           UNCHANGED <<filed, cursor, unread>>, now' \in Nat, now <= now'
    PROVE  MissedInv'
<1>1. now \in Nat /\ \A d \in Documents : filed[d] \in Nat /\ Published(d)' = Published(d)
  BY DEF FeedsInv, FiledOK, Published
<1>2. Times'
  BY <1>1 DEF MissedInv, Times
<1>3. NothingMissed'
  BY <1>1 DEF MissedInv, NothingMissed
<1> QED
  BY <1>2, <1>3 DEF MissedInv

LEMMA MissedStep == FeedsInv /\ MissedInv /\ [Next]_vars => MissedInv'
<1> SUFFICES ASSUME FeedsInv, MissedInv, [Next]_vars PROVE MissedInv'
  OBVIOUS
<1>1. now \in Nat
  BY DEF FeedsInv
<1>2. CASE UNCHANGED vars
  BY <1>1, <1>2, MissesNoMore DEF vars
<1>3. CASE NewsNext
  <2>1. UNCHANGED <<record, filed, cursor, unread, now>>
    BY <1>3 DEF NewsNext, SyncSource, ImportLink, Publish
  <2> QED
    BY <1>1, <2>1, MissesNoMore
<1>4. CASE FeedCommand
  <2>1. CASE Reprocess
    <3>1. DOMAIN record' = DOMAIN record /\ UNCHANGED <<filed, cursor, unread, now>>
      BY <2>1 DEF Reprocess
    <3> QED
      BY <1>1, <3>1, MissesNoMore
  <2>2. CASE ~Reprocess
    <3>1. PICK p \in Providers, since \in {None, now}, limit \in Limits,
               named \in {Companies} \cup {{c} : c \in Companies}, failing \in SUBSET Companies :
                  Sync(p, since, limit, named, failing)
      BY <1>4, <2>2, Zenon DEF FeedCommand
    <3> QED
      BY <3>1, SyncMisses
  <2> QED
    BY <2>1, <2>2
<1>5. CASE FeedRequest
  <2>1. PICK d \in Documents, identity \in Identities, material \in BOOLEAN,
             summary \in {Noted, None} : Import(d, identity, material, summary)
    BY <1>5 DEF FeedRequest
  <2> DEFINE id == <<d, identity>>
             text == [type |-> "OFFICIAL_DISCLOSURE", claim |-> Noted, summary |-> summary,
                      denied |-> FALSE, material |-> material]
  <2>2. /\ id \notin DOMAIN record /\ record' = Ingest(Books, id, text, None).record
        /\ UNCHANGED <<filed, cursor, unread, now>>
    BY <2>1 DEF Import, Importable
  <2>3. DOMAIN Books = {"record", "event"} /\ Books.record = record
    BY DEF Books
  <2> HIDE DEF id, text
  <2>4. Ingest(Books, id, text, None) = Enter(Books, id, text, None)
    BY <2>2, <2>3 DEF Ingest
  <2>5. \E row : Enter(Books, id, text, None).record = Put(record, id, row)
    BY <2>3 DEF Enter
  <2>6. DOMAIN record \subseteq DOMAIN record'
    BY <2>2, <2>4, <2>5 DEF Put
  <2> QED
    BY <1>1, <2>2, <2>6, MissesNoMore
<1>6. ASSUME NEW d \in Documents, File(d) PROVE MissedInv'
  <2>1. UNCHANGED <<now, record, cursor, unread>> /\ filed' = [filed EXCEPT ![d] = now]
    BY <1>6 DEF File
  <2>2. \A e \in Documents : filed'[e] = IF e = d THEN now ELSE filed[e]
    BY <2>1 DEF FeedsInv, FiledOK
  <2>3. Times'
    BY <1>1, <2>1, <2>2 DEF MissedInv, Times
  <2>4. NothingMissed'
    <3> SUFFICES ASSUME NEW e \in Documents, filed'[e] # 0, CompanyOf(e) \notin unread,
                        cursor[ProviderOf[CompanyOf(e)]] # None,
                        filed'[e] < cursor[ProviderOf[CompanyOf(e)]],
                        Published(e)' <= cursor[ProviderOf[CompanyOf(e)]]
                 PROVE  <<e, "number">> \in DOMAIN record
      BY <2>1 DEF NothingMissed
    <3> DEFINE q == ProviderOf[CompanyOf(e)]
    <3>1. q \in Providers
      BY FilingsAssumption, FeedAssumption DEF CompanyOf, Providers
    <3>2. cursor[q] \in Nat /\ cursor[q] <= now
      BY <3>1 DEF MissedInv, Times
    <3>3. e # d
      BY <1>1, <2>2, <3>2
    <3>4. filed'[e] = filed[e] /\ Published(e)' = Published(e)
      BY <2>2, <3>3 DEF Published
    <3> QED
      BY <3>4 DEF MissedInv, NothingMissed
  <2> QED
    BY <2>3, <2>4 DEF MissedInv
<1>7. ASSUME NEW c \in Companies, NEW state \in ItemStates, Relist(c, state) PROVE MissedInv'
  BY <1>1, <1>7, MissesNoMore DEF Relist
<1>8. CASE Pass
  BY <1>1, <1>8, MissesNoMore DEF Pass
<1> QED
  BY <1>2, <1>3, <1>4, <1>5, <1>6, <1>7, <1>8, Zenon DEF Next, FeedNext

-----------------------------------------------------------------------------
\* Behind the cursor of a provider no filing is lost of a company that every run has
\* read in full, for any companies, filings, limits, times and failures: a run begins
\* a day before the cursor (sync of disclosure_sync.py), which is what a filing's
\* date may lie behind the moment it is listed.
THEOREM FilingsAreNotMissed == Spec => []NothingMissed
<1>1. Init => MissedInv
  <2> SUFFICES ASSUME Init PROVE MissedInv
    OBVIOUS
  <2>1. /\ now = 1 /\ cursor = [p \in Providers |-> None]
        /\ \A d \in Documents : filed[d] = 0
    BY DEF Init, FeedInit
  <2> QED
    BY <2>1 DEF MissedInv, Times, NothingMissed
<1>2. MissedInv => NothingMissed
  BY DEF MissedInv
<1> QED
  BY <1>1, <1>2, FeedsInvariant, MissedStep, PTL DEF Spec

\* The counters an event shows agree with what is stored of it, for any filings,
\* articles, feeds and order of the runs, imports and reprocessings: ingest of
\* disclosures.py and news.py adds one to the counters with every row it inserts
\* and with no other.
THEOREM CountersAgree == Spec => []CountsAgree
<1>1. FeedsInv => CountsAgree
  <2> SUFFICES ASSUME FeedsInv, NEW key \in DOMAIN event
               PROVE  LET arts == ReferencesOf(key)
                          origins == {reference[a].origin : a \in arts}
                      IN  /\ event[key].sources = Cardinality(RecordsOf(key)) + Cardinality(arts)
                          /\ event[key].news = Cardinality(arts)
                          /\ event[key].official >= Cardinality(RecordsOf(key))
                          /\ event[key].origins = Cardinality(origins)
                          /\ \A o \in origins :
                                Cardinality({a \in arts : reference[a].origin = o
                                                            /\ reference[a].independent}) = 1
    BY DEF CountsAgree
  <2>1. Counted(record, event[key], reference, key)
    BY DEF FeedsInv, StoreOK, EventsOK
  <2> QED
    BY <2>1 DEF Counted, RecordsOf, ReferencesOf, Recs, Arts, OriginsOf, FirstsOf
<1> QED
  BY <1>1, FeedsInvariant, PTL

\* What an event of the news is confirmed by is stored beside it, for any filings
\* and articles: the standing that ingest of news.py gives is one that the origins
\* of the event, the source of one of its articles or a filing justifies, and stays
\* so when later articles, runs and reprocessings rewrite the event.
THEOREM ConfirmationsAreBacked == Spec => []ConfirmationIsBacked
<1>1. FeedsInv => ConfirmationIsBacked
  <2> SUFFICES ASSUME FeedsInv, NEW key \in DOMAIN event
               PROVE  LET arts == ReferencesOf(key) IN
                      /\ event[key].verification = "MULTI_SOURCE_CONFIRMED" =>
                            Cardinality({reference[a].origin : a \in arts}) > 1
                      /\ event[key].type = "NEWS"
                            /\ event[key].verification = "OFFICIAL_CONFIRMED" =>
                            \E a \in arts :
                               \/ Source[IF reference[a].manual THEN Article[a].manual
                                         ELSE Article[a].source].official
                               \/ \E r \in DOMAIN record : <<a, r[1]>> \in About
    BY DEF ConfirmationIsBacked
  <2>1. Backed(record, event[key], reference, key)
    BY DEF FeedsInv, StoreOK, EventsOK
  <2> QED
    BY <2>1 DEF Backed, SpokenFor, ReferencesOf, Arts, OriginsOf
<1> QED
  BY <1>1, FeedsInvariant, PTL

\* Whether an event counts as corrected, denied, updated or confirmed changes with
\* a document that is new to it only, however often a run reads its filings again
\* (the second branch of ingest in disclosures.py) or reprocess_existing rewrites
\* them.
THEOREM StatesNeedDocuments == Spec => StateNeedsDocument
<1>1. FeedsInv /\ [Next]_vars =>
        [\A key \in DOMAIN event :
            <<event'[key].lifecycle, event'[key].verification>>
               # <<event[key].lifecycle, event[key].verification>>
            => event'[key].sources > event[key].sources]_vars
  <2> SUFFICES ASSUME FeedsInv, [Next]_vars, NEW key \in DOMAIN event,
                      <<event'[key].lifecycle, event'[key].verification>>
                         # <<event[key].lifecycle, event[key].verification>>
               PROVE  event'[key].sources > event[key].sources
    OBVIOUS
  <2>1. Follows(event, event')
    BY FeedsStep
  <2> QED
    BY <2>1 DEF Follows, Moved
<1> QED
  BY <1>1, FeedsInvariant, PTL DEF Spec, StateNeedsDocument
=============================================================================
