------------------------ MODULE CandidateReviewProofs ------------------------
(***************************************************************************)
(* What CandidateReview promises, for every set of requests, items,        *)
(* addresses and dates, every listing and every creation limit.            *)
(*                                                                         *)
(* The argument: a transaction that writes holds the row of its candidate  *)
(* (Exclusive), so the status it compared stays until it commits           *)
(* (Consistent), and every commit is a decision on the status of its       *)
(* moment.                                                                 *)
(***************************************************************************)
EXTENDS CandidateReview, TLAPS, FiniteSetTheorems, WellFoundedInduction

\* At most one transaction writes a candidate.
Exclusive ==
    \A r, s \in Requests :
        r # s /\ Writes(r) /\ Writes(s) => request[r].item # request[s].item

\* The reference a promotion makes.
Made(t) == [url |-> t.reference, item |-> t.item, date |-> t.date, by |-> "review"]

\* What a transaction holds, by itself.
Sound(t) ==
    /\ t.from \in Expected(t.action)
    /\ t.action \in {"VERIFY_DATE", "PROMOTE"} => t.date \in Dates
    /\ t.action = "PROMOTE" => t.url \in Urls
    /\ t.action # "PROMOTE" => t.at \in {"read", "written"}
    /\ IF t.action = "PROMOTE" /\ t.at = "written"
       THEN t.reference \in Urls /\ t.made \subseteq {Made(t)}
       ELSE t.reference = None /\ t.made = {}

\* What it holds about the committed rows.
Consistent(t) ==
    LET row == candidate[t.item] IN
    /\ t.at \in {"swapped", "looked", "written"} => row.status = t.from
    /\ t.action = "PROMOTE" =>
          row.status \in {"DATE_VERIFIED", "PROMOTED", "DISMISSED"} /\ row.date = t.date
    /\ t.action = "PROMOTE" /\ t.at = "written" /\ t.made = {} =>
          SameUrl(references, t.reference) # {}

RequestsSound ==
    \A r \in Requests : request[r].at # "idle" => Sound(request[r]) /\ Consistent(request[r])

RowsSound ==
    \A i \in Items :
        LET row == candidate[i] IN
        /\ row.status = "ABSENT" => history[i] = <<>>
        /\ row.status # "ABSENT" => row.url \in Urls
        /\ row.status \in {"ABSENT", "DATE_UNVERIFIED"} => row.date = Undated
        /\ row.status = "DATE_VERIFIED" => row.date \in Dates

IInv ==
    /\ TypeOK
    /\ Exclusive
    /\ RequestsSound
    /\ RowsSound
    /\ HistoryExplains
    /\ PromotionIsWhole

-----------------------------------------------------------------------------
(* The initial states.                                                     *)

\* Staging keeps rows typed, and changes only the status of a row that was
\* absent, and the address.
LEMMA StagedFacts ==
  ASSUME NEW undated \in SUBSET Entry, NEW rows \in [Items -> Candidate]
  PROVE  /\ Staged(undated, rows) \in [Items -> Candidate]
         /\ \A i \in Items :
              LET new == Staged(undated, rows)[i] IN
              /\ new.date = rows[i].date /\ new.reference = rows[i].reference
              /\ new = rows[i] \/ new.url \in Urls
              /\ new.status = rows[i].status
                   \/ (rows[i].status = "ABSENT" /\ new.status = "DATE_UNVERIFIED")
              /\ rows[i].status # "ABSENT" /\ rows[i].url \in Urls => new.url \in Urls
              /\ new.status # "ABSENT" /\ rows[i].status = "ABSENT" => new.url \in Urls
<1>1. ASSUME NEW i \in Items, i \in Listed(undated)
      PROVE  EntryOf(undated, i).url \in Urls
  <2>1. PICK e \in undated : e.item = i
    BY <1>1 DEF Listed
  <2>2. EntryOf(undated, i) \in undated
    BY <2>1 DEF EntryOf
  <2> QED
    BY <2>2 DEF Entry
<1>2. ASSUME NEW i \in Items
      PROVE  LET new == Staged(undated, rows)[i] IN
             /\ new \in Candidate
             /\ new.date = rows[i].date /\ new.reference = rows[i].reference
             /\ new = rows[i] \/ new.url \in Urls
             /\ new.status = rows[i].status
                  \/ (rows[i].status = "ABSENT" /\ new.status = "DATE_UNVERIFIED")
             /\ rows[i].status # "ABSENT" /\ rows[i].url \in Urls => new.url \in Urls
             /\ new.status # "ABSENT" /\ rows[i].status = "ABSENT" => new.url \in Urls
  <2>1. rows[i] \in Candidate
    OBVIOUS
  <2>2. CASE i \in Listed(undated)
    <3>1. Staged(undated, rows)[i] =
            [rows[i] EXCEPT !.status = IF @ = "ABSENT" THEN "DATE_UNVERIFIED" ELSE @,
                            !.url = EntryOf(undated, i).url]
      BY <2>2 DEF Staged
    <3> QED
      BY <1>1, <2>1, <2>2, <3>1 DEF Candidate, Status
  <2>3. CASE i \notin Listed(undated)
    <3>1. Staged(undated, rows)[i] = rows[i]
      BY <2>3 DEF Staged
    <3> QED
      BY <2>1, <3>1
  <2> QED
    BY <2>2, <2>3
<1>3. Staged(undated, rows) \in [Items -> Candidate]
  <2>1. \A i \in Items : Staged(undated, rows)[i] \in Candidate
    BY <1>2
  <2>2. Staged(undated, rows) = [i \in Items |-> Staged(undated, rows)[i]]
    BY DEF Staged
  <2> QED
    BY <2>1, <2>2
<1> QED
  BY <1>2, <1>3

LEMMA InitFacts == Init => IInv
<1> SUFFICES ASSUME Init PROVE IInv
  OBVIOUS
<1> DEFINE absent == [i \in Items |-> NoRow]
<1>1. PICK listing \in Listings : candidate = Staged({e \in listing : e.date = Undated}, absent)
  BY DEF Init
<1>2. absent \in [Items -> Candidate]
  BY DEF NoRow, Candidate, Status
<1>3. {e \in listing : e.date = Undated} \in SUBSET Entry
  BY ReviewAssumption
<1>4. candidate \in [Items -> Candidate]
  BY <1>1, <1>2, <1>3, StagedFacts
<1>5. \A i \in Items :
        /\ candidate[i].date = Undated /\ candidate[i].reference = None
        /\ candidate[i].status \in {"ABSENT", "DATE_UNVERIFIED"}
        /\ candidate[i].status # "ABSENT" => candidate[i].url \in Urls
  <2> SUFFICES ASSUME NEW i \in Items
               PROVE  /\ candidate[i].date = Undated /\ candidate[i].reference = None
                      /\ candidate[i].status \in {"ABSENT", "DATE_UNVERIFIED"}
                      /\ candidate[i].status # "ABSENT" => candidate[i].url \in Urls
    OBVIOUS
  <2>1. absent[i] = NoRow
    OBVIOUS
  <2>2. /\ NoRow.date = Undated /\ NoRow.reference = None /\ NoRow.status = "ABSENT"
        /\ absent[i].date = Undated /\ absent[i].reference = None
        /\ absent[i].status = "ABSENT"
    BY <2>1 DEF NoRow
  <2> HIDE DEF absent
  <2>3. LET new == candidate[i] IN
        /\ new.date = absent[i].date /\ new.reference = absent[i].reference
        /\ new.status = absent[i].status
             \/ (absent[i].status = "ABSENT" /\ new.status = "DATE_UNVERIFIED")
        /\ new.status # "ABSENT" /\ absent[i].status = "ABSENT" => new.url \in Urls
    BY <1>1, <1>2, <1>3, StagedFacts
  <2> QED
    BY <2>2, <2>3
<1>6. /\ references = {} /\ batch = None /\ enabled = TRUE /\ oneWriter \in BOOLEAN
      /\ \A i \in Items : history[i] = <<>>
      /\ \A r \in Requests : request[r] = Idle /\ request[r].at = "idle"
  BY DEF Init, Idle
<1>7. TypeOK
  <2>1. history \in [Items -> Seq(Review)]
    BY DEF Init
  <2>2. request \in [Requests -> Transaction \cup {Idle}]
    BY DEF Init
  <2>3. references \subseteq Reference /\ batch \in (SUBSET Entry) \cup {None}
    BY <1>6
  <2>4. enabled \in BOOLEAN /\ oneWriter \in BOOLEAN
    BY <1>6
  <2> QED
    BY <1>4, <2>1, <2>2, <2>3, <2>4, Zenon DEF TypeOK
<1>8. Exclusive /\ RequestsSound
  BY <1>6 DEF Exclusive, RequestsSound, Writes
<1>9. RowsSound
  BY <1>5, <1>6, ReviewAssumption DEF RowsSound
<1>10. HistoryExplains
  BY <1>5, <1>6 DEF HistoryExplains
<1>11. PromotionIsWhole
  BY <1>5, <1>6 DEF PromotionIsWhole
<1> QED
  BY <1>7, <1>8, <1>9, <1>10, <1>11 DEF IInv

-----------------------------------------------------------------------------
(* Steps of a transaction before it commits.                               *)

WritesAt == {"swapped", "looked", "written"}

\* A step that changes one transaction only, into one that is sound, and that
\* begins to write only if nobody else writes the candidate.
LEMMA LocalFacts ==
  ASSUME IInv, NEW r \in Requests, NEW t \in Transaction \cup {Idle}, Set(r, t),
         UNCHANGED <<candidate, history, references>>,
         t.at # "idle" => Sound(t) /\ Consistent(t),
         t.at \in WritesAt =>
            \/ Writes(r) /\ t.item = request[r].item
            \/ MayWrite(t.item, r)
  PROVE  IInv'
<1>1. /\ request' = [request EXCEPT ![r] = t]
      /\ request \in [Requests -> Transaction \cup {Idle}]
  BY DEF Set, IInv, TypeOK
<1>2. /\ request'[r] = t
      /\ \A s \in Requests : s # r => request'[s] = request[s]
  BY <1>1
<1>3. TypeOK'
  <2>1. request' \in [Requests -> Transaction \cup {Idle}]
    BY <1>1
  <2> QED
    BY <2>1 DEF IInv, TypeOK, Set
<1>4. Exclusive'
  <2> SUFFICES ASSUME NEW p \in Requests, NEW q \in Requests, p # q,
                      request'[p].at \in WritesAt, request'[q].at \in WritesAt
               PROVE  request'[p].item # request'[q].item
    BY DEF Exclusive, Writes, WritesAt
  <2>1. \A s \in Requests : s # r /\ request[s].at \in WritesAt /\ t.at \in WritesAt =>
            request[s].item # t.item
    BY DEF IInv, Exclusive, MayWrite, Writes, WritesAt
  <2>2. CASE p # r /\ q # r
    BY <1>2, <2>2 DEF IInv, Exclusive, Writes, WritesAt
  <2>3. CASE p = r \/ q = r
    BY <1>2, <2>1, <2>3
  <2> QED
    BY <2>2, <2>3
<1>5. RequestsSound'
  <2>1. \A s \in Requests : request'[s].at # "idle" =>
            Sound(request'[s]) /\ Consistent(request'[s])
    BY <1>2 DEF IInv, RequestsSound
  <2> QED
    BY <2>1 DEF RequestsSound, Consistent
<1>6. RowsSound' /\ HistoryExplains' /\ PromotionIsWhole'
  BY DEF IInv, RowsSound, HistoryExplains, PromotionIsWhole
<1> QED
  BY <1>3, <1>4, <1>5, <1>6 DEF IInv

LEMMA IdleFacts == Idle.at = "idle" /\ Idle \in Transaction \cup {Idle}
BY DEF Idle

LEMMA ReadFacts ==
  ASSUME IInv, NEW r \in Requests, NEW action \in Action, NEW i \in Items,
         NEW date \in Dates \cup {Undated}, Read(r, action, i, date)
  PROVE  IInv'
<1> DEFINE row == candidate[i]
           t == [at |-> "read", action |-> action, item |-> i, from |-> row.status,
                 date |-> date, url |-> IF action = "PROMOTE" THEN row.url ELSE None,
                 active |-> action = "PROMOTE" => enabled, reference |-> None, made |-> {}]
<1>1. /\ Set(r, t)
      /\ UNCHANGED <<candidate, history, references>>
      /\ row.status \in Expected(action)
      /\ action = "VERIFY_DATE" => date \in Dates
      /\ action = "PROMOTE" => date = row.date
  BY DEF Read
<1>2. row \in Candidate
  BY DEF IInv, TypeOK
<1>3. /\ row.status # "ABSENT" => row.url \in Urls
      /\ row.status = "DATE_VERIFIED" => row.date \in Dates
  BY DEF IInv, RowsSound
<1>4. action = "PROMOTE" => row.status = "DATE_VERIFIED"
  BY <1>1 DEF Expected
<1>5. t \in Transaction
  <2>1. t.active \in BOOLEAN
    BY DEF IInv, TypeOK
  <2>2. row.status \in Status /\ row.url \in Urls \cup {None}
    BY <1>2 DEF Candidate
  <2> QED
    BY <2>1, <2>2 DEF Transaction
<1>6. Sound(t) /\ Consistent(t)
  BY <1>1, <1>3, <1>4 DEF Sound, Consistent
<1>7. t.at \notin WritesAt
  BY DEF WritesAt
<1> HIDE DEF t
<1> QED
  BY <1>1, <1>5, <1>6, <1>7, LocalFacts

LEMMA SwapFacts ==
  ASSUME IInv, NEW r \in Requests, Swap(r)
  PROVE  IInv'
<1> DEFINE old == request[r]
           new == [old EXCEPT !.at = IF old.action = "PROMOTE" THEN "swapped" ELSE "written"]
<1>1. /\ old.at = "read" /\ MayWrite(old.item, r)
      /\ Set(r, IF candidate[old.item].status # old.from THEN Idle ELSE new)
      /\ UNCHANGED <<candidate, history, references>>
  BY DEF Swap
<1>2. old \in Transaction /\ Sound(old) /\ Consistent(old)
  BY <1>1 DEF IInv, TypeOK, RequestsSound, Idle
<1>3. CASE candidate[old.item].status # old.from
  <2>1. Set(r, Idle)
    BY <1>1, <1>3
  <2> QED
    BY <1>1, <2>1, IdleFacts, LocalFacts DEF WritesAt
<1>4. CASE candidate[old.item].status = old.from
  <2>1. Set(r, new)
    BY <1>1, <1>4
  <2>2. /\ new \in Transaction
        /\ new.at = IF old.action = "PROMOTE" THEN "swapped" ELSE "written"
        /\ new.action = old.action /\ new.item = old.item /\ new.from = old.from
        /\ new.date = old.date /\ new.url = old.url
        /\ new.reference = old.reference /\ new.made = old.made
    BY <1>2 DEF Transaction
  <2> HIDE DEF new, old
  <2>3. Sound(new) /\ Consistent(new)
    BY <1>1, <1>2, <1>4, <2>2 DEF Sound, Consistent
  <2> QED
    BY <1>1, <2>1, <2>2, <2>3, LocalFacts DEF old
<1> QED
  BY <1>3, <1>4

LEMMA LookupFacts ==
  ASSUME IInv, NEW r \in Requests, Lookup(r)
  PROVE  IInv'
<1> DEFINE old == request[r]
           found == Duplicate(references, old.item, old.url)
           looked == [old EXCEPT !.at = "looked"]
           met(ref) == [old EXCEPT !.at = "written", !.reference = ref.url]
<1>1. /\ old.at = "swapped"
      /\ UNCHANGED <<candidate, history, references>>
      /\ \/ Set(r, Idle)
         \/ \E ref \in found : Set(r, met(ref))
         \/ Set(r, looked)
  BY DEF Lookup
<1> HIDE DEF found, looked, met
<1>2. /\ old \in Transaction /\ Sound(old) /\ Consistent(old)
      /\ Writes(r) /\ old.action = "PROMOTE"
  BY <1>1 DEF IInv, TypeOK, RequestsSound, Idle, Sound, Writes
<1>3. CASE Set(r, Idle)
  BY <1>1, <1>3, IdleFacts, LocalFacts DEF WritesAt
<1>4. CASE Set(r, looked)
  <2> USE DEF looked
  <2>1. /\ looked \in Transaction /\ looked.at = "looked"
        /\ looked.action = old.action /\ looked.item = old.item /\ looked.from = old.from
        /\ looked.date = old.date /\ looked.url = old.url
        /\ looked.reference = old.reference /\ looked.made = old.made
    BY <1>2 DEF Transaction
  <2> HIDE DEF old, looked
  <2>2. Sound(looked) /\ Consistent(looked)
    BY <1>1, <1>2, <2>1 DEF Sound, Consistent
  <2> QED
    BY <1>1, <1>2, <1>4, <2>1, <2>2, LocalFacts DEF old
<1>5. CASE \E ref \in found : Set(r, met(ref))
  <2>1. PICK ref \in found : Set(r, met(ref))
    BY <1>5
  <2>2. ref \in references /\ references \subseteq Reference
    BY DEF found, Duplicate, SameItem, SameUrl, IInv, TypeOK
  <2>3. ref.url \in Urls
    BY <2>2 DEF Reference
  <2>4. SameUrl(references, ref.url) # {}
    BY <2>2 DEF SameUrl
  <2> USE DEF met
  <2> DEFINE new == met(ref)
  <2>5. /\ new \in Transaction /\ new.at = "written"
        /\ new.action = old.action /\ new.item = old.item /\ new.from = old.from
        /\ new.date = old.date /\ new.url = old.url
        /\ new.reference = ref.url /\ new.made = old.made
    BY <1>2, <2>3 DEF Transaction
  <2>6. Set(r, new)
    BY <2>1
  <2> HIDE DEF new, old
  <2>7. Sound(new) /\ Consistent(new)
    BY <1>1, <1>2, <2>3, <2>4, <2>5 DEF Sound, Consistent
  <2> QED
    BY <1>1, <1>2, <2>5, <2>6, <2>7, LocalFacts DEF old
<1> QED
  BY <1>1, <1>3, <1>4, <1>5

LEMMA InsertFacts ==
  ASSUME IInv, NEW r \in Requests, Insert(r)
  PROVE  IInv'
<1> DEFINE old == request[r]
           ref == [url |-> old.url, item |-> old.item, date |-> old.date, by |-> "review"]
           new == [old EXCEPT !.at = "written", !.reference = ref.url, !.made = {ref}]
<1>1. /\ old.at = "looked"
      /\ UNCHANGED <<candidate, history, references>>
      /\ Set(r, Idle) \/ Set(r, new)
  BY DEF Insert
<1>2. /\ old \in Transaction /\ Sound(old) /\ Consistent(old)
      /\ Writes(r) /\ old.action = "PROMOTE"
  BY <1>1 DEF IInv, TypeOK, RequestsSound, Idle, Sound, Writes
<1>3. CASE Set(r, Idle)
  BY <1>1, <1>3, IdleFacts, LocalFacts DEF WritesAt
<1>4. CASE Set(r, new)
  <2>1. old.url \in Urls /\ old.date \in Dates /\ old.item \in Items
    BY <1>2 DEF Sound, Transaction
  <2>2. ref \in Reference /\ ref.url = old.url
    BY <2>1 DEF Reference
  <2>3. /\ new \in Transaction /\ new.at = "written"
        /\ new.action = old.action /\ new.item = old.item /\ new.from = old.from
        /\ new.date = old.date /\ new.url = old.url
        /\ new.reference = old.url /\ new.made = {ref}
    <3> HIDE DEF ref
    <3> QED
      BY <1>2, <2>1, <2>2 DEF Transaction
  <2>4. ref = Made(new)
    BY <2>3 DEF Made
  <2> HIDE DEF new, old, ref
  <2>5. Sound(new) /\ Consistent(new)
    BY <1>1, <1>2, <2>1, <2>3, <2>4 DEF Sound, Consistent
  <2> QED
    BY <1>1, <1>2, <1>4, <2>3, <2>5, LocalFacts DEF old
<1> QED
  BY <1>1, <1>3, <1>4

LEMMA RollbackFacts ==
  ASSUME IInv, NEW r \in Requests, Rollback(r)
  PROVE  IInv'
BY IdleFacts, LocalFacts DEF Rollback, WritesAt

-----------------------------------------------------------------------------
(* The commit.                                                             *)

\* The row that a commit writes, and the rows it leaves alone.
LEMMA ReviewedFacts ==
  ASSUME TypeOK, NEW t \in Transaction, Sound(t)
  PROVE  /\ Reviewed(t) \in [Items -> Candidate]
         /\ \A j \in Items \ {t.item} : Reviewed(t)[j] = candidate[j]
         /\ LET row == candidate[t.item]
                new == Reviewed(t)[t.item]
            IN  /\ new.status = Outcome(t.action)
                /\ new.date = IF t.action = "VERIFY_DATE" THEN t.date ELSE row.date
                /\ new.reference = t.reference /\ new.url = row.url
<1> DEFINE row == candidate[t.item]
           new == [row EXCEPT !.status = Outcome(t.action),
                              !.date = IF t.action = "VERIFY_DATE" THEN t.date ELSE @,
                              !.reference = t.reference]
<1>1. row \in Candidate /\ t.item \in Items /\ candidate \in [Items -> Candidate]
  BY DEF TypeOK, Transaction
<1>2. Reviewed(t) = [candidate EXCEPT ![t.item] = new]
  BY <1>1 DEF Reviewed
<1>3. /\ t.action \in Action /\ t.date \in Dates \cup {Undated}
      /\ t.reference \in Urls \cup {None}
  BY DEF Transaction
<1>4. Outcome(t.action) \in Status
  BY <1>3 DEF Outcome, Action, Status
<1> HIDE DEF row
<1>5. /\ new \in Candidate
      /\ new.status = Outcome(t.action)
      /\ new.date = IF t.action = "VERIFY_DATE" THEN t.date ELSE row.date
      /\ new.reference = t.reference /\ new.url = row.url
  BY <1>1, <1>3, <1>4 DEF Candidate
<1> HIDE DEF new
<1> QED
  BY <1>1, <1>2, <1>5 DEF row

\* What a commit does to the row of its candidate.
LEMMA CommitEffect ==
  ASSUME IInv, NEW r \in Requests, Commit(r)
  PROVE  LET t == request[r]
             i == t.item
             row == candidate[i]
         IN  /\ t \in Transaction /\ t.action \in Action /\ i \in Items /\ Writes(r)
             /\ Sound(t) /\ Consistent(t) /\ TypeOK
             /\ candidate' \in [Items -> Candidate]
             /\ \A j \in Items \ {i} : candidate'[j] = candidate[j]
             /\ candidate'[i].status = Outcome(t.action)
             /\ candidate'[i].date = IF t.action = "VERIFY_DATE" THEN t.date ELSE row.date
             /\ candidate'[i].reference = t.reference /\ candidate'[i].url = row.url
             /\ row.status = t.from /\ t.from \in Expected(t.action)
             /\ t.action = "VERIFY_DATE" => t.date \in Dates
             /\ t.action = "PROMOTE" => row.date = t.date
             /\ IF t.action = "PROMOTE"
                THEN t.reference \in Urls /\ t.made \subseteq {Made(t)}
                ELSE t.reference = None /\ t.made = {}
             /\ t.action = "PROMOTE" /\ t.made = {} => SameUrl(references, t.reference) # {}
             /\ t.from \in {"DATE_UNVERIFIED", "DATE_VERIFIED"}
             /\ t.action = "VERIFY_DATE" => t.from = "DATE_UNVERIFIED"
             /\ t.action = "PROMOTE" => t.from = "DATE_VERIFIED"
             /\ Outcome(t.action) \in {"DATE_VERIFIED", "PROMOTED", "DISMISSED"}
             /\ Outcome(t.action) = "PROMOTED" <=> t.action = "PROMOTE"
             /\ Outcome(t.action) = "DATE_VERIFIED" <=> t.action = "VERIFY_DATE"
<1> DEFINE t == request[r]
           i == t.item
           row == candidate[i]
<1>1. t.at = "written" /\ candidate' = Reviewed(t)
  BY DEF Commit
<1>2. /\ t \in Transaction /\ Sound(t) /\ Consistent(t) /\ TypeOK
      /\ t.action \in Action /\ i \in Items /\ Writes(r)
  BY <1>1 DEF IInv, TypeOK, RequestsSound, Idle, Transaction, Writes
<1>3. /\ candidate' \in [Items -> Candidate]
      /\ \A j \in Items \ {i} : candidate'[j] = candidate[j]
      /\ candidate'[i].status = Outcome(t.action)
      /\ candidate'[i].date = IF t.action = "VERIFY_DATE" THEN t.date ELSE row.date
      /\ candidate'[i].reference = t.reference /\ candidate'[i].url = row.url
  BY <1>1, <1>2, ReviewedFacts
<1>4. /\ row.status = t.from /\ t.from \in Expected(t.action)
      /\ t.action = "VERIFY_DATE" => t.date \in Dates
      /\ t.action = "PROMOTE" => row.date = t.date
      /\ IF t.action = "PROMOTE"
         THEN t.reference \in Urls /\ t.made \subseteq {Made(t)}
         ELSE t.reference = None /\ t.made = {}
      /\ t.action = "PROMOTE" /\ t.made = {} => SameUrl(references, t.reference) # {}
  BY <1>1, <1>2 DEF Sound, Consistent
<1>5. /\ t.from \in {"DATE_UNVERIFIED", "DATE_VERIFIED"}
      /\ t.action = "VERIFY_DATE" => t.from = "DATE_UNVERIFIED"
      /\ t.action = "PROMOTE" => t.from = "DATE_VERIFIED"
      /\ Outcome(t.action) \in {"DATE_VERIFIED", "PROMOTED", "DISMISSED"}
      /\ Outcome(t.action) = "PROMOTED" <=> t.action = "PROMOTE"
      /\ Outcome(t.action) = "DATE_VERIFIED" <=> t.action = "VERIFY_DATE"
  BY <1>2, <1>4 DEF Expected, Outcome, Action
<1> QED
  BY <1>2, <1>3, <1>4, <1>5, Zenon

LEMMA CommitFacts ==
  ASSUME IInv, NEW r \in Requests, Commit(r)
  PROVE  IInv'
<1> DEFINE t == request[r]
           i == t.item
           row == candidate[i]
           record == [action |-> t.action, previous |-> t.from,
                      new |-> Outcome(t.action), reference |-> t.reference]
<1>1. /\ t.at = "written" /\ candidate' = Reviewed(t)
      /\ history' = [history EXCEPT ![i] = Append(@, record)]
      /\ references' = references \cup t.made
      /\ Set(r, Idle)
  BY DEF Commit
<1>2. /\ t \in Transaction /\ Sound(t) /\ Consistent(t) /\ TypeOK
      /\ t.action \in Action /\ i \in Items /\ Writes(r)
  BY CommitEffect, Zenon
<1>3. /\ candidate' \in [Items -> Candidate]
      /\ \A j \in Items \ {i} : candidate'[j] = candidate[j]
      /\ candidate'[i].status = Outcome(t.action)
      /\ candidate'[i].date = IF t.action = "VERIFY_DATE" THEN t.date ELSE row.date
      /\ candidate'[i].reference = t.reference /\ candidate'[i].url = row.url
  BY CommitEffect, Zenon
<1>4. /\ row.status = t.from /\ t.from \in Expected(t.action)
      /\ t.action = "VERIFY_DATE" => t.date \in Dates
      /\ t.action = "PROMOTE" => row.date = t.date
      /\ IF t.action = "PROMOTE"
         THEN t.reference \in Urls /\ t.made \subseteq {Made(t)}
         ELSE t.reference = None /\ t.made = {}
      /\ t.action = "PROMOTE" /\ t.made = {} => SameUrl(references, t.reference) # {}
  BY CommitEffect, Zenon
<1>5. /\ t.from \in {"DATE_UNVERIFIED", "DATE_VERIFIED"}
      /\ t.action = "VERIFY_DATE" => t.from = "DATE_UNVERIFIED"
      /\ t.action = "PROMOTE" => t.from = "DATE_VERIFIED"
      /\ Outcome(t.action) \in {"DATE_VERIFIED", "PROMOTED", "DISMISSED"}
      /\ Outcome(t.action) = "PROMOTED" <=> t.action = "PROMOTE"
      /\ Outcome(t.action) = "DATE_VERIFIED" <=> t.action = "VERIFY_DATE"
  BY CommitEffect, Zenon
<1>6. /\ request'[r] = Idle
      /\ \A s \in Requests : s # r => request'[s] = request[s]
      /\ request' \in [Requests -> Transaction \cup {Idle}]
  BY <1>1, IdleFacts DEF Set, IInv, TypeOK
<1>7. /\ t.made # {} => t.action = "PROMOTE" /\ t.made = {Made(t)}
      /\ Made(t).url = t.reference /\ Made(t).item = i
      /\ Made(t).date = t.date /\ Made(t).by = "review"
      /\ t.action = "PROMOTE" => Made(t) \in Reference
  <2>1. /\ Made(t).url = t.reference /\ Made(t).item = i
        /\ Made(t).date = t.date /\ Made(t).by = "review"
    BY DEF Made
  <2>2. t.action = "PROMOTE" => t.date \in Dates
    BY <1>2 DEF Sound
  <2>3. t.action = "PROMOTE" => Made(t) \in Reference
    BY <1>2, <1>4, <2>2 DEF Made, Reference
  <2> HIDE DEF t
  <2> QED
    BY <1>4, <2>1, <2>3
<1>8. record \in Review /\ record.previous = t.from /\ record.new = Outcome(t.action)
      /\ record.reference = t.reference
  BY <1>2, <1>5 DEF Review, Transaction, Status
<1>9. /\ history \in [Items -> Seq(Review)]
      /\ history'[i] = Append(history[i], record)
      /\ \A j \in Items \ {i} : history'[j] = history[j]
  BY <1>1, <1>2 DEF TypeOK
<1> HIDE DEF t, i, row, record
<1>10. TypeOK'
  <2>1. history' \in [Items -> Seq(Review)]
    BY <1>1, <1>2, <1>8, <1>9
  <2>2. references' \subseteq Reference
    BY <1>1, <1>2, <1>7 DEF TypeOK
  <2> QED
    BY <1>1, <1>2, <1>3, <1>6, <2>1, <2>2 DEF TypeOK, Set
<1>11. Exclusive'
  BY <1>6, IdleFacts DEF IInv, Exclusive, Writes
<1>12. RequestsSound'
  <2> SUFFICES ASSUME NEW s \in Requests, NEW u, u = request'[s], u.at # "idle"
               PROVE  Sound(u) /\ Consistent(u)'
    BY DEF RequestsSound, Consistent
  <2>1. s # r /\ u = request[s]
    BY <1>6, IdleFacts
  <2>2. Sound(u) /\ Consistent(u) /\ u \in Transaction
    BY <2>1 DEF IInv, TypeOK, RequestsSound, Idle
  <2>3. u.at \in WritesAt => u.item # i
    BY <1>2, <2>1 DEF IInv, Exclusive, Writes, WritesAt, t, i
  <2>4. \A a : SameUrl(references, a) # {} => SameUrl(references', a) # {}
    BY <1>1 DEF SameUrl
  <2>5. u.item \in Items
    BY <2>2 DEF Transaction
  <2>6. CASE u.item # i
    BY <1>3, <2>2, <2>4, <2>5, <2>6 DEF Consistent
  <2>7. CASE u.item = i
    <3>1. u.at \notin WritesAt
      BY <2>3, <2>7
    <3>2. u.action = "PROMOTE" => t.action # "VERIFY_DATE" /\ row.date = u.date
      BY <1>4, <1>5, <2>2, <2>7 DEF Consistent, row
    <3> QED
      BY <1>3, <1>5, <2>2, <2>7, <3>1, <3>2 DEF Consistent, WritesAt
  <2> QED
    BY <2>6, <2>7
<1>13. RowsSound'
  <2> SUFFICES ASSUME NEW j \in Items
               PROVE  /\ candidate'[j].status = "ABSENT" => history'[j] = <<>>
                      /\ candidate'[j].status # "ABSENT" => candidate'[j].url \in Urls
                      /\ candidate'[j].status \in {"ABSENT", "DATE_UNVERIFIED"} =>
                            candidate'[j].date = Undated
                      /\ candidate'[j].status = "DATE_VERIFIED" => candidate'[j].date \in Dates
    BY DEF RowsSound
  <2>1. /\ candidate[j].status = "ABSENT" => history[j] = <<>>
        /\ candidate[j].status # "ABSENT" => candidate[j].url \in Urls
        /\ candidate[j].status \in {"ABSENT", "DATE_UNVERIFIED"} => candidate[j].date = Undated
        /\ candidate[j].status = "DATE_VERIFIED" => candidate[j].date \in Dates
    BY DEF IInv, RowsSound
  <2>2. CASE j # i
    BY <1>3, <1>9, <2>1, <2>2
  <2>3. CASE j = i
    <3>1. row.url \in Urls
      BY <1>4, <1>5, <2>1, <2>3 DEF row
    <3> QED
      BY <1>3, <1>4, <1>5, <2>3, <3>1
  <2> QED
    BY <2>2, <2>3
<1>14. HistoryExplains'
  <2> DEFINE reached(trail, n) == IF n = 0 THEN "DATE_UNVERIFIED" ELSE trail[n].new
             explains(trail, rows, j) ==
               /\ \A n \in DOMAIN trail : trail[n].previous = reached(trail, n - 1)
               /\ rows[j].status # "ABSENT" => rows[j].status = reached(trail, Len(trail))
               /\ trail # <<>> => rows[j].reference = trail[Len(trail)].reference
  <2>1. \A j \in Items : explains(history[j], candidate, j)
    BY DEF IInv, HistoryExplains
  <2>2. \A j \in Items \ {i} : explains(history'[j], candidate', j)
    BY <1>3, <1>9, <2>1
  <2>3. explains(history'[i], candidate', i)
    <3> DEFINE trail == history[i]
               n == Len(trail)
    <3>1. trail \in Seq(Review) /\ n \in Nat /\ DOMAIN trail = 1..n
      BY <1>2, <1>9
    <3>2. /\ history'[i] = Append(trail, record) /\ Len(history'[i]) = n + 1
          /\ DOMAIN history'[i] = 1..(n + 1)
          /\ history'[i][n + 1] = record
          /\ \A k \in 1..n : history'[i][k] = trail[k]
      BY <1>8, <1>9, <3>1
    <3>3. explains(trail, candidate, i)
      BY <1>2, <2>1
    <3>4. t.from = reached(trail, n)
      BY <1>4, <1>5, <3>3 DEF row
    <3> HIDE DEF trail, n
    <3>5. \A k \in 1..(n + 1) : reached(history'[i], k - 1) = reached(trail, k - 1)
      BY <3>1, <3>2
    <3> HIDE DEF reached
    <3>6. \A k \in 1..n : history'[i][k].previous = reached(history'[i], k - 1)
      BY <3>1, <3>2, <3>3, <3>5
    <3>7. history'[i][n + 1].previous = reached(history'[i], (n + 1) - 1)
      <4>1. n + 1 \in 1..(n + 1) /\ (n + 1) - 1 = n
        BY <3>1
      <4> QED
        BY <1>8, <3>2, <3>4, <3>5, <4>1
    <3>8. \A k \in 1..(n + 1) : k \in 1..n \/ k = n + 1
      BY <3>1
    <3>9. reached(history'[i], n + 1) = Outcome(t.action) /\ history'[i] # <<>>
      BY <1>8, <3>1, <3>2 DEF reached
    <3> QED
      BY <1>3, <1>8, <3>2, <3>6, <3>7, <3>8, <3>9
  <2> HIDE DEF explains
  <2>4. \A j \in Items : explains(history'[j], candidate', j)
    BY <2>2, <2>3
  <2> QED
    BY <2>4 DEF explains, HistoryExplains
<1>15. PromotionIsWhole'
  <2>1. /\ \A j \in Items :
              IF candidate[j].status = "PROMOTED"
              THEN SameUrl(references, candidate[j].reference) # {}
              ELSE candidate[j].reference = None
        /\ \A ref \in references : ref.by = "review" =>
              /\ candidate[ref.item].status = "PROMOTED"
              /\ candidate[ref.item].reference = ref.url
              /\ candidate[ref.item].date = ref.date
    BY DEF IInv, PromotionIsWhole
  <2>2. \A a : SameUrl(references, a) # {} => SameUrl(references', a) # {}
    BY <1>1 DEF SameUrl
  <2>3. t.action = "PROMOTE" => SameUrl(references', t.reference) # {}
    <3>1. CASE t.made = {}
      BY <1>4, <2>2, <3>1
    <3>2. CASE t.made # {}
      BY <1>1, <1>7, <3>2 DEF SameUrl
    <3> QED
      BY <3>1, <3>2
  <2>4. ASSUME NEW j \in Items
        PROVE  IF candidate'[j].status = "PROMOTED"
               THEN SameUrl(references', candidate'[j].reference) # {}
               ELSE candidate'[j].reference = None
    <3>1. CASE j # i
      BY <1>3, <2>1, <2>2, <3>1
    <3>2. CASE j = i
      BY <1>3, <1>4, <1>5, <2>3, <3>2
    <3> QED
      BY <3>1, <3>2
  <2>5. ASSUME NEW ref \in references', ref.by = "review"
        PROVE  /\ candidate'[ref.item].status = "PROMOTED"
               /\ candidate'[ref.item].reference = ref.url
               /\ candidate'[ref.item].date = ref.date
    <3>1. CASE ref \in references
      <4>1. ref.item \in Items
        BY <1>2, <2>5, <3>1 DEF TypeOK, Reference
      <4>2. ref.item # i
        BY <1>4, <1>5, <2>1, <2>5, <3>1 DEF row
      <4> QED
        BY <1>3, <2>1, <2>5, <3>1, <4>1, <4>2
    <3>2. CASE ref \in t.made
      BY <1>3, <1>4, <1>5, <1>7, <3>2
    <3> QED
      BY <1>1, <3>1, <3>2
  <2> QED
    BY <2>4, <2>5 DEF PromotionIsWhole
<1> QED
  BY <1>10, <1>11, <1>12, <1>13, <1>14, <1>15 DEF IInv

-----------------------------------------------------------------------------
(* The batch, the user, and the whole next-state relation.                 *)

\* A step that stages new rows and adds references of no review.
LEMMA WorldFacts ==
  ASSUME IInv, TypeOK', UNCHANGED <<history, request>>,
         references \subseteq references',
         \A ref \in references' \ references : ref.by # "review",
         candidate' = candidate \/
            \E undated \in SUBSET Entry : candidate' = Staged(undated, candidate)
  PROVE  IInv'
<1>1. candidate \in [Items -> Candidate] /\ candidate' \in [Items -> Candidate]
  BY DEF IInv, TypeOK
<1>2. \A i \in Items :
        /\ candidate'[i].date = candidate[i].date
        /\ candidate'[i].reference = candidate[i].reference
        /\ candidate'[i].status = candidate[i].status
             \/ (candidate[i].status = "ABSENT" /\ candidate'[i].status = "DATE_UNVERIFIED")
        /\ candidate[i].status # "ABSENT" /\ candidate[i].url \in Urls =>
             candidate'[i].url \in Urls
        /\ candidate'[i].status # "ABSENT" /\ candidate[i].status = "ABSENT" =>
             candidate'[i].url \in Urls
  BY <1>1, StagedFacts
<1>3. \A a : SameUrl(references, a) # {} => SameUrl(references', a) # {}
  BY DEF SameUrl
<1>4. Exclusive'
  BY DEF IInv, Exclusive, Writes
<1>5. RequestsSound'
  <2> SUFFICES ASSUME NEW s \in Requests, NEW t, t = request[s], t.at # "idle"
               PROVE  Sound(t) /\ Consistent(t)'
    BY DEF RequestsSound, Consistent
  <2>1. Sound(t) /\ Consistent(t) /\ t \in Transaction
    BY DEF IInv, TypeOK, RequestsSound, Idle
  <2>2. t.item \in Items /\ t.action \in Action /\ t.from # "ABSENT"
    BY <2>1 DEF Sound, Transaction, Expected, Action
  <2> QED
    BY <1>2, <1>3, <2>1, <2>2 DEF Consistent
<1>6. RowsSound'
  BY <1>2, ReviewAssumption DEF IInv, RowsSound
<1>7. HistoryExplains'
  <2>1. \A i \in Items : candidate[i].status = "ABSENT" => history[i] = <<>>
    BY DEF IInv, RowsSound
  <2> QED
    BY <1>2, <2>1 DEF IInv, HistoryExplains
<1>8. PromotionIsWhole'
  <2>1. \A ref \in references : ref.by = "review" => ref.item \in Items
    BY DEF IInv, TypeOK, Reference
  <2> QED
    BY <1>2, <1>3, <2>1 DEF IInv, PromotionIsWhole
<1> QED
  BY <1>4, <1>5, <1>6, <1>7, <1>8 DEF IInv

LEMMA RunBatchFacts ==
  ASSUME IInv, RunBatch
  PROVE  IInv'
<1> DEFINE undated == {e \in batch : e.date = Undated}
           dated == {e \in batch : e.date # Undated}
<1>1. batch \in SUBSET Entry
  BY DEF IInv, TypeOK, RunBatch
<1>2. \A ref \in Ingested(dated) : ref \in Reference /\ ref.by = "batch"
  <2> SUFFICES ASSUME NEW e \in Eligible(dated)
               PROVE  RefOf(e) \in Reference /\ RefOf(e).by = "batch"
    BY DEF Ingested
  <2>1. e \in Entry /\ e.date \in Dates
    BY <1>1 DEF Eligible, Entry
  <2> QED
    BY <2>1 DEF RefOf, Reference, Entry
<1>3. /\ undated \in SUBSET Entry
      /\ candidate' = Staged(undated, candidate)
      /\ references' = references \cup Ingested(dated)
      /\ batch' = None
      /\ UNCHANGED <<history, enabled, request, oneWriter>>
  BY <1>1 DEF RunBatch
<1> HIDE DEF undated, dated
<1>4. candidate' \in [Items -> Candidate]
  BY <1>3, StagedFacts DEF IInv, TypeOK
<1>5. TypeOK'
  BY <1>2, <1>3, <1>4 DEF IInv, TypeOK
<1> QED
  BY <1>2, <1>3, <1>5, WorldFacts

LEMMA OtherFacts ==
  ASSUME IInv,
         \/ \E listing \in Listings : Fetch(listing)
         \/ BatchFails \/ SetEnabled
         \/ \E u \in Urls : ImportLink(u)
         \/ UNCHANGED vars
  PROVE  IInv'
<1>1. CASE \E listing \in Listings : Fetch(listing)
  <2>1. TypeOK'
    BY <1>1, ReviewAssumption DEF IInv, TypeOK, Fetch
  <2> QED
    BY <1>1, <2>1, WorldFacts DEF Fetch
<1>2. CASE BatchFails
  <2>1. TypeOK'
    BY <1>2 DEF IInv, TypeOK, BatchFails
  <2> QED
    BY <1>2, <2>1, WorldFacts DEF BatchFails
<1>3. CASE SetEnabled
  <2>1. TypeOK'
    BY <1>3 DEF IInv, TypeOK, SetEnabled
  <2> QED
    BY <1>3, <2>1, WorldFacts DEF SetEnabled
<1>4. CASE \E u \in Urls : ImportLink(u)
  <2>1. PICK u \in Urls : ImportLink(u)
    BY <1>4
  <2> DEFINE ref == [url |-> u, item |-> None, date |-> Undated, by |-> "user"]
  <2>2. ref \in Reference /\ ref.by # "review"
    BY DEF Reference
  <2>3. /\ references' = references \cup {ref}
        /\ UNCHANGED <<candidate, history, enabled, request, batch, oneWriter>>
    BY <2>1 DEF ImportLink
  <2> HIDE DEF ref
  <2>4. TypeOK'
    BY <2>2, <2>3 DEF IInv, TypeOK
  <2> QED
    BY <2>2, <2>3, <2>4, WorldFacts
<1>5. CASE UNCHANGED vars
  <2>1. TypeOK'
    BY <1>5 DEF IInv, TypeOK, vars
  <2> QED
    BY <1>5, <2>1, WorldFacts DEF vars
<1> QED
  BY <1>1, <1>2, <1>3, <1>4, <1>5

LEMMA StepFacts == IInv /\ [Next]_vars => IInv'
<1> SUFFICES ASSUME IInv, [Next]_vars PROVE IInv'
  OBVIOUS
<1>1. CASE \E r \in Requests :
              \/ \E action \in Action, i \in Items, date \in Dates \cup {Undated} :
                    Read(r, action, i, date)
              \/ Swap(r) \/ Lookup(r) \/ Insert(r) \/ Commit(r) \/ Rollback(r)
  BY <1>1, ReadFacts, SwapFacts, LookupFacts, InsertFacts, CommitFacts, RollbackFacts
<1>2. CASE RunBatch
  BY <1>2, RunBatchFacts
<1>3. CASE \/ \E listing \in Listings : Fetch(listing)
           \/ BatchFails \/ SetEnabled
           \/ \E u \in Urls : ImportLink(u)
           \/ UNCHANGED vars
  BY <1>3, OtherFacts
<1> QED
  BY <1>1, <1>2, <1>3, Zenon DEF Next

LEMMA Invariance == Spec => []IInv
BY InitFacts, StepFacts, PTL DEF Spec

-----------------------------------------------------------------------------
(* What follows.                                                           *)

\* Every variable keeps its type.
THEOREM ReviewTypeCorrect == Spec => []TypeOK
<1>1. IInv => TypeOK
  BY DEF IInv
<1> QED
  BY <1>1, Invariance, PTL

\* The history of a candidate explains its status, however the reviews of
\* any number of requests overlap.
THEOREM HistoryIsTrue == Spec => []HistoryExplains
<1>1. IInv => HistoryExplains
  BY DEF IInv
<1> QED
  BY <1>1, Invariance, PTL

\* No step of any request, batch or user leaves half of a promotion.
THEOREM PromotionsAreWhole == Spec => []PromotionIsWhole
<1>1. IInv => PromotionIsWhole
  BY DEF IInv
<1> QED
  BY <1>1, Invariance, PTL

\* Steps that leave the committed rows and references alone.
Quiet == UNCHANGED <<candidate, references>>

LEMMA QuietFacts ==
  ASSUME [Next]_vars
  PROVE  \/ Quiet
         \/ \E r \in Requests : Commit(r)
         \/ RunBatch
         \/ \E u \in Urls : ImportLink(u)
<1>1. CASE \E r \in Requests :
              \/ \E action \in Action, i \in Items, date \in Dates \cup {Undated} :
                    Read(r, action, i, date)
              \/ Swap(r) \/ Lookup(r) \/ Insert(r) \/ Commit(r) \/ Rollback(r)
  BY <1>1 DEF Quiet, Read, Swap, Lookup, Insert, Rollback
<1>2. CASE \/ \E listing \in Listings : Fetch(listing)
           \/ BatchFails \/ SetEnabled \/ UNCHANGED vars
  BY <1>2 DEF Quiet, Fetch, BatchFails, SetEnabled, vars
<1> QED
  BY <1>1, <1>2, Zenon DEF Next

\* What a batch does to a row.
LEMMA BatchEffect ==
  ASSUME IInv, RunBatch
  PROVE  \A i \in Items :
            /\ candidate'[i].date = candidate[i].date
            /\ candidate'[i].reference = candidate[i].reference
            /\ candidate'[i].status = candidate[i].status
                 \/ (candidate[i].status = "ABSENT" /\ candidate'[i].status = "DATE_UNVERIFIED")
<1> DEFINE undated == {e \in batch : e.date = Undated}
<1>1. undated \in SUBSET Entry /\ candidate \in [Items -> Candidate]
  BY DEF IInv, TypeOK, RunBatch
<1>2. candidate' = Staged(undated, candidate)
  BY DEF RunBatch
<1> HIDE DEF undated
<1> QED
  BY <1>1, <1>2, StagedFacts

\* No step moves a date that was verified, nor undoes a decision.
THEOREM DecisionsAreFinal == Spec => DecisionsStay
<1> DEFINE Stay == \A i \in Items :
          /\ candidate[i].date # Undated => candidate'[i].date = candidate[i].date
          /\ candidate[i].status \in {"PROMOTED", "DISMISSED"} =>
                candidate'[i].status = candidate[i].status
                /\ candidate'[i].reference = candidate[i].reference
<1>1. ASSUME IInv, [Next]_vars
      PROVE  Stay
  <2>1. CASE Quiet
    BY <2>1 DEF Quiet
  <2>2. ASSUME NEW r \in Requests, Commit(r)
        PROVE  Stay
    <3> DEFINE i == request[r].item
    <3>1. /\ \A j \in Items \ {i} : candidate'[j] = candidate[j]
          /\ candidate[i].status \in {"DATE_UNVERIFIED", "DATE_VERIFIED"}
      BY <1>1, <2>2, CommitEffect
    <3>2. candidate[i].date # Undated => candidate'[i].date = candidate[i].date
      <4>1. candidate[i].status = "DATE_UNVERIFIED" => candidate[i].date = Undated
        BY <1>1, <2>2, CommitEffect DEF IInv, RowsSound
      <4> QED
        BY <1>1, <2>2, <4>1, CommitEffect
    <3> HIDE DEF i
    <3> QED
      BY <3>1, <3>2
  <2>3. CASE RunBatch
    BY <1>1, <2>3, BatchEffect
  <2>4. CASE \E u \in Urls : ImportLink(u)
    BY <2>4 DEF ImportLink
  <2> QED
    BY <1>1, <2>1, <2>2, <2>3, <2>4, QuietFacts
<1>2. IInv /\ [Next]_vars => [Stay]_vars
  BY <1>1
<1> QED
  BY <1>2, Invariance, PTL DEF Spec, DecisionsStay

-----------------------------------------------------------------------------
(* The refinement.                                                         *)

\* A commit is one decision of the desk.
LEMMA CommitDecides ==
  ASSUME IInv, NEW r \in Requests, Commit(r)
  PROVE  Desk!Next
<1> SUFFICES ASSUME NEW t, t = request[r]
             PROVE  Desk!Next
  OBVIOUS
<1> DEFINE i == t.item
           status == [j \in Items |-> candidate[j].status]
           reference == [j \in Items |-> candidate[j].reference]
           library == {ref.url : ref \in references}
<1>1. /\ t.action \in Action /\ i \in Items
      /\ \A j \in Items \ {i} : candidate'[j] = candidate[j]
      /\ candidate'[i].status = Outcome(t.action)
      /\ candidate'[i].reference = t.reference
      /\ candidate[i].status \in Expected(t.action)
      /\ candidate[i].status \in {"DATE_UNVERIFIED", "DATE_VERIFIED"}
      /\ IF t.action = "PROMOTE"
         THEN t.reference \in Urls /\ t.made \subseteq {Made(t)}
         ELSE t.reference = None /\ t.made = {}
      /\ t.action = "PROMOTE" /\ t.made = {} => SameUrl(references, t.reference) # {}
  BY CommitEffect
<1>2. references' = references \cup t.made
  BY DEF Commit
<1>3. candidate[i].reference = None
  BY <1>1 DEF IInv, PromotionIsWhole
<1>4. Made(t).url = t.reference
  BY DEF Made
<1> HIDE DEF i
<1>5. /\ status' = [status EXCEPT ![i] = Outcome(t.action)]
      /\ status[i] = candidate[i].status
      /\ reference' = [reference EXCEPT ![i] = t.reference]
      /\ reference[i] = None
  BY <1>1, <1>3
<1>6. CASE t.action = "PROMOTE"
  <2>1. library' = library \cup {t.reference}
    <3>1. CASE t.made = {}
      BY <1>1, <1>2, <1>6, <3>1 DEF SameUrl
    <3>2. CASE t.made = {Made(t)}
      BY <1>2, <1>4, <3>2
    <3> QED
      BY <1>1, <1>6, <3>1, <3>2
  <2>2. Desk!Promote(i, t.reference)
    BY <1>1, <1>5, <1>6, <2>1 DEF Desk!Promote, Desk!Decide, Expected, Outcome
  <2> QED
    BY <1>1, <1>6, <2>2 DEF Desk!Next
<1>7. CASE t.action # "PROMOTE"
  <2>1. references' = references /\ reference' = reference
    BY <1>1, <1>2, <1>5, <1>7
  <2>2. CASE t.action = "VERIFY_DATE"
    <3>1. Desk!Verify(i)
      BY <1>1, <1>5, <2>1, <2>2 DEF Desk!Verify, Desk!Decide, Expected, Outcome
    <3> QED
      BY <1>1, <3>1 DEF Desk!Next
  <2>3. CASE t.action = "DISMISS"
    <3>1. Desk!Dismiss(i)
      BY <1>1, <1>5, <2>1, <2>3 DEF Desk!Dismiss, Desk!Decide, Expected, Outcome
    <3> QED
      BY <1>1, <3>1 DEF Desk!Next
  <2> QED
    BY <1>1, <1>7, <2>2, <2>3 DEF Action
<1> QED
  BY <1>6, <1>7

\* A batch, or the import of a link, is a collection.
LEMMA CollectionFacts ==
  ASSUME IInv, IInv', RunBatch \/ \E u \in Urls : ImportLink(u)
  PROVE  Desk!Next
<1> SUFFICES ASSUME NEW found,
                    found = {i \in Items : candidate'[i].status # candidate[i].status}
             PROVE  Desk!Next
  OBVIOUS
<1>1. \A i \in Items :
        /\ candidate'[i].reference = candidate[i].reference
        /\ candidate'[i].status = candidate[i].status
             \/ (candidate[i].status = "ABSENT" /\ candidate'[i].status = "DATE_UNVERIFIED")
  BY BatchEffect DEF ImportLink
<1>2. references \subseteq references' /\ references' \subseteq Reference
  BY DEF RunBatch, ImportLink, IInv, TypeOK
<1>3. /\ {ref.url : ref \in references} \subseteq {ref.url : ref \in references'}
      /\ {ref.url : ref \in references'} \subseteq Urls
  BY <1>2 DEF Reference
<1>4. Desk!Collect(found)
  BY <1>1, <1>3 DEF Desk!Collect
<1> QED
  BY <1>4 DEF Desk!Next

\* What overlapping transactions commit is a sequence of decisions, each taken
\* on the status of its moment, and of collections.
THEOREM ReviewsAreDecisions == Spec => DeskSpec
<1>1. Init => Desk!Init
  <2> SUFFICES ASSUME Init PROVE Desk!Init
    OBVIOUS
  <2>1. IInv /\ references = {} /\ \A i \in Items : history[i] = <<>>
    BY InitFacts DEF Init
  <2>2. \A i \in Items : candidate[i].status \in {"ABSENT", "DATE_UNVERIFIED"}
    BY <2>1 DEF IInv, HistoryExplains
  <2>3. \A i \in Items : candidate[i].reference = None
    BY <2>1, <2>2 DEF IInv, PromotionIsWhole
  <2> QED
    BY <2>1, <2>2, <2>3 DEF Desk!Init
<1>2. ASSUME IInv, IInv', [Next]_vars
      PROVE  [Desk!Next]_(Desk!vars)
  <2>1. CASE Quiet
    BY <2>1 DEF Quiet, Desk!vars
  <2>2. CASE \E r \in Requests : Commit(r)
    BY <1>2, <2>2, CommitDecides
  <2>3. CASE RunBatch \/ \E u \in Urls : ImportLink(u)
    BY <1>2, <2>3, CollectionFacts
  <2> QED
    BY <1>2, <2>1, <2>2, <2>3, QuietFacts
<1> QED
  BY <1>1, <1>2, Invariance, PTL DEF Spec, DeskSpec, Desk!Spec

-----------------------------------------------------------------------------
(* References stay unique, those that are not committed yet included: two  *)
(* reviews that write hold different candidates and wait for each other's  *)
(* addresses, and the batch and a link are written when no review writes   *)
(* or none writes that address.                                            *)

Uncommitted == UNION {request[r].made : r \in {s \in Requests : Writes(s)}}
Pending == references \cup Uncommitted

UniqueInv ==
    /\ batch # None => oneWriter /\ IsFiniteSet(batch)
    /\ Unique(Pending)

LEMMA UniqueOfFewer ==
  ASSUME NEW refs, Unique(refs), NEW fewer \in SUBSET refs
  PROVE  Unique(fewer)
BY DEF Unique

\* What has an address and an item that no other has may be added.
LEMMA UniqueOfMore ==
  ASSUME NEW refs, Unique(refs), NEW new,
         \A ref \in refs : ref # new => ref.url # new.url /\ (ref.item = new.item => new.item = None)
  PROVE  Unique(refs \cup {new})
BY DEF Unique

Accepting(f, entries, nth, L) ==
    f = [n \in 0 .. L |-> IF n = 0 THEN {} ELSE Ingest(nth[n], f[n - 1])]

\* A nonempty set of naturals has a least element.
LEMMA LeastNumber ==
    ASSUME NEW T, T \subseteq Nat, T # {}
    PROVE  \E x \in T : \A y \in T : x <= y
<1>1. \E x \in T : \A y \in T : <<y, x>> \notin OpToRel(<, Nat)
  BY NatLessThanWellFounded, WFMin
<1>2. PICK x \in T : \A y \in T : <<y, x>> \notin OpToRel(<, Nat)
  BY <1>1
<1>3. \A y \in T : <<y, x>> \in Nat \X Nat
  OBVIOUS
<1>4. \A y \in T : ~(y < x)
  BY <1>2, <1>3 DEF OpToRel
<1>5. \A y \in T : y \in Nat
  OBVIOUS
<1>6. \A y \in T : x <= y
  BY <1>4, <1>5, SMT
<1> QED
  BY <1>6

\* A set with 0 that is closed under successor up to N contains 0..N.
LEMMA NumbersUpTo ==
    ASSUME NEW N \in Nat, NEW T, 0 \in T,
           \A n \in 0..N : n < N /\ n \in T => n + 1 \in T
    PROVE  \A n \in 0..N : n \in T
<1> DEFINE Missing == {n \in 0..N : n \notin T}
<1>1. SUFFICES ASSUME Missing # {} PROVE FALSE
  OBVIOUS
<1>2. PICK m \in Missing : \A y \in Missing : m <= y
  <2>1. Missing \subseteq Nat
    BY SMT
  <2> QED
    BY <1>1, <2>1, LeastNumber
<1>3. m \in 0..N /\ m \notin T /\ m # 0
  BY <1>2
<1>4. m - 1 \in 0..N /\ m - 1 < N /\ (m - 1) + 1 = m
  BY <1>3, SMT
<1>5. m - 1 \in T
  BY <1>2, <1>4
<1> QED
  BY <1>3, <1>4, <1>5

\* The function that Accepted is defined by is there.
LEMMA AcceptingRuns ==
  ASSUME NEW entries, NEW nth, NEW L \in Nat
  PROVE  \E f : Accepting(f, entries, nth, L)
<1> DEFINE Step(n, acc) == Ingest(nth[n], acc)
           Good(m, f) == f = [n \in 0 .. m |-> IF n = 0 THEN {} ELSE Step(n, f[n - 1])]
           Done == {m \in 0 .. L : \E f : Good(m, f)}
<1> HIDE DEF Step
<1>1. 0 \in Done
  <2> DEFINE zero == [n \in 0 .. 0 |-> {}]
  <2>1. Good(0, zero)
    OBVIOUS
  <2> HIDE DEF Good
  <2> QED
    BY <2>1
<1>2. ASSUME NEW m \in 0 .. L, m < L, m \in Done
      PROVE  m + 1 \in Done
  <2>1. PICK f : Good(m, f)
    BY <1>2
  <2> DEFINE g == [n \in 0 .. m + 1 |-> IF n = m + 1 THEN Step(n, f[m]) ELSE f[n]]
  <2>2. ASSUME NEW n \in 0 .. m + 1
        PROVE  g[n] = IF n = 0 THEN {} ELSE Step(n, g[n - 1])
    <3>1. CASE n = 0
      <4>1. 0 \in 0 .. m /\ n # m + 1
        BY <3>1
      <4>2. f[0] = {}
        BY <2>1, <4>1
      <4> QED
        BY <3>1, <4>1, <4>2
    <3>2. CASE n # 0
      <4>1. n - 1 \in 0 .. m /\ n - 1 \in 0 .. m + 1 /\ n - 1 # m + 1
        BY <3>2
      <4>2. g[n - 1] = f[n - 1]
        BY <4>1
      <4>3. CASE n = m + 1
        <5>1. n - 1 = m
          BY <4>3
        <5> QED
          BY <3>2, <4>2, <4>3, <5>1
      <4>4. CASE n # m + 1
        <5>1. n \in 0 .. m
          BY <4>4
        <5>2. f[n] = Step(n, f[n - 1])
          BY <2>1, <3>2, <5>1
        <5>3. g[n] = f[n]
          BY <4>4
        <5> HIDE DEF g
        <5> QED
          BY <3>2, <4>2, <5>2, <5>3
      <4> QED
        BY <4>3, <4>4
    <3> QED
      BY <3>1, <3>2
  <2>3. Good(m + 1, g)
    <3>1. g = [n \in 0 .. m + 1 |-> g[n]]
      OBVIOUS
    <3> HIDE DEF g
    <3> QED
      BY <2>2, <3>1
  <2>4. \E h : Good(m + 1, h)
    BY <2>3
  <2> HIDE DEF Good
  <2> QED
    BY <1>2, <2>4
<1>3. L \in Done
  <2> HIDE DEF Done
  <2>1. \A m \in 0 .. L : m \in Done
    BY <1>1, <1>2, NumbersUpTo
  <2> QED
    BY <2>1
<1> QED
  BY <1>3 DEF Accepting, Step

Library(accepted) == references \cup {RefOf(e) : e \in accepted}

\* ingest() of an entry adds no duplicate to the references and the entries before.
LEMMA IngestUnique ==
  ASSUME NEW accepted, Unique(Library(accepted)), NEW e
  PROVE  Unique(Library(Ingest(e, accepted)))
<1>1. CASE Ingest(e, accepted) = accepted
  BY <1>1
<1>2. CASE Ingest(e, accepted) # accepted
  <2>1. /\ Ingest(e, accepted) = accepted \cup {e}
        /\ Duplicate(Library(accepted), e.item, e.url) = {}
    BY <1>2 DEF Ingest, Library
  <2>2. \A ref \in Library(accepted) : ref.item # e.item /\ ref.url # e.url
    BY <2>1 DEF Duplicate, SameItem, SameUrl
  <2>3. Library(accepted \cup {e}) = Library(accepted) \cup {RefOf(e)}
    BY DEF Library
  <2>4. RefOf(e).item = e.item /\ RefOf(e).url = e.url
    BY DEF RefOf
  <2> HIDE DEF Library
  <2>5. Unique(Library(accepted) \cup {RefOf(e)})
    BY <2>2, <2>4, UniqueOfMore
  <2> QED
    BY <2>1, <2>3, <2>5
<1> QED
  BY <1>1, <1>2

LEMMA AcceptedUnique ==
  ASSUME Unique(references), NEW entries, IsFiniteSet(entries)
  PROVE  Unique(Library(Accepted(entries)))
<1> DEFINE L == Cardinality(entries)
           nth(n) == CHOOSE e \in entries : Cardinality({d \in entries : Newer(d, e)}) = n - 1
           order == [n \in 0 .. L |-> nth(n)]
           f == CHOOSE accepted : accepted =
                    [n \in 0 .. L |-> IF n = 0 THEN {} ELSE Ingest(nth(n), accepted[n - 1])]
<1>1. L \in Nat
  BY FS_CardinalityType
<1>2. Accepted(entries) = f[L]
  BY DEF Accepted
<1> HIDE DEF L, nth
<1>3. f = [n \in 0 .. L |-> IF n = 0 THEN {} ELSE Ingest(nth(n), f[n - 1])]
  <2>1. PICK h : Accepting(h, entries, order, L)
    BY <1>1, AcceptingRuns
  <2>2. h = [n \in 0 .. L |-> IF n = 0 THEN {} ELSE Ingest(nth(n), h[n - 1])]
    <3>1. \A n \in 0 .. L : order[n] = nth(n)
      OBVIOUS
    <3> HIDE DEF order
    <3> QED
      BY <2>1, <3>1 DEF Accepting
  <2>3. \E g : g = [n \in 0 .. L |-> IF n = 0 THEN {} ELSE Ingest(nth(n), g[n - 1])]
    BY <2>2
  <2> QED
    BY <2>3, Zenon
<1> HIDE DEF f, order
<1>4. f[0] = {}
  BY <1>1, <1>3
<1>5. ASSUME NEW n \in 0 .. L, n < L
      PROVE  f[n + 1] = Ingest(nth(n + 1), f[n])
  <2>1. n + 1 \in 0 .. L /\ n + 1 # 0 /\ (n + 1) - 1 = n
    BY <1>1, <1>5
  <2> DEFINE rhs(m) == IF m = 0 THEN {} ELSE Ingest(nth(m), f[m - 1])
  <2>2. f = [m \in 0 .. L |-> rhs(m)]
    BY <1>3
  <2>3. rhs(n + 1) = Ingest(nth(n + 1), f[n])
    BY <2>1
  <2> HIDE DEF rhs
  <2>4. f[n + 1] = rhs(n + 1)
    BY <2>1, <2>2
  <2> QED
    BY <2>3, <2>4
<1> DEFINE Done == {n \in 0 .. L : Unique(Library(f[n]))}
<1>6. 0 \in Done
  <2>1. Library({}) = references
    BY DEF Library
  <2> QED
    BY <1>1, <1>4, <2>1
<1>7. ASSUME NEW n \in 0 .. L, n < L, n \in Done
      PROVE  n + 1 \in Done
  <2>1. Unique(Library(f[n + 1]))
    BY <1>5, <1>7, IngestUnique
  <2> QED
    BY <1>1, <1>7, <2>1
<1>8. L \in Done
  <2> HIDE DEF Done
  <2>1. \A n \in 0 .. L : n \in Done
    BY <1>1, <1>6, <1>7, NumbersUpTo
  <2> QED
    BY <1>1, <2>1
<1> QED
  BY <1>2, <1>8

LEMMA UniqueStart == Init => UniqueInv
<1> SUFFICES ASSUME Init PROVE UniqueInv
  OBVIOUS
<1>1. references = {} /\ batch = None /\ \A r \in Requests : request[r].at = "idle"
  BY DEF Init, Idle
<1>2. Pending = {}
  BY <1>1 DEF Pending, Uncommitted, Writes
<1> QED
  BY <1>1, <1>2 DEF UniqueInv, Unique

\* A step of a transaction that is not yet committed: what it has made is new.
LEMMA OneWrites ==
  ASSUME IInv, UniqueInv, NEW r \in Requests, NEW t, Set(r, t), references' = references,
         \/ t.at \notin WritesAt \/ t.made = {}
         \/ Writes(r) /\ t.made \subseteq request[r].made
         \/ \E ref : t.made = {ref} /\ Unique(Pending \cup {ref})
  PROVE  UniqueInv'
<1>1. /\ request' = [request EXCEPT ![r] = t] /\ DOMAIN request = Requests
      /\ UNCHANGED <<batch, oneWriter>>
  BY DEF Set, IInv, TypeOK
<1>2. /\ request'[r] = t
      /\ \A s \in Requests : s # r => request'[s] = request[s]
  BY <1>1
<1>3. \A ref \in Uncommitted' : ref \in Uncommitted \/ (t.at \in WritesAt /\ ref \in t.made)
  BY <1>2 DEF Uncommitted, Writes, WritesAt
<1>4. CASE t.at \notin WritesAt \/ t.made = {}
  BY <1>1, <1>3, <1>4, UniqueOfFewer DEF UniqueInv, Pending
<1>5. CASE Writes(r) /\ t.made \subseteq request[r].made
  <2>1. Uncommitted' \subseteq Uncommitted
    BY <1>3, <1>5 DEF Uncommitted
  <2> QED
    BY <1>1, <2>1, UniqueOfFewer DEF UniqueInv, Pending
<1>6. CASE \E ref : t.made = {ref} /\ Unique(Pending \cup {ref})
  <2>1. PICK ref : t.made = {ref} /\ Unique(Pending \cup {ref})
    BY <1>6
  <2>2. Pending' \subseteq Pending \cup {ref}
    BY <1>3, <2>1 DEF Pending
  <2>3. Unique(Pending')
    BY <2>1, <2>2, UniqueOfFewer
  <2> QED
    BY <1>1, <2>3 DEF UniqueInv
<1> QED
  BY <1>4, <1>5, <1>6

LEMMA InsertUnique ==
  ASSUME IInv, UniqueInv, NEW r \in Requests, Insert(r)
  PROVE  UniqueInv'
<1> DEFINE t == request[r]
           ref == [url |-> t.url, item |-> t.item, date |-> t.date, by |-> "review"]
           new == [t EXCEPT !.at = "written", !.reference = ref.url, !.made = {ref}]
<1>1. /\ t.at = "looked" /\ MayInsert(ref.url, r) /\ references' = references
      /\ Set(r, IF Unique(references \cup {ref}) THEN new ELSE Idle)
  BY DEF Insert
<1>2. CASE ~Unique(references \cup {ref})
  <2>1. Set(r, Idle)
    BY <1>1, <1>2
  <2> QED
    BY <1>1, <2>1, OneWrites DEF Idle, WritesAt
<1>3. CASE Unique(references \cup {ref})
  <2>1. Set(r, new)
    BY <1>1, <1>3
  <2>2. t \in Transaction
    BY <1>1 DEF IInv, TypeOK, Idle
  <2>3. new.made = {ref}
    BY <2>2 DEF Transaction
  <2>4. ASSUME NEW s \in Requests, Writes(s), NEW made \in request[s].made
        PROVE  made.url # ref.url /\ made.item # ref.item
    <3>1. s # r
      <4>1. Sound(t)
        BY <1>1 DEF IInv, RequestsSound
      <4>2. t.made = {}
        BY <1>1, <4>1 DEF Sound
      <4> QED
        BY <2>4, <4>2
    <3>2. made.url # ref.url
      BY <1>1, <2>4, <3>1 DEF MayInsert
    <3>3. Sound(request[s])
      BY <2>4 DEF IInv, RequestsSound, Writes
    <3>4. made = Made(request[s])
      BY <2>4, <3>3 DEF Sound
    <3>5. request[s].item # t.item
      BY <1>1, <2>4, <3>1 DEF IInv, Exclusive, Writes
    <3> QED
      BY <3>2, <3>4, <3>5 DEF Made
  <2>5. \A p \in Pending : p # ref => p.url # ref.url /\ (p.item = ref.item => ref.item = None)
    <3>1. \A p \in references : p # ref => p.url # ref.url /\ (p.item = ref.item => ref.item = None)
      BY <1>3 DEF Unique
    <3>2. \A p \in Uncommitted : p.url # ref.url /\ p.item # ref.item
      BY <2>4 DEF Uncommitted
    <3> HIDE DEF ref
    <3> QED
      BY <3>1, <3>2 DEF Pending
  <2> HIDE DEF ref, new, t
  <2>6. Unique(Pending \cup {ref})
    BY <2>5, UniqueOfMore DEF UniqueInv
  <2> QED
    BY <1>1, <2>1, <2>3, <2>6, OneWrites
<1> QED
  BY <1>2, <1>3

LEMMA CommitUnique ==
  ASSUME IInv, UniqueInv, NEW r \in Requests, Commit(r)
  PROVE  UniqueInv'
<1>1. /\ request' = [request EXCEPT ![r] = Idle] /\ DOMAIN request = Requests
      /\ UNCHANGED <<batch, oneWriter>>
      /\ request[r].at = "written" /\ references' = references \cup request[r].made
  BY DEF Commit, Set, IInv, TypeOK
<1>2. Writes(r) /\ Idle.at = "idle"
  BY <1>1 DEF Writes, Idle
<1>3. Uncommitted' \subseteq Uncommitted
  BY <1>1, <1>2 DEF Uncommitted, Writes
<1>4. request[r].made \subseteq Uncommitted
  BY <1>2 DEF Uncommitted
<1>5. Pending' \subseteq Pending
  BY <1>1, <1>3, <1>4 DEF Pending
<1> QED
  BY <1>1, <1>5, UniqueOfFewer DEF UniqueInv

LEMMA BatchUnique ==
  ASSUME IInv, UniqueInv, RunBatch
  PROVE  UniqueInv'
<1> DEFINE dated == {e \in batch : e.date # Undated}
<1>1. /\ batch # None /\ NoWriter /\ references' = references \cup Ingested(dated)
      /\ batch' = None /\ UNCHANGED <<request, oneWriter>>
  BY DEF RunBatch
<1>2. oneWriter /\ IsFiniteSet(batch)
  BY <1>1 DEF UniqueInv
<1>3. Uncommitted = {} /\ Uncommitted' = {}
  BY <1>1, <1>2 DEF NoWriter, Uncommitted, Writes
<1>4. Unique(references)
  BY UniqueOfFewer DEF UniqueInv, Pending
<1>5. IsFiniteSet(Eligible(dated))
  <2>1. Eligible(dated) \subseteq batch
    BY DEF Eligible
  <2> QED
    BY <1>2, <2>1, FS_Subset
<1> HIDE DEF dated
<1>6. Unique(Library(Accepted(Eligible(dated))))
  BY <1>4, <1>5, AcceptedUnique
<1>7. references' \subseteq Library(Accepted(Eligible(dated)))
  BY <1>1 DEF Ingested, Library
<1>8. Unique(references')
  BY <1>6, <1>7, UniqueOfFewer
<1> QED
  BY <1>1, <1>3, <1>8 DEF UniqueInv, Pending

LEMMA LinkUnique ==
  ASSUME IInv, UniqueInv, NEW u \in Urls, ImportLink(u)
  PROVE  UniqueInv'
<1> DEFINE ref == [url |-> u, item |-> None, date |-> Undated, by |-> "user"]
<1>1. /\ references' = references \cup {ref} /\ UNCHANGED <<request, batch, oneWriter>>
      /\ \A p \in references : p.url # u
      /\ \A s \in Requests : Writes(s) => \A made \in request[s].made : made.url # u
  BY DEF ImportLink, SameUrl
<1>2. ref.url = u /\ ref.item = None
  OBVIOUS
<1> HIDE DEF ref
<1>3. Uncommitted' = Uncommitted
  BY <1>1 DEF Uncommitted, Writes
<1>4. \A p \in Pending : p.url # u
  BY <1>1 DEF Pending, Uncommitted
<1>5. Unique(Pending \cup {ref})
  BY <1>2, <1>4, UniqueOfMore DEF UniqueInv
<1>6. Pending' = Pending \cup {ref}
  BY <1>1, <1>3 DEF Pending
<1> QED
  BY <1>1, <1>5, <1>6 DEF UniqueInv

LEMMA UniqueStep == IInv /\ UniqueInv /\ [Next]_vars => UniqueInv'
<1> SUFFICES ASSUME IInv, UniqueInv, [Next]_vars PROVE UniqueInv'
  OBVIOUS
<1>1. ASSUME NEW r \in Requests, NEW action, NEW i, NEW date, Read(r, action, i, date)
      PROVE  UniqueInv'
  <2>1. PICK t : Set(r, t) /\ t.at = "read"
    BY <1>1 DEF Read
  <2>2. references' = references
    BY <1>1 DEF Read
  <2> QED
    BY <2>1, <2>2, OneWrites DEF WritesAt
<1>2. ASSUME NEW r \in Requests, Swap(r)
      PROVE  UniqueInv'
  <2> DEFINE t == request[r]
             new == [t EXCEPT !.at = IF t.action = "PROMOTE" THEN "swapped" ELSE "written"]
  <2>1. /\ t.at = "read" /\ references' = references
        /\ Set(r, IF candidate[t.item].status # t.from THEN Idle ELSE new)
    BY <1>2 DEF Swap
  <2>2. t \in Transaction /\ Sound(t)
    BY <2>1 DEF IInv, TypeOK, RequestsSound, Idle
  <2>3. new.made = {}
    BY <2>1, <2>2 DEF Sound, Transaction
  <2> HIDE DEF t, new
  <2>4. CASE Set(r, Idle)
    BY <2>1, <2>4, OneWrites DEF Idle, WritesAt
  <2>5. CASE Set(r, new)
    BY <2>1, <2>3, <2>5, OneWrites
  <2> QED
    BY <2>1, <2>4, <2>5
<1>3. ASSUME NEW r \in Requests, Lookup(r)
      PROVE  UniqueInv'
  <2> DEFINE t == request[r]
             met(ref) == [t EXCEPT !.at = "written", !.reference = ref.url]
             looked == [t EXCEPT !.at = "looked"]
  <2>1. /\ t.at = "swapped" /\ references' = references
        /\ Set(r, Idle) \/ (\E ref : Set(r, met(ref))) \/ Set(r, looked)
    BY <1>3 DEF Lookup
  <2> HIDE DEF looked, met
  <2>2. t \in Transaction /\ Sound(t)
    BY <2>1 DEF IInv, TypeOK, RequestsSound, Idle
  <2>3. t.made = {}
    BY <2>1, <2>2 DEF Sound
  <2>4. looked.made = {} /\ \A ref : met(ref).made = {}
    BY <2>2, <2>3 DEF Transaction, looked, met
  <2> HIDE DEF t
  <2>5. CASE Set(r, Idle)
    BY <2>1, <2>5, OneWrites DEF Idle, WritesAt
  <2>6. CASE Set(r, looked)
    BY <2>1, <2>4, <2>6, OneWrites
  <2>7. CASE \E ref : Set(r, met(ref))
    BY <2>1, <2>4, <2>7, OneWrites
  <2> QED
    BY <2>1, <2>5, <2>6, <2>7
<1>4. ASSUME NEW r \in Requests, Rollback(r)
      PROVE  UniqueInv'
  BY <1>4, OneWrites DEF Rollback, Idle, WritesAt
<1>5. ASSUME NEW listing \in Listings, Fetch(listing)
      PROVE  UniqueInv'
  <2>1. /\ batch' = listing /\ oneWriter' /\ UNCHANGED <<references, request>>
    BY <1>5 DEF Fetch
  <2>2. IsFiniteSet(listing)
    BY ReviewAssumption
  <2> QED
    BY <2>1, <2>2 DEF UniqueInv, Pending, Uncommitted, Writes
<1>6. ASSUME BatchFails \/ SetEnabled \/ UNCHANGED vars
      PROVE  UniqueInv'
  <2>1. /\ UNCHANGED <<references, request, oneWriter>>
        /\ batch' = None \/ batch' = batch
    BY <1>6 DEF BatchFails, SetEnabled, vars
  <2> QED
    BY <2>1 DEF UniqueInv, Pending, Uncommitted, Writes
<1> QED
  BY <1>1, <1>2, <1>3, <1>4, <1>5, <1>6, InsertUnique, CommitUnique, BatchUnique, LinkUnique,
     Zenon DEF Next

\* No two references share an address or a provider item, for any number of reviews
\* at a time, any listings and either database: a flush of ingest() and the link
\* import check the unique columns against what is committed and what others have
\* flushed, and the batch looks every entry up among those it has accepted.
THEOREM ReferencesAreUnique == Spec => []ReferencesUnique
<1>1. UniqueInv => ReferencesUnique
  BY UniqueOfFewer DEF UniqueInv, ReferencesUnique, Pending
<1>2. Spec => []UniqueInv
  BY Invariance, UniqueStart, UniqueStep, PTL DEF Spec
<1> QED
  BY <1>1, <1>2, PTL
=============================================================================
