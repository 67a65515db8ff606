----------------------- MODULE BriefingDeliveryProofs -----------------------
(***************************************************************************)
(* Theorems about BriefingDelivery, for any number of jobs, briefings,     *)
(* events and recipients, on either database.                              *)
(***************************************************************************)
EXTENDS BriefingDelivery, TLAPS

-----------------------------------------------------------------------------
(* The inductive invariant: first the rows, then each job.                 *)

\* A row that is not there reports nothing; one that never was has no delivery.
EmptyRows ==
    \A b \in Ids :
        /\ ~Exists(b) => briefing[b].items = {}
        /\ briefing[b].status = "ABSENT" =>
              \A r \in Recipients : delivery[b][r].status = "NONE"

\* Only its own job writes deliveries of a briefing that is not committed.
OwnDeliveries ==
    \A b \in Ids : briefing[b].owner \in Jobs =>
        \A r \in Recipients :
            delivery[b][r].status = "NONE" \/ delivery[b][r].owner = briefing[b].owner

\* A delivery that is sent stands for letters that arrived.
Arrived ==
    \A b \in Ids : \A r \in Recipients : delivery[b][r].status = "SENT" =>
        \A s \in briefing[b].items : letters[<<s, r>>] > 0

Rows == OneBriefingPerState /\ EmptyRows /\ OwnDeliveries /\ Arrived

\* A job has attempts left until it writes the result.
Counted(j) == job[j].at \notin {"idle", "finish"} => job[j].attempt < MaxRetries

\* A job mails a briefing that was there, and that no other job may take back.
Placed(j) ==
    job[j].at \in {"lookup", "claim", "post", "finish"} =>
        /\ job[j].briefing \in Ids /\ job[j].kind # "generate"
        /\ briefing[job[j].briefing].status # "ABSENT"
        /\ briefing[job[j].briefing].owner \in {j, Nobody}

\* What it mails is what the briefing has, as long as that exists.
Carried(j) ==
    job[j].at \in {"claim", "post", "finish"} /\ Exists(job[j].briefing) =>
        job[j].items = briefing[job[j].briefing].items

\* While it mails, the row of the delivery is its own and keeps the briefing.
Claimed(j) ==
    job[j].at \in {"post", "finish"} =>
        /\ delivery[job[j].briefing][job[j].to] = [status |-> "PENDING", owner |-> j]
        /\ \A s \in Jobs : job[j].briefing \notin job[s].deletes
        /\ ~oneWriter => Exists(job[j].briefing)

\* A job that has heard of a success has a letter that arrived.
Heard(j) ==
    job[j].at = "finish" /\ job[j].sent =>
        \A s \in job[j].items : letters[<<s, job[j].to>>] > 0

\* A job deletes committed briefings without notices, and is alone in it.
Deleting(j) ==
    \A b \in job[j].deletes :
        /\ job[j].at = "commit" /\ Committed(b)
        /\ \A s \in briefing[b].items : s \notin Notices
        /\ \A s \in Jobs \ {j} : b \notin job[s].deletes
        /\ \A r \in Recipients : delivery[b][r].owner \in {j, Nobody}

\* A briefing whose status a job has written exists until the job ends.
Marked(j) ==
    \A m \in job[j].marks :
        /\ Exists(m[1]) /\ briefing[m[1]].owner \in {j, Nobody}
        /\ \A s \in Jobs : m[1] \notin job[s].deletes

JobInv(j) ==
    /\ Counted(j) /\ Placed(j) /\ Carried(j) /\ Claimed(j)
    /\ Heard(j) /\ Deleting(j) /\ Marked(j)

IInv == TypeOK /\ Rows /\ \A j \in Jobs : JobInv(j)

-----------------------------------------------------------------------------
(* The transactions.                                                       *)

\* The fields of a transaction, and of one that is over.
LEMMA Fields ==
    ASSUME NEW t \in Transaction \cup {Idle}
    PROVE  /\ t.deletes \in SUBSET Ids /\ t.marks \in SUBSET (Ids \X Status)
           /\ t.sync \in SUBSET (Events \X Facts) /\ t.writes \in BOOLEAN
           /\ t = Idle => t.at = "idle" /\ t.deletes = {} /\ t.marks = {}
           /\ t.at # "idle" => t \in Transaction
           /\ t \in Transaction => t.at # "idle"
<1>1. CASE t \in Transaction
  <2>1. /\ t.deletes \in SUBSET Ids /\ t.marks \in SUBSET (Ids \X Status)
        /\ t.sync \in SUBSET (Events \X Facts) /\ t.writes \in BOOLEAN
        /\ t.at # "idle"
    BY <1>1 DEF Transaction
  <2>2. t # Idle
    BY <2>1 DEF Idle
  <2>. QED
    BY <1>1, <2>1, <2>2
<1>2. CASE t = Idle
  <2>1. t.at = "idle" /\ t.deletes = {} /\ t.marks = {} /\ t.sync = {} /\ t.writes = FALSE
    BY <1>2 DEF Idle
  <2>2. t \notin Transaction
    BY <2>1 DEF Transaction
  <2>. QED
    BY <2>1, <2>2
<1>. QED
  BY <1>1, <1>2

\* The types of what a transaction holds.
LEMMA MoreFields ==
    ASSUME NEW t \in Transaction
    PROVE  /\ t.kind \in {"cycle", "generate", "send"} /\ t.to \in Recipients
           /\ t.key \in Key /\ t.items \in SUBSET States /\ t.attempt \in 0 .. MaxRetries
           /\ t.session \in Sessions \cup {Nobody} /\ t.loaded \in Status
           /\ t.briefing \in Ids \cup {Nobody} /\ t.ready \in BOOLEAN /\ t.sent \in BOOLEAN
  BY DEF Transaction

\* A transaction that begins has done nothing.
LEMMA NewJobFacts ==
    ASSUME NEW kind \in {"cycle", "generate", "send"},
           NEW at \in {"look", "lookup", "retain", "commit"}
    PROVE  /\ NewJob(kind, at) \in Transaction
           /\ NewJob(kind, at).at = at /\ NewJob(kind, at).kind = kind
           /\ NewJob(kind, at).deletes = {} /\ NewJob(kind, at).marks = {}
           /\ NewJob(kind, at).attempt < MaxRetries
<1>1. AnyRecipient \in Recipients
  BY DeliveryAssumption DEF AnyRecipient
<1>2. {} \in Key /\ {} \in SUBSET States
  BY DEF Key
<1>3. 0 \in 0 .. MaxRetries /\ 0 < MaxRetries
  BY DeliveryAssumption
<1>. QED
  BY <1>1, <1>2, <1>3 DEF NewJob, Transaction, Status

\* A step of a transaction forgets what it does not need, or ends it.
LEMMA ProceedFacts ==
    ASSUME NEW t \in Transaction, t.deletes = {},
           NEW at \in {"look", "lookup", "retain", "commit"},
           at = "lookup" => t.attempt < MaxRetries
    PROVE  /\ Proceed(t, at) \in Transaction \cup {Idle}
           /\ Proceed(t, at).at \in {at, "idle"}
           /\ Proceed(t, at).deletes = {} /\ Proceed(t, at).marks \subseteq t.marks
           /\ Proceed(t, at).at # "idle" => Proceed(t, at).attempt < MaxRetries
           /\ at = "lookup" => /\ Proceed(t, at).briefing = t.briefing
                               /\ Proceed(t, at).kind = t.kind
<1>1. CASE at = "lookup"
  <2>1. {} \in Key /\ {} \in SUBSET States
    BY DEF Key
  <2>2. Proceed(t, at) = [t EXCEPT !.at = at, !.key = {}, !.items = {}]
    BY <1>1 DEF Proceed
  <2>3. PICK u : u = Proceed(t, at)
    OBVIOUS
  <2>4. u \in Transaction /\ u.at = "lookup" /\ u.deletes = t.deletes /\ u.marks = t.marks
        /\ u.attempt = t.attempt /\ u.briefing = t.briefing /\ u.kind = t.kind
    BY <1>1, <2>1, <2>2, <2>3 DEF Transaction
  <2>. QED
    BY <1>1, <2>3, <2>4
<1>2. CASE at = "commit" /\ ~t.writes
  BY <1>2, Fields DEF Proceed
<1>3. CASE at # "lookup" /\ ~(at = "commit" /\ ~t.writes)
  <2>1. PICK n \in Transaction : n = NewJob("cycle", at)
    BY NewJobFacts
  <2>2. n.at = at /\ n.deletes = {} /\ n.attempt < MaxRetries
    BY <2>1, NewJobFacts
  <2>3. Proceed(t, at) = [n EXCEPT !.sync = t.sync, !.marks = t.marks, !.writes = t.writes]
    BY <1>3, <2>1 DEF Proceed
  <2>4. t.sync \in SUBSET (Events \X Facts) /\ t.marks \in SUBSET (Ids \X Status)
        /\ t.writes \in BOOLEAN
    BY Fields
  <2>5. PICK u : u = Proceed(t, at)
    OBVIOUS
  <2>6. u \in Transaction /\ u.at = n.at /\ u.deletes = n.deletes /\ u.marks = t.marks
        /\ u.attempt = n.attempt
    BY <2>3, <2>4, <2>5 DEF Transaction
  <2>. QED
    BY <1>3, <2>2, <2>5, <2>6
<1>. QED
  BY <1>1, <1>2, <1>3

\* The same for the step after a mail.
LEMMA AfterMailFacts ==
    ASSUME NEW t \in Transaction, t.deletes = {}, t.kind # "generate"
    PROVE  /\ AfterMail(t) \in Transaction \cup {Idle}
           /\ AfterMail(t).at \in {"look", "retain", "commit", "idle"}
           /\ AfterMail(t).deletes = {} /\ AfterMail(t).marks \subseteq t.marks
           /\ AfterMail(t).at # "idle" => AfterMail(t).attempt < MaxRetries
<1>. DEFINE at == CASE t.kind = "send" -> "commit"
                    [] t.kind = "cycle" -> IF t.session # Nobody THEN "look" ELSE "retain"
<1>1. at \in {"look", "retain", "commit"}
  BY MoreFields
<1>2. AfterMail(t) = Proceed(t, at)
  BY DEF AfterMail
<1>. HIDE DEF at
<1>. QED
  BY <1>1, <1>2, ProceedFacts

-----------------------------------------------------------------------------
(* What a step of one job leaves to the others.                            *)

Guarantee(j) ==
    /\ \A s \in Jobs \ {j} : job'[s] = job[s]
    /\ oneWriter' = oneWriter
    /\ \A p \in States \X Recipients : letters'[p] >= letters[p]
    /\ \A b \in Ids : briefing[b].status # "ABSENT" /\ briefing[b].owner # j =>
          /\ briefing'[b].status # "ABSENT" /\ briefing'[b].owner = briefing[b].owner
          /\ briefing'[b].status \in Status =>
                Exists(b) /\ briefing'[b].items = briefing[b].items
          /\ Exists(b) /\ b \notin job[j].deletes => briefing'[b].status \in Status
    /\ \A b \in Ids, r \in Recipients :
          /\ delivery[b][r].owner \in Jobs \ {j} => delivery'[b][r] = delivery[b][r]
          /\ \/ delivery'[b][r].owner \in {delivery[b][r].owner, Nobody}
             \/ delivery'[b][r].owner = j /\ \A s \in Jobs \ {j} : b \notin job[s].deletes
    /\ \A b \in job'[j].deletes \ job[j].deletes :
          /\ \A r \in Recipients : delivery[b][r].owner \in {j, Nobody}
          /\ \A s \in Jobs \ {j} :
                b \notin job[s].deletes /\ \A m \in job[s].marks : m[1] # b

\* What a step of one job leaves to another: if it keeps the guarantee, the
\* other job is as right as it was.
LEMMA Others ==
    ASSUME IInv, TypeOK', NEW j \in Jobs, Guarantee(j), NEW s \in Jobs \ {j}
    PROVE  JobInv(s)'
<1>. DEFINE b == job[s].briefing
            r == job[s].to
<1>1. job'[s] = job[s] /\ s # Nobody /\ j # Nobody /\ s # j /\ JobInv(s) /\ JobInv(j)
  BY DeliveryAssumption DEF Guarantee, IInv
<1>2. job[s] \in Transaction \cup {Idle} /\ job[j] \in Transaction \cup {Idle}
      /\ job'[j] \in Transaction \cup {Idle}
  BY DEF IInv, TypeOK
<1>3. job[s].deletes \in SUBSET Ids /\ job[s].marks \in SUBSET (Ids \X Status)
      /\ job[j].deletes \in SUBSET Ids /\ job'[j].deletes \in SUBSET Ids
  BY <1>2, Fields
<1>4. job[s].at # "idle" => job[s].to \in Recipients /\ job[s].items \in SUBSET States
  BY <1>2, Fields, MoreFields
<1>5. Counted(s)'
  BY <1>1 DEF Counted, JobInv
<1>6. job[s].at \in {"lookup", "claim", "post", "finish"} =>
         /\ b \in Ids /\ briefing[b].status # "ABSENT" /\ briefing[b].owner # j
  BY <1>1 DEF Placed, JobInv
<1>7. Placed(s)'
  BY <1>1, <1>6 DEF Placed, JobInv, Guarantee
<1>8. Carried(s)'
  BY <1>1, <1>6 DEF Carried, JobInv, Guarantee, Exists
<1>9. Claimed(s)'
  <2>. SUFFICES ASSUME job[s].at \in {"post", "finish"}
                PROVE  /\ delivery'[b][r] = [status |-> "PENDING", owner |-> s]
                       /\ \A x \in Jobs : b \notin job'[x].deletes
                       /\ ~oneWriter => briefing'[b].status \in Status
    BY <1>1 DEF Claimed, Guarantee, Exists
  <2>1. b \in Ids /\ r \in Recipients /\ briefing[b].owner # j
        /\ briefing[b].status # "ABSENT"
    BY <1>4, <1>6
  <2>2. delivery[b][r] = [status |-> "PENDING", owner |-> s]
        /\ (\A x \in Jobs : b \notin job[x].deletes) /\ (~oneWriter => Exists(b))
    BY <1>1 DEF JobInv, Claimed
  <2>3. delivery[b][r].owner = s
    BY <2>2
  <2>4. delivery'[b][r] = delivery[b][r]
    BY <1>1, <2>1, <2>3 DEF Guarantee
  <2>5. b \notin job'[j].deletes
    BY <1>1, <2>1, <2>2, <2>3 DEF Guarantee
  <2>6. \A x \in Jobs : b \notin job'[x].deletes
    BY <2>2, <2>5 DEF Guarantee
  <2>7. ~oneWriter => briefing'[b].status \in Status
    BY <2>1, <2>2 DEF Guarantee
  <2>. QED
    BY <2>2, <2>4, <2>6, <2>7
<1>10. Heard(s)'
  <2>. SUFFICES ASSUME job[s].at = "finish", job[s].sent, NEW x \in job[s].items
                PROVE  letters'[<<x, r>>] > 0
    BY <1>1 DEF Heard
  <2>1. <<x, r>> \in States \X Recipients
    BY <1>4
  <2>2. letters[<<x, r>>] > 0 /\ letters'[<<x, r>>] >= letters[<<x, r>>]
    BY <1>1, <2>1 DEF JobInv, Heard, Guarantee
  <2>3. letters[<<x, r>>] \in 0 .. MaxLetters /\ letters'[<<x, r>>] \in 0 .. MaxLetters
    BY <2>1 DEF IInv, TypeOK
  <2>. QED
    BY <2>2, <2>3, DeliveryAssumption
<1>11. Deleting(s)'
  <2>. SUFFICES ASSUME NEW c \in job[s].deletes
                PROVE  /\ job[s].at = "commit"
                       /\ briefing'[c].status \in Status /\ briefing'[c].owner = Nobody
                       /\ \A x \in briefing'[c].items : x \notin Notices
                       /\ \A x \in Jobs \ {s} : c \notin job'[x].deletes
                       /\ \A x \in Recipients : delivery'[c][x].owner \in {s, Nobody}
    BY <1>1 DEF Deleting, Committed, Exists
  <2>1. /\ job[s].at = "commit" /\ Exists(c) /\ briefing[c].owner = Nobody
        /\ \A x \in briefing[c].items : x \notin Notices
        /\ \A x \in Jobs \ {s} : c \notin job[x].deletes
        /\ \A x \in Recipients : delivery[c][x].owner \in {s, Nobody}
    BY <1>1 DEF JobInv, Deleting, Committed
  <2>2. c \in Ids /\ briefing[c].owner # j /\ briefing[c].status # "ABSENT"
    BY <1>3, <2>1, DeliveryAssumption DEF Exists, Status
  <2>3. c \notin job[j].deletes /\ c \notin job'[j].deletes
    BY <1>1, <2>1 DEF Guarantee
  <2>4. \A x \in Recipients : delivery'[c][x].owner \in {s, Nobody}
    BY <1>1, <2>1, <2>2 DEF Guarantee
  <2>. QED
    BY <2>1, <2>2, <2>3, <2>4 DEF Guarantee
<1>12. Marked(s)'
  <2>. SUFFICES ASSUME NEW m \in job[s].marks
                PROVE  /\ briefing'[m[1]].status \in Status
                       /\ briefing'[m[1]].owner \in {s, Nobody}
                       /\ \A x \in Jobs : m[1] \notin job'[x].deletes
    BY <1>1 DEF Marked, Exists
  <2>1. /\ Exists(m[1]) /\ briefing[m[1]].owner \in {s, Nobody}
        /\ \A x \in Jobs : m[1] \notin job[x].deletes
    BY <1>1 DEF JobInv, Marked
  <2>2. m[1] \in Ids /\ briefing[m[1]].owner # j /\ briefing[m[1]].status # "ABSENT"
    BY <1>1, <1>3, <2>1, DeliveryAssumption DEF Exists, Status
  <2>3. m[1] \notin job'[j].deletes
    BY <1>1, <2>1 DEF Guarantee
  <2>. QED
    BY <2>1, <2>2, <2>3 DEF Guarantee
<1>. QED
  BY <1>5, <1>7, <1>8, <1>9, <1>10, <1>11, <1>12 DEF JobInv

\* What a job must be after its own step, when it is not about to send.
LEMMA Itself ==
    ASSUME IInv, NEW j \in Jobs, NEW u \in Transaction \cup {Idle}, job'[j] = u,
           \A s \in Jobs \ {j} : job'[s] = job[s],
           u.at \notin {"post", "finish"}, u.deletes = {},
           u.at # "idle" => u.attempt < MaxRetries,
           u.at \in {"lookup", "claim"} =>
              /\ u.briefing \in Ids /\ u.kind # "generate"
              /\ briefing'[u.briefing].status # "ABSENT"
              /\ briefing'[u.briefing].owner \in {j, Nobody},
           u.at = "claim" /\ briefing'[u.briefing].status \in Status =>
              u.items = briefing'[u.briefing].items,
           \A m \in u.marks :
              /\ briefing'[m[1]].status \in Status /\ briefing'[m[1]].owner \in {j, Nobody}
              /\ \A s \in Jobs \ {j} : m[1] \notin job[s].deletes
    PROVE  JobInv(j)'
<1>1. Counted(j)' /\ Placed(j)' /\ Claimed(j)' /\ Heard(j)' /\ Deleting(j)'
  BY DEF Counted, Placed, Claimed, Heard, Deleting
<1>2. Carried(j)'
  BY DEF Carried, Exists
<1>3. Marked(j)'
  BY DEF Marked, Exists
<1>. QED
  BY <1>1, <1>2, <1>3 DEF JobInv

\* A step that changes only its transaction.
LEMMA QuietStep ==
    ASSUME IInv, NEW j \in Jobs, NEW u \in Transaction \cup {Idle}, Set(j, u),
           UNCHANGED <<event, briefing, delivery, letters, oneWriter>>,
           u.at \notin {"post", "finish"}, u.deletes = {}, u.marks \subseteq job[j].marks,
           u.at # "idle" => u.attempt < MaxRetries,
           u.at \in {"lookup", "claim"} =>
              /\ u.briefing \in Ids /\ u.kind # "generate"
              /\ briefing[u.briefing].status # "ABSENT"
              /\ briefing[u.briefing].owner \in {j, Nobody},
           u.at = "claim" => u.items = briefing[u.briefing].items
    PROVE  IInv'
<1>1. job' = [job EXCEPT ![j] = u] /\ job \in [Jobs -> Transaction \cup {Idle}]
  BY DEF Set, IInv, TypeOK
<1>2. job'[j] = u /\ \A s \in Jobs \ {j} : job'[s] = job[s]
  BY <1>1
<1>3. TypeOK'
  BY <1>1 DEF IInv, TypeOK
<1>4. Rows'
  BY DEF IInv, Rows, OneBriefingPerState, EmptyRows, OwnDeliveries, Arrived, Exists
<1>5. Guarantee(j)
  <2>1. \A p \in States \X Recipients : letters'[p] >= letters[p]
    BY DeliveryAssumption DEF IInv, TypeOK
  <2>. QED
    BY <1>2, <2>1 DEF Guarantee, Exists, Status
<1>6. JobInv(j) /\ \A m \in u.marks :
              /\ Exists(m[1]) /\ briefing[m[1]].owner \in {j, Nobody}
              /\ \A s \in Jobs : m[1] \notin job[s].deletes
  BY DEF IInv, JobInv, Marked
<1>7. JobInv(j)'
  BY <1>2, <1>6, Itself DEF Exists
<1>8. \A s \in Jobs \ {j} : JobInv(s)'
  BY <1>3, <1>5, Others
<1>9. \A s \in Jobs : JobInv(s)'
  BY <1>7, <1>8
<1>. QED
  BY <1>3, <1>4, <1>9 DEF IInv

\* A command begins.
LEMMA StartSteps ==
    ASSUME IInv, NEW j \in Jobs,
           \/ \E sync \in Syncs, session \in Sessions \cup {Nobody} : StartCycle(j, sync, session)
           \/ \E session \in Sessions \cup {Nobody} : StartGenerate(j, session)
           \/ \E b \in Ids : StartSendOf(j, b)
           \/ StartSend(j)
           \/ StartRetention(j)
    PROVE  IInv'
<1>1. ASSUME NEW t \in Transaction, Start(j, t), t.deletes = {}, t.marks = {},
             t.attempt < MaxRetries, t.at \notin {"post", "finish", "claim"},
             t.at = "lookup" => /\ t.briefing \in Ids /\ t.kind # "generate"
                                /\ Committed(t.briefing)
      PROVE  IInv'
  <2>1. Set(j, t) /\ UNCHANGED <<event, briefing, delivery, letters, oneWriter>>
    BY <1>1 DEF Start
  <2>. QED
    BY <1>1, <2>1, QuietStep DEF Committed, Exists, Status
<1>2. ASSUME NEW sync \in Syncs, NEW session \in Sessions \cup {Nobody},
             StartCycle(j, sync, session)
      PROVE  IInv'
  <2>1. PICK n \in Transaction : n = NewJob("cycle", "look")
    BY NewJobFacts
  <2>2. n.at = "look" /\ n.deletes = {} /\ n.marks = {} /\ n.attempt < MaxRetries
    BY <2>1, NewJobFacts
  <2>3. sync \in SUBSET (Events \X Facts)
    BY DEF Syncs
  <2>4. PICK t : t = [n EXCEPT !.sync = sync, !.session = session, !.writes = sync # {}]
    OBVIOUS
  <2>5. t \in Transaction /\ t.at = "look" /\ t.deletes = {} /\ t.marks = {}
        /\ t.attempt < MaxRetries
    BY <2>2, <2>3, <2>4 DEF Transaction
  <2>6. Start(j, t)
    BY <1>2, <2>1, <2>4 DEF StartCycle
  <2>. QED
    BY <1>1, <2>5, <2>6
<1>3. ASSUME NEW session \in Sessions \cup {Nobody}, StartGenerate(j, session)
      PROVE  IInv'
  <2>1. PICK n \in Transaction : n = NewJob("generate", "look")
    BY NewJobFacts
  <2>2. n.at = "look" /\ n.deletes = {} /\ n.marks = {} /\ n.attempt < MaxRetries
    BY <2>1, NewJobFacts
  <2>3. PICK t : t = [n EXCEPT !.session = session]
    OBVIOUS
  <2>4. t \in Transaction /\ t.at = "look" /\ t.deletes = {} /\ t.marks = {}
        /\ t.attempt < MaxRetries
    BY <2>2, <2>3 DEF Transaction
  <2>5. Start(j, t)
    BY <1>3, <2>1, <2>3 DEF StartGenerate
  <2>. QED
    BY <1>1, <2>4, <2>5
<1>4. ASSUME NEW b \in Ids, StartSendOf(j, b)
      PROVE  IInv'
  <2>1. PICK n \in Transaction : n = NewJob("send", "lookup")
    BY NewJobFacts
  <2>2. n.at = "lookup" /\ n.kind = "send" /\ n.deletes = {} /\ n.marks = {}
        /\ n.attempt < MaxRetries
    BY <2>1, NewJobFacts
  <2>3. PICK t : t = [n EXCEPT !.briefing = b, !.loaded = briefing[b].status]
    OBVIOUS
  <2>4. briefing[b].status \in Status
    BY <1>4 DEF StartSendOf, Committed, Exists
  <2>5. t \in Transaction /\ t.at = "lookup" /\ t.deletes = {} /\ t.marks = {}
        /\ t.attempt < MaxRetries /\ t.briefing = b /\ t.kind = "send"
    BY <2>2, <2>3, <2>4 DEF Transaction
  <2>6. Start(j, t) /\ Committed(b)
    BY <1>4, <2>1, <2>3 DEF StartSendOf
  <2>. QED
    BY <1>1, <2>5, <2>6
<1>5. CASE StartSend(j)
  BY <1>1, <1>5, NewJobFacts DEF StartSend
<1>6. CASE StartRetention(j)
  BY <1>1, <1>6, NewJobFacts DEF StartRetention
<1>. QED
  BY <1>2, <1>3, <1>4, <1>5, <1>6

\* A job that runs has a transaction; only one that is to commit deletes.
LEMMA Running ==
    ASSUME IInv, NEW j \in Jobs, job[j].at # "idle"
    PROVE  /\ job[j] \in Transaction /\ j # Nobody /\ JobInv(j)
           /\ job[j].at # "commit" => job[j].deletes = {}
           /\ job[j].at # "finish" => job[j].attempt < MaxRetries
<1>1. job[j] \in Transaction /\ JobInv(j) /\ j # Nobody
  BY Fields, DeliveryAssumption DEF IInv, TypeOK
<1>. QED
  BY <1>1 DEF JobInv, Deleting, Counted

\* Only a briefing that is to be mailed is looked up, and not by a generation.
LEMMA OnwardFacts ==
    ASSUME NEW t \in Transaction, NEW items, NEW at \in Onward(t, items)
    PROVE  /\ at \in {"look", "lookup", "retain", "commit"}
           /\ at = "lookup" => t.kind # "generate"
<1>1. CASE t.kind = "generate"
  BY <1>1 DEF Onward
<1>2. CASE t.kind = "send"
  BY <1>2 DEF Onward
<1>3. CASE t.kind = "cycle"
  BY <1>3 DEF Onward
<1>. QED
  BY <1>1, <1>2, <1>3, MoreFields

\* A job looks up the briefing it would generate.
LEMMA LookStep ==
    ASSUME IInv, NEW j \in Jobs, NEW period \in SUBSET Events, Look(j, period)
    PROVE  IInv'
<1>. DEFINE eligible(t) == {s \in States : s[1] \in period /\ View(j, s[1]) = s[2]}
            key(t) == IF t.session = Nobody THEN eligible(t) ELSE t.session
            found(t) == {b \in Ids : Visible(j, b) /\ briefing[b].key = key(t)}
            fresh(t) == {s \in eligible(t) :
                            \A b \in Ids : Visible(j, b) => s \notin briefing[b].items}
<1>1. PICK t : t = job[j]
  OBVIOUS
<1>2. t.at = "look" /\ UNCHANGED <<event, briefing, delivery, letters, oneWriter>>
  BY <1>1 DEF Look
<1>3. t \in Transaction /\ t.deletes = {} /\ t.attempt < MaxRetries
  BY <1>1, <1>2, Running
<1>4. \/ \E b \in found(t) : \E at \in Onward(t, briefing[b].items) :
            Set(j, Proceed([t EXCEPT !.briefing = b, !.loaded = briefing[b].status], at))
      \/ Set(j, [t EXCEPT !.at = "store", !.key = key(t), !.items = fresh(t)])
      \/ Set(j, Proceed(t, IF t.kind = "cycle" THEN "retain" ELSE "commit"))
  BY <1>1 DEF Look
<1>5. ASSUME NEW b \in found(t), NEW at \in Onward(t, briefing[b].items),
             Set(j, Proceed([t EXCEPT !.briefing = b, !.loaded = briefing[b].status], at))
      PROVE  IInv'
  <2>1. b \in Ids /\ briefing[b].status \in Status /\ briefing[b].owner \in {j, Nobody}
    BY <1>5 DEF Visible, Exists
  <2>2. PICK v : v = [t EXCEPT !.briefing = b, !.loaded = briefing[b].status]
    OBVIOUS
  <2>3. v \in Transaction /\ v.deletes = {} /\ v.attempt < MaxRetries /\ v.marks = t.marks
        /\ v.briefing = b /\ v.kind = t.kind
    BY <1>3, <2>1, <2>2 DEF Transaction
  <2>4. at \in {"look", "lookup", "retain", "commit"} /\ (at = "lookup" => t.kind # "generate")
    BY <1>3, <1>5, OnwardFacts
  <2>5. PICK u : u = Proceed(v, at)
    OBVIOUS
  <2>6. /\ u \in Transaction \cup {Idle} /\ u.at \in {at, "idle"} /\ u.deletes = {}
        /\ u.marks \subseteq t.marks /\ (u.at # "idle" => u.attempt < MaxRetries)
        /\ u.at = "lookup" => u.briefing = b /\ u.kind = t.kind
    BY <2>3, <2>4, <2>5, ProceedFacts
  <2>7. Set(j, u) /\ briefing[b].status # "ABSENT"
    BY <1>5, <2>1, <2>2, <2>5 DEF Status
  <2>. QED
    BY <1>1, <1>2, <2>1, <2>4, <2>6, <2>7, QuietStep
<1>6. CASE Set(j, [t EXCEPT !.at = "store", !.key = key(t), !.items = fresh(t)])
  <2>1. key(t) \in Key /\ fresh(t) \in SUBSET States
    BY <1>3, MoreFields DEF Key
  <2>2. PICK u : u = [t EXCEPT !.at = "store", !.key = key(t), !.items = fresh(t)]
    OBVIOUS
  <2>. HIDE DEF key, fresh
  <2>3. u \in Transaction /\ u.at = "store" /\ u.deletes = {} /\ u.attempt < MaxRetries
        /\ u.marks = t.marks
    BY <1>3, <2>1, <2>2 DEF Transaction
  <2>. QED
    BY <1>1, <1>2, <1>6, <2>2, <2>3, QuietStep
<1>7. CASE Set(j, Proceed(t, IF t.kind = "cycle" THEN "retain" ELSE "commit"))
  <2>1. PICK at \in {"retain", "commit"} : at = IF t.kind = "cycle" THEN "retain" ELSE "commit"
    OBVIOUS
  <2>2. PICK u : u = Proceed(t, at)
    OBVIOUS
  <2>3. /\ u \in Transaction \cup {Idle} /\ u.at \in {at, "idle"} /\ u.deletes = {}
        /\ u.marks \subseteq t.marks /\ (u.at # "idle" => u.attempt < MaxRetries)
    BY <1>3, <2>2, ProceedFacts
  <2>. QED
    BY <1>1, <1>2, <1>7, <2>1, <2>2, <2>3, QuietStep
<1>. QED
  BY <1>4, <1>5, <1>6, <1>7

\* A job looks up the delivery it would make.
LEMMA LookupStep ==
    ASSUME IInv, NEW j \in Jobs, NEW to \in Recipients, NEW ready \in BOOLEAN,
           Lookup(j, to, ready)
    PROVE  IInv'
<1>1. PICK t : t = job[j]
  OBVIOUS
<1>2. t.at = "lookup" /\ UNCHANGED <<event, briefing, delivery, letters, oneWriter>>
  BY <1>1 DEF Lookup
<1>3. t \in Transaction /\ t.deletes = {} /\ t.attempt < MaxRetries /\ JobInv(j)
  BY <1>1, <1>2, Running
<1>4. t.briefing \in Ids /\ t.kind # "generate" /\ briefing[t.briefing].status # "ABSENT"
      /\ briefing[t.briefing].owner \in {j, Nobody}
  BY <1>1, <1>2, <1>3 DEF JobInv, Placed
<1>5. \/ Set(j, AfterMail(t))
      \/ Set(j, [t EXCEPT !.at = "claim", !.to = to, !.ready = ready,
                          !.items = briefing[t.briefing].items])
  BY <1>1 DEF Lookup
<1>6. CASE Set(j, AfterMail(t))
  <2>1. PICK u : u = AfterMail(t)
    OBVIOUS
  <2>2. /\ u \in Transaction \cup {Idle} /\ u.at \in {"look", "retain", "commit", "idle"}
        /\ u.deletes = {} /\ u.marks \subseteq t.marks
        /\ u.at # "idle" => u.attempt < MaxRetries
    BY <1>3, <1>4, <2>1, AfterMailFacts
  <2>. QED
    BY <1>1, <1>2, <1>6, <2>1, <2>2, QuietStep
<1>7. CASE Set(j, [t EXCEPT !.at = "claim", !.to = to, !.ready = ready,
                            !.items = briefing[t.briefing].items])
  <2>1. PICK u : u = [t EXCEPT !.at = "claim", !.to = to, !.ready = ready,
                               !.items = briefing[t.briefing].items]
    OBVIOUS
  <2>2. briefing[t.briefing].items \in SUBSET States
    BY <1>4 DEF IInv, TypeOK, Briefing
  <2>3. u \in Transaction /\ u.at = "claim" /\ u.deletes = {} /\ u.attempt < MaxRetries
        /\ u.marks = t.marks /\ u.briefing = t.briefing /\ u.kind = t.kind
        /\ u.items = briefing[t.briefing].items
    BY <1>3, <2>1, <2>2 DEF Transaction
  <2>. QED
    BY <1>1, <1>2, <1>4, <1>7, <2>1, <2>3, QuietStep
<1>. QED
  BY <1>5, <1>6, <1>7

-----------------------------------------------------------------------------
(* The steps that change rows.                                             *)

\* A step is right when its rows, its job and what it leaves to others are.
LEMMA StepIsRight ==
    ASSUME IInv, NEW j \in Jobs, TypeOK', Rows', Guarantee(j), JobInv(j)'
    PROVE  IInv'
<1>1. \A s \in Jobs \ {j} : JobInv(s)'
  BY Others
<1>2. \A s \in Jobs : JobInv(s)'
  BY <1>1
<1>. QED
  BY <1>2 DEF IInv

\* A briefing that is absent or deleted has no items.
LEMMA NoRows ==
    /\ \A status \in {"ABSENT", "DELETED"} :
          /\ NoBriefing(status) \in Briefing
          /\ NoBriefing(status).status = status /\ NoBriefing(status).items = {}
          /\ NoBriefing(status).owner = Nobody /\ status \notin Status
    /\ NoDelivery \in Delivery /\ NoDelivery.status = "NONE" /\ NoDelivery.owner = Nobody
<1>1. {} \in Key /\ {} \in SUBSET States
  BY DEF Key
<1>. QED
  BY <1>1 DEF NoBriefing, NoDelivery, Briefing, Delivery, Status

\* A rollback removes the rows of its job and no others.
LEMMA UndoStep ==
    ASSUME IInv, NEW j \in Jobs, Undo(j)
    PROVE  IInv'
<1>1. j # Nobody /\ job \in [Jobs -> Transaction \cup {Idle}] /\ job' = [job EXCEPT ![j] = Idle]
  BY DeliveryAssumption DEF IInv, TypeOK, Undo, Set
<1>2. /\ \A b \in Ids : briefing'[b] = IF briefing[b].owner = j THEN NoBriefing("ABSENT")
                                         ELSE briefing[b]
      /\ \A b \in Ids, r \in Recipients :
            delivery'[b][r] = IF delivery[b][r].owner = j THEN NoDelivery ELSE delivery[b][r]
      /\ UNCHANGED <<event, letters, oneWriter>>
  BY DEF Undo
<1>3. job'[j] = Idle /\ \A s \in Jobs \ {j} : job'[s] = job[s]
  BY <1>1
<1>4. TypeOK'
  <2>1. briefing' \in [Ids -> Briefing] /\ delivery' \in [Ids -> [Recipients -> Delivery]]
    BY NoRows DEF Undo, IInv, TypeOK
  <2>. QED
    BY <1>1, <1>2, <2>1 DEF IInv, TypeOK
<1>5. Guarantee(j)
  <2>1. \A p \in States \X Recipients : letters'[p] >= letters[p]
    BY <1>2, DeliveryAssumption DEF IInv, TypeOK
  <2>2. job'[j].deletes = {}
    BY <1>3, Fields
  <2>3. \A b \in Ids : briefing[b].owner # j => briefing'[b] = briefing[b]
    BY <1>2
  <2>4. \A b \in Ids, r \in Recipients :
          /\ delivery[b][r].owner \in Jobs \ {j} => delivery'[b][r] = delivery[b][r]
          /\ delivery'[b][r].owner \in {delivery[b][r].owner, Nobody}
    BY <1>2, NoRows
  <2>. QED
    BY <1>2, <1>3, <2>1, <2>2, <2>3, <2>4 DEF Guarantee, Exists, Status
<1>6. Rows'
  <2>1. \A b \in Ids : briefing'[b].items \subseteq briefing[b].items
    BY <1>2, NoRows
  <2>2. OneBriefingPerState'
    BY <2>1 DEF IInv, Rows, OneBriefingPerState
  <2>3. \A b \in Ids, r \in Recipients :
          /\ delivery[b][r].status = "NONE" => delivery'[b][r].status = "NONE"
          /\ delivery[b][r].owner = j => delivery'[b][r].status = "NONE"
          /\ delivery[b][r].owner # j => delivery'[b][r] = delivery[b][r]
          /\ delivery'[b][r].status = "SENT" => delivery[b][r].status = "SENT"
    BY <1>2, NoRows
  <2>4. EmptyRows' /\ OwnDeliveries'
    BY <1>1, <1>2, <2>3, NoRows DEF IInv, Rows, EmptyRows, OwnDeliveries, Exists
  <2>5. Arrived'
    BY <1>2, <2>1, <2>3 DEF IInv, Rows, Arrived
  <2>. QED
    BY <2>2, <2>4, <2>5 DEF Rows
<1>7. JobInv(j)'
  BY <1>3, Fields, Itself
<1>. QED
  BY <1>4, <1>5, <1>6, <1>7, StepIsRight

\* A crash is a rollback.
LEMMA CrashStep ==
    ASSUME IInv, NEW j \in Jobs, Crash(j)
    PROVE  IInv'
  BY UndoStep DEF Crash

\* The unique constraints keep the states of two briefings apart.
LEMMA StoreStep ==
    ASSUME IInv, NEW j \in Jobs, NEW b \in Ids, Store(j, b)
    PROVE  IInv'
<1>1. PICK t : t = job[j]
  OBVIOUS
<1>2. t.at = "store" /\ briefing[b].status = "ABSENT"
  BY <1>1 DEF Store
<1>3. t \in Transaction /\ t.deletes = {} /\ t.attempt < MaxRetries /\ j # Nobody /\ JobInv(j)
  BY <1>1, <1>2, Running
<1>4. CASE Undo(j)
  BY <1>4, UndoStep
<1>5. ASSUME ~Undo(j)
      PROVE  IInv'
  <2>1. PICK status \in {"READY", "SKIPPED_NO_CHANGE"}, at \in Onward(t, t.items) :
           /\ briefing' = [briefing EXCEPT ![b] = [status |-> status, key |-> t.key,
                              items |-> t.items, owner |-> j]]
           /\ Set(j, Proceed([t EXCEPT !.briefing = b, !.loaded = status, !.writes = TRUE], at))
           /\ UNCHANGED <<event, delivery, letters, oneWriter>>
    BY <1>1, <1>5 DEF Store
  <2>2. \A c \in Ids : ~Clash(c, t)
    BY <1>1, <1>5 DEF Store
  <2>3. PICK v : v = [t EXCEPT !.briefing = b, !.loaded = status, !.writes = TRUE]
    OBVIOUS
  <2>4. v \in Transaction /\ v.deletes = {} /\ v.attempt < MaxRetries /\ v.marks = t.marks
        /\ v.briefing = b /\ v.kind = t.kind
    BY <1>3, <2>3 DEF Transaction, Status
  <2>5. at \in {"look", "lookup", "retain", "commit"} /\ (at = "lookup" => t.kind # "generate")
    BY <1>3, OnwardFacts
  <2>6. PICK u : u = Proceed(v, at)
    OBVIOUS
  <2>7. /\ u \in Transaction \cup {Idle} /\ u.at \in {at, "idle"} /\ u.deletes = {}
        /\ u.marks \subseteq t.marks /\ (u.at # "idle" => u.attempt < MaxRetries)
        /\ u.at = "lookup" => u.briefing = b /\ u.kind = t.kind
    BY <2>4, <2>5, <2>6, ProceedFacts
  <2>8. job' = [job EXCEPT ![j] = u] /\ job \in [Jobs -> Transaction \cup {Idle}]
    BY <2>1, <2>3, <2>6 DEF Set, IInv, TypeOK
  <2>9. job'[j] = u /\ \A s \in Jobs \ {j} : job'[s] = job[s]
    BY <2>8
  <2>10. /\ \A c \in Ids \ {b} : briefing'[c] = briefing[c]
         /\ briefing'[b].status = status /\ briefing'[b].items = t.items
         /\ briefing'[b].owner = j
    BY <2>1 DEF IInv, TypeOK
  <2>11. TypeOK'
    <3>1. t.key \in Key /\ t.items \in SUBSET States
      BY <1>3, MoreFields
    <3>2. [status |-> status, key |-> t.key, items |-> t.items, owner |-> j] \in Briefing
      BY <3>1 DEF Briefing, Status
    <3>3. briefing' \in [Ids -> Briefing]
      BY <2>1, <3>2 DEF IInv, TypeOK
    <3>. QED
      BY <2>1, <2>7, <2>8, <3>3 DEF IInv, TypeOK
  <2>12. Guarantee(j)
    <3>1. \A p \in States \X Recipients : letters'[p] >= letters[p]
      BY <2>1, DeliveryAssumption DEF IInv, TypeOK
    <3>. QED
      BY <1>2, <2>1, <2>7, <2>9, <2>10, <3>1 DEF Guarantee, Exists, Status
  <2>13. Rows'
    <3>1. OneBriefingPerState'
      <4>1. \A c \in Ids : briefing[c].items \cap t.items = {}
        BY <2>2 DEF Clash, IInv, Rows, EmptyRows
      <4>. QED
        BY <2>10, <4>1 DEF IInv, Rows, OneBriefingPerState
    <3>2. status \in Status /\ status # "ABSENT"
      BY DEF Status
    <3>3. \A r \in Recipients : delivery[b][r].status = "NONE"
      BY <1>2 DEF IInv, Rows, EmptyRows
    <3>4. EmptyRows'
      BY <2>1, <2>10, <3>2 DEF IInv, Rows, EmptyRows, Exists
    <3>5. OwnDeliveries' /\ Arrived'
      BY <2>1, <2>10, <3>3 DEF IInv, Rows, OwnDeliveries, Arrived
    <3>. QED
      BY <3>1, <3>4, <3>5 DEF Rows
  <2>14. JobInv(j)'
    <3>1. \A m \in u.marks :
             /\ Exists(m[1]) /\ briefing[m[1]].owner \in {j, Nobody} /\ m[1] \in Ids
             /\ \A s \in Jobs : m[1] \notin job[s].deletes
      BY <1>1, <1>3, <2>7, Fields DEF JobInv, Marked
    <3>2. \A m \in u.marks : m[1] # b
      BY <1>2, <3>1 DEF Exists, Status
    <3>3. \A m \in u.marks :
             /\ briefing'[m[1]].status \in Status /\ briefing'[m[1]].owner \in {j, Nobody}
             /\ \A s \in Jobs \ {j} : m[1] \notin job[s].deletes
      BY <2>10, <3>1, <3>2 DEF Exists
    <3>. QED
      BY <2>5, <2>7, <2>9, <2>10, <3>3, Itself
  <2>. QED
    BY <2>11, <2>12, <2>13, <2>14, StepIsRight
<1>. QED
  BY <1>4, <1>5

\* The unique key and the row locks give a pending delivery one owner.
LEMMA ClaimStep ==
    ASSUME IInv, NEW j \in Jobs, Claim(j)
    PROVE  IInv'
<1>1. PICK t : t = job[j]
  OBVIOUS
<1>. DEFINE b == t.briefing
            row == delivery[b][t.to]
<1>2. t.at = "claim" /\ row.owner = Nobody /\ NotBeingDeleted(j, b)
  BY <1>1 DEF Claim
<1>3. t \in Transaction /\ t.deletes = {} /\ t.attempt < MaxRetries /\ j # Nobody /\ JobInv(j)
  BY <1>1, <1>2, Running
<1>4. b \in Ids /\ t.kind # "generate" /\ briefing[b].status # "ABSENT"
      /\ briefing[b].owner \in {j, Nobody} /\ t.to \in Recipients
  BY <1>1, <1>2, <1>3, MoreFields DEF JobInv, Placed
<1>5. CASE Undo(j)
  BY <1>5, UndoStep
<1>6. ASSUME ~Undo(j)
      PROVE  IInv'
  <2>1. PICK status : status = IF t.ready THEN "PENDING" ELSE "NOT_CONFIGURED"
    OBVIOUS
  <2>2. PICK v : v = IF t.ready THEN [t EXCEPT !.at = "post", !.writes = TRUE]
                     ELSE [t EXCEPT !.writes = TRUE]
    OBVIOUS
  <2>3. /\ v \in Transaction /\ v.deletes = {} /\ v.attempt < MaxRetries /\ v.marks = t.marks
        /\ v.briefing = b /\ v.to = t.to /\ v.kind = t.kind /\ v.items = t.items
        /\ t.ready => v.at = "post"
    BY <1>3, <2>2 DEF Transaction
  <2>4. PICK u : u = IF t.ready THEN v ELSE AfterMail(v)
    OBVIOUS
  <2>5. ~t.ready => /\ u \in Transaction \cup {Idle}
                    /\ u.at \in {"look", "retain", "commit", "idle"}
                    /\ u.deletes = {} /\ u.marks \subseteq t.marks
                    /\ u.at # "idle" => u.attempt < MaxRetries
    BY <1>4, <2>3, <2>4, AfterMailFacts
  <2>6. u \in Transaction \cup {Idle} /\ u.deletes = {} /\ u.marks \subseteq t.marks
    BY <2>3, <2>4, <2>5
  <2>7. /\ ~(row.status # "NONE" \/ (~oneWriter /\ ~Exists(b)))
        /\ delivery' = [delivery EXCEPT ![b][t.to] = [status |-> status, owner |-> j]]
        /\ Set(j, u)
        /\ UNCHANGED <<event, briefing, letters, oneWriter>>
    BY <1>1, <1>6, <2>1, <2>2, <2>4 DEF Claim
  <2>8. job' = [job EXCEPT ![j] = u] /\ job \in [Jobs -> Transaction \cup {Idle}]
    BY <2>7 DEF Set, IInv, TypeOK
  <2>9. job'[j] = u /\ \A s \in Jobs \ {j} : job'[s] = job[s]
    BY <2>8
  <2>10. /\ delivery'[b][t.to] = [status |-> status, owner |-> j]
         /\ delivery'[b][t.to].owner = j /\ delivery'[b][t.to].status = status
         /\ \A c \in Ids, r \in Recipients : c # b \/ r # t.to =>
               delivery'[c][r] = delivery[c][r]
    BY <1>4, <2>7 DEF IInv, TypeOK
  <2>11. TypeOK'
    <3>1. [status |-> status, owner |-> j] \in Delivery
      BY <2>1 DEF Delivery
    <3>2. delivery' \in [Ids -> [Recipients -> Delivery]]
      BY <1>4, <2>7, <3>1 DEF IInv, TypeOK
    <3>. QED
      BY <2>6, <2>7, <2>8, <3>2 DEF IInv, TypeOK
  <2>12. Guarantee(j)
    <3>1. \A p \in States \X Recipients : letters'[p] >= letters[p]
      BY <2>7, DeliveryAssumption DEF IInv, TypeOK
    <3>2. \A c \in Ids, r \in Recipients :
             /\ delivery[c][r].owner \in Jobs \ {j} => delivery'[c][r] = delivery[c][r]
             /\ \/ delivery'[c][r].owner \in {delivery[c][r].owner, Nobody}
                \/ delivery'[c][r].owner = j /\ \A s \in Jobs \ {j} : c \notin job[s].deletes
      BY <1>2, <2>10, DeliveryAssumption DEF NotBeingDeleted
    <3>. QED
      BY <2>6, <2>7, <2>9, <3>1, <3>2 DEF Guarantee, Exists, Status
  <2>13. Rows'
    <3>1. OneBriefingPerState' /\ EmptyRows'
      BY <1>4, <2>7, <2>10 DEF IInv, Rows, OneBriefingPerState, EmptyRows, Exists
    <3>2. OwnDeliveries'
      BY <1>4, <2>7, <2>10, DeliveryAssumption DEF IInv, Rows, OwnDeliveries
    <3>3. Arrived'
      BY <2>1, <2>7, <2>10 DEF IInv, Rows, Arrived
    <3>. QED
      BY <3>1, <3>2, <3>3 DEF Rows
  <2>14. \A m \in u.marks :
             /\ briefing'[m[1]].status \in Status /\ briefing'[m[1]].owner \in {j, Nobody}
             /\ \A s \in Jobs : m[1] \notin job[s].deletes
    BY <1>1, <1>3, <2>6, <2>7 DEF JobInv, Marked, Exists
  <2>15. JobInv(j)'
    <3>1. CASE ~t.ready
      BY <2>5, <2>9, <2>14, <3>1, Itself
    <3>2. CASE t.ready
      <4>1. u = v /\ u.at = "post" /\ status = "PENDING"
        BY <2>1, <2>3, <2>4, <3>2
      <4>2. Counted(j)' /\ Heard(j)' /\ Deleting(j)'
        BY <2>3, <2>9, <4>1 DEF Counted, Heard, Deleting
      <4>3. Placed(j)'
        BY <1>4, <2>3, <2>7, <2>9, <4>1 DEF Placed
      <4>4. Carried(j)'
        BY <1>1, <1>2, <1>3, <2>3, <2>7, <2>9, <4>1 DEF JobInv, Carried, Exists
      <4>5. Claimed(j)'
        BY <1>2, <2>3, <2>7, <2>9, <2>10, <4>1 DEF Claimed, NotBeingDeleted, Exists
      <4>6. Marked(j)'
        BY <2>6, <2>9, <2>14 DEF Marked, Exists
      <4>. QED
        BY <4>2, <4>3, <4>4, <4>5, <4>6 DEF JobInv
    <3>. QED
      BY <3>1, <3>2
  <2>. QED
    BY <2>11, <2>12, <2>13, <2>15, StepIsRight
<1>. QED
  BY <1>5, <1>6

\* An attempt to send; what was answered has arrived.
LEMMA PostStep ==
    ASSUME IInv, NEW j \in Jobs, NEW taken \in BOOLEAN, NEW heard \in BOOLEAN,
           Post(j, taken, heard)
    PROVE  IInv'
<1>1. PICK t : t = job[j]
  OBVIOUS
<1>. DEFINE b == t.briefing
            about == t.items \X {t.to}
            sent == taken /\ heard
<1>2. t.at = "post" /\ UNCHANGED <<event, briefing, delivery, oneWriter>>
  BY <1>1 DEF Post
<1>3. t \in Transaction /\ t.deletes = {} /\ t.attempt < MaxRetries /\ j # Nobody /\ JobInv(j)
  BY <1>1, <1>2, Running
<1>4. t.to \in Recipients /\ t.items \in SUBSET States /\ t.attempt \in 0 .. MaxRetries
  BY <1>3, MoreFields
<1>5. PICK u : u = [t EXCEPT !.sent = sent, !.attempt = @ + 1,
                             !.at = IF sent \/ t.attempt + 1 = MaxRetries
                                    THEN "finish" ELSE "post"]
  OBVIOUS
<1>6. /\ u \in Transaction /\ u.deletes = {} /\ u.marks = t.marks /\ u.briefing = b
      /\ u.to = t.to /\ u.kind = t.kind /\ u.items = t.items /\ u.sent = sent
      /\ u.at \in {"post", "finish"} /\ (u.at = "post" => u.attempt < MaxRetries)
  <2>1. t.attempt + 1 \in 0 .. MaxRetries /\ (t.attempt + 1 # MaxRetries => t.attempt + 1 < MaxRetries)
    BY <1>3, <1>4, DeliveryAssumption
  <2>. QED
    BY <1>3, <1>5, <2>1 DEF Transaction
<1>7. job' = [job EXCEPT ![j] = u] /\ job \in [Jobs -> Transaction \cup {Idle}]
  BY <1>1, <1>5 DEF Post, Set, IInv, TypeOK
<1>8. job'[j] = u /\ \A s \in Jobs \ {j} : job'[s] = job[s]
  BY <1>7
<1>9. \A p \in States \X Recipients :
         /\ letters[p] \in 0 .. MaxLetters
         /\ letters'[p] = IF taken /\ p \in about THEN letters[p] + 1 ELSE letters[p]
         /\ taken /\ p \in about => letters[p] < MaxLetters
  BY <1>1 DEF Post, IInv, TypeOK
<1>10. \A p \in States \X Recipients :
         letters'[p] \in 0 .. MaxLetters /\ letters'[p] >= letters[p]
  BY <1>9, DeliveryAssumption
<1>11. TypeOK'
  <2>1. letters' \in [States \X Recipients -> 0 .. MaxLetters]
    BY <1>1, <1>10 DEF Post
  <2>. QED
    BY <1>2, <1>6, <1>7, <2>1 DEF IInv, TypeOK
<1>12. Guarantee(j)
  BY <1>2, <1>6, <1>8, <1>10 DEF Guarantee, Exists, Status
<1>13. Rows'
  <2>1. OneBriefingPerState' /\ EmptyRows' /\ OwnDeliveries'
    BY <1>2 DEF IInv, Rows, OneBriefingPerState, EmptyRows, OwnDeliveries, Exists
  <2>2. ASSUME NEW c \in Ids, NEW r \in Recipients, delivery[c][r].status = "SENT",
               NEW s \in briefing[c].items
        PROVE  letters'[<<s, r>>] > 0
    <3>1. s \in States
      BY DEF IInv, TypeOK, Briefing
    <3>2. letters[<<s, r>>] > 0
      BY <2>2 DEF IInv, Rows, Arrived
    <3>. QED
      BY <1>9, <1>10, <3>1, <3>2, DeliveryAssumption
  <2>3. Arrived'
    BY <1>2, <2>2 DEF Arrived
  <2>. QED
    BY <2>1, <2>3 DEF Rows
<1>14. JobInv(j)'
  <2>1. Counted(j)' /\ Deleting(j)'
    BY <1>6, <1>8 DEF Counted, Deleting
  <2>2. Placed(j)' /\ Carried(j)'
    BY <1>1, <1>2, <1>3, <1>6, <1>8 DEF JobInv, Placed, Carried, Exists
  <2>3. Claimed(j)' /\ Marked(j)'
    BY <1>1, <1>2, <1>3, <1>6, <1>8 DEF JobInv, Claimed, Marked, Exists
  <2>4. Heard(j)'
    <3>. SUFFICES ASSUME sent, NEW s \in t.items
                  PROVE  letters'[<<s, t.to>>] > 0
      BY <1>6, <1>8 DEF Heard
    <3>1. <<s, t.to>> \in States \X Recipients /\ <<s, t.to>> \in about
      BY <1>4
    <3>. QED
      BY <1>9, <3>1, DeliveryAssumption
  <2>. QED
    BY <2>1, <2>2, <2>3, <2>4 DEF JobInv
<1>. QED
  BY <1>11, <1>12, <1>13, <1>14, StepIsRight

\* The result of the mail is written to the rows of its own job.
LEMMA FinishStep ==
    ASSUME IInv, NEW j \in Jobs, Finish(j)
    PROVE  IInv'
<1>1. PICK t : t = job[j]
  OBVIOUS
<1>. DEFINE b == t.briefing
<1>2. t.at = "finish"
  BY <1>1 DEF Finish
<1>3. t \in Transaction /\ t.deletes = {} /\ j # Nobody /\ JobInv(j)
  BY <1>1, <1>2, Running
<1>4. b \in Ids /\ t.kind # "generate" /\ briefing[b].status # "ABSENT"
      /\ briefing[b].owner \in {j, Nobody} /\ t.to \in Recipients
  BY <1>1, <1>2, <1>3, MoreFields DEF JobInv, Placed
<1>5. CASE Undo(j)
  BY <1>5, UndoStep
<1>6. ASSUME ~Undo(j)
      PROVE  IInv'
  <2>1. PICK result : result = IF t.sent THEN "SENT" ELSE "FAILED"
    OBVIOUS
  <2>2. PICK v : v = [t EXCEPT !.marks = IF result # t.loaded THEN @ \cup {<<b, result>>} ELSE @]
    OBVIOUS
  <2>3. /\ result # t.loaded => Exists(b)
        /\ delivery' = [delivery EXCEPT ![b][t.to].status = result]
        /\ Set(j, AfterMail(v))
        /\ UNCHANGED <<event, briefing, letters, oneWriter>>
    BY <1>1, <1>6, <2>1, <2>2 DEF Finish
  <2>4. /\ v \in Transaction /\ v.deletes = {} /\ v.kind = t.kind
        /\ v.marks \subseteq t.marks \cup {<<b, result>>}
        /\ result = t.loaded => v.marks = t.marks
    <3>1. result \in Status
      BY <2>1 DEF Status
    <3>. QED
      BY <1>3, <1>4, <2>2, <3>1 DEF Transaction
  <2>5. PICK u : u = AfterMail(v)
    OBVIOUS
  <2>6. /\ u \in Transaction \cup {Idle}
        /\ u.at \in {"look", "retain", "commit", "idle"}
        /\ u.deletes = {} /\ u.marks \subseteq v.marks
        /\ u.at # "idle" => u.attempt < MaxRetries
    BY <1>4, <2>4, <2>5, AfterMailFacts
  <2>7. job' = [job EXCEPT ![j] = u] /\ job \in [Jobs -> Transaction \cup {Idle}]
    BY <2>3, <2>5 DEF Set, IInv, TypeOK
  <2>8. job'[j] = u /\ \A s \in Jobs \ {j} : job'[s] = job[s]
    BY <2>7
  <2>9. delivery[b][t.to].owner = j /\ \A s \in Jobs : b \notin job[s].deletes
    BY <1>1, <1>2, <1>3 DEF JobInv, Claimed
  <2>10. /\ delivery'[b][t.to] = [delivery[b][t.to] EXCEPT !.status = result]
         /\ \A c \in Ids, r \in Recipients : c # b \/ r # t.to =>
               delivery'[c][r] = delivery[c][r]
    BY <1>4, <2>3 DEF IInv, TypeOK
  <2>11. delivery'[b][t.to].owner = j /\ delivery'[b][t.to].status = result
         /\ delivery'[b][t.to] \in Delivery
    <3>1. delivery[b][t.to] \in Delivery
      BY <1>4 DEF IInv, TypeOK
    <3>. QED
      BY <2>1, <2>9, <2>10, <3>1 DEF Delivery
  <2>12. TypeOK'
    <3>1. delivery' \in [Ids -> [Recipients -> Delivery]]
      <4>1. /\ DOMAIN delivery' = Ids /\ delivery' = [c \in Ids |-> delivery'[c]]
            /\ \A c \in Ids : DOMAIN delivery'[c] = Recipients
                              /\ delivery'[c] = [r \in Recipients |-> delivery'[c][r]]
        BY <1>4, <2>3 DEF IInv, TypeOK
      <4>2. \A c \in Ids, r \in Recipients : delivery'[c][r] \in Delivery
        BY <2>10, <2>11 DEF IInv, TypeOK
      <4>. QED
        BY <4>1, <4>2
    <3>. QED
      BY <2>3, <2>6, <2>7, <3>1 DEF IInv, TypeOK
  <2>13. Guarantee(j)
    <3>1. \A p \in States \X Recipients : letters'[p] >= letters[p]
      BY <2>3, DeliveryAssumption DEF IInv, TypeOK
    <3>2. \A c \in Ids, r \in Recipients :
             /\ delivery[c][r].owner \in Jobs \ {j} => delivery'[c][r] = delivery[c][r]
             /\ delivery'[c][r].owner = delivery[c][r].owner
      BY <2>9, <2>10, <2>11
    <3>. QED
      BY <2>3, <2>6, <2>8, <3>1, <3>2 DEF Guarantee, Exists, Status
  <2>14. Rows'
    <3>1. OneBriefingPerState' /\ EmptyRows'
      BY <1>4, <2>3, <2>10 DEF IInv, Rows, OneBriefingPerState, EmptyRows, Exists
    <3>2. OwnDeliveries'
      BY <1>4, <2>3, <2>10, <2>11, DeliveryAssumption DEF IInv, Rows, OwnDeliveries
    <3>3. briefing[b].items \subseteq t.items
      BY <1>1, <1>2, <1>3, <1>4 DEF IInv, Rows, EmptyRows, JobInv, Carried
    <3>4. result = "SENT" => \A s \in t.items : letters[<<s, t.to>>] > 0
      BY <1>1, <1>2, <1>3, <2>1 DEF JobInv, Heard
    <3>5. Arrived'
      BY <2>3, <2>10, <2>11, <3>3, <3>4 DEF IInv, Rows, Arrived
    <3>. QED
      BY <3>1, <3>2, <3>5 DEF Rows
  <2>15. JobInv(j)'
    <3>1. ASSUME NEW m \in u.marks
          PROVE  /\ briefing'[m[1]].status \in Status /\ briefing'[m[1]].owner \in {j, Nobody}
                 /\ \A s \in Jobs : m[1] \notin job[s].deletes
      <4>1. CASE m \in t.marks
        BY <1>1, <1>3, <2>3, <4>1 DEF JobInv, Marked, Exists
      <4>2. CASE m \notin t.marks
        <5>1. m = <<b, result>> /\ Exists(b)
          BY <2>3, <2>4, <2>6, <4>2
        <5>. QED
          BY <1>4, <2>3, <2>9, <5>1 DEF Exists
      <4>. QED
        BY <4>1, <4>2
    <3>. QED
      BY <2>6, <2>8, <3>1, Itself
  <2>. QED
    BY <2>12, <2>13, <2>14, <2>15, StepIsRight
<1>. QED
  BY <1>5, <1>6

\* A retention chooses briefings whose deliveries no other job holds.
LEMMA RetainStep ==
    ASSUME IInv, NEW j \in Jobs, Retain(j)
    PROVE  IInv'
<1>1. PICK t : t = job[j]
  OBVIOUS
<1>2. t.at = "retain" /\ UNCHANGED <<event, briefing, delivery, letters, oneWriter>>
  BY <1>1 DEF Retain
<1>3. t \in Transaction /\ t.deletes = {} /\ t.attempt < MaxRetries /\ j # Nobody /\ JobInv(j)
  BY <1>1, <1>2, Running
<1>4. PICK chosen \in SUBSET Expirable(j) :
         /\ \A b \in chosen : MayDelete(j, b)
         /\ Set(j, [t EXCEPT !.at = "commit", !.deletes = chosen, !.writes = TRUE])
  BY <1>1 DEF Retain
<1>5. PICK u : u = [t EXCEPT !.at = "commit", !.deletes = chosen, !.writes = TRUE]
  OBVIOUS
<1>6. \A b \in chosen :
         /\ b \in Ids /\ Committed(b) /\ \A s \in briefing[b].items : s \notin Notices
         /\ \A m \in t.marks : m[1] # b
         /\ \A r \in Recipients : delivery[b][r].owner \in {j, Nobody}
         /\ \A s \in Jobs \ {j} : b \notin job[s].deletes /\ \A m \in job[s].marks : m[1] # b
  <2>. SUFFICES ASSUME NEW b \in chosen
                PROVE  /\ b \in Ids /\ Committed(b) /\ \A s \in briefing[b].items : s \notin Notices
                       /\ \A m \in t.marks : m[1] # b
                       /\ \A r \in Recipients : delivery[b][r].owner \in {j, Nobody}
                       /\ \A s \in Jobs \ {j} :
                             b \notin job[s].deletes /\ \A m \in job[s].marks : m[1] # b
    OBVIOUS
  <2>1. b \in Expirable(j) /\ MayDelete(j, b)
    BY <1>4
  <2>2. /\ b \in Ids /\ Committed(b) /\ \A s \in briefing[b].items : s \notin Notices
        /\ \A m \in job[j].marks : m[1] # b
    BY <2>1 DEF Expirable
  <2>3. /\ \A r \in Recipients : delivery[b][r].owner \in {j, Nobody}
        /\ \A s \in Jobs \ {j} : b \notin job[s].deletes /\ \A m \in job[s].marks : m[1] # b
    BY <2>1 DEF MayDelete, NotBeingDeleted
  <2>. QED
    BY <1>1, <2>2, <2>3
<1>7. u \in Transaction /\ u.at = "commit" /\ u.deletes = chosen /\ u.marks = t.marks
      /\ u.attempt < MaxRetries
  <2>1. chosen \in SUBSET Ids
    BY <1>6
  <2>. QED
    BY <1>3, <1>5, <2>1 DEF Transaction
<1>8. job' = [job EXCEPT ![j] = u] /\ job \in [Jobs -> Transaction \cup {Idle}]
  BY <1>4, <1>5 DEF Set, IInv, TypeOK
<1>9. job'[j] = u /\ \A s \in Jobs \ {j} : job'[s] = job[s]
  BY <1>8
<1>10. TypeOK'
  BY <1>2, <1>7, <1>8 DEF IInv, TypeOK
<1>11. Guarantee(j)
  <2>1. \A p \in States \X Recipients : letters'[p] >= letters[p]
    BY <1>2, DeliveryAssumption DEF IInv, TypeOK
  <2>. QED
    BY <1>2, <1>6, <1>7, <1>9, <2>1 DEF Guarantee, Exists, Status
<1>12. Rows'
  BY <1>2 DEF IInv, Rows, OneBriefingPerState, EmptyRows, OwnDeliveries, Arrived, Exists
<1>13. JobInv(j)'
  <2>1. Counted(j)' /\ Placed(j)' /\ Carried(j)' /\ Claimed(j)' /\ Heard(j)'
    BY <1>7, <1>9 DEF Counted, Placed, Carried, Claimed, Heard
  <2>2. Deleting(j)'
    BY <1>2, <1>6, <1>7, <1>9 DEF Deleting, Committed, Exists
  <2>3. Marked(j)'
    BY <1>1, <1>2, <1>3, <1>6, <1>7, <1>9 DEF JobInv, Marked, Exists
  <2>. QED
    BY <2>1, <2>2, <2>3 DEF JobInv
<1>. QED
  BY <1>10, <1>11, <1>12, <1>13, StepIsRight

\* What a commit makes of a briefing that it does not delete.
LEMMA KeptFacts ==
    ASSUME IInv, NEW j \in Jobs, NEW b \in Ids, b \notin job[j].deletes
    PROVE  /\ Kept(j, b) \in Briefing /\ Kept(j, b).items = briefing[b].items
           /\ briefing[b].owner = j => Kept(j, b).owner = Nobody
           /\ briefing[b].owner # j => Kept(j, b).owner = briefing[b].owner
           /\ Kept(j, b).status \in Status <=> Exists(b)
           /\ Kept(j, b).status = "ABSENT" => briefing[b].status = "ABSENT"
<1>1. PICK row \in Briefing : row = briefing[b]
  BY DEF IInv, TypeOK
<1>2. PICK marks : marks = {m \in job[j].marks : m[1] = b}
  OBVIOUS
<1>3. PICK kept : kept = Kept(j, b)
  OBVIOUS
<1>4. CASE marks = {}
  <2>1. kept = [row EXCEPT !.owner = IF row.owner = j THEN Nobody ELSE @]
    BY <1>1, <1>2, <1>3, <1>4 DEF Kept
  <2>2. /\ kept \in Briefing /\ kept.items = row.items /\ kept.status = row.status
        /\ kept.owner = IF row.owner = j THEN Nobody ELSE row.owner
    BY <1>1, <2>1 DEF Briefing
  <2>. QED
    BY <1>1, <1>3, <2>2 DEF Exists
<1>5. CASE marks # {}
  <2>1. PICK m \in marks : m = CHOOSE x \in marks : TRUE
    BY <1>5
  <2>2. m[2] \in Status
    <3>1. job[j].marks \in SUBSET (Ids \X Status)
      BY Fields DEF IInv, TypeOK
    <3>. QED
      BY <1>2, <3>1
  <2>3. Exists(b) /\ row.owner \in {j, Nobody}
    BY <1>1, <1>2 DEF IInv, JobInv, Marked
  <2>4. kept = [row EXCEPT !.status = m[2], !.owner = Nobody]
    BY <1>1, <1>2, <1>3, <1>5, <2>1 DEF Kept
  <2>5. /\ kept \in Briefing /\ kept.items = row.items /\ kept.status = m[2]
        /\ kept.owner = Nobody
    BY <1>1, <2>2, <2>4 DEF Briefing
  <2>. QED
    BY <1>1, <1>3, <2>2, <2>3, <2>5, DeliveryAssumption DEF Status
<1>. QED
  BY <1>4, <1>5

\* The rows after a commit.
LEMMA CommitFacts ==
    ASSUME IInv, NEW j \in Jobs, Commit(j)
    PROVE  /\ \A b \in job[j].deletes :
                  /\ briefing'[b].status = "DELETED" /\ briefing'[b].items = {}
                  /\ briefing'[b].owner = Nobody
                  /\ \A r \in Recipients : delivery'[b][r] = NoDelivery
           /\ \A b \in Ids \ job[j].deletes :
                  /\ briefing'[b].items = briefing[b].items
                  /\ briefing[b].owner = j => briefing'[b].owner = Nobody
                  /\ briefing[b].owner # j => briefing'[b].owner = briefing[b].owner
                  /\ briefing'[b].status \in Status <=> Exists(b)
                  /\ briefing'[b].status = "ABSENT" => briefing[b].status = "ABSENT"
                  /\ \A r \in Recipients :
                        /\ delivery'[b][r].status = delivery[b][r].status
                        /\ delivery[b][r].owner = j => delivery'[b][r].owner = Nobody
                        /\ delivery[b][r].owner # j => delivery'[b][r] = delivery[b][r]
           /\ briefing' \in [Ids -> Briefing] /\ delivery' \in [Ids -> [Recipients -> Delivery]]
<1>1. job[j].deletes \in SUBSET Ids
  BY Fields DEF IInv, TypeOK
<1>2. /\ briefing' = [b \in Ids |-> IF b \in job[j].deletes THEN NoBriefing("DELETED")
                                    ELSE Kept(j, b)]
      /\ delivery' = [b \in Ids |-> [r \in Recipients |->
                        IF b \in job[j].deletes THEN NoDelivery
                        ELSE IF delivery[b][r].owner = j
                        THEN [delivery[b][r] EXCEPT !.owner = Nobody] ELSE delivery[b][r]]]
  BY DEF Commit
<1>3. \A b \in Ids : briefing'[b] = IF b \in job[j].deletes THEN NoBriefing("DELETED")
                                   ELSE Kept(j, b)
  BY <1>2
<1>4. \A b \in job[j].deletes :
         /\ briefing'[b].status = "DELETED" /\ briefing'[b].items = {}
         /\ briefing'[b].owner = Nobody
         /\ \A r \in Recipients : delivery'[b][r] = NoDelivery
  BY <1>1, <1>2, <1>3, NoRows
<1>5. ASSUME NEW b \in Ids, NEW r \in Recipients, b \notin job[j].deletes
      PROVE  /\ delivery'[b][r].status = delivery[b][r].status
             /\ delivery[b][r].owner = j => delivery'[b][r].owner = Nobody
             /\ delivery[b][r].owner # j => delivery'[b][r] = delivery[b][r]
             /\ delivery'[b][r] \in Delivery
  <2>1. delivery[b][r] \in Delivery
    BY DEF IInv, TypeOK
  <2>2. delivery'[b][r] = IF delivery[b][r].owner = j
                          THEN [delivery[b][r] EXCEPT !.owner = Nobody] ELSE delivery[b][r]
    BY <1>2, <1>5
  <2>. QED
    BY <2>1, <2>2 DEF Delivery
<1>6. briefing' \in [Ids -> Briefing]
  BY <1>2, KeptFacts, NoRows
<1>7. \A b \in Ids, r \in Recipients : delivery'[b][r] \in Delivery
  BY <1>4, <1>5, NoRows
<1>8. delivery' \in [Ids -> [Recipients -> Delivery]]
  BY <1>2, <1>7
<1>9. \A b \in Ids \ job[j].deletes :
         /\ briefing'[b].items = briefing[b].items
         /\ briefing[b].owner = j => briefing'[b].owner = Nobody
         /\ briefing[b].owner # j => briefing'[b].owner = briefing[b].owner
         /\ briefing'[b].status \in Status <=> Exists(b)
         /\ briefing'[b].status = "ABSENT" => briefing[b].status = "ABSENT"
  BY <1>3, KeptFacts
<1>. QED
  BY <1>4, <1>5, <1>6, <1>8, <1>9

\* A commit hands the rows of its job over and removes what it deletes.
LEMMA CommitStep ==
    ASSUME IInv, NEW j \in Jobs, Commit(j)
    PROVE  IInv'
<1>1. PICK t : t = job[j]
  OBVIOUS
<1>2. t.at # "idle" /\ UNCHANGED <<letters, oneWriter>>
  BY <1>1 DEF Commit
<1>3. t \in Transaction /\ j # Nobody /\ JobInv(j)
  BY <1>1, <1>2, Running
<1>4. job' = [job EXCEPT ![j] = Idle] /\ job \in [Jobs -> Transaction \cup {Idle}]
  BY DEF Commit, Set, IInv, TypeOK
<1>5. job'[j] = Idle /\ \A s \in Jobs \ {j} : job'[s] = job[s]
  BY <1>4
<1>6. TypeOK'
  <2>1. \A e \in Events : View(j, e) \in Facts \cup {Plain}
    BY DEF View, IInv, TypeOK
  <2>2. event' \in [Events -> Facts \cup {Plain}]
    BY <2>1 DEF Commit
  <2>. QED
    BY <1>2, <1>4, <2>2, CommitFacts DEF IInv, TypeOK
<1>7. \A b \in t.deletes :
         /\ b \in Ids /\ Committed(b)
         /\ \A r \in Recipients : delivery[b][r].owner \in {j, Nobody}
  BY <1>1, <1>3, Fields DEF JobInv, Deleting
<1>8. Guarantee(j)
  <2>1. \A p \in States \X Recipients : letters'[p] >= letters[p]
    BY <1>2, DeliveryAssumption DEF IInv, TypeOK
  <2>2. job'[j].deletes = {}
    BY <1>5, Fields
  <2>3. ASSUME NEW b \in Ids, briefing[b].status # "ABSENT", briefing[b].owner # j
        PROVE  /\ briefing'[b].status # "ABSENT" /\ briefing'[b].owner = briefing[b].owner
               /\ briefing'[b].status \in Status =>
                     Exists(b) /\ briefing'[b].items = briefing[b].items
               /\ Exists(b) /\ b \notin job[j].deletes => briefing'[b].status \in Status
    <3>1. CASE b \in t.deletes
      <4>1. briefing'[b].status = "DELETED" /\ briefing'[b].owner = Nobody
        BY <1>1, <3>1, CommitFacts
      <4>. QED
        BY <1>1, <1>7, <3>1, <4>1 DEF Committed, Status
    <3>2. CASE b \notin t.deletes
      BY <1>1, <2>3, <3>2, CommitFacts
    <3>. QED
      BY <3>1, <3>2
  <2>4. ASSUME NEW b \in Ids, NEW r \in Recipients
        PROVE  /\ delivery[b][r].owner \in Jobs \ {j} => delivery'[b][r] = delivery[b][r]
               /\ delivery'[b][r].owner \in {delivery[b][r].owner, Nobody}
    <3>1. CASE b \in t.deletes
      BY <1>1, <1>7, <3>1, CommitFacts, NoRows, DeliveryAssumption
    <3>2. CASE b \notin t.deletes
      BY <1>1, <3>2, CommitFacts
    <3>. QED
      BY <3>1, <3>2
  <2>. QED
    BY <1>2, <1>5, <2>1, <2>2, <2>3, <2>4 DEF Guarantee
<1>9. Rows'
  <2>1. \A b \in Ids : briefing'[b].items \subseteq briefing[b].items
    BY CommitFacts
  <2>2. OneBriefingPerState'
    BY <2>1 DEF IInv, Rows, OneBriefingPerState
  <2>3. EmptyRows'
    <3>. SUFFICES ASSUME NEW b \in Ids
                  PROVE  /\ briefing'[b].status \notin Status => briefing'[b].items = {}
                         /\ briefing'[b].status = "ABSENT" =>
                               \A r \in Recipients : delivery'[b][r].status = "NONE"
      BY DEF EmptyRows, Exists
    <3>1. CASE b \in job[j].deletes
      BY <3>1, CommitFacts
    <3>2. CASE b \notin job[j].deletes
      <4>1. /\ ~Exists(b) => briefing[b].items = {}
            /\ briefing[b].status = "ABSENT" =>
                  \A r \in Recipients : delivery[b][r].status = "NONE"
        BY DEF IInv, Rows, EmptyRows
      <4>. QED
        BY <3>2, <4>1, CommitFacts
    <3>. QED
      BY <3>1, <3>2
  <2>4. OwnDeliveries'
    <3>. SUFFICES ASSUME NEW b \in Ids, briefing'[b].owner \in Jobs, NEW r \in Recipients
                  PROVE  \/ delivery'[b][r].status = "NONE"
                         \/ delivery'[b][r].owner = briefing'[b].owner
      BY DEF OwnDeliveries
    <3>1. b \notin job[j].deletes /\ briefing[b].owner # j
          /\ briefing'[b].owner = briefing[b].owner
      BY CommitFacts, DeliveryAssumption
    <3>2. delivery[b][r].status = "NONE" \/ delivery[b][r].owner = briefing[b].owner
      BY <3>1 DEF IInv, Rows, OwnDeliveries
    <3>. QED
      BY <3>1, <3>2, CommitFacts
  <2>5. Arrived'
    <3>. SUFFICES ASSUME NEW b \in Ids, NEW r \in Recipients, delivery'[b][r].status = "SENT",
                         NEW s \in briefing'[b].items
                  PROVE  letters[<<s, r>>] > 0
      BY <1>2 DEF Arrived
    <3>1. b \notin job[j].deletes /\ delivery[b][r].status = "SENT" /\ s \in briefing[b].items
      BY CommitFacts
    <3>. QED
      BY <3>1 DEF IInv, Rows, Arrived
  <2>. QED
    BY <2>2, <2>3, <2>4, <2>5 DEF Rows
<1>10. JobInv(j)'
  BY <1>5, Fields, Itself
<1>. QED
  BY <1>6, <1>8, <1>9, <1>10, StepIsRight

-----------------------------------------------------------------------------
(* The invariant.                                                          *)

\* The invariant holds at the start,
LEMMA InitIsRight == Init => IInv
<1>. SUFFICES ASSUME Init PROVE IInv
  OBVIOUS
<1>1. /\ \A b \in Ids : briefing[b] = NoBriefing("ABSENT")
      /\ \A b \in Ids, r \in Recipients : delivery[b][r] = NoDelivery
      /\ \A j \in Jobs : job[j] = Idle
  BY DEF Init
<1>2. TypeOK
  <2>1. briefing \in [Ids -> Briefing] /\ delivery \in [Ids -> [Recipients -> Delivery]]
    BY NoRows DEF Init
  <2>2. letters \in [States \X Recipients -> 0 .. MaxLetters] /\ oneWriter \in BOOLEAN
    BY DeliveryAssumption DEF Init
  <2>. QED
    BY <2>1, <2>2 DEF Init, TypeOK
<1>3. Rows
  BY <1>1, NoRows, DeliveryAssumption
  DEF Rows, OneBriefingPerState, EmptyRows, OwnDeliveries, Arrived, Exists
<1>4. ASSUME NEW j \in Jobs PROVE JobInv(j)
  <2>1. job[j].at = "idle" /\ job[j].deletes = {} /\ job[j].marks = {}
    BY <1>1, Fields
  <2>. QED
    BY <2>1 DEF JobInv, Counted, Placed, Carried, Claimed, Heard, Deleting, Marked
<1>. QED
  BY <1>2, <1>3, <1>4 DEF IInv

\* every step keeps it,
LEMMA NextIsRight == IInv /\ [Next]_vars => IInv'
<1>. SUFFICES ASSUME IInv, [Next]_vars PROVE IInv'
  OBVIOUS
<1>1. CASE UNCHANGED vars
  BY <1>1 DEF vars, IInv, TypeOK, Rows, OneBriefingPerState, EmptyRows, OwnDeliveries, Arrived,
     JobInv, Counted, Placed, Carried, Claimed, Heard, Deleting, Marked, Exists, Committed
<1>2. CASE Next
  <2>1. PICK j \in Jobs :
          \/ \E sync \in Syncs, session \in Sessions \cup {Nobody} : StartCycle(j, sync, session)
          \/ \E session \in Sessions \cup {Nobody} : StartGenerate(j, session)
          \/ \E b \in Ids : StartSendOf(j, b)
          \/ StartSend(j)
          \/ StartRetention(j)
          \/ \E period \in SUBSET Events : Look(j, period)
          \/ \E b \in Ids : Store(j, b)
          \/ \E taken, heard \in BOOLEAN : Post(j, taken, heard)
          \/ \E to \in Recipients, ready \in BOOLEAN : Lookup(j, to, ready)
          \/ Claim(j) \/ Finish(j) \/ Retain(j) \/ Commit(j)
          \/ Crash(j)
    BY <1>2 DEF Next
  <2>. QED
    BY <2>1, StartSteps, LookStep, StoreStep, PostStep, LookupStep, ClaimStep, FinishStep,
       RetainStep, CommitStep, CrashStep
<1>. QED
  BY <1>1, <1>2

\* and so it holds throughout.
LEMMA Invariant == Spec => []IInv
  BY InitIsRight, NextIsRight, PTL DEF Spec

\* Type correctness: the rows, the transactions and the letters of BriefingDelivery
\* keep their types, so no job makes more than MaxRetries attempts.
THEOREM DeliveryTypeCorrect == Spec => []TypeOK
<1>1. IInv => TypeOK
  BY DEF IInv
<1>. QED
  BY <1>1, Invariant, PTL

\* No state of an event is in two briefings, however many jobs generate at once.
THEOREM StatesBriefedOnce == Spec => []OneBriefingPerState
<1>1. IInv => OneBriefingPerState
  BY DEF IInv, Rows
<1>. QED
  BY <1>1, Invariant, PTL

-----------------------------------------------------------------------------
(* What a step may never do.                                               *)

\* Only three steps change briefings.
LEMMA BriefingsChange ==
    ASSUME Next
    PROVE  \/ UNCHANGED briefing
           \/ \E j \in Jobs : Undo(j) \/ Commit(j) \/ \E b \in Ids : Store(j, b)
<1>1. PICK j \in Jobs :
          \/ \E sync \in Syncs, session \in Sessions \cup {Nobody} : StartCycle(j, sync, session)
          \/ \E session \in Sessions \cup {Nobody} : StartGenerate(j, session)
          \/ \E b \in Ids : StartSendOf(j, b)
          \/ StartSend(j)
          \/ StartRetention(j)
          \/ \E period \in SUBSET Events : Look(j, period)
          \/ \E b \in Ids : Store(j, b)
          \/ \E taken, heard \in BOOLEAN : Post(j, taken, heard)
          \/ \E to \in Recipients, ready \in BOOLEAN : Lookup(j, to, ready)
          \/ Claim(j) \/ Finish(j) \/ Retain(j) \/ Commit(j)
          \/ Crash(j)
  BY Zenon DEF Next
<1>2. \A t : Start(j, t) => UNCHANGED briefing
  BY DEF Start
<1>3. (\E sync, session : StartCycle(j, sync, session)) => UNCHANGED briefing
  BY <1>2 DEF StartCycle
<1>4. \/ \E session : StartGenerate(j, session)
      \/ \E b : StartSendOf(j, b)
      \/ StartSend(j)
      \/ StartRetention(j)
      => UNCHANGED briefing
  BY <1>2, Zenon DEF StartGenerate, StartSendOf, StartSend, StartRetention
<1>5. \/ \E period : Look(j, period)
      \/ \E taken, heard : Post(j, taken, heard)
      \/ \E to, ready : Lookup(j, to, ready)
      \/ Retain(j)
      => UNCHANGED briefing
  BY DEF Look, Post, Lookup, Retain
<1>6. Claim(j) \/ Finish(j) => UNCHANGED briefing \/ Undo(j)
  BY DEF Claim, Finish
<1>7. Crash(j) => Undo(j)
  BY DEF Crash
<1>. QED
  BY <1>1, <1>3, <1>4, <1>5, <1>6, <1>7, Zenon

\* A correction or a denial that was briefed stays: retention passes over its
\* briefing, whatever else jobs do.
THEOREM NoticesAreKept == Spec => NoticesStay
<1>1. ASSUME IInv, Next, NEW b \in Ids, Committed(b), \E s \in briefing[b].items : s \in Notices
      PROVE  briefing'[b].items = briefing[b].items
  <2>1. briefing[b].owner = Nobody /\ briefing[b].status # "ABSENT"
    BY <1>1 DEF Committed, Exists, Status
  <2>2. ASSUME NEW j \in Jobs, Undo(j)
        PROVE  briefing'[b].items = briefing[b].items
    BY <2>1, <2>2, DeliveryAssumption DEF Undo
  <2>3. ASSUME NEW j \in Jobs, NEW c \in Ids, Store(j, c)
        PROVE  briefing'[b].items = briefing[b].items
    <3>1. c # b
      BY <2>1, <2>3 DEF Store
    <3>2. CASE Undo(j)
      BY <2>2, <3>2
    <3>3. CASE ~Undo(j)
      <4>1. \E row : briefing' = [briefing EXCEPT ![c] = row]
        BY <2>3, <3>3 DEF Store
      <4>. QED
        BY <1>1, <3>1, <4>1 DEF IInv, TypeOK
    <3>. QED
      BY <3>2, <3>3
  <2>4. ASSUME NEW j \in Jobs, Commit(j)
        PROVE  briefing'[b].items = briefing[b].items
    <3>1. b \notin job[j].deletes
      BY <1>1 DEF IInv, JobInv, Deleting
    <3>. QED
      BY <1>1, <2>4, <3>1, CommitFacts
  <2>. QED
    BY <1>1, <2>2, <2>3, <2>4, BriefingsChange
<1>2. IInv /\ [Next]_vars =>
         [\A b \in Ids : Committed(b) /\ (\E s \in briefing[b].items : s \in Notices) =>
             briefing'[b].items = briefing[b].items]_vars
  BY <1>1
<1>. QED
  BY <1>2, Invariant, PTL DEF Spec, NoticesStay

\* Which pairs the books record.
LEMMA RecordedPairs ==
    ASSUME NEW p
    PROVE  p \in Recorded <=>
              \E b \in Ids, r \in Recipients : \E s \in briefing[b].items :
                  p = <<s, r>> /\ delivery[b][r] = [status |-> "SENT", owner |-> Nobody]
  BY DEF Recorded

\* A step that sends nothing changes the books only by what has arrived.
LEMMA BooksKept ==
    ASSUME IInv', UNCHANGED letters
    PROVE  Books!Next
<1>1. ASSUME NEW p \in Recorded'
      PROVE  p \in States \X Recipients /\ letters[p] > 0
  <2>1. PICK b \in Ids, r \in Recipients : \E s \in briefing'[b].items :
           p = <<s, r>> /\ delivery'[b][r] = [status |-> "SENT", owner |-> Nobody]
    BY <1>1 DEF Recorded
  <2>2. briefing'[b].items \in SUBSET States
    BY DEF IInv, TypeOK, Briefing
  <2>3. delivery'[b][r].status = "SENT"
    BY <2>1
  <2>. QED
    BY <2>1, <2>2, <2>3 DEF IInv, Rows, Arrived
<1>2. Recorded' \in SUBSET (States \X Recipients)
  BY <1>1
<1>3. Books!Keep(Recorded')
  BY <1>1 DEF Books!Keep
<1>. QED
  BY <1>2, <1>3 DEF Books!Next

\* A letter is about states that the books do not record for its recipient.
LEMMA LetterAllowed ==
    ASSUME IInv, IInv', NEW j \in Jobs, NEW taken \in BOOLEAN, NEW heard \in BOOLEAN,
           Post(j, taken, heard)
    PROVE  Books!Next \/ LetterOfDeleted
<1>1. PICK t : t = job[j]
  OBVIOUS
<1>. DEFINE b == t.briefing
<1>2. t.at = "post" /\ UNCHANGED <<event, briefing, delivery, oneWriter>>
      /\ letters' = [p \in States \X Recipients |->
            IF taken /\ p \in t.items \X {t.to} THEN letters[p] + 1 ELSE letters[p]]
  BY <1>1 DEF Post
<1>3. t \in Transaction /\ JobInv(j) /\ j # Nobody
  BY <1>1, <1>2, Running
<1>4. b \in Ids /\ t.to \in Recipients /\ t.items \in SUBSET States
  BY <1>1, <1>2, <1>3, MoreFields DEF JobInv, Placed
<1>5. CASE ~taken
  <2>1. letters' = letters
    BY <1>2, <1>5 DEF IInv, TypeOK
  <2>. QED
    BY <2>1, BooksKept
<1>6. CASE taken /\ ~Exists(b)
  BY <1>1, <1>2, <1>3, <1>6 DEF JobInv, Claimed, LetterOfDeleted
<1>7. CASE taken /\ Exists(b)
  <2>1. t.items = briefing[b].items /\ delivery[b][t.to].owner = j
    BY <1>1, <1>2, <1>3, <1>7 DEF JobInv, Carried, Claimed
  <2>2. ASSUME NEW s \in t.items
        PROVE  <<s, t.to>> \notin Recorded
    <3>. SUFFICES ASSUME NEW c \in Ids, s \in briefing[c].items,
                         delivery[c][t.to] = [status |-> "SENT", owner |-> Nobody]
                  PROVE  FALSE
      BY RecordedPairs
    <3>1. delivery[c][t.to].owner = Nobody
      OBVIOUS
    <3>2. c # b
      BY <1>3, <2>1, <3>1
    <3>. QED
      BY <1>4, <2>1, <2>2, <3>2 DEF IInv, Rows, OneBriefingPerState
  <2>3. Recorded' = Recorded
    BY <1>2 DEF Recorded
  <2>4. Books!Mail(t.items, t.to)
    BY <1>2, <1>7, <2>2, <2>3 DEF Books!Mail
  <2>. QED
    BY <1>4, <2>4 DEF Books!Next
<1>. QED
  BY <1>5, <1>6, <1>7

\* Only the provider adds a letter.
LEMMA LettersChange ==
    ASSUME Next
    PROVE  \/ UNCHANGED letters
           \/ \E j \in Jobs, taken, heard \in BOOLEAN : Post(j, taken, heard)
<1>1. ASSUME NEW j \in Jobs, Undo(j)
      PROVE  UNCHANGED letters
  BY <1>1 DEF Undo
<1>2. ASSUME NEW j \in Jobs, NEW b \in Ids, Store(j, b)
      PROVE  UNCHANGED letters
  BY <1>1, <1>2 DEF Store
<1>3. ASSUME NEW j \in Jobs, Claim(j)
      PROVE  UNCHANGED letters
  BY <1>1, <1>3 DEF Claim
<1>4. ASSUME NEW j \in Jobs, Finish(j)
      PROVE  UNCHANGED letters
  BY <1>1, <1>4 DEF Finish
<1>5. ASSUME NEW j \in Jobs, Crash(j)
      PROVE  UNCHANGED letters
  BY <1>1, <1>5 DEF Crash
<1>6. ASSUME NEW j \in Jobs, Retain(j) \/ Commit(j)
      PROVE  UNCHANGED letters
  BY <1>6 DEF Retain, Commit
<1>7. ASSUME NEW j \in Jobs, NEW period, Look(j, period)
      PROVE  UNCHANGED letters
  BY <1>7 DEF Look
<1>8. ASSUME NEW j \in Jobs, NEW to, NEW ready, Lookup(j, to, ready)
      PROVE  UNCHANGED letters
  BY <1>8 DEF Lookup
<1>9. ASSUME NEW j, NEW t, Start(j, t)
      PROVE  UNCHANGED letters
  BY <1>9 DEF Start
<1>. QED
  BY <1>2, <1>3, <1>4, <1>5, <1>6, <1>7, <1>8, <1>9
     DEF Next, StartCycle, StartGenerate, StartSendOf, StartSend, StartRetention

\* BriefingDelivery implements Outbox: with any overlap of jobs, crashes and lost
\* answers, a letter is about states not recorded as sent to its recipient, and
\* what the delivery rows record has arrived; except the letter of a briefing that
\* was deleted under its job, on SQLite.
THEOREM DeliveryIsOutbox == Spec => OutboxKept
<1>1. Init => Books!Init
  <2>. SUFFICES ASSUME Init PROVE Books!Init
    OBVIOUS
  <2>1. \A b \in Ids : briefing[b].items = {}
    BY NoRows DEF Init
  <2>2. Recorded = {}
    BY <2>1, RecordedPairs
  <2>. QED
    BY <2>2 DEF Init, Books!Init
<1>2. IInv /\ IInv' /\ [Next]_vars => [Books!Next \/ LetterOfDeleted]_<<letters, Recorded>>
  <2>. SUFFICES ASSUME IInv, IInv', [Next]_vars
                PROVE  [Books!Next \/ LetterOfDeleted]_<<letters, Recorded>>
    OBVIOUS
  <2>1. CASE UNCHANGED vars
    BY <2>1 DEF vars, Recorded
  <2>2. CASE Next
    BY <2>2, BooksKept, LetterAllowed, LettersChange
  <2>. QED
    BY <2>1, <2>2
<1>. QED
  BY <1>1, <1>2, Invariant, PTL DEF Spec, OutboxKept

-----------------------------------------------------------------------------
(* The status of a briefing.  Whoever writes one has a delivery with that  *)
(* result in the same transaction, and a job whose delivery ends without   *)
(* writing one has found the briefing sent or failed.                      *)

Mailed == {"SENT", "FAILED"}

\* A delivery of briefing b that is committed and ended so.
EndedSo(b, status) ==
    \E r \in Recipients : delivery[b][r].owner = Nobody /\ delivery[b][r].status = status

Told(b) ==
    Committed(b) =>
        IF briefing[b].status \in Mailed THEN EndedSo(b, briefing[b].status)
        ELSE ~EndedSo(b, "SENT") /\ ~EndedSo(b, "FAILED")

\* A briefing that is not committed has not been mailed yet.
Unmailed(b) == briefing[b].owner \in Jobs => briefing[b].status \notin Mailed

\* A job that writes a status has a delivery with that result.
Backed(j) ==
    \A m \in job[j].marks :
        /\ m[2] \in Mailed
        /\ \E r \in Recipients : delivery[m[1]][r].owner = j /\ delivery[m[1]][r].status = m[2]

\* A job whose delivery has ended has written the status, or need not.
Ended(j) ==
    \A b \in Ids, r \in Recipients :
        delivery[b][r].owner = j /\ delivery[b][r].status \in Mailed /\ Exists(b) =>
            (\E m \in job[j].marks : m[1] = b) \/ briefing[b].status \in Mailed

\* A briefing that was read as mailed is mailed.
LoadedTrue(j) ==
    /\ job[j].at \in {"lookup", "claim", "post", "finish"}
    /\ job[j].loaded \in Mailed /\ Exists(job[j].briefing)
    => briefing[job[j].briefing].status \in Mailed

\* A job that holds a delivery or a status will not end without a commit.
Written(j) ==
    job[j].at \in {"post", "finish"} \/ job[j].marks # {} => job[j].writes = TRUE

JobTold(j) == Backed(j) /\ Ended(j) /\ LoadedTrue(j) /\ Written(j)

StatusInv ==
    /\ \A b \in Ids : Told(b) /\ Unmailed(b)
    /\ \A j \in Jobs : JobTold(j)

LEMMA ToldIsTrue == (\A b \in Ids : Told(b)) => StatusIsTrue
<1>. SUFFICES ASSUME \A b \in Ids : Told(b), NEW b \in Ids, Committed(b)
              PROVE  LET ended == {delivery[b][r].status : r \in {x \in Recipients :
                                                   delivery[b][x].owner = Nobody}}
                     IN  IF briefing[b].status \in {"SENT", "FAILED"}
                         THEN briefing[b].status \in ended
                         ELSE ended \cap {"SENT", "FAILED"} = {}
  BY DEF StatusIsTrue
<1>. DEFINE ended == {delivery[b][r].status : r \in {x \in Recipients :
                                                   delivery[b][x].owner = Nobody}}
<1>1. Told(b)
  OBVIOUS
<1>2. \A status : status \in ended <=> EndedSo(b, status)
  BY DEF EndedSo
<1>. QED
  BY <1>1, <1>2 DEF Told, Mailed

\* What a step of job j does to the status of briefings, and to other jobs.
StatusGuarantee(j) ==
    /\ \A s \in Jobs \ {j} : job'[s] = job[s]
    /\ \A b \in Ids, r \in Recipients :
          delivery[b][r].owner \in Jobs \ {j} \/ delivery'[b][r].owner \in Jobs \ {j}
             => delivery'[b][r] = delivery[b][r]
    /\ \A b \in Ids : briefing'[b].status \in Status =>
          /\ briefing[b].status \in Mailed => briefing'[b].status \in Mailed
          /\ Exists(b) \/ briefing[b].status = "ABSENT"

LEMMA OthersTold ==
    ASSUME IInv, StatusInv, NEW j \in Jobs, StatusGuarantee(j), NEW s \in Jobs \ {j}
    PROVE  JobTold(s)'
<1>1. job'[s] = job[s] /\ JobTold(s) /\ JobInv(s)
  BY DEF StatusGuarantee, StatusInv, IInv
<1>2. job[s] \in Transaction \cup {Idle} /\ job[s].marks \in SUBSET (Ids \X Status)
  BY Fields DEF IInv, TypeOK
<1>3. Backed(s)'
  <2>. SUFFICES ASSUME NEW m \in job[s].marks
                PROVE  /\ m[2] \in Mailed
                       /\ \E r \in Recipients : /\ delivery'[m[1]][r].owner = s
                                                /\ delivery'[m[1]][r].status = m[2]
    BY <1>1 DEF Backed
  <2>1. PICK r \in Recipients : /\ m[2] \in Mailed /\ delivery[m[1]][r].owner = s
                                /\ delivery[m[1]][r].status = m[2]
    BY <1>1 DEF JobTold, Backed
  <2>2. m[1] \in Ids
    BY <1>2
  <2>3. delivery'[m[1]][r] = delivery[m[1]][r]
    BY <2>1, <2>2 DEF StatusGuarantee
  <2>. QED
    BY <2>1, <2>3
<1>4. Ended(s)'
  <2>. SUFFICES ASSUME NEW b \in Ids, NEW r \in Recipients, delivery'[b][r].owner = s,
                       delivery'[b][r].status \in Mailed, briefing'[b].status \in Status
                PROVE  (\E m \in job[s].marks : m[1] = b) \/ briefing'[b].status \in Mailed
    BY <1>1 DEF Ended, Exists
  <2>1. delivery[b][r].owner = s /\ delivery[b][r].status \in Mailed
    BY DEF StatusGuarantee
  <2>2. Exists(b)
    <3>1. briefing[b].status = "ABSENT" => delivery[b][r].status = "NONE"
      BY DEF IInv, Rows, EmptyRows
    <3>. QED
      BY <2>1, <3>1 DEF StatusGuarantee, Mailed
  <2>3. (\E m \in job[s].marks : m[1] = b) \/ briefing[b].status \in Mailed
    BY <1>1, <2>1, <2>2 DEF JobTold, Ended
  <2>. QED
    BY <2>3 DEF StatusGuarantee
<1>5. LoadedTrue(s)'
  <2>. SUFFICES ASSUME job[s].at \in {"lookup", "claim", "post", "finish"},
                       job[s].loaded \in Mailed,
                       briefing'[job[s].briefing].status \in Status
                PROVE  briefing'[job[s].briefing].status \in Mailed
    BY <1>1 DEF LoadedTrue, Exists
  <2>1. job[s].briefing \in Ids /\ briefing[job[s].briefing].status # "ABSENT"
    BY <1>1 DEF JobInv, Placed
  <2>2. Exists(job[s].briefing)
    BY <2>1 DEF StatusGuarantee
  <2>3. briefing[job[s].briefing].status \in Mailed
    BY <1>1, <2>2 DEF JobTold, LoadedTrue
  <2>. QED
    BY <2>1, <2>3 DEF StatusGuarantee
<1>6. Written(s)'
  BY <1>1 DEF JobTold, Written
<1>. QED
  BY <1>3, <1>4, <1>5, <1>6 DEF JobTold

\* A step is right when what it writes and its own job are.
LEMMA StatusStep ==
    ASSUME IInv, StatusInv, NEW j \in Jobs, StatusGuarantee(j),
           \A b \in Ids : Told(b)' /\ Unmailed(b)', JobTold(j)'
    PROVE  StatusInv'
<1>1. \A s \in Jobs \ {j} : JobTold(s)'
  BY OthersTold
<1>2. \A s \in Jobs : JobTold(s)'
  BY <1>1
<1>. QED
  BY <1>2 DEF StatusInv

\* A step that commits nothing leaves what is told alone.
LEMMA Uncommitted ==
    ASSUME IInv, StatusInv, NEW j \in Jobs, briefing' = briefing,
           \A s \in Jobs \ {j} : job'[s] = job[s],
           \A b \in Ids, r \in Recipients : delivery'[b][r] # delivery[b][r] =>
              /\ delivery[b][r].owner = j \/ delivery[b][r].status = "NONE"
              /\ delivery[b][r].owner \in {j, Nobody} /\ delivery'[b][r].owner = j,
           JobTold(j)'
    PROVE  StatusInv'
<1>1. j # Nobody
  BY DeliveryAssumption
<1>2. StatusGuarantee(j)
  BY <1>1, DeliveryAssumption DEF StatusGuarantee, Exists
<1>3. ASSUME NEW b \in Ids
      PROVE  Told(b)' /\ Unmailed(b)'
  <2>1. Told(b) /\ Unmailed(b)
    BY DEF StatusInv
  <2>2. \A status \in Mailed : EndedSo(b, status)' <=> EndedSo(b, status)
    <3>1. ASSUME NEW r \in Recipients, NEW status \in Mailed
          PROVE  delivery'[b][r].owner = Nobody /\ delivery'[b][r].status = status
                   <=> delivery[b][r].owner = Nobody /\ delivery[b][r].status = status
      BY <1>1 DEF Mailed
    <3>. QED
      BY <3>1 DEF EndedSo
  <2>. QED
    BY <2>1, <2>2 DEF Told, Unmailed, Committed, Exists, Mailed
<1>. QED
  BY <1>2, <1>3, StatusStep

\* A step of a transaction that has written what it marked keeps the marks.
LEMMA ProceedKeeps ==
    ASSUME NEW t \in Transaction, NEW at \in {"look", "lookup", "retain", "commit"},
           t.marks # {} => t.writes = TRUE
    PROVE  /\ Proceed(t, at).marks = t.marks
           /\ Proceed(t, at).marks # {} => Proceed(t, at).writes = TRUE
           /\ Proceed(t, at).at \in {at, "idle"}
           /\ at = "lookup" => /\ Proceed(t, at).briefing = t.briefing
                               /\ Proceed(t, at).loaded = t.loaded
<1>1. PICK u : u = Proceed(t, at)
  OBVIOUS
<1>2. CASE at = "lookup"
  <2>1. u = [t EXCEPT !.at = at, !.key = {}, !.items = {}]
    BY <1>1, <1>2 DEF Proceed
  <2>2. u.at = at /\ u.marks = t.marks /\ u.writes = t.writes
        /\ u.briefing = t.briefing /\ u.loaded = t.loaded
    BY <2>1 DEF Transaction
  <2>. QED
    BY <1>1, <1>2, <2>2
<1>3. CASE at = "commit" /\ ~t.writes
  <2>1. u = Idle /\ t.marks = {}
    BY <1>1, <1>3, Fields DEF Proceed
  <2>. QED
    BY <1>1, <1>3, <2>1, Fields
<1>4. CASE at # "lookup" /\ ~(at = "commit" /\ ~t.writes)
  <2>1. PICK n \in Transaction : n = NewJob("cycle", at)
    BY NewJobFacts
  <2>2. n.at = at
    BY <2>1, NewJobFacts
  <2>3. u = [n EXCEPT !.sync = t.sync, !.marks = t.marks, !.writes = t.writes]
    BY <1>1, <1>4, <2>1 DEF Proceed
  <2>4. u.at = n.at /\ u.marks = t.marks /\ u.writes = t.writes
    BY <2>3 DEF Transaction
  <2>. QED
    BY <1>1, <1>4, <2>2, <2>4
<1>. QED
  BY <1>2, <1>3, <1>4

\* The same for the step after a mail.
LEMMA AfterMailKeeps ==
    ASSUME NEW t \in Transaction, t.kind # "generate", t.marks # {} => t.writes = TRUE
    PROVE  /\ AfterMail(t).marks = t.marks
           /\ AfterMail(t).marks # {} => AfterMail(t).writes = TRUE
           /\ AfterMail(t).at \in {"look", "retain", "commit", "idle"}
<1>. DEFINE at == CASE t.kind = "send" -> "commit"
                    [] t.kind = "cycle" -> IF t.session # Nobody THEN "look" ELSE "retain"
<1>1. at \in {"look", "retain", "commit"}
  BY MoreFields
<1>2. AfterMail(t) = Proceed(t, at)
  BY DEF AfterMail
<1>. HIDE DEF at
<1>3. at \in {"look", "lookup", "retain", "commit"} /\ at # "lookup"
  BY <1>1
<1>4. /\ Proceed(t, at).marks = t.marks
      /\ Proceed(t, at).marks # {} => Proceed(t, at).writes = TRUE
      /\ Proceed(t, at).at \in {at, "idle"}
  BY <1>3, ProceedKeeps
<1>. QED
  BY <1>1, <1>2, <1>4

\* The transaction that job j goes on with is as right as the one it had.
GoesOn(j, u) ==
    /\ u.marks = job[j].marks
    /\ u.at \in {"post", "finish"} \/ u.marks # {} => u.writes = TRUE
    /\ u.at \in {"lookup", "claim", "post", "finish"} /\ u.loaded \in Mailed
       /\ Exists(u.briefing) => briefing[u.briefing].status \in Mailed

\* A step that writes no row.
LEMMA QuietTold ==
    ASSUME IInv, StatusInv, NEW j \in Jobs, NEW u, Set(j, u), GoesOn(j, u),
           UNCHANGED <<briefing, delivery>>
    PROVE  StatusInv'
<1>1. job \in [Jobs -> Transaction \cup {Idle}] /\ JobTold(j)
  BY DEF IInv, TypeOK, StatusInv
<1>2. job'[j] = u /\ \A s \in Jobs \ {j} : job'[s] = job[s]
  BY <1>1 DEF Set
<1>3. Backed(j)' /\ Ended(j)'
  BY <1>1, <1>2 DEF JobTold, GoesOn, Backed, Ended, Exists
<1>4. LoadedTrue(j)' /\ Written(j)'
  BY <1>2 DEF GoesOn, LoadedTrue, Written, Exists
<1>. QED
  BY <1>2, <1>3, <1>4, Uncommitted DEF JobTold

\* The commands begin with no rows; one knows the status of its briefing.
Begins(t) ==
    /\ t.marks = {}
    /\ \/ t.at \in {"look", "retain"}
       \/ t.at = "lookup" /\ t.loaded = briefing[t.briefing].status

LEMMA StartTold ==
    ASSUME IInv, StatusInv, NEW j \in Jobs, NEW t, Start(j, t), Begins(t)
    PROVE  StatusInv'
<1>1. job[j].marks = {} /\ Set(j, t) /\ UNCHANGED <<briefing, delivery>>
  BY Fields DEF Start
<1>2. GoesOn(j, t)
  BY <1>1 DEF GoesOn, Begins
<1>. QED
  BY <1>1, <1>2, QuietTold

LEMMA StartsTold ==
    ASSUME IInv, StatusInv, NEW j \in Jobs
    PROVE  /\ \A sync \in Syncs, session \in Sessions \cup {Nobody} :
                 StartCycle(j, sync, session) => StatusInv'
           /\ \A session \in Sessions \cup {Nobody} : StartGenerate(j, session) => StatusInv'
           /\ \A b \in Ids : StartSendOf(j, b) => StatusInv'
           /\ StartSend(j) \/ StartRetention(j) => StatusInv'
<1>1. ASSUME NEW sync \in Syncs, NEW session \in Sessions \cup {Nobody},
             StartCycle(j, sync, session)
      PROVE  StatusInv'
  <2>1. PICK n \in Transaction : n = NewJob("cycle", "look") /\ n.at = "look" /\ n.marks = {}
    BY NewJobFacts
  <2>2. PICK t : t = [n EXCEPT !.sync = sync, !.session = session, !.writes = sync # {}]
    OBVIOUS
  <2>3. Begins(t)
    BY <2>1, <2>2 DEF Transaction, Begins
  <2>4. Start(j, t)
    BY <1>1, <2>1, <2>2 DEF StartCycle
  <2>. QED
    BY <2>3, <2>4, StartTold
<1>2. ASSUME NEW session \in Sessions \cup {Nobody}, StartGenerate(j, session)
      PROVE  StatusInv'
  <2>1. PICK n \in Transaction : n = NewJob("generate", "look") /\ n.at = "look" /\ n.marks = {}
    BY NewJobFacts
  <2>2. PICK t : t = [n EXCEPT !.session = session]
    OBVIOUS
  <2>3. Begins(t)
    BY <2>1, <2>2 DEF Transaction, Begins
  <2>4. Start(j, t)
    BY <1>2, <2>1, <2>2 DEF StartGenerate
  <2>. QED
    BY <2>3, <2>4, StartTold
<1>3. ASSUME NEW b \in Ids, StartSendOf(j, b)
      PROVE  StatusInv'
  <2>1. PICK n \in Transaction : n = NewJob("send", "lookup") /\ n.at = "lookup" /\ n.marks = {}
    BY NewJobFacts
  <2>2. PICK t : t = [n EXCEPT !.briefing = b, !.loaded = briefing[b].status]
    OBVIOUS
  <2>3. Begins(t)
    BY <2>1, <2>2 DEF Transaction, Begins
  <2>4. Start(j, t)
    BY <1>3, <2>1, <2>2 DEF StartSendOf
  <2>. QED
    BY <2>3, <2>4, StartTold
<1>4. ASSUME StartSend(j) PROVE StatusInv'
  <2>1. Begins(NewJob("send", "look"))
    BY NewJobFacts DEF Begins
  <2>. QED
    BY <1>4, <2>1, StartTold DEF StartSend
<1>5. ASSUME StartRetention(j) PROVE StatusInv'
  <2>1. Begins(NewJob("cycle", "retain"))
    BY NewJobFacts DEF Begins
  <2>. QED
    BY <1>5, <2>1, StartTold DEF StartRetention
<1>. QED
  BY <1>1, <1>2, <1>3, <1>4, <1>5

\* What a job with a transaction has, to begin a proof with.
LEMMA Running2 ==
    ASSUME IInv, StatusInv, NEW j \in Jobs, job[j].at # "idle"
    PROVE  job[j] \in Transaction /\ JobTold(j)
           /\ (job[j].marks # {} => job[j].writes = TRUE)
  BY Running DEF StatusInv, JobTold, Written

LEMMA LookTold ==
    ASSUME IInv, StatusInv, NEW j \in Jobs, NEW period \in SUBSET Events, Look(j, period)
    PROVE  StatusInv'
<1>. DEFINE eligible(t) == {s \in States : s[1] \in period /\ View(j, s[1]) = s[2]}
            key(t) == IF t.session = Nobody THEN eligible(t) ELSE t.session
            found(t) == {b \in Ids : Visible(j, b) /\ briefing[b].key = key(t)}
            fresh(t) == {s \in eligible(t) :
                            \A b \in Ids : Visible(j, b) => s \notin briefing[b].items}
<1>1. PICK t : t = job[j]
  OBVIOUS
<1>2. t.at = "look" /\ UNCHANGED <<briefing, delivery>>
  BY <1>1 DEF Look
<1>3. t \in Transaction /\ (t.marks # {} => t.writes = TRUE)
  BY <1>1, <1>2, Running2
<1>4. \/ \E b \in found(t) : \E at \in Onward(t, briefing[b].items) :
            Set(j, Proceed([t EXCEPT !.briefing = b, !.loaded = briefing[b].status], at))
      \/ Set(j, [t EXCEPT !.at = "store", !.key = key(t), !.items = fresh(t)])
      \/ Set(j, Proceed(t, IF t.kind = "cycle" THEN "retain" ELSE "commit"))
  BY <1>1 DEF Look
<1>5. ASSUME NEW b \in found(t), NEW at \in Onward(t, briefing[b].items),
             Set(j, Proceed([t EXCEPT !.briefing = b, !.loaded = briefing[b].status], at))
      PROVE  StatusInv'
  <2>1. b \in Ids /\ briefing[b].status \in Status
    BY <1>5 DEF Visible, Exists
  <2>2. PICK v : v = [t EXCEPT !.briefing = b, !.loaded = briefing[b].status]
    OBVIOUS
  <2>3. v \in Transaction /\ v.marks = t.marks /\ v.writes = t.writes
        /\ v.briefing = b /\ v.loaded = briefing[b].status
    BY <1>3, <2>1, <2>2 DEF Transaction
  <2>4. at \in {"look", "lookup", "retain", "commit"}
    BY <1>3, <1>5, OnwardFacts
  <2>5. PICK u : u = Proceed(v, at)
    OBVIOUS
  <2>6. /\ u.marks = t.marks /\ (u.marks # {} => u.writes = TRUE) /\ u.at \in {at, "idle"}
        /\ at = "lookup" => u.briefing = b /\ u.loaded = briefing[b].status
    BY <1>3, <2>3, <2>4, <2>5, ProceedKeeps
  <2>7. GoesOn(j, u)
    BY <1>1, <2>4, <2>6 DEF GoesOn
  <2>8. Set(j, u)
    BY <1>5, <2>2, <2>5
  <2>. QED
    BY <1>2, <2>7, <2>8, QuietTold
<1>6. CASE Set(j, [t EXCEPT !.at = "store", !.key = key(t), !.items = fresh(t)])
  <2>1. PICK u : u = [t EXCEPT !.at = "store", !.key = key(t), !.items = fresh(t)]
    OBVIOUS
  <2>. HIDE DEF key, fresh
  <2>2. u.at = "store" /\ u.marks = t.marks /\ u.writes = t.writes
    BY <1>3, <2>1 DEF Transaction
  <2>3. GoesOn(j, u)
    BY <1>1, <1>3, <2>2 DEF GoesOn
  <2>. QED
    BY <1>2, <1>6, <2>1, <2>3, QuietTold
<1>7. CASE Set(j, Proceed(t, IF t.kind = "cycle" THEN "retain" ELSE "commit"))
  <2>1. PICK at \in {"retain", "commit"} : at = IF t.kind = "cycle" THEN "retain" ELSE "commit"
    OBVIOUS
  <2>2. PICK u : u = Proceed(t, at)
    OBVIOUS
  <2>3. u.marks = t.marks /\ (u.marks # {} => u.writes = TRUE) /\ u.at \in {at, "idle"}
    BY <1>3, <2>2, ProceedKeeps
  <2>4. GoesOn(j, u)
    BY <1>1, <2>1, <2>3 DEF GoesOn
  <2>. QED
    BY <1>2, <1>7, <2>1, <2>2, <2>4, QuietTold
<1>. QED
  BY <1>4, <1>5, <1>6, <1>7

LEMMA LookupTold ==
    ASSUME IInv, StatusInv, NEW j \in Jobs, NEW to \in Recipients, NEW ready \in BOOLEAN,
           Lookup(j, to, ready)
    PROVE  StatusInv'
<1>1. PICK t : t = job[j]
  OBVIOUS
<1>2. t.at = "lookup" /\ UNCHANGED <<briefing, delivery>>
  BY <1>1 DEF Lookup
<1>3. t \in Transaction /\ (t.marks # {} => t.writes = TRUE) /\ JobTold(j) /\ t.kind # "generate"
  BY <1>1, <1>2, Running2, Running DEF JobInv, Placed
<1>4. CASE Set(j, AfterMail(t))
  <2>1. PICK u : u = AfterMail(t)
    OBVIOUS
  <2>2. /\ u.marks = t.marks /\ (u.marks # {} => u.writes = TRUE)
        /\ u.at \in {"look", "retain", "commit", "idle"}
    BY <1>3, <2>1, AfterMailKeeps
  <2>3. GoesOn(j, u)
    BY <1>1, <2>2 DEF GoesOn
  <2>. QED
    BY <1>2, <1>4, <2>1, <2>3, QuietTold
<1>5. CASE Set(j, [t EXCEPT !.at = "claim", !.to = to, !.ready = ready,
                            !.items = briefing[t.briefing].items])
  <2>1. PICK u : u = [t EXCEPT !.at = "claim", !.to = to, !.ready = ready,
                               !.items = briefing[t.briefing].items]
    OBVIOUS
  <2>2. u.at = "claim" /\ u.marks = t.marks /\ u.writes = t.writes
        /\ u.briefing = t.briefing /\ u.loaded = t.loaded
    BY <1>3, <2>1 DEF Transaction
  <2>3. GoesOn(j, u)
    BY <1>1, <1>2, <1>3, <2>2 DEF GoesOn, JobTold, LoadedTrue
  <2>. QED
    BY <1>2, <1>5, <2>1, <2>3, QuietTold
<1>. QED
  BY <1>1, <1>4, <1>5 DEF Lookup

LEMMA PostTold ==
    ASSUME IInv, StatusInv, NEW j \in Jobs, NEW taken \in BOOLEAN, NEW heard \in BOOLEAN,
           Post(j, taken, heard)
    PROVE  StatusInv'
<1>1. PICK t : t = job[j]
  OBVIOUS
<1>2. t.at = "post" /\ UNCHANGED <<briefing, delivery>>
  BY <1>1 DEF Post
<1>3. t \in Transaction /\ JobTold(j)
  BY <1>1, <1>2, Running2
<1>4. PICK sent, at : /\ at \in {"post", "finish"}
                      /\ Set(j, [t EXCEPT !.sent = sent, !.attempt = t.attempt + 1, !.at = at])
  <2>. DEFINE at == IF (taken /\ heard) \/ t.attempt + 1 = MaxRetries THEN "finish" ELSE "post"
  <2>1. at \in {"post", "finish"}
    OBVIOUS
  <2>2. Set(j, [t EXCEPT !.sent = taken /\ heard, !.attempt = t.attempt + 1, !.at = at])
    BY <1>1 DEF Post
  <2>. HIDE DEF at
  <2>. QED
    BY <2>1, <2>2
<1>5. PICK u : u = [t EXCEPT !.sent = sent, !.attempt = t.attempt + 1, !.at = at]
  OBVIOUS
<1>6. u.at \in {"post", "finish"} /\ u.marks = t.marks /\ u.writes = t.writes
      /\ u.briefing = t.briefing /\ u.loaded = t.loaded
  BY <1>3, <1>4, <1>5 DEF Transaction
<1>7. GoesOn(j, u)
  BY <1>1, <1>2, <1>3, <1>6 DEF GoesOn, JobTold, LoadedTrue, Written
<1>. QED
  BY <1>2, <1>4, <1>5, <1>7, QuietTold

LEMMA RetainTold ==
    ASSUME IInv, StatusInv, NEW j \in Jobs, Retain(j)
    PROVE  StatusInv'
<1>1. PICK t : t = job[j]
  OBVIOUS
<1>2. t.at = "retain" /\ UNCHANGED <<briefing, delivery>>
  BY <1>1 DEF Retain
<1>3. t \in Transaction
  BY <1>1, <1>2, Running2
<1>4. PICK chosen : Set(j, [t EXCEPT !.at = "commit", !.deletes = chosen, !.writes = TRUE])
  BY <1>1 DEF Retain
<1>5. PICK u : u = [t EXCEPT !.at = "commit", !.deletes = chosen, !.writes = TRUE]
  OBVIOUS
<1>6. u.at = "commit" /\ u.marks = t.marks /\ u.writes = TRUE
  BY <1>3, <1>5 DEF Transaction
<1>7. GoesOn(j, u)
  BY <1>1, <1>6 DEF GoesOn
<1>. QED
  BY <1>2, <1>4, <1>5, <1>7, QuietTold

\* A rollback takes back what no other job and no reader has seen.
LEMMA UndoTold ==
    ASSUME IInv, StatusInv, NEW j \in Jobs, Undo(j)
    PROVE  StatusInv'
<1>1. j # Nobody /\ job \in [Jobs -> Transaction \cup {Idle}] /\ job' = [job EXCEPT ![j] = Idle]
  BY DeliveryAssumption DEF IInv, TypeOK, Undo, Set
<1>2. /\ \A b \in Ids : briefing'[b] = IF briefing[b].owner = j THEN NoBriefing("ABSENT")
                                         ELSE briefing[b]
      /\ \A b \in Ids, r \in Recipients :
            delivery'[b][r] = IF delivery[b][r].owner = j THEN NoDelivery ELSE delivery[b][r]
  BY DEF Undo
<1>3. job'[j] = Idle /\ \A s \in Jobs \ {j} : job'[s] = job[s]
  BY <1>1
<1>4. StatusGuarantee(j)
  <2>1. \A b \in Ids, r \in Recipients :
          delivery[b][r].owner \in Jobs \ {j} \/ delivery'[b][r].owner \in Jobs \ {j}
             => delivery'[b][r] = delivery[b][r]
    BY <1>2, NoRows, DeliveryAssumption
  <2>2. \A b \in Ids : briefing'[b].status \in Status => briefing'[b] = briefing[b]
    BY <1>2, NoRows
  <2>. QED
    BY <1>3, <2>1, <2>2 DEF StatusGuarantee, Exists
<1>5. ASSUME NEW b \in Ids
      PROVE  Told(b)' /\ Unmailed(b)'
  <2>1. Told(b) /\ Unmailed(b)
    BY DEF StatusInv
  <2>2. briefing[b].owner # j => briefing'[b] = briefing[b]
    BY <1>2
  <2>3. briefing[b].owner = j => briefing'[b].owner = Nobody /\ briefing'[b].status \notin Status
    BY <1>2, NoRows
  <2>4. Unmailed(b)'
    BY <2>1, <2>2, <2>3, DeliveryAssumption DEF Unmailed
  <2>5. \A status \in Mailed : EndedSo(b, status)' <=> EndedSo(b, status)
    <3>1. ASSUME NEW r \in Recipients, NEW status \in Mailed
          PROVE  delivery'[b][r].owner = Nobody /\ delivery'[b][r].status = status
                   <=> delivery[b][r].owner = Nobody /\ delivery[b][r].status = status
      BY <1>1, <1>2, NoRows DEF Mailed
    <3>. QED
      BY <3>1 DEF EndedSo
  <2>6. Told(b)'
    <3>1. CASE briefing[b].owner = j
      BY <2>3, <3>1 DEF Told, Committed, Exists
    <3>2. CASE briefing[b].owner # j
      BY <2>1, <2>2, <2>5, <3>2 DEF Told, Committed, Exists, Mailed
    <3>. QED
      BY <3>1, <3>2
  <2>. QED
    BY <2>4, <2>6
<1>6. JobTold(j)'
  <2>1. job'[j].marks = {} /\ job'[j].at = "idle"
    BY <1>3, Fields
  <2>2. \A b \in Ids, r \in Recipients : delivery'[b][r].owner # j
    BY <1>1, <1>2, NoRows
  <2>. QED
    BY <2>1, <2>2 DEF JobTold, Backed, Ended, LoadedTrue, Written
<1>. QED
  BY <1>4, <1>5, <1>6, StatusStep

\* A new briefing is not mailed, and has no delivery.
LEMMA StoreTold ==
    ASSUME IInv, StatusInv, NEW j \in Jobs, NEW b \in Ids, Store(j, b)
    PROVE  StatusInv'
<1>1. PICK t : t = job[j]
  OBVIOUS
<1>2. t.at = "store" /\ briefing[b].status = "ABSENT"
  BY <1>1 DEF Store
<1>3. t \in Transaction /\ JobTold(j) /\ j # Nobody
  BY <1>1, <1>2, Running2, DeliveryAssumption
<1>4. CASE Undo(j)
  BY <1>4, UndoTold
<1>5. ASSUME ~Undo(j)
      PROVE  StatusInv'
  <2>1. PICK status \in {"READY", "SKIPPED_NO_CHANGE"}, at \in Onward(t, t.items) :
           /\ briefing' = [briefing EXCEPT ![b] = [status |-> status, key |-> t.key,
                              items |-> t.items, owner |-> j]]
           /\ Set(j, Proceed([t EXCEPT !.briefing = b, !.loaded = status, !.writes = TRUE], at))
           /\ UNCHANGED <<event, delivery, letters, oneWriter>>
    BY <1>1, <1>5 DEF Store
  <2>2. PICK v : v = [t EXCEPT !.briefing = b, !.loaded = status, !.writes = TRUE]
    OBVIOUS
  <2>3. v \in Transaction /\ v.marks = t.marks /\ v.writes = TRUE /\ v.loaded = status
    BY <1>3, <2>2 DEF Transaction, Status
  <2>4. at \in {"look", "lookup", "retain", "commit"}
    BY <1>3, OnwardFacts
  <2>5. PICK u : u = Proceed(v, at)
    OBVIOUS
  <2>6. /\ u.marks = t.marks /\ (u.marks # {} => u.writes = TRUE) /\ u.at \in {at, "idle"}
        /\ at = "lookup" => u.loaded = status
    BY <2>3, <2>4, <2>5, ProceedKeeps
  <2>7. job' = [job EXCEPT ![j] = u] /\ job \in [Jobs -> Transaction \cup {Idle}]
    BY <2>1, <2>2, <2>5 DEF Set, IInv, TypeOK
  <2>8. job'[j] = u /\ \A s \in Jobs \ {j} : job'[s] = job[s]
    BY <2>7
  <2>9. /\ \A c \in Ids \ {b} : briefing'[c] = briefing[c]
        /\ briefing'[b].status = status /\ briefing'[b].owner = j /\ delivery' = delivery
    BY <2>1 DEF IInv, TypeOK
  <2>10. \A r \in Recipients : delivery[b][r].status \notin Mailed
    BY <1>2 DEF IInv, Rows, EmptyRows, Mailed
  <2>11. StatusGuarantee(j)
    BY <1>2, <2>8, <2>9 DEF StatusGuarantee, Exists, Mailed
  <2>12. ASSUME NEW c \in Ids
         PROVE  Told(c)' /\ Unmailed(c)'
    <3>1. CASE c = b
      BY <1>3, <2>9, <3>1 DEF Told, Unmailed, Committed, Mailed
    <3>2. CASE c # b
      <4>1. Told(c) /\ Unmailed(c) /\ briefing'[c] = briefing[c] /\ delivery' = delivery
        BY <2>9, <3>2 DEF StatusInv
      <4>. QED
        BY <4>1 DEF Told, Unmailed, Committed, Exists, EndedSo
    <3>. QED
      BY <3>1, <3>2
  <2>13. JobTold(j)'
    <3>1. Backed(j)'
      BY <1>1, <1>3, <2>6, <2>8, <2>9 DEF JobTold, Backed
    <3>2. Ended(j)'
      <4>. SUFFICES ASSUME NEW c \in Ids, NEW r \in Recipients, delivery[c][r].owner = j,
                           delivery[c][r].status \in Mailed, briefing'[c].status \in Status
                    PROVE  (\E m \in t.marks : m[1] = c) \/ briefing'[c].status \in Mailed
        BY <2>6, <2>8, <2>9 DEF Ended, Exists
      <4>1. briefing'[c] = briefing[c]
        BY <2>9, <2>10
      <4>. QED
        BY <1>1, <1>3, <4>1 DEF JobTold, Ended, Exists
    <3>3. LoadedTrue(j)' /\ Written(j)'
      BY <2>4, <2>6, <2>8 DEF LoadedTrue, Written, Mailed
    <3>. QED
      BY <3>1, <3>2, <3>3 DEF JobTold
  <2>. QED
    BY <2>11, <2>12, <2>13, StatusStep
<1>. QED
  BY <1>4, <1>5

\* A new delivery has not ended.
LEMMA ClaimTold ==
    ASSUME IInv, StatusInv, NEW j \in Jobs, Claim(j)
    PROVE  StatusInv'
<1>1. PICK t : t = job[j]
  OBVIOUS
<1>. DEFINE b == t.briefing
            row == delivery[b][t.to]
<1>2. t.at = "claim" /\ row.owner = Nobody
  BY <1>1 DEF Claim
<1>3. t \in Transaction /\ JobTold(j) /\ j # Nobody
  BY <1>1, <1>2, Running2, DeliveryAssumption
<1>4. b \in Ids /\ t.kind # "generate" /\ t.to \in Recipients
  BY <1>1, <1>2, Running, MoreFields DEF JobInv, Placed
<1>5. CASE Undo(j)
  BY <1>5, UndoTold
<1>6. ASSUME ~Undo(j)
      PROVE  StatusInv'
  <2>1. PICK status : status = IF t.ready THEN "PENDING" ELSE "NOT_CONFIGURED"
    OBVIOUS
  <2>2. PICK v : v = IF t.ready THEN [t EXCEPT !.at = "post", !.writes = TRUE]
                     ELSE [t EXCEPT !.writes = TRUE]
    OBVIOUS
  <2>3. /\ v \in Transaction /\ v.marks = t.marks /\ v.writes = TRUE /\ v.kind = t.kind
        /\ v.briefing = b /\ v.loaded = t.loaded /\ (t.ready => v.at = "post")
    BY <1>3, <2>2 DEF Transaction
  <2>4. PICK u : u = IF t.ready THEN v ELSE AfterMail(v)
    OBVIOUS
  <2>5. ~t.ready => /\ u.marks = t.marks /\ (u.marks # {} => u.writes = TRUE)
                    /\ u.at \in {"look", "retain", "commit", "idle"}
    BY <1>4, <2>3, <2>4, AfterMailKeeps
  <2>6. /\ row.status = "NONE"
        /\ delivery' = [delivery EXCEPT ![b][t.to] = [status |-> status, owner |-> j]]
        /\ Set(j, u) /\ briefing' = briefing
    BY <1>1, <1>6, <2>1, <2>2, <2>4 DEF Claim
  <2>7. job' = [job EXCEPT ![j] = u] /\ job \in [Jobs -> Transaction \cup {Idle}]
    BY <2>6 DEF Set, IInv, TypeOK
  <2>8. job'[j] = u /\ \A s \in Jobs \ {j} : job'[s] = job[s]
    BY <2>7
  <2>9. /\ delivery'[b][t.to].owner = j /\ delivery'[b][t.to].status \notin Mailed
        /\ \A c \in Ids, r \in Recipients : c # b \/ r # t.to => delivery'[c][r] = delivery[c][r]
    BY <1>4, <2>1, <2>6 DEF IInv, TypeOK, Mailed
  <2>10. row.status \notin Mailed
    BY <2>6 DEF Mailed
  <2>11. u.marks = t.marks
    BY <2>3, <2>4, <2>5
  <2>12. Backed(j)'
    <3>. SUFFICES ASSUME NEW m \in t.marks
                  PROVE  /\ m[2] \in Mailed
                         /\ \E r \in Recipients : /\ delivery'[m[1]][r].owner = j
                                                  /\ delivery'[m[1]][r].status = m[2]
      BY <2>8, <2>11 DEF Backed
    <3>1. PICK r \in Recipients : /\ m[2] \in Mailed /\ delivery[m[1]][r].owner = j
                                  /\ delivery[m[1]][r].status = m[2]
      BY <1>1, <1>3 DEF JobTold, Backed
    <3>2. m[1] \in Ids
      BY <1>3, Fields
    <3>3. delivery'[m[1]][r] = delivery[m[1]][r]
      BY <2>9, <2>10, <3>1, <3>2
    <3>. QED
      BY <3>1, <3>3
  <2>13. Ended(j)'
    <3>. SUFFICES ASSUME NEW c \in Ids, NEW r \in Recipients, delivery'[c][r].owner = j,
                         delivery'[c][r].status \in Mailed, Exists(c)
                  PROVE  (\E m \in t.marks : m[1] = c) \/ briefing[c].status \in Mailed
      BY <2>6, <2>8, <2>11 DEF Ended, Exists
    <3>1. delivery'[c][r] = delivery[c][r]
      BY <2>9
    <3>. QED
      BY <1>1, <1>3, <3>1 DEF JobTold, Ended
  <2>14. LoadedTrue(j)' /\ Written(j)'
    <3>1. CASE t.ready
      <4>1. u.at = "post" /\ u.briefing = b /\ u.loaded = t.loaded /\ u.writes = TRUE
        BY <2>3, <2>4, <3>1
      <4>. QED
        BY <1>1, <1>2, <1>3, <2>6, <2>8, <4>1 DEF JobTold, LoadedTrue, Written, Exists
    <3>2. CASE ~t.ready
      BY <2>5, <2>8, <3>2 DEF LoadedTrue, Written
    <3>. QED
      BY <3>1, <3>2
  <2>15. JobTold(j)'
    BY <2>12, <2>13, <2>14 DEF JobTold
  <2>16. \A c \in Ids, r \in Recipients : delivery'[c][r] # delivery[c][r] =>
              /\ delivery[c][r].owner = j \/ delivery[c][r].status = "NONE"
              /\ delivery[c][r].owner \in {j, Nobody} /\ delivery'[c][r].owner = j
    BY <1>2, <2>6, <2>9
  <2>. QED
    BY <2>6, <2>8, <2>15, <2>16, Uncommitted
<1>. QED
  BY <1>5, <1>6

\* The delivery and the status of its briefing end together.
LEMMA FinishTold ==
    ASSUME IInv, StatusInv, NEW j \in Jobs, Finish(j)
    PROVE  StatusInv'
<1>1. PICK t : t = job[j]
  OBVIOUS
<1>. DEFINE b == t.briefing
<1>2. t.at = "finish"
  BY <1>1 DEF Finish
<1>3. t \in Transaction /\ JobTold(j) /\ t.writes = TRUE
  BY <1>1, <1>2, Running2 DEF JobTold, Written
<1>4. b \in Ids /\ t.kind # "generate" /\ t.to \in Recipients
      /\ delivery[b][t.to] = [status |-> "PENDING", owner |-> j]
  BY <1>1, <1>2, Running, MoreFields DEF JobInv, Placed, Claimed
<1>5. CASE Undo(j)
  BY <1>5, UndoTold
<1>6. ASSUME ~Undo(j)
      PROVE  StatusInv'
  <2>1. PICK result : result = IF t.sent THEN "SENT" ELSE "FAILED"
    OBVIOUS
  <2>2. PICK v : v = [t EXCEPT !.marks = IF result # t.loaded THEN @ \cup {<<b, result>>} ELSE @]
    OBVIOUS
  <2>3. /\ delivery' = [delivery EXCEPT ![b][t.to].status = result]
        /\ Set(j, AfterMail(v)) /\ briefing' = briefing
    BY <1>1, <1>6, <2>1, <2>2 DEF Finish
  <2>4. result \in Mailed /\ result \in Status
    BY <2>1 DEF Mailed, Status
  <2>5. /\ v \in Transaction /\ v.kind = t.kind /\ v.writes = TRUE
        /\ t.marks \subseteq v.marks /\ v.marks \subseteq t.marks \cup {<<b, result>>}
        /\ result # t.loaded => <<b, result>> \in v.marks
    BY <1>3, <1>4, <2>2, <2>4 DEF Transaction
  <2>6. PICK u : u = AfterMail(v)
    OBVIOUS
  <2>7. /\ u.marks = v.marks /\ (u.marks # {} => u.writes = TRUE)
        /\ u.at \in {"look", "retain", "commit", "idle"}
    BY <1>4, <2>5, <2>6, AfterMailKeeps
  <2>8. job' = [job EXCEPT ![j] = u] /\ job \in [Jobs -> Transaction \cup {Idle}]
    BY <2>3, <2>6 DEF Set, IInv, TypeOK
  <2>9. job'[j] = u /\ \A s \in Jobs \ {j} : job'[s] = job[s]
    BY <2>8
  <2>10. /\ delivery'[b][t.to] = [delivery[b][t.to] EXCEPT !.status = result]
         /\ \A c \in Ids, r \in Recipients : c # b \/ r # t.to => delivery'[c][r] = delivery[c][r]
    BY <1>4, <2>3 DEF IInv, TypeOK
  <2>11. delivery'[b][t.to].owner = j /\ delivery'[b][t.to].status = result
         /\ delivery[b][t.to].owner = j /\ delivery[b][t.to].status \notin Mailed
    BY <1>4, <2>10 DEF Mailed
  <2>12. Backed(j)'
    <3>. SUFFICES ASSUME NEW m \in u.marks
                  PROVE  /\ m[2] \in Mailed
                         /\ \E r \in Recipients : /\ delivery'[m[1]][r].owner = j
                                                  /\ delivery'[m[1]][r].status = m[2]
      BY <2>9 DEF Backed
    <3>1. CASE m \in t.marks
      <4>1. PICK r \in Recipients : /\ m[2] \in Mailed /\ delivery[m[1]][r].owner = j
                                    /\ delivery[m[1]][r].status = m[2]
        BY <1>1, <1>3, <3>1 DEF JobTold, Backed
      <4>2. m[1] \in Ids
        BY <1>3, <3>1, Fields
      <4>3. delivery'[m[1]][r] = delivery[m[1]][r]
        BY <2>10, <2>11, <4>1, <4>2
      <4>. QED
        BY <4>1, <4>3
    <3>2. CASE m = <<b, result>>
      BY <1>4, <2>4, <2>11, <3>2
    <3>. QED
      BY <2>5, <2>7, <3>1, <3>2
  <2>13. Ended(j)'
    <3>. SUFFICES ASSUME NEW c \in Ids, NEW r \in Recipients, delivery'[c][r].owner = j,
                         delivery'[c][r].status \in Mailed, Exists(c)
                  PROVE  (\E m \in u.marks : m[1] = c) \/ briefing[c].status \in Mailed
      BY <2>3, <2>9 DEF Ended, Exists
    <3>1. CASE c = b /\ r = t.to
      <4>1. CASE result # t.loaded
        <5>1. <<b, result>> \in u.marks
          BY <2>5, <2>7, <4>1
        <5>. QED
          BY <3>1, <5>1
      <4>2. CASE result = t.loaded
        BY <1>1, <1>2, <1>3, <2>4, <3>1, <4>2 DEF JobTold, LoadedTrue
      <4>. QED
        BY <4>1, <4>2
    <3>2. CASE ~(c = b /\ r = t.to)
      <4>1. delivery'[c][r] = delivery[c][r]
        BY <2>10, <3>2
      <4>2. (\E m \in t.marks : m[1] = c) \/ briefing[c].status \in Mailed
        BY <1>1, <1>3, <4>1 DEF JobTold, Ended
      <4>. QED
        BY <2>5, <2>7, <4>2
    <3>. QED
      BY <3>1, <3>2
  <2>14. LoadedTrue(j)' /\ Written(j)'
    BY <2>7, <2>9 DEF LoadedTrue, Written
  <2>15. JobTold(j)'
    BY <2>12, <2>13, <2>14 DEF JobTold
  <2>16. \A c \in Ids, r \in Recipients : delivery'[c][r] # delivery[c][r] =>
              /\ delivery[c][r].owner = j \/ delivery[c][r].status = "NONE"
              /\ delivery[c][r].owner \in {j, Nobody} /\ delivery'[c][r].owner = j
    BY <2>10, <2>11
  <2>. QED
    BY <2>3, <2>9, <2>15, <2>16, Uncommitted
<1>. QED
  BY <1>5, <1>6

\* The status after a commit is one the job has marked, or the old one.
LEMMA KeptStatus ==
    ASSUME IInv, NEW j \in Jobs, NEW b \in Ids
    PROVE  \/ /\ \A m \in job[j].marks : m[1] # b
              /\ Kept(j, b).status = briefing[b].status
           \/ \E m \in job[j].marks :
                 m[1] = b /\ Kept(j, b).status = m[2] /\ Kept(j, b).owner = Nobody
<1>1. PICK row \in Briefing : row = briefing[b]
  BY DEF IInv, TypeOK
<1>2. PICK marks : marks = {m \in job[j].marks : m[1] = b}
  OBVIOUS
<1>3. PICK kept : kept = Kept(j, b)
  OBVIOUS
<1>4. CASE marks = {}
  <2>1. kept = [row EXCEPT !.owner = IF row.owner = j THEN Nobody ELSE @]
    BY <1>1, <1>2, <1>3, <1>4 DEF Kept
  <2>2. kept.status = row.status
    BY <1>1, <2>1 DEF Briefing
  <2>. QED
    BY <1>1, <1>2, <1>3, <1>4, <2>2
<1>5. CASE marks # {}
  <2>1. PICK m \in marks : m = CHOOSE x \in marks : TRUE
    BY <1>5
  <2>2. kept = [row EXCEPT !.status = m[2], !.owner = Nobody]
    BY <1>1, <1>2, <1>3, <1>5, <2>1 DEF Kept
  <2>3. kept.status = m[2] /\ kept.owner = Nobody
    BY <1>1, <2>2 DEF Briefing
  <2>4. m \in job[j].marks /\ m[1] = b
    BY <1>2, <2>1
  <2>5. \E x \in job[j].marks : x[1] = b /\ kept.status = x[2] /\ kept.owner = Nobody
    BY <2>3, <2>4, Zenon
  <2>. QED
    BY <1>3, <2>5, Zenon
<1>. QED
  BY <1>4, <1>5

\* A commit publishes results and statuses that belong together.
LEMMA CommitTold ==
    ASSUME IInv, StatusInv, NEW j \in Jobs, Commit(j)
    PROVE  StatusInv'
<1>1. /\ JobTold(j) /\ JobInv(j) /\ j # Nobody
      /\ job \in [Jobs -> Transaction \cup {Idle}] /\ job' = [job EXCEPT ![j] = Idle]
  BY DeliveryAssumption DEF IInv, TypeOK, StatusInv, Commit, Set
<1>2. job'[j] = Idle /\ \A s \in Jobs \ {j} : job'[s] = job[s]
  BY <1>1
<1>3. \A b \in job[j].deletes :
         /\ briefing'[b].status \notin Status /\ briefing'[b].owner = Nobody
         /\ \A r \in Recipients : /\ delivery'[b][r].owner = Nobody
                                  /\ delivery[b][r].owner \in {j, Nobody}
  BY <1>1, CommitFacts, NoRows DEF JobInv, Deleting, Status
<1>4. \A b \in Ids \ job[j].deletes :
         /\ briefing[b].owner = j => briefing'[b].owner = Nobody
         /\ briefing[b].owner # j => briefing'[b].owner = briefing[b].owner
         /\ briefing'[b].status \in Status <=> Exists(b)
         /\ \A r \in Recipients :
               /\ delivery'[b][r].status = delivery[b][r].status
               /\ delivery[b][r].owner = j => delivery'[b][r].owner = Nobody
               /\ delivery[b][r].owner # j => delivery'[b][r] = delivery[b][r]
  BY CommitFacts
<1>5. \A b \in Ids \ job[j].deletes :
         \/ (\A m \in job[j].marks : m[1] # b) /\ briefing'[b].status = briefing[b].status
         \/ \E m \in job[j].marks :
               m[1] = b /\ briefing'[b].status = m[2] /\ briefing'[b].owner = Nobody
  <2>1. \A b \in Ids \ job[j].deletes : briefing'[b] = Kept(j, b)
    BY DEF Commit
  <2>. QED
    BY <2>1, KeptStatus
<1>6. \A m \in job[j].marks : m[2] \in Mailed
  BY <1>1 DEF JobTold, Backed
<1>7. StatusGuarantee(j)
  <2>1. \A b \in Ids, r \in Recipients :
          delivery[b][r].owner \in Jobs \ {j} \/ delivery'[b][r].owner \in Jobs \ {j}
             => delivery'[b][r] = delivery[b][r]
    BY <1>3, <1>4, DeliveryAssumption
  <2>2. ASSUME NEW b \in Ids, briefing'[b].status \in Status
        PROVE  /\ briefing[b].status \in Mailed => briefing'[b].status \in Mailed
               /\ Exists(b)
    <3>1. b \notin job[j].deletes
      BY <1>3, <2>2
    <3>. QED
      BY <1>4, <1>5, <1>6, <2>2, <3>1
  <2>. QED
    BY <1>2, <2>1, <2>2 DEF StatusGuarantee
<1>8. ASSUME NEW b \in Ids
      PROVE  Told(b)'
  <2>. SUFFICES ASSUME briefing'[b].status \in Status, briefing'[b].owner = Nobody
                PROVE  IF briefing'[b].status \in Mailed THEN EndedSo(b, briefing[b].status)'
                       ELSE ~EndedSo(b, "SENT")' /\ ~EndedSo(b, "FAILED")'
    BY DEF Told, Committed, Exists
  <2>1. b \notin job[j].deletes /\ Exists(b)
    BY <1>3, <1>4
  <2>2. \A r \in Recipients : \A status :
           delivery'[b][r].owner = Nobody /\ delivery'[b][r].status = status
             <=> delivery[b][r].owner \in {j, Nobody} /\ delivery[b][r].status = status
    BY <1>4, <2>1
  <2>3. CASE \E m \in job[j].marks :
               m[1] = b /\ briefing'[b].status = m[2] /\ briefing'[b].owner = Nobody
    <3>1. PICK m \in job[j].marks : m[1] = b /\ briefing'[b].status = m[2]
      BY <2>3
    <3>2. PICK r \in Recipients : delivery[b][r].owner = j /\ delivery[b][r].status = m[2]
      BY <1>1, <3>1 DEF JobTold, Backed
    <3>3. delivery'[b][r].owner = Nobody /\ delivery'[b][r].status = m[2]
      BY <2>2, <3>2
    <3>. QED
      BY <1>6, <3>1, <3>3 DEF EndedSo
  <2>4. CASE (\A m \in job[j].marks : m[1] # b) /\ briefing'[b].status = briefing[b].status
    <3>1. briefing[b].status \notin Mailed =>
             \A r \in Recipients : delivery[b][r].status \in Mailed => delivery[b][r].owner # j
      BY <1>1, <2>1, <2>4 DEF JobTold, Ended
    <3>2. CASE briefing[b].owner = j
      <4>1. briefing[b].status \notin Mailed
        BY <3>2 DEF StatusInv, Unmailed
      <4>2. \A r \in Recipients : delivery[b][r].status \in Mailed => delivery[b][r].owner = j
        BY <3>2 DEF IInv, Rows, OwnDeliveries, Mailed
      <4>3. \A r \in Recipients : delivery[b][r].status \notin Mailed
        BY <3>1, <4>1, <4>2
      <4>. QED
        BY <2>2, <2>4, <4>1, <4>3 DEF EndedSo, Mailed
    <3>3. CASE briefing[b].owner = Nobody
      <4>1. IF briefing[b].status \in Mailed THEN EndedSo(b, briefing[b].status)
            ELSE ~EndedSo(b, "SENT") /\ ~EndedSo(b, "FAILED")
        BY <2>1, <3>3 DEF StatusInv, Told, Committed
      <4>2. CASE briefing[b].status \in Mailed
        BY <2>2, <2>4, <4>1, <4>2 DEF EndedSo
      <4>3. CASE briefing[b].status \notin Mailed
        BY <2>2, <2>4, <3>1, <4>1, <4>3 DEF EndedSo, Mailed
      <4>. QED
        BY <4>2, <4>3
    <3>4. briefing[b].owner \in {j, Nobody}
      BY <1>4, <2>1
    <3>. QED
      BY <3>2, <3>3, <3>4
  <2>. QED
    BY <1>5, <2>1, <2>3, <2>4
<1>9. ASSUME NEW b \in Ids
      PROVE  Unmailed(b)'
  <2>1. Unmailed(b)
    BY DEF StatusInv
  <2>2. CASE b \in job[j].deletes
    BY <1>3, <2>2, DeliveryAssumption DEF Unmailed
  <2>3. CASE b \notin job[j].deletes
    BY <1>4, <1>5, <2>1, <2>3, DeliveryAssumption DEF Unmailed
  <2>. QED
    BY <2>2, <2>3
<1>10. JobTold(j)'
  <2>1. job'[j].marks = {} /\ job'[j].at = "idle"
    BY <1>2, Fields
  <2>2. \A b \in Ids, r \in Recipients : delivery'[b][r].owner # j
    BY <1>1, <1>3, <1>4
  <2>. QED
    BY <2>1, <2>2 DEF JobTold, Backed, Ended, LoadedTrue, Written
<1>. QED
  BY <1>7, <1>8, <1>9, <1>10, StatusStep

LEMMA StatusInit == Init => StatusInv
<1>. SUFFICES ASSUME Init PROVE StatusInv
  OBVIOUS
<1>1. /\ \A b \in Ids : briefing[b].status \notin Status /\ briefing[b].owner = Nobody
      /\ \A b \in Ids, r \in Recipients : delivery[b][r].owner = Nobody
      /\ \A j \in Jobs : job[j].at = "idle" /\ job[j].marks = {}
  BY NoRows, Fields DEF Init
<1>2. \A b \in Ids : Told(b) /\ Unmailed(b)
  BY <1>1, DeliveryAssumption DEF Told, Unmailed, Committed, Exists
<1>3. \A j \in Jobs : JobTold(j)
  BY <1>1, DeliveryAssumption DEF JobTold, Backed, Ended, LoadedTrue, Written
<1>. QED
  BY <1>2, <1>3 DEF StatusInv

LEMMA StatusNext == IInv /\ StatusInv /\ [Next]_vars => StatusInv'
<1>. SUFFICES ASSUME IInv, StatusInv, [Next]_vars PROVE StatusInv'
  OBVIOUS
<1>1. CASE UNCHANGED vars
  BY <1>1 DEF vars, StatusInv, Told, Unmailed, JobTold, Backed, Ended, LoadedTrue, Written,
     Exists, Committed, EndedSo
<1>2. CASE Next
  <2>1. PICK j \in Jobs :
          \/ \E sync \in Syncs, session \in Sessions \cup {Nobody} : StartCycle(j, sync, session)
          \/ \E session \in Sessions \cup {Nobody} : StartGenerate(j, session)
          \/ \E b \in Ids : StartSendOf(j, b)
          \/ StartSend(j)
          \/ StartRetention(j)
          \/ \E period \in SUBSET Events : Look(j, period)
          \/ \E b \in Ids : Store(j, b)
          \/ \E taken, heard \in BOOLEAN : Post(j, taken, heard)
          \/ \E to \in Recipients, ready \in BOOLEAN : Lookup(j, to, ready)
          \/ Claim(j) \/ Finish(j) \/ Retain(j) \/ Commit(j)
          \/ Crash(j)
    BY <1>2, Zenon DEF Next
  <2>2. Crash(j) => StatusInv'
    BY UndoTold DEF Crash
  <2>. QED
    BY <2>1, <2>2, StartsTold, LookTold, StoreTold, PostTold, LookupTold, ClaimTold, FinishTold,
       RetainTold, CommitTold
<1>. QED
  BY <1>1, <1>2

\* The status of a committed briefing is what became of its mail: whatever jobs
\* overlap, crash or are rolled back, sent and failed stand for a committed
\* delivery that ended so, and without them no delivery has ended.
THEOREM StatusTellsMail == Spec => []StatusIsTrue
<1>1. IInv /\ StatusInv => StatusIsTrue
  BY ToldIsTrue DEF StatusInv
<1>2. Init => IInv /\ StatusInv
  BY InitIsRight, StatusInit
<1>3. IInv /\ StatusInv /\ [Next]_vars => (IInv /\ StatusInv)'
  BY NextIsRight, StatusNext
<1>. QED
  BY <1>1, <1>2, <1>3, PTL DEF Spec
=============================================================================
