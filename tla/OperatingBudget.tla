-------------------------- MODULE OperatingBudget --------------------------
(***************************************************************************)
(* What a month costs, and what a radar cycle leaves out because of it:    *)
(* services/operations.py, the use that services/radar_cycle.py makes of   *)
(* it, and the clean-up that removes what it counts.                       *)
(*                                                                         *)
(* A cycle asks for the mode before it does anything and records its own   *)
(* time when it has done everything, in one transaction; cycles may        *)
(* overlap.  Runs that record no time, those of the syncs and the          *)
(* clean-up, are left out.                                                 *)
(***************************************************************************)
EXTENDS Integers, FiniteSets, FiniteSetsExt

CONSTANTS
    Cycles,
    MonthLength,                      \* moments of a month
    LogLife,                          \* how long the record of a run is kept
    ComputeBudget, MailBudget, SizeBudget,  \* NoBudget for one that is not set
    Warning, Saving, Minimal, Pause,  \* thresholds, in percent
    Durations, PerMinute,             \* of a cycle, in parts of a minute
    Sizes,                            \* of the database
    NoBudget,
    LastMoment, MaxRuns, MaxMails     \* bounds

\* Settings.from_env refuses other settings.  The life of a record may well be
\* shorter than a month; its default is 14 days.
ASSUME BudgetAssumption ==
    /\ 0 < Warning /\ Warning < Saving /\ Saving < Minimal /\ Minimal < Pause /\ Pause <= 100
    /\ {Warning, Saving, Minimal, Pause} \subseteq Nat
    /\ \A budget \in {ComputeBudget, MailBudget, SizeBudget} :
          budget = NoBudget \/ budget \in Nat \ {0}
    /\ MonthLength \in Nat \ {0} /\ LogLife \in Nat \ {0}
    /\ PerMinute \in Nat \ {0} /\ Durations \subseteq Nat /\ Sizes \subseteq Nat /\ Sizes # {}
    /\ LastMoment \in Nat

VARIABLES
    time,
    size,       \* of the database
    runs,       \* rows of collection_runs: radar cycles
    mails,      \* deliveries of status SENT: a number of each moment
    cycle,      \* cycle -> what it has asked for at its start
    snapshot,   \* the last row of usage_snapshots
    past,       \* history: all rows that ever were in runs
    collected   \* history: how the last cycle collected news, and what the month had cost before

budgetVars == <<time, size, runs, mails, cycle, snapshot, past, collected>>

OperatingMode == {"NORMAL", "WARNING", "SAVING", "MINIMAL", "PAUSED"}
CollectionRun ==
    [number : 1 .. MaxRuns, started : 0 .. LastMoment, created : 0 .. LastMoment,
     duration : Durations, status : {"SUCCEEDED", "FAILED"}]

MonthOf(t) == t \div MonthLength

-----------------------------------------------------------------------------
(* Usage and mode.                                                         *)

\* Defect: a cycle that failed costs nothing.
RunsOfSuccesses(month) ==
    {r \in runs : MonthOf(r.started) >= month /\ r.status = "SUCCEEDED"}

\* The runs that UsageService.collect counts.
RunsOf(month) == {r \in runs : MonthOf(r.started) >= month}

\* History: the runs of a month that ever were recorded.
Past(month) == {r \in past : MonthOf(r.started) = month}

Time(rs) == FoldSet(LAMBDA r, sum : r.duration + sum, 0, rs)
Minutes(rs) == (Time(rs) + PerMinute - 1) \div PerMinute
MailsOf(month, ms) ==
    FoldSet(LAMBDA t, sum : ms[t] + sum, 0, {t \in DOMAIN ms : MonthOf(t) >= month})

\* A budget is used to so many percent.
Reaches(used, budget, threshold) == budget # NoBudget /\ used * 100 >= threshold * budget

\* BudgetService.mode, which goes by the budget that is used most.
ModeOf(minutes, mailCount, bytes) ==
    LET reached(threshold) ==
            \/ Reaches(minutes, ComputeBudget, threshold)
            \/ Reaches(mailCount, MailBudget, threshold)
            \/ Reaches(bytes, SizeBudget, threshold)
    IN  CASE reached(Pause) -> "PAUSED"
          [] reached(Minimal) /\ ~reached(Pause) -> "MINIMAL"
          [] reached(Saving) /\ ~reached(Minimal) -> "SAVING"
          [] reached(Warning) /\ ~reached(Saving) -> "WARNING"
          [] OTHER -> "NORMAL"

\* UsageService.collect at t.
Usage(t, rs, ms) == ModeOf(Minutes(rs), MailsOf(MonthOf(t), ms), size)

\* Of which items a cycle collects news: _eligible_instruments.
NewsOf(mode) ==
    CASE mode \in {"MINIMAL", "PAUSED"} -> "none"
      [] mode = "SAVING" -> "held"
      [] OTHER -> "watched"

-----------------------------------------------------------------------------
(* Cycles.                                                                 *)

\* Whose record RetentionService.run leaves at t.
Kept(rs, t) == {r \in rs : r.created + LogLife >= t}

\* before is history: what the month has cost when the mode is asked for, in all and
\* by the runs whose records need not have been removed.
StartCycle(c) ==
    /\ cycle[c] = NoBudget
    /\ cycle' = [cycle EXCEPT ![c] =
                    [at |-> time, mode |-> Usage(time, RunsOf(MonthOf(time)), mails),
                     before |-> [time |-> Time(Past(MonthOf(time))),
                                 recent |-> Time(Kept(Past(MonthOf(time)), time)),
                                 mails |-> MailsOf(MonthOf(time), mails), bytes |-> size]]]
    /\ UNCHANGED <<time, size, runs, mails, snapshot, past, collected>>

\* RadarCycleService.run to its end: news, mails, the clean-up when it is switched
\* on, the usage as it is then, and last the record of the cycle.
FinishCycle(c, duration, status, sent, cleans) ==
    LET job == cycle[c]
        left == IF cleans THEN Kept(runs, job.at) ELSE runs
        run == [number |-> Cardinality(past) + 1, started |-> job.at, created |-> time,
                duration |-> duration, status |-> status]
        sentThen == [mails EXCEPT ![job.at] = @ + sent]
    IN
    /\ job # NoBudget /\ run.number <= MaxRuns /\ sentThen[job.at] <= MaxMails
    /\ collected' = [items |-> NewsOf(job.mode), before |-> job.before]
    /\ mails' = sentThen
    /\ snapshot' = Usage(job.at, left \cap RunsOf(MonthOf(job.at)), sentThen)
    /\ runs' = left \cup {run}
    /\ past' = past \cup {run}
    /\ cycle' = [cycle EXCEPT ![c] = NoBudget]
    /\ UNCHANGED <<time, size>>

\* A cycle that fails records nothing, not even its time.
AbandonCycle(c) ==
    /\ cycle[c] # NoBudget /\ cycle' = [cycle EXCEPT ![c] = NoBudget]
    /\ UNCHANGED <<time, size, runs, mails, snapshot, past, collected>>

-----------------------------------------------------------------------------
(* Commands, and what goes on around them.                                 *)

\* collect-usage.
CollectUsage ==
    /\ snapshot' = Usage(time, RunsOf(MonthOf(time)), mails)
    /\ UNCHANGED <<time, size, runs, mails, cycle, past, collected>>

\* send-briefing.
SendMail ==
    /\ mails[time] < MaxMails /\ mails' = [mails EXCEPT ![time] = @ + 1]
    /\ UNCHANGED <<time, size, runs, cycle, snapshot, past, collected>>

\* retention-cleanup.  Deliveries go with their briefings, of whatever moment.
CleanUp ==
    /\ runs' = Kept(runs, time)
    /\ mails' \in {mails, [t \in DOMAIN mails |-> 0]}
    /\ UNCHANGED <<time, size, cycle, snapshot, past, collected>>

Resize(bytes) ==
    /\ size # bytes /\ size' = bytes
    /\ UNCHANGED <<time, runs, mails, cycle, snapshot, past, collected>>

Pass ==
    /\ time < LastMoment /\ time' = time + 1
    /\ UNCHANGED <<size, runs, mails, cycle, snapshot, past, collected>>

BudgetInit ==
    /\ time = 0 /\ size = Min(Sizes) /\ runs = {} /\ mails = [t \in 0 .. LastMoment |-> 0]
    /\ cycle = [c \in Cycles |-> NoBudget] /\ snapshot = NoBudget
    /\ past = {} /\ collected = NoBudget

BudgetNext ==
    \/ \E c \in Cycles :
          \/ StartCycle(c)
          \/ \E duration \in Durations, status \in {"SUCCEEDED", "FAILED"}, sent \in {0, 1},
                cleans \in BOOLEAN : FinishCycle(c, duration, status, sent, cleans)
          \/ AbandonCycle(c)
    \/ CollectUsage
    \/ SendMail
    \/ CleanUp
    \/ \E bytes \in Sizes : Resize(bytes)
    \/ Pass

BudgetSpec == BudgetInit /\ [][BudgetNext]_budgetVars

-----------------------------------------------------------------------------
BudgetTypeOK ==
    /\ time \in 0 .. LastMoment /\ size \in Sizes
    /\ runs \subseteq CollectionRun /\ snapshot \in OperatingMode \cup {NoBudget}
    /\ \A c \in Cycles : cycle[c] # NoBudget => cycle[c].mode \in OperatingMode
    /\ collected # NoBudget => collected.items \in {"none", "held", "watched"}

\* No cycle collects news, and none of items that are only watched, when the month
\* had reached the threshold for it before the cycle began: by the time of all its
\* cycles whose records need not have been removed by then, those that failed and
\* those that overlap included, by its mails, or by the size of the database.  And
\* news are left out only when the month, its time rounded up to the minute, had
\* reached it, whatever the months before have cost.
NewsWithinBudget ==
    collected # NoBudget =>
        LET n == collected
            reached(threshold, part, more) ==
                \/ /\ ComputeBudget # NoBudget
                   /\ (part + more) * 100 >= threshold * ComputeBudget * PerMinute
                \/ Reaches(n.before.mails, MailBudget, threshold)
                \/ Reaches(n.before.bytes, SizeBudget, threshold)
        IN  /\ reached(Minimal, n.before.recent, 0) => n.items = "none"
            /\ reached(Saving, n.before.recent, 0) => n.items # "watched"
            /\ n.items = "none" => reached(Minimal, n.before.time, PerMinute - 1)
            /\ n.items # "watched" => reached(Saving, n.before.time, PerMinute - 1)
=============================================================================
