--------------------------- MODULE MarketCalendar ---------------------------
(***************************************************************************)
(* When the briefings of the markets are due (services/market_calendar.py) *)
(* and who makes them: the cycle of the radar and the command              *)
(* market-briefings of cli.py.  Time is UTC; a session is a local day of   *)
(* its market.  The change to summer time is left out.                     *)
(***************************************************************************)
EXTENDS Integers, FiniteSets, FiniteSetsExt

CONSTANTS
    BriefingTypes,
    Market,        \* type -> [shift, open, close, preOpen, sessions]: local ticks
    DayTicks,
    Preferences,   \* type -> [offset, enabled]
    NoPreference,
    LastDay,       \* bound: the days that are searched for a session
    MaxNow         \* bound: the last tick

VARIABLES
    now,
    preference,    \* NotificationPreferenceRecord, or NoPreference
    made,          \* keys of market briefings: type and session
    announced      \* history: what was announced of a type under this preference

calendarVars == <<now, preference, made, announced>>

NotAnnounced == [day |-> -1, at |-> -1]

LocalDay(type, t) == (t + Market[type].shift) \div DayTicks

NotificationPreference == [BriefingTypes -> [offset : Nat, enabled : BOOLEAN]]

\* Of preferences and of calendars; a session is a day from the first on.
ASSUME CalendarAssumption ==
    /\ Preferences \subseteq NotificationPreference /\ NoPreference \notin Preferences
    /\ \A type \in BriefingTypes : Market[type].sessions \subseteq Nat
    /\ LastDay \in Nat

Offset(type) == IF preference = NoPreference THEN 1 ELSE preference[type].offset
Enabled(type) == preference # NoPreference /\ preference[type].enabled

\* schedule, of a session that the calendar confirms.
ScheduledAt(type, day) ==
    LET start == day * DayTicks - Market[type].shift IN
    IF Market[type].preOpen THEN start + Market[type].open - Offset(type)
    ELSE start + Market[type].close + Offset(type)

Confirmed(type, day) == day \in Market[type].sessions

\* next_schedule: the sessions from today on that are still to be reported.
Upcoming(type) ==
    {day \in LocalDay(type, now) .. LastDay :
        Confirmed(type, day) /\ ScheduledAt(type, day) >= now}

\* A session that is to be reported now, if it is of today.
Unreported(type, day) ==
    /\ Enabled(type) /\ Confirmed(type, day) /\ ScheduledAt(type, day) <= now
    /\ <<type, day>> \notin made

\* Defect: today is the day of UTC.
DueOfUtcDay ==
    {key \in BriefingTypes \X (0 .. LastDay) :
        key[2] = now \div DayTicks /\ Unreported(key[1], key[2])}

\* due_schedules: of the local day only.
Due ==
    {key \in BriefingTypes \X (0 .. LastDay) :
        key[2] = LocalDay(key[1], now) /\ Unreported(key[1], key[2])}

-----------------------------------------------------------------------------
\* GET /market-sessions/next.
Announce ==
    /\ announced' = [type \in BriefingTypes |->
          IF Upcoming(type) = {} THEN NotAnnounced
          ELSE [day |-> Min(Upcoming(type)), at |-> ScheduledAt(type, Min(Upcoming(type)))]]
    /\ UNCHANGED <<now, preference, made>>

\* A cycle makes the briefings that are due; one without news leaves no row unless
\* the user wants it, and is due again.
Cycle ==
    /\ \E stored \in SUBSET Due : made' = made \cup stored
    /\ UNCHANGED <<now, preference, announced>>

\* market-briefings --confirm: of the session that is named, by default that of
\* the UTC day, whether it is due, and a session, or not.
Command(type, day) ==
    /\ made' = made \cup {<<type, day>>}
    /\ UNCHANGED <<now, preference, announced>>

SetPreference(p) ==
    /\ p # preference
    /\ preference' = p
    /\ announced' = [type \in BriefingTypes |-> NotAnnounced]
    /\ UNCHANGED <<now, made>>

Tick ==
    /\ now < MaxNow /\ now' = now + 1
    /\ UNCHANGED <<preference, made, announced>>

CalendarInit ==
    /\ now = 0 /\ preference = NoPreference /\ made = {}
    /\ announced = [type \in BriefingTypes |-> NotAnnounced]

CalendarNext ==
    \/ Announce
    \/ Cycle
    \/ \E type \in BriefingTypes : Command(type, now \div DayTicks)
    \/ \E p \in Preferences : SetPreference(p)
    \/ Tick

CalendarSpec == CalendarInit /\ [][CalendarNext]_calendarVars

-----------------------------------------------------------------------------
CalendarTypeOK ==
    /\ now \in 0 .. MaxNow
    /\ preference # NoPreference => preference \in NotificationPreference
    /\ made \subseteq BriefingTypes \X (0 .. LastDay)
    /\ \A type \in BriefingTypes : announced[type].day \in -1 .. LastDay

\* What is announced is met: from the time that was announced to the end of the
\* local day of the session, its briefing is there or a cycle would make it, as
\* long as the user has not changed what they want.
AnnouncedIsMet ==
    \A type \in BriefingTypes :
        LET next == announced[type] IN
        /\ next # NotAnnounced
        /\ Enabled(type)
        /\ next.at <= now /\ LocalDay(type, now) = next.day
        => <<type, next.day>> \in made \cup Due
=============================================================================
