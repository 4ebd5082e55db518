---------------------------- MODULE Maintenance ----------------------------
(***************************************************************************)
(* Maintenance windows: whether a configuration item is in maintenance     *)
(* now, until when, and when the next window starts, computed from its     *)
(* schedules and from the overrides that deploys and administrators start. *)
(*                                                                         *)
(* Time is in ticks, TicksPerDay to the day, and weeks begin with Sunday.  *)
(* A field of cron has one part.  Months, time zones and the clock changes *)
(* of summer are left out.                                                 *)
(***************************************************************************)
EXTENDS Integers, FiniteSets, FiniteSetsExt

CONSTANTS
    TicksPerDay,
    Horizon,  \* DEFAULT_HORIZON, in ticks
    Plans,    \* the schedules that are published: sets of records, see Occurrences
    Linger,   \* linger_minutes of an override
    LastTick  \* bound on the clock

VARIABLES
    schedules, \* the windows of an item
    override,  \* an override of it: its start, its end, when it was ended
    clock

maintenanceVars == <<schedules, override, clock>>

\* A bare * for the weekdays.
AnyDay == [kind |-> "star", a |-> 0, b |-> 0, step |-> 0]
WeekdayField == [kind : {"star", "one", "range"}, a : 0..7, b : 0..7, step : Nat]

\* The fields that the parser takes: a step after a day goes up to the day 0 only.
Accepted(f) ==
    \/ f = AnyDay
    \/ f.kind = "star" /\ f.step # 0
    \/ f.kind = "one" /\ (f.step = 0 \/ f.a \in {0, 7})
    \/ f.kind = "range"

\* Those that it reads as cron does: no */n, a/n or 0-7, and no
\* range with a step that goes over the end of the week.
Regular(f) ==
    \/ f = AnyDay
    \/ f.kind = "one" /\ f.step = 0
    \/ f.kind = "range" /\ f.step = 0 /\ <<f.a, f.b>> # <<0, 7>>
    \/ f.kind = "range" /\ f.a <= f.b /\ f.b < 7

Instant == 0..(TicksPerDay - 1)
WeeklySchedule == [type : {"weekly"}, days : SUBSET (0..6), start : Instant, end : Instant]
OnceSchedule == {s \in [type : {"once"}, start : Int, end : Int] : s.start < s.end}
\* dates: the days whose day of the month is given; none for a bare *.
CronSchedule == [type : {"cron"}, weekdays : {f \in WeekdayField : Accepted(f)}, dates : SUBSET Int,
                 ticks : SUBSET Instant, duration : Nat \ {0}]
Schedule == WeeklySchedule \cup OnceSchedule \cup CronSchedule

ASSUME MaintenanceAssumption ==
    /\ TicksPerDay \in Nat \ {0}
    /\ Horizon \in Nat /\ Linger \in Nat /\ LastTick \in Nat
    /\ \A plan \in Plans : IsFiniteSet(plan) /\ plan \subseteq Schedule

Never == -1
NoWindow == <<Never, Never>>
NoOverride == [from |-> Never, until |-> Never, ended |-> Never]

MaintenanceInit == schedules = {} /\ override = NoOverride /\ clock = 0

-----------------------------------------------------------------------------
(* Cron.                                                                   *)

\* _parse_cron_field() for weekdays, [kind, a, b, step], the step 0 if it is not
\* given: 7 becomes 0 also where it is the end of a range.
Weekdays(f) ==
    LET first  == IF f.kind = "star" THEN 0 ELSE f.a % 7
        last   == CASE f.kind = "star" -> 0
                    [] f.kind = "one" /\ f.step = 0 -> first
                    [] f.kind = "one" /\ f.step # 0 -> 0
                    [] OTHER -> f.b % 7
        step   == IF f.step = 0 THEN 1 ELSE f.step
    IN  IF f.kind = "range" /\ last < first THEN (first..6) \cup (0..last)
        ELSE {d \in first..last : (d - first) % step = 0}

\* matches_day(): of two restrictions one is enough.
FiresOn(s, day) ==
    \/ s.weekdays = AnyDay /\ s.dates = {}
    \/ s.weekdays # AnyDay /\ day % 7 \in Weekdays(s.weekdays)
    \/ day \in s.dates

Fires(s, t) == t % TicksPerDay \in s.ticks /\ FiresOn(s, t \div TicksPerDay)

-----------------------------------------------------------------------------
(* The occurrences that end after a time and start until another.          *)

\* Wrong: a window of yesterday that goes over midnight is not looked for.
FromToday(day) == day

FirstDay(day) == day - 1

Weekly(s, after, until) ==
    LET days       == {d \in FirstDay(after \div TicksPerDay)..(until \div TicksPerDay + 1) : d % 7 \in s.days}
        starts(d)  == d * TicksPerDay + s.start
        ends(d)    == (IF s.end <= s.start THEN d + 1 ELSE d) * TicksPerDay + s.end
    IN  {<<starts(d), ends(d)>> : d \in {e \in days : ends(e) > after /\ starts(e) <= until}}

Once(s, after, until) == IF s.end > after /\ s.start <= until THEN {<<s.start, s.end>>} ELSE {}

\* The last fire may still be running; the next ones follow it.
Cron(s, after, until) ==
    LET last == {t \in (after - s.duration)..after : Fires(s, t)}
        from == IF last = {} THEN after ELSE Max(last)
    IN  {<<t, t + s.duration>> : t \in {u \in from..until : Fires(s, u) /\ u + s.duration > after}}

Occurrences(s, after, until) ==
    CASE s.type = "weekly" -> Weekly(s, after, until)
      [] s.type = "once"   -> Once(s, after, until)
      [] s.type = "cron"   -> Cron(s, after, until)

\* _merged()
MergedOccurrences(plan, after, until) == UNION {Occurrences(s, after, until) : s \in plan}

\* Nothing, or the first occurrence extended by what overlaps or touches it: it
\* ends with the first end that no occurrence begun by then goes beyond.
FirstOf(found) ==
    LET over(e) == \A o \in found : o[1] <= e => o[2] <= e
    IN  IF found = {} THEN NoWindow
        ELSE <<Min({o[1] : o \in found}), Min({o[2] : o \in {p \in found : over(p[2])}})>>

\* _coalesce(): one interval from every start that no earlier occurrence reaches.
Coalesced(found) ==
    {FirstOf({o \in found : o[1] >= begin}) :
        begin \in {o[1] : o \in {p \in found : \A q \in found : q[1] < p[1] => q[2] < p[1]}}}

\* The limit of 500 occurrences is left out.
IntervalsBetween(plan, start, end) ==
    Coalesced({o \in MergedOccurrences(plan, start, end) : o[1] < end})

NextWindow(plan, after) == FirstOf(MergedOccurrences(plan, after, after + Horizon))

Begun(w, now) == IF w[1] <= now THEN w ELSE NoWindow
CurrentInterval(plan, now) == Begun(NextWindow(plan, now), now)

ToCome(w, now) == IF w = NoWindow \/ w[1] <= now THEN Never ELSE w[1]
NextAfter(running, plan, now) ==
    ToCome(NextWindow(plan, IF running = NoWindow THEN now ELSE running[2]), now)
NextStart(plan, now) == NextAfter(CurrentInterval(plan, now), plan, now)

OverrideUntil(o) == IF o.ended # Never THEN o.ended + Linger ELSE o.until

OverrideActive(o, now) == o # NoOverride /\ o.from <= now /\ now < OverrideUntil(o)

\* The state for the window that runs and the start that is next.
Combined(window, next, oEnds) ==
    CASE OverrideActive(override, clock) ->
             [active |-> TRUE, source |-> "override", until |-> IF window[2] > oEnds THEN window[2] ELSE oEnds, next |-> next]
      [] ~OverrideActive(override, clock) /\ window # NoWindow ->
             [active |-> TRUE, source |-> "window", until |-> window[2], next |-> next]
      [] OTHER -> [active |-> FALSE, source |-> "none", until |-> Never, next |-> next]

\* effective_state()
EffectiveState ==
    Combined(CurrentInterval(schedules, clock), NextStart(schedules, clock), OverrideUntil(override))

-----------------------------------------------------------------------------
(* What a plugin keeps of the messages it gets.                            *)

MaintenanceTicks == clock < LastTick /\ clock' = clock + 1 /\ UNCHANGED <<schedules, override>>

WindowsPublished(plan) == schedules' = plan /\ UNCHANGED <<override, clock>>

OverrideStarted(until) ==
    /\ until > clock
    /\ override' = [from |-> clock, until |-> until, ended |-> Never]
    /\ UNCHANGED <<schedules, clock>>

\* It may be ended late, or twice.
OverrideEnded ==
    /\ override # NoOverride
    /\ override' = [override EXCEPT !.ended = clock]
    /\ UNCHANGED <<schedules, clock>>

MaintenanceNext ==
    \/ MaintenanceTicks \/ OverrideEnded
    \/ \E plan \in Plans : WindowsPublished(plan)
    \/ \E until \in {clock + 1, clock + 2 * TicksPerDay} : OverrideStarted(until)

MaintenanceSpec == MaintenanceInit /\ [][MaintenanceNext]_maintenanceVars
-----------------------------------------------------------------------------

\* The schedules are of a plan; an override starts before it ends.
MaintenanceTypeOK ==
    /\ schedules = {} \/ schedules \in Plans
    /\ override # NoOverride =>
        /\ override \in [from : Nat, until : Nat, ended : Nat \cup {Never}]
        /\ override.from <= clock /\ override.from < override.until
    /\ clock \in 0..LastTick

\* What the schedules say: a weekday field means its days, 7 and 0 are Sunday.
Meant(f) ==
    LET step == IF f.step = 0 THEN 1 ELSE f.step
        last == CASE f.kind = "range" -> f.b [] f.kind = "one" /\ f.step = 0 -> f.a [] OTHER -> 6
    IN  {d % 7 : d \in {e \in f.a..last : (e - f.a) % step = 0}}
            \cup IF f.kind = "range" /\ f.b < f.a THEN (f.a..6) \cup (0..f.b) ELSE {}

\* Where the parser is known to read otherwise: */n, a step after a day and 0-7 are
\* Sundays only, and a step is forgotten in a range over the end of the week.
Understood(f) ==
    CASE Regular(f) -> Meant(f)
      [] ~Regular(f) /\ (f.kind # "range" \/ <<f.a, f.b>> = <<0, 7>>) -> {0}
      [] ~Regular(f) /\ f.kind = "range" /\ f.a = 7 -> {d \in 0..(f.b % 7) : d % f.step = 0}
      [] OTHER -> (f.a..6) \cup (0..(f.b % 7))

\* The days of a cron schedule: those of the weekdays or those of the dates, when
\* both are given.
FallsOn(s, day) ==
    IF s.dates = {} THEN day % 7 \in Understood(s.weekdays)
    ELSE day \in s.dates \/ (s.weekdays # AnyDay /\ day % 7 \in Understood(s.weekdays))

During(s, t) ==
    CASE s.type = "weekly" -> \E d \in (t \div TicksPerDay - 1)..(t \div TicksPerDay) :
             /\ d % 7 \in s.days
             /\ d * TicksPerDay + s.start <= t
             /\ t < (IF s.end <= s.start THEN d + 1 ELSE d) * TicksPerDay + s.end
      [] s.type = "once" -> s.start <= t /\ t < s.end
      [] s.type = "cron" -> \E u \in (t - s.duration + 1)..t :
             u % TicksPerDay \in s.ticks /\ FallsOn(s, u \div TicksPerDay)

InWindow(t) == \E s \in schedules : During(s, t)

IsMeant(state) ==
    LET on(t) == InWindow(t) \/ OverrideActive(override, t)
        begins(t) == InWindow(t) /\ ~InWindow(t - 1)
    IN  /\ state.active <=> on(clock)
        /\ state.active => \A t \in clock..(state.until - 1) : on(t)
        /\ state.source = "window" => ~InWindow(state.until) \/ state.until > clock + Horizon
        /\ state.next = Never => \A t \in (clock + 1)..(clock + Horizon) : ~begins(t)
        /\ state.next # Never =>
            /\ begins(state.next) \/ (InWindow(state.next) /\ state.next > clock + Horizon)
            /\ \A t \in (clock + 1)..(state.next - 1) : ~begins(t)

AreMeant(intervals, start, end) ==
    /\ \A t \in start..(end - 1) : InWindow(t) <=> \E w \in intervals : w[1] <= t /\ t < w[2]
    /\ \A v, w \in intervals : v = w \/ v[2] < w[1] \/ w[2] < v[1]

\* The computed state is what the schedules and the override say, tick by tick:
\* whether maintenance is on, up to when it stays on, and the start that is
\* next, within the horizon; and the windows listed for the coming days are the
\* ticks of the schedules, with a gap between any two. A weekday field means what
\* is Understood.
StateIsWhatIsMeant ==
    /\ IsMeant(EffectiveState)
    /\ AreMeant(IntervalsBetween(schedules, clock, clock + Horizon), clock, clock + Horizon)
=============================================================================
