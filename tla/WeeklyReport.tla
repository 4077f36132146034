---------------------------- MODULE WeeklyReport ----------------------------
(***************************************************************************)
(* The e-mailed weekly report (internal/scheduler/scheduler.go) and the    *)
(* two settings that time it.  A ticker fires every hour, for the first    *)
(* time an hour after the start; a tick sends the report when the local    *)
(* weekday and hour are the ones set and no report has gone out that day,  *)
(* which the process keeps in memory only.  A parent changes weekday and   *)
(* hour in the settings form, which saves one after the other.             *)
(*                                                                         *)
(* Time is the household's: days of a few hours, hours of a few slots.     *)
(* The ticker's phase is the slot the process started in.  Within a slot   *)
(* ticks and requests run to their end (they take seconds).  Daylight      *)
(* saving skips or repeats an hour and does not cross midnight.            *)
(*                                                                         *)
(* Bounds: Weeks, and how often the server stops (MaxStops), a report is   *)
(* not sent or not known to be (MaxUnsent), the clock is changed           *)
(* (MaxShifts) and a form is posted (MaxForms); one form is under way at a *)
(* time.                                                                   *)
(***************************************************************************)
EXTENDS Integers, Sequences

CONSTANTS
    WeekLength,      \* days in a week: 7
    HoursPerDay,     \* 24
    HourLength,      \* slots in an hour: places the ticker's phase can have
    Default,         \* [weekday, hour] of the configuration: Sunday, 20
    Posted,          \* the [weekday, hour] that forms post
    Blank, Bad,      \* a field left blank; one that is no weekday or hour
    None, Sending,
    Weeks, MaxStops, MaxUnsent, MaxShifts, MaxForms

Weekdays == 0 .. WeekLength - 1
Hours == 0 .. HoursPerDay - 1
Slots == 0 .. HourLength - 1
Days == 0 .. Weeks * WeekLength - 1
Schedule == [weekday : Weekdays, hour : Hours]
Form == [weekday : Weekdays \cup {Blank, Bad}, hour : Hours \cup {Blank, Bad}]

ASSUME LengthsArePositive ==
    {WeekLength, HoursPerDay, HourLength, Weeks} \subseteq Nat \ {0}
ASSUME SchedulesAreGiven == Default \in Schedule /\ Posted \subseteq Form
ASSUME NotANumber == {Blank, Bad, None, Sending} \cap Int = {}
ASSUME NoneIsNew == None \notin Form \cup {Sending}
ASSUME MishapsAreNumbers == {MaxStops, MaxUnsent, MaxShifts, MaxForms} \subseteq Nat

VARIABLES
    day, hour, slot, \* the local clock
    saved,           \* the two settings, or the defaults they fall back to
    form,            \* the form under way: what of it is still to save, or None
    up,              \* the process runs
    phase,           \* the slot of an hour in which its ticker fires
    ticked,          \* the tick of this slot has been (or there was none: a start)
    tick,            \* what the tick under way has read: None, a weekday, Sending
    lastSentWeek,    \* the day of the last report of this process, or None
    last,            \* the last mail: day, hour, and what happened since
    week,            \* this week: its number, its mails, and whether it was quiet
    prev,            \* the week before, and the weekday it was reported on
    left             \* how often each mishap may still happen

clock == <<day, hour, slot>>
process == <<up, phase, ticked, tick, lastSentWeek>>
history == <<last, week, prev>>
reportVars == <<clock, saved, form, process, history, left>>

-----------------------------------------------------------------------------
ReportInit ==
    /\ day = 0 /\ hour = 0 /\ slot \in Slots
    /\ saved = Default
    /\ form = None
    /\ up = TRUE /\ phase = slot /\ ticked = TRUE
    /\ tick = None /\ lastSentWeek = None
    /\ last = None
    /\ week = [no |-> 0, mails |-> <<>>, quiet |-> FALSE]
    /\ prev = None
    /\ left = [stops |-> MaxStops, unsent |-> MaxUnsent,
               shifts |-> MaxShifts, forms |-> MaxForms]

Spend(what) == left[what] > 0 /\ left' = [left EXCEPT ![what] = @ - 1]

(* Something happens that the report of this week may suffer from.         *)
Disturb == week' = [week EXCEPT !.quiet = FALSE]

-----------------------------------------------------------------------------
(* The hour has passed since the ticker fired or was made.                 *)
TickDue == up /\ slot = phase /\ ~ticked
Busy == tick # None \/ form # None

LastSlot == slot = HourLength - 1
LastHour == hour = HoursPerDay - 1
WeekOver == LastSlot /\ LastHour /\ day % WeekLength = WeekLength - 1

Advance ==
    /\ ~TickDue /\ ~Busy
    /\ ~(WeekOver /\ week.no = Weeks - 1)
    /\ slot' = IF LastSlot THEN 0 ELSE slot + 1
    /\ hour' = IF ~LastSlot THEN hour ELSE IF LastHour THEN 0 ELSE hour + 1
    /\ day' = IF LastSlot /\ LastHour THEN day + 1 ELSE day
    /\ ticked' = FALSE
    /\ IF WeekOver
       THEN /\ prev' = [week |-> week, weekday |-> saved.weekday]
            /\ week' = [no |-> week.no + 1, mails |-> <<>>, quiet |-> up]
       ELSE UNCHANGED <<prev, week>>
    /\ UNCHANGED <<saved, form, up, phase, tick, lastSentWeek, last, left>>

(* Daylight saving time begins (an hour is skipped) or ends (repeated).    *)
Shift ==
    /\ ~Busy
    /\ Spend("shifts")
    /\ hour' \in {hour - 1, hour + 1} \cap Hours
    /\ last' = IF last = None THEN None ELSE [last EXCEPT !.moved = TRUE]
    /\ Disturb
    /\ UNCHANGED <<day, slot, saved, form, process, prev>>

Stop ==
    /\ up
    /\ Spend("stops")
    /\ up' = FALSE
    /\ tick' = None
    /\ form' = None
    /\ lastSentWeek' = None
    /\ last' = IF last = None THEN None ELSE [last EXCEPT !.forgotten = TRUE]
    /\ Disturb
    /\ UNCHANGED <<clock, saved, phase, ticked, prev>>

(* runWeeklyReport begins: a new ticker, and no report sent yet.           *)
Start ==
    /\ ~up
    /\ up' = TRUE
    /\ phase' = slot
    /\ ticked' = TRUE
    /\ Disturb
    /\ UNCHANGED <<clock, saved, form, tick, lastSentWeek, last, prev, left>>

-----------------------------------------------------------------------------
(* maybeSendWeeklyReport: the first Get of loadWeeklyReportSchedule ...    *)
Tick ==
    /\ TickDue /\ tick = None
    /\ ticked' = TRUE
    /\ tick' = saved.weekday
    /\ UNCHANGED <<clock, saved, form, up, phase, lastSentWeek, history, left>>

(* Mutant of Due: without "already sent".                                  *)
DueAlways(w) == w = day % WeekLength /\ saved.hour = hour

Due(w) ==
    /\ w = day % WeekLength
    /\ saved.hour = hour
    /\ lastSentWeek # day

(* ... and the second one, with the comparison.                            *)
CheckDue ==
    /\ tick \in Weekdays
    /\ tick' = IF Due(tick) THEN Sending ELSE None
    /\ UNCHANGED <<clock, saved, form, up, phase, ticked, lastSentWeek,
                   history, left>>

(* Mutant of ReportedWeek: the week of the day seven days ago.             *)
WeekAgo == (day - WeekLength) \div WeekLength

(* startOfWeek(now - 6 days): "the week that just ended".                  *)
ReportedWeek == (day - (WeekLength - 1)) \div WeekLength

SendReport ==
    /\ tick = Sending
    /\ tick' = None
    /\ lastSentWeek' = day
    /\ last' = [day |-> day, hour |-> hour, forgotten |-> FALSE, moved |-> FALSE]
    /\ week' = [week EXCEPT !.mails = Append(@, ReportedWeek)]
    /\ UNCHANGED <<clock, saved, form, up, phase, ticked, prev, left>>

(* A query or the mail server fails: the error is logged.  An error after  *)
(* the mail was handed over says nothing: it is in the parents' mailboxes, *)
(* and the process does not know.                                          *)
SendFails ==
    /\ tick = Sending
    /\ Spend("unsent")
    /\ tick' = None
    /\ \/ Disturb /\ UNCHANGED last
       \/ /\ week' = [week EXCEPT !.mails = Append(@, ReportedWeek), !.quiet = FALSE]
          /\ last' = [day |-> day, hour |-> hour, forgotten |-> TRUE, moved |-> FALSE]
    /\ UNCHANGED <<clock, saved, form, up, phase, ticked, lastSentWeek, prev>>

(* No parent has an e-mail address: that counts as sent.                   *)
NobodyToMail ==
    /\ tick = Sending
    /\ Spend("unsent")
    /\ tick' = None
    /\ lastSentWeek' = day
    /\ Disturb
    /\ UNCHANGED <<clock, saved, form, up, phase, ticked, last, prev>>

-----------------------------------------------------------------------------
(* UpdateSettings: the two fields are validated and saved in this order; a *)
(* blank one keeps what is saved, a bad one or an error ends the request.  *)
UpdateSettings(f) ==
    /\ up /\ form = None
    /\ Spend("forms")
    /\ form' = f
    /\ Disturb
    /\ UNCHANGED <<clock, saved, process, last, prev>>

SaveWeekday ==
    /\ form # None /\ form.weekday \in Weekdays
    /\ saved' = [saved EXCEPT !.weekday = form.weekday]
    /\ form' = [form EXCEPT !.weekday = Blank]
    /\ UNCHANGED <<clock, process, history, left>>

SaveHour ==
    /\ form # None /\ form.weekday = Blank /\ form.hour \in Hours
    /\ saved' = [saved EXCEPT !.hour = form.hour]
    /\ form' = None
    /\ UNCHANGED <<clock, process, history, left>>

(* Nothing is left to save, a field is refused, or a Set fails.            *)
EndForm ==
    /\ form # None
    /\ form' = None
    /\ UNCHANGED <<clock, saved, process, history, left>>

-----------------------------------------------------------------------------
ReportNext ==
    \/ Advance \/ Shift \/ Stop \/ Start
    \/ Tick \/ CheckDue \/ SendReport \/ SendFails \/ NobodyToMail
    \/ \E f \in Posted : UpdateSettings(f)
    \/ SaveWeekday \/ SaveHour \/ EndForm

ReportSpec == ReportInit /\ [][ReportNext]_reportVars

-----------------------------------------------------------------------------
(* The clock is a time of day, what is saved a schedule, and what the      *)
(* process remembers days it has seen.                                     *)
WeeklyTypeOK ==
    /\ day \in Nat /\ hour \in Hours /\ slot \in Slots
    /\ saved \in Schedule
    /\ form \in Form \cup {None}
    /\ up \in BOOLEAN /\ phase \in Slots /\ ticked \in BOOLEAN
    /\ tick \in Weekdays \cup {Sending, None}
    /\ lastSentWeek \in Nat \cup {None}
    /\ last \in [day : Nat, hour : Hours, forgotten : BOOLEAN, moved : BOOLEAN] \cup {None}
    /\ week \in [no : Nat, mails : Seq(Int), quiet : BOOLEAN]

(* The week that ended last when day d began or ends with d.               *)
LastEnding(d) == ((d + 1) \div WeekLength) - 1

(* A week in which nothing stopped, failed, was reset or moved the clock   *)
(* has exactly one report, whatever phase the ticker has, and it is about  *)
(* the week that ended last: no week is left out or reported twice.        *)
QuietWeekReported ==
    prev # None /\ prev.week.quiet =>
        prev.week.mails = <<LastEnding(prev.week.no * WeekLength + prev.weekday)>>

(* A second report on one day comes only when the process does not know of *)
(* the first (a restart forgets it, an error after the delivery hides it), *)
(* and then at another hour, unless that hour was repeated: whatever       *)
(* restarts, errors, repeated hours and changed settings there are, no     *)
(* process sends again what it knows it sent, and no hour has two.         *)
NoDoubleSend ==
    [][week'.no = week.no /\ week'.mails # week.mails /\ last # None
         => \/ last.day # day
            \/ last.forgotten /\ (last.hour # hour \/ last.moved)]_reportVars
=============================================================================
