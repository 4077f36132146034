----------------------------- MODULE LocalDays -----------------------------
(***************************************************************************)
(* The days of the household against those of the code.  The process runs  *)
(* in the household's time zone; some code counts days in UTC: the window  *)
(* of a CalDAV sync begins at a UTC midnight (caldav.go), that of Google   *)
(* at a local one (google.go); the lists and the five-day view begin at a  *)
(* local midnight (models/calendar.go, kiosk_week.go); a due date comes    *)
(* from the database as a UTC midnight, with which the weekly report       *)
(* compares the moment of completion (report/pdf.go).                      *)
(*                                                                         *)
(* Time is UTC, in steps of the clock.  A sync computes its window, asks,  *)
(* and stores the answer as one step: what can come between the statements *)
(* of its storing is in CalendarSync.  An answer holds the events that     *)
(* overlap the window.  Daylight saving is left out: the offset is fixed.  *)
(*                                                                         *)
(* Bounds: Horizon, and the changes of the source (MaxChanges).            *)
(***************************************************************************)
EXTENDS WeekGrid

CONSTANTS
    Zones,           \* offsets from UTC: local time is UTC plus the offset
    CalDAV, Google,
    Events,
    Times,           \* [starts, ends] that events may have
    WindowDays,      \* days synced ahead: at least the five of the week view
    Configured,      \* grids that may be configured
    None, Horizon, MaxChanges

ASSUME ZonesAreOffsets == \A z \in Zones : z \in Int /\ -DayLength < z /\ z < DayLength
ASSUME GridsAreGiven == Configured \subseteq Grids
ASSUME TimesAreIntervals ==
    Times \subseteq [starts : Nat, ends : Nat] /\ \A t \in Times : t.starts < t.ends
ASSUME BoundsAreNumbers ==
    Horizon \in Nat /\ WindowDays \in Nat \ {0} /\ MaxChanges \in Nat

VARIABLES
    zone, provider,  \* of this household: they never change
    now,
    source,          \* the events on the calendar server
    sync,            \* the sync under way: its window, or None
    cache,           \* the events cached
    stored,          \* what the last sync that came through saw: its moment,
                     \* the end of its window, the source; or None
    changes

household == <<zone, provider>>
vars == <<household, now, source, sync, cache, stored, changes>>

Init ==
    /\ zone \in Zones /\ provider \in {CalDAV, Google}
    /\ now = DayLength - zone
    /\ source \in [Events -> Times \cup {None}]
    /\ sync = None /\ stored = None
    /\ cache = [e \in Events |-> None]
    /\ changes = 0

-----------------------------------------------------------------------------
LocalDay(t) == (t + zone) \div DayLength
LocalMidnight(t) == LocalDay(t) * DayLength - zone
UTCMidnight(t) == (t \div DayLength) * DayLength
MinuteOfDay(t) == (t + zone) % DayLength

(* Mutant of WindowStart: from the moment of the sync.                     *)
FromNow(t) == t

(* DiscoverAndSyncAccount and SyncGoogleAccount.                           *)
WindowStart(t) == IF provider = Google THEN LocalMidnight(t) ELSE UTCMidnight(t)

Overlaps(t, from, to) == t.starts < to /\ t.ends > from

Pass ==
    /\ now < Horizon
    /\ now' = now + 1
    /\ UNCHANGED <<household, source, sync, cache, stored, changes>>

(* Somebody creates, moves or deletes an event on the server.              *)
Change(e, t) ==
    /\ changes < MaxChanges /\ source[e] # t
    /\ source' = [source EXCEPT ![e] = t]
    /\ changes' = changes + 1
    /\ UNCHANGED <<household, now, sync, cache, stored>>

BeginSync ==
    /\ sync = None
    /\ sync' = [from |-> WindowStart(now),
                to |-> WindowStart(now) + WindowDays * DayLength]
    /\ UNCHANGED <<household, now, source, cache, stored, changes>>

(* Upserts of what is in the answer, PruneStale of everything else.        *)
Store ==
    /\ sync # None
    /\ cache' = [e \in Events |->
                   IF source[e] # None /\ Overlaps(source[e], sync.from, sync.to)
                   THEN source[e] ELSE None]
    /\ stored' = [at |-> now, to |-> sync.to, source |-> source]
    /\ sync' = None
    /\ UNCHANGED <<household, now, source, changes>>

SyncFails ==
    /\ sync # None
    /\ sync' = None
    /\ UNCHANGED <<household, now, source, cache, stored, changes>>

Next ==
    \/ Pass
    \/ \E e \in Events, t \in Times \cup {None} : Change(e, t)
    \/ BeginSync \/ Store \/ SyncFails

Spec == Init /\ [][Next]_vars

-----------------------------------------------------------------------------
StartsIn(t, from, days) == from <= t.starts /\ t.starts < from + days * DayLength

(* ListInWindow; ListToday is that of one day.                             *)
ListInWindow(days) ==
    {e \in Events : cache[e] # None /\ StartsIn(cache[e], LocalMidnight(now), days)}
ListToday == ListInWindow(1)

(* Mutant of isLate: after the beginning of the last hour of the day.      *)
isLateEarly(at, due) == at > (due + 1) * DayLength - HourLength

(* isLate: after the last second of the due date, which is located in UTC. *)
isLate(at, due) == at > (due + 1) * DayLength - 1

-----------------------------------------------------------------------------
LocalTypeOK ==
    /\ zone \in Zones /\ provider \in {CalDAV, Google}
    /\ now \in Nat /\ changes \in Nat
    /\ source \in [Events -> Times \cup {None}]
    /\ cache \in [Events -> Times \cup {None}]
    /\ sync \in [from : Int, to : Int] \cup {None}
    /\ stored \in [at : Nat, to : Int, source : [Events -> Times \cup {None}]] \cup {None}

(* "Today's events should show even if already passed": as long as the     *)
(* last sync's window lasts, through midnights, days without a sync and a  *)
(* sync that straddles midnight, the list of today is that of the source   *)
(* as last seen, with its times.  Where a UTC midnight is not a local one, *)
(* CalDAV loses no more than events that were over when they were synced.  *)
TodayIsComplete ==
    stored # None /\ LocalMidnight(now) + DayLength <= stored.to =>
        LET today == {e \in Events :
                        /\ stored.source[e] # None
                        /\ StartsIn(stored.source[e], LocalMidnight(now), 1)}
            over == {e \in today : stored.source[e].ends <= stored.at}
        IN /\ ListToday \subseteq today
           /\ \A e \in ListToday : cache[e] = stored.source[e]
           /\ today \ over \subseteq ListToday
           /\ provider = Google \/ zone = 0 => over \subseteq ListToday

(* The due dates of what can be completed now: today's and earlier ones,   *)
(* by the local day for which EnsureForDate made them.                     *)
DueDates == 0 .. LocalDay(now)

(* The report's verdict on what is completed now errs one way only: west   *)
(* of Greenwich no late chore is taken for one on time, east of it none on *)
(* time for a late one.                                                    *)
LateErrsOneWay ==
    \A due \in DueDates :
        /\ zone <= 0 /\ due < LocalDay(now) => isLate(now, due)
        /\ zone >= 0 /\ isLate(now, due) => due < LocalDay(now)

(* What pdf.go says of isLate: "late" if completed after the end of its    *)
(* due date.                                                               *)
LateMeansLate ==
    \A due \in DueDates : isLate(now, due) <=> due < LocalDay(now)

(* On whatever grid is configured, each event of the five-day view has a   *)
(* block that begins on the grid, and of two of a day the one that starts  *)
(* first is not drawn below the other.  Only a block of the least height,  *)
(* which an event gets that is shorter or outside the hours shown, may     *)
(* leave the grid at its end or cover one that starts when it is over.     *)
BlocksInOrder ==
    \A grid \in Configured, e, f \in ListInWindow(5) :
        LET start(x) == MinuteOfDay(cache[x].starts)
            top(x) == Top(start(x), grid)
            bottom == Bottom(start(e), MinuteOfDay(cache[e].ends), grid)
            least == top(e) + LeastHeight(grid)
        IN /\ 0 <= top(e) /\ top(e) <= GridLength(grid)
           /\ least <= bottom
           /\ bottom = least \/ bottom <= GridLength(grid)
           /\ LocalDay(cache[e].starts) = LocalDay(cache[f].starts) =>
                /\ cache[e].starts <= cache[f].starts => top(e) <= top(f)
                /\ cache[e].ends <= cache[f].starts => bottom = least \/ bottom <= top(f)
=============================================================================
