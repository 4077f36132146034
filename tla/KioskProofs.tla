---------------------------- MODULE KioskProofs -----------------------------
(***************************************************************************)
(* Proofs about what the kiosk shows and the settings it is shown by.      *)
(* LocalDays and WeekGrid: the state keeps its types, the list of today is *)
(* complete, the report errs one way only, and the blocks of the week view *)
(* stay on the grid and in order, for every day length, offset, window,    *)
(* grid and set of events.  Weather and SettingsForm: pairs of settings    *)
(* are whole and a seed replaces no choice, for any forms and requests.    *)
(***************************************************************************)
EXTENDS LocalDays, Weather, TLAPS

-----------------------------------------------------------------------------
(* The days that have passed by a moment: the quotient the code's calendar *)
(* arithmetic amounts to.                                                  *)
LEMMA DivBounds ==
    ASSUME NEW a \in Int, NEW d \in Nat \ {0}
    PROVE  /\ a \div d \in Int
           /\ d * (a \div d) <= a
           /\ a < d * (a \div d) + d
    OBVIOUS

(* A later moment is on no earlier day.                                    *)
LEMMA DivMonotone ==
    ASSUME NEW a \in Int, NEW b \in Int, NEW d \in Nat \ {0}, a <= b
    PROVE  a \div d <= b \div d
<1> DEFINE p == a \div d
           q == b \div d
<1>1. p \in Int /\ q \in Int /\ d * p <= a /\ b < d * q + d
  BY DivBounds
<1>2. d * p < d * (q + 1)
  BY <1>1
<1> HIDE DEF p, q
<1>3. p < q + 1
  BY <1>1, <1>2
<1> QED BY <1>1, <1>3 DEF p, q

(* The minute of the day is what the whole days leave.                     *)
LEMMA DivMod ==
    ASSUME NEW a \in Int, NEW d \in Nat \ {0}
    PROVE  a % d \in Int /\ a = d * (a \div d) + (a % d)
    OBVIOUS

(* A whole number of units has that number as its quotient.                *)
LEMMA DivOfProduct ==
    ASSUME NEW n \in Int, NEW d \in Nat \ {0}
    PROVE  (n * d) \div d = n
<1> DEFINE p == n * d
           q == p \div d
<1>1. p \in Int /\ p = d * n
  OBVIOUS
<1>2. q \in Int /\ d * q <= p /\ p < d * q + d
  BY <1>1, DivBounds
<1> HIDE DEF p, q
<1>3. d * q <= d * n /\ d * n < d * (q + 1)
  BY <1>1, <1>2
<1>4. q <= n /\ n < q + 1
  BY <1>3, <1>2
<1> QED BY <1>2, <1>4 DEF p, q

LEMMA ProductMonotone ==
    ASSUME NEW a \in Int, NEW b \in Int, NEW d \in Nat, a <= b
    PROVE  a * d <= b * d
    OBVIOUS

LEMMA ProductIsInt ==
    ASSUME NEW a \in Int, NEW b \in Int
    PROVE  a * b \in Int
    OBVIOUS

LEMMA DayLengthPositive == DayLength \in Nat \ {0}
<1>1. HoursPerDay \in Nat \ {0} /\ HourLength \in Nat \ {0}
  BY LengthsAreGiven
<1> QED BY <1>1 DEF DayLength

-----------------------------------------------------------------------------
(* Every variable keeps its type, whatever the source and the syncs do.    *)
LEMMA LocalDayIsInt ==
    ASSUME zone \in Int, NEW t \in Int
    PROVE  /\ LocalDay(t) \in Int /\ LocalMidnight(t) \in Int
           /\ LocalMidnight(t) <= t /\ t < LocalMidnight(t) + DayLength
<1> DEFINE day == (t + zone) \div DayLength
           midnight == day * DayLength
<1>1. day \in Int /\ DayLength * day <= t + zone /\ t + zone < DayLength * day + DayLength
  BY DivBounds, DayLengthPositive
<1>2. midnight \in Int /\ midnight = DayLength * day
  BY <1>1, DayLengthPositive
<1> HIDE DEF day
<1> QED BY <1>1, <1>2, DayLengthPositive DEF LocalDay, LocalMidnight, day

LEMMA WindowStartIsInt ==
    ASSUME zone \in Int, NEW t \in Int
    PROVE  WindowStart(t) \in Int /\ WindowStart(t) <= t
<1>1. LocalMidnight(t) \in Int /\ LocalMidnight(t) <= t
  BY LocalDayIsInt
<1> DEFINE day == t \div DayLength
<1>2. day \in Int /\ DayLength * day <= t
  BY DivBounds, DayLengthPositive
<1>3. day * DayLength \in Int /\ day * DayLength <= t
  BY <1>2, DayLengthPositive
<1> QED BY <1>1, <1>3 DEF WindowStart, UTCMidnight

(* Where the window begins at the days of the household, a later one does  *)
(* not begin earlier than the day of the list.                             *)
LEMMA LocalWindowFollows ==
    ASSUME zone \in Int, NEW t \in Int, NEW u \in Int, t <= u,
           provider = Google \/ zone = 0
    PROVE  WindowStart(t) <= LocalMidnight(u)
<1> DEFINE p == (t + zone) \div DayLength
           q == (u + zone) \div DayLength
<1>1. p \in Int /\ q \in Int /\ p <= q
  BY DivBounds, DivMonotone, DayLengthPositive
<1> HIDE DEF p, q
<1>2. p * DayLength <= q * DayLength /\ p * DayLength \in Int /\ q * DayLength \in Int
  BY <1>1, ProductMonotone, ProductIsInt, DayLengthPositive
<1>3. WindowStart(t) = p * DayLength - zone
  <2>1. CASE provider = Google
    BY <2>1 DEF WindowStart, LocalMidnight, LocalDay, p
  <2>2. CASE provider # Google
    <3>1. zone = 0 /\ t + zone = t
      BY <2>2
    <3>2. WindowStart(t) = (t \div DayLength) * DayLength
      BY <2>2 DEF WindowStart, UTCMidnight
    <3>3. p = t \div DayLength
      BY <3>1 DEF p
    <3> QED BY <3>1, <3>2, <3>3, <1>2
  <2> QED BY <2>1, <2>2
<1>4. LocalMidnight(u) = q * DayLength - zone
  BY DEF LocalMidnight, LocalDay, q
<1> QED BY <1>2, <1>3, <1>4

-----------------------------------------------------------------------------
(* What the two kinds of sync ask for, and what is kept of the answer.     *)
Window(t) == [from |-> WindowStart(t), to |-> WindowStart(t) + WindowDays * DayLength]
Kept(seen, w) ==
    [e \in Events |-> IF seen[e] # None /\ Overlaps(seen[e], w.from, w.to)
                      THEN seen[e] ELSE None]

(* A sync under way has the window of an earlier moment.                   *)
SyncSound == sync # None => \E t \in Nat : t <= now /\ sync = Window(t)

(* The cache is what the last answer left of the source, for the window of *)
(* a moment before the answer.                                             *)
CacheSound ==
    stored # None =>
        /\ stored.at <= now
        /\ \E t \in Nat : /\ t <= stored.at /\ stored.to = Window(t).to
                          /\ cache = Kept(stored.source, Window(t))

LocalInv == LocalTypeOK /\ SyncSound /\ CacheSound

(* The window does not change with the time: the household does not move.  *)
LEMMA WindowStays ==
    ASSUME UNCHANGED household
    PROVE  \A t : Window(t)' = Window(t)
BY DEF household, Window, WindowStart, LocalMidnight, LocalDay, UTCMidnight

LEMMA WindowType ==
    ASSUME zone \in Int, NEW t \in Nat
    PROVE  Window(t) \in [from : Int, to : Int]
<1>1. WindowStart(t) \in Int
  BY WindowStartIsInt
<1>2. WindowDays * DayLength \in Int
  BY BoundsAreNumbers, DayLengthPositive
<1> QED BY <1>1, <1>2 DEF Window

LEMMA LocalInvInit == Init => LocalInv
<1> SUFFICES ASSUME Init PROVE LocalInv
  OBVIOUS
<1>1. zone \in Int /\ -DayLength < zone /\ zone < DayLength
  BY ZonesAreOffsets DEF Init
<1>2. now \in Nat
  BY <1>1, DayLengthPositive DEF Init
<1> QED BY <1>1, <1>2 DEF Init, LocalInv, LocalTypeOK, SyncSound, CacheSound

LEMMA LocalInvNext == LocalInv /\ [Next]_vars => LocalInv'
<1> SUFFICES ASSUME LocalInv, [Next]_vars PROVE LocalInv'
  OBVIOUS
<1> USE DEF LocalInv
<1>z. zone \in Int
  BY ZonesAreOffsets DEF LocalTypeOK
<1>h. UNCHANGED household /\ \A t : Window(t)' = Window(t)
  <2>1. UNCHANGED household
    BY DEF Next, vars, Pass, Change, BeginSync, Store, SyncFails
  <2> QED BY <2>1, WindowStays
<1>1. CASE Pass
  <2>1. now' \in Nat /\ now <= now' /\ UNCHANGED <<source, sync, cache, stored, changes>>
    BY <1>1 DEF Pass, LocalTypeOK
  <2>2. LocalTypeOK'
    BY <2>1, <1>h DEF LocalTypeOK, household
  <2>3. SyncSound'
    BY <2>1, <1>h DEF SyncSound, LocalTypeOK
  <2>4. CacheSound'
    <3>1. stored # None => stored.at \in Nat
      BY DEF LocalTypeOK
    <3> QED BY <3>1, <2>1, <1>h DEF CacheSound, Kept, LocalTypeOK
  <2> QED BY <2>2, <2>3, <2>4
<1>2. CASE \E e \in Events, t \in Times \cup {None} : Change(e, t)
  <2> PICK e \in Events, t \in Times \cup {None} : Change(e, t)
    BY <1>2
  <2>1. LocalTypeOK'
    BY <1>h DEF Change, LocalTypeOK, household
  <2>2. SyncSound' /\ CacheSound'
    BY <1>h DEF Change, SyncSound, CacheSound, Kept
  <2> QED BY <2>1, <2>2
<1>3. CASE BeginSync
  <2>1. sync' = Window(now) /\ now \in Nat
    BY <1>3 DEF BeginSync, Window, LocalTypeOK
  <2>2. LocalTypeOK'
    BY <2>1, <1>3, <1>h, <1>z, WindowType DEF BeginSync, LocalTypeOK, household
  <2>3. SyncSound'
    <3>1. \E t \in Nat : t <= now /\ sync' = Window(t)
      BY <2>1
    <3>2. now' = now
      BY <1>3 DEF BeginSync
    <3> QED BY <3>1, <3>2, <1>h DEF SyncSound
  <2>4. CacheSound'
    BY <1>3, <1>h DEF BeginSync, CacheSound, Kept
  <2> QED BY <2>2, <2>3, <2>4
<1>4. CASE Store
  <2>1. PICK t \in Nat : t <= now /\ sync = Window(t)
    BY <1>4 DEF Store, SyncSound
  <2>2. cache' = Kept(source, Window(t))
    BY <2>1, <1>4 DEF Store, Kept
  <2>3. sync.to \in Int /\ sync.to = Window(t).to /\ now \in Nat
    BY <2>1, <1>4 DEF Store, LocalTypeOK
  <2>4. stored' = [at |-> now, to |-> sync.to, source |-> source]
        /\ UNCHANGED <<now, source, changes>> /\ sync' = None
    BY <1>4 DEF Store
  <2>5. cache' \in [Events -> Times \cup {None}]
    BY <2>2 DEF Kept, LocalTypeOK
  <2>6. LocalTypeOK'
    BY <2>3, <2>4, <2>5, <1>h DEF LocalTypeOK, household
  <2>7. SyncSound'
    BY <2>4 DEF SyncSound
  <2>8. CacheSound'
    <3>1. stored'.at = now /\ stored'.to = sync.to /\ stored'.source = source
      BY <2>4
    <3>2. cache' = Kept(stored'.source, Window(t)')
      BY <3>1, <2>2, <1>h
    <3> QED BY <3>1, <3>2, <2>1, <2>3, <2>4, <1>h DEF CacheSound, Kept
  <2> QED BY <2>6, <2>7, <2>8
<1>5. CASE SyncFails
  <2>1. LocalTypeOK'
    BY <1>5, <1>h DEF SyncFails, LocalTypeOK, household
  <2>2. SyncSound' /\ CacheSound'
    BY <1>5, <1>h DEF SyncFails, SyncSound, CacheSound, Kept
  <2> QED BY <2>1, <2>2
<1>6. CASE UNCHANGED vars
  <2>1. LocalTypeOK'
    BY <1>6, <1>h DEF vars, LocalTypeOK, household
  <2>2. SyncSound' /\ CacheSound'
    BY <1>6, <1>h DEF vars, SyncSound, CacheSound, Kept
  <2> QED BY <2>1, <2>2
<1> QED BY <1>1, <1>2, <1>3, <1>4, <1>5, <1>6 DEF Next

LEMMA LocalInvariant == Spec => []LocalInv
BY LocalInvInit, LocalInvNext, PTL DEF Spec

(* Every variable keeps its type, whatever the source and the syncs do.    *)
THEOREM LocalTypeCorrect == Spec => []LocalTypeOK
<1>1. LocalInv => LocalTypeOK
  BY DEF LocalInv
<1> QED BY <1>1, LocalInvariant, PTL

-----------------------------------------------------------------------------
(* While the window of the last sync lasts, the list of today shows all of *)
(* today's events as last seen; with a UTC window away from Greenwich, all *)
(* that were not over then.  The argument: the window begins no later than *)
(* the answer and, at local midnights, no later than the listed day.       *)
THEOREM TodaysListIsComplete == Spec => []TodayIsComplete
<1>1. LocalInv => TodayIsComplete
  <2> SUFFICES ASSUME LocalInv, stored # None,
                      LocalMidnight(now) + DayLength <= stored.to
               PROVE  TodayIsComplete
    BY DEF TodayIsComplete
  <2> USE DEF LocalInv
  <2>z. zone \in Int /\ now \in Nat /\ LocalMidnight(now) \in Int
    BY ZonesAreOffsets, LocalDayIsInt DEF LocalTypeOK
  <2>d. DayLength \in Nat
    BY DayLengthPositive
  <2>s. stored.at \in Nat /\ stored.to \in Int /\ stored.at <= now
        /\ stored.source \in [Events -> Times \cup {None}]
    BY DEF LocalTypeOK, CacheSound
  <2>1. PICK t \in Nat : t <= stored.at /\ stored.to = Window(t).to
                         /\ cache = Kept(stored.source, Window(t))
    BY DEF CacheSound
  <2>w. WindowStart(t) \in Int /\ WindowStart(t) <= t /\ Window(t).from = WindowStart(t)
    BY <2>z, WindowStartIsInt DEF Window
  <2> DEFINE seen(e) == stored.source[e]
             isToday(e) == seen(e) # None /\ StartsIn(seen(e), LocalMidnight(now), 1)
  <2>2. ASSUME NEW e \in Events, seen(e) # None
        PROVE  seen(e).starts \in Nat /\ seen(e).ends \in Nat
               /\ seen(e).starts < seen(e).ends
    BY <2>2, <2>s, TimesAreIntervals
  <2>3. ASSUME NEW e \in Events
        PROVE  cache[e] # None => seen(e) # None /\ cache[e] = seen(e)
    BY <2>1 DEF Kept
  <2>4. ASSUME NEW e \in Events, isToday(e), WindowStart(t) < seen(e).ends
        PROVE  e \in ListToday
    <3>1. LocalMidnight(now) <= seen(e).starts /\ seen(e).starts < stored.to
      BY <2>4, <2>2, <2>z, <2>d, <2>s DEF StartsIn
    <3>2. Overlaps(seen(e), Window(t).from, Window(t).to)
      BY <3>1, <2>1, <2>4, <2>w DEF Overlaps
    <3>3. cache[e] = seen(e)
      BY <3>2, <2>1, <2>4 DEF Kept
    <3> QED BY <3>3, <2>4 DEF ListToday, ListInWindow
  <2>5. ASSUME NEW e \in ListToday
        PROVE  e \in Events /\ isToday(e) /\ cache[e] = seen(e)
    BY <2>3 DEF ListToday, ListInWindow
  <2>6. ASSUME NEW e \in Events, isToday(e), ~(seen(e).ends <= stored.at)
        PROVE  e \in ListToday
    <3>1. WindowStart(t) < seen(e).ends
      BY <2>6, <2>2, <2>w, <2>1, <2>s
    <3> QED BY <3>1, <2>4, <2>6
  <2>7. ASSUME NEW e \in Events, isToday(e), provider = Google \/ zone = 0
        PROVE  e \in ListToday
    <3>1. WindowStart(t) <= LocalMidnight(now)
      BY <2>7, <2>z, <2>1, <2>s, LocalWindowFollows
    <3>2. LocalMidnight(now) <= seen(e).starts
      BY <2>7 DEF StartsIn
    <3>3. WindowStart(t) < seen(e).ends
      BY <3>1, <3>2, <2>2, <2>7, <2>w, <2>z
    <3> QED BY <3>3, <2>4, <2>7
  <2> HIDE DEF isToday
  <2>8. {e \in Events : isToday(e)} = {e \in Events : /\ stored.source[e] # None
                           /\ StartsIn(stored.source[e], LocalMidnight(now), 1)}
    BY DEF isToday
  <2> QED BY <2>5, <2>6, <2>7, <2>8 DEF TodayIsComplete
<1> QED BY <1>1, LocalInvariant, PTL

(* The end of a UTC day and that of a local day are apart by the offset:   *)
(* the verdict is wrong on one side only.                                  *)
THEOREM LateErrsOneWayOnly == Spec => []LateErrsOneWay
<1>1. LocalInv => LateErrsOneWay
  <2> SUFFICES ASSUME LocalInv, NEW due \in DueDates
               PROVE  /\ zone <= 0 /\ due < LocalDay(now) => isLate(now, due)
                      /\ zone >= 0 /\ isLate(now, due) => due < LocalDay(now)
    BY DEF LateErrsOneWay
  <2>1. zone \in Int /\ now \in Int
    BY ZonesAreOffsets DEF LocalInv, LocalTypeOK
  <2> DEFINE day == (now + zone) \div DayLength
             next == due + 1
             end == next * DayLength
  <2>2. day \in Int /\ DayLength * day <= now + zone
        /\ now + zone < DayLength * day + DayLength
    BY <2>1, DivBounds, DayLengthPositive
  <2>3. LocalDay(now) = day /\ due \in Int
    BY <2>2 DEF LocalDay, DueDates
  <2>4. DayLength \in Nat /\ end \in Int
    BY <2>3, DayLengthPositive, ProductIsInt
  <2>5. isLate(now, due) <=> now >= end
    BY <2>1, <2>4 DEF isLate
  <2>6. due < day => end <= DayLength * day
    <3>1. due < day => next <= day /\ next \in Int
      BY <2>2, <2>3
    <3>2. day * DayLength = DayLength * day
      BY <2>2, <2>4
    <3> HIDE DEF day, next
    <3> QED BY <3>1, <3>2, <2>2, <2>4, ProductMonotone
  <2>7. ~(due < day) => DayLength * day + DayLength <= end
    <3>1. ~(due < day) => day + 1 <= next /\ next \in Int
      BY <2>2, <2>3
    <3>2. (day + 1) * DayLength = DayLength * day + DayLength
      BY <2>2, <2>4
    <3> HIDE DEF day, next
    <3> QED BY <3>1, <3>2, <2>2, <2>4, ProductMonotone
  <2>8. DayLength * day \in Int
    BY <2>2, <2>4
  <2> HIDE DEF day, end
  <2> QED BY <2>1, <2>2, <2>3, <2>4, <2>5, <2>6, <2>7, <2>8
<1> QED BY <1>1, LocalInvariant, PTL

-----------------------------------------------------------------------------
(* The hours shown make a range within the day, whatever hours are saved.  *)
LEMMA RangeIsProper ==
    ASSUME NEW grid \in Grids
    PROVE  /\ RangeStart(grid) \in Nat /\ RangeEnd(grid) \in Nat
           /\ RangeStart(grid) < RangeEnd(grid)
           /\ Span(grid) \in Nat \ {0}
<1> DEFINE shown == Resolve(grid.start, grid.end)
           from == shown.start
           to == shown.end
<1>1. from \in Nat /\ to \in Nat /\ from < to
  BY DefaultIsARange DEF Resolve, Grids, Hours
<1> HIDE DEF shown, from, to
<1>2. HourLength \in Nat \ {0}
  BY LengthsAreGiven
<1>3. from * HourLength \in Nat /\ to * HourLength \in Nat
      /\ from * HourLength < to * HourLength
  BY <1>1, <1>2
<1>4. RangeStart(grid) \in Nat /\ RangeEnd(grid) \in Nat
      /\ RangeStart(grid) < RangeEnd(grid)
  BY <1>3, DayLengthPositive DEF RangeStart, RangeEnd, shown, from, to
<1> QED BY <1>4 DEF Span

(* Clamping to the range keeps order and stays in it.                      *)
LEMMA OnGridIsMonotone ==
    ASSUME NEW grid \in Grids, NEW v \in Int, NEW w \in Int, v <= w
    PROVE  /\ OnGrid(v, grid) \in Int
           /\ 0 <= OnGrid(v, grid) /\ OnGrid(v, grid) <= GridLength(grid)
           /\ OnGrid(v, grid) <= OnGrid(w, grid)
<1> DEFINE at(u) == Clamp(u, RangeStart(grid), RangeEnd(grid)) - RangeStart(grid)
<1>1. /\ at(v) \in Int /\ at(w) \in Int /\ Span(grid) \in Int
      /\ 0 <= at(v) /\ at(v) <= at(w) /\ at(v) <= Span(grid)
  BY RangeIsProper DEF Clamp, Span
<1>2. OnGrid(v, grid) = at(v) * Parts /\ OnGrid(w, grid) = at(w) * Parts
  BY DEF OnGrid
<1>3. Parts \in Nat /\ 0 * Parts = 0
  BY LengthsAreGiven
<1> HIDE DEF at
<1>4. /\ at(v) * Parts \in Int
      /\ 0 * Parts <= at(v) * Parts
      /\ at(v) * Parts <= Span(grid) * Parts
      /\ at(v) * Parts <= at(w) * Parts
  BY <1>1, <1>3, ProductMonotone, ProductIsInt
<1> QED BY <1>2, <1>3, <1>4 DEF GridLength

LEMMA ShownEndIsLater ==
    ASSUME NEW start \in Int, NEW end \in Int
    PROVE  ShownEnd(start, end) \in Int /\ start <= ShownEnd(start, end)
<1>1. HourLength \div 2 \in Int /\ 0 <= HourLength \div 2
  BY LengthsAreGiven
<1> QED BY <1>1 DEF ShownEnd

(* On every grid a block begins on it and is at least as high as a block   *)
(* has to be; a higher one ends where its event does, on the grid.         *)
LEMMA BlockIsOnGrid ==
    ASSUME NEW grid \in Grids, NEW start \in Int, NEW end \in Int
    PROVE  LET least == Top(start, grid) + LeastHeight(grid)
               bottom == Bottom(start, end, grid)
           IN /\ Top(start, grid) \in Int
              /\ 0 <= Top(start, grid) /\ Top(start, grid) <= GridLength(grid)
              /\ least <= bottom
              /\ bottom = least \/ bottom = OnGrid(ShownEnd(start, end), grid)
              /\ bottom = least \/ bottom <= GridLength(grid)
<1>1. ShownEnd(start, end) \in Int
  BY ShownEndIsLater
<1>2. /\ OnGrid(start, grid) \in Int
      /\ 0 <= OnGrid(start, grid) /\ OnGrid(start, grid) <= GridLength(grid)
      /\ OnGrid(ShownEnd(start, end), grid) \in Int
      /\ OnGrid(ShownEnd(start, end), grid) <= GridLength(grid)
  BY <1>1, OnGridIsMonotone
<1>3. LeastHeight(grid) \in Int
  BY RangeIsProper DEF LeastHeight, Span
<1> QED BY <1>2, <1>3 DEF Bottom, Top, Height

(* Minutes of one local day are in the order of the moments.               *)
LEMMA MinutesFollow ==
    ASSUME zone \in Int, NEW t \in Int, NEW u \in Int, LocalDay(t) = LocalDay(u)
    PROVE  /\ MinuteOfDay(t) \in Int /\ MinuteOfDay(u) \in Int
           /\ MinuteOfDay(u) - MinuteOfDay(t) = u - t
<1> DEFINE day == (t + zone) \div DayLength
<1>1. /\ day \in Int /\ DayLength \in Nat
      /\ MinuteOfDay(t) \in Int /\ t + zone = DayLength * day + MinuteOfDay(t)
      /\ MinuteOfDay(u) \in Int /\ u + zone = DayLength * day + MinuteOfDay(u)
  BY DivMod, DivBounds, DayLengthPositive DEF LocalDay, MinuteOfDay
<1> DEFINE passed == DayLength * day
<1>2. passed \in Int /\ t + zone = passed + MinuteOfDay(t)
      /\ u + zone = passed + MinuteOfDay(u)
  BY <1>1
<1> HIDE DEF day, passed
<1> QED BY <1>1, <1>2

(* Between two moments of a local day lies only that day.                  *)
LEMMA DaysDoNotReturn ==
    ASSUME zone \in Int, NEW t \in Int, NEW u \in Int, NEW v \in Int,
           t <= u, u <= v, LocalDay(t) = LocalDay(v)
    PROVE  LocalDay(u) = LocalDay(t)
<1>1. LocalDay(t) <= LocalDay(u) /\ LocalDay(u) <= LocalDay(v)
  BY DivMonotone, DayLengthPositive DEF LocalDay
<1>2. LocalDay(t) \in Int /\ LocalDay(u) \in Int
  BY LocalDayIsInt
<1> QED BY <1>1, <1>2

(* On every grid the blocks of a day begin on it in the order in which the *)
(* events start, and what reaches beyond the grid or over an event that    *)
(* starts later is a block of the least height.                            *)
THEOREM BlocksAreInOrder == Spec => []BlocksInOrder
<1>1. LocalInv => BlocksInOrder
  <2> SUFFICES ASSUME LocalInv PROVE BlocksInOrder
    OBVIOUS
  <2> DEFINE start(x) == MinuteOfDay(cache[x].starts)
             end(x) == MinuteOfDay(cache[x].ends)
             sameDay(e, f) == LocalDay(cache[e].starts) = LocalDay(cache[f].starts)
             bottom(e, grid) == Bottom(start(e), end(e), grid)
             least(e, grid) == Top(start(e), grid) + LeastHeight(grid)
  <2>z. zone \in Int
    BY ZonesAreOffsets DEF LocalInv, LocalTypeOK
  <2>1. ASSUME NEW e \in ListInWindow(5)
        PROVE  /\ cache[e].starts \in Int /\ cache[e].ends \in Int
               /\ cache[e].starts < cache[e].ends
               /\ start(e) \in Int /\ end(e) \in Int
    <3>1. cache[e] \in Times
      BY <2>1 DEF ListInWindow, LocalInv, LocalTypeOK
    <3>2. cache[e].starts \in Int /\ cache[e].ends \in Int
          /\ cache[e].starts < cache[e].ends
      BY <3>1, TimesAreIntervals
    <3> QED BY <3>2, <2>z, MinutesFollow
  <2>2. ASSUME NEW grid \in Grids, NEW e \in ListInWindow(5)
        PROVE  /\ 0 <= Top(start(e), grid) /\ Top(start(e), grid) <= GridLength(grid)
               /\ least(e, grid) <= bottom(e, grid)
               /\ bottom(e, grid) = least(e, grid) \/ bottom(e, grid) <= GridLength(grid)
    BY <2>1, BlockIsOnGrid
  <2>3. ASSUME NEW grid \in Grids, NEW e \in ListInWindow(5), NEW f \in ListInWindow(5),
               sameDay(e, f), cache[e].starts <= cache[f].starts
        PROVE  Top(start(e), grid) <= Top(start(f), grid)
    <3>1. start(e) <= start(f)
      BY <2>1, <2>3, <2>z, MinutesFollow
    <3> QED BY <3>1, <2>1, OnGridIsMonotone DEF Top
  <2>4. ASSUME NEW grid \in Grids, NEW e \in ListInWindow(5), NEW f \in ListInWindow(5),
               sameDay(e, f), cache[e].ends <= cache[f].starts
        PROVE  bottom(e, grid) = least(e, grid) \/ bottom(e, grid) <= Top(start(f), grid)
    <3>1. LocalDay(cache[e].ends) = LocalDay(cache[e].starts)
      BY <2>1, <2>4, <2>z, DaysDoNotReturn
    <3>2. start(e) < end(e) /\ end(e) <= start(f)
      <4>1. end(e) - start(e) = cache[e].ends - cache[e].starts
        BY <3>1, <2>1, <2>z, MinutesFollow
      <4>2. start(f) - end(e) = cache[f].starts - cache[e].ends
        BY <3>1, <2>1, <2>4, <2>z, MinutesFollow
      <4> HIDE DEF start, end
      <4> QED BY <4>1, <4>2, <2>1, <2>4
    <3>3. ShownEnd(start(e), end(e)) = end(e)
      BY <3>2, <2>1 DEF ShownEnd
    <3>4. bottom(e, grid) = least(e, grid) \/ bottom(e, grid) = OnGrid(end(e), grid)
      BY <3>3, <2>1, BlockIsOnGrid
    <3>5. OnGrid(end(e), grid) <= Top(start(f), grid)
      BY <3>2, <2>1, OnGridIsMonotone DEF Top
    <3> QED BY <3>4, <3>5
  <2> QED BY <2>2, <2>3, <2>4, GridsAreGiven DEF BlocksInOrder
<1> QED BY <1>1, LocalInvariant, PTL

(* Every label of the hour axis stands where an event that starts at that  *)
(* hour has its top.                                                       *)
THEOREM LabelsMatchEvents ==
    ASSUME NEW grid \in Grids, NEW h \in HourLabels(grid)
    PROVE  LabelTop(h, grid) = Top(h * HourLength, grid)
<1> DEFINE first == RangeStart(grid) \div HourLength
<1>1. HourLength \in Nat \ {0} /\ h \in Int /\ h * HourLength \in Int
  BY LengthsAreGiven DEF HourLabels, Hours
<1>2. first \in Int /\ first * HourLength = RangeStart(grid)
  <2>1. CASE grid.full
    <3>1. RangeStart(grid) = 0 * HourLength /\ 0 * HourLength = 0
      BY <2>1, <1>1 DEF RangeStart
    <3> QED BY <3>1, <1>1, DivOfProduct
  <2>2. CASE ~grid.full
    <3> DEFINE from == Resolve(grid.start, grid.end).start
    <3>1. from \in Int
      BY DefaultIsARange DEF Resolve, Grids, Hours
    <3>2. RangeStart(grid) = from * HourLength
      BY <2>2 DEF RangeStart
    <3> HIDE DEF from
    <3> QED BY <3>1, <3>2, <1>1, DivOfProduct
  <2> QED BY <2>1, <2>2
<1>3. LabelTop(h, grid) = (h * HourLength - RangeStart(grid)) * Parts
  <2>1. LabelTop(h, grid) = (h - first) * HourLength * Parts
    BY DEF LabelTop
  <2> HIDE DEF first
  <2>2. (h - first) * HourLength = h * HourLength - first * HourLength
    BY <1>1, <1>2
  <2> QED BY <2>1, <2>2, <1>2
<1>4. Clamp(h * HourLength, RangeStart(grid), RangeEnd(grid)) = h * HourLength
  BY <1>1, RangeIsProper DEF Clamp, HourLabels
<1> QED BY <1>3, <1>4 DEF Top, OnGrid

-----------------------------------------------------------------------------
(* The settings form.  Of what a form has to go through, each half of a    *)
(* pair is next to the other: i is a place in the list.                    *)
Chain(s) ==
    \A i \in 1 .. Len(s) :
       /\ s[i] = "start" => i < Len(s) /\ s[i + 1] = "end"
       /\ s[i] = "name" => i < Len(s) /\ s[i + 1] = "lat"
       /\ s[i] = "lat" => i < Len(s) /\ s[i + 1] = "lon"
       /\ i > 1 =>
             /\ s[i] = "start" => s[i - 1] = "readEnd"
             /\ s[i] = "end" => s[i - 1] = "start"
             /\ s[i] = "lat" => s[i - 1] = "name"
             /\ s[i] = "lon" => s[i - 1] = "lat"
(* How the part of a list a field contributes begins.                      *)
Begins(s) == Len(s) > 0 => s[1] \in {"readStart", "units", "zoom", "name"}
NamesPlace(s) == \E i \in 1 .. Len(s) : s[i] \in {"name", "lat", "lon"}

(* A list stays in order as its steps are taken off ...                    *)
LEMMA ChainTail ==
    ASSUME NEW s \in Seq(Stages), Chain(s), Len(s) > 1
    PROVE  /\ Tail(s) \in Seq(Stages) /\ Len(Tail(s)) > 0 /\ Chain(Tail(s))
           /\ Head(s) = s[1] /\ Head(Tail(s)) = s[2]
           /\ NamesPlace(Tail(s)) => NamesPlace(s)
<1> DEFINE t == Tail(s)
<1>1. t \in Seq(Stages) /\ Len(t) = Len(s) - 1 /\ Len(s) \in Nat
  OBVIOUS
<1>2. \A i \in 1 .. Len(t) : t[i] = s[i + 1]
  OBVIOUS
<1>3. Head(s) = s[1] /\ Head(t) = t[1]
  BY <1>1
<1>. HIDE DEF t
<1>4. ASSUME NEW i \in 1 .. Len(t)
      PROVE  /\ t[i] = s[i + 1] /\ i + 1 \in 1 .. Len(s) /\ (i + 1) - 1 = i
             /\ i < Len(t) => t[i + 1] = s[i + 2] /\ (i + 1) + 1 = i + 2
             /\ i > 1 => t[i - 1] = s[i] /\ i - 1 \in 1 .. Len(t)
  <2>1. i \in Nat /\ i >= 1 /\ i <= Len(t)
    BY <1>1
  <2>2. i < Len(t) => i + 1 \in 1 .. Len(t)
    BY <1>1, <2>1
  <2>3. i > 1 => i - 1 \in 1 .. Len(t) /\ (i - 1) + 1 = i
    BY <1>1, <2>1
  <2>. QED
    BY <1>1, <1>2, <2>1, <2>2, <2>3
<1>5. ASSUME NEW i \in 1 .. Len(t)
      PROVE  /\ t[i] = "start" => i < Len(t) /\ t[i + 1] = "end"
             /\ t[i] = "name" => i < Len(t) /\ t[i + 1] = "lat"
             /\ t[i] = "lat" => i < Len(t) /\ t[i + 1] = "lon"
             /\ i > 1 =>
                   /\ t[i] = "start" => t[i - 1] = "readEnd"
                   /\ t[i] = "end" => t[i - 1] = "start"
                   /\ t[i] = "lat" => t[i - 1] = "name"
                   /\ t[i] = "lon" => t[i - 1] = "lat"
  <2> DEFINE j == i + 1
  <2>1. j \in 1 .. Len(s) /\ j > 1 /\ j - 1 = i /\ j + 1 = i + 2 /\ (j < Len(s) => i < Len(t))
    BY <1>1
  <2>2. t[i] = s[j]
    BY <1>4
  <2>. HIDE DEF j
  <2>3. /\ s[j] = "start" => j < Len(s) /\ s[j + 1] = "end"
        /\ s[j] = "name" => j < Len(s) /\ s[j + 1] = "lat"
        /\ s[j] = "lat" => j < Len(s) /\ s[j + 1] = "lon"
        /\ s[j] = "start" => s[j - 1] = "readEnd"
        /\ s[j] = "end" => s[j - 1] = "start"
        /\ s[j] = "lat" => s[j - 1] = "name"
        /\ s[j] = "lon" => s[j - 1] = "lat"
    BY <2>1 DEF Chain
  <2>. QED
    BY <1>4, <2>1, <2>2, <2>3
<1>6. Chain(t)
  BY <1>5 DEF Chain
<1>7. NamesPlace(t) => NamesPlace(s)
  BY <1>4 DEF NamesPlace
<1>. QED
  BY <1>1, <1>2, <1>3, <1>6, <1>7 DEF t

(* ... and as the parts of the fields are put together,                    *)
LEMMA ChainsJoin ==
    ASSUME NEW s \in Seq(Stages), NEW t \in Seq(Stages), Chain(s), Chain(t), Begins(s), Begins(t)
    PROVE  /\ s \o t \in Seq(Stages) /\ Chain(s \o t) /\ Begins(s \o t)
           /\ NamesPlace(s \o t) => NamesPlace(s) \/ NamesPlace(t)
<1> DEFINE u == s \o t
           m == Len(s)
           n == Len(t)
<1>1. m \in Nat /\ n \in Nat /\ u \in Seq(Stages) /\ Len(u) = m + n
  OBVIOUS
<1>2. /\ \A i \in 1 .. m : u[i] = s[i]
      /\ \A i \in 1 .. n : u[i + m] = t[i]
  OBVIOUS
<1>. HIDE DEF u
<1>3. ASSUME NEW i \in 1 .. Len(u)
      PROVE  /\ u[i] = "start" => i < Len(u) /\ u[i + 1] = "end"
             /\ u[i] = "name" => i < Len(u) /\ u[i + 1] = "lat"
             /\ u[i] = "lat" => i < Len(u) /\ u[i + 1] = "lon"
             /\ i > 1 =>
                   /\ u[i] = "start" => u[i - 1] = "readEnd"
                   /\ u[i] = "end" => u[i - 1] = "start"
                   /\ u[i] = "lat" => u[i - 1] = "name"
                   /\ u[i] = "lon" => u[i - 1] = "lat"
             /\ u[i] \in {"name", "lat", "lon"} => NamesPlace(s) \/ NamesPlace(t)
  <2>1. CASE i <= m
    <3>1. i \in 1 .. m /\ i \in Nat
      BY <1>1, <2>1
    <3>2. u[i] = s[i] /\ (i < m => u[i + 1] = s[i + 1]) /\ (i > 1 => u[i - 1] = s[i - 1])
      <4>1. (i < m => i + 1 \in 1 .. m) /\ (i > 1 => i - 1 \in 1 .. m)
        BY <3>1, <1>1
      <4>. QED
        BY <3>1, <4>1, <1>2
    <3>3. i < m => i < Len(u)
      BY <1>1, <3>1
    <3>. QED
      BY <3>1, <3>2, <3>3 DEF Chain, NamesPlace
  <2>2. CASE i > m
    <3> DEFINE j == i - m
    <3>1. j \in 1 .. n /\ j \in Nat /\ j + m = i /\ j > 0
      BY <1>1, <2>2
    <3>2. /\ u[i] = t[j]
          /\ j < n => u[i + 1] = t[j + 1] /\ i < Len(u)
          /\ j > 1 => u[i - 1] = t[j - 1]
      <4>1. u[i] = t[j]
        BY <3>1, <1>2
      <4>2. ASSUME j < n PROVE u[i + 1] = t[j + 1] /\ i < Len(u)
        <5>1. j + 1 \in 1 .. n /\ (j + 1) + m = i + 1 /\ i < Len(u)
          BY <1>1, <3>1, <4>2
        <5>. QED
          BY <5>1, <1>2
      <4>3. ASSUME j > 1 PROVE u[i - 1] = t[j - 1]
        <5>1. j - 1 \in 1 .. n /\ (j - 1) + m = i - 1
          BY <1>1, <3>1, <4>3
        <5>. QED
          BY <5>1, <1>2
      <4>. QED
        BY <4>1, <4>2, <4>3
    <3>. HIDE DEF j
    <3>3. j = 1 => t[j] \in {"readStart", "units", "zoom", "name"}
      BY <1>1, <3>1 DEF Begins
    <3>4. j > 1 \/ j = 1
      BY <3>1
    <3>. QED
      BY <3>1, <3>2, <3>3, <3>4 DEF Chain, NamesPlace
  <2>. QED
    BY <1>1, <2>1, <2>2
<1>4. Begins(u)
  <2>1. CASE m > 0
    BY <2>1, <1>1, <1>2 DEF Begins
  <2>2. CASE m = 0 /\ n > 0
    <3>1. u[1 + m] = t[1] /\ 1 + m = 1
      BY <2>2, <1>1, <1>2
    <3>. QED
      BY <2>2, <3>1 DEF Begins
  <2>3. CASE m = 0 /\ n = 0
    BY <2>3, <1>1 DEF Begins
  <2>. QED
    BY <1>1, <2>1, <2>2, <2>3
<1>5. Chain(u) /\ (NamesPlace(u) => NamesPlace(s) \/ NamesPlace(t))
  BY <1>3 DEF Chain, NamesPlace
<1>. QED
  BY <1>1, <1>4, <1>5 DEF u

(* each of which is in order.                                              *)
LEMMA Pieces ==
    /\ \A s \in {<<>>, <<"units">>, <<"zoom">>, <<"readStart", "readEnd", "start", "end">>} :
          s \in Seq(Stages) /\ Chain(s) /\ Begins(s) /\ ~NamesPlace(s)
    /\ <<"name", "lat", "lon">> \in Seq(Stages) /\ Chain(<<"name", "lat", "lon">>)
    /\ Begins(<<"name", "lat", "lon">>)
<1>1. ASSUME NEW s \in Seq(Stages), Len(s) = 0 PROVE Chain(s) /\ Begins(s) /\ ~NamesPlace(s)
  BY <1>1 DEF Chain, Begins, NamesPlace
<1>2. ASSUME NEW s \in Seq(Stages), Len(s) = 1, s[1] \in {"units", "zoom"}
      PROVE  Chain(s) /\ Begins(s) /\ ~NamesPlace(s)
  <2>1. \A i \in 1 .. Len(s) : i = 1
    BY <1>2
  <2>. QED
    BY <1>2, <2>1 DEF Chain, Begins, NamesPlace
<1>3. ASSUME NEW s \in Seq(Stages), Len(s) = 4,
             s[1] = "readStart", s[2] = "readEnd", s[3] = "start", s[4] = "end"
      PROVE  Chain(s) /\ Begins(s) /\ ~NamesPlace(s)
  <2>1. \A i \in 1 .. Len(s) : i \in {1, 2, 3, 4}
    BY <1>3
  <2>. QED
    BY <1>3, <2>1 DEF Chain, Begins, NamesPlace
<1>4. ASSUME NEW s \in Seq(Stages), Len(s) = 3, s[1] = "name", s[2] = "lat", s[3] = "lon"
      PROVE  Chain(s) /\ Begins(s)
  <2>1. \A i \in 1 .. Len(s) : i \in {1, 2, 3}
    BY <1>4
  <2>. QED
    BY <1>4, <2>1 DEF Chain, Begins
<1>5. <<>> \in Seq(Stages) /\ Len(<<>>) = 0
  OBVIOUS
<1>6. /\ <<"units">> \in Seq(Stages) /\ Len(<<"units">>) = 1 /\ <<"units">>[1] = "units"
      /\ <<"zoom">> \in Seq(Stages) /\ Len(<<"zoom">>) = 1 /\ <<"zoom">>[1] = "zoom"
  BY DEF Stages
<1>7. ASSUME NEW s, s = <<"readStart", "readEnd", "start", "end">>
      PROVE  /\ s \in Seq(Stages) /\ Len(s) = 4
             /\ s[1] = "readStart" /\ s[2] = "readEnd" /\ s[3] = "start" /\ s[4] = "end"
  BY <1>7 DEF Stages
<1>8. ASSUME NEW s, s = <<"name", "lat", "lon">>
      PROVE  s \in Seq(Stages) /\ Len(s) = 3 /\ s[1] = "name" /\ s[2] = "lat" /\ s[3] = "lon"
  BY <1>8 DEF Stages
<1>. QED
  BY <1>1, <1>2, <1>3, <1>4, <1>5, <1>6, <1>7, <1>8

LEMMA StepsChain ==
    ASSUME NEW f \in Form
    PROVE  /\ Steps(f) \in Seq(Stages) /\ Len(Steps(f)) > 0
           /\ Chain(Steps(f)) /\ Head(Steps(f)) \in {"readStart", "units", "zoom", "name"}
           /\ NamesPlace(Steps(f)) => f.place \in Places
<1> DEFINE a == IF f.start = Blank /\ f.end = Blank THEN <<>>
                ELSE <<"readStart", "readEnd", "start", "end">>
           b == <<"units">>
           c == IF f.zoom = Blank THEN <<>> ELSE <<"zoom">>
           d == IF f.place = Blank THEN <<>> ELSE <<"name", "lat", "lon">>
<1>1. /\ a \in Seq(Stages) /\ Chain(a) /\ Begins(a) /\ ~NamesPlace(a)
      /\ b \in Seq(Stages) /\ Chain(b) /\ Begins(b) /\ ~NamesPlace(b)
      /\ c \in Seq(Stages) /\ Chain(c) /\ Begins(c) /\ ~NamesPlace(c)
      /\ d \in Seq(Stages) /\ Chain(d) /\ Begins(d)
  BY Pieces
<1>2. NamesPlace(d) => f.place \in Places
  BY Pieces DEF Form
<1>3. Steps(f) = ((a \o b) \o c) \o d
  BY DEF Steps
<1>4. Len(b) = 1
  OBVIOUS
<1>. HIDE DEF a, b, c, d
<1> DEFINE ab == a \o b
           abc == ab \o c
<1>5. ab \in Seq(Stages) /\ Chain(ab) /\ Begins(ab) /\ ~NamesPlace(ab)
  BY <1>1, ChainsJoin
<1>6. Len(ab) > 0
  <2>1. a \in Seq(Stages) /\ b \in Seq(Stages)
    BY <1>1
  <2>2. Len(ab) = Len(a) + Len(b) /\ Len(a) \in Nat
    BY <2>1
  <2>. QED
    BY <1>4, <2>2
<1>. HIDE DEF ab
<1>7. abc \in Seq(Stages) /\ Chain(abc) /\ Begins(abc) /\ ~NamesPlace(abc)
  BY <1>1, <1>5, ChainsJoin
<1>8. Len(abc) > 0
  BY <1>1, <1>5, <1>6
<1>9. Steps(f) = abc \o d
  BY <1>3 DEF ab
<1>. HIDE DEF abc
<1>10. /\ Steps(f) \in Seq(Stages) /\ Chain(Steps(f)) /\ Begins(Steps(f))
       /\ NamesPlace(Steps(f)) => NamesPlace(d)
  BY <1>1, <1>7, <1>9, ChainsJoin
<1>11. Len(Steps(f)) > 0
  BY <1>1, <1>7, <1>8, <1>9
<1>. QED
  BY <1>2, <1>10, <1>11 DEF Begins

-----------------------------------------------------------------------------
Saved == [start : Hours, end : Hours, units : {Imperial, Metric},
          name : Places \cup {Blank}, lat : Places \cup {Blank}, lon : Places \cup {Blank}]
Todo(r) == form[r].todo
Seeds(step) == seeding # <<>> /\ Head(seeding) = step

(* Hours to be saved make a range; what names a place names all of it; a   *)
(* latitude comes before a longitude.                                      *)
FormsOK ==
    /\ saved \in Saved
    /\ saved.lat = Blank => saved.lon = Blank
    /\ form \in [Requests -> Underway \cup {Unsent, Nothing}]
    /\ \A r \in Requests : Running(r) =>
          /\ Len(Todo(r)) > 0 /\ Chain(Todo(r))
          /\ NamesPlace(Todo(r)) => form[r].lat \in Places
          /\ form[r].name = form[r].lat /\ form[r].lon = form[r].lat
          /\ Head(Todo(r)) \in {"start", "end"} => Fits(form[r].start, form[r].end)
          /\ Head(Todo(r)) = "lon" => saved.lat # Blank

(* A start is alone, and seeds over a place that is not complete.          *)
SeedOK ==
    /\ server # "serving" => \A r \in Requests : ~Running(r)
    /\ seeding \in {<<>>, <<"units">>, <<"lon", "units">>, <<"lat", "lon", "units">>,
                    <<"name", "lat", "lon", "units">>}
    /\ seeding # <<>> => server = "starting" /\ Seed # Nothing
    /\ Seeds("name") \/ Seeds("lat") \/ Seeds("lon") => saved.lon = Blank
    /\ Seeds("lon") => saved.lat # Blank

(* Of one form or one seed, the half that is saved fits the half to come.  *)
Halves ==
    ~split =>
       /\ \A q, r \in Requests : Running(q) /\ Running(r) => q = r
       /\ \A r \in Requests :
             /\ At(r, "end") => saved.start = form[r].start
             /\ At(r, "lat") => saved.name = form[r].lat
             /\ At(r, "lon") => saved.name = form[r].lat /\ saved.lat = form[r].lat
       /\ Seeds("lat") => saved.name = Seed.place
       /\ Seeds("lon") => saved.name = Seed.place /\ saved.lat = Seed.place
       /\ (\A r \in Requests : ~At(r, "end")) => saved.start < saved.end
       /\ (\A r \in Requests : ~At(r, "lat") /\ ~At(r, "lon")) /\ ~SeedHalfWay
             => saved.lat = saved.lon /\ saved.name = saved.lat

WeatherInv == FormsOK /\ SeedOK /\ Halves

(* What a step taken off the list leaves, and what comes next.             *)
LEMMA Proceeds ==
    ASSUME FormsOK, NEW r \in Requests, Running(r), NEW after \in Underway,
           after.todo = Todo(r), Proceed(r, after)
    PROVE  /\ form' \in [Requests -> Underway \cup {Unsent, Nothing}]
           /\ \A q \in Requests : q # r => form'[q] = form[q]
           /\ Running(r)' =>
                 /\ Len(Todo(r)') > 0 /\ Chain(Todo(r)')
                 /\ NamesPlace(Todo(r)') => NamesPlace(Todo(r))
                 /\ form'[r].start = after.start /\ form'[r].end = after.end
                 /\ form'[r].name = after.name /\ form'[r].lat = after.lat /\ form'[r].lon = after.lon
                 /\ Head(Todo(r)') = "start" => Head(Todo(r)) = "readEnd"
                 /\ Head(Todo(r)') = "end" => Head(Todo(r)) = "start"
                 /\ Head(Todo(r)') = "lat" => Head(Todo(r)) = "name"
                 /\ Head(Todo(r)') = "lon" => Head(Todo(r)) = "lat"
           /\ Head(Todo(r)) = "start" => At(r, "end")'
           /\ Head(Todo(r)) = "name" => At(r, "lat")'
           /\ Head(Todo(r)) = "lat" => At(r, "lon")'
<1> DEFINE s == after.todo
           rest == Tail(s)
           next == [after EXCEPT !.todo = rest]
<1>1. s \in Seq(Stages) /\ Len(s) \in Nat /\ Len(s) > 0 /\ Chain(s)
  <2>1. s \in Seq(Stages) /\ Len(s) > 0 /\ Chain(s)
    BY DEF FormsOK, Underway
  <2>. QED
    BY <2>1
<1>2. Head(s) = s[1] /\ 1 \in 1 .. Len(s)
  BY <1>1
<1>3. form' = [form EXCEPT ![r] = IF Len(s) = 1 THEN Nothing ELSE next]
  BY DEF Proceed
<1>. HIDE DEF s
<1>4. CASE Len(s) = 1
  <2>1. Head(s) \notin {"start", "name", "lat"}
    BY <1>1, <1>2, <1>4 DEF Chain
  <2>2. form'[r] = Nothing /\ \A q \in Requests : q # r => form'[q] = form[q]
    BY <1>3, <1>4 DEF FormsOK
  <2>3. ~Running(r)'
    BY <2>2 DEF Running
  <2>4. form' \in [Requests -> Underway \cup {Unsent, Nothing}]
    BY <1>3, <1>4 DEF FormsOK
  <2>5. Todo(r) = s
    BY DEF s
  <2>. QED
    BY <2>1, <2>2, <2>3, <2>4, <2>5
<1>5. CASE Len(s) # 1
  <2>1. Len(s) > 1
    <3>1. \A n \in Nat : n > 0 /\ n # 1 => n > 1
      OBVIOUS
    <3>. QED
      BY ONLY <1>1, <1>5, <3>1
  <2>2. /\ rest \in Seq(Stages) /\ Len(rest) > 0 /\ Chain(rest)
        /\ Head(rest) = s[2] /\ (NamesPlace(rest) => NamesPlace(s))
    BY <1>1, <2>1, ChainTail
  <2>3. 2 \in 1 .. Len(s) /\ 1 < Len(s) /\ 1 + 1 = 2 /\ 2 - 1 = 1 /\ 2 > 1
    BY <1>1, <2>1
  <2>4. /\ s[1] = "start" => s[2] = "end"
        /\ s[1] = "name" => s[2] = "lat"
        /\ s[1] = "lat" => s[2] = "lon"
    BY <1>1, <1>2, <2>3 DEF Chain
  <2>5. /\ s[2] = "start" => s[1] = "readEnd"
        /\ s[2] = "end" => s[1] = "start"
        /\ s[2] = "lat" => s[1] = "name"
        /\ s[2] = "lon" => s[1] = "lat"
    BY <1>1, <2>3 DEF Chain
  <2>. HIDE DEF rest
  <2>6. /\ next \in Underway /\ next.todo = rest
        /\ next.start = after.start /\ next.end = after.end
        /\ next.name = after.name /\ next.lat = after.lat /\ next.lon = after.lon
    BY <2>2 DEF Underway
  <2>. HIDE DEF next
  <2>7. form'[r] = next /\ \A q \in Requests : q # r => form'[q] = form[q]
    BY <1>3, <1>5 DEF FormsOK
  <2>8. Running(r)' /\ form' \in [Requests -> Underway \cup {Unsent, Nothing}]
    BY <1>3, <1>5, <2>6, <2>7, MarksAreNew DEF FormsOK, Running
  <2>9. Todo(r)' = rest /\ Todo(r) = s
    BY <2>6, <2>7 DEF Todo, s
  <2>10. /\ Head(Todo(r)) = "start" => At(r, "end")'
         /\ Head(Todo(r)) = "name" => At(r, "lat")'
         /\ Head(Todo(r)) = "lat" => At(r, "lon")'
    BY <1>2, <2>2, <2>4, <2>8, <2>9 DEF At, Todo
  <2>. QED
    BY <1>2, <2>2, <2>5, <2>6, <2>7, <2>8, <2>9, <2>10
<1>. QED
  BY <1>4, <1>5

-----------------------------------------------------------------------------
(* A request under way is one of a process that serves.                    *)
LEMMA Serving ==
    ASSUME WeatherInv, NEW r \in Requests, Running(r)
    PROVE  /\ server = "serving" /\ seeding = <<>>
           /\ \A step : ~Seeds(step)
           /\ ~SeedHalfWay
           /\ form[r] \in Underway
           /\ ~split => \A q \in Requests : Running(q) => q = r
<1>1. server = "serving" /\ seeding = <<>>
  BY DEF WeatherInv, SeedOK
<1>2. form[r] \in Underway
  BY DEF WeatherInv, FormsOK, Running
<1>. QED
  BY <1>1, <1>2 DEF WeatherInv, Halves, Seeds, SeedHalfWay

(* What a form reads changes nothing yet.                                  *)
LEMMA ReadingKeeps ==
    ASSUME WeatherInv, NEW r \in Requests, Running(r), NEW after \in Underway,
           after.todo = Todo(r), Proceed(r, after), UNCHANGED <<saved, split, server, seeding>>,
           after.name = form[r].name, after.lat = form[r].lat, after.lon = form[r].lon,
           Head(Todo(r)) \in {"readStart", "readEnd"},
           Head(Todo(r)) = "readEnd" => Fits(after.start, after.end)
    PROVE  WeatherInv'
<1>1. /\ server = "serving" /\ seeding = <<>> /\ ~SeedHalfWay /\ \A step : ~Seeds(step)
      /\ ~split => \A q \in Requests : Running(q) => q = r
  BY Serving
<1>2. /\ form' \in [Requests -> Underway \cup {Unsent, Nothing}]
      /\ \A q \in Requests : q # r => form'[q] = form[q]
      /\ Running(r)' =>
           /\ Len(Todo(r)') > 0 /\ Chain(Todo(r)')
           /\ NamesPlace(Todo(r)') => NamesPlace(Todo(r))
           /\ form'[r].start = after.start /\ form'[r].end = after.end
           /\ form'[r].name = after.name /\ form'[r].lat = after.lat /\ form'[r].lon = after.lon
           /\ Head(Todo(r)') = "start" => Head(Todo(r)) = "readEnd"
           /\ Head(Todo(r)') \notin {"end", "lat", "lon"}
  BY Proceeds DEF WeatherInv
<1>3. \A q \in Requests : q # r =>
         /\ Running(q)' <=> Running(q)
         /\ \A step : At(q, step)' <=> At(q, step)
         /\ Todo(q)' = Todo(q)
  BY <1>2 DEF Running, At, Todo
<1>4. ~At(r, "end")' /\ ~At(r, "lat")' /\ ~At(r, "lon")'
  BY <1>2 DEF At, Todo
<1>5. ~At(r, "end") /\ ~At(r, "lat") /\ ~At(r, "lon")
  BY DEF At, Todo
<1>6. FormsOK'
  BY <1>2, <1>3 DEF WeatherInv, FormsOK
<1>7. SeedOK'
  BY <1>1 DEF WeatherInv, SeedOK, Seeds
<1>8. ~SeedHalfWay' /\ \A step : ~Seeds(step)'
  BY <1>1 DEF SeedHalfWay, Seeds
<1>9. Halves'
  BY <1>1, <1>2, <1>3, <1>4, <1>5, <1>8 DEF WeatherInv, Halves
<1>. QED
  BY <1>6, <1>7, <1>9 DEF WeatherInv

(* A request that ends is one the less, and half of a pair may be saved.   *)
LEMMA RefusalKeeps ==
    ASSUME WeatherInv, NEW r \in Requests, Running(r), Refuse(r),
           UNCHANGED <<saved, server, seeding>>, ~split' => ~split /\ ~HalfWay(r)
    PROVE  WeatherInv'
<1>1. /\ server = "serving" /\ seeding = <<>> /\ ~SeedHalfWay /\ \A step : ~Seeds(step)
      /\ ~split => \A q \in Requests : Running(q) => q = r
  BY Serving
<1>2. /\ form' \in [Requests -> Underway \cup {Unsent, Nothing}]
      /\ form'[r] = Nothing /\ \A q \in Requests : q # r => form'[q] = form[q]
  BY DEF Refuse, WeatherInv, FormsOK
<1>3. /\ ~Running(r)'
      /\ \A q \in Requests : q # r =>
           /\ Running(q)' <=> Running(q)
           /\ \A step : At(q, step)' <=> At(q, step)
           /\ Todo(q)' = Todo(q)
  BY <1>2 DEF Running, At, Todo
<1>4. \A step : ~At(r, step)'
  BY <1>3 DEF At
<1>5. FormsOK'
  BY <1>2, <1>3 DEF WeatherInv, FormsOK
<1>6. SeedOK'
  BY <1>1 DEF WeatherInv, SeedOK, Seeds
<1>7. ~SeedHalfWay' /\ \A step : ~Seeds(step)'
  BY <1>1 DEF SeedHalfWay, Seeds
<1>8. ~split' => ~split /\ ~At(r, "end") /\ ~At(r, "lat") /\ ~At(r, "lon")
  BY DEF HalfWay
<1>9. Halves'
  BY <1>1, <1>2, <1>3, <1>4, <1>7, <1>8 DEF WeatherInv, Halves
<1>. QED
  BY <1>5, <1>6, <1>9 DEF WeatherInv

(* What a form saves is the second half of a pair, or the first of one     *)
(* whose second half comes next.                                           *)
LEMMA SavingKeeps ==
    ASSUME WeatherInv, NEW r \in Requests, Save(r), UNCHANGED <<server, seeding>>
    PROVE  WeatherInv'
<1>1. /\ Running(r) /\ Proceed(r, form[r]) /\ split' = split
  BY DEF Save, At
<1>2. /\ server = "serving" /\ seeding = <<>> /\ ~SeedHalfWay /\ \A step : ~Seeds(step)
      /\ form[r] \in Underway
      /\ ~split => \A q \in Requests : Running(q) => q = r
  BY <1>1, Serving
<1>3. /\ form' \in [Requests -> Underway \cup {Unsent, Nothing}]
      /\ \A q \in Requests : q # r => form'[q] = form[q]
      /\ Running(r)' =>
           /\ Len(Todo(r)') > 0 /\ Chain(Todo(r)')
           /\ NamesPlace(Todo(r)') => NamesPlace(Todo(r))
           /\ form'[r].start = form[r].start /\ form'[r].end = form[r].end
           /\ form'[r].name = form[r].name /\ form'[r].lat = form[r].lat
           /\ form'[r].lon = form[r].lon
           /\ Head(Todo(r)') = "start" => Head(Todo(r)) = "readEnd"
           /\ Head(Todo(r)') = "end" => Head(Todo(r)) = "start"
           /\ Head(Todo(r)') = "lat" => Head(Todo(r)) = "name"
           /\ Head(Todo(r)') = "lon" => Head(Todo(r)) = "lat"
      /\ Head(Todo(r)) = "start" => At(r, "end")'
      /\ Head(Todo(r)) = "name" => At(r, "lat")'
      /\ Head(Todo(r)) = "lat" => At(r, "lon")'
  BY <1>1, <1>2, Proceeds DEF WeatherInv, Todo
<1>4. \A q \in Requests : q # r =>
         /\ Running(q)' <=> Running(q)
         /\ \A step : At(q, step)' <=> At(q, step)
         /\ Todo(q)' = Todo(q)
  BY <1>3 DEF Running, At, Todo
<1>5. \A step : At(r, step) <=> Head(Todo(r)) = step
  BY <1>1 DEF At, Todo
<1>6. \A step : At(r, step)' <=> Running(r)' /\ Head(Todo(r)') = step
  BY DEF At, Todo
<1>7. /\ form[r].name = form[r].lat /\ form[r].lon = form[r].lat
      /\ NamesPlace(Todo(r)) => form[r].lat \in Places
      /\ Head(Todo(r)) \in {"start", "end"} => Fits(form[r].start, form[r].end)
      /\ Head(Todo(r)) \in {"name", "lat", "lon"} => form[r].lat \in Places
  <2>1. /\ Len(Todo(r)) > 0 /\ Todo(r) \in Seq(Stages)
        /\ form[r].name = form[r].lat /\ form[r].lon = form[r].lat
        /\ NamesPlace(Todo(r)) => form[r].lat \in Places
        /\ Head(Todo(r)) \in {"start", "end"} => Fits(form[r].start, form[r].end)
    BY <1>1, <1>2 DEF WeatherInv, FormsOK, Todo, Underway
  <2>2. 1 \in 1 .. Len(Todo(r)) /\ Head(Todo(r)) = Todo(r)[1]
    BY <2>1
  <2>. QED
    BY <2>1, <2>2 DEF NamesPlace
<1>8. SeedOK'
  BY <1>2 DEF WeatherInv, SeedOK, Seeds
<1>9. ~SeedHalfWay' /\ \A step : ~Seeds(step)'
  BY <1>2 DEF SeedHalfWay, Seeds
<1>10. CASE At(r, "start") /\ saved' = [saved EXCEPT !.start = form[r].start]
  <2>1. form[r].start \in Hours /\ Head(Todo(r)) = "start"
    BY <1>5, <1>7, <1>10 DEF Fits
  <2>2. /\ saved' \in Saved /\ saved'.start = form[r].start
        /\ saved'.name = saved.name /\ saved'.lat = saved.lat /\ saved'.lon = saved.lon
    BY <1>10, <2>1 DEF WeatherInv, FormsOK, Saved
  <2>3. FormsOK'
    BY <1>1, <1>3, <1>4, <1>7, <2>1, <2>2 DEF WeatherInv, FormsOK
  <2>4. ASSUME ~split
        PROVE  \A q, t \in Requests : Running(q)' /\ Running(t)' => q = t
    BY <1>1, <1>2, <1>4, <2>4
  <2>5. ASSUME ~split, NEW q \in Requests
        PROVE  /\ At(q, "end")' => saved'.start = form'[q].start
               /\ At(q, "lat")' => saved'.name = form'[q].lat
               /\ At(q, "lon")' => saved'.name = form'[q].lat /\ saved'.lat = form'[q].lat
    <3>1. CASE q = r
      BY <1>3, <1>6, <1>7, <2>1, <2>2, <2>5, <3>1
    <3>2. CASE q # r
      <4>1. ~Running(q)'
        BY <1>1, <1>2, <1>4, <2>5, <3>2
      <4>. QED
        BY <4>1 DEF At
    <3>. QED
      BY <3>1, <3>2
  <2>6. ASSUME ~split
        PROVE  /\ (\A q \in Requests : ~At(q, "end")') => saved'.start < saved'.end
               /\ (\A q \in Requests : ~At(q, "lat")' /\ ~At(q, "lon")')
                    => saved'.lat = saved'.lon /\ saved'.name = saved'.lat
    <3>1. \A q \in Requests : q # r => ~At(q, "end") /\ ~At(q, "lat") /\ ~At(q, "lon")
      BY <1>1, <1>2, <2>6 DEF At
    <3>. QED
      BY <1>2, <1>3, <1>5, <2>1, <2>2, <2>6, <3>1 DEF WeatherInv, Halves
  <2>7. Halves'
    BY <1>1, <1>9, <2>4, <2>5, <2>6 DEF Halves
  <2>. QED
    BY <1>8, <2>3, <2>7 DEF WeatherInv
<1>11. CASE At(r, "end") /\ saved' = [saved EXCEPT !.end = form[r].end]
  <2>1. form[r].end \in Hours /\ form[r].start < form[r].end /\ Head(Todo(r)) = "end"
    BY <1>5, <1>7, <1>11 DEF Fits
  <2>2. /\ saved' \in Saved /\ saved'.start = saved.start /\ saved'.end = form[r].end
        /\ saved'.name = saved.name /\ saved'.lat = saved.lat /\ saved'.lon = saved.lon
    BY <1>11, <2>1 DEF WeatherInv, FormsOK, Saved
  <2>3. FormsOK'
    BY <1>1, <1>3, <1>4, <1>7, <2>1, <2>2 DEF WeatherInv, FormsOK
  <2>4. ~split => saved'.start < saved'.end
    BY <1>11, <2>1, <2>2 DEF WeatherInv, Halves
  <2>5. Halves'
    BY <1>1, <1>2, <1>3, <1>4, <1>5, <1>6, <1>9, <2>1, <2>2, <2>4 DEF WeatherInv, Halves
  <2>. QED
    BY <1>8, <2>3, <2>5 DEF WeatherInv
<1>12. CASE At(r, "units") /\ saved' = [saved EXCEPT !.units = form[r].units]
  <2>1. form[r].units \in {Imperial, Metric} /\ Head(Todo(r)) = "units"
    BY <1>2, <1>5, <1>12 DEF Underway
  <2>2. /\ saved' \in Saved /\ saved'.start = saved.start /\ saved'.end = saved.end
        /\ saved'.name = saved.name /\ saved'.lat = saved.lat /\ saved'.lon = saved.lon
    BY <1>12, <2>1 DEF WeatherInv, FormsOK, Saved
  <2>3. FormsOK'
    BY <1>1, <1>3, <1>4, <1>7, <2>1, <2>2 DEF WeatherInv, FormsOK
  <2>4. Halves'
    BY <1>1, <1>2, <1>3, <1>4, <1>5, <1>6, <1>9, <2>1, <2>2 DEF WeatherInv, Halves
  <2>. QED
    BY <1>8, <2>3, <2>4 DEF WeatherInv
<1>13. CASE At(r, "name") /\ saved' = [saved EXCEPT !.name = form[r].name]
  <2>1. form[r].name \in Places /\ Head(Todo(r)) = "name"
    BY <1>5, <1>7, <1>13
  <2>2. /\ saved' \in Saved /\ saved'.start = saved.start /\ saved'.end = saved.end
        /\ saved'.name = form[r].name /\ saved'.lat = saved.lat /\ saved'.lon = saved.lon
    BY <1>13, <2>1 DEF WeatherInv, FormsOK, Saved
  <2>3. FormsOK'
    BY <1>1, <1>3, <1>4, <1>7, <2>1, <2>2 DEF WeatherInv, FormsOK
  <2>4. ASSUME ~split
        PROVE  \A q, t \in Requests : Running(q)' /\ Running(t)' => q = t
    BY <1>1, <1>2, <1>4, <2>4
  <2>5. ASSUME ~split, NEW q \in Requests
        PROVE  /\ At(q, "end")' => saved'.start = form'[q].start
               /\ At(q, "lat")' => saved'.name = form'[q].lat
               /\ At(q, "lon")' => saved'.name = form'[q].lat /\ saved'.lat = form'[q].lat
    <3>1. CASE q = r
      BY <1>3, <1>6, <1>7, <2>1, <2>2, <2>5, <3>1
    <3>2. CASE q # r
      <4>1. ~Running(q)'
        BY <1>1, <1>2, <1>4, <2>5, <3>2
      <4>. QED
        BY <4>1 DEF At
    <3>. QED
      BY <3>1, <3>2
  <2>6. ASSUME ~split
        PROVE  /\ (\A q \in Requests : ~At(q, "end")') => saved'.start < saved'.end
               /\ (\A q \in Requests : ~At(q, "lat")' /\ ~At(q, "lon")')
                    => saved'.lat = saved'.lon /\ saved'.name = saved'.lat
    <3>1. \A q \in Requests : q # r => ~At(q, "end") /\ ~At(q, "lat") /\ ~At(q, "lon")
      BY <1>1, <1>2, <2>6 DEF At
    <3>. QED
      BY <1>2, <1>3, <1>5, <2>1, <2>2, <2>6, <3>1 DEF WeatherInv, Halves
  <2>7. Halves'
    BY <1>1, <1>9, <2>4, <2>5, <2>6 DEF Halves
  <2>. QED
    BY <1>8, <2>3, <2>7 DEF WeatherInv
<1>14. CASE At(r, "lat") /\ saved' = [saved EXCEPT !.lat = form[r].lat]
  <2>1. form[r].lat \in Places /\ form[r].lat # Blank /\ Head(Todo(r)) = "lat"
    BY <1>5, <1>7, <1>14, MarksAreNew
  <2>2. /\ saved' \in Saved /\ saved'.start = saved.start /\ saved'.end = saved.end
        /\ saved'.name = saved.name /\ saved'.lat = form[r].lat /\ saved'.lon = saved.lon
    BY <1>14, <2>1 DEF WeatherInv, FormsOK, Saved
  <2>3. FormsOK'
    BY <1>1, <1>3, <1>4, <1>7, <2>1, <2>2 DEF WeatherInv, FormsOK
  <2>4. Halves'
    BY <1>1, <1>2, <1>3, <1>4, <1>5, <1>6, <1>7, <1>9, <2>1, <2>2 DEF WeatherInv, Halves
  <2>. QED
    BY <1>8, <2>3, <2>4 DEF WeatherInv
<1>15. CASE At(r, "lon") /\ saved' = [saved EXCEPT !.lon = form[r].lon]
  <2>1. form[r].lon \in Places /\ saved.lat # Blank /\ Head(Todo(r)) = "lon"
    BY <1>1, <1>5, <1>7, <1>15 DEF WeatherInv, FormsOK
  <2>2. /\ saved' \in Saved /\ saved'.start = saved.start /\ saved'.end = saved.end
        /\ saved'.name = saved.name /\ saved'.lat = saved.lat /\ saved'.lon = form[r].lon
    BY <1>15, <2>1 DEF WeatherInv, FormsOK, Saved
  <2>3. FormsOK'
    BY <1>1, <1>3, <1>4, <1>7, <2>1, <2>2 DEF WeatherInv, FormsOK
  <2>4. Halves'
    BY <1>1, <1>2, <1>3, <1>4, <1>5, <1>6, <1>7, <1>9, <2>1, <2>2 DEF WeatherInv, Halves
  <2>. QED
    BY <1>8, <2>3, <2>4 DEF WeatherInv
<1>. QED
  BY <1>10, <1>11, <1>12, <1>13, <1>14, <1>15 DEF Save

(* One step of a form under way, or its end.                               *)
LEMMA FormsKeep ==
    ASSUME WeatherInv, NEW r \in Requests, FormStep(r) \/ FormFails(r), UNCHANGED <<server, seeding>>
    PROVE  WeatherInv'
<1>1. Running(r)
  BY DEF FormStep, FormFails, ReadStart, ReadEnd, Save, RefuseZoom, At
<1>2. form[r] \in Underway /\ saved \in Saved /\ Todo(r) = form[r].todo
  BY <1>1, Serving DEF WeatherInv, FormsOK, Todo
<1>3. CASE ReadStart(r)
  <2> DEFINE after == [form[r] EXCEPT !.seen = saved.start]
  <2>1. At(r, "readStart") /\ Proceed(r, after) /\ UNCHANGED <<saved, split>>
    BY <1>3 DEF ReadStart
  <2>2. saved.start \in Hours
    BY <1>2 DEF Saved
  <2>3. /\ after \in Underway /\ after.todo = Todo(r)
        /\ after.name = form[r].name /\ after.lat = form[r].lat /\ after.lon = form[r].lon
    BY <1>2, <2>2 DEF Underway
  <2>. HIDE DEF after
  <2>4. Head(Todo(r)) = "readStart"
    BY <2>1 DEF At, Todo
  <2>. QED
    BY <1>1, <2>1, <2>3, <2>4, ReadingKeeps
<1>4. CASE ReadEnd(r)
  <2> DEFINE current == Resolve(form[r].seen, saved.end)
             start == IF form[r].start = Blank THEN current.start ELSE form[r].start
             end == IF form[r].end = Blank THEN current.end ELSE form[r].end
             read == [form[r] EXCEPT !.start = start]
             after == [read EXCEPT !.end = end]
  <2>1. /\ At(r, "readEnd") /\ UNCHANGED <<saved, split>>
        /\ IF Fits(after.start, after.end) THEN Proceed(r, after) ELSE Refuse(r)
    BY <1>4 DEF ReadEnd
  <2>2. current \in [start : Hours, end : Hours]
    BY <1>2, DefaultIsARange DEF Saved, Underway, Resolve
  <2>. HIDE DEF current
  <2>3. start \in Hours \cup {Blank, Bad} /\ end \in Hours \cup {Blank, Bad}
    BY <1>2, <2>2 DEF Underway
  <2>. HIDE DEF start, end
  <2>4. /\ read \in Underway /\ read.todo = Todo(r)
        /\ read.name = form[r].name /\ read.lat = form[r].lat /\ read.lon = form[r].lon
    BY <1>2, <2>3 DEF Underway
  <2>. HIDE DEF read
  <2>5. /\ after \in Underway /\ after.todo = Todo(r)
        /\ after.name = form[r].name /\ after.lat = form[r].lat /\ after.lon = form[r].lon
    BY <2>3, <2>4 DEF Underway
  <2>. HIDE DEF after
  <2>6. Head(Todo(r)) = "readEnd"
    BY <2>1 DEF At, Todo
  <2>7. CASE Fits(after.start, after.end)
    BY <1>1, <2>1, <2>5, <2>6, <2>7, ReadingKeeps
  <2>8. CASE ~Fits(after.start, after.end)
    <3>1. ~HalfWay(r)
      BY <2>1 DEF HalfWay, At
    <3>. QED
      BY <1>1, <2>1, <2>8, <3>1, RefusalKeeps
  <2>. QED
    BY <2>7, <2>8
<1>5. CASE Save(r)
  BY <1>5, SavingKeeps
<1>6. CASE RefuseZoom(r)
  <2>1. At(r, "zoom") /\ Refuse(r) /\ UNCHANGED <<saved, split>>
    BY <1>6 DEF RefuseZoom
  <2>2. ~HalfWay(r)
    BY <2>1 DEF HalfWay, At
  <2>. QED
    BY <1>1, <2>1, <2>2, RefusalKeeps
<1>7. CASE FormFails(r)
  BY <1>1, <1>7, RefusalKeeps DEF FormFails
<1>. QED
  BY <1>3, <1>4, <1>5, <1>6, <1>7 DEF FormStep

(* A form that comes in has no half behind it.                             *)
LEMMA PostKeeps ==
    ASSUME WeatherInv, NEW r \in Requests, NEW f \in Posted, Submit(r, f)
    PROVE  WeatherInv'
<1> DEFINE new == [todo |-> Steps(f), seen |-> 0, start |-> f.start, end |-> f.end,
                   units |-> f.units, name |-> f.place, lat |-> f.place, lon |-> f.place]
<1>1. /\ server = "serving" /\ UNCHANGED <<saved, server, seeding>>
      /\ form[r] = Unsent /\ form' = [form EXCEPT ![r] = new]
      /\ split' = (split \/ \E q \in Requests : Running(q))
  BY DEF Submit, Post
<1>2. f \in Form
  BY FormsAreGiven
<1>3. /\ Steps(f) \in Seq(Stages) /\ Len(Steps(f)) > 0 /\ Chain(Steps(f))
      /\ Head(Steps(f)) \in {"readStart", "units", "zoom", "name"}
      /\ NamesPlace(Steps(f)) => f.place \in Places
  BY <1>2, StepsChain
<1>4. 0 \in Hours
  BY LengthsAreGiven DEF Hours
<1>5. /\ new \in Underway /\ new.todo = Steps(f)
      /\ new.name = f.place /\ new.lat = f.place /\ new.lon = f.place
  BY <1>2, <1>3, <1>4 DEF Underway, Form
<1>. HIDE DEF new
<1>6. /\ form' \in [Requests -> Underway \cup {Unsent, Nothing}]
      /\ form'[r] = new /\ \A q \in Requests : q # r => form'[q] = form[q]
  BY <1>1, <1>5 DEF WeatherInv, FormsOK
<1>7. /\ ~Running(r) /\ Running(r)' /\ Todo(r)' = Steps(f)
      /\ \A q \in Requests : q # r =>
           /\ Running(q)' <=> Running(q)
           /\ \A step : At(q, step)' <=> At(q, step)
           /\ Todo(q)' = Todo(q)
  BY <1>1, <1>5, <1>6, MarksAreNew DEF Running, At, Todo
<1>8. ~At(r, "end")' /\ ~At(r, "lat")' /\ ~At(r, "lon")'
  BY <1>3, <1>7 DEF At, Todo
<1>9. seeding = <<>>
  BY <1>1 DEF WeatherInv, SeedOK
<1>10. FormsOK'
  BY <1>1, <1>3, <1>5, <1>6, <1>7 DEF WeatherInv, FormsOK
<1>11. SeedOK'
  BY <1>1, <1>9 DEF WeatherInv, SeedOK, Seeds
<1>12. Halves'
  <2>1. /\ ~SeedHalfWay /\ ~SeedHalfWay'
        /\ \A step : ~Seeds(step)'
    BY <1>1, <1>9 DEF Seeds, SeedHalfWay
  <2>2. ~split' => ~split /\ \A q \in Requests : ~Running(q)
    BY <1>1
  <2>3. ~split' => \A q \in Requests : Running(q)' => q = r
    BY <1>7, <2>2
  <2>4. ~split' => \A q \in Requests : /\ ~At(q, "end") /\ ~At(q, "lat") /\ ~At(q, "lon")
                                         /\ ~At(q, "end")' /\ ~At(q, "lat")' /\ ~At(q, "lon")'
    BY <1>7, <1>8, <2>2 DEF At
  <2>. QED
    BY <1>1, <2>1, <2>2, <2>3, <2>4 DEF WeatherInv, Halves
<1>. QED
  BY <1>10, <1>11, <1>12 DEF WeatherInv

-----------------------------------------------------------------------------
(* The seed of a start.                                                    *)
LEMMA Tails ==
    /\ Head(<<"name", "lat", "lon", "units">>) = "name" /\ Head(<<"lat", "lon", "units">>) = "lat"
    /\ Head(<<"lon", "units">>) = "lon" /\ Head(<<"units">>) = "units"
    /\ Tail(<<"name", "lat", "lon", "units">>) = <<"lat", "lon", "units">>
    /\ Tail(<<"lat", "lon", "units">>) = <<"lon", "units">>
    /\ Tail(<<"lon", "units">>) = <<"units">> /\ Tail(<<"units">>) = <<>>
    /\ <<"name", "lat", "lon", "units">> # <<>> /\ <<"lat", "lon", "units">> # <<>>
    /\ <<"lon", "units">> # <<>> /\ <<"units">> # <<>>
  OBVIOUS

(* Where the seed is, by its head.                                         *)
LEMMA SeedHeads ==
    ASSUME SeedOK
    PROVE  /\ Seeds("name") <=> seeding = <<"name", "lat", "lon", "units">>
           /\ Seeds("lat") <=> seeding = <<"lat", "lon", "units">>
           /\ Seeds("lon") <=> seeding = <<"lon", "units">>
           /\ Seeds("units") <=> seeding = <<"units">>
           /\ SeedHalfWay <=> Seeds("lat") \/ Seeds("lon")
           /\ seeding # <<>> => Seeds("name") \/ Seeds("lat") \/ Seeds("lon") \/ Seeds("units")
  BY Tails DEF SeedOK, Seeds, SeedHalfWay

(* The seed is saved as a form is, with no form beside it.                 *)
LEMMA SeedStepKeeps ==
    ASSUME WeatherInv, SeedStep
    PROVE  WeatherInv'
<1>1. /\ server = "starting" /\ seeding # <<>> /\ seeding' = Tail(seeding)
      /\ saved' = [saved EXCEPT ![Head(seeding)] = SeedValue(Head(seeding))]
      /\ UNCHANGED <<form, split, server>>
  BY DEF SeedStep
<1>2. /\ Seed.place \in Places /\ Seed.units \in {Imperial, Metric}
      /\ Seed.place # Blank
  BY <1>1, SeedIsGiven, MarksAreNew DEF WeatherInv, SeedOK
<1>3. \A r \in Requests : /\ ~Running(r) /\ ~Running(r)'
                          /\ \A step : ~At(r, step) /\ ~At(r, step)'
  BY <1>1 DEF WeatherInv, SeedOK, Running, At
<1>4. saved \in Saved
  BY DEF WeatherInv, FormsOK
<1>5. CASE Seeds("name")
  <2>1. /\ saved' = [saved EXCEPT !.name = Seed.place] /\ seeding' = <<"lat", "lon", "units">>
        /\ saved.lon = Blank
    BY <1>1, <1>5, SeedHeads, Tails DEF WeatherInv, SeedOK, Seeds, SeedValue
  <2>2. /\ saved' \in Saved /\ saved'.start = saved.start /\ saved'.end = saved.end
        /\ saved'.name = Seed.place /\ saved'.lat = saved.lat /\ saved'.lon = saved.lon
    BY <1>2, <1>4, <2>1 DEF Saved
  <2>3. /\ Seeds("lat")' /\ SeedHalfWay' /\ ~Seeds("lon")' /\ ~SeedHalfWay
        /\ seeding' # <<>>
    BY <1>5, <2>1, Tails DEF Seeds, SeedHalfWay
  <2>4. FormsOK' /\ SeedOK'
    BY <1>1, <1>3, <2>1, <2>2, <2>3 DEF WeatherInv, FormsOK, SeedOK
  <2>5. Halves'
    BY <1>1, <1>3, <2>2, <2>3 DEF WeatherInv, Halves
  <2>. QED
    BY <2>4, <2>5 DEF WeatherInv
<1>6. CASE Seeds("lat")
  <2>1. /\ saved' = [saved EXCEPT !.lat = Seed.place] /\ seeding' = <<"lon", "units">>
        /\ saved.lon = Blank
    BY <1>1, <1>6, SeedHeads, Tails DEF WeatherInv, SeedOK, Seeds, SeedValue
  <2>2. /\ saved' \in Saved /\ saved'.start = saved.start /\ saved'.end = saved.end
        /\ saved'.name = saved.name /\ saved'.lat = Seed.place /\ saved'.lon = saved.lon
    BY <1>2, <1>4, <2>1 DEF Saved
  <2>3. /\ Seeds("lon")' /\ SeedHalfWay' /\ ~Seeds("lat")' /\ seeding' # <<>>
    BY <2>1, Tails DEF Seeds, SeedHalfWay
  <2>4. FormsOK' /\ SeedOK'
    BY <1>1, <1>2, <1>3, <2>1, <2>2, <2>3 DEF WeatherInv, FormsOK, SeedOK
  <2>5. Halves'
    BY <1>1, <1>3, <1>6, <2>2, <2>3 DEF WeatherInv, Halves
  <2>. QED
    BY <2>4, <2>5 DEF WeatherInv
<1>7. CASE Seeds("lon")
  <2>1. saved' = [saved EXCEPT !.lon = Seed.place] /\ seeding' = <<"units">>
    BY <1>1, <1>7, SeedHeads, Tails DEF WeatherInv, SeedOK, Seeds, SeedValue
  <2>2. /\ saved' \in Saved /\ saved'.start = saved.start /\ saved'.end = saved.end
        /\ saved'.name = saved.name /\ saved'.lat = saved.lat /\ saved'.lon = Seed.place
    BY <1>2, <1>4, <2>1 DEF Saved
  <2>3. ~SeedHalfWay' /\ ~Seeds("lat")' /\ ~Seeds("lon")' /\ ~Seeds("name")' /\ seeding' # <<>>
    BY <2>1, Tails DEF Seeds, SeedHalfWay
  <2>4. ~split => saved.name = Seed.place /\ saved.lat = Seed.place
    BY <1>7 DEF WeatherInv, Halves
  <2>6. FormsOK' /\ SeedOK'
    <3>1. saved.lat # Blank
      BY <1>7 DEF WeatherInv, SeedOK
    <3>. QED
      BY <1>1, <1>2, <1>3, <2>1, <2>2, <2>3, <3>1 DEF WeatherInv, FormsOK, SeedOK
  <2>7. Halves'
    BY <1>1, <1>3, <2>2, <2>3, <2>4 DEF WeatherInv, Halves
  <2>. QED
    BY <2>6, <2>7 DEF WeatherInv
<1>8. CASE Seeds("units")
  <2>1. saved' = [saved EXCEPT !.units = Seed.units] /\ seeding' = <<>>
    BY <1>1, <1>8, SeedHeads, Tails DEF WeatherInv, SeedOK, Seeds, SeedValue
  <2>2. /\ saved' \in Saved /\ saved'.start = saved.start /\ saved'.end = saved.end
        /\ saved'.name = saved.name /\ saved'.lat = saved.lat /\ saved'.lon = saved.lon
    BY <1>2, <1>4, <2>1 DEF Saved
  <2>3. ~SeedHalfWay' /\ \A step : ~Seeds(step)'
    BY <2>1 DEF Seeds, SeedHalfWay
  <2>4. ~SeedHalfWay
    BY <1>8 DEF Seeds, SeedHalfWay
  <2>5. FormsOK' /\ SeedOK'
    BY <1>1, <1>3, <2>1, <2>2, <2>3 DEF WeatherInv, FormsOK, SeedOK
  <2>6. Halves'
    BY <1>1, <1>3, <2>2, <2>3, <2>4 DEF WeatherInv, Halves
  <2>. QED
    BY <2>5, <2>6 DEF WeatherInv
<1>. QED
  BY <1>1, <1>5, <1>6, <1>7, <1>8, SeedHeads DEF WeatherInv

(* A start, its end, and what cuts it or the forms off.                    *)
LEMMA ProcessKeeps ==
    ASSUME WeatherInv, Start \/ Serve \/ Stop \/ SeedFails
    PROVE  WeatherInv'
<1>1. saved' = saved /\ saved \in Saved
  BY DEF Start, Serve, Stop, SeedFails, formVars, WeatherInv, FormsOK
<1>2. CASE Start
  <2>1. /\ server = "down" /\ server' = "starting" /\ UNCHANGED <<form, split>>
        /\ seeding' = IF SeedWanted THEN <<"name", "lat", "lon", "units">> ELSE <<>>
    BY <1>2 DEF Start, formVars
  <2>2. \A r \in Requests : /\ ~Running(r) /\ ~Running(r)'
                            /\ \A step : ~At(r, step) /\ ~At(r, step)'
    BY <2>1 DEF WeatherInv, SeedOK, Running, At
  <2>3. ~SeedHalfWay
    BY <2>1 DEF WeatherInv, SeedOK, SeedHalfWay
  <2>4. ~SeedHalfWay' /\ ~Seeds("lat")' /\ ~Seeds("lon")'
    BY <2>1, Tails DEF Seeds, SeedHalfWay
  <2>5. seeding' # <<>> => Seed # Nothing /\ saved.lon = Blank
    BY <2>1 DEF SeedWanted, PlaceConfigured, WeatherInv, FormsOK
  <2>6. Seeds("name")' => seeding' # <<>>
    BY DEF Seeds
  <2>7. FormsOK' /\ SeedOK'
    BY <1>1, <2>1, <2>2, <2>4, <2>5, <2>6 DEF WeatherInv, FormsOK, SeedOK
  <2>8. Halves'
    BY <1>1, <2>1, <2>2, <2>3, <2>4 DEF WeatherInv, Halves
  <2>. QED
    BY <2>7, <2>8 DEF WeatherInv
<1>3. CASE Serve
  <2>1. seeding = <<>> /\ server' = "serving" /\ UNCHANGED <<form, split, seeding>>
    BY <1>3 DEF Serve, formVars
  <2>2. \A r \in Requests : /\ Running(r)' <=> Running(r)
                            /\ \A step : At(r, step)' <=> At(r, step)
                            /\ Todo(r)' = Todo(r)
    BY <2>1 DEF Running, At, Todo
  <2>3. ~SeedHalfWay /\ ~SeedHalfWay' /\ \A step : ~Seeds(step)'
    BY <2>1 DEF Seeds, SeedHalfWay
  <2>4. FormsOK' /\ SeedOK'
    BY <1>1, <2>1, <2>2, <2>3 DEF WeatherInv, FormsOK, SeedOK
  <2>5. Halves'
    BY <1>1, <2>1, <2>2, <2>3 DEF WeatherInv, Halves
  <2>. QED
    BY <2>4, <2>5 DEF WeatherInv
<1>4. CASE Stop
  <2>1. /\ server' = "down" /\ seeding' = <<>>
        /\ form' = [r \in Requests |-> IF Running(r) THEN Nothing ELSE form[r]]
        /\ ~split' => ~split /\ ~SeedHalfWay /\ \A r \in Requests : ~HalfWay(r)
    BY <1>4 DEF Stop
  <2>2. \A r \in Requests : ~Running(r)' /\ \A step : ~At(r, step)'
    BY <2>1 DEF Running, At
  <2>3. ~SeedHalfWay' /\ \A step : ~Seeds(step)'
    BY <2>1 DEF Seeds, SeedHalfWay
  <2>4. ~split' => \A r \in Requests : ~At(r, "end") /\ ~At(r, "lat") /\ ~At(r, "lon")
    BY <2>1 DEF HalfWay
  <2>5. form' \in [Requests -> Underway \cup {Unsent, Nothing}]
    BY <2>1 DEF WeatherInv, FormsOK
  <2>6. FormsOK' /\ SeedOK'
    BY <1>1, <2>1, <2>2, <2>3, <2>5 DEF WeatherInv, FormsOK, SeedOK
  <2>7. Halves'
    BY <1>1, <2>1, <2>2, <2>3, <2>4 DEF WeatherInv, Halves
  <2>. QED
    BY <2>6, <2>7 DEF WeatherInv
<1>5. CASE SeedFails
  <2>1. /\ server = "starting" /\ seeding' = <<>> /\ UNCHANGED <<form, server>>
        /\ ~split' => ~split /\ ~SeedHalfWay
    BY <1>5 DEF SeedFails
  <2>2. \A r \in Requests : /\ ~Running(r) /\ ~Running(r)'
                            /\ \A step : ~At(r, step) /\ ~At(r, step)'
    BY <2>1 DEF WeatherInv, SeedOK, Running, At
  <2>3. ~SeedHalfWay' /\ \A step : ~Seeds(step)'
    BY <2>1 DEF Seeds, SeedHalfWay
  <2>4. FormsOK' /\ SeedOK'
    BY <1>1, <2>1, <2>2, <2>3 DEF WeatherInv, FormsOK, SeedOK
  <2>5. Halves'
    BY <1>1, <2>1, <2>2, <2>3 DEF WeatherInv, Halves
  <2>. QED
    BY <2>4, <2>5 DEF WeatherInv
<1>. QED
  BY <1>2, <1>3, <1>4, <1>5

(* What neither saves nor seeds: the refreshes.                            *)
LEMMA SameKeeps ==
    ASSUME WeatherInv, UNCHANGED <<saved, form, split, server, seeding>>
    PROVE  WeatherInv'
  BY DEF WeatherInv, FormsOK, SeedOK, Halves, Running, At, Todo, Seeds, SeedHalfWay

LEMMA WeatherInvInit == WeatherInit => WeatherInv
<1>. SUFFICES ASSUME WeatherInit PROVE WeatherInv
  OBVIOUS
<1>1. /\ saved \in Saved /\ saved.lat = Blank /\ saved.lon = Blank /\ saved.name = Blank
      /\ saved.start < saved.end
  BY DefaultIsARange DEF WeatherInit, FormInit, Saved
<1>2. form = [r \in Requests |-> Unsent] /\ \A r \in Requests : ~Running(r)
  BY DEF WeatherInit, FormInit, Running
<1>3. seeding = <<>> /\ server = "down" /\ \A step : ~Seeds(step)
  BY DEF WeatherInit, Seeds
<1>4. \A r \in Requests : \A step : ~At(r, step)
  BY <1>2 DEF At
<1>. QED
  BY <1>1, <1>2, <1>3, <1>4 DEF WeatherInv, FormsOK, SeedOK, Halves

LEMMA WeatherInvNext == WeatherInv /\ [WeatherNext]_weatherVars => WeatherInv'
<1>. SUFFICES ASSUME WeatherInv, [WeatherNext]_weatherVars PROVE WeatherInv'
  OBVIOUS
<1>1. CASE Start \/ Serve \/ Stop \/ SeedFails
  BY <1>1, ProcessKeeps
<1>2. CASE SeedStep
  BY <1>2, SeedStepKeeps
<1>3. ASSUME NEW r \in Requests, NEW f \in Posted, Submit(r, f) PROVE WeatherInv'
  BY <1>3, PostKeeps
<1>4. ASSUME NEW r \in Requests, UpdateSettings(r) \/ UpdateFails(r) PROVE WeatherInv'
  BY <1>4, FormsKeep DEF UpdateSettings, UpdateFails
<1>5. CASE Tick \/ \E w \in Workers : Read(w) \/ Answer(w) \/ NoAnswer(w)
  BY <1>5, SameKeeps DEF Tick, Read, Answer, NoAnswer, formVars
<1>6. CASE UNCHANGED weatherVars
  BY <1>6, SameKeeps DEF weatherVars, formVars
<1>. QED
  BY <1>1, <1>2, <1>3, <1>4, <1>5, <1>6 DEF WeatherNext

LEMMA WeatherInvariant == WeatherSpec => []WeatherInv
  BY WeatherInvInit, WeatherInvNext, PTL DEF WeatherSpec

(* No form that is refused, wherever, and no restart leaves a range of     *)
(* hours that is none or a place with another's coordinates, unless two    *)
(* forms overlapped or a pair was cut off between its halves: for any      *)
(* forms, hours, places and number of requests.                            *)
THEOREM SettingsAreWhole == WeatherSpec => []PairsAreWhole
<1>1. WeatherInv => PairsAreWhole
  BY DEF WeatherInv, Halves, PairsAreWhole, HalfWay
<1>. QED
  BY <1>1, WeatherInvariant, PTL

(* Only a start's seed and a form save anything.                           *)
LEMMA Savers ==
    ASSUME WeatherInv, [WeatherNext]_weatherVars, server = "starting"
    PROVE  saved' = saved \/ SeedStep
<1>1. \A r \in Requests : ~Running(r)
  BY DEF WeatherInv, SeedOK
<1>2. ASSUME NEW r \in Requests, UpdateSettings(r) \/ UpdateFails(r) PROVE FALSE
  BY <1>1, <1>2 DEF UpdateSettings, UpdateFails, FormStep, FormFails, ReadStart, ReadEnd, Save,
                    RefuseZoom, At
<1>. QED
  BY <1>2 DEF WeatherNext, weatherVars, formVars, Start, SeedFails, Serve, Stop, Submit, Post,
              Tick, Read, Answer, NoAnswer

(* No start, however the ones before were broken off, replaces a place     *)
(* that is complete by the environment's: a latitude is never saved after  *)
(* its longitude, so that what is not complete has no longitude yet.       *)
THEOREM SeedsKeepChoice == WeatherSpec => SeedKeepsChoice
<1>1. ASSUME WeatherInv, [WeatherNext]_weatherVars, server = "starting", PlaceConfigured
      PROVE  saved'.lat = saved.lat /\ saved'.lon = saved.lon
  <2>1. CASE saved' = saved
    BY <2>1
  <2>2. CASE SeedStep
    <3>1. ~Seeds("name") /\ ~Seeds("lat") /\ ~Seeds("lon")
      BY <1>1 DEF PlaceConfigured, WeatherInv, SeedOK
    <3>2. Seeds("units")
      BY <1>1, <2>2, <3>1, SeedHeads DEF SeedStep, WeatherInv
    <3>3. saved' = [saved EXCEPT !.units = Seed.units]
      BY <2>2, <3>2 DEF SeedStep, Seeds, SeedValue
    <3>4. saved \in Saved
      BY <1>1 DEF WeatherInv, FormsOK
    <3>. QED
      BY <3>3, <3>4 DEF Saved
  <2>. QED
    BY <1>1, <2>1, <2>2, Savers
<1>2. WeatherInv /\ [WeatherNext]_weatherVars
      => [server = "starting" /\ PlaceConfigured =>
            saved'.lat = saved.lat /\ saved'.lon = saved.lon]_weatherVars
  BY <1>1
<1>. QED
  BY <1>2, WeatherInvariant, PTL DEF WeatherSpec, SeedKeepsChoice
=============================================================================
