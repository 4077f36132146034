------------------------------ MODULE WeekGrid ------------------------------
(***************************************************************************)
(* How the kiosk's five-day view lays a day's events out on its time grid  *)
(* (internal/handlers/kiosk_week.go): the hours shown, and the place of    *)
(* each timed event's block.  All-day events are chips above the grid.     *)
(*                                                                         *)
(* A minute of the code is one step of the clock here.  The code's         *)
(* percentages are lengths here, counted in Parts-ths of a minute, so that *)
(* the least height, a Parts-th of the grid, is a whole number too.        *)
(***************************************************************************)
EXTENDS Integers

CONSTANTS
    HoursPerDay,     \* 24
    HourLength,      \* minutes in an hour: 60
    Parts,           \* 100 / minEventHeightPct: 50
    DefaultStart, DefaultEnd     \* 6 and 22

Hours == 0 .. HoursPerDay - 1
DayLength == HoursPerDay * HourLength
Minutes == 0 .. DayLength - 1

ASSUME LengthsAreGiven ==
    HoursPerDay \in Nat \ {0} /\ HourLength \in Nat \ {0} /\ Parts \in Nat \ {0}
ASSUME DefaultIsARange ==
    DefaultStart \in Hours /\ DefaultEnd \in Hours /\ DefaultStart < DefaultEnd

Grids == [full : BOOLEAN, start : Hours, end : Hours]

(* resolveGridRange: hours that make no range are not shown.               *)
Resolve(start, end) ==
    IF start < end THEN [start |-> start, end |-> end]
    ELSE [start |-> DefaultStart, end |-> DefaultEnd]

(* gridRangeMinutes, of the hours that resolveGridRange let through.       *)
RangeStart(grid) ==
    IF grid.full THEN 0 ELSE Resolve(grid.start, grid.end).start * HourLength
RangeEnd(grid) ==
    IF grid.full THEN DayLength ELSE Resolve(grid.start, grid.end).end * HourLength
Span(grid) == RangeEnd(grid) - RangeStart(grid)

(* Mutant of Clamp: only what begins too early is moved.                   *)
ClampLow(v, lo, hi) == IF v < lo THEN lo ELSE v

Clamp(v, lo, hi) == IF v < lo THEN lo ELSE IF v > hi THEN hi ELSE v

(* An event that does not end after it starts, on the clock's face, gets   *)
(* half an hour.                                                           *)
ShownEnd(start, end) == IF end <= start THEN start + HourLength \div 2 ELSE end

(* Where a minute of the day is on the grid, and how long the grid is.     *)
OnGrid(v, grid) ==
    (Clamp(v, RangeStart(grid), RangeEnd(grid)) - RangeStart(grid)) * Parts
GridLength(grid) == Span(grid) * Parts

(* minEventHeightPct: what no block is drawn shorter than.                 *)
LeastHeight(grid) == Span(grid)

Top(start, grid) == OnGrid(start, grid)
Height(start, end, grid) == OnGrid(ShownEnd(start, end), grid) - Top(start, grid)
Bottom(start, end, grid) ==
    Top(start, grid) + IF Height(start, end, grid) < LeastHeight(grid)
                       THEN LeastHeight(grid) ELSE Height(start, end, grid)

(* An hour's label stands where an event that starts then has its top.     *)
HourLabels(grid) ==
    {h \in Hours : RangeStart(grid) <= h * HourLength /\ h * HourLength < RangeEnd(grid)}
LabelTop(h, grid) == (h - RangeStart(grid) \div HourLength) * HourLength * Parts
=============================================================================
