--------------------------- MODULE MCCalendarSync ---------------------------
(* One calendar with an event that can be edited and another one; the      *)
(* scheduler's pass overlaps two on-demand ones.                           *)
EXTENDS CalendarSync
CONSTANTS a, a2, b, u, v
MCUidOf == [i \in Items |-> IF i = b THEN v ELSE u]
=============================================================================
