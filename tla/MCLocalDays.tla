---------------------------- MODULE MCLocalDays ----------------------------
(* Days of four hours of two steps; households at Greenwich and a quarter  *)
(* of a day west and east of it.  Two events: in the first hour of a day,  *)
(* in its last, across a midnight, and one that lasts for a day.           *)
EXTENDS LocalDays
MCZones == {-2, 0, 2}
MCWest == {-2}
MCTimes == {[starts |-> 8, ends |-> 9], [starts |-> 13, ends |-> 15],
            [starts |-> 14, ends |-> 17], [starts |-> 17, ends |-> 25]}
MCConfigured ==
    {[full |-> TRUE, start |-> 1, end |-> 3], [full |-> FALSE, start |-> 0, end |-> 2],
     [full |-> FALSE, start |-> 2, end |-> 3], [full |-> FALSE, start |-> 3, end |-> 0]}
=============================================================================
