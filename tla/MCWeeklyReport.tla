--------------------------- MODULE MCWeeklyReport ---------------------------
(* Weeks of three days, days of three hours, hours of two slots: the first *)
(* three weeks can be disturbed in every way, the others show what follows.*)
EXTENDS WeeklyReport
MCDefault == [weekday |-> 0, hour |-> 1]
MCPosted == {[weekday |-> 2, hour |-> 2], [weekday |-> 2, hour |-> Bad],
             [weekday |-> Blank, hour |-> 0], [weekday |-> Bad, hour |-> 0]}
=============================================================================
