----------------------------- MODULE MCWeather -----------------------------
(* Two requests of two browsers, which can overlap.  One form moves the    *)
(* grid's start, one its end, the latter refused once its units are saved, *)
(* and one names a place that is not the seed's.                           *)
EXTENDS Weather
MCForm(start, end, units, zoom, place) ==
    [start |-> start, end |-> end, units |-> units, zoom |-> zoom, place |-> place]
MCPosted == {MCForm(20, Blank, Metric, Blank, Blank),
             MCForm(Blank, 10, Imperial, Bad, Blank),
             MCForm(Blank, Blank, Imperial, Blank, "ulm")}
MCSeed == [place |-> "york", units |-> Metric]
=============================================================================
