---------------------------- MODULE SettingsForm ----------------------------
(***************************************************************************)
(* The settings card of the dashboard (UpdateSettings, parent.go) over the *)
(* key/value table of SettingsStore.  A form's fields are looked at one    *)
(* after the other; each is saved, by a statement of its own, before the   *)
(* next is looked at, so that a field refused, an error or a stop leaves   *)
(* the ones before it saved.  Two forms can be under way at once.          *)
(*                                                                         *)
(* The settings here are those that only mean something together: the two  *)
(* hours of the kiosk's week grid, and the place the weather is for, with  *)
(* its units.  Title, time zone, layout and grid mode are saved the same   *)
(* way before them, each by itself; the schedule of the weekly report is   *)
(* in WeeklyReport.  The zoom is only kept as the refusal it can be.       *)
(*                                                                         *)
(* Requests are numbered as they come.  The geocoder answers or does not.  *)
(***************************************************************************)
EXTENDS WeekGrid, Sequences

CONSTANTS
    MaxRequests,     \* posts of the form
    Posted,          \* the forms they may hold
    Places,          \* what a location query can be found to be
    Imperial, Metric,
    Blank,           \* a field left empty; a setting with no row
    Bad,             \* a field that is refused
    Unsent, Nothing

Requests == 1 .. MaxRequests
Form == [start : Hours \cup {Blank, Bad}, end : Hours \cup {Blank, Bad},
         units : {Imperial, Metric}, zoom : {Blank, Bad},
         place : Places \cup {Blank}]

(* A request under way: what it has still to go through, the first hour    *)
(* read, and what it is to save.                                           *)
Stages == {"readStart", "readEnd", "start", "end", "units", "zoom", "name", "lat", "lon"}
Underway == [todo : Seq(Stages), seen : Hours,
             start : Hours \cup {Blank, Bad}, end : Hours \cup {Blank, Bad},
             units : {Imperial, Metric}, name : Places \cup {Blank},
             lat : Places \cup {Blank}, lon : Places \cup {Blank}]

ASSUME FormsAreGiven ==
    MaxRequests \in Nat /\ Posted \subseteq Form
ASSUME MarksAreNew ==
    /\ {Blank, Bad} \cap Places = {} /\ Blank # Bad
    /\ Unsent # Nothing /\ Unsent \notin Underway /\ Nothing \notin Underway

VARIABLES
    saved,           \* the rows of hhq_settings
    form,            \* per request: Unsent, what is still to do, or Nothing
    split            \* a pair of settings may have been saved in halves

formVars == <<saved, form, split>>

FormInit ==
    /\ saved = [start |-> DefaultStart, end |-> DefaultEnd, units |-> Imperial,
                name |-> Blank, lat |-> Blank, lon |-> Blank]
    /\ form = [r \in Requests |-> Unsent]
    /\ split = FALSE

-----------------------------------------------------------------------------
(* What a form has to go through, in the order of the code.                *)
Steps(f) ==
    (IF f.start = Blank /\ f.end = Blank THEN <<>>
     ELSE <<"readStart", "readEnd", "start", "end">>)
    \o <<"units">>
    \o (IF f.zoom = Blank THEN <<>> ELSE <<"zoom">>)
    \o (IF f.place = Blank THEN <<>> ELSE <<"name", "lat", "lon">>)

Running(r) == form[r] \notin {Unsent, Nothing}
At(r, step) == Running(r) /\ Head(form[r].todo) = step

(* A stop or an error here leaves half of a pair saved.                    *)
HalfWay(r) == \E step \in {"end", "lat", "lon"} : At(r, step)

Post(r, f) ==
    /\ form[r] = Unsent
    /\ \A q \in Requests : q < r => form[q] # Unsent
    /\ form' = [form EXCEPT ![r] =
                  [todo |-> Steps(f), seen |-> 0, start |-> f.start, end |-> f.end,
                   units |-> f.units, name |-> f.place, lat |-> f.place,
                   lon |-> f.place]]
    /\ split' = (split \/ \E q \in Requests : Running(q))
    /\ UNCHANGED saved

Refuse(r) == form' = [form EXCEPT ![r] = Nothing]
Proceed(r, now) ==
    form' = [form EXCEPT ![r] =
               IF Len(now.todo) = 1 THEN Nothing ELSE [now EXCEPT !.todo = Tail(@)]]

(* loadWeekGridConfig reads the two hours one after the other ...          *)
ReadStart(r) ==
    /\ At(r, "readStart")
    /\ Proceed(r, [form[r] EXCEPT !.seen = saved.start])
    /\ UNCHANGED <<saved, split>>

(* Mutant of Fits: any two hours of a day.                                 *)
FitsAnyhow(start, end) == {start, end} \subseteq Hours

Fits(start, end) == {start, end} \subseteq Hours /\ start < end

(* ... what it makes of them stands for the hour the form leaves blank,    *)
(* and both are saved if they make a range.                                *)
ReadEnd(r) ==
    LET current == Resolve(form[r].seen, saved.end)
        Or(field, value) == IF field = Blank THEN value ELSE field
        now == [form[r] EXCEPT !.start = Or(@, current.start),
                               !.end = Or(@, current.end)]
    IN /\ At(r, "readEnd")
       /\ IF Fits(now.start, now.end) THEN Proceed(r, now) ELSE Refuse(r)
       /\ UNCHANGED <<saved, split>>

Save(r) ==
    \E setting \in {"start", "end", "units", "name", "lat", "lon"} :
        /\ At(r, setting)
        /\ saved' = [saved EXCEPT ![setting] = form[r][setting]]
        /\ Proceed(r, form[r])
        /\ UNCHANGED split

RefuseZoom(r) ==
    /\ At(r, "zoom")
    /\ Refuse(r)
    /\ UNCHANGED <<saved, split>>

(* The place is not found, or a statement fails.                           *)
FormFails(r) ==
    /\ Running(r)
    /\ Refuse(r)
    /\ split' = (split \/ HalfWay(r))
    /\ UNCHANGED saved

FormStep(r) == ReadStart(r) \/ ReadEnd(r) \/ Save(r) \/ RefuseZoom(r)
=============================================================================
