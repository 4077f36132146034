------------------------------ MODULE Weather ------------------------------
(***************************************************************************)
(* The forecast on the kiosk: the cache the pages read (weather.Cache),    *)
(* the scheduler's periodic refresh, the refresh a saved place starts      *)
(* (refreshWeatherAsync) and the place WEATHER_LOCATION seeds at a start   *)
(* (BootstrapWeatherLocation), over the settings that SettingsForm saves.  *)
(*                                                                         *)
(* A refresh reads latitude, longitude and units one after the other, asks *)
(* the forecast service and sets the cache: several run at once, with      *)
(* forms between their reads, and may end in any order.  The cache is      *)
(* lost with the process.  A forecast is known by what it was asked for.   *)
(*                                                                         *)
(* Bound: MaxMishaps; one is a stop of the process, a failure of the       *)
(* database or of the geocoder, an answer the forecast service denies, or  *)
(* the time-out of a refresh.                                              *)
(***************************************************************************)
EXTENDS SettingsForm

CONSTANTS
    Seed,            \* what the environment gives: [place, units], or Nothing
    MaxMishaps

Ticker == 0
Seeder == MaxRequests + 1
Workers == Requests \cup {Ticker, Seeder}

ASSUME SeedIsGiven ==
    Seed # Nothing => Seed \in [place : Places, units : {Imperial, Metric}]
ASSUME MishapsAreCounted == MaxMishaps \in Nat

VARIABLES
    server,          \* "down", "starting", "serving"
    seeding,         \* what BootstrapWeatherLocation has still to set
    fetch,           \* the refreshes under way
    forecast,        \* the cache: what it was asked for, or Nothing
    left             \* the mishaps to come

weatherVars == <<formVars, server, seeding, fetch, forecast, left>>

NoFetch == [w \in Workers |-> Nothing]

WeatherInit ==
    /\ FormInit
    /\ server = "down" /\ seeding = <<>>
    /\ fetch = NoFetch /\ forecast = Nothing
    /\ left = MaxMishaps

Mishap == left > 0 /\ left' = left - 1

-----------------------------------------------------------------------------
(* LoadLocation's ok.                                                      *)
PlaceConfigured == saved.lat # Blank /\ saved.lon # Blank

(* Mutant of SeedWanted: seeded at every start, as calendars.json is.      *)
SeedAlways == Seed # Nothing

SeedWanted == Seed # Nothing /\ ~PlaceConfigured

(* main runs the bootstrap before the scheduler and the HTTP server.       *)
Start ==
    /\ server = "down"
    /\ server' = "starting"
    /\ seeding' = IF SeedWanted THEN <<"name", "lat", "lon", "units">>
                  ELSE <<>>
    /\ UNCHANGED <<formVars, fetch, forecast, left>>

SeedValue(setting) == IF setting = "units" THEN Seed.units ELSE Seed.place

SeedStep ==
    /\ server = "starting" /\ seeding # <<>>
    /\ seeding' = Tail(seeding)
    /\ saved' = [saved EXCEPT ![Head(seeding)] = SeedValue(Head(seeding))]
    /\ fetch' = IF Head(seeding) = "units" THEN [fetch EXCEPT ![Seeder] = <<>>]
                ELSE fetch
    /\ UNCHANGED <<form, split, server, forecast, left>>

SeedHalfWay == seeding # <<>> /\ Head(seeding) \in {"lat", "lon"}

SeedFails ==
    /\ server = "starting" /\ seeding # <<>>
    /\ Mishap
    /\ seeding' = <<>>
    /\ split' = (split \/ SeedHalfWay)
    /\ UNCHANGED <<saved, form, server, fetch, forecast>>

Serve ==
    /\ server = "starting" /\ seeding = <<>>
    /\ server' = "serving"
    /\ UNCHANGED <<formVars, seeding, fetch, forecast, left>>

Stop ==
    /\ server # "down"
    /\ Mishap
    /\ server' = "down"
    /\ seeding' = <<>>
    /\ fetch' = NoFetch /\ forecast' = Nothing
    /\ form' = [r \in Requests |-> IF Running(r) THEN Nothing ELSE form[r]]
    /\ split' = (split \/ SeedHalfWay \/ \E r \in Requests : HalfWay(r))
    /\ UNCHANGED saved

-----------------------------------------------------------------------------
Submit(r, f) ==
    /\ server = "serving"
    /\ Post(r, f)
    /\ UNCHANGED <<server, seeding, fetch, forecast, left>>

(* A form that has saved a place starts a refresh and answers.             *)
UpdateSettings(r) ==
    /\ FormStep(r)
    /\ fetch' = IF At(r, "lon") THEN [fetch EXCEPT ![r] = <<>>] ELSE fetch
    /\ UNCHANGED <<server, seeding, forecast, left>>

UpdateFails(r) ==
    /\ FormFails(r)
    /\ Mishap
    /\ UNCHANGED <<server, seeding, fetch, forecast>>

-----------------------------------------------------------------------------
(* Mutant of Tick: only while there is no forecast.                        *)
TickIfEmpty ==
    /\ server = "serving" /\ fetch[Ticker] = Nothing /\ forecast = Nothing
    /\ fetch' = [fetch EXCEPT ![Ticker] = <<saved.lat>>]
    /\ UNCHANGED <<formVars, server, seeding, forecast, left>>

(* runWeatherRefresh: at once, then at every interval, with the first Get. *)
(* A refresh under way makes the ticker wait.                              *)
Tick ==
    /\ server = "serving" /\ fetch[Ticker] = Nothing
    /\ fetch' = [fetch EXCEPT ![Ticker] = <<saved.lat>>]
    /\ UNCHANGED <<formVars, server, seeding, forecast, left>>

(* LoadLocation's Gets, one at a time, in this order.                      *)
ToRead == <<"lat", "lon", "units">>

(* The pair is looked at after both Gets: a blank one ends the refresh.    *)
Read(w) ==
    /\ fetch[w] # Nothing /\ Len(fetch[w]) < Len(ToRead)
    /\ fetch' = [fetch EXCEPT ![w] =
                   IF Len(@) = 2 /\ Blank \in {@[1], @[2]} THEN Nothing
                   ELSE Append(@, saved[ToRead[Len(@) + 1]])]
    /\ UNCHANGED <<formVars, server, seeding, forecast, left>>

Answer(w) ==
    /\ fetch[w] # Nothing /\ Len(fetch[w]) = Len(ToRead)
    /\ forecast' = [lat |-> fetch[w][1], lon |-> fetch[w][2], units |-> fetch[w][3]]
    /\ fetch' = [fetch EXCEPT ![w] = Nothing]
    /\ UNCHANGED <<formVars, server, seeding, left>>

(* An error in a Get or from the service, or 30 seconds: the cache stays.  *)
NoAnswer(w) ==
    /\ fetch[w] # Nothing
    /\ Mishap
    /\ fetch' = [fetch EXCEPT ![w] = Nothing]
    /\ UNCHANGED <<formVars, server, seeding, forecast>>

-----------------------------------------------------------------------------
WeatherNext ==
    \/ Start \/ SeedStep \/ SeedFails \/ Serve \/ Stop
    \/ \E r \in Requests : \/ \E f \in Posted : Submit(r, f)
                           \/ UpdateSettings(r) \/ UpdateFails(r)
    \/ Tick
    \/ \E w \in Workers : Read(w) \/ Answer(w) \/ NoAnswer(w)

(* The process manager restarts the server, a start and a request run to   *)
(* their end, the ticker fires and a refresh ends; nobody has to post.     *)
Fairness ==
    /\ WF_weatherVars(Start) /\ WF_weatherVars(SeedStep) /\ WF_weatherVars(Serve) /\ WF_weatherVars(Tick)
    /\ \A r \in Requests : WF_weatherVars(UpdateSettings(r))
    /\ \A w \in Workers : WF_weatherVars(Read(w)) /\ WF_weatherVars(Answer(w))

WeatherSpec == WeatherInit /\ [][WeatherNext]_weatherVars /\ Fairness

-----------------------------------------------------------------------------
(* The hours make a range and the coordinates are those of one place,      *)
(* unless two forms overlapped or a form or a seed was cut off between the *)
(* two halves of a pair: no refusal, in whatever order the fields are      *)
(* looked at, and no restart leaves them torn.                             *)
PairsAreWhole ==
    ~split /\ ~SeedHalfWay /\ ~(\E r \in Requests : HalfWay(r)) =>
        saved.start < saved.end /\ saved.lat = saved.lon /\ saved.name = saved.lat

(* Reads of half a form, refreshes that end in another order than they     *)
(* began, units changed by a form that names no place (it starts no        *)
(* refresh), a start and a service that fails: in the end the kiosk shows  *)
(* the forecast of the place and the units that are saved, and keeps it.   *)
ForecastConverges ==
    <>[](PlaceConfigured =>
           forecast = [lat |-> saved.lat, lon |-> saved.lon, units |-> saved.units])

(* "A location that's already configured is left untouched": at no start,  *)
(* however broken off the ones before, does the environment's place take   *)
(* the place of one that is complete.                                      *)
SeedKeepsChoice ==
    [][server = "starting" /\ PlaceConfigured =>
         saved'.lat = saved.lat /\ saved'.lon = saved.lon]_weatherVars
=============================================================================
