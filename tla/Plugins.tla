------------------------------ MODULE Plugins -------------------------------
(***************************************************************************)
(* hhq and one plugin process that provides calendar events: its row is    *)
(* reconciled with plugins.json at startup, hhq registers with it for a    *)
(* token, provisions a calendar of its own for it and keeps the cached     *)
(* events of that calendar in step with what the plugin serves             *)
(* (internal/handlers/plugin_bootstrap.go, plugin_auth.go and plugins.go,  *)
(* internal/plugins/sync.go and register.go, internal/models/plugin.go).   *)
(*                                                                         *)
(* Three goroutines may call the plugin at once: "reg", which registers    *)
(* at startup and every 15 s until it succeeds, "sched", the scheduler's   *)
(* pass, and "hand", a request from the kiosk or the dashboard.  Every     *)
(* statement of the database and every call of the plugin is a step, and   *)
(* hhq may crash between any two.  Plugins share no state with each other. *)
(***************************************************************************)
EXTENDS Naturals, FiniteSets

CONSTANTS
    Events,       \* events the plugin may serve
    Steady,       \* one it always serves
    Accounts,     \* ids of the synthetic calendar accounts, and their calendars
    None,
    Configs,      \* what plugins.json may say of it: "no" (nothing), "off", "on"
    MaxMishaps,   \* bound: crashes, outages, lost answers, database errors
    MaxEdits,     \* bound: changes of events, of the configuration, toggles
    MaxTaps       \* bound: requests of the kiosk and the dashboard

ASSUME SteadyIsAnEvent == Steady \in Events
ASSUME NoneIsNew == None \notin Accounts \cup Events \cup {"live", "stale"}
ASSUME ConfigsAreKnown == Configs \subseteq {"no", "off", "on"}

Workers == {"reg", "sched", "hand"}

VARIABLES
    listed,    \* the entry of plugins.json
    hhq,       \* "down", "booting" (no scheduler or server yet) or "up"
    row,       \* the row of hhq_plugins
    account,   \* account[a]: "free" (no row), "bare" (no calendar) or "full"
    cache,     \* cache[a]: cached events of the calendar of account a
    plugin,    \* the plugin process: up, the events it serves
    job,       \* job[w]: where goroutine w is
    sweep,     \* the clean-up of orphaned calendars
    mishaps, edits, taps

vars == <<listed, hhq, row, account, cache, plugin, job, sweep, mishaps, edits, taps>>
calendars == <<account, cache>>
budget == <<mishaps, edits, taps>>

-----------------------------------------------------------------------------
NoRow == [known |-> FALSE, enabled |-> FALSE, token |-> None,
          provides |-> FALSE, healthy |-> FALSE, calendar |-> None]
NewRow(on) == [NoRow EXCEPT !.known = TRUE, !.enabled = on]

(* stored: the token of the row as read; token: the one now presented;     *)
(* retried: this call has had its one re-registration; got: the answer;    *)
(* todo: what of it is still to be stored; seen: what was stored.          *)
Idle == [pc |-> "idle", what |-> "nothing", stored |-> None, token |-> None,
         retried |-> FALSE, cal |-> None, event |-> None,
         got |-> {}, todo |-> {}, seen |-> {}]
At(pc) == [Idle EXCEPT !.pc = pc]
Calling(what, event) ==
    [Idle EXCEPT !.pc = "call", !.what = what, !.event = event,
                 !.stored = IF what = "action" THEN row.token ELSE None,
                 !.token = row.token, !.cal = row.calendar]

(* todo: accounts listed and not yet looked at; doomed: one to be deleted. *)
(* History: blind, the owner of the doomed one could not be found when it  *)
(* was looked for; hit, a recorded calendar was deleted; left, calendars   *)
(* without an owner that this process will not look at again.              *)
NoSweep == [pc |-> "off", todo |-> {}, doomed |-> None,
            blind |-> FALSE, hit |-> FALSE, left |-> {}]

(* A token is only ever compared with the plugin's own: it is "live", the   *)
(* one the plugin accepts, or "stale", for good.  When the plugin issues   *)
(* one or loses its own, every token held turns stale.                     *)
Outdated(t) == IF t = "live" THEN "stale" ELSE t
RowOutdated == [row EXCEPT !.token = Outdated(@)]
JobOutdated == [w \in Workers |-> [job[w] EXCEPT !.token = Outdated(@),
                                                !.stored = Outdated(@)]]

(* Ids are never used twice (bound: while there are any left).             *)
IsFresh(a) ==
    /\ account[a] = "free"
    /\ \A w \in Workers : a # job[w].cal
    /\ a \notin sweep.todo \cup {sweep.doomed}
FreshAccount == CHOOSE a \in Accounts : IsFresh(a)

Init ==
    /\ listed \in Configs
    /\ hhq = "down"
    /\ row = NoRow
    /\ account = [a \in Accounts |-> "free"]
    /\ cache = [a \in Accounts |-> {}]
    /\ plugin = [up |-> FALSE, serves |-> {Steady}]
    /\ job = [w \in Workers |-> Idle]
    /\ sweep = NoSweep
    /\ mishaps = 0
    /\ edits = 0
    /\ taps = 0

Mishap ==
    /\ mishaps < MaxMishaps
    /\ mishaps' = mishaps + 1
    /\ UNCHANGED <<edits, taps>>

-----------------------------------------------------------------------------
(* BootstrapPlugins makes the row follow plugins.json; the stored token    *)
(* survives an update and goes with a deleted row, the calendar does not.  *)
Reconciled ==
    IF listed = "no" THEN NoRow
    ELSE IF row.known THEN [row EXCEPT !.enabled = (listed = "on")]
    ELSE NewRow(listed = "on")

Boot ==
    /\ hhq = "down"
    /\ row' = Reconciled
    /\ IF listed = "on"
       THEN hhq' = "booting" /\ job' = [job EXCEPT !["reg"] = At("wait")]
       ELSE hhq' = "up" /\ UNCHANGED job
    /\ sweep' = [NoSweep EXCEPT !.pc = "due"]
    /\ UNCHANGED <<listed, calendars, plugin, budget>>

(* tryRegisterAndRefresh, at startup and on every tick of the retry.       *)
Attempt ==
    /\ job["reg"].pc = "wait"
    /\ job' = [job EXCEPT !["reg"] =
                 [Calling("manifest", None) EXCEPT
                    !.pc = IF row.token = None THEN "register" ELSE "call"]]
    /\ UNCHANGED <<listed, hhq, row, calendars, plugin, sweep, budget>>

(* Mutant of AfterFailure: the first failed attempt is the last one.       *)
AfterFailureStop(w) == IF w = "reg" THEN At("done") ELSE Idle

(* A failed attempt is retried until the manifest was fetched and the      *)
(* calendar provisioned; what becomes of the first sync does not matter.   *)
AfterFailure(w) ==
    IF w # "reg" THEN Idle
    ELSE IF job[w].what = "events" THEN At("done") ELSE At("wait")

(* The first attempt is made before the server and the scheduler start.    *)
Started == IF hhq = "booting" THEN "up" ELSE hhq

Fail(w) ==
    /\ job' = [job EXCEPT ![w] = AfterFailure(w)]
    /\ hhq' = Started
    /\ UNCHANGED <<listed, row, calendars, plugin, sweep>>

-----------------------------------------------------------------------------
(* The goroutines that begin with a call of the plugin.                    *)
SyncPass ==
    /\ hhq = "up" /\ job["sched"] = Idle
    /\ row.enabled /\ row.provides /\ row.calendar # None
    /\ job' = [job EXCEPT !["sched"] = Calling("events", None)]
    /\ UNCHANGED <<listed, hhq, row, calendars, plugin, sweep, budget>>

Tap(what, event) ==
    /\ hhq = "up" /\ job["hand"] = Idle
    /\ row.known /\ row.token # None
    /\ taps < MaxTaps
    /\ taps' = taps + 1
    /\ job' = [job EXCEPT !["hand"] = Calling(what, event)]
    /\ UNCHANGED <<listed, hhq, row, calendars, plugin, sweep, mishaps, edits>>

KioskPluginView == row.enabled /\ Tap("view", None)

KioskEventAction(e) ==
    /\ row.calendar # None /\ e \in cache[row.calendar]
    /\ Tap("action", e)

ResyncCalendarAccount ==
    /\ row.calendar # None
    /\ Tap("events", None)

TogglePlugin ==
    /\ hhq = "up" /\ row.known
    /\ edits < MaxEdits
    /\ edits' = edits + 1
    /\ row' = [row EXCEPT !.enabled = ~@]
    /\ UNCHANGED <<listed, hhq, calendars, plugin, job, sweep, mishaps, taps>>

-----------------------------------------------------------------------------
(* One call: refused when the plugin is down, rejected (403) when the      *)
(* token is not the plugin's, answered otherwise.                          *)
Reaches(w, pc) == job[w].pc = pc /\ plugin.up

(* Mutant of Refused: a refused fetch of events counts as an empty answer. *)
RefusedAsEmpty(w) ==
    /\ job[w].pc \in {"call", "register"} /\ ~plugin.up
    /\ job' = [job EXCEPT ![w] = IF @.what = "events" THEN [@ EXCEPT !.pc = "write"]
                                 ELSE AfterFailure(w)]
    /\ hhq' = Started
    /\ UNCHANGED <<listed, row, calendars, plugin, sweep, budget>>

Refused(w) ==
    /\ job[w].pc \in {"call", "register"} /\ ~plugin.up
    /\ Fail(w)
    /\ UNCHANGED budget

Rejected(w) ==
    /\ Reaches(w, "call") /\ job[w].token # "live"
    /\ IF job[w].retried
       THEN Fail(w)
       ELSE /\ job' = [job EXCEPT ![w].pc = "register", ![w].retried = TRUE]
            /\ UNCHANGED <<listed, hhq, row, calendars, plugin, sweep>>
    /\ UNCHANGED budget

(* POST /register: the plugin forgets the token it had issued before.      *)
Register(w) ==
    /\ Reaches(w, "register")
    /\ row' = RowOutdated
    /\ job' = [JobOutdated EXCEPT ![w].pc = "store", ![w].token = "live"]
    /\ UNCHANGED <<listed, hhq, calendars, plugin, sweep, budget>>

(* Mutant of SetToken: the fresh token is used but not stored.             *)
SetTokenNot(w) ==
    /\ job[w].pc = "store"
    /\ job' = [job EXCEPT ![w].pc = "call"]
    /\ UNCHANGED <<listed, hhq, row, calendars, plugin, sweep, budget>>

SetToken(w) ==
    /\ job[w].pc = "store"
    /\ row' = [row EXCEPT !.token = job[w].token]
    /\ job' = [job EXCEPT ![w].pc = "call"]
    /\ UNCHANGED <<listed, hhq, calendars, plugin, sweep, budget>>

Withdrawn(e) == [plugin EXCEPT !.serves = @ \ ({e} \ {Steady})]

(* The answer of the plugin and what the caller does with it.  An action   *)
(* withdraws its event, and is followed by a sync with the row as it was   *)
(* read before the action.                                                 *)
Answered(w) ==
    /\ Reaches(w, "call") /\ job[w].token = "live"
    /\ \/ /\ job[w].what = "manifest"
          /\ row' = [row EXCEPT !.provides = TRUE, !.healthy = TRUE]
          /\ job' = [job EXCEPT ![w] = At("provision")]
          /\ UNCHANGED plugin
       \/ /\ job[w].what = "events"
          /\ job' = [job EXCEPT ![w].pc = "write", ![w].got = plugin.serves,
                                ![w].todo = plugin.serves]
          /\ UNCHANGED <<row, plugin>>
       \/ /\ job[w].what = "view"
          /\ row' = [row EXCEPT !.healthy = TRUE]
          /\ job' = [job EXCEPT ![w] = Idle]
          /\ UNCHANGED plugin
       \/ /\ job[w].what = "action"
          /\ plugin' = Withdrawn(job[w].event)
          /\ job' = [job EXCEPT ![w].what = "events", ![w].event = None,
                                ![w].token = job[w].stored, ![w].stored = None,
                                ![w].retried = FALSE]
          /\ UNCHANGED row
    /\ UNCHANGED <<listed, hhq, calendars, sweep, budget>>

(* The plugin did what it was asked, and its answer is lost.               *)
AnswerLost(w) ==
    /\ Mishap
    /\ hhq' = Started
    /\ \/ /\ Reaches(w, "register")
          /\ row' = RowOutdated
          /\ job' = [JobOutdated EXCEPT ![w] = AfterFailure(w)]
          /\ UNCHANGED plugin
       \/ /\ Reaches(w, "call") /\ job[w].token = "live"
          /\ job[w].what = "action"
          /\ plugin' = Withdrawn(job[w].event)
          /\ job' = [job EXCEPT ![w] = AfterFailure(w)]
          /\ UNCHANGED row
    /\ UNCHANGED <<listed, calendars, sweep>>

-----------------------------------------------------------------------------
(* Mutant of CreateAccount: the calendar's id is recorded ahead of it.      *)
CreateAccountRecorded ==
    /\ job["reg"].pc = "provision"
    /\ IF row.calendar # None
       THEN job' = [job EXCEPT !["reg"].pc = "load"] /\ UNCHANGED <<row, account>>
       ELSE /\ account' = [account EXCEPT ![FreshAccount] = "bare"]
            /\ row' = [row EXCEPT !.calendar = FreshAccount]
            /\ job' = [job EXCEPT !["reg"].pc = "discover", !["reg"].cal = FreshAccount]
    /\ UNCHANGED <<listed, hhq, cache, plugin, sweep, budget>>

(* ensurePluginCalendar: an account, its calendar, and the calendar's id   *)
(* recorded in the row, unless one is recorded already.                    *)
CreateAccount ==
    /\ job["reg"].pc = "provision"
    /\ IF row.calendar # None
       THEN job' = [job EXCEPT !["reg"].pc = "load"] /\ UNCHANGED account
       ELSE /\ \E a \in Accounts : IsFresh(a)
            /\ account' = [account EXCEPT ![FreshAccount] = "bare"]
            /\ job' = [job EXCEPT !["reg"].pc = "discover", !["reg"].cal = FreshAccount]
    /\ UNCHANGED <<listed, hhq, row, cache, plugin, sweep, budget>>

CreateCalendar ==
    /\ job["reg"].pc = "discover"
    /\ account' = [account EXCEPT ![job["reg"].cal] = "full"]
    /\ job' = [job EXCEPT !["reg"].pc = "record"]
    /\ UNCHANGED <<listed, hhq, row, cache, plugin, sweep, budget>>

(* The foreign key refuses a calendar removed in between.                  *)
SetCalendarID ==
    /\ job["reg"].pc = "record"
    /\ IF account[job["reg"].cal] = "full"
       THEN /\ row' = [row EXCEPT !.calendar = job["reg"].cal]
            /\ job' = [job EXCEPT !["reg"] = At("load")]
            /\ UNCHANGED hhq
       ELSE /\ job' = [job EXCEPT !["reg"] = At("wait")]
            /\ hhq' = Started
            /\ UNCHANGED row
    /\ UNCHANGED <<listed, calendars, plugin, sweep, budget>>

(* Any of the statements, or the choice of a colour between them, may end  *)
(* in an error: what was made stays, and the retry begins anew.            *)
ProvisionFails ==
    /\ Mishap
    /\ job["reg"].pc \in {"provision", "discover", "record"}
    /\ job' = [job EXCEPT !["reg"] = At("wait")]
    /\ hhq' = Started
    /\ LET a == job["reg"].cal
           isLeft == /\ job["reg"].pc = "record" /\ sweep.pc = "on"
                     /\ a \notin sweep.todo \cup {sweep.doomed}
       IN sweep' = [sweep EXCEPT !.left = @ \cup IF isLeft THEN {a} ELSE {}]
    /\ UNCHANGED <<listed, row, calendars, plugin>>

(* syncPluginEvents reads the row again for the first sync.                *)
FirstSync ==
    /\ job["reg"].pc = "load"
    /\ job' = [job EXCEPT !["reg"] = Calling("events", None)]
    /\ UNCHANGED <<listed, hhq, row, calendars, plugin, sweep, budget>>

-----------------------------------------------------------------------------
(* SyncOne stores the answer event by event, each with a statement of its  *)
(* own.  An error is passed over, and its event does not count as seen;    *)
(* one is certain where the calendar is gone (the foreign key).            *)
HasCalendar(w) == job[w].cal # None /\ account[job[w].cal] = "full"

(* The events come in the order of the answer (bound: always the same).    *)
IsNext(w, e) ==
    /\ job[w].pc = "write" /\ job[w].todo # {}
    /\ e = CHOOSE first \in job[w].todo : TRUE

Upsert(w, e) ==
    /\ IsNext(w, e)
    /\ IF HasCalendar(w)
       THEN /\ cache' = [cache EXCEPT ![job[w].cal] = @ \cup {e}]
            /\ job' = [job EXCEPT ![w].todo = @ \ {e}, ![w].seen = @ \cup {e}]
       ELSE /\ job' = [job EXCEPT ![w].todo = @ \ {e}]
            /\ UNCHANGED cache
    /\ UNCHANGED <<listed, hhq, row, account, plugin, sweep, budget>>

UpsertFails(w, e) ==
    /\ Mishap
    /\ IsNext(w, e)
    /\ job' = [job EXCEPT ![w].todo = @ \ {e}]
    /\ UNCHANGED <<listed, hhq, row, calendars, plugin, sweep>>

(* At the end everything not seen is pruned, and the plugin marked as      *)
(* healthy whether that succeeded or not.                                  *)
Finished(w) ==
    /\ job[w].pc = "write" /\ job[w].todo = {}
    /\ row' = [row EXCEPT !.healthy = row.known]
    /\ job' = [job EXCEPT ![w] = IF w = "reg" THEN At("done") ELSE Idle]
    /\ hhq' = Started
    /\ UNCHANGED <<listed, account, plugin, sweep>>

PruneStale(w) ==
    /\ Finished(w)
    /\ cache' = [a \in Accounts |-> IF a = job[w].cal THEN cache[a] \cap job[w].seen
                                    ELSE cache[a]]
    /\ UNCHANGED budget

PruneFails(w) ==
    /\ Mishap
    /\ Finished(w)
    /\ UNCHANGED cache

-----------------------------------------------------------------------------
(* CleanupOrphanedPluginCalendars, once, three minutes after startup: of   *)
(* the accounts listed, those with a calendar no plugin that ever answered *)
(* owns.  A provisioning may be under way: the retries go on for longer.   *)
SweepStart ==
    /\ hhq = "up" /\ sweep.pc = "due"
    /\ sweep' = [sweep EXCEPT !.pc = "on", !.todo = {a \in Accounts : account[a] # "free"}]
    /\ UNCHANGED <<listed, hhq, row, calendars, plugin, job, budget>>

(* Mutant of Spared: the calendar of a disabled plugin is not spared.      *)
SparedIfEnabled(a) == account[a] = "bare" \/ (row.calendar = a /\ row.enabled)
(* Mutant of Spared: a calendar whose plugin is not found is left alone.   *)
SparedIfUnknown(a) == account[a] = "bare" \/ row.calendar # a \/ row.healthy

Spared(a) == account[a] = "bare" \/ (row.calendar = a /\ row.healthy)

(* Is it made by a provisioning that has not recorded it yet?              *)
ToBeRecorded(a) == job["reg"].pc \in {"discover", "record"} /\ job["reg"].cal = a

SweepLook(a) ==
    /\ sweep.pc = "on" /\ sweep.doomed = None /\ a \in sweep.todo
    /\ sweep' = [sweep EXCEPT !.todo = @ \ {a}, !.doomed = IF Spared(a) THEN None ELSE a,
                              !.blind = ~Spared(a) /\ ToBeRecorded(a)]
    /\ UNCHANGED <<listed, hhq, row, calendars, plugin, job, budget>>

(* An error of the look-up of the owner is taken for there being none; one *)
(* of the look-up of the calendar, or of the deletion, spares the account. *)
LookFails(a) ==
    /\ Mishap
    /\ sweep.pc = "on" /\ sweep.doomed = None /\ a \in sweep.todo
    /\ account[a] = "full"
    /\ sweep' \in {[sweep EXCEPT !.todo = @ \ {a}, !.doomed = a, !.blind = TRUE],
                   [sweep EXCEPT !.todo = @ \ {a}, !.left = @ \cup {a}]}
    /\ UNCHANGED <<listed, hhq, row, calendars, plugin, job>>

(* The calendar and its events go with the account, and the row's          *)
(* calendar_id is set to NULL.                                             *)
SweepDelete ==
    /\ sweep.doomed # None
    /\ account' = [account EXCEPT ![sweep.doomed] = "free"]
    /\ cache' = [cache EXCEPT ![sweep.doomed] = {}]
    /\ row' = [row EXCEPT !.calendar = IF @ = sweep.doomed THEN None ELSE @]
    /\ sweep' = [sweep EXCEPT !.doomed = None, !.blind = FALSE,
                              !.hit = @ \/ row.calendar = sweep.doomed]
    /\ UNCHANGED <<listed, hhq, plugin, job, budget>>

-----------------------------------------------------------------------------
(* The plugin process, which the repository only talks to, and crashes.    *)
PluginUp ==
    /\ ~plugin.up
    /\ plugin' = [plugin EXCEPT !.up = TRUE]
    /\ UNCHANGED <<listed, hhq, row, calendars, job, sweep, budget>>

(* An outage, or a redeployment that loses the token store.                *)
PluginDown ==
    /\ Mishap
    /\ plugin.up
    /\ plugin' = [plugin EXCEPT !.up = FALSE]
    /\ \/ UNCHANGED <<row, job>>
       \/ row' = RowOutdated /\ job' = JobOutdated
    /\ UNCHANGED <<listed, hhq, calendars, sweep>>

PluginEdits(e) ==
    /\ e # Steady
    /\ edits < MaxEdits
    /\ edits' = edits + 1
    /\ plugin' = [plugin EXCEPT !.serves = IF e \in @ THEN @ \ {e} ELSE @ \cup {e}]
    /\ UNCHANGED <<listed, hhq, row, calendars, job, sweep, mishaps, taps>>

(* The operator edits plugins.json; it is read at the next startup.        *)
Configure(c) ==
    /\ c # listed
    /\ edits < MaxEdits
    /\ edits' = edits + 1
    /\ listed' = c
    /\ UNCHANGED <<hhq, row, calendars, plugin, job, sweep, mishaps, taps>>

Crash ==
    /\ Mishap
    /\ hhq # "down"
    /\ hhq' = "down"
    /\ job' = [w \in Workers |-> Idle]
    /\ sweep' = NoSweep
    /\ UNCHANGED <<listed, row, calendars, plugin>>

-----------------------------------------------------------------------------
Work(w) ==
    \/ Refused(w) \/ Rejected(w) \/ Register(w) \/ SetToken(w)
    \/ Answered(w) \/ (\E e \in Events : Upsert(w, e)) \/ PruneStale(w)

Provision == CreateAccount \/ CreateCalendar \/ SetCalendarID \/ FirstSync

Sweep == SweepStart \/ (\E a \in Accounts : SweepLook(a)) \/ SweepDelete

DatabaseFails ==
    \/ ProvisionFails
    \/ \E w \in Workers : PruneFails(w) \/ \E e \in Events : UpsertFails(w, e)
    \/ \E a \in Accounts : LookFails(a)

Next ==
    \/ Boot \/ Attempt \/ SyncPass \/ Provision \/ Sweep
    \/ \E w \in Workers : Work(w) \/ AnswerLost(w)
    \/ DatabaseFails
    \/ KioskPluginView \/ ResyncCalendarAccount \/ TogglePlugin
    \/ \E e \in Events : KioskEventAction(e) \/ PluginEdits(e)
    \/ PluginUp \/ PluginDown
    \/ \E c \in Configs : Configure(c)
    \/ Crash

(* Goroutines run, tickers tick, the orchestrator restarts what is down.   *)
Fairness ==
    /\ WF_vars(Boot) /\ WF_vars(PluginUp)
    /\ WF_vars(Attempt) /\ WF_vars(SyncPass)
    /\ WF_vars(Provision) /\ WF_vars(Sweep)
    /\ \A w \in Workers : WF_vars(Work(w))

Spec == Init /\ [][Next]_vars /\ Fairness

-----------------------------------------------------------------------------
(* Types, and what the schema's foreign keys promise: the recorded         *)
(* calendar exists, and no event is cached without its calendar.           *)
TypeOK ==
    /\ listed \in Configs
    /\ hhq \in {"down", "booting", "up"}
    /\ row \in [known : BOOLEAN, enabled : BOOLEAN, token : {None, "live", "stale"},
                provides : BOOLEAN, healthy : BOOLEAN, calendar : Accounts \cup {None}]
    /\ account \in [Accounts -> {"free", "bare", "full"}]
    /\ cache \in [Accounts -> SUBSET Events]
    /\ plugin \in [up : BOOLEAN, serves : SUBSET Events]
    /\ \A a \in Accounts : cache[a] # {} => account[a] = "full"
    /\ row.calendar # None => account[row.calendar] = "full"

(* While a plugin keeps its calendar, an event it never withdraws is taken *)
(* from the kiosk by one thing only: a sync that was given the event, and  *)
(* whose own statement for it failed, ends.  Whatever outages, rejections, *)
(* lost answers and overlapping syncs there are, no other prunes it.       *)
SteadyEventsStay ==
    [][\A a \in Accounts :
         row.calendar = a /\ row'.calendar = a /\ Steady \in cache[a] \ cache'[a]
            => \E w \in Workers : /\ job[w].cal = a /\ PruneStale(w)
                                 /\ Steady \in job[w].got \ job[w].seen]_vars

(* A plugin that has ever answered keeps the calendar recorded for it,     *)
(* enabled or not, until it is taken out of plugins.json; unless the       *)
(* clean-up looked for its owner before it was recorded, or in vain.       *)
CalendarIsKept ==
    [][row.healthy /\ row'.known /\ row.calendar # None
         => row'.calendar = row.calendar \/ (sweep.blind /\ sweep.doomed = row.calendar)]_vars

(* Does the plugin take part: it is enabled, and either in plugins.json so *)
(* or set up in an earlier life of the process.  One that lost its         *)
(* calendar to the clean-up does not until the next start.                 *)
Working == row.enabled /\ (listed = "on" \/ row.calendar # None) /\ ~sweep.hit

(* Once outages and edits are over, the token hhq has stored is the one    *)
(* the plugin accepts, however re-registrations, lost answers and crashes  *)
(* fell between the two.                                                   *)
TokensHeal == <>[](Working => row.token = "live")

(* ... the plugin has its calendar, and the kiosk shows what it serves.    *)
EventsConverge ==
    <>[](Working => row.calendar # None /\ cache[row.calendar] = plugin.serves)

(* ... and no calendar is left that no plugin owns, a crash in the middle  *)
(* of a provisioning included, except what an error left behind the        *)
(* clean-up, which is there until the next start.                          *)
OrphansGo ==
    <>[](\A a \in Accounts : account[a] = "full" => row.calendar = a \/ a \in sweep.left)
=============================================================================
