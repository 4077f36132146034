---------------------------- MODULE CalendarSync ----------------------------
(***************************************************************************)
(* The event cache of one calendar account and the syncs that fill it:     *)
(* the scheduler's periodic pass and the on-demand passes of               *)
(* syncAccountAsync, each its own goroutine, nothing keeping them apart    *)
(* (internal/handlers/sync.go, internal/caldav/caldav.go and google.go,    *)
(* internal/models/calendar.go).  Every statement of the database and      *)
(* every answer of the calendar server is a step.                          *)
(*                                                                         *)
(* An item is one event as the server returns it; an edited event is       *)
(* another item with the same UID.  The cache has one row per UID.         *)
(***************************************************************************)
EXTENDS Naturals, FiniteSets

CONSTANTS
    Cals,         \* the calendars on the server
    Items,        \* events in the window, as fetched
    Uids,         \* their identifiers
    UidOf,        \* the UID of each item
    Recurring,    \* BOOLEAN: occurrences of a series are there together
    Job,          \* the scheduler's goroutine
    Requests,     \* goroutines of syncAccountAsync
    Nothing,      \* no cached event, no calendar
    MaxEdits,     \* bound: what users and the server's owner change
    MaxFailures   \* bound: failures of the network, timeouts, restarts

ASSUME UidOfIsTotal == UidOf \in [Items -> Uids]
ASSUME RecurringIsChosen == Recurring \in BOOLEAN
ASSUME NothingIsNew == Nothing \notin Items \cup Cals
ASSUME JobIsNoRequest == Job \notin Requests
ASSUME BoundsAreNat == {MaxEdits, MaxFailures} \subseteq Nat

Syncs == Requests \cup {Job}

VARIABLES
    account,   \* the account's row: none yet, its provider, or gone again
    calendar,  \* calendar[c]: its row is absent, on (enabled) or off
    cache,     \* cache[c][u]: the cached event with UID u
    server,    \* server[c]: what the calendar server has
    sync,      \* sync[s]: where goroutine s is
    busy,      \* syncStatus.ids holds the account
    edits, failures

vars == <<account, calendar, cache, server, sync, busy, edits, failures>>
database == <<account, calendar, cache>>

-----------------------------------------------------------------------------
(* todo: enabled calendars still to fetch; cal: the one in hand, left the  *)
(* fetched items not stored yet, seen the UIDs of all of them.             *)
Sync == [pc : {"idle", "list", "discover", "next", "store"}, todo : SUBSET Cals,
         cal : Cals \cup {Nothing}, left : SUBSET Items, seen : SUBSET Uids]

At(pc, todo) == [pc |-> pc, todo |-> todo, cal |-> Nothing, left |-> {}, seen |-> {}]
Idle == At("idle", {})

Connected == {"google", "caldav"}

EmptyCache == [c \in Cals |-> [u \in Uids |-> Nothing]]

(* The server holds one item per UID, but for the occurrences of a series. *)
Coherent(items) ==
    Recurring \/ \A i, j \in items : UidOf[i] = UidOf[j] => i = j

Init ==
    /\ account = "none"
    /\ calendar = [c \in Cals |-> "absent"]
    /\ cache = EmptyCache
    /\ server \in {s \in [Cals -> SUBSET Items] : \A c \in Cals : Coherent(s[c])}
    /\ sync = [s \in Syncs |-> Idle]
    /\ busy = FALSE
    /\ edits = 0
    /\ failures = 0

-----------------------------------------------------------------------------
(* syncAccountAsync marks the account busy before its goroutine starts;    *)
(* the scheduler's pass marks nothing.                                     *)
Begin(s) ==
    /\ sync' = [sync EXCEPT ![s] = At("discover", {})]
    /\ busy' = (busy \/ s \in Requests)

(* The periodic pass reaches the account among those it has listed.        *)
SyncAllAccounts ==
    /\ sync[Job] = Idle
    /\ account \in Connected
    /\ Begin(Job)
    /\ UNCHANGED <<database, server, edits, failures>>

(* "Resync Now" does not ask whether the account is still there; saving    *)
(* the edit form does.  That of a Google account saves its name, no more.  *)
ResyncCalendarAccount(s) ==
    /\ sync[s] = Idle
    /\ account # "none"
    /\ Begin(s)
    /\ UNCHANGED <<database, server, edits, failures>>

UpdateCalendarAccount(s) ==
    /\ account = "caldav"
    /\ ResyncCalendarAccount(s)

(* A Google account appears and syncs at once.  Any other has its calendars *)
(* listed in the request first, and syncs whether or not that succeeded.   *)
GoogleConnectCallback(s) ==
    /\ sync[s] = Idle
    /\ account = "none"
    /\ account' = "google"
    /\ Begin(s)
    /\ UNCHANGED <<calendar, cache, server, edits, failures>>

CreateCalendarAccount(s) ==
    /\ sync[s] = Idle
    /\ account = "none"
    /\ account' = "caldav"
    /\ sync' = [sync EXCEPT ![s] = At("list", {})]
    /\ UNCHANGED <<calendar, cache, server, busy, edits, failures>>

(* The goroutine returns: done() takes the account out of the busy set.    *)
Return(s) ==
    /\ sync' = [sync EXCEPT ![s] = Idle]
    /\ busy' = (busy /\ s \notin Requests)

(* Mutant of Discovered: ON CONFLICT sets enabled as well.                 *)
DiscoveredEnabled == [c \in Cals |-> "on"]

(* UpsertDiscovered adds the rows of new calendars, enabled, and leaves    *)
(* known ones as they are.  Without the account its foreign key fails.     *)
Discovered == [c \in Cals |-> IF calendar[c] = "absent" THEN "on" ELSE calendar[c]]

Upserted == IF account \in Connected THEN Discovered ELSE calendar

ListNewAccount(s) ==
    /\ sync[s].pc = "list"
    /\ calendar' = Upserted
    /\ Begin(s)
    /\ UNCHANGED <<account, cache, server, edits, failures>>

Discover(s) ==
    /\ sync[s].pc = "discover"
    /\ account \in Connected
    /\ calendar' = Upserted
    /\ sync' = [sync EXCEPT ![s] = At("next", {c \in Cals : Upserted[c] = "on"})]
    /\ UNCHANGED <<account, cache, server, busy, edits, failures>>

AccountGone(s) ==
    /\ sync[s].pc = "discover"
    /\ account = "gone"
    /\ Return(s)
    /\ UNCHANGED <<database, server, edits, failures>>

(* FetchEventsForCalendar: the answer is what the server holds now.        *)
Fetch(s, c) ==
    /\ sync[s].pc = "next"
    /\ c \in sync[s].todo
    /\ sync' = [sync EXCEPT ![s] =
                  [pc |-> "store", todo |-> @.todo \ {c}, cal |-> c,
                   left |-> server[c], seen |-> {UidOf[i] : i \in server[c]}]]
    /\ UNCHANGED <<database, server, busy, edits, failures>>

(* Mutant of Store: no foreign key on calendar_id.                         *)
StoreUnchecked(s, i) ==
    LET c == sync[s].cal
    IN /\ sync[s].pc = "store"
       /\ i \in sync[s].left
       /\ cache' = [cache EXCEPT ![c][UidOf[i]] = i]
       /\ sync' = [sync EXCEPT ![s].left = @ \ {i}]
       /\ UNCHANGED <<account, calendar, server, busy, edits, failures>>

(* Upsert, keyed by (calendar_id, uid).                                    *)
Store(s, i) ==
    LET c == sync[s].cal
    IN /\ sync[s].pc = "store"
       /\ i \in sync[s].left
       /\ calendar[c] # "absent"
       /\ cache' = [cache EXCEPT ![c][UidOf[i]] = i]
       /\ sync' = [sync EXCEPT ![s].left = @ \ {i}]
       /\ UNCHANGED <<account, calendar, server, busy, edits, failures>>

(* The calendar was deleted meanwhile: Upsert fails, the calendar is given *)
(* up, and so are the others, one by one.                                  *)
CalendarGone(s) ==
    /\ sync[s].pc = "store"
    /\ sync[s].left # {}
    /\ calendar[sync[s].cal] = "absent"
    /\ sync' = [sync EXCEPT ![s] = At("next", @.todo)]
    /\ UNCHANGED <<database, server, busy, edits, failures>>

(* Mutant of Prune: nothing is deleted.                                    *)
PruneNothing(s) ==
    /\ sync[s].pc = "store"
    /\ sync[s].left = {}
    /\ sync' = [sync EXCEPT ![s] = At("next", @.todo)]
    /\ UNCHANGED <<database, server, busy, edits, failures>>

(* PruneStale: rows whose UID was not in the answer are deleted.           *)
Prune(s) ==
    LET c == sync[s].cal
    IN /\ sync[s].pc = "store"
       /\ sync[s].left = {}
       /\ cache' = [cache EXCEPT ![c] =
                      [u \in Uids |-> IF u \in sync[s].seen THEN @[u] ELSE Nothing]]
       /\ sync' = [sync EXCEPT ![s] = At("next", @.todo)]
       /\ UNCHANGED <<account, calendar, server, busy, edits, failures>>

Finish(s) ==
    /\ sync[s].pc = "next"
    /\ sync[s].todo = {}
    /\ Return(s)
    /\ UNCHANGED <<database, server, edits, failures>>

Step(s) ==
    \/ ListNewAccount(s) \/ Discover(s) \/ AccountGone(s) \/ CalendarGone(s)
    \/ Prune(s) \/ Finish(s)
    \/ \E c \in Cals : Fetch(s, c)
    \/ \E i \in Items : Store(s, i)

-----------------------------------------------------------------------------
Failure == failures < MaxFailures /\ failures' = failures + 1

(* Mutant of SkipCalendar: after an error the loop ends and the rest runs. *)
SkipAndPrune(s) ==
    LET c == sync[s].cal
    IN /\ Failure
       /\ sync[s].pc = "store"
       /\ cache' = [cache EXCEPT ![c] = [u \in Uids |->
             IF u \in {UidOf[i] : i \in server[c] \ sync[s].left} THEN @[u] ELSE Nothing]]
       /\ sync' = [sync EXCEPT ![s] = At("next", @.todo)]
       /\ UNCHANGED <<account, calendar, server, busy, edits>>

(* The request for one calendar, or a statement about it, fails: the error *)
(* is recorded on the calendar and the next one is tried.                  *)
SkipCalendar(s) ==
    /\ Failure
    /\ \/ /\ sync[s].pc = "store"
          /\ sync' = [sync EXCEPT ![s] = At("next", @.todo)]
       \/ /\ sync[s].pc = "next"
          /\ \E c \in sync[s].todo : sync' = [sync EXCEPT ![s].todo = @ \ {c}]
    /\ UNCHANGED <<database, server, busy, edits>>

FailToList(s) ==
    /\ Failure
    /\ sync[s].pc = "list"
    /\ Begin(s)
    /\ UNCHANGED <<database, server, edits>>

(* Mutant of GiveUp: an early return without done().                       *)
GiveUpBusy(s) ==
    /\ sync[s].pc \notin {"idle", "list"}
    /\ Failure
    /\ sync' = [sync EXCEPT ![s] = Idle]
    /\ UNCHANGED <<database, server, busy, edits>>

(* Discovery fails, or the 60 s are over and all that follows fails.       *)
GiveUp(s) ==
    /\ sync[s].pc \notin {"idle", "list"}
    /\ Failure
    /\ Return(s)
    /\ UNCHANGED <<database, server, edits>>

Restart ==
    /\ Failure
    /\ sync' = [s \in Syncs |-> Idle]
    /\ busy' = FALSE
    /\ UNCHANGED <<database, server, edits>>

Edit == edits < MaxEdits /\ edits' = edits + 1

EditOnServer(c, items) ==
    /\ Edit
    /\ Coherent(items)
    /\ server' = [server EXCEPT ![c] = items]
    /\ UNCHANGED <<database, sync, busy, failures>>

ToggleCalendarEnabled(c) ==
    /\ Edit
    /\ calendar[c] # "absent"
    /\ calendar' = [calendar EXCEPT ![c] = IF @ = "on" THEN "off" ELSE "on"]
    /\ UNCHANGED <<account, cache, server, sync, busy, failures>>

(* The rows of its calendars and of their events go with the account.      *)
DeleteCalendarAccount ==
    /\ Edit
    /\ account \in Connected
    /\ account' = "gone"
    /\ calendar' = [c \in Cals |-> "absent"]
    /\ cache' = EmptyCache
    /\ UNCHANGED <<server, sync, busy, failures>>

Next ==
    \/ SyncAllAccounts
    \/ \E s \in Requests :
          \/ CreateCalendarAccount(s) \/ FailToList(s) \/ GoogleConnectCallback(s)
          \/ UpdateCalendarAccount(s) \/ ResyncCalendarAccount(s)
    \/ \E s \in Syncs : Step(s) \/ SkipCalendar(s) \/ GiveUp(s)
    \/ Restart
    \/ \E c \in Cals, items \in SUBSET Items : EditOnServer(c, items)
    \/ \E c \in Cals : ToggleCalendarEnabled(c)
    \/ DeleteCalendarAccount

(* Goroutines run; the ticker starts the scheduler's pass again and again. *)
(* Nobody has to press "Resync Now".                                       *)
Fairness == WF_vars(SyncAllAccounts) /\ \A s \in Syncs : WF_vars(Step(s))

Spec == Init /\ [][Next]_vars /\ Fairness

-----------------------------------------------------------------------------
(* The rows, the goroutines and the busy set have their types.             *)
TypeOK ==
    /\ account \in {"none", "gone"} \cup Connected
    /\ calendar \in [Cals -> {"absent", "on", "off"}]
    /\ cache \in [Cals -> [Uids -> Items \cup {Nothing}]]
    /\ server \in [Cals -> SUBSET Items]
    /\ sync \in [Syncs -> Sync]
    /\ busy \in BOOLEAN
    /\ edits \in 0 .. MaxEdits
    /\ failures \in 0 .. MaxFailures

Cached(c) == {cache[c][u] : u \in Uids} \ {Nothing}

(* A sync that is under way when its account is deleted leaves nothing     *)
(* behind: no calendar of a deleted account, no event of a missing         *)
(* calendar, and no event under the UID of another.                        *)
NothingOrphaned ==
    \A c \in Cals :
        /\ account \notin Connected => calendar[c] = "absent"
        /\ calendar[c] = "absent" => Cached(c) = {}
        /\ \A u \in Uids : cache[c][u] # Nothing => UidOf[cache[c][u]] = u

(* The dashboard polls while the account is busy: the mark never outlives  *)
(* the syncs that set it, whatever order they begin and end in.            *)
BusyEnds == busy => \E s \in Requests : sync[s] # Idle

(* Only an answer of the server that lacks an event takes it off the       *)
(* kiosk: no failure, timeout or other sync half way through does.         *)
PruneNeedsAnswer ==
    [][\A c \in Cals, u \in Uids :
         account' \in Connected /\ cache[c][u] # Nothing /\ cache'[c][u] = Nothing =>
            \E s \in Syncs : /\ sync[s].pc = "store" /\ sync[s].cal = c
                             /\ sync[s].left = {} /\ u \notin sync[s].seen]_vars

(* "existing calendars' color and enabled/disabled choices are preserved"  *)
(* (sync.go): no step of a sync switches a calendar the parent can see.    *)
SyncKeepsChoices ==
    [][\A s \in Syncs, c \in Cals :
         Step(s) /\ calendar[c] # "absent" => calendar'[c] = calendar[c]]_vars

(* ListInWindow and ListToday: the events of the enabled calendars.        *)
Shown(c) == IF calendar[c] = "on" THEN Cached(c) ELSE {}

(* Overlapping syncs with answers of different ages may leave anything in  *)
(* the cache, but not for good: once people stop changing things the kiosk *)
(* shows what the server has in the enabled calendars.                     *)
CacheConverges ==
    <>[](\A c \in Cals : calendar[c] = "on" => Shown(c) = server[c])
=============================================================================
