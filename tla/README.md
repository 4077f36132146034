# A TLA+ model of HappyHome Quest

HappyHome Quest (hhq) is one Go process and one PostgreSQL database behind a
wall-mounted kiosk: a calendar collected from CalDAV, Google and plugin
services, and chores that children tap and parents approve. These modules
model the parts of it in which something can go wrong between two steps; the
theorems say of some of them what holds for every household, not only for the
small ones a model checker can enumerate.

Run a model with `tlc -workers 2 -config MCChoreTx.cfg MCChoreTx`, a proof with
`tlapm ChoreTxProofs.tla`.

## The system

### Components, their state and what makes them correct

| Component | State | Operations | Correct when |
|---|---|---|---|
| Chore stores (`internal/models/chore.go`) | catalog, assignments ("definitions"), dated occurrences ("instances") | create, bootstrap update, soft-delete, `EnsureForDate`, `MarkComplete`, `Decide`, `ResetRejected` | approvals are final and clear the backlog; a child's approval needs a decision; columns agree with the status; nothing deleted stays open |
| Kiosk and approval handlers (`handlers/kiosk*.go`, `approval.go`, `auth/approval_token.go`) | the clock, e-mails under way, signed links | page load and poll, tap, e-mail goroutine, link click, dashboard decision | one e-mail per submission; a link decides what it was sent for; the tile stands for the backlog |
| Calendar sync (`caldav`, `handlers/sync.go`, `models/calendar.go`) | accounts, calendars, event cache, busy set | discover, fetch, upsert, prune, toggle, delete, resync | the cache converges to the server; failures prune nothing; choices survive; nothing is orphaned |
| Plugins (`handlers/plugin_*.go`, `plugins`, `models/plugin.go`) | plugin row with its token, synthetic account and calendar, cached events | bootstrap, register, retry, re-register on 403, provision, sync, action, toggle, clean-up | token, calendar and events converge after an outage, an error or a crash; no more is lost on the way than the ways named |
| Scheduler (`internal/scheduler`) | tickers | calendar sync, chore generation, plugin sync, weekly report, sessions, weather, release | each job is done again after a failure |
| Weekly report (`scheduler.go`, `internal/report`) | `lastSentWeek` in memory, two settings | tick, gather, render, mail | a week is reported once, and it is the right week; late means late |
| Weather (`internal/weather`, `weather.go`) | the cached forecast, the place in the settings | refresh by the ticker and after a form, seed at a start | the forecast shown becomes that of what is saved |
| Household (`models/user.go`, `setup.go`, `invite.go`, `password_reset.go`, parts of `parent.go`) | users, pending invitations | first-run set-up, invite, accept, reset, remove | a parent is always left; a link replaces only the password it was sent for; a signed-in parent has a row |
| Bootstrap files (`handlers/bootstrap_config.go`) | `bootstrap_managed` rows | reconcile children, chores, assignments, accounts at startup | the rows follow the files, and what is put back comes back |
| Dashboard (`handlers/parent.go`) | settings, one row each | forms | settings that belong together stay together |
| The days (`models/calendar.go`, `kiosk_week.go`, `caldav.go`, `google.go`, `report/pdf.go`) | none of their own | windows, lists, the week grid, "late" | local days, whatever zone the household is in |
| Sessions, CSRF, login limiter (`internal/auth`) | sessions, failures per key | login, logout, sweep | the counter counts |
| Release check, OAuth connection, avatars, mail transport, configuration | caches, files | refresh, serve | - |

They meet in three places. The database: handlers, goroutines and tickers run
at once, most of them without a transaction around what they read and what they
write. The calls out: calendar servers, plugins and the mail server answer
late, twice, or not at all. And restarts: whatever is only in memory (e-mails
under way, the busy set, `lastSentWeek`, the forecast, the registration loop) is
gone.

### What is hard here

`PROJECT.json` lists the hazards, each at its line. In short: transactions
over several rows that interleave and deadlock (`Decide`, `Deactivate`,
`EnsureForDate`); links that outlive the submission they were sent for; syncs
of one account that overlap with each other, with a toggle and with a deletion;
three goroutines sharing a plugin's token; a crash between the statements of a
provisioning; clean-up against late registration; checks made before a write in
another statement (`RemoveUser`, `SetupSubmit`, invitations); a report whose
memory does not survive a restart; forms that save field by field while other
forms and refreshes read; days that end at different moments in UTC and at home.

## The modules

    ChoreDates            assignments and dates
      ^
    ChoreBoard            what the chore tables promise (abstract)
      ^          ^
      | refines  | refines
    Chores     ChoreTx       CalendarSync   Plugins   Household   WeeklyReport
      ^
      | EXTENDS                  WeekGrid       the five-day view's arithmetic
    ApprovalFlow, Bootstrap       ^      ^
                        LocalDays       SettingsForm <- Weather

    Proofs, each EXTENDS what it is about:
      ChoreBoardProofs, ChoresProofs, CalendarSyncProofs, PluginsProofs
      ChoreTxProofs      ChoreTx, with an instance of ChoreBoardProofs
      StoreUsersProofs   Bootstrap, ApprovalFlow and ChoresProofs
      ParentsProofs      Household, WeeklyReport
      KioskProofs        LocalDays, WeekGrid, SettingsForm, Weather
    MC* EXTENDS its module and gives the constants values

**ChoreBoard** is the abstract specification: the status of every occurrence
(assignment, date) and seven things that may happen to it. It says nothing of
rows, columns, transactions or deletion flags. `unseen` is what an approval may
overlook: older dates of the assignment whose occurrence appeared while the
approved one was up for approval. `Overlooks` keeps it small: it grows only by
what appears, and is gone when the occurrence is no longer up for approval.

**Chores** is the store layer with methods as steps. `chore`, `def`, `inst` are
the three tables; an occurrence is a record of the columns that matter
(`status`, whether `completed_at` and `decided_at` are set, `decided_by`). One
action per method that writes. A recurring schedule is a set of weekdays, a
one-off one date; the week has `WeekLength` days. `Approved` in `SelfApproved`
keeps `decided_by` of the backlog because the parent cascade does not write it,
while the one in `Approve` does. `DeactivateDefinition` and `DeactivateChore`
may run on rows already deleted, as the UPDATEs may.

**ChoreTx** is the same writers as PostgreSQL runs them: READ COMMITTED, a
snapshot per statement, row locks held to the end, the condition evaluated again
on a row that was waited for, rows of a statement visited in any order,
deadlocks broken by aborting one of the cycle, cancelled requests rolled back.
It drops the columns and the schedules (every active assignment applies on every
date) and keeps what interleaving can disturb. A transaction whose first
statement would wait is modelled as not having started, since it holds nothing.
Dates are generated in any order, for the scheduler goes on past one that fails
and makes up for it an hour later, and pages generate days of their own. An older
occurrence committed while the second statement of an approval runs is one the
statement cannot know of; `missed` records these, as history, and maps to the
board's `unseen`.

**ApprovalFlow** puts the handlers around the stores: the clock, page loads
that generate their dates (the week's page stops at the first that fails), the
scheduler that generates today's and the coming days' and goes on past a date
that fails, taps from both views,
the e-mail goroutine, links with an expiry, the dashboard's decisions, deletions
and restarts, and the tile a child sees (`ListActiveForDate` and
`collapseChoreInstances`). `rounds` and the number in an e-mail are history: the
code has neither, they are there to say which submission a link was sent for;
`taps` counts the submissions of all occurrences, for their bound.

**CalendarSync** is one account: its connection (form or OAuth callback), the
scheduler's pass and on-demand passes, each a goroutine stepping through
discovery, fetch, upsert per item and prune, with failures at every point,
toggles, an edit or a deletion of the account, restarts and changes on the
server. Google and CalDAV run the same steps; the edit form starts a sync of a
CalDAV account only. Storing what a discovery found (a colour, the upsert, a
look-up, calendar by calendar) is one step, for nothing of what these statements
write is modelled but that the row is there. The database's foreign keys are what
stops a sync whose account is gone (`Store`, `CalendarGone`).

**Plugins** is hhq and one plugin that provides events: reconciliation at
startup, the registration goroutine, the scheduler's pass and a handler, all of
which may find the token stale and register again; the synthetic calendar's
provisioning and its clean-up, which may fall into each other; the plugin's
outages, redeployments and lost answers; errors of single statements, of which
the code passes some over; crashes of hhq between any two steps. A sync stores
its answer event by event and prunes what it did not store. `blind`, `hit` and
`left` in the clean-up's state are history: that the owner of a calendar could
not be found when it was looked for, that a recorded calendar was deleted, and
what this process will not look at again. Tokens are compared with the
plugin's own and nothing else, so a held token is only `"live"` or `"stale"`.
`PluginUp`, `PluginDown` and `PluginEdits` are the outside world.

**Bootstrap** is what a start makes of `calendars.json`, `children.json`,
`chores.json` and `assignments.json`: four loops, one after the other, each over
the entries of its file and then over the managed rows the file no longer names.
`boot` says which loop, which half and what is left; every entry and every row
is a step. It works on the tables of Chores through the actions of Chores, so
`StoresOnly` (`Spec` of Chores) says that a start does nothing to chores the
dashboard could not. Accounts and children are rows with a name, of which
several can share one. An error, an invalid entry or a refused INSERT is `Skip`,
a start that breaks off is `Start` at any point, and between starts the files
and the rows made by hand change. What a refreshed row is given besides its
schedule is left out.

**Household** is the parents: rows with a password hash or none, links in
mailboxes, and requests that have checked something and not yet written, any of
them at once: two removals, two submissions of one link. `overtaken` is history:
another request has undone what this one had checked. Its
actions are those two halves; the steps of a reset after the new password
(sessions deleted, a new one created) are steps as well. Logging in and sending
links are single steps, since nothing they read is looked at again when they
write. Signatures, expiry and bcrypt are taken as working: a reset link carries
the number of the hash it was signed with.

**WeeklyReport** is the hourly tick and the two settings that time it. The clock
is days of hours of slots; the ticker's phase is the slot of an hour in which the
process started, which is what makes a restart inside the hour of a report
interesting. A tick reads weekday and hour in two steps, and a form saves them in
two; `lastSentWeek` is the process's, and a stop loses it. A send that fails may
have delivered the mail all the same (the mail server's last answer is lost), and
then the process does not know of it. `week`, `prev` and
`last` are history: what was mailed, and whether anything disturbed the week.

**SettingsForm** is `UpdateSettings` over the settings that only mean something
together: the grid's hours, and the place with its units. A form is the list of
what it has still to look at; each field is saved before the next is looked at,
and a refusal, an error or a stop drops the rest. `split` records that a pair may
have been saved in halves: two forms at once, or one cut off inside a pair.

**Weather** adds what reads those settings: the ticker's refresh, the one a form
that saved a place starts, and the seeding at a start with a refresh of its own.
A refresh is the tuple of what it has read so far, one `Get` per step, and a
forecast is known by what it was asked for.

**WeekGrid** is the arithmetic of the five-day view, without state: hours shown,
top and bottom of a block with the least height every block gets, labels. The
code's percentages are lengths here, counted in `Parts`-ths of a minute, so that
`minEventHeightPct`, a `Parts`-th of the grid, is a whole number. SettingsForm
uses `Resolve` for what `loadWeekGridConfig` makes of hours that are no range.

**LocalDays** has a clock in UTC and a household at an offset. `WindowStart` is
a UTC midnight for CalDAV and a local one for Google; `ListToday` and
`ListInWindow` start at the local one; `isLate` compares with a due date located
in UTC. A sync is two steps here, the window and the answer stored: what can come
between its statements is CalendarSync's subject.

## What is checked

| Run | Question | Bounds |
|---|---|---|
| `tx` | Do the board's promises survive transactions that interleave, wait for each other, deadlock and roll back? Does every transaction end? | two transactions, two assignments, two dates |
| `tx_deleted` | Does a deleted chore stop showing? **No** | as `tx` |
| `flow` | Do the tables stay consistent, does the tile stand for the backlog, is each submission announced once? | a child's and a parent's assignment, three dates, two submissions, links that live one midnight |
| `flow_link` | Does a link only decide the submission it was sent for? **No** | as `flow` |
| `calendar` | Does the cache stay clean under overlapping syncs, failures, connections and deletions, and converge? | the job and two requests, one calendar, three items under two UIDs, one edit, one failure |
| `plugins` | Do token, calendar and events recover from outages, lost answers, database errors, crashes and re-registrations in any order, and by what steps alone can an event or a calendar be lost? | three ids, two events, one mishap, one edit, one request |
| `bootstrap` | After any history of files, changes by hand, errors and crashes: are the files followed, is what is made by hand left alone, does a restart leave everybody's work as it is? | one account, two rows for one child's name, one chore with three assignments, one date, two changes by hand or of files, one error |
| `household` | Is a parent always left, and does a link replace only the password it was sent for, unless one request overtakes another between check and write? | three parents, two passwords each, one link at a time, any two requests under way |
| `weekly` | Does an undisturbed week have exactly one report about the right week, and is none sent twice? | four weeks of three days of three hours of two slots; one stop, one mail not sent or sent with an error, one hour skipped or repeated, two forms |
| `weather` | Do settings that belong together stay together, does the forecast become that of what is saved, does a parent's place survive starts? | two posts of three forms, two places, one mishap |
| `days` | Is today's list complete, which way can "late" err, which blocks of the week leave the grid or cover another? | offsets of a quarter day west, none, and east; four times of two events, one change, two-day windows, three days |
| `days_late` | Is "late" exactly after the due date? **No** | as `days`, west only |

`tx` checks the promises of ChoreBoard on the committed rows and the refinement
itself, so ChoreBoard has no run of its own. The stores by themselves have none
either: `flow` checks their columns and deletions under every call the handlers
make, `bootstrap` their schedules, and that they implement the board is proved.

Why the bounds are enough. A cascade needs an older date, a disturbed one a
second transaction: two dates and two transactions contain every pairwise
conflict of the writers, and three dates (in `flow`) a cascade over
more than one date. A week of two days has dates with equal and with different
weekdays, and every schedule over it. A resubmission needs two submissions of
one occurrence; a link that expires needs one midnight to live and one to die.
Three syncs are the most that differ: one of each kind, and one more request for
the busy set. Calendars do not share rows, so a second one adds only a loop
iteration; a third item (`a2`, an edited `a`) lets an old answer overwrite a new
one. Three plugin ids allow one recorded, one abandoned by a crash and one fresh.
The one mishap of a run is any one of its kinds at any point (in `plugins` a
crash, an outage, a lost answer or an error of any statement); what two mishaps
in a row could do is not explored, but for the case under liveness below. In `bootstrap` every initial content of the
four files is tried; two changes are what it takes to remove something and put
it back, or to create by hand what a file names too, and the second row of a
name and the second assignment of a pair are what can then be ambiguous. One
date is enough there, for only the state of an assignment and whether its work
survives matter. In `household` two requests are what it takes for one to
overtake another, and the third parent is who can be removed while two others
act. In `weekly` a week of three days has a first, a last and one between,
an hour of two slots a ticker before and one after a restart, and the fourth week
shows what the disturbed ones left behind. In `weather` two posts overlap each
other, the seed's refresh and the ticker's; of the forms one moves the grid's
start, one its end and is refused after its units, one names a place that is not
the seed's. In `days` the events are at the first and the last hour of a day,
across a midnight and a whole day long, and the horizon passes two midnights.

Named bounds: `MaxTaps`, `MaxEdits`, `MaxChanges`, `MaxFailures`, `MaxMishaps`,
`MaxPasswords`, `MaxMails`, `MaxRequests`, `MaxStops`, `MaxUnsent`, `MaxShifts`
and `MaxForms` cap what people and the world do, never what the program does
(`MaxRequests` caps how many requests of any kind stand between their check and
their write); `Weeks` and `Horizon` end the time. A start of Bootstrap that would
need one more row than there is does not go on, nor does a provisioning of
Plugins that would need one more id. In Plugins the events of an answer are
stored in an order that is the same every time. `MaxTaps` (ApprovalFlow) bounds
the submissions of all occurrences together.

What the code does not exclude is in the models, and the properties name it. In
`plugins` a served event is lost to its own failed upsert, and a recorded
calendar to a clean-up that looked before it was recorded or whose look-up
failed; in `household` a parent is lost to two removals that overtake each other,
a fresh password to two submissions; in `tx` an approval leaves open what was
inserted while its second statement ran. Each property says that there is no
other way. Without its exemption TLC finds each of them violated, so the
exemptions stand for behaviours of the runs; the findings below describe them.

Deadlock is checked except where the system really may stop: in `plugins` an hhq
with no plugin listed has nothing left to do, in `weekly` the clock stops at the
end of the last week, in `days` and `days_late` at the horizon.

### Liveness and its fairness

*ChoreTx, `EveryTransactionEnds`.* Strong fairness of a transaction's steps,
since a row it waits for may be free again and again between other holders
(PostgreSQL queues lock waiters), and weak fairness of breaking a deadlock (its
detector runs after a second of waiting). Nothing is assumed of requests.

*CalendarSync, `CacheConverges`.* Weak fairness of every goroutine's steps and
of the scheduler starting its pass: the ticker is in-process, and a call of a
CalDAV server has a timeout (`caldav.go:113`), an on-demand sync a deadline
(`sync.go:80`). The scheduler's own pass over a Google account has neither: that
a call of Google ends there is assumed of Google and the network, not justified
by this code. "Resync Now" needs nobody.

*Plugins, `TokensHeal`, `EventsConverge`, `OrphansGo`.* Weak fairness of
starting hhq and the plugin (an orchestrator restarts both), of the retry
ticker, the sync ticker, the provisioning's steps, the clean-up and each
goroutine's steps: every call of a plugin has a timeout. Edits and mishaps are
finite, so "at last" is after them. Left out of "at last" are a plugin whose
recorded calendar the clean-up deleted (`hit`, until the next start) and accounts
that an error left behind the clean-up (`left`, also until the next start).
With `MaxMishaps = 2` TLC finds `TokensHeal` violated: the registration and the
scheduler's pass, both brought to re-register by two mishaps, outdate each
other's token for ever, each between the other's registration and its retried
call. Nothing in the code excludes it but the time between their attempts, 15
seconds and some minutes, which the model does not have.

*Weather, `ForecastConverges`.* Weak fairness of restarting the server, of the
statements of a start and of a form that was posted, of the ticker and of a
refresh's reads and its answer. A form's refresh ends after 30 seconds either
way; the ticker's has no deadline (`http.DefaultClient`, `weather.go:118`): that
the forecast service answers it or closes the connection is assumed. Nobody has to post
a form, and no form's own refresh is relied on: a form that changes the units
alone starts none, and the ticker is what repairs it.

WeeklyReport has no liveness: that a quiet week is reported is a safety property
of the week's end, which says by when.

### What the violated runs show

* `tx_deleted`. `chore.go:322-325`: deleting a chore removes its open instances
  "so a deleted chore stops showing up on the kiosk immediately". `EnsureForDate`
  reads the assignments while the deletion is uncommitted and inserts after the
  DELETE looked; the occurrence stays, and no later step removes it.
* `flow_link`. `approval.go:95`: "the token is single-use in effect". It is per
  transition, not per submission: after a rejection and a retry the first
  e-mail's links decide the second submission.
* `days_late`. `report/pdf.go:129`: late is "after the end of its due date". The
  due date comes from the driver as a UTC midnight and `isLate` ends it in UTC:
  west of Greenwich the evening of the due date itself is late.
  `LateErrsOneWay` says how far this goes, and is proved for every offset.

Found while modelling and listed without a run of their own (`PROJECT.json` has
the details). Those a change of one constant or definition shows:

* Occurrences of a series share a UID and the cache's key is (calendar, UID), so
  one of them is shown: `CacheConverges` with `Recurring = TRUE`, `Items = {a, a2}`.
* `parent.go:819`: "Removing the last remaining parent is blocked". The count and
  the deactivation are two statements: `ParentRemains` without its exemption.
* `password_reset.go:101`: a link "can't be replayed after a successful reset".
  Two submissions past the check both store a password: `LinkIsForPassword`
  without `q.overtaken`.
* `plugins/sync.go:49`, `PLUGINS.md:268`: what is pruned is what "the plugin no
  longer returns". An event whose upsert failed is pruned as well, where
  `caldav.go:455` returns: `SteadyEventsStay` without its last two lines.
* `plugin_bootstrap.go:157`: a plugin whose calendar was cleaned up "isn't stuck".
  One whose provisioning the clean-up fell into is, until the next start; so is
  one whose owner's look-up ended in any error, which line 188 takes for "owning
  plugin no longer exists": `CalendarIsKept` without `sweep.blind`.
* `chore.go:634`: an approval takes along "any earlier still-unresolved instance".
  One inserted while the second UPDATE runs stays open until the next approval:
  `ApprovalClearsBacklog` without `unseen`.
* `scheduler.go:278`: the guard "avoids double-sends". A mail that was delivered
  with an error is not remembered, and is sent again when that hour is repeated:
  one of the two cases `last.forgotten` stands for in `NoDoubleSend`.
* `kiosk_week.go:299`: an event outside the hours shown "is clipped/compressed to
  the grid edge". It then gets 2% of height all the same, below the grid's end or
  over an event that begins with the grid: `BlocksInOrder` without `least`.
* `caldav.go:359`: "today's events should show even if already passed". The CalDAV
  window starts at midnight UTC: `TodayIsComplete` without the condition on
  `provider` and `zone`.
* A report set to the last day of the week is about the week that ends that day,
  not "the week that just ended" (`scheduler.go:323`): `LastEnding` counts it so.
* A form with one of the two grid hours saves the other as well, as it was read
  before: two such forms at once lose one of the hours, or leave a start after
  the end, although `parent.go:542` promises that a blank keeps what is there.
  `PairsAreWhole` without `split`.
* A chore put back in `chores.json` is never created again, against
  `README.md:267`: `FilesFollowed` excepts it.

And those the models carry as they are: a look-up that fails during a start
deactivates an assignment that is in the file, with its open work (`Skip`); a
managed assignment goes when its hand-made chore is deleted, against
`README.md:272`; enabling a plugin does not register it, against `PLUGINS.md:55`;
an event of the week view that runs past midnight is taken for one without an
end and gets half an hour (`ShownEnd`), against `kiosk_week.go:299`.

Smaller ones: `chore.go:463-466` speaks of the "oldest still-open instance" where
`collapseChoreInstances` takes the latest; `kiosk.go:216-219` says a tap only
moves incomplete to pending, and `MarkComplete` also takes rejected ones and
approves a parent's own with their backlog; `models/plugin.go:190-193`,
`README.md:367` and the schema say a token is issued once, and every 403 issues
another; `README.md:370-373` asks for manual recovery where `retryOnForbidden`
recovers; `README.md:375` says the manifest is fetched periodically, and only the
startup registration fetches it. Two rows that nothing tells apart (two active
children of one name, two active assignments of one pair, both possible by hand)
are looked up by whichever the database returns: `RestartChangesNothing` is
stated of tables without such pairs (`Ambiguous`).

## What is proved

For every value of the constants that the assumptions named in the modules allow
(dates, bounds and days ahead are numbers, parents' assignments are assignments,
every assignment is of a catalog chore, rows of different tables are different,
markers are not values, lengths are positive):

* **ChoreBoardProofs**: `BoardTypeCorrect`; `ParentChoresAreInformational`,
  inductive together with the type; `ApprovalsAreFinal`, an action property that
  needs no invariant beyond the type, one case per action; `ApprovalsCatchUp` and
  `ApprovalsAreDecided`, both from one lemma (`ApprovalStep`) that names the
  occurrence a newly approved one was approved with; `RejectionsAreLocal`.
* **ChoresProofs**: `ChoresTypeCorrect`, `ColumnsAgree`,
  `SchedulesAreOfOneKind`, `DeletedStaysDone`, and `StoresImplementBoard`: the
  stores implement the board, with the status column as the mapping and
  nothing overlooked.
* **ChoreTxProofs**, for any number of transactions, assignments and dates:
  `TxTypeCorrect`, `NoLostUpdates`, `CascadesAreComplete`,
  `TransactionsImplementBoard` (the writers of `chore.go`, statement by
  statement, implement the board), and, carried over from ChoreBoardProofs, the
  four promises `ParentChoresAreNeverAsked`, `CommittedApprovalsAreFinal`,
  `CommittedApprovalsCatchUp` and `CommittedApprovalsAreDecided`. Nothing is
  assumed of the order in which dates are generated.
* **StoreUsersProofs**, of starts, for any files, rows made by hand and errors:
  `BootTypeCorrect`; `StartsUseTheStores` (Bootstrap implements Chores, the
  property `StoresOnly`), through which every theorem of ChoresProofs holds
  around starts, `StartsLeaveNoOpenWork` being one; `StartsLeaveHandMadeAlone`;
  `StartsFollowTheFiles`; `RestartsChangeNothing`. Of the handlers, for any
  schedules, days ahead and life of links: `FlowTypeCorrect`, `FlowColumnsAgree`
  and `FlowDeletedStaysDone`; `TileCovers`; `OneMail`.
* **CalendarSyncProofs**, for any number of calendars, items and overlapping
  syncs: `CalendarTypeCorrect`, `NothingIsOrphaned`, `BusyMarkEnds`,
  `PruneNeedsTheAnswer`, `ChoicesAreKept`.
* **PluginsProofs**, for any events, ids, mishaps and requests:
  `PluginTypeCorrect`, `SteadyEventsAreKept` and `CalendarsAreKept`: the ways
  named are the only ones in which a served event or a recorded calendar goes.
* **ParentsProofs**, for any household and any number of requests between check
  and write: `HouseholdTypeCorrect`, `LinksAreForPasswords` and
  `RemovalsLeaveAParent`; for any length of week, day and hour and any
  number of mishaps: `WeeklyTypeCorrect`, `ReportsAreNotDoubled`,
  `QuietWeeksAreReported`.
* **KioskProofs**, for any length of day, offset, window, grid and set of events:
  `LocalTypeCorrect`, `TodaysListIsComplete`, `LateErrsOneWayOnly`,
  `BlocksAreInOrder`, and `LabelsMatchEvents` of WeekGrid alone; for any forms,
  places, seed and number of requests: `SettingsAreWhole`, `SeedsKeepChoice`.

The argument of ChoresProofs. The columns of a row are only right because they
were right before: a rejection leaves `completed_at` as it is, a cascade leaves
`decided_by`. So the invariant carries the consistency of every row in its type,
`GoodRow`, and `Tables == Assignments /\ GoodTable` is what is inductive;
`TypeOK`, `ColumnsMatchStatus` and `RecurringXorOneOff` follow from it. A
lemma says once what each helper on the table (`WithoutUnresolved`, `Generated`,
`Completed`) returns on good rows, and the step lemma has one case per method.
`DeletedStaysDone` is inductive relative to `Tables`: creation asks for an absent
row, generation for an active one, and the other methods touch no status
`"none"`. The refinement needs `Tables` for one thing, that a row with status
`"none"` is the absent row, without which `EnsureForDate` would not map to
`Appear`; each method then maps to one board action, or to a stutter when it
changes no status.

The argument of ChoreTxProofs has three layers. `LockInv` is the lock
discipline: a transaction that is about a row holds its lock, what else it holds
or has still to visit is older and only there for an approval
(`LocksFollowTasks`), a generation is of one date (`OneDate`), and every draft
follows from the row under it (`DraftsFollowRows`, which is not inductive without
the other two). `MissedByCascades` says that only an approval whose second
statement runs has missed anything. Above both, `CascadeMissesNothing` is
inductive: a row can only join the backlog of an approval under way by the commit
of a decision, which keeps it open or had it open, or by that of a generation,
which records it as missed. `CommitOnBoard` then reads the board's action off the
kind of the transaction, and what may be overlooked off `missed`; the promises
follow from `BoardHolds`, without another look at locks.

The arguments of ParentsProofs. Household: what a request has checked must still
hold when it writes, or the request is marked as overtaken. `StillHolds` says what
that is: of a submission, that the row holds the password its link was sent for;
of a removal, that somebody besides the one it removes is active. Every action
keeps it for every request it does not mark; for `SetPassword` and `Deactivate`,
the only ones that can break it, that is what `Overtakes` has to be right about
(`OthersAre`). `HouseholdInv` adds that an invitation is for no password and that
a session about to be created has a row. Counting becomes existence in
`OthersAreThere`: of more than one parent, one is not the one removed.

Weekly report: `WeeklyInv` holds that the last mail is past, that the process
which sent it and knows it remembers a day no earlier, that a report under way is not of a day
remembered, and `TickerWaits`: in the hour of a mail of an earlier process the
new ticker does not fire, because it was made later in that hour and waits for a
whole one. Without the last, a restart could send twice. That a quiet week has
its report says more than that nothing is sent twice: the one tick in its
hour must have come. `QuietInv` adds where the week is. The week's number is the
quotient of the day (`WeekIsCurrent`), and of a quiet week `Quiet` says that
until the due moment is dealt with nothing was sent and the process remembers no
day of this week (`Pending`), and that after it there is the one report and it is
on the week that ended last (`Reported`). No other tick of a quiet week finds
both the weekday and the hour, and the due one finds nothing remembered that
could stop it. `DivUnique` and `DivBefore` are what division has to give.

The arguments of StoreUsersProofs. Starts: two things are known only from
earlier steps of a start, and `BootInv` carries them: an assignment in hand is an
entry of the file (`InHandIsEntry`), so the schedule it is created or refreshed
with is one the stores accept, because files do not change during a start; and a
row in hand for removal is managed (`RemovesManaged`), because it was when it was
listed and no step takes the mark away. The lemmas `LessToDo`, `ToRemoval`,
`Enters` and `Stays` are the ways in which the place of a start changes; every
action is one of them, and `BootStores` and `HandMadeStep` then take each action
by itself. That a start without errors follows the files needs what it has
already done: of the entries not in hand any more, that each is followed by a row
the removal will leave (`Progress`, `Kept`); of the pairs seen, that they are
wanted (`SeenIsWanted`); and of the loops behind it that they are still
reconciled, though the later ones go on changing rows (`Behind`). The last is
where the order of the loops matters: a loop touches only what it and later ones
answer for, except that a chore that goes takes its assignments with it, and
theirs come after. After a clean start, and until something is changed, all four
are behind. A restart then finds every entry followed, so each look-up finds the
row it would have made, if only one goes by that name or pair, and changes
nothing.

The handlers: the tile shows the latest of what is open, and its approval
resolves the backlog before it, so what could go wrong is an open occurrence that
no tile stands for. `CoveredIn` excludes it: before an occurrence that was
handled no applicable date from today on is still to be generated, and before an
approved one nothing is open. It is inductive because a tap comes from a page that
generated every date before the one tapped (the week's stops where one fails), a
generation starts at today, and an approval takes what is older with it.
`SettledIn` is what deletions leave: no open occurrence of a deleted assignment.
`Announced` is about e-mails: the number of a notice is at most the count of
submissions of its occurrence, and no number is carried twice, by two e-mails or
by an e-mail and a goroutine still to run. `OneMail` is then counting: things
numbered differently are no more than the numbers.

The argument of CalendarSyncProofs. Each property has a lemma that takes the
actions one by one over `TypeOK`. `NoOrphan` states the foreign keys in terms of
the cache's function, which is what is inductive; `BusyEnds` is inductive with
the type, because only `Return` and a restart make a request idle and both take
the mark away.

The argument of PluginsProofs. `Processes` says that goroutines and the clean-up
belong to a running hhq and that what a goroutine has still to write is an
answer, which holds the steady event: so a prune, however old the answer, takes
it away only if this sync did not store it. `Owned` and `Waiting` are about the
calendar: one is recorded only once the plugin answered, while one is being made
the row has none, and the calendar that the clean-up is about to delete is
neither recorded nor about to be, unless the clean-up was blind for its owner.
`Careful` says once what a call may do to its goroutine, for all the places calls
are made from.

The arguments of KioskProofs. Days: `LocalInv` says that the window of a sync is
of an earlier moment and that the cache is what the answer left of the source.
The rest is arithmetic on quotients, stated once in lemmas about days and their
midnights, since the solver has no division by a constant it does not know. The
week's blocks: `OnGrid` is monotone (`OnGridIsMonotone`), so what is drawn at its
own height keeps the order of the clock; a block is otherwise of the least height
(`BlockIsOnGrid`), which is what the property exempts.

Settings: a form is the list of what it has still to go through, and `FormsOK`
says how such a list can look: the halves of a pair are next to each other, a
latitude comes before its longitude, and the hours to be saved make a range.
`Chain`, the first of these, is kept when a list loses its head and when the
parts of the fields are put together, which is all a form does to it. `Halves` is
what is true between the two writes of a pair: the saved half fits the half to
come, for a form that is alone and was not cut off; anybody else sets `split`.
`SeedOK` says that a start is alone and seeds only where no longitude is saved,
because a longitude is saved last: so a broken-off seed is done again and a place
that is complete is left.

Only model-checked is what this prover does not reach: liveness, which are
`EveryTransactionEnds`, `CacheConverges`, `TokensHeal`, `EventsConverge`,
`OrphansGo` and `ForecastConverges`. Every other property of a passing run is a
theorem. No theorem is about ENABLED or a recursive definition. The type
invariants of CalendarSync, Household, Bootstrap, WeeklyReport and LocalDays are
proved and in no run; the types of Weather are parts of `WeatherInv`.

## What is not modelled, and why

Rendering, form parsing, colours, avatars, photos, release checks, the texts and
numbers of the report and its PDF, and the SMTP dialogue: no protocol, or a cache
with one writer that nothing depends on. Signing and hashing are taken as
working: a link says what was signed. The login limiter is a counter per key that
only the next attempt reads; overlapping attempts can exceed it by as many as are
under way, and no property beyond that restatement was found. Daylight saving
shifts are in WeeklyReport and not in LocalDays, whose offset is fixed. The
dashboard's restriction to this week's approvals would need weeks in
ApprovalFlow, and what the report counts of removed children the report's sums.
The settings of the dashboard that stand by themselves (title, time zone, layout,
theme) are one row and one writer each.

## Plan

1. ChoreBoard, Chores, ChoreTx and their proofs; ApprovalFlow. *(done)*
2. CalendarSync and its proofs; Plugins. *(done)*
3. Bootstrap; Household; their proofs. *(done)*
4. WeeklyReport, LocalDays and their proofs; SettingsForm, Weather. *(done)*
5. StoreUsersProofs (with ApprovalFlow), PluginsProofs, and the proofs of
   WeeklyReport's quiet weeks and of the settings: every safety property of a
   passing run a theorem. *(done)*
6. Weeks in ApprovalFlow, for the dashboard's list of this week's approvals.
7. The login limiter's window, if its counter ever gains a second reader.
