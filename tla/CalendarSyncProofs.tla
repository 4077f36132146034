------------------------- MODULE CalendarSyncProofs -------------------------
(* Proofs about CalendarSync: types, no orphans, the end of the busy mark, *)
(* what may take an event off the kiosk and what may switch a calendar,    *)
(* for any number of calendars, events, overlapping syncs, changes and     *)
(* failures.                                                               *)
EXTENDS CalendarSync, TLAPS

(* What a goroutine's state is, but for the calendar in hand.              *)
LEMMA AtIsSync ==
    ASSUME NEW pc \in {"idle", "list", "discover", "next", "store"},
           NEW todo \in SUBSET Cals
    PROVE  At(pc, todo) \in Sync /\ At(pc, todo).pc = pc
BY DEF At, Sync

LEMMA UpsertedType == TypeOK => Upserted \in [Cals -> {"absent", "on", "off"}]
BY DEF TypeOK, Upserted, Discovered

(* A change to one goroutine's state keeps the types of them all.          *)
LEMMA SyncUpdate ==
    ASSUME TypeOK, NEW s \in Syncs, NEW x \in Sync
    PROVE  [sync EXCEPT ![s] = x] \in [Syncs -> Sync]
BY DEF TypeOK

(* Each step of a goroutine keeps the types.                               *)
LEMMA StepKeepsType ==
    ASSUME TypeOK, NEW s \in Syncs, Step(s)
    PROVE  TypeOK'
<1>s. sync[s] \in Sync
  BY DEF TypeOK
<1>u. edits' = edits /\ failures' = failures /\ account' = account /\ server' = server
  BY DEF Step, ListNewAccount, Discover, AccountGone, CalendarGone, Prune, Finish,
         Fetch, Store, Begin, Return, database
<1>1. CASE ListNewAccount(s)
  BY <1>1, <1>u, UpsertedType, AtIsSync DEF ListNewAccount, Begin, TypeOK
<1>2. CASE Discover(s)
  <2>1. {c \in Cals : Upserted[c] = "on"} \in SUBSET Cals
    OBVIOUS
  <2> QED BY <1>2, <2>1, <1>u, UpsertedType, AtIsSync DEF Discover, TypeOK
<1>3. CASE AccountGone(s) \/ Finish(s)
  <2>1. Idle \in Sync
    BY AtIsSync DEF Idle
  <2> QED BY <1>3, <2>1, <1>u DEF AccountGone, Finish, Return, TypeOK, database
<1>4. CASE CalendarGone(s)
  <2>1. At("next", sync[s].todo) \in Sync
    BY <1>s, AtIsSync DEF Sync
  <2> QED BY <1>4, <2>1, <1>u DEF CalendarGone, TypeOK, database
<1>5. CASE Prune(s)
  <2>1. At("next", sync[s].todo) \in Sync
    BY <1>s, AtIsSync DEF Sync
  <2>2. cache' \in [Cals -> [Uids -> Items \cup {Nothing}]]
    BY <1>5, <1>s DEF Prune, TypeOK, Sync
  <2> QED BY <1>5, <2>1, <2>2, <1>u DEF Prune, TypeOK
<1>6. CASE \E c \in Cals : Fetch(s, c)
  <2> PICK c \in Cals : Fetch(s, c)
    BY <1>6
  <2>1. server[c] \in SUBSET Items /\ {UidOf[i] : i \in server[c]} \in SUBSET Uids
    BY UidOfIsTotal DEF TypeOK
  <2>2. sync[s].todo \ {c} \in SUBSET Cals
    BY <1>s DEF Sync
  <2>3. [pc |-> "store", todo |-> sync[s].todo \ {c}, cal |-> c,
         left |-> server[c], seen |-> {UidOf[i] : i \in server[c]}] \in Sync
    BY <2>1, <2>2 DEF Sync
  <2> QED BY <2>3, <1>u, SyncUpdate DEF Fetch, TypeOK, database
<1>7. CASE \E i \in Items : Store(s, i)
  <2> PICK i \in Items : Store(s, i)
    BY <1>7
  <2>1. UidOf[i] \in Uids
    BY UidOfIsTotal
  <2>2. cache' \in [Cals -> [Uids -> Items \cup {Nothing}]]
    BY <2>1 DEF Store, TypeOK
  <2>3. [sync[s] EXCEPT !.left = @ \ {i}] \in Sync
    BY <1>s DEF Sync
  <2>4. sync' = [sync EXCEPT ![s].left = @ \ {i}] /\ calendar' = calendar /\ busy' = busy
    BY DEF Store
  <2>5. [sync EXCEPT ![s].left = @ \ {i}] = [sync EXCEPT ![s] = [sync[s] EXCEPT !.left = @ \ {i}]]
    BY <1>s DEF TypeOK
  <2>6. sync' \in [Syncs -> Sync]
    BY <2>3, <2>4, <2>5, SyncUpdate
  <2> QED BY <2>2, <2>4, <2>6, <1>u DEF TypeOK
<1> QED BY <1>1, <1>2, <1>3, <1>4, <1>5, <1>6, <1>7 DEF Step

LEMMA TypeInit == Init => TypeOK
<1> SUFFICES ASSUME Init PROVE TypeOK
  OBVIOUS
<1>1. Idle \in Sync
  BY AtIsSync DEF Idle
<1>2. server \in [Cals -> SUBSET Items] /\ account = "none"
  BY DEF Init
<1>3. 0 \in 0 .. MaxEdits /\ 0 \in 0 .. MaxFailures
  BY BoundsAreNat
<1> QED BY <1>1, <1>2, <1>3 DEF Init, TypeOK, EmptyCache

(* So do failures, restarts and what people do.                            *)
LEMMA FailuresKeepType ==
    ASSUME TypeOK, NEW s \in Syncs,
           SkipCalendar(s) \/ GiveUp(s) \/ (s \in Requests /\ FailToList(s)) \/ Restart
    PROVE  TypeOK'
<1>1. failures' \in 0 .. MaxFailures
  BY BoundsAreNat DEF SkipCalendar, GiveUp, FailToList, Restart, Failure, TypeOK
<1>2. UNCHANGED <<account, calendar, cache, server, edits>>
  BY DEF SkipCalendar, GiveUp, FailToList, Restart, database
<1>s. sync[s] \in Sync
  BY DEF TypeOK
<1>i. Idle \in Sync /\ At("discover", {}) \in Sync
  BY AtIsSync DEF Idle
<1>3. sync' \in [Syncs -> Sync] /\ busy' \in BOOLEAN
  <2>1. CASE SkipCalendar(s) /\ sync' = [sync EXCEPT ![s] = At("next", @.todo)]
    <3>1. At("next", sync[s].todo) \in Sync
      BY <1>s, AtIsSync DEF Sync
    <3> QED BY <2>1, <3>1 DEF SkipCalendar, TypeOK
  <2>2. CASE SkipCalendar(s) /\ \E c \in Cals : sync' = [sync EXCEPT ![s].todo = @ \ {c}]
    <3> PICK c \in Cals : sync' = [sync EXCEPT ![s].todo = @ \ {c}]
      BY <2>2
    <3>1. [sync[s] EXCEPT !.todo = @ \ {c}] \in Sync
      BY <1>s DEF Sync
    <3>2. sync' = [sync EXCEPT ![s] = [sync[s] EXCEPT !.todo = @ \ {c}]]
      OBVIOUS
    <3> QED BY <2>2, <3>1, <3>2, SyncUpdate DEF SkipCalendar, TypeOK
  <2>3. CASE GiveUp(s)
    BY <2>3, <1>i DEF GiveUp, Return, TypeOK
  <2>4. CASE s \in Requests /\ FailToList(s)
    BY <2>4, <1>i DEF FailToList, Begin, TypeOK
  <2>5. CASE Restart
    BY <2>5, <1>i DEF Restart
  <2>6. SkipCalendar(s) => \/ sync' = [sync EXCEPT ![s] = At("next", @.todo)]
                           \/ \E c \in Cals : sync' = [sync EXCEPT ![s].todo = @ \ {c}]
    BY <1>s DEF SkipCalendar, Sync
  <2> QED BY <2>1, <2>2, <2>3, <2>4, <2>5, <2>6
<1> QED BY <1>1, <1>2, <1>3 DEF TypeOK

(* The steps that begin a goroutine.                                       *)
Starts(s) ==
    \/ s = Job /\ SyncAllAccounts
    \/ s \in Requests /\ \/ CreateCalendarAccount(s) \/ GoogleConnectCallback(s)
                         \/ UpdateCalendarAccount(s) \/ ResyncCalendarAccount(s)

LEMMA StartsKeepType ==
    ASSUME TypeOK, NEW s \in Syncs, Starts(s)
    PROVE  TypeOK'
<1>i. At("list", {}) \in Sync /\ At("discover", {}) \in Sync
  BY AtIsSync
<1>1. UNCHANGED <<calendar, cache, server, edits, failures>> /\ account' \in {account} \cup Connected
  BY DEF Connected, Starts, SyncAllAccounts, CreateCalendarAccount, GoogleConnectCallback,
         UpdateCalendarAccount, ResyncCalendarAccount, Begin, database
<1>2. sync' \in {[sync EXCEPT ![s] = At("list", {})], [sync EXCEPT ![s] = At("discover", {})]}
      /\ busy' \in {busy, TRUE, (busy \/ s \in Requests)}
  BY DEF Starts, SyncAllAccounts, CreateCalendarAccount, GoogleConnectCallback,
         UpdateCalendarAccount, ResyncCalendarAccount, Begin
<1>3. sync' \in [Syncs -> Sync]
  BY <1>2, <1>i, SyncUpdate
<1> QED BY <1>1, <1>2, <1>3 DEF TypeOK

(* What users and the server's owner change.                               *)
Changes ==
    \/ \E c \in Cals, items \in SUBSET Items : EditOnServer(c, items)
    \/ \E c \in Cals : ToggleCalendarEnabled(c)
    \/ DeleteCalendarAccount

LEMMA ChangesKeepType == TypeOK /\ Changes => TypeOK'
<1> SUFFICES ASSUME TypeOK, Changes PROVE TypeOK'
  OBVIOUS
<1>1. edits' \in 0 .. MaxEdits /\ UNCHANGED <<sync, busy, failures>>
  BY BoundsAreNat DEF Changes, EditOnServer, ToggleCalendarEnabled, DeleteCalendarAccount,
                      Edit, TypeOK
<1>2. CASE \E c \in Cals, items \in SUBSET Items : EditOnServer(c, items)
  BY <1>1, <1>2 DEF EditOnServer, TypeOK, database
<1>3. CASE \E c \in Cals : ToggleCalendarEnabled(c)
  BY <1>1, <1>3 DEF ToggleCalendarEnabled, TypeOK
<1>4. CASE DeleteCalendarAccount
  BY <1>1, <1>4 DEF DeleteCalendarAccount, TypeOK, EmptyCache
<1> QED BY <1>2, <1>3, <1>4 DEF Changes

(* Next, sorted into these four kinds of step.                             *)
LEMMA NextCases ==
    ASSUME Next
    PROVE  \/ \E s \in Syncs : Starts(s)
           \/ \E s \in Syncs : Step(s)
           \/ \E s \in Syncs : \/ SkipCalendar(s) \/ GiveUp(s)
                               \/ (s \in Requests /\ FailToList(s)) \/ Restart
           \/ Changes
<1>1. Job \in Syncs /\ Requests \subseteq Syncs
  BY DEF Syncs
<1>2. CASE SyncAllAccounts
  BY <1>1, <1>2 DEF Starts
<1>3. CASE \E s \in Requests :
              \/ CreateCalendarAccount(s) \/ FailToList(s) \/ GoogleConnectCallback(s)
              \/ UpdateCalendarAccount(s) \/ ResyncCalendarAccount(s)
  BY <1>1, <1>3 DEF Starts
<1>4. CASE \E s \in Syncs : Step(s) \/ SkipCalendar(s) \/ GiveUp(s)
  BY <1>4
<1>5. CASE Restart
  BY <1>1, <1>5
<1>6. CASE Changes
  BY <1>6
<1> QED BY <1>2, <1>3, <1>4, <1>5, <1>6 DEF Next, Changes

LEMMA TypeNext == TypeOK /\ [Next]_vars => TypeOK'
<1>1. TypeOK /\ UNCHANGED vars => TypeOK'
  BY DEF vars, TypeOK
<1> QED BY <1>1, NextCases, StartsKeepType, StepKeepsType, FailuresKeepType, ChangesKeepType

(* The rows, the goroutines and the busy mark keep their types, however    *)
(* many syncs overlap.                                                     *)
THEOREM CalendarTypeCorrect == Spec => []TypeOK
BY TypeInit, TypeNext, PTL DEF Spec

-----------------------------------------------------------------------------
(* No row of a calendar without its account, no event without its calendar.*)

LEMMA CachedIsEmpty ==
    ASSUME TypeOK, NEW c \in Cals
    PROVE  Cached(c) = {} <=> \A u \in Uids : cache[c][u] = Nothing
BY DEF Cached

(* The same without the set of cached events: easier on the provers.       *)
NoOrphan ==
    \A c \in Cals :
        /\ account \notin Connected => calendar[c] = "absent"
        /\ calendar[c] = "absent" => \A u \in Uids : cache[c][u] = Nothing
        /\ \A u \in Uids : cache[c][u] # Nothing => UidOf[cache[c][u]] = u

LEMMA OrphansNamed == TypeOK => (NothingOrphaned <=> NoOrphan)
BY CachedIsEmpty DEF NothingOrphaned, NoOrphan

LEMMA OrphanInit == Init => NoOrphan
BY DEF Init, NoOrphan, EmptyCache

(* Upserted adds rows only under an account that is there, and never takes *)
(* one away.                                                               *)
LEMMA UpsertKeeps ==
    ASSUME TypeOK, NoOrphan, calendar' = Upserted, cache' = cache, account' = account
    PROVE  NoOrphan'
<1>1. \A c \in Cals : Upserted[c] = "absent" => calendar[c] = "absent"
  BY DEF Upserted, Discovered
<1>2. account \notin Connected => Upserted = calendar
  BY DEF Upserted
<1> QED BY <1>1, <1>2 DEF NoOrphan

LEMMA StoreKeepsNoOrphan ==
    ASSUME TypeOK, NoOrphan, NEW s \in Syncs, NEW i \in Items, Store(s, i)
    PROVE  NoOrphan'
<1> DEFINE d == sync[s].cal
<1>1. UidOf[i] \in Uids /\ i # Nothing
  BY UidOfIsTotal, NothingIsNew
<1>2. calendar' = calendar /\ account' = account /\ calendar[d] # "absent"
      /\ cache' = [cache EXCEPT ![d][UidOf[i]] = i]
  BY DEF Store
<1> SUFFICES ASSUME NEW c \in Cals
             PROVE  /\ account' \notin Connected => calendar'[c] = "absent"
                    /\ calendar'[c] = "absent" => \A u \in Uids : cache'[c][u] = Nothing
                    /\ \A u \in Uids : cache'[c][u] # Nothing => UidOf[cache'[c][u]] = u
  BY DEF NoOrphan
<1>3. CASE c = d
  <2>1. \A u \in Uids : cache'[c][u] = IF u = UidOf[i] THEN i ELSE cache[c][u]
    BY <1>1, <1>2, <1>3 DEF TypeOK
  <2> QED BY <1>2, <1>3, <2>1 DEF NoOrphan
<1>4. CASE c # d
  <2>1. cache'[c] = cache[c]
    BY <1>2, <1>4 DEF TypeOK
  <2> QED BY <1>2, <2>1 DEF NoOrphan
<1> QED BY <1>3, <1>4

LEMMA PruneKeepsNoOrphan ==
    ASSUME TypeOK, NoOrphan, NEW s \in Syncs, Prune(s)
    PROVE  NoOrphan'
<1>1. calendar' = calendar /\ account' = account
  BY DEF Prune
<1>2. \A c \in Cals, u \in Uids : cache'[c][u] \in {cache[c][u], Nothing}
  BY DEF Prune, TypeOK
<1> QED BY <1>1, <1>2 DEF NoOrphan

LEMMA OrphanNext == TypeOK /\ NoOrphan /\ [Next]_vars => NoOrphan'
<1> SUFFICES ASSUME TypeOK, NoOrphan, [Next]_vars PROVE NoOrphan'
  OBVIOUS
<1>0. UNCHANGED <<account, calendar, cache>> => NoOrphan'
  BY DEF NoOrphan
<1>1. CASE UNCHANGED vars
  BY <1>0, <1>1 DEF vars
<1>2. ASSUME NEW s \in Syncs, Starts(s) PROVE NoOrphan'
  <2>1. /\ UNCHANGED <<calendar, cache>>
        /\ account' = account \/ (account = "none" /\ account' \in Connected)
    BY <1>2 DEF Connected, Starts, SyncAllAccounts, CreateCalendarAccount, GoogleConnectCallback,
                UpdateCalendarAccount, ResyncCalendarAccount, Begin, database
  <2> QED BY <2>1 DEF NoOrphan
<1>3. ASSUME NEW s \in Syncs, Step(s) PROVE NoOrphan'
  <2>1. CASE ListNewAccount(s) \/ Discover(s)
    BY <2>1, UpsertKeeps DEF ListNewAccount, Discover
  <2>2. CASE AccountGone(s) \/ CalendarGone(s) \/ Finish(s) \/ \E c \in Cals : Fetch(s, c)
    BY <2>2, <1>0 DEF AccountGone, CalendarGone, Finish, Fetch, database
  <2>3. CASE Prune(s)
    BY <2>3, PruneKeepsNoOrphan
  <2>4. CASE \E i \in Items : Store(s, i)
    BY <2>4, StoreKeepsNoOrphan
  <2> QED BY <1>3, <2>1, <2>2, <2>3, <2>4 DEF Step
<1>4. ASSUME NEW s \in Syncs,
             SkipCalendar(s) \/ GiveUp(s) \/ (s \in Requests /\ FailToList(s)) \/ Restart
      PROVE  NoOrphan'
  BY <1>0, <1>4 DEF SkipCalendar, GiveUp, FailToList, Restart, database
<1>5. ASSUME Changes PROVE NoOrphan'
  <2>1. CASE \E c \in Cals, items \in SUBSET Items : EditOnServer(c, items)
    BY <2>1, <1>0 DEF EditOnServer, database
  <2>2. CASE \E c \in Cals : ToggleCalendarEnabled(c)
    BY <2>2 DEF ToggleCalendarEnabled, NoOrphan, TypeOK
  <2>3. CASE DeleteCalendarAccount
    BY <2>3 DEF DeleteCalendarAccount, NoOrphan, EmptyCache
  <2> QED BY <1>5, <2>1, <2>2, <2>3 DEF Changes
<1> QED BY <1>1, <1>2, <1>3, <1>4, <1>5, NextCases

(* A sync under way when its account is deleted leaves nothing behind.     *)
THEOREM NothingIsOrphaned == Spec => []NothingOrphaned
<1>1. Spec => [](TypeOK /\ NoOrphan)
  BY TypeInit, TypeNext, OrphanInit, OrphanNext, PTL DEF Spec
<1> QED BY <1>1, OrphansNamed, PTL

-----------------------------------------------------------------------------
(* Only Return and Restart make a goroutine idle, and with a request's     *)
(* return the mark goes, whoever else is still running.                    *)
LEMMA BusyNext == TypeOK /\ BusyEnds /\ [Next]_vars => BusyEnds'
<1> SUFFICES ASSUME TypeOK, BusyEnds, [Next]_vars PROVE BusyEnds'
  OBVIOUS
<1>a. \A pc, todo : pc # "idle" => At(pc, todo) # Idle
  BY DEF At, Idle
<1>b. ASSUME NEW s \in Syncs, NEW x, x # Idle, sync' = [sync EXCEPT ![s] = x],
             busy' => busy \/ s \in Requests
      PROVE  BusyEnds'
  <2>1. \A r \in Requests : r \in Syncs
    BY DEF Syncs
  <2>2. CASE s \in Requests
    BY <1>b, <2>1, <2>2 DEF BusyEnds, TypeOK
  <2>3. CASE s \notin Requests
    BY <1>b, <2>1, <2>3 DEF BusyEnds, TypeOK
  <2> QED BY <2>2, <2>3
<1>c. ASSUME NEW s \in Syncs, Return(s) PROVE BusyEnds'
  <2>1. \A r \in Requests : r \in Syncs /\ r # Job
    BY JobIsNoRequest DEF Syncs
  <2>2. CASE s \in Requests
    BY <1>c, <2>2 DEF Return, BusyEnds
  <2>3. CASE s = Job
    BY <1>c, <2>1, <2>3 DEF Return, BusyEnds, TypeOK
  <2> QED BY <2>2, <2>3 DEF Syncs
<1>1. CASE UNCHANGED vars
  BY <1>1 DEF vars, BusyEnds
<1>2. ASSUME NEW s \in Syncs, Starts(s) PROVE BusyEnds'
  <2>1. PICK x : /\ x # Idle /\ sync' = [sync EXCEPT ![s] = x]
                 /\ busy' => busy \/ s \in Requests
    BY <1>2, <1>a DEF Starts, SyncAllAccounts, CreateCalendarAccount, GoogleConnectCallback,
            UpdateCalendarAccount, ResyncCalendarAccount, Begin
  <2> QED BY <2>1, <1>b
<1>3. ASSUME NEW s \in Syncs, Step(s) PROVE BusyEnds'
  <2>1. CASE ListNewAccount(s) \/ Discover(s) \/ CalendarGone(s) \/ Prune(s)
    <3>1. CASE ListNewAccount(s)
      BY <3>1, <1>a, <1>b DEF ListNewAccount, Begin
    <3>2. CASE Discover(s)
      <4> DEFINE x == At("next", {c \in Cals : Upserted[c] = "on"})
      <4>1. x # Idle
        BY <1>a
      <4>2. sync' = [sync EXCEPT ![s] = x] /\ busy' = busy
        BY <3>2 DEF Discover
      <4> QED BY <4>1, <4>2, <1>b
    <3>3. CASE CalendarGone(s) \/ Prune(s)
      <4> DEFINE x == At("next", sync[s].todo)
      <4>1. x # Idle
        BY <1>a
      <4>2. sync' = [sync EXCEPT ![s] = x] /\ busy' = busy
        BY <3>3 DEF CalendarGone, Prune
      <4> QED BY <4>1, <4>2, <1>b
    <3> QED BY <2>1, <3>1, <3>2, <3>3
  <2>2. CASE AccountGone(s) \/ Finish(s)
    BY <2>2, <1>c DEF AccountGone, Finish
  <2>3. CASE \E c \in Cals : Fetch(s, c)
    <3> PICK c \in Cals : Fetch(s, c)
      BY <2>3
    <3> DEFINE x == [pc |-> "store", todo |-> sync[s].todo \ {c}, cal |-> c,
                     left |-> server[c], seen |-> {UidOf[i] : i \in server[c]}]
    <3>1. x # Idle
      BY DEF Idle, At
    <3>2. sync' = [sync EXCEPT ![s] = x] /\ busy' = busy
      BY DEF Fetch
    <3> QED BY <3>1, <3>2, <1>b
  <2>4. CASE \E i \in Items : Store(s, i)
    <3> PICK i \in Items : Store(s, i)
      BY <2>4
    <3> DEFINE x == [sync[s] EXCEPT !.left = @ \ {i}]
    <3>1. x # Idle
      BY DEF Idle, At, Store, TypeOK, Sync
    <3>2. sync' = [sync EXCEPT ![s] = x] /\ busy' = busy
      BY DEF Store
    <3> QED BY <3>1, <3>2, <1>b
  <2> QED BY <1>3, <2>1, <2>2, <2>3, <2>4 DEF Step
<1>4. ASSUME NEW s \in Syncs,
             SkipCalendar(s) \/ GiveUp(s) \/ (s \in Requests /\ FailToList(s)) \/ Restart
      PROVE  BusyEnds'
  <2>1. CASE SkipCalendar(s)
    <3>1. PICK x : x # Idle /\ sync' = [sync EXCEPT ![s] = x] /\ busy' = busy
      <4>1. CASE sync' = [sync EXCEPT ![s] = At("next", @.todo)]
        <5>1. At("next", sync[s].todo) # Idle
          BY <1>a
        <5> QED BY <2>1, <4>1, <5>1 DEF SkipCalendar
      <4>2. CASE sync[s].pc = "next" /\ \E c \in sync[s].todo :
                    sync' = [sync EXCEPT ![s].todo = @ \ {c}]
        <5> PICK c \in sync[s].todo : sync' = [sync EXCEPT ![s].todo = @ \ {c}]
          BY <4>2
        <5> DEFINE x == [sync[s] EXCEPT !.todo = @ \ {c}]
        <5>1. x # Idle
          BY <4>2 DEF Idle, At, TypeOK, Sync
        <5>2. sync' = [sync EXCEPT ![s] = x] /\ busy' = busy
          BY <2>1 DEF SkipCalendar
        <5> QED BY <5>1, <5>2
      <4> QED BY <2>1, <4>1, <4>2 DEF SkipCalendar
    <3> QED BY <3>1, <1>b
  <2>2. CASE GiveUp(s)
    BY <2>2, <1>c DEF GiveUp
  <2>3. CASE s \in Requests /\ FailToList(s)
    <3> DEFINE x == At("discover", {})
    <3>1. x # Idle
      BY <1>a
    <3>2. sync' = [sync EXCEPT ![s] = x] /\ (busy' => busy \/ s \in Requests)
      BY <2>3 DEF FailToList, Begin
    <3> QED BY <3>1, <3>2, <1>b
  <2>4. CASE Restart
    BY <2>4 DEF Restart, BusyEnds
  <2> QED BY <1>4, <2>1, <2>2, <2>3, <2>4
<1>5. ASSUME Changes PROVE BusyEnds'
  BY <1>5 DEF Changes, EditOnServer, ToggleCalendarEnabled, DeleteCalendarAccount, BusyEnds
<1> QED BY <1>1, <1>2, <1>3, <1>4, <1>5, NextCases

(* The busy mark never outlives the requests that set it.                  *)
THEOREM BusyMarkEnds == Spec => []BusyEnds
<1>1. Init => BusyEnds
  BY DEF Init, BusyEnds
<1> QED BY <1>1, TypeInit, TypeNext, BusyNext, PTL DEF Spec

-----------------------------------------------------------------------------
(* Only Store, Prune and the deletion of the account write the cache, and  *)
(* Store never empties a row.                                              *)
LEMMA PruneStep ==
    ASSUME TypeOK, [Next]_vars, NEW c \in Cals, NEW u \in Uids,
           account' \in Connected, cache[c][u] # Nothing, cache'[c][u] = Nothing
    PROVE  \E s \in Syncs : /\ sync[s].pc = "store" /\ sync[s].cal = c
                            /\ sync[s].left = {} /\ u \notin sync[s].seen
<1>0. cache' # cache
  OBVIOUS
<1>1. CASE \E s \in Syncs : Step(s)
  <2> PICK s \in Syncs : Step(s)
    BY <1>1
  <2>1. CASE Prune(s)
    BY <2>1 DEF Prune, TypeOK
  <2>2. ASSUME NEW i \in Items, Store(s, i) PROVE FALSE
    BY <2>2, NothingIsNew DEF Store, TypeOK
  <2> QED BY <1>0, <2>1, <2>2
          DEF Step, ListNewAccount, Discover, AccountGone, CalendarGone, Finish, Fetch, database
<1>2. CASE ~ \E s \in Syncs : Step(s)
  <2>1. UNCHANGED vars => cache' = cache
    BY DEF vars
  <2>2. \A s \in Syncs : Starts(s) => cache' = cache
    BY DEF Starts, SyncAllAccounts, CreateCalendarAccount, GoogleConnectCallback,
           UpdateCalendarAccount, ResyncCalendarAccount, database
  <2>3. \A s \in Syncs : SkipCalendar(s) \/ GiveUp(s) \/ (s \in Requests /\ FailToList(s)) \/ Restart
            => cache' = cache
    BY DEF SkipCalendar, GiveUp, FailToList, Restart, database
  <2>4. Changes => cache' = cache \/ account' = "gone"
    BY DEF Changes, EditOnServer, ToggleCalendarEnabled, DeleteCalendarAccount, database
  <2> QED BY <1>0, <1>2, <2>1, <2>2, <2>3, <2>4, NextCases DEF Connected
<1> QED BY <1>1, <1>2

(* Only an answer of the server takes an event off the kiosk.              *)
THEOREM PruneNeedsTheAnswer == Spec => PruneNeedsAnswer
<1>1. TypeOK /\ [Next]_vars =>
        [\A c \in Cals, u \in Uids :
           account' \in Connected /\ cache[c][u] # Nothing /\ cache'[c][u] = Nothing =>
              \E s \in Syncs : /\ sync[s].pc = "store" /\ sync[s].cal = c
                               /\ sync[s].left = {} /\ u \notin sync[s].seen]_vars
  BY PruneStep
<1> QED BY <1>1, TypeInit, TypeNext, PTL DEF Spec, PruneNeedsAnswer

(* No sync switches a calendar the parents can see.                        *)
THEOREM ChoicesAreKept == Spec => SyncKeepsChoices
<1>1. ASSUME NEW s \in Syncs, NEW c \in Cals, Step(s), calendar[c] # "absent"
      PROVE  calendar'[c] = calendar[c]
  BY <1>1 DEF Step, ListNewAccount, Discover, AccountGone, CalendarGone, Prune, Finish, Fetch,
              Store, Upserted, Discovered, database
<1>2. [Next]_vars =>
        [\A s \in Syncs, c \in Cals :
           Step(s) /\ calendar[c] # "absent" => calendar'[c] = calendar[c]]_vars
  BY <1>1
<1> QED BY <1>2, PTL DEF Spec, SyncKeepsChoices
=============================================================================
