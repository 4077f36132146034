---------------------------- MODULE PluginsProofs ----------------------------
(***************************************************************************)
(* Proofs about Plugins, for any events, ids and bounds: the rows keep     *)
(* their types and foreign keys, and by which steps alone a served event   *)
(* leaves the kiosk and a plugin loses the calendar recorded for it.       *)
(***************************************************************************)
EXTENDS Plugins, TLAPS

Tokens == {None, "live", "stale"}
Job == [pc : {"idle", "wait", "done", "call", "register", "store", "write",
              "provision", "discover", "record", "load"},
        what : {"nothing", "manifest", "events", "view", "action"},
        stored : Tokens, token : Tokens, retried : BOOLEAN,
        cal : Accounts \cup {None}, event : Events \cup {None},
        got : SUBSET Events, todo : SUBSET Events, seen : SUBSET Events]
Sweeping == [pc : {"off", "due", "on"}, todo : SUBSET Accounts, doomed : Accounts \cup {None},
             blind : BOOLEAN, hit : BOOLEAN, left : SUBSET Accounts]

(* Goroutines and the clean-up belong to a running process; what is to be  *)
(* written is an answer, and every answer has the steady event.            *)
Processes ==
    /\ job \in [Workers -> Job]
    /\ sweep \in Sweeping
    /\ hhq = "down" => \A w \in Workers : job[w].pc = "idle"
    /\ Steady \in plugin.serves
    /\ \A w \in Workers : job[w].pc = "write" => Steady \in job[w].got

(* A calendar is recorded only once the plugin has answered, and while one *)
(* is made the row has none.  The calendar that the clean-up is about to   *)
(* delete is neither recorded nor about to be, unless the clean-up was     *)
(* blind for its owner.                                                    *)
Owned ==
    /\ row.calendar # None => row.known /\ row.healthy
    /\ job["reg"].pc # "idle" => row.known
    /\ job["reg"].pc \in {"provision", "discover", "record"} => row.healthy
    /\ job["reg"].pc \in {"discover", "record"} =>
          row.calendar = None /\ job["reg"].cal \in Accounts
Waiting ==
    sweep.doomed # None /\ ~sweep.blind =>
        sweep.doomed # row.calendar /\ ~ToBeRecorded(sweep.doomed)

PluginInv == TypeOK /\ Processes /\ Owned /\ Waiting

-----------------------------------------------------------------------------
LEMMA Jobs ==
    /\ Idle \in Job /\ Idle.pc = "idle"
    /\ \A pc \in {"wait", "done", "provision", "load"} : At(pc) \in Job /\ At(pc).pc = pc
  BY DEF Idle, At, Job, Tokens

LEMMA Calls ==
    ASSUME TypeOK, NEW what \in {"manifest", "events", "view", "action"},
           NEW event \in Events \cup {None}
    PROVE  Calling(what, event) \in Job /\ Calling(what, event).pc = "call"
<1> DEFINE stored == IF what = "action" THEN row.token ELSE None
           job1 == [Idle EXCEPT !.pc = "call"]
           job2 == [job1 EXCEPT !.what = what]
           job3 == [job2 EXCEPT !.event = event]
           job4 == [job3 EXCEPT !.stored = stored]
           job5 == [job4 EXCEPT !.token = row.token]
           job6 == [job5 EXCEPT !.cal = row.calendar]
<1>1. stored \in Tokens /\ row.token \in Tokens /\ row.calendar \in Accounts \cup {None}
  BY DEF TypeOK, Tokens
<1>2. Calling(what, event) = job6
  BY DEF Calling
<1>. HIDE DEF stored
<1>3. job1 \in Job /\ job1.pc = "call"
  BY Jobs DEF Job
<1>. HIDE DEF job1
<1>4. job3 \in Job /\ job3.pc = "call"
  BY <1>3 DEF Job
<1>. HIDE DEF job3
<1>5. job6 \in Job /\ job6.pc = "call"
  BY <1>1, <1>4 DEF Job
<1>. QED
  BY <1>2, <1>5

LEMMA OutdatedTokens == \A t \in Tokens : Outdated(t) \in Tokens
  BY DEF Outdated, Tokens

LEMMA OutdatedRow ==
    ASSUME TypeOK
    PROVE  /\ RowOutdated \in [known : BOOLEAN, enabled : BOOLEAN, token : Tokens,
                               provides : BOOLEAN, healthy : BOOLEAN,
                               calendar : Accounts \cup {None}]
           /\ RowOutdated.known = row.known /\ RowOutdated.healthy = row.healthy
           /\ RowOutdated.calendar = row.calendar
<1>1. Outdated(row.token) \in Tokens
  BY OutdatedTokens DEF TypeOK, Tokens
<1>. QED
  BY <1>1 DEF RowOutdated, TypeOK, Tokens

LEMMA OutdatedJobs ==
    ASSUME job \in [Workers -> Job]
    PROVE  /\ JobOutdated \in [Workers -> Job]
           /\ \A w \in Workers : /\ JobOutdated[w].pc = job[w].pc
                                 /\ JobOutdated[w].cal = job[w].cal
                                 /\ JobOutdated[w].got = job[w].got
<1>1. ASSUME NEW w \in Workers
      PROVE  /\ JobOutdated[w] \in Job /\ JobOutdated[w].pc = job[w].pc
             /\ JobOutdated[w].cal = job[w].cal /\ JobOutdated[w].got = job[w].got
  <2> DEFINE j == job[w]
             t == Outdated(j.token)
             s == Outdated(j.stored)
             k == [j EXCEPT !.token = t]
             l == [k EXCEPT !.stored = s]
  <2>1. j \in Job /\ t \in Tokens /\ s \in Tokens
    BY OutdatedTokens DEF Job
  <2>2. JobOutdated[w] = l
    BY DEF JobOutdated
  <2>. HIDE DEF j, t, s
  <2>3. k \in Job /\ k.pc = j.pc /\ k.cal = j.cal /\ k.got = j.got
    BY <2>1 DEF Job
  <2>. HIDE DEF k
  <2>4. l \in Job /\ l.pc = j.pc /\ l.cal = j.cal /\ l.got = j.got
    BY <2>1, <2>3 DEF Job
  <2>. QED
    BY <2>2, <2>4 DEF j
<1>. QED
  BY <1>1 DEF JobOutdated

LEMMA Written ==
    ASSUME NEW jobs \in [Workers -> Job], NEW w \in Workers, NEW j \in Job,
           job' = [jobs EXCEPT ![w] = j]
    PROVE  /\ job' \in [Workers -> Job]
           /\ job'[w] = j
           /\ \A v \in Workers : v # w => job'[v] = jobs[v]
  OBVIOUS

(* What a step may do to the goroutines: none begins to provision, none    *)
(* gets something to write that is no answer.                              *)
Careful ==
    /\ job' \in [Workers -> Job]
    /\ \A v \in Workers : job'[v].pc = "write" => Steady \in job'[v].got
    /\ job'["reg"].pc # "idle" => job["reg"].pc # "idle"
    /\ job'["reg"].pc \in {"provision", "discover", "record"} =>
          job'["reg"].pc = job["reg"].pc /\ job'["reg"].cal = job["reg"].cal

LEMMA CarefulKeeps ==
    ASSUME PluginInv, Careful, TypeOK', Steady \in plugin'.serves,
           sweep' \in Sweeping, sweep'.doomed = sweep.doomed, sweep'.blind = sweep.blind,
           hhq' = "down" => UNCHANGED <<hhq, job>>,
           row'.known = row.known, row'.calendar = row.calendar, row.healthy => row'.healthy
    PROVE  PluginInv'
  BY DEF PluginInv, Careful, Processes, Owned, Waiting, ToBeRecorded, Workers

(* One goroutine goes on, by itself or after an issue of a new token.      *)
LEMMA OneMoves ==
    ASSUME PluginInv, NEW jobs \in {job, JobOutdated}, NEW w \in Workers, NEW j \in Job,
           job' = [jobs EXCEPT ![w] = j],
           j.pc = "write" => Steady \in j.got,
           w = "reg" =>
              /\ j.pc # "idle" => job[w].pc # "idle"
              /\ j.pc \notin {"provision", "discover", "record"}
    PROVE  Careful
<1>1. jobs \in [Workers -> Job]
  BY OutdatedJobs DEF PluginInv, Processes
<1>2. \A v \in Workers : jobs[v].pc = job[v].pc /\ jobs[v].cal = job[v].cal /\ jobs[v].got = job[v].got
  BY OutdatedJobs DEF PluginInv, Processes
<1>3. /\ job' \in [Workers -> Job] /\ job'[w] = j
      /\ \A v \in Workers : v # w => job'[v] = jobs[v]
  BY <1>1, Written
<1>. QED
  BY <1>2, <1>3 DEF Careful, PluginInv, Processes, Workers

(* A process that is down has no goroutine.                                *)
LEMMA Running ==
    ASSUME PluginInv, NEW w \in Workers, job[w].pc # "idle"
    PROVE  hhq # "down" /\ Started # "down" /\ hhq \in {"booting", "up"} /\ Started \in {"booting", "up"}
  BY DEF PluginInv, Processes, Started, TypeOK

LEMMA Failing ==
    ASSUME PluginInv, NEW w \in Workers, job[w].pc # "idle"
    PROVE  /\ AfterFailure(w) \in Job
           /\ AfterFailure(w).pc \in {"idle", "wait", "done"}
  BY Jobs DEF AfterFailure

LEMMA FailKeeps ==
    ASSUME PluginInv, NEW w \in Workers, job[w].pc # "idle", Fail(w)
    PROVE  PluginInv'
<1>1. Careful
  BY Failing, OneMoves DEF Fail
<1>2. TypeOK' /\ hhq' # "down"
  BY Running DEF PluginInv, TypeOK, Fail, calendars
<1>. QED
  BY <1>1, <1>2, CarefulKeeps DEF Fail, PluginInv, Processes

-----------------------------------------------------------------------------
(* The calls: none touches the tables of calendars.                        *)
LEMMA CallsKeep ==
    ASSUME PluginInv, NEW w \in Workers,
           Attempt \/ Refused(w) \/ Rejected(w) \/ Register(w) \/ SetToken(w) \/ FirstSync
    PROVE  PluginInv'
<1>1. CASE Attempt
  <2> DEFINE c == Calling("manifest", None)
             j == [c EXCEPT !.pc = IF row.token = None THEN "register" ELSE "call"]
  <2>1. job["reg"].pc = "wait" /\ job' = [job EXCEPT !["reg"] = j]
        /\ UNCHANGED <<listed, hhq, row, account, cache, plugin, sweep>>
    BY <1>1 DEF Attempt, calendars
  <2>2. c \in Job
    BY Calls DEF PluginInv
  <2>. HIDE DEF c
  <2>3. j \in Job /\ j.pc \in {"register", "call"}
    BY <2>2 DEF Job
  <2>. HIDE DEF j
  <2>4. Careful
    BY <2>1, <2>3, OneMoves DEF Workers
  <2>5. TypeOK' /\ hhq # "down"
    BY <2>1, Running DEF PluginInv, TypeOK, Workers
  <2>. QED
    BY <2>1, <2>4, <2>5, CarefulKeeps DEF PluginInv, Processes
<1>2. CASE Refused(w)
  <2>1. job[w].pc # "idle" /\ Fail(w)
    BY <1>2 DEF Refused
  <2>. QED
    BY <2>1, FailKeeps
<1>3. CASE Rejected(w)
  <2>1. CASE Fail(w)
    <3>1. job[w].pc # "idle"
      BY <1>3 DEF Rejected, Reaches
    <3>. QED
      BY <2>1, <3>1, FailKeeps
  <2>2. CASE ~Fail(w)
    <3> DEFINE k == [job[w] EXCEPT !.pc = "register"]
               j == [k EXCEPT !.retried = TRUE]
    <3>1. job[w].pc = "call" /\ job' = [job EXCEPT ![w] = j]
          /\ UNCHANGED <<listed, hhq, row, account, cache, plugin, sweep>>
      BY <1>3, <2>2 DEF Rejected, Reaches, calendars
    <3>2. job[w] \in Job
      BY DEF PluginInv, Processes
    <3>3. k \in Job /\ k.pc = "register"
      BY <3>2 DEF Job
    <3>. HIDE DEF k
    <3>4. j \in Job /\ j.pc = "register"
      BY <3>3 DEF Job
    <3>. HIDE DEF j
    <3>5. Careful
      BY <3>1, <3>4, OneMoves
    <3>6. TypeOK' /\ hhq # "down"
      BY <3>1, Running DEF PluginInv, TypeOK
    <3>. QED
      BY <3>1, <3>5, <3>6, CarefulKeeps DEF PluginInv, Processes
  <2>. QED
    BY <2>1, <2>2
<1>4. CASE Register(w)
  <2> DEFINE i == JobOutdated[w]
             k == [i EXCEPT !.pc = "store"]
             j == [k EXCEPT !.token = "live"]
  <2>1. job[w].pc = "register" /\ job' = [JobOutdated EXCEPT ![w] = j] /\ row' = RowOutdated
        /\ UNCHANGED <<listed, hhq, account, cache, plugin, sweep>>
    BY <1>4 DEF Register, Reaches, calendars
  <2>2. i \in Job
    BY OutdatedJobs DEF PluginInv, Processes
  <2>. HIDE DEF i
  <2>3. k \in Job /\ k.pc = "store"
    BY <2>2 DEF Job
  <2>. HIDE DEF k
  <2>4. j \in Job /\ j.pc = "store"
    BY <2>3 DEF Job, Tokens
  <2>. HIDE DEF j
  <2>5. Careful
    BY <2>1, <2>4, OneMoves
  <2>6. TypeOK' /\ hhq # "down"
    BY <2>1, OutdatedRow, Running DEF PluginInv, TypeOK, Tokens
  <2>7. row'.known = row.known /\ row'.calendar = row.calendar /\ row'.healthy = row.healthy
    BY <2>1, OutdatedRow DEF PluginInv
  <2>. QED
    BY <2>1, <2>5, <2>6, <2>7, CarefulKeeps DEF PluginInv, Processes
<1>5. CASE SetToken(w)
  <2> DEFINE j == [job[w] EXCEPT !.pc = "call"]
  <2>1. job[w].pc = "store" /\ job' = [job EXCEPT ![w] = j]
        /\ row' = [row EXCEPT !.token = job[w].token]
        /\ UNCHANGED <<listed, hhq, account, cache, plugin, sweep>>
    BY <1>5 DEF SetToken, calendars
  <2>2. job[w] \in Job /\ job[w].token \in Tokens
    BY DEF PluginInv, Processes, Job
  <2>3. j \in Job /\ j.pc = "call"
    BY <2>2 DEF Job
  <2>. HIDE DEF j
  <2>4. Careful
    BY <2>1, <2>3, OneMoves
  <2>5. /\ row' \in [known : BOOLEAN, enabled : BOOLEAN, token : Tokens, provides : BOOLEAN,
                     healthy : BOOLEAN, calendar : Accounts \cup {None}]
        /\ row'.known = row.known /\ row'.calendar = row.calendar /\ row'.healthy = row.healthy
    BY <2>1, <2>2 DEF PluginInv, TypeOK, Tokens
  <2>6. TypeOK' /\ hhq # "down"
    BY <2>1, <2>5, Running DEF PluginInv, TypeOK, Tokens
  <2>. QED
    BY <2>1, <2>4, <2>5, <2>6, CarefulKeeps DEF PluginInv, Processes
<1>6. CASE FirstSync
  <2> DEFINE j == Calling("events", None)
  <2>1. job["reg"].pc = "load" /\ job' = [job EXCEPT !["reg"] = j]
        /\ UNCHANGED <<listed, hhq, row, account, cache, plugin, sweep>>
    BY <1>6 DEF FirstSync, calendars
  <2>2. j \in Job /\ j.pc = "call"
    BY Calls DEF PluginInv
  <2>. HIDE DEF j
  <2>3. Careful
    BY <2>1, <2>2, OneMoves DEF Workers
  <2>4. TypeOK' /\ hhq # "down"
    BY <2>1, Running DEF PluginInv, TypeOK, Workers
  <2>. QED
    BY <2>1, <2>3, <2>4, CarefulKeeps DEF PluginInv, Processes
<1>. QED
  BY <1>1, <1>2, <1>3, <1>4, <1>5, <1>6

(* The goroutines of the scheduler, the kiosk and the dashboard begin.     *)
LEMMA BeginningsKeep ==
    ASSUME PluginInv, SyncPass \/ \E what \in {"view", "action", "events"}, e \in Events \cup {None} : Tap(what, e)
    PROVE  PluginInv'
<1>1. PICK w \in {"sched", "hand"}, what \in {"view", "action", "events"}, e \in Events \cup {None} :
         job' = [job EXCEPT ![w] = Calling(what, e)]
  BY DEF SyncPass, Tap
<1>2. hhq = "up" /\ UNCHANGED <<listed, hhq, row, account, cache, plugin, sweep>>
  BY DEF SyncPass, Tap, calendars
<1>3. Calling(what, e) \in Job /\ Calling(what, e).pc = "call"
  BY Calls DEF PluginInv
<1>4. Careful
  BY <1>1, <1>3, OneMoves DEF Workers
<1>5. TypeOK'
  BY <1>2 DEF PluginInv, TypeOK
<1>. QED
  BY <1>2, <1>4, <1>5, CarefulKeeps DEF PluginInv, Processes

(* An answer, or an action that came through and whose answer is lost.     *)
LEMMA WithdrawnKeeps ==
    ASSUME PluginInv, NEW e
    PROVE  Withdrawn(e) \in [up : BOOLEAN, serves : SUBSET Events] /\ Steady \in Withdrawn(e).serves
  BY DEF PluginInv, Processes, TypeOK, Withdrawn

LEMMA AnswersKeep ==
    ASSUME PluginInv, NEW w \in Workers, Answered(w)
    PROVE  PluginInv'
<1>1. /\ job[w].pc = "call" /\ hhq # "down"
      /\ UNCHANGED <<listed, hhq, account, cache, sweep>>
  BY Running DEF Answered, Reaches, calendars
<1>2. job[w] \in Job
  BY DEF PluginInv, Processes
<1>3. CASE /\ row' = [row EXCEPT !.provides = TRUE, !.healthy = TRUE]
           /\ job' = [job EXCEPT ![w] = At("provision")]
           /\ UNCHANGED plugin
  <2> DEFINE r == [row EXCEPT !.provides = TRUE]
             q == [r EXCEPT !.healthy = TRUE]
  <2>1. /\ r \in [known : BOOLEAN, enabled : BOOLEAN, token : {None, "live", "stale"},
                  provides : BOOLEAN, healthy : BOOLEAN, calendar : Accounts \cup {None}]
        /\ r.known = row.known /\ r.calendar = row.calendar
    BY DEF PluginInv, TypeOK
  <2>2. row' = q
    BY <1>3
  <2>. HIDE DEF r
  <2>3. /\ row' \in [known : BOOLEAN, enabled : BOOLEAN, token : {None, "live", "stale"},
                     provides : BOOLEAN, healthy : BOOLEAN, calendar : Accounts \cup {None}]
        /\ row'.known = row.known /\ row'.calendar = row.calendar /\ row'.healthy
    BY <2>1, <2>2
  <2>4. TypeOK'
    BY <1>1, <1>3, <2>3 DEF PluginInv, TypeOK
  <2>5. /\ job' \in [Workers -> Job] /\ job'[w] = At("provision")
        /\ \A v \in Workers : v # w => job'[v] = job[v]
    BY <1>3, Jobs, Written DEF PluginInv, Processes
  <2>6. At("provision").pc = "provision"
    BY Jobs
  <2>7. Processes'
    BY <1>1, <1>3, <2>5, <2>6 DEF PluginInv, Processes
  <2>8. job["reg"].pc \in {"discover", "record"} <=> job["reg"].pc \in {"discover", "record"} /\ w # "reg"
    BY <1>1
  <2>9. Owned' /\ Waiting'
    BY <1>1, <2>3, <2>5, <2>6 DEF PluginInv, Owned, Waiting, ToBeRecorded, Workers
  <2>. QED
    BY <2>4, <2>7, <2>9 DEF PluginInv
<1>4. CASE /\ job' = [job EXCEPT ![w].pc = "write", ![w].got = plugin.serves,
                                 ![w].todo = plugin.serves]
           /\ UNCHANGED <<row, plugin>>
  <2> DEFINE k == [job[w] EXCEPT !.pc = "write"]
             l == [k EXCEPT !.got = plugin.serves]
             j == [l EXCEPT !.todo = plugin.serves]
  <2>1. job' = [job EXCEPT ![w] = j]
    BY <1>4
  <2>2. plugin.serves \in SUBSET Events /\ Steady \in plugin.serves
    BY DEF PluginInv, TypeOK, Processes
  <2>3. k \in Job /\ k.pc = "write"
    BY <1>2 DEF Job
  <2>. HIDE DEF k
  <2>4. j \in Job /\ j.pc = "write" /\ j.got = plugin.serves
    <3>1. l \in Job /\ l.pc = "write" /\ l.got = plugin.serves
      BY <2>2, <2>3 DEF Job
    <3>. HIDE DEF l
    <3>. QED
      BY <2>2, <3>1 DEF Job
  <2>. HIDE DEF j
  <2>5. Careful
    BY <1>1, <2>1, <2>2, <2>4, OneMoves
  <2>6. TypeOK'
    BY <1>1, <1>4 DEF PluginInv, TypeOK
  <2>. QED
    BY <1>1, <1>4, <2>5, <2>6, CarefulKeeps DEF PluginInv, Processes
<1>5. CASE /\ row' = [row EXCEPT !.healthy = TRUE]
           /\ job' = [job EXCEPT ![w] = Idle]
           /\ UNCHANGED plugin
  <2>1. Careful
    BY <1>1, <1>5, Jobs, OneMoves
  <2>2. TypeOK' /\ row'.known = row.known /\ row'.calendar = row.calendar /\ row'.healthy
    BY <1>1, <1>5 DEF PluginInv, TypeOK
  <2>. QED
    BY <1>1, <1>5, <2>1, <2>2, CarefulKeeps DEF PluginInv, Processes
<1>6. CASE /\ plugin' = Withdrawn(job[w].event)
           /\ job' = [job EXCEPT ![w].what = "events", ![w].event = None,
                                 ![w].token = job[w].stored, ![w].stored = None,
                                 ![w].retried = FALSE]
           /\ UNCHANGED row
  <2> DEFINE k == [job[w] EXCEPT !.what = "events"]
             l == [k EXCEPT !.event = None]
             m == [l EXCEPT !.token = job[w].stored]
             n == [m EXCEPT !.stored = None]
             j == [n EXCEPT !.retried = FALSE]
  <2>1. job' = [job EXCEPT ![w] = j]
    BY <1>6
  <2>2. job[w].stored \in Tokens
    BY <1>2 DEF Job
  <2>3. l \in Job /\ l.pc = "call"
    BY <1>1, <1>2 DEF Job
  <2>. HIDE DEF l
  <2>4. j \in Job /\ j.pc = "call"
    BY <2>2, <2>3 DEF Job, Tokens
  <2>. HIDE DEF j
  <2>5. Careful
    BY <1>1, <2>1, <2>4, OneMoves
  <2>6. TypeOK' /\ Steady \in plugin'.serves
    BY <1>1, <1>6, WithdrawnKeeps DEF PluginInv, TypeOK
  <2>. QED
    BY <1>1, <1>6, <2>5, <2>6, CarefulKeeps DEF PluginInv, Processes
<1>. QED
  BY <1>3, <1>4, <1>5, <1>6 DEF Answered

LEMMA LostAnswersKeep ==
    ASSUME PluginInv, NEW w \in Workers, AnswerLost(w)
    PROVE  PluginInv'
<1>1. /\ job[w].pc # "idle" /\ hhq' = Started /\ UNCHANGED <<listed, account, cache, sweep>>
  BY DEF AnswerLost, Reaches, calendars, Mishap
<1>2. hhq' \in {"booting", "up"}
  BY <1>1, Running
<1>3. CASE /\ row' = RowOutdated
           /\ job' = [JobOutdated EXCEPT ![w] = AfterFailure(w)]
           /\ UNCHANGED plugin
  <2>1. Careful
    BY <1>1, <1>3, Failing, OneMoves
  <2>2. TypeOK' /\ row'.known = row.known /\ row'.calendar = row.calendar /\ row'.healthy = row.healthy
    BY <1>1, <1>2, <1>3, OutdatedRow DEF PluginInv, TypeOK, Tokens
  <2>. QED
    BY <1>1, <1>2, <1>3, <2>1, <2>2, CarefulKeeps DEF PluginInv, Processes
<1>4. CASE /\ plugin' = Withdrawn(job[w].event)
           /\ job' = [job EXCEPT ![w] = AfterFailure(w)]
           /\ UNCHANGED row
  <2>1. Careful
    BY <1>1, <1>4, Failing, OneMoves
  <2>2. TypeOK' /\ Steady \in plugin'.serves
    BY <1>1, <1>2, <1>4, WithdrawnKeeps DEF PluginInv, TypeOK
  <2>. QED
    BY <1>1, <1>2, <1>4, <2>1, <2>2, CarefulKeeps DEF PluginInv, Processes
<1>. QED
  BY <1>3, <1>4 DEF AnswerLost

-----------------------------------------------------------------------------
(* What is written is an answer, for the calendar of the call.             *)
LEMMA NextIsToDo ==
    ASSUME NEW w \in Workers, NEW e, IsNext(w, e)
    PROVE  job[w].pc = "write" /\ e \in job[w].todo
<1>1. job[w].pc = "write" /\ job[w].todo # {} /\ e = CHOOSE first \in job[w].todo : TRUE
  BY DEF IsNext
<1>2. PICK f : f \in job[w].todo
  BY <1>1
<1>. QED
  BY <1>1, <1>2

LEMMA UpsertKeeps ==
    ASSUME PluginInv, NEW w \in Workers, NEW e \in Events, Upsert(w, e) \/ UpsertFails(w, e)
    PROVE  PluginInv'
<1>1. /\ job[w].pc = "write" /\ e \in job[w].todo
      /\ UNCHANGED <<listed, hhq, row, account, plugin, sweep>>
  BY NextIsToDo DEF Upsert, UpsertFails, calendars
<1>2. job[w] \in Job /\ job[w].todo \in SUBSET Events /\ Steady \in job[w].got
      /\ job[w].cal \in Accounts \cup {None}
  BY <1>1 DEF PluginInv, Processes, Job
<1> DEFINE rest == job[w].todo \ {e}
           k == [job[w] EXCEPT !.todo = rest]
           j == [k EXCEPT !.seen = @ \cup {e}]
<1>3. rest \in SUBSET Events
  BY <1>2
<1>. HIDE DEF rest
<1>4. k \in Job /\ k.pc = "write" /\ k.got = job[w].got
  BY <1>1, <1>2, <1>3 DEF Job
<1>5. j \in Job /\ j.pc = "write" /\ j.got = job[w].got
  <2>1. k.seen \in SUBSET Events
    BY <1>4 DEF Job
  <2>. HIDE DEF k
  <2>. QED
    BY <1>4, <2>1 DEF Job
<1>6. CASE HasCalendar(w) /\ Upsert(w, e)
  <2>1. /\ cache' = [cache EXCEPT ![job[w].cal] = @ \cup {e}]
        /\ job[w].cal \in Accounts /\ account[job[w].cal] = "full"
        /\ job' = [job EXCEPT ![w].todo = rest, ![w].seen = @ \cup {e}]
    BY <1>2, <1>6 DEF Upsert, HasCalendar, rest
  <2>4. job' = [job EXCEPT ![w] = j]
    BY <1>1, <1>2, <2>1 DEF PluginInv, Processes
  <2>. HIDE DEF j
  <2>2. Careful
    BY <1>1, <1>2, <1>5, <2>4, OneMoves
  <2>3. TypeOK' /\ hhq # "down"
    BY <1>1, <2>1, Running DEF PluginInv, TypeOK
  <2>. QED
    BY <1>1, <2>2, <2>3, CarefulKeeps DEF PluginInv, Processes
<1>7. CASE ~(HasCalendar(w) /\ Upsert(w, e))
  <2>1. UNCHANGED cache /\ job' = [job EXCEPT ![w] = k]
    BY <1>7 DEF Upsert, UpsertFails, calendars, rest
  <2>. HIDE DEF k, j
  <2>2. Careful
    BY <1>1, <1>2, <1>4, <2>1, OneMoves
  <2>3. TypeOK' /\ hhq # "down"
    BY <1>1, <2>1, Running DEF PluginInv, TypeOK
  <2>. QED
    BY <1>1, <2>2, <2>3, CarefulKeeps DEF PluginInv, Processes
<1>. QED
  BY <1>6, <1>7

LEMMA PruneKeeps ==
    ASSUME PluginInv, NEW w \in Workers, PruneStale(w) \/ PruneFails(w)
    PROVE  PluginInv'
<1> DEFINE j == IF w = "reg" THEN At("done") ELSE Idle
<1>1. /\ job[w].pc = "write" /\ job' = [job EXCEPT ![w] = j] /\ hhq' = Started
      /\ row' = [row EXCEPT !.healthy = row.known]
      /\ \/ cache' = [a \in Accounts |-> IF a = job[w].cal THEN cache[a] \cap job[w].seen
                                          ELSE cache[a]]
         \/ cache' = cache
      /\ UNCHANGED <<listed, account, plugin, sweep>>
  BY DEF PruneStale, PruneFails, Finished
<1>2. j \in Job /\ j.pc \in {"done", "idle"}
  BY Jobs
<1>. HIDE DEF j
<1>3. hhq' \in {"booting", "up"}
  BY <1>1, Running
<1>4. /\ row' \in [known : BOOLEAN, enabled : BOOLEAN, token : {None, "live", "stale"},
                   provides : BOOLEAN, healthy : BOOLEAN, calendar : Accounts \cup {None}]
      /\ row'.known = row.known /\ row'.calendar = row.calendar /\ row'.healthy = row.known
  BY <1>1 DEF PluginInv, TypeOK
<1>5. TypeOK'
  BY <1>1, <1>3, <1>4 DEF PluginInv, TypeOK
<1>6. Careful
  BY <1>1, <1>2, OneMoves
<1>7. Processes'
  BY <1>1, <1>3, <1>6 DEF Careful, PluginInv, Processes
<1>8. Owned' /\ Waiting'
  BY <1>1, <1>4, <1>6 DEF Careful, PluginInv, Owned, Waiting, ToBeRecorded
<1>. QED
  BY <1>5, <1>7, <1>8 DEF PluginInv

-----------------------------------------------------------------------------
(* A calendar is made in an account the clean-up is not about to delete.   *)
LEMMA CreateAccountKeeps ==
    ASSUME PluginInv, CreateAccount
    PROVE  PluginInv'
<1>1. /\ job["reg"].pc = "provision" /\ job["reg"] \in Job /\ "reg" \in Workers
      /\ UNCHANGED <<listed, hhq, row, cache, plugin, sweep>>
  BY DEF CreateAccount, PluginInv, Processes, Workers
<1>2. hhq # "down" /\ row.known /\ row.healthy
  BY <1>1, Running DEF PluginInv, Owned
<1>3. CASE row.calendar # None
  <2> DEFINE j == [job["reg"] EXCEPT !.pc = "load"]
  <2>1. job' = [job EXCEPT !["reg"] = j] /\ UNCHANGED account
    BY <1>3 DEF CreateAccount
  <2>2. j \in Job /\ j.pc = "load"
    BY <1>1 DEF Job
  <2>. HIDE DEF j
  <2>3. Careful
    BY <1>1, <2>1, <2>2, OneMoves
  <2>4. TypeOK'
    BY <1>1, <2>1 DEF PluginInv, TypeOK
  <2>. QED
    BY <1>1, <1>2, <2>3, <2>4, CarefulKeeps DEF PluginInv, Processes
<1>4. CASE row.calendar = None
  <2> DEFINE a == FreshAccount
             k == [job["reg"] EXCEPT !.pc = "discover"]
             j == [k EXCEPT !.cal = a]
  <2>1. /\ \E b \in Accounts : IsFresh(b)
        /\ account' = [account EXCEPT ![a] = "bare"] /\ job' = [job EXCEPT !["reg"] = j]
    BY <1>4 DEF CreateAccount
  <2>2. a \in Accounts /\ IsFresh(a)
    BY <2>1 DEF FreshAccount
  <2>3. a \in Accounts /\ account[a] = "free" /\ a \notin sweep.todo \cup {sweep.doomed}
    BY <2>2 DEF IsFresh
  <2>. HIDE DEF a
  <2>4. k \in Job /\ k.pc = "discover"
    BY <1>1 DEF Job
  <2>. HIDE DEF k
  <2>5. j \in Job /\ j.pc = "discover" /\ j.cal = a
    BY <2>3, <2>4 DEF Job
  <2>. HIDE DEF j
  <2>6. /\ job' \in [Workers -> Job] /\ job'["reg"] = j
        /\ \A v \in Workers : v # "reg" => job'[v] = job[v]
    BY <1>1, <2>1, <2>5, Written DEF PluginInv, Processes
  <2>7. TypeOK'
    BY <1>1, <1>4, <2>1, <2>3 DEF PluginInv, TypeOK
  <2>8. Processes'
    BY <1>1, <1>2, <2>5, <2>6 DEF PluginInv, Processes
  <2>9. Owned' /\ Waiting'
    BY <1>1, <1>2, <1>4, <2>3, <2>5, <2>6 DEF PluginInv, Owned, Waiting, ToBeRecorded
  <2>. QED
    BY <2>7, <2>8, <2>9 DEF PluginInv
<1>. QED
  BY <1>3, <1>4

LEMMA CreateCalendarKeeps ==
    ASSUME PluginInv, CreateCalendar
    PROVE  PluginInv'
<1> DEFINE j == [job["reg"] EXCEPT !.pc = "record"]
           a == job["reg"].cal
<1>1. /\ job["reg"].pc = "discover" /\ job["reg"] \in Job /\ "reg" \in Workers
      /\ account' = [account EXCEPT ![a] = "full"] /\ job' = [job EXCEPT !["reg"] = j]
      /\ UNCHANGED <<listed, hhq, row, cache, plugin, sweep>>
  BY DEF CreateCalendar, PluginInv, Processes, Workers
<1>2. hhq # "down" /\ row.known /\ row.healthy /\ row.calendar = None /\ a \in Accounts
  BY <1>1, Running DEF PluginInv, Owned
<1>3. j \in Job /\ j.pc = "record" /\ j.cal = a
  BY <1>1 DEF Job
<1>. HIDE DEF j
<1>4. /\ job' \in [Workers -> Job] /\ job'["reg"] = j
      /\ \A v \in Workers : v # "reg" => job'[v] = job[v]
  BY <1>1, <1>3, Written DEF PluginInv, Processes
<1>5. TypeOK'
  BY <1>1, <1>2 DEF PluginInv, TypeOK
<1>6. Processes'
  BY <1>1, <1>2, <1>3, <1>4 DEF PluginInv, Processes
<1>7. Owned' /\ Waiting'
  BY <1>1, <1>2, <1>3, <1>4 DEF PluginInv, Owned, Waiting, ToBeRecorded
<1>. QED
  BY <1>5, <1>6, <1>7 DEF PluginInv

LEMMA SetCalendarIDKeeps ==
    ASSUME PluginInv, SetCalendarID
    PROVE  PluginInv'
<1> DEFINE a == job["reg"].cal
<1>1. /\ job["reg"].pc = "record" /\ "reg" \in Workers
      /\ UNCHANGED <<listed, account, cache, plugin, sweep>>
  BY DEF SetCalendarID, Workers, calendars
<1>2. /\ hhq \in {"booting", "up"} /\ Started \in {"booting", "up"}
      /\ row.known /\ row.healthy /\ row.calendar = None /\ a \in Accounts
  BY <1>1, Running DEF PluginInv, Owned
<1>3. CASE account[a] = "full"
  <2>1. row' = [row EXCEPT !.calendar = a] /\ job' = [job EXCEPT !["reg"] = At("load")] /\ hhq' = hhq
    BY <1>3 DEF SetCalendarID
  <2>2. /\ row' \in [known : BOOLEAN, enabled : BOOLEAN, token : {None, "live", "stale"},
                     provides : BOOLEAN, healthy : BOOLEAN, calendar : Accounts \cup {None}]
        /\ row'.known /\ row'.healthy /\ row'.calendar = a
    BY <1>2, <2>1 DEF PluginInv, TypeOK
  <2>3. TypeOK'
    BY <1>1, <1>3, <2>1, <2>2 DEF PluginInv, TypeOK
  <2>4. Careful
    BY <1>1, <2>1, Jobs, OneMoves
  <2>5. job'["reg"].pc = "load"
    BY <1>1, <2>1, Jobs DEF PluginInv, Processes
  <2>6. Processes'
    BY <1>1, <1>2, <2>1, <2>4 DEF Careful, PluginInv, Processes
  <2>7. Owned' /\ Waiting'
    BY <1>1, <2>2, <2>5 DEF PluginInv, Owned, Waiting, ToBeRecorded
  <2>. QED
    BY <2>3, <2>6, <2>7 DEF PluginInv
<1>4. CASE account[a] # "full"
  <2>1. job' = [job EXCEPT !["reg"] = At("wait")] /\ hhq' = Started /\ row' = row
    BY <1>4 DEF SetCalendarID
  <2>2. Careful
    BY <1>1, <2>1, Jobs, OneMoves
  <2>3. TypeOK'
    BY <1>1, <1>2, <2>1 DEF PluginInv, TypeOK
  <2>. QED
    BY <1>1, <1>2, <2>1, <2>2, <2>3, CarefulKeeps DEF PluginInv, Processes
<1>. QED
  BY <1>3, <1>4

(* An error in between leaves what was made, and the row as it was.        *)
LEMMA ProvisionFailsKeeps ==
    ASSUME PluginInv, ProvisionFails
    PROVE  PluginInv'
<1> DEFINE a == job["reg"].cal
           isLeft == /\ job["reg"].pc = "record" /\ sweep.pc = "on"
                     /\ a \notin sweep.todo \cup {sweep.doomed}
           more == IF isLeft THEN {a} ELSE {}
           left == sweep.left \cup more
<1>1. /\ job["reg"].pc \in {"provision", "discover", "record"} /\ "reg" \in Workers
      /\ job' = [job EXCEPT !["reg"] = At("wait")] /\ hhq' = Started
      /\ sweep' = [sweep EXCEPT !.left = left]
      /\ UNCHANGED <<listed, row, account, cache, plugin>>
  BY DEF ProvisionFails, Workers, calendars
<1>2. sweep \in Sweeping /\ more \in SUBSET Accounts
  BY DEF PluginInv, Processes, Owned
<1>. HIDE DEF more
<1>3. left \in SUBSET Accounts
  BY <1>2 DEF Sweeping
<1>. HIDE DEF left
<1>4. sweep' \in Sweeping /\ sweep'.doomed = sweep.doomed /\ sweep'.blind = sweep.blind
  BY <1>1, <1>2, <1>3 DEF Sweeping
<1>5. Careful
  BY <1>1, Jobs, OneMoves
<1>6. hhq' \in {"booting", "up"}
  BY <1>1, Running
<1>7. TypeOK'
  BY <1>1, <1>6 DEF PluginInv, TypeOK
<1>. QED
  BY <1>1, <1>4, <1>5, <1>6, <1>7, CarefulKeeps DEF PluginInv, Processes

(* The clean-up, which dooms no calendar recorded for a plugin when it     *)
(* looks and sees.                                                         *)
LEMMA SweepKeeps ==
    ASSUME PluginInv, Sweep \/ \E a \in Accounts : LookFails(a)
    PROVE  PluginInv'
<1>1. UNCHANGED <<listed, hhq, plugin, job>>
  BY DEF Sweep, SweepStart, SweepLook, SweepDelete, LookFails
<1>2. CASE SweepStart
  <2> DEFINE some == {a \in Accounts : account[a] # "free"}
  <2>1. /\ sweep' = [sweep EXCEPT !.pc = "on", !.todo = some]
        /\ UNCHANGED <<row, account, cache>>
    BY <1>2 DEF SweepStart, calendars
  <2>2. some \in SUBSET Accounts
    OBVIOUS
  <2>. HIDE DEF some
  <2>3. sweep' \in Sweeping /\ sweep'.doomed = sweep.doomed /\ sweep'.blind = sweep.blind
    BY <2>1, <2>2 DEF PluginInv, Processes, Sweeping
  <2>4. TypeOK' /\ Processes' /\ Owned'
    BY <1>1, <2>1, <2>3 DEF PluginInv, TypeOK, Processes, Owned
  <2>5. Waiting'
    BY <1>1, <2>1, <2>3 DEF PluginInv, Waiting, ToBeRecorded
  <2>. QED
    BY <2>4, <2>5 DEF PluginInv
<1>3. CASE \E a \in Accounts : SweepLook(a)
  <2>1. PICK a \in Accounts : SweepLook(a)
    BY <1>3
  <2> DEFINE rest == sweep.todo \ {a}
             doom == IF Spared(a) THEN None ELSE a
             blind == ~Spared(a) /\ ToBeRecorded(a)
             s == [sweep EXCEPT !.todo = rest]
             t == [s EXCEPT !.doomed = doom]
             u == [t EXCEPT !.blind = blind]
  <2>2. sweep' = u /\ UNCHANGED <<row, account, cache>>
    BY <2>1 DEF SweepLook, calendars
  <2>3. rest \in SUBSET Accounts /\ doom \in Accounts \cup {None} /\ blind \in BOOLEAN
    BY DEF PluginInv, Processes, Sweeping
  <2>4. doom # None => doom = a /\ row.calendar # a /\ (blind <=> ToBeRecorded(a))
    BY NoneIsNew DEF PluginInv, Owned, Spared
  <2>. HIDE DEF rest, doom, blind
  <2>5. s \in Sweeping
    BY <2>3 DEF PluginInv, Processes, Sweeping
  <2>. HIDE DEF s
  <2>6. sweep' \in Sweeping /\ sweep'.doomed = doom /\ (sweep'.blind <=> blind)
    BY <2>2, <2>3, <2>5 DEF Sweeping
  <2>7. TypeOK' /\ Processes' /\ Owned'
    BY <1>1, <2>2, <2>6 DEF PluginInv, TypeOK, Processes, Owned
  <2>8. Waiting'
    <3>1. row' = row /\ \A b : ToBeRecorded(b)' <=> ToBeRecorded(b)
      BY <1>1, <2>2 DEF ToBeRecorded
    <3>. QED
      BY <3>1, <2>4, <2>6 DEF Waiting
  <2>. QED
    BY <2>7, <2>8 DEF PluginInv
<1>5. CASE \E a \in Accounts : LookFails(a)
  <2>1. PICK a \in Accounts : LookFails(a)
    BY <1>5
  <2> DEFINE rest == sweep.todo \ {a}
             left == sweep.left \cup {a}
             s == [sweep EXCEPT !.todo = rest]
             t == [s EXCEPT !.doomed = a]
             u == [t EXCEPT !.blind = TRUE]
             v == [s EXCEPT !.left = left]
  <2>2. (sweep' = u \/ sweep' = v) /\ UNCHANGED <<row, account, cache>> /\ sweep.doomed = None
    BY <2>1 DEF LookFails, calendars
  <2>3. rest \in SUBSET Accounts /\ left \in SUBSET Accounts
    BY DEF PluginInv, Processes, Sweeping
  <2>. HIDE DEF rest, left
  <2>4. s \in Sweeping /\ s.doomed = None
    BY <2>2, <2>3 DEF PluginInv, Processes, Sweeping
  <2>. HIDE DEF s
  <2>5. sweep' \in Sweeping /\ (sweep'.doomed = None \/ sweep'.blind)
    BY <2>2, <2>3, <2>4 DEF Sweeping
  <2>6. TypeOK' /\ Processes' /\ Owned'
    BY <1>1, <2>2, <2>5 DEF PluginInv, TypeOK, Processes, Owned
  <2>7. Waiting'
    BY <2>5 DEF Waiting
  <2>. QED
    BY <2>6, <2>7 DEF PluginInv
<1>4. CASE SweepDelete
  <2> DEFINE a == sweep.doomed
             kept == IF row.calendar = a THEN None ELSE row.calendar
  <2>1. /\ a # None /\ account' = [account EXCEPT ![a] = "free"]
        /\ cache' = [cache EXCEPT ![a] = {}]
        /\ row' = [row EXCEPT !.calendar = kept]
        /\ sweep' = [sweep EXCEPT !.doomed = None, !.blind = FALSE,
                                  !.hit = @ \/ row.calendar = sweep.doomed]
    BY <1>4 DEF SweepDelete
  <2>2. sweep \in Sweeping /\ a \in Accounts
    BY <2>1 DEF PluginInv, Processes, Sweeping
  <2>3. kept \in Accounts \cup {None} /\ (kept # None => kept = row.calendar /\ kept # a)
    BY DEF PluginInv, TypeOK
  <2>4. sweep' \in Sweeping /\ sweep'.doomed = None
    BY <2>1, <2>2 DEF Sweeping
  <2>. HIDE DEF a, kept
  <2>5. /\ row' \in [known : BOOLEAN, enabled : BOOLEAN, token : {None, "live", "stale"},
                     provides : BOOLEAN, healthy : BOOLEAN, calendar : Accounts \cup {None}]
        /\ row'.known = row.known /\ row'.healthy = row.healthy /\ row'.calendar = kept
    BY <2>1, <2>3 DEF PluginInv, TypeOK
  <2>6. TypeOK'
    BY <1>1, <2>1, <2>2, <2>3, <2>5 DEF PluginInv, TypeOK
  <2>7. Processes' /\ Owned'
    BY <1>1, <2>3, <2>4, <2>5 DEF PluginInv, Processes, Owned
  <2>8. Waiting'
    BY <1>1, <2>4, NoneIsNew DEF PluginInv, Owned, Waiting, ToBeRecorded
  <2>. QED
    BY <2>6, <2>7, <2>8 DEF PluginInv
<1>. QED
  BY <1>2, <1>3, <1>4, <1>5 DEF Sweep

-----------------------------------------------------------------------------
(* hhq starts and stops; the plugin, its operator and the parents act.     *)
LEMMA ProcessKeeps ==
    ASSUME PluginInv, Boot \/ Crash
    PROVE  PluginInv'
<1>1. UNCHANGED <<listed, account, cache, plugin>>
  BY DEF Boot, Crash, calendars
<1>2. NoSweep \in Sweeping /\ [NoSweep EXCEPT !.pc = "due"] \in Sweeping
  BY DEF NoSweep, Sweeping
<1>3. CASE Boot
  <2>1. /\ row' = Reconciled /\ sweep' = [NoSweep EXCEPT !.pc = "due"]
        /\ \A w \in Workers : job[w].pc = "idle"
        /\ "reg" \in Workers
    BY <1>3 DEF Boot, PluginInv, Processes, Workers
  <2>2. sweep'.todo = {} /\ sweep'.doomed = None /\ sweep' \in Sweeping
    BY <1>2, <2>1 DEF NoSweep
  <2>3. /\ row' \in [known : BOOLEAN, enabled : BOOLEAN, token : {None, "live", "stale"},
                     provides : BOOLEAN, healthy : BOOLEAN, calendar : Accounts \cup {None}]
        /\ row'.calendar # None => row'.calendar = row.calendar /\ row'.known /\ row'.healthy
        /\ listed = "on" => row'.known
    <3>1. CASE listed = "no"
      BY <2>1, <3>1 DEF Reconciled, NoRow
    <3>2. CASE listed # "no" /\ row.known
      BY <2>1, <3>2 DEF Reconciled, PluginInv, TypeOK, Owned
    <3>3. CASE listed # "no" /\ ~row.known
      BY <2>1, <3>3 DEF Reconciled, NewRow, NoRow
    <3>. QED
      BY <3>1, <3>2, <3>3
  <2>4. /\ hhq' \in {"booting", "up"} /\ job' \in [Workers -> Job]
        /\ \A w \in Workers : job'[w].pc \in {"idle", "wait"}
        /\ job'["reg"].pc # "idle" => listed = "on"
    <3>1. CASE listed = "on"
      <4>1. hhq' = "booting" /\ job' = [job EXCEPT !["reg"] = At("wait")]
        BY <1>3, <3>1 DEF Boot
      <4>. QED
        BY <2>1, <3>1, <4>1, Jobs DEF PluginInv, Processes
    <3>2. CASE listed # "on"
      BY <1>3, <2>1, <3>2 DEF Boot, PluginInv, Processes
    <3>. QED
      BY <3>1, <3>2
  <2>5. TypeOK'
    BY <1>1, <2>3, <2>4 DEF PluginInv, TypeOK
  <2>6. Processes'
    BY <1>1, <2>2, <2>4 DEF PluginInv, Processes
  <2>7. Owned' /\ Waiting'
    BY <2>1, <2>2, <2>3, <2>4 DEF Owned, Waiting, ToBeRecorded
  <2>. QED
    BY <2>5, <2>6, <2>7 DEF PluginInv
<1>4. CASE Crash
  <2>1. hhq' = "down" /\ row' = row /\ sweep' = NoSweep /\ job' = [w \in Workers |-> Idle]
    BY <1>4 DEF Crash
  <2>2. /\ job' \in [Workers -> Job] /\ \A w \in Workers : job'[w].pc = "idle"
        /\ job'["reg"].pc = "idle"
    BY <2>1, Jobs DEF Workers
  <2>3. TypeOK'
    BY <1>1, <2>1 DEF PluginInv, TypeOK
  <2>4. Processes'
    BY <1>1, <1>2, <2>1, <2>2 DEF PluginInv, Processes
  <2>5. Owned' /\ Waiting'
    BY <2>1, <2>2 DEF PluginInv, Owned, Waiting, ToBeRecorded, NoSweep
  <2>. QED
    BY <2>3, <2>4, <2>5 DEF PluginInv
<1>. QED
  BY <1>3, <1>4

LEMMA OthersKeep ==
    ASSUME PluginInv,
           \/ TogglePlugin \/ PluginUp \/ PluginDown
           \/ \E e \in Events : PluginEdits(e)
           \/ \E c \in Configs : Configure(c)
    PROVE  PluginInv'
<1>1. UNCHANGED <<hhq, account, cache, sweep>>
  BY DEF TogglePlugin, PluginUp, PluginDown, PluginEdits, Configure, calendars
<1>2. CASE TogglePlugin \/ PluginUp \/ (\E e \in Events : PluginEdits(e)) \/ (\E c \in Configs : Configure(c))
  <2>1. job' = job
    BY <1>2 DEF TogglePlugin, PluginUp, PluginEdits, Configure
  <2>2. row'.known = row.known /\ row'.calendar = row.calendar /\ row'.healthy = row.healthy
    BY <1>2 DEF TogglePlugin, PluginUp, PluginEdits, Configure, PluginInv, TypeOK
  <2>3. Steady \in plugin'.serves
    BY <1>2 DEF TogglePlugin, PluginUp, PluginEdits, Configure, PluginInv, TypeOK, Processes
  <2>4. TypeOK'
    <3>1. CASE TogglePlugin
      BY <1>1, <3>1 DEF TogglePlugin, PluginInv, TypeOK
    <3>2. CASE PluginUp
      BY <1>1, <3>2 DEF PluginUp, PluginInv, TypeOK
    <3>3. ASSUME NEW e \in Events, PluginEdits(e) PROVE TypeOK'
      BY <1>1, <3>3 DEF PluginEdits, PluginInv, TypeOK
    <3>4. ASSUME NEW c \in Configs, Configure(c) PROVE TypeOK'
      BY <1>1, <3>4 DEF Configure, PluginInv, TypeOK
    <3>. QED
      BY <1>2, <3>1, <3>2, <3>3, <3>4
  <2>5. Careful
    BY <2>1 DEF Careful, PluginInv, Processes, Workers
  <2>. QED
    BY <1>1, <2>1, <2>2, <2>3, <2>4, <2>5, CarefulKeeps DEF PluginInv, Processes
<1>3. CASE PluginDown
  <2>1. /\ plugin' = [plugin EXCEPT !.up = FALSE] /\ UNCHANGED listed
        /\ \/ UNCHANGED <<row, job>>
           \/ row' = RowOutdated /\ job' = JobOutdated
    BY <1>3 DEF PluginDown
  <2>2. /\ TypeOK'
        /\ row'.known = row.known /\ row'.calendar = row.calendar /\ row'.healthy = row.healthy
    BY <1>1, <2>1, OutdatedRow DEF PluginInv, TypeOK, Tokens
  <2>3. job' \in [Workers -> Job]
        /\ \A w \in Workers : job'[w].pc = job[w].pc /\ job'[w].cal = job[w].cal /\ job'[w].got = job[w].got
    BY <2>1, OutdatedJobs DEF PluginInv, Processes
  <2>4. Processes'
    BY <1>1, <2>1, <2>3 DEF PluginInv, Processes, TypeOK
  <2>5. Owned' /\ Waiting'
    BY <1>1, <2>2, <2>3 DEF PluginInv, Owned, Waiting, ToBeRecorded, Workers
  <2>. QED
    BY <2>2, <2>4, <2>5 DEF PluginInv
<1>. QED
  BY <1>2, <1>3

-----------------------------------------------------------------------------
LEMMA InitHolds == Init => PluginInv
<1>1. SUFFICES ASSUME Init PROVE PluginInv
  OBVIOUS
<1>2. /\ row \in [known : BOOLEAN, enabled : BOOLEAN, token : {None, "live", "stale"},
                  provides : BOOLEAN, healthy : BOOLEAN, calendar : Accounts \cup {None}]
      /\ row.calendar = None
  BY <1>1 DEF Init, NoRow
<1>3. plugin \in [up : BOOLEAN, serves : SUBSET Events] /\ Steady \in plugin.serves
  BY <1>1, SteadyIsAnEvent DEF Init
<1>4. account \in [Accounts -> {"free", "bare", "full"}] /\ cache \in [Accounts -> SUBSET Events]
      /\ \A a \in Accounts : cache[a] = {}
  BY <1>1 DEF Init
<1>5. TypeOK
  BY <1>1, <1>2, <1>3, <1>4 DEF Init, TypeOK
<1>6. job \in [Workers -> Job] /\ \A w \in Workers : job[w].pc = "idle"
  BY <1>1, Jobs DEF Init
<1>7. sweep \in Sweeping /\ sweep.doomed = None
  BY <1>1 DEF Init, NoSweep, Sweeping
<1>8. Processes
  BY <1>3, <1>6, <1>7 DEF Processes
<1>9. Owned /\ Waiting
  BY <1>2, <1>6, <1>7 DEF Owned, Waiting, ToBeRecorded, Workers
<1>. QED
  BY <1>5, <1>8, <1>9 DEF PluginInv

LEMMA NextKeeps == PluginInv /\ [Next]_vars => PluginInv'
<1>1. SUFFICES ASSUME PluginInv, [Next]_vars PROVE PluginInv'
  OBVIOUS
<1>2. CASE Boot \/ Crash
  BY <1>1, <1>2, ProcessKeeps
<1>3. CASE Attempt \/ FirstSync
  BY <1>1, <1>3, CallsKeep DEF Workers
<1>4. CASE SyncPass \/ KioskPluginView \/ ResyncCalendarAccount
  BY <1>1, <1>4, BeginningsKeep DEF KioskPluginView, ResyncCalendarAccount
<1>5. CASE \E e \in Events : KioskEventAction(e)
  BY <1>1, <1>5, BeginningsKeep DEF KioskEventAction
<1>6. CASE CreateAccount \/ CreateCalendar \/ SetCalendarID
  BY <1>1, <1>6, CreateAccountKeeps, CreateCalendarKeeps, SetCalendarIDKeeps
<1>7. CASE Sweep \/ DatabaseFails
  BY <1>1, <1>7, SweepKeeps, ProvisionFailsKeeps, UpsertKeeps, PruneKeeps DEF DatabaseFails
<1>8. ASSUME NEW w \in Workers, Work(w) \/ AnswerLost(w)
      PROVE  PluginInv'
  <2>1. CASE Refused(w) \/ Rejected(w) \/ Register(w) \/ SetToken(w)
    BY <1>1, <2>1, CallsKeep
  <2>2. CASE Answered(w) \/ AnswerLost(w)
    BY <1>1, <2>2, AnswersKeep, LostAnswersKeep
  <2>3. CASE (\E e \in Events : Upsert(w, e)) \/ PruneStale(w)
    BY <1>1, <2>3, UpsertKeeps, PruneKeeps
  <2>. QED
    BY <1>8, <2>1, <2>2, <2>3 DEF Work
<1>9. CASE TogglePlugin \/ PluginUp \/ PluginDown \/ (\E e \in Events : PluginEdits(e))
           \/ (\E c \in Configs : Configure(c))
  BY <1>1, <1>9, OthersKeep
<1>10. CASE UNCHANGED vars
  BY <1>1, <1>10 DEF PluginInv, TypeOK, Processes, Owned, Waiting, ToBeRecorded, vars
<1>. QED
  BY <1>1, <1>2, <1>3, <1>4, <1>5, <1>6, <1>7, <1>8, <1>9, <1>10 DEF Next, Provision

LEMMA InvHolds == Spec => []PluginInv
  BY InitHolds, NextKeeps, PTL DEF Spec

(* The rows, the goroutines' jobs and the cached events keep their types,  *)
(* and the foreign keys between them hold after every statement: a         *)
(* recorded calendar exists, and no event outlives its calendar.           *)
THEOREM PluginTypeCorrect == Spec => []TypeOK
<1>1. PluginInv => TypeOK
  BY DEF PluginInv
<1>. QED
  BY <1>1, InvHolds, PTL

-----------------------------------------------------------------------------
(* The actions that write the cache or the row's calendar are few.         *)
LEMMA CacheWriters ==
    ASSUME [Next]_vars
    PROVE  \/ cache' = cache
           \/ \E w \in Workers : PruneStale(w) \/ \E e \in Events : Upsert(w, e)
           \/ SweepDelete
  BY DEF Next, vars, calendars, Boot, Attempt, SyncPass, Provision, CreateAccount, CreateCalendar,
         SetCalendarID, FirstSync, Sweep, SweepStart, SweepLook, Work, Refused, Rejected, Fail,
         Register, SetToken, Answered, AnswerLost, KioskPluginView, ResyncCalendarAccount, Tap,
         KioskEventAction, TogglePlugin, PluginEdits, PluginUp, PluginDown, Configure, Crash,
         DatabaseFails, ProvisionFails, UpsertFails, PruneFails, LookFails

LEMMA CalendarWriters ==
    ASSUME PluginInv, [Next]_vars
    PROVE  row'.calendar = row.calendar \/ Boot \/ SetCalendarID \/ SweepDelete
<1>1. RowOutdated.calendar = row.calendar
  BY OutdatedRow DEF PluginInv
<1>2. row \in [known : BOOLEAN, enabled : BOOLEAN, token : {None, "live", "stale"},
              provides : BOOLEAN, healthy : BOOLEAN, calendar : Accounts \cup {None}]
  BY DEF PluginInv, TypeOK
<1>. QED
  BY <1>1, <1>2
     DEF Next, vars, calendars, Attempt, SyncPass, Provision, CreateAccount, CreateCalendar,
         FirstSync, Sweep, SweepStart, SweepLook, Work, Refused, Rejected, Fail,
         Register, SetToken, Answered, AnswerLost, Upsert, PruneStale, Finished, KioskPluginView,
         ResyncCalendarAccount, Tap, KioskEventAction, TogglePlugin, PluginEdits, PluginUp,
         PluginDown, Configure, Crash,
         DatabaseFails, ProvisionFails, UpsertFails, PruneFails, LookFails

(* Whatever outages, rejections, lost answers, crashes, failed statements  *)
(* and overlapping syncs there are: an event the plugin never withdraws    *)
(* leaves a calendar that is kept only by the prune of a sync that was     *)
(* given it and did not see its own statement for it succeed (SyncOne).    *)
THEOREM SteadyEventsAreKept == Spec => SteadyEventsStay
<1>1. ASSUME PluginInv, [Next]_vars, NEW a \in Accounts,
             row.calendar = a, row'.calendar = a, Steady \in cache[a] \ cache'[a]
      PROVE  \E w \in Workers : /\ job[w].cal = a /\ PruneStale(w)
                               /\ Steady \in job[w].got \ job[w].seen
  <2>1. cache' # cache
    BY <1>1
  <2>2. ASSUME NEW w \in Workers, NEW e \in Events, Upsert(w, e)
        PROVE  FALSE
    BY <1>1, <2>2 DEF Upsert, PluginInv, TypeOK
  <2>3. ASSUME NEW w \in Workers, PruneStale(w)
        PROVE  job[w].cal = a /\ Steady \in job[w].got \ job[w].seen
    BY <1>1, <2>3 DEF PruneStale, Finished, PluginInv, Processes
  <2>4. CASE SweepDelete
    <3>1. cache' = [cache EXCEPT ![sweep.doomed] = {}]
          /\ row' = [row EXCEPT !.calendar = IF @ = sweep.doomed THEN None ELSE @]
      BY <2>4 DEF SweepDelete
    <3>2. sweep.doomed # a
      BY <1>1, <3>1, NoneIsNew DEF PluginInv, TypeOK
    <3>. QED
      BY <1>1, <3>1, <3>2 DEF PluginInv, TypeOK
  <2>. QED
    BY <1>1, <2>1, <2>2, <2>3, <2>4, CacheWriters
<1>2. PluginInv /\ [Next]_vars
      => [\A a \in Accounts :
            row.calendar = a /\ row'.calendar = a /\ Steady \in cache[a] \ cache'[a]
               => \E w \in Workers : /\ job[w].cal = a /\ PruneStale(w)
                                    /\ Steady \in job[w].got \ job[w].seen]_vars
  BY <1>1
<1>. QED
  BY <1>2, InvHolds, PTL DEF Spec, SteadyEventsStay

(* A plugin that has ever answered keeps the calendar recorded for it,     *)
(* enabled or not, until it is taken out of plugins.json, also when the    *)
(* clean-up runs amid its provisioning, unless it is the very account that *)
(* was being provisioned when the clean-up looked for its owner, or the    *)
(* look-up failed.                                                         *)
THEOREM CalendarsAreKept == Spec => CalendarIsKept
<1>1. ASSUME PluginInv, [Next]_vars,
             row.healthy, row'.known, row.calendar # None
      PROVE  row'.calendar = row.calendar \/ (sweep.blind /\ sweep.doomed = row.calendar)
  <2>1. CASE Boot
    BY <1>1, <2>1 DEF Boot, Reconciled, NoRow, PluginInv, TypeOK, Owned
  <2>2. CASE SetCalendarID
    BY <1>1, <2>2 DEF SetCalendarID, PluginInv, Owned
  <2>3. CASE SweepDelete
    BY <1>1, <2>3 DEF SweepDelete, PluginInv, TypeOK, Waiting
  <2>. QED
    BY <1>1, <2>1, <2>2, <2>3, CalendarWriters
<1>2. PluginInv /\ [Next]_vars
      => [row.healthy /\ row'.known /\ row.calendar # None
            => row'.calendar = row.calendar
               \/ (sweep.blind /\ sweep.doomed = row.calendar)]_vars
  BY <1>1
<1>. QED
  BY <1>2, InvHolds, PTL DEF Spec, CalendarIsKept
=============================================================================
