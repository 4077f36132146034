------------------------------ MODULE ChoreTx ------------------------------
(***************************************************************************)
(* The writers of internal/models/chore.go as PostgreSQL runs them: several *)
(* statements to a transaction, READ COMMITTED, so that every statement    *)
(* reads what is committed when it starts, waits for the rows it finds     *)
(* locked and looks at their status again before it writes.  A statement   *)
(* on many rows visits them in an order the query plan decides.            *)
(*                                                                         *)
(* A transaction that waits for its FIRST row holds nothing and nobody     *)
(* sees it, so waiting there is not a state: the first statement is taken  *)
(* when its row is free.  One that finds no row to change ends as if it    *)
(* had not run (ErrInvalidTransition, rollback).                           *)
(*                                                                         *)
(* Dates are generated in any order: by the scheduler, which goes on past  *)
(* a date that failed and makes up for it an hour later, and by pages.  An *)
(* older occurrence may so be committed while an approval is under way,    *)
(* after its second statement has looked for the backlog: missed records   *)
(* these and is history, no part of the database.                          *)
(***************************************************************************)
EXTENDS ChoreDates

CONSTANTS
    Tx,              \* concurrent requests and scheduler jobs
    Deletions,       \* the sets of assignments deleted together
    Free,            \* holds no lock
    NoRow            \* not a row

ASSUME DeletionsAreDefs == Deletions \subseteq SUBSET Defs
ASSUME FreeIsNoTx == Free \notin Tx
ASSUME NoRowIsNoRow == NoRow \notin Defs \X Days

VARIABLES
    active,   \* active[d]: hhq_chore_definitions.active, committed
    deleter,  \* deleter[d]: who has an uncommitted active = FALSE on d
    row,      \* row[p]: the committed status of occurrence p
    owner,    \* owner[p]: who holds the lock on row p
    draft,    \* draft[p]: what the owner wrote and has not committed
    task,     \* task[t]: where transaction t is
    missed    \* missed[p]: older dates of p's assignment committed too late for
              \* the approval of p that is under way

vars == <<active, deleter, row, owner, draft, task, missed>>

-----------------------------------------------------------------------------
Rows == Defs \X Days
Unresolved == {"incomplete", "pending_approval", "rejected"}
Status == Unresolved \cup {"approved", "none"}
Kinds == {"tap", "approve", "reject", "reset", "deactivate", "ensure"}

(* todo is what the running statement found and has not visited, want the  *)
(* row whose lock the transaction waits for, target the row it is about.   *)
Task == [pc : {"idle", "open", "visit"}, kind : Kinds \cup {"none"},
         target : Rows \cup {NoRow}, todo : SUBSET Rows, want : Rows \cup {NoRow}]

Idle == [pc |-> "idle", kind |-> "none", target |-> NoRow, todo |-> {},
         want |-> NoRow]

Doing(pc, kind, p, todo) ==
    [pc |-> pc, kind |-> kind, target |-> p, todo |-> todo, want |-> NoRow]

(* Mutant of From: a decision that does not look at the status.            *)
FromAny == [tap |-> {"incomplete", "rejected"}, approve |-> Unresolved,
            reject |-> Unresolved, reset |-> {"rejected"}]

(* WHERE and SET of the statement that changes the one row it is about.    *)
From == [tap |-> {"incomplete", "rejected"}, approve |-> {"pending_approval"},
         reject |-> {"pending_approval"}, reset |-> {"rejected"}]

(* Mutants of To: the role decides nothing; nor is the status spelt right. *)
ToSubmitted(kind, d) ==
    CASE kind = "tap" -> "pending_approval"
      [] kind = "approve" -> "approved"
      [] kind = "reject" -> "rejected"
      [] kind = "reset" -> "incomplete"

ToPending(kind, d) ==
    CASE kind = "tap" -> "pending"
      [] kind = "approve" -> "approved"
      [] kind = "reject" -> "rejected"
      [] kind = "reset" -> "incomplete"

To(kind, d) ==
    CASE kind = "tap" -> IF d \in ParentAssigned THEN "approved"
                                                 ELSE "pending_approval"
      [] kind = "approve" -> "approved"
      [] kind = "reject" -> "rejected"
      [] kind = "reset" -> "incomplete"

(* WHERE and SET of the statements that visit many rows.                   *)
(* Mutant of Touches: the condition on the status left out.                *)
TouchesAny(kind, s) == IF kind = "ensure" THEN s = "none" ELSE s # "none"

Touches(kind, s) == IF kind = "ensure" THEN s = "none" ELSE s \in Unresolved
Outcome(kind) == CASE kind = "ensure" -> "incomplete"
                   [] kind = "deactivate" -> "none"
                   [] OTHER -> "approved"

Init ==
    /\ active = [d \in Defs |-> TRUE]
    /\ deleter = [d \in Defs |-> Free]
    /\ row = [p \in Rows |-> "none"]
    /\ owner = [p \in Rows |-> Free]
    /\ draft = [p \in Rows |-> "none"]
    /\ task = [t \in Tx |-> Idle]
    /\ missed = [p \in Rows |-> {}]

-----------------------------------------------------------------------------
(* The first statement of MarkComplete, Decide and ResetRejected.  When it *)
(* approved the row a second one follows, otherwise only the commit.       *)
First(t, kind, p) ==
    /\ task[t] = Idle
    /\ owner[p] = Free
    /\ row[p] \in From[kind]
    /\ owner' = [owner EXCEPT ![p] = t]
    /\ draft' = [draft EXCEPT ![p] = To(kind, p[1])]
    /\ task' = [task EXCEPT ![t] =
                  Doing(IF To(kind, p[1]) = "approved" THEN "open" ELSE "visit",
                        kind, p, {})]
    /\ UNCHANGED <<active, deleter, row, missed>>

(* The first statement of Deactivate: active = FALSE, not yet committed.   *)
FirstDeactivate(t, ds) ==
    /\ task[t] = Idle
    /\ \A d \in ds : deleter[d] = Free
    /\ deleter' = [d \in Defs |-> IF d \in ds THEN t ELSE deleter[d]]
    /\ task' = [task EXCEPT ![t] = Doing("open", "deactivate", NoRow, {})]
    /\ UNCHANGED <<active, row, owner, draft, missed>>

(* EnsureForDate reads the active definitions; a definition another        *)
(* transaction is about to delete is still active in what it reads.        *)
Ensure(t, e) ==
    /\ task[t] = Idle
    /\ task' = [task EXCEPT ![t] =
                  Doing("visit", "ensure", NoRow, {d \in Defs : active[d]} \X {e})]
    /\ UNCHANGED <<active, deleter, row, owner, draft, missed>>

Older(p, q) == p[1] = q[1] /\ p[2] < q[2]

(* Mutant of Found: the backlog is what nobody has done yet.               *)
FoundIncomplete(t) ==
    {p \in Rows : /\ row[p] = "incomplete"
                  /\ IF task[t].kind = "deactivate"
                     THEN deleter[p[1]] = t
                     ELSE Older(p, task[t].target)}

(* The second statement starts: what the UPDATE of the backlog or the      *)
(* DELETE finds in the committed rows.                                     *)
Found(t) ==
    {p \in Rows : /\ row[p] \in Unresolved
                  /\ IF task[t].kind = "deactivate"
                     THEN deleter[p[1]] = t
                     ELSE Older(p, task[t].target)}

Second(t) ==
    /\ task[t].pc = "open"
    /\ task' = [task EXCEPT ![t].pc = "visit", ![t].todo = Found(t)]
    /\ UNCHANGED <<active, deleter, row, owner, draft, missed>>

(* The statement reaches row p, finds it locked and waits.                 *)
Wait(t, p) ==
    /\ task[t].pc = "visit"
    /\ p \in task[t].todo
    /\ task[t].want = NoRow
    /\ owner[p] # Free
    /\ task' = [task EXCEPT ![t].want = p]
    /\ UNCHANGED <<active, deleter, row, owner, draft, missed>>

(* Mutant of Visit: rows are read first and written by key afterwards.     *)
VisitUnchecked(t, p) ==
    /\ task[t].pc = "visit"
    /\ p \in task[t].todo
    /\ task[t].want \in {NoRow, p}
    /\ owner[p] = Free
    /\ task' = [task EXCEPT ![t].todo = @ \ {p}, ![t].want = NoRow]
    /\ owner' = [owner EXCEPT ![p] = t]
    /\ draft' = [draft EXCEPT ![p] = Outcome(task[t].kind)]
    /\ UNCHANGED <<active, deleter, row, missed>>

(* A row inserted after the statement began, in the place of one it found  *)
(* and that was deleted since, is another row: the statement has no part   *)
(* in it.                                                                  *)
Sees(t, p) == task[t].kind \in {"tap", "approve"} => p[2] \notin missed[task[t].target]

(* It reaches a free row, or the row it waited for is free: the condition  *)
(* is evaluated on the row as it is now.                                   *)
Visit(t, p) ==
    /\ task[t].pc = "visit"
    /\ p \in task[t].todo
    /\ task[t].want \in {NoRow, p}
    /\ owner[p] = Free
    /\ task' = [task EXCEPT ![t].todo = @ \ {p}, ![t].want = NoRow]
    /\ IF Touches(task[t].kind, row[p]) /\ Sees(t, p)
       THEN /\ owner' = [owner EXCEPT ![p] = t]
            /\ draft' = [draft EXCEPT ![p] = Outcome(task[t].kind)]
       ELSE UNCHANGED <<owner, draft>>
    /\ UNCHANGED <<active, deleter, row, missed>>

Release(t) ==
    /\ owner' = [p \in Rows |-> IF owner[p] = t THEN Free ELSE owner[p]]
    /\ draft' = [p \in Rows |-> IF owner[p] = t THEN "none" ELSE draft[p]]
    /\ deleter' = [d \in Defs |-> IF deleter[d] = t THEN Free ELSE deleter[d]]
    /\ task' = [task EXCEPT ![t] = Idle]

(* The second statement of the approval of p is under way.                 *)
Resolving(p) ==
    /\ owner[p] # Free /\ draft[p] = "approved"
    /\ task[owner[p]].target = p /\ task[owner[p]].pc = "visit"

(* The dates that a commit of t adds before p, too late for it.            *)
TooLate(t, p) ==
    {x \in Days : /\ task[t].kind = "ensure" /\ Resolving(p)
                  /\ x < p[2] /\ owner[<<p[1], x>>] = t}

(* Mutant of Commit: an early return when there was nothing to do, with    *)
(* the transaction left open.                                              *)
CommitChanges(t) ==
    /\ task[t].pc = "visit"
    /\ task[t].todo = {}
    /\ \E p \in Rows : owner[p] = t
    /\ row' = [p \in Rows |-> IF owner[p] = t THEN draft[p] ELSE row[p]]
    /\ active' = [d \in Defs |-> active[d] /\ deleter[d] # t]
    /\ missed' = [p \in Rows |-> IF owner[p] = t THEN {} ELSE missed[p] \cup TooLate(t, p)]
    /\ Release(t)

Commit(t) ==
    /\ task[t].pc = "visit"
    /\ task[t].todo = {}
    /\ row' = [p \in Rows |-> IF owner[p] = t THEN draft[p] ELSE row[p]]
    /\ active' = [d \in Defs |-> active[d] /\ deleter[d] # t]
    /\ missed' = [p \in Rows |-> IF owner[p] = t THEN {} ELSE missed[p] \cup TooLate(t, p)]
    /\ Release(t)

(* The request is cancelled, a connection is lost or the server stops: the *)
(* deferred Rollback, or PostgreSQL itself, undoes the transaction.        *)
Abort(t) ==
    /\ task[t] # Idle
    /\ Release(t)
    /\ missed' = [p \in Rows |-> IF owner[p] = t THEN {} ELSE missed[p]]
    /\ UNCHANGED <<active, row>>

(* Transactions that wait for each other: each one waits for a member.     *)
WaitCycle(ts) ==
    \A t \in ts : task[t].want # NoRow /\ owner[task[t].want] \in ts

(* PostgreSQL breaks a wait cycle by aborting a transaction of it.         *)
BreakDeadlock(t) ==
    /\ \E ts \in SUBSET Tx : t \in ts /\ WaitCycle(ts)
    /\ Abort(t)

Step(t) ==
    \/ Second(t)
    \/ \E p \in Rows : Wait(t, p) \/ Visit(t, p)
    \/ Commit(t)

Next ==
    \/ \E t \in Tx, k \in DOMAIN From, p \in Rows : First(t, k, p)
    \/ \E t \in Tx, ds \in Deletions : FirstDeactivate(t, ds)
    \/ \E t \in Tx, e \in Days : Ensure(t, e)
    \/ \E t \in Tx : Step(t) \/ BreakDeadlock(t) \/ Abort(t)

(* The database runs what was started, its lock queues are fair and its    *)
(* deadlock detector runs; nothing obliges anybody to start a request.     *)
Fairness == \A t \in Tx : SF_vars(Step(t)) /\ WF_vars(BreakDeadlock(t))

Spec == Init /\ [][Next]_vars /\ Fairness

-----------------------------------------------------------------------------
(* Locks, drafts and transactions have their types.                        *)
TypeOK ==
    /\ active \in [Defs -> BOOLEAN]
    /\ deleter \in [Defs -> Tx \cup {Free}]
    /\ row \in [Rows -> Status]
    /\ owner \in [Rows -> Tx \cup {Free}]
    /\ draft \in [Rows -> Status]
    /\ task \in [Tx -> Task]
    /\ missed \in [Rows -> SUBSET Days]

(* Nobody loses an update: what a transaction is about to commit on a row  *)
(* still follows from the status the row has (First and Visit read it, the *)
(* commit comes steps later), and on its target it is what was asked.      *)
DraftsFollowRows ==
    \A p \in Rows : owner[p] # Free =>
        LET w == task[owner[p]] IN
        IF w.target = p THEN row[p] \in From[w.kind] /\ draft[p] = To(w.kind, p[1])
                        ELSE Touches(w.kind, row[p]) /\ draft[p] = Outcome(w.kind)

(* The backlog is not forgotten while it is being resolved: an open older  *)
(* row is still to visit, or resolved by the transaction already, or was   *)
(* inserted after the second statement began.                              *)
CascadeMissesNothing ==
    \A p, q \in Rows :
        Resolving(p) /\ Older(q, p) /\ row[q] \in Unresolved =>
            \/ q \in task[owner[p]].todo
            \/ owner[q] = owner[p] /\ draft[q] = "approved"
            \/ q[2] \in missed[p]

(* No request hangs on another for ever, whatever locks they take in       *)
(* whatever order.                                                         *)
EveryTransactionEnds == \A t \in Tx : task[t] # Idle ~> task[t] = Idle

(* "so a deleted chore stops showing up on the kiosk immediately rather    *)
(* than lingering" (chore.go, ChoreDefinitionStore.Deactivate).            *)
DeletedStopsShowing ==
    \A p \in Rows : ~active[p[1]] => row[p] \notin Unresolved

-----------------------------------------------------------------------------
(* Readers see committed rows only, and those live as ChoreBoard says.     *)
statusOf == [d \in Defs |-> [e \in Days |-> row[<<d, e>>]]]
unseenOf == [d \in Defs |-> [e \in Days |-> missed[<<d, e>>]]]
Board == INSTANCE ChoreBoard WITH status <- statusOf, unseen <- unseenOf
ImplementsBoard == Board!Spec

(* The promises of the board, each on what concurrent transactions commit. *)
(* A parent's own chore takes a path of its own past the decision, cascade *)
(* included: nobody is ever asked to approve it and nobody rejects it.     *)
ParentChoresSkipApproval == Board!ParentChoresSkipApproval

(* Points and reports rest on approved occurrences: once committed, an     *)
(* approval is undone by no tap, decision or deletion that was under way.  *)
ApprovedIsFinal == Board!ApprovedIsFinal

(* The commit of an approval leaves no older occurrence of that assignment *)
(* open, whatever happened to it since the cascade looked for it, but one  *)
(* that was inserted after it looked.                                      *)
ApprovalClearsBacklog == Board!ApprovalClearsBacklog

(* A child's occurrence is approved only together with one of the same     *)
(* assignment, due no earlier, that a parent was asked about until then.   *)
ApprovalNeedsDecision == Board!ApprovalNeedsDecision
=============================================================================
