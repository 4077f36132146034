------------------------------- MODULE Chores -------------------------------
(***************************************************************************)
(* The chore stores of internal/models/chore.go: the catalog, the          *)
(* assignments ("definitions") and their dated occurrences ("instances").  *)
(* Every method of the three stores that writes is one action.  A method   *)
(* runs in one transaction or one statement; ChoreTx opens those up, here  *)
(* each takes effect at once.  Dates are parameters, as in the methods:    *)
(* the module has no clock.                                                *)
(***************************************************************************)
EXTENDS ChoreDates

CONSTANTS
    Catalog,         \* chores a parent can define (rows of hhq_chores)
    ChoreOf,         \* the catalog chore each assignment is of
    WeekLength,      \* days in a week: 7 in the code
    Parents,         \* parents who decide from the dashboard
    Nobody,          \* decided_by IS NULL
    NoDate           \* one_off_date IS NULL

ASSUME WeekIsPositive == WeekLength \in Nat \ {0}
ASSUME ChoreOfIsTotal == ChoreOf \in [Defs -> Catalog]
ASSUME NullsAreDistinct == Nobody \notin Parents /\ NoDate \notin Days

VARIABLES
    chore,    \* chore[c]: is catalog row c absent, active or deleted
    def,      \* def[d]: the assignment, its schedule and whether it is active
    inst      \* inst[d][e]: the occurrence of d due on e

vars == <<chore, def, inst>>

-----------------------------------------------------------------------------
Unresolved == {"incomplete", "pending_approval", "rejected"}
Status == Unresolved \cup {"approved", "none"}
Weekdays == 0 .. (WeekLength - 1)
Weekday(e) == e % WeekLength
RowState == {"absent", "active", "deleted"}

(* A row of hhq_chore_instances.  completed and decided say whether        *)
(* completed_at and decided_at are set; status "none" is "no such row".    *)
Instance == [status : Status, completed : BOOLEAN, decided : BOOLEAN,
             by : Parents \cup {Nobody}]

Row(s, c, dec, p) == [status |-> s, completed |-> c, decided |-> dec, by |-> p]
Absent == Row("none", FALSE, FALSE, Nobody)
Fresh  == Row("incomplete", FALSE, FALSE, Nobody)

(* A definition recurs on a set of weekdays (a non-zero mask) or has one   *)
(* date; the column it does not use is NULL: no weekday, or NoDate.        *)
Definition == [state : RowState, weekdays : SUBSET Weekdays,
               date : Days \cup {NoDate}]

Recurring(ws) == [weekdays |-> ws, date |-> NoDate]
OneOff(e) == [weekdays |-> {}, date |-> e]
Schedules == {Recurring(ws) : ws \in (SUBSET Weekdays) \ {{}}}
                \cup {OneOff(e) : e \in Days}

AppliesOn(d, e) ==
    /\ def[d].state = "active"
    /\ Weekday(e) \in def[d].weekdays \/ def[d].date = e

Init ==
    /\ chore = [c \in Catalog |-> "absent"]
    /\ def = [d \in Defs |-> [state |-> "absent", weekdays |-> {},
                              date |-> NoDate]]
    /\ inst = [d \in Defs |-> [e \in Days |-> Absent]]

-----------------------------------------------------------------------------
(* ChoreStore and ChoreDefinitionStore.                                    *)
CreateChore(c) ==
    /\ chore[c] = "absent"
    /\ chore' = [chore EXCEPT ![c] = "active"]
    /\ UNCHANGED <<def, inst>>

(* createRecurring, createOneOff: the foreign key asks for a catalog row,  *)
(* nothing asks for an active one.                                         *)
CreateDefinition(d, s) ==
    /\ def[d].state = "absent"
    /\ chore[ChoreOf[d]] # "absent"
    /\ def' = [def EXCEPT ![d] = [state |-> "active", weekdays |-> s.weekdays,
                                  date |-> s.date]]
    /\ UNCHANGED <<chore, inst>>

(* UpdateBootstrapRecurring and UpdateBootstrapOneOff write one of the two *)
(* schedule columns and clear the other.  Their caller finds the row among *)
(* the active ones.                                                        *)
UpdateBootstrapRecurring(d, ws) ==
    /\ def[d].state = "active"
    /\ def' = [def EXCEPT ![d].weekdays = ws, ![d].date = NoDate]
    /\ UNCHANGED <<chore, inst>>

(* Mutant of UpdateBootstrapOneOff: days_of_week is not cleared.           *)
UpdateDateOnly(d, e) ==
    /\ def[d].state = "active"
    /\ def' = [def EXCEPT ![d].date = e]
    /\ UNCHANGED <<chore, inst>>

UpdateBootstrapOneOff(d, e) ==
    /\ def[d].state = "active"
    /\ def' = [def EXCEPT ![d].weekdays = {}, ![d].date = e]
    /\ UNCHANGED <<chore, inst>>

WithoutUnresolved(ds) ==
    [d \in Defs |-> [e \in Days |->
        IF d \in ds /\ inst[d][e].status \in Unresolved THEN Absent
                                                        ELSE inst[d][e]]]

(* Mutant of DeactivateDefinition: the flag without the DELETE.            *)
DeactivateOnly(d) ==
    /\ def[d].state # "absent"
    /\ def' = [def EXCEPT ![d].state = "deleted"]
    /\ UNCHANGED <<chore, inst>>

DeactivateDefinition(d) ==
    /\ def[d].state # "absent"
    /\ def' = [def EXCEPT ![d].state = "deleted"]
    /\ inst' = WithoutUnresolved({d})
    /\ UNCHANGED chore

AssignmentsOf(c) == {d \in Defs : ChoreOf[d] = c /\ def[d].state # "absent"}

DeactivateChore(c) ==
    /\ chore[c] # "absent"
    /\ chore' = [chore EXCEPT ![c] = "deleted"]
    /\ def' = [d \in Defs |-> IF d \in AssignmentsOf(c)
                              THEN [def[d] EXCEPT !.state = "deleted"]
                              ELSE def[d]]
    /\ inst' = WithoutUnresolved(AssignmentsOf(c))

-----------------------------------------------------------------------------
(* ChoreInstanceStore.                                                     *)
Generated(rows, es) ==
    [d \in Defs |-> [e \in Days |->
        IF e \in es /\ AppliesOn(d, e) /\ rows[d][e] = Absent THEN Fresh
                                                             ELSE rows[d][e]]]

EnsureForDate(e) ==
    /\ inst' = Generated(inst, {e})
    /\ UNCHANGED <<chore, def>>

(* The backlog of an approval: older occurrences not yet resolved.         *)
Backlog(d, e) == {x \in Days : x < e /\ inst[d][x].status \in Unresolved}

(* completed_at keeps the time it has or gets one; so it is set.           *)
Approved(p) == Row("approved", TRUE, TRUE, p)

(* Mutant of Submitted: the decision on the first attempt is kept.         *)
Resubmitted(d, e) ==
    [inst EXCEPT ![d][e].status = "pending_approval", ![d][e].completed = TRUE]

Submitted(d, e) ==
    [inst EXCEPT ![d][e] = Row("pending_approval", TRUE, FALSE, Nobody)]
SelfApproved(d, e) ==
    [inst EXCEPT ![d] = [x \in Days |->
        IF x = e THEN Approved(Nobody)
        ELSE IF x \in Backlog(d, e) THEN Approved(inst[d][x].by) ELSE inst[d][x]]]

(* MarkComplete: a child's chore waits for a parent's decision; a parent's *)
(* own chore is approved at once with its backlog, and the cascade leaves  *)
(* decided_by as it was.                                                   *)
Tappable(d, e) == inst[d][e].status \in {"incomplete", "rejected"}

Completed(d, e) == IF d \in ParentAssigned THEN SelfApproved(d, e)
                                           ELSE Submitted(d, e)

MarkComplete(d, e) ==
    /\ Tappable(d, e)
    /\ inst' = Completed(d, e)
    /\ UNCHANGED <<chore, def>>

(* Decide: p is the parent, or Nobody for a click in an e-mail.            *)
Approve(d, e, p) ==
    /\ inst[d][e].status = "pending_approval"
    /\ inst' = [inst EXCEPT ![d] = [x \in Days |->
                  IF x = e \/ x \in Backlog(d, e)
                  THEN Approved(p) ELSE inst[d][x]]]
    /\ UNCHANGED <<chore, def>>

Reject(d, e, p) ==
    /\ inst[d][e].status = "pending_approval"
    /\ inst' = [inst EXCEPT ![d][e] = Row("rejected", @.completed, TRUE, p)]
    /\ UNCHANGED <<chore, def>>

Decide(d, e, p) == Approve(d, e, p) \/ Reject(d, e, p)

ResetRejected(d, e) ==
    /\ inst[d][e].status = "rejected"
    /\ inst' = [inst EXCEPT ![d][e] = Fresh]
    /\ UNCHANGED <<chore, def>>

Next ==
    \/ \E c \in Catalog : CreateChore(c) \/ DeactivateChore(c)
    \/ \E d \in Defs, s \in Schedules : CreateDefinition(d, s)
    \/ \E d \in Defs, ws \in (SUBSET Weekdays) \ {{}} : UpdateBootstrapRecurring(d, ws)
    \/ \E d \in Defs, e \in Days : UpdateBootstrapOneOff(d, e)
    \/ \E d \in Defs : DeactivateDefinition(d)
    \/ \E e \in Days : EnsureForDate(e)
    \/ \E d \in Defs, e \in Days : MarkComplete(d, e) \/ ResetRejected(d, e)
    \/ \E d \in Defs, e \in Days, p \in Parents \cup {Nobody} : Decide(d, e, p)

Spec == Init /\ [][Next]_vars

-----------------------------------------------------------------------------
(* The three tables hold rows of their types.                              *)
TypeOK ==
    /\ chore \in [Catalog -> RowState]
    /\ def \in [Defs -> Definition]
    /\ inst \in [Defs -> [Days -> Instance]]

(* The columns of a row tell one story.                                    *)
Consistent(r) ==
    /\ r.status \in {"none", "incomplete"} => ~r.completed /\ ~r.decided /\ r.by = Nobody
    /\ r.status = "pending_approval" => r.completed /\ ~r.decided /\ r.by = Nobody
    /\ r.status \in {"approved", "rejected"} => r.completed /\ r.decided

(* The timestamps tell the same story as the status, whatever sequence of  *)
(* submissions, rejections, resets and cascades led there: completed_at is *)
(* set once somebody did it, decided_at and decided_by once it is decided. *)
ColumnsMatchStatus == \A d \in Defs, e \in Days : Consistent(inst[d][e])

(* The recurring_xor_one_off CHECK constraint: no update of a bootstrap    *)
(* assignment, in either direction, is refused by the database.            *)
RecurringXorOneOff ==
    \A d \in Defs : def[d].state # "absent" =>
        (def[d].weekdays # {}) # (def[d].date # NoDate)

(* A deleted assignment stops showing up: none of its occurrences is open. *)
DeletedHasNoOpenWork ==
    \A d \in Defs, e \in Days :
        def[d].state = "deleted" => inst[d][e].status \notin Unresolved

-----------------------------------------------------------------------------
(* What the stores promise, as ChoreBoard states it.                       *)
statusOf == [d \in Defs |-> [e \in Days |-> inst[d][e].status]]
unseenOf == [d \in Defs |-> [e \in Days |-> {}]]      \* no method is under way
Board == INSTANCE ChoreBoard WITH status <- statusOf, unseen <- unseenOf
ImplementsBoard == Board!Spec
=============================================================================
