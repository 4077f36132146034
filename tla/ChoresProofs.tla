---------------------------- MODULE ChoresProofs ----------------------------
(***************************************************************************)
(* Proofs about Chores, for every catalog, every set of assignments, dates *)
(* and parents.  The tables are shown well typed and their rows consistent *)
(* first; then every operation of the stores is shown to be a step of      *)
(* ChoreBoard, or none.                                                    *)
(***************************************************************************)
EXTENDS Chores, TLAPS

(* The rows that can be in the table.                                      *)
GoodRow == {r \in Instance : Consistent(r)}
GoodTable == inst \in [Defs -> [Days -> GoodRow]]

(* The kinds of row the operations write.                                  *)
LEMMA RowsWritten ==
    /\ Absent \in GoodRow
    /\ Fresh \in GoodRow
    /\ Row("pending_approval", TRUE, FALSE, Nobody) \in GoodRow
    /\ \A p \in Parents \cup {Nobody} :
          Approved(p) \in GoodRow /\ Row("rejected", TRUE, TRUE, p) \in GoodRow
  BY DEF GoodRow, Instance, Consistent, Status, Unresolved, Absent, Fresh,
         Approved, Row

(* The first state.                                                        *)
LEMMA InitGood == Init => TypeOK /\ GoodTable
  BY RowsWritten, NullsAreDistinct
     DEF Init, TypeOK, GoodTable, GoodRow, RowState, Definition

(* Deletions and generation keep every row good.                           *)
LEMMA TableOperations ==
    ASSUME GoodTable, NEW ds, NEW es, NEW rows \in [Defs -> [Days -> GoodRow]]
    PROVE  /\ WithoutUnresolved(ds) \in [Defs -> [Days -> GoodRow]]
           /\ Generated(rows, es) \in [Defs -> [Days -> GoodRow]]
  BY RowsWritten DEF GoodTable, WithoutUnresolved, Generated

(* So do a tap and a parent's decision.                                    *)
LEMMA CompletedGood ==
    ASSUME GoodTable, NEW d \in Defs, NEW e \in Days
    PROVE  Completed(d, e) \in [Defs -> [Days -> GoodRow]]
<1>1. Submitted(d, e) \in [Defs -> [Days -> GoodRow]]
  BY RowsWritten DEF GoodTable, Submitted
<1>2. SelfApproved(d, e) \in [Defs -> [Days -> GoodRow]]
  <2>1. ASSUME NEW x \in Days
        PROVE  inst[d][x] \in GoodRow /\ Approved(inst[d][x].by) \in GoodRow
    BY RowsWritten DEF GoodTable, GoodRow, Instance
  <2>2. Approved(Nobody) \in GoodRow
    BY RowsWritten
  <2>. QED
    BY <2>1, <2>2 DEF GoodTable, SelfApproved
<1>. QED
  BY <1>1, <1>2 DEF Completed

LEMMA DecideGood ==
    ASSUME GoodTable, NEW d \in Defs, NEW e \in Days, NEW p \in Parents \cup {Nobody},
           Decide(d, e, p)
    PROVE  GoodTable'
<1>1. CASE Approve(d, e, p)
  BY <1>1, RowsWritten DEF GoodTable, Approve
<1>2. CASE Reject(d, e, p)
  <2>1. inst[d][e] \in GoodRow /\ inst[d][e].status = "pending_approval"
    BY <1>2 DEF GoodTable, Reject
  <2>2. inst[d][e].completed = TRUE
    BY <2>1 DEF GoodRow, Instance, Consistent
  <2>. QED
    BY <1>2, <2>2, RowsWritten DEF GoodTable, Reject
<1>. QED
  BY <1>1, <1>2 DEF Decide

-----------------------------------------------------------------------------
(* The catalog and the assignments, without their occurrences.             *)
Assignments ==
    /\ chore \in [Catalog -> RowState]
    /\ def \in [Defs -> Definition]
    /\ RecurringXorOneOff

(* Every schedule a definition gets is of one kind, never of both.         *)
LEMMA AssignmentsStep == Assignments /\ [Next]_vars => Assignments'
<1> SUFFICES ASSUME Assignments, [Next]_vars PROVE Assignments'
  OBVIOUS
<1> USE DEF Assignments, RecurringXorOneOff, RowState, Definition
<1>1. ASSUME NEW c \in Catalog, CreateChore(c) PROVE Assignments'
  BY <1>1 DEF CreateChore
<1>2. ASSUME NEW c \in Catalog, DeactivateChore(c) PROVE Assignments'
  BY <1>2 DEF DeactivateChore, AssignmentsOf
<1>3. ASSUME NEW d \in Defs, NEW s \in Schedules, CreateDefinition(d, s)
      PROVE  Assignments'
  <2>1. /\ s.weekdays \in SUBSET Weekdays /\ s.date \in Days \cup {NoDate}
        /\ (s.weekdays # {}) # (s.date # NoDate)
    BY NullsAreDistinct DEF Schedules, Recurring, OneOff
  <2>. QED
    BY <1>3, <2>1 DEF CreateDefinition
<1>4. ASSUME NEW d \in Defs, NEW ws \in (SUBSET Weekdays) \ {{}},
             UpdateBootstrapRecurring(d, ws)
      PROVE  Assignments'
  BY <1>4 DEF UpdateBootstrapRecurring
<1>5. ASSUME NEW d \in Defs, NEW e \in Days, UpdateBootstrapOneOff(d, e)
      PROVE  Assignments'
  BY <1>5, NullsAreDistinct DEF UpdateBootstrapOneOff
<1>6. ASSUME NEW d \in Defs, DeactivateDefinition(d) PROVE Assignments'
  BY <1>6 DEF DeactivateDefinition
<1>7. CASE UNCHANGED <<chore, def>>
  BY <1>7
<1>. QED
  BY <1>1, <1>2, <1>3, <1>4, <1>5, <1>6, <1>7
     DEF Next, vars, EnsureForDate, MarkComplete, ResetRejected, Decide, Approve, Reject

(* No operation writes a row that is not good.                             *)
LEMMA GoodTableStep == GoodTable /\ [Next]_vars => GoodTable'
<1> SUFFICES ASSUME GoodTable, [Next]_vars PROVE GoodTable'
  OBVIOUS
<1>1. ASSUME NEW c \in Catalog, DeactivateChore(c) PROVE GoodTable'
  BY <1>1, TableOperations DEF DeactivateChore, GoodTable
<1>2. ASSUME NEW d \in Defs, DeactivateDefinition(d) PROVE GoodTable'
  BY <1>2, TableOperations DEF DeactivateDefinition, GoodTable
<1>3. ASSUME NEW e \in Days, EnsureForDate(e) PROVE GoodTable'
  BY <1>3, TableOperations DEF EnsureForDate, GoodTable
<1>4. ASSUME NEW d \in Defs, NEW e \in Days, MarkComplete(d, e) PROVE GoodTable'
  BY <1>4, CompletedGood DEF MarkComplete, GoodTable
<1>5. ASSUME NEW d \in Defs, NEW e \in Days, ResetRejected(d, e) PROVE GoodTable'
  BY <1>5, RowsWritten DEF ResetRejected, GoodTable
<1>6. ASSUME NEW d \in Defs, NEW e \in Days, NEW p \in Parents \cup {Nobody},
             Decide(d, e, p)
      PROVE  GoodTable'
  BY <1>6, DecideGood
<1>7. CASE UNCHANGED inst
  BY <1>7 DEF GoodTable
<1>. QED
  BY <1>1, <1>2, <1>3, <1>4, <1>5, <1>6, <1>7
     DEF Next, vars, CreateChore, CreateDefinition, UpdateBootstrapRecurring,
         UpdateBootstrapOneOff

(* The inductive invariant of the tables.                                  *)
Tables == Assignments /\ GoodTable

LEMMA TablesInvariant == Spec => []Tables
<1>1. Init => Tables
  <2>1. Init => RecurringXorOneOff
    BY DEF Init, RecurringXorOneOff
  <2>. QED
    BY <2>1, InitGood DEF Tables, Assignments, TypeOK
<1>2. Tables /\ [Next]_vars => Tables'
  BY AssignmentsStep, GoodTableStep DEF Tables
<1>. QED
  BY <1>1, <1>2, PTL DEF Spec

(* The three tables keep their types.                                      *)
THEOREM ChoresTypeCorrect == Spec => []TypeOK
<1>1. Tables => TypeOK
  BY DEF Tables, Assignments, GoodTable, GoodRow, TypeOK
<1>. QED
  BY <1>1, TablesInvariant, PTL

(* completed_at, decided_at and decided_by always agree with the status.   *)
THEOREM ColumnsAgree == Spec => []ColumnsMatchStatus
<1>1. Tables => ColumnsMatchStatus
  BY DEF Tables, GoodTable, GoodRow, ColumnsMatchStatus
<1>. QED
  BY <1>1, TablesInvariant, PTL

(* The recurring_xor_one_off constraint is never violated.                 *)
THEOREM SchedulesAreOfOneKind == Spec => []RecurringXorOneOff
<1>1. Tables => RecurringXorOneOff
  BY DEF Tables, Assignments
<1>. QED
  BY <1>1, TablesInvariant, PTL

-----------------------------------------------------------------------------
(* What each operation does to the statuses alone.                         *)
LEMMA DeletedStep == Tables /\ DeletedHasNoOpenWork /\ [Next]_vars => DeletedHasNoOpenWork'
<1> SUFFICES ASSUME Tables, DeletedHasNoOpenWork, [Next]_vars
             PROVE  DeletedHasNoOpenWork'
  OBVIOUS
<1> USE DEF DeletedHasNoOpenWork, Unresolved, Tables, Assignments, GoodTable
<1>0. Absent.status = "none"
  BY DEF Absent, Row
<1>1. ASSUME NEW c \in Catalog, CreateChore(c) PROVE DeletedHasNoOpenWork'
  BY <1>1 DEF CreateChore
<1>2. ASSUME NEW c \in Catalog, DeactivateChore(c) PROVE DeletedHasNoOpenWork'
  BY <1>0, <1>2 DEF DeactivateChore, AssignmentsOf, WithoutUnresolved
<1>3. ASSUME NEW d \in Defs, NEW s \in Schedules, CreateDefinition(d, s)
      PROVE  DeletedHasNoOpenWork'
  BY <1>3 DEF CreateDefinition
<1>4. ASSUME NEW d \in Defs, NEW ws \in (SUBSET Weekdays) \ {{}},
             UpdateBootstrapRecurring(d, ws)
      PROVE  DeletedHasNoOpenWork'
  BY <1>4 DEF UpdateBootstrapRecurring, Definition
<1>5. ASSUME NEW d \in Defs, NEW e \in Days, UpdateBootstrapOneOff(d, e)
      PROVE  DeletedHasNoOpenWork'
  BY <1>5 DEF UpdateBootstrapOneOff, Definition
<1>6. ASSUME NEW d \in Defs, DeactivateDefinition(d) PROVE DeletedHasNoOpenWork'
  BY <1>0, <1>6 DEF DeactivateDefinition, WithoutUnresolved, Definition
<1>7. ASSUME NEW e \in Days, EnsureForDate(e) PROVE DeletedHasNoOpenWork'
  BY <1>7 DEF EnsureForDate, Generated, AppliesOn
<1>8. ASSUME NEW d \in Defs, NEW e \in Days, MarkComplete(d, e)
      PROVE  DeletedHasNoOpenWork'
  BY <1>8 DEF MarkComplete, Tappable, Completed, Submitted, SelfApproved, Approved, Row
<1>9. ASSUME NEW d \in Defs, NEW e \in Days, ResetRejected(d, e)
      PROVE  DeletedHasNoOpenWork'
  BY <1>9 DEF ResetRejected
<1>10. ASSUME NEW d \in Defs, NEW e \in Days, NEW p \in Parents \cup {Nobody},
             Decide(d, e, p)
      PROVE  DeletedHasNoOpenWork'
  BY <1>10 DEF Decide, Approve, Reject, Approved, Row
<1>11. CASE UNCHANGED vars
  BY <1>11 DEF vars
<1>. QED
  BY <1>1, <1>2, <1>3, <1>4, <1>5, <1>6, <1>7, <1>8, <1>9, <1>10, <1>11 DEF Next

(* A deleted assignment has no open occurrence, whichever way it went.     *)
THEOREM DeletedStaysDone == Spec => []DeletedHasNoOpenWork
<1>1. Init => DeletedHasNoOpenWork
  BY DEF Init, DeletedHasNoOpenWork
<1>. QED
  BY <1>1, DeletedStep, TablesInvariant, PTL DEF Spec

-----------------------------------------------------------------------------
(* The stores implement the board: each operation, seen through the        *)
(* statuses, is one of the board's operations or changes nothing.          *)
LEMMA BoardInit == Init => Board!Init
  BY DEF Init, Board!Init, statusOf, unseenOf, Absent, Row

LEMMA BoardStep == Tables /\ [Next]_vars => [Board!Next]_(Board!board)
<1> SUFFICES ASSUME Tables, [Next]_vars PROVE Board!Next \/ UNCHANGED Board!board
  OBVIOUS
<1> USE DEF Tables, GoodTable, statusOf, Unresolved, Board!Unresolved, Board!Resubmittable
<1> DEFINE Changed == Board!Changes \/ UNCHANGED statusOf
<1>0. Absent.status = "none" /\ Fresh.status = "incomplete"
  BY DEF Absent, Fresh, Row
<1>1. ASSUME NEW ds \in SUBSET Defs, inst' = WithoutUnresolved(ds)
      PROVE  \E gone \in SUBSET (Defs \X Days) : Board!Withdraw(gone)
  <2> DEFINE gone == {p \in Defs \X Days : p[1] \in ds /\ inst[p[1]][p[2]].status \in Unresolved}
  <2>1. \A p \in gone : statusOf[p[1]][p[2]] \in Unresolved
    OBVIOUS
  <2>2. statusOf' = [d \in Defs |-> [e \in Days |->
                       IF <<d, e>> \in gone THEN "none" ELSE statusOf[d][e]]]
    BY <1>0, <1>1 DEF WithoutUnresolved
  <2>3. gone \in SUBSET (Defs \X Days)
    OBVIOUS
  <2>. HIDE DEF gone
  <2>. QED
    BY <2>1, <2>2, <2>3 DEF Board!Withdraw
<1>2. ASSUME NEW e \in Days, EnsureForDate(e)
      PROVE  \E ds \in SUBSET Defs : Board!Appear(ds, e)
  <2> DEFINE ds == {d \in Defs : AppliesOn(d, e) /\ inst[d][e] = Absent}
  <2>1. statusOf' = [d \in Defs |-> IF d \in ds THEN [statusOf[d] EXCEPT ![e] = "incomplete"]
                                               ELSE statusOf[d]]
    BY <1>0, <1>2 DEF EnsureForDate, Generated
  <2>2. \A d \in ds : statusOf[d][e] = "none"
    BY <1>0
  <2>. QED
    BY <2>1, <2>2 DEF Board!Appear
<1>3. ASSUME NEW d \in Defs, NEW e \in Days, MarkComplete(d, e)
      PROVE  Board!Submit(d, e) \/ Board!SelfApprove(d, e)
  <2>1. CASE d \notin ParentAssigned
    BY <1>3, <2>1 DEF MarkComplete, Tappable, Completed, Submitted, Row, Board!Submit
  <2>2. CASE d \in ParentAssigned
    <3>1. statusOf' = [statusOf EXCEPT ![d] = Board!CaughtUp(statusOf[d], e, {})]
      BY <1>3, <2>2 DEF MarkComplete, Completed, SelfApproved, Backlog, Approved, Row,
                        Board!CaughtUp
    <3>. QED
      BY <1>3, <2>2, <3>1 DEF MarkComplete, Tappable, Board!SelfApprove
  <2>. QED
    BY <2>1, <2>2
<1>4. ASSUME NEW d \in Defs, NEW e \in Days, NEW p \in Parents \cup {Nobody}, Approve(d, e, p)
      PROVE  Board!Approve(d, e)
  <2>1. statusOf' = [statusOf EXCEPT ![d] = Board!CaughtUp(statusOf[d], e, {})]
    BY <1>4 DEF Approve, Backlog, Approved, Row, Board!CaughtUp
  <2>. QED
    BY <1>4, <2>1 DEF Approve, Board!Approve
<1>5. ASSUME NEW d \in Defs, NEW e \in Days, NEW p \in Parents \cup {Nobody}, Reject(d, e, p)
      PROVE  Board!Reject(d, e)
  BY <1>5 DEF Reject, Row, Board!Reject
<1>6. ASSUME NEW d \in Defs, NEW e \in Days, ResetRejected(d, e)
      PROVE  Board!Retry(d, e)
  BY <1>0, <1>6 DEF ResetRejected, Board!Retry
<1>7. ASSUME NEW c \in Catalog, DeactivateChore(c) PROVE Changed
  BY <1>1, <1>7 DEF DeactivateChore, AssignmentsOf, Board!Changes
<1>8. ASSUME NEW d \in Defs, DeactivateDefinition(d) PROVE Changed
  BY <1>1, <1>8 DEF DeactivateDefinition, Board!Changes
<1>9. ASSUME UNCHANGED inst PROVE Changed
  BY <1>9
<1>10. ASSUME NEW e \in Days, EnsureForDate(e) PROVE Changed
  BY <1>2, <1>10 DEF Board!Changes
<1>11. ASSUME NEW d \in Defs, NEW e \in Days, MarkComplete(d, e) \/ ResetRejected(d, e)
       PROVE  Changed
  BY <1>3, <1>6, <1>11 DEF Board!Changes
<1>12. ASSUME NEW d \in Defs, NEW e \in Days, NEW p \in Parents \cup {Nobody}, Decide(d, e, p)
       PROVE  Changed
  BY <1>4, <1>5, <1>12 DEF Decide, Board!Changes
<1>13. Changed
  BY <1>7, <1>8, <1>9, <1>10, <1>11, <1>12
     DEF Next, vars, CreateChore, CreateDefinition, UpdateBootstrapRecurring,
         UpdateBootstrapOneOff
<1>14. Board!Overlooks
  BY DEF Board!Overlooks, unseenOf
<1>. QED
  BY <1>13, <1>14 DEF Board!Next

(* Whatever is proved of ChoreBoard holds of the tables.                   *)
THEOREM StoresImplementBoard == Spec => ImplementsBoard
  BY BoardInit, BoardStep, TablesInvariant, PTL DEF Spec, ImplementsBoard, Board!Spec
=============================================================================
