-------------------------- MODULE StoreUsersProofs --------------------------
(***************************************************************************)
(* Proofs about the two users of the stores of Chores.  Bootstrap: a start *)
(* of the server, broken off or not, changes the tables of chores by their *)
(* store methods only, and one without errors leaves the database as the   *)
(* files ask.  ApprovalFlow: whatever the kiosk, the parents and their     *)
(* e-mails do, the tile of a chore stands for its backlog and every        *)
(* submission is announced at most once.  Both hold for any files, rows,   *)
(* schedules and bounds.                                                   *)
(***************************************************************************)
EXTENDS Bootstrap, ApprovalFlow, ChoresProofs, FiniteSetTheorems

(* Where a start can be: in some loop, or past the last one.               *)
Places == Loops \cup {"serving"}
Located ==
    /\ boot = Boot(boot.loop, boot.half, boot.todo, boot.seen)
    /\ boot.loop \in Places
    /\ boot.half \in {"entries", "removal"}

(* An entry in hand is one of the file, which does not change meanwhile;   *)
(* without a file there is none, and nothing to remove either.             *)
InHandIsEntry ==
    /\ boot.half = "entries" =>
          /\ boot.loop \in Loops
          /\ files[boot.loop] # Missing
          /\ boot.todo \subseteq Entries(boot.loop)
    /\ boot.loop \in Loops /\ files[boot.loop] = Missing => boot.todo = {}

(* What is about to be removed came from a file.                           *)
RemovesManaged == boot.half = "removal" => boot.todo \subseteq managed

BootInv ==
    /\ files \in Files
    /\ named \in [Named -> RowState]
    /\ Located
    /\ InHandIsEntry
    /\ RemovesManaged

(* What a start enters.                                                    *)
LEMMA EnterFields ==
    ASSUME NEW l \in Places
    PROVE  /\ Enter(l) = Boot(Enter(l).loop, Enter(l).half, Enter(l).todo, Enter(l).seen)
           /\ Enter(l).loop = l
           /\ Enter(l).half \in {"entries", "removal"}
           /\ Enter(l).seen = {}
           /\ Enter(l).half = "entries" =>
                 l \in Loops /\ files[l] # Missing /\ Enter(l).todo = Entries(l)
           /\ Enter(l).half = "removal" =>
                 Enter(l).todo = {} /\ (l \in Loops => files[l] = Missing)
  BY DEF Enter, Boot, Serving, Loops, Places

(* What taking one out of the set in hand leaves.                          *)
LEMMA FieldsOf ==
    ASSUME Located, NEW h, NEW T, NEW S
    PROVE  /\ [boot EXCEPT !.todo = T] = Boot(boot.loop, boot.half, T, boot.seen)
           /\ [boot EXCEPT !.todo = T, !.seen = S] = Boot(boot.loop, boot.half, T, S)
           /\ [boot EXCEPT !.half = h, !.todo = T] = Boot(boot.loop, h, T, boot.seen)
           /\ [boot EXCEPT !.half = h] = Boot(boot.loop, h, boot.todo, boot.seen)
<1>1. boot \in [loop : {boot.loop}, half : {boot.half}, todo : {boot.todo}, seen : {boot.seen}]
  BY DEF Located, Boot
<1>2. [boot EXCEPT !.todo = T] = Boot(boot.loop, boot.half, T, boot.seen)
  BY <1>1 DEF Boot
<1>3. [boot EXCEPT !.todo = T, !.seen = S] = Boot(boot.loop, boot.half, T, S)
  <2>1. [boot EXCEPT !.todo = T, !.seen = S] = [[boot EXCEPT !.todo = T] EXCEPT !.seen = S]
    BY <1>1
  <2>2. [Boot(boot.loop, boot.half, T, boot.seen) EXCEPT !.seen = S]
           = Boot(boot.loop, boot.half, T, S)
    BY DEF Boot
  <2>. QED
    BY <1>2, <2>1, <2>2
<1>4. [boot EXCEPT !.half = h] = Boot(boot.loop, h, boot.todo, boot.seen)
  BY <1>1 DEF Boot
<1>5. [boot EXCEPT !.half = h, !.todo = T] = Boot(boot.loop, h, T, boot.seen)
  <2>1. [boot EXCEPT !.half = h, !.todo = T] = [[boot EXCEPT !.half = h] EXCEPT !.todo = T]
    BY <1>1
  <2>2. [Boot(boot.loop, h, boot.todo, boot.seen) EXCEPT !.todo = T]
           = Boot(boot.loop, h, T, boot.seen)
    BY DEF Boot
  <2>. QED
    BY <1>4, <2>1, <2>2
<1>. QED
  BY <1>2, <1>3, <1>4, <1>5

LEMMA BootInvInit == BootInit => BootInv
  BY DEF BootInit, BootInv, Located, InHandIsEntry, RemovesManaged, Serving, Boot,
         Places, RowState

(* What a step of a start leaves: the files, and the mark of a row.        *)
RowsGrow ==
    /\ UNCHANGED files
    /\ managed \subseteq managed'
    /\ named' \in [Named -> RowState]

(* The four ways in which the place of a start changes.                    *)
LEMMA LessToDo ==
    ASSUME BootInv, RowsGrow, NEW x, NEW S,
           \/ boot' = [boot EXCEPT !.todo = @ \ {x}]
           \/ boot' = [boot EXCEPT !.todo = @ \ {x}, !.seen = S]
    PROVE  BootInv'
<1>0. \/ boot' = Boot(boot.loop, boot.half, boot.todo \ {x}, boot.seen)
      \/ boot' = Boot(boot.loop, boot.half, boot.todo \ {x}, S)
  <2> DEFINE T == boot.todo \ {x}
  <2>1. boot' = [boot EXCEPT !.todo = T] \/ boot' = [boot EXCEPT !.todo = T, !.seen = S]
    OBVIOUS
  <2>. HIDE DEF T
  <2>. QED
    BY <2>1, FieldsOf DEF BootInv
<1>1. PICK s : boot' = Boot(boot.loop, boot.half, boot.todo \ {x}, s)
  BY <1>0
<1>2. /\ boot'.loop = boot.loop /\ boot'.half = boot.half
      /\ boot'.todo = boot.todo \ {x} /\ boot'.seen = s
  BY <1>1 DEF Boot
<1>3. Located'
  BY <1>1, <1>2 DEF BootInv, Located
<1>4. InHandIsEntry'
  BY <1>2 DEF BootInv, InHandIsEntry, Entries, RowsGrow
<1>5. RemovesManaged'
  BY <1>2 DEF BootInv, RemovesManaged, RowsGrow
<1>. QED
  BY <1>3, <1>4, <1>5 DEF BootInv, RowsGrow

LEMMA ToRemoval ==
    ASSUME BootInv, RowsGrow, boot.half = "entries", NEW T,
           \/ T \subseteq managed /\ boot' = [boot EXCEPT !.half = "removal", !.todo = T]
           \/ boot.todo = {} /\ boot' = [boot EXCEPT !.half = "removal"]
    PROVE  BootInv'
<1>0. \/ T \subseteq managed /\ boot' = Boot(boot.loop, "removal", T, boot.seen)
      \/ boot.todo = {} /\ boot' = Boot(boot.loop, "removal", boot.todo, boot.seen)
  BY FieldsOf DEF BootInv
<1>1. PICK t \in SUBSET managed : boot' = Boot(boot.loop, "removal", t, boot.seen)
  BY <1>0
<1>2. /\ boot'.loop = boot.loop /\ boot'.half = "removal"
      /\ boot'.todo = t /\ boot'.seen = boot.seen
  BY <1>1 DEF Boot
<1>. QED
  BY <1>0, <1>1, <1>2 DEF BootInv, Located, InHandIsEntry, RemovesManaged, RowsGrow

LEMMA Enters ==
    ASSUME BootInv, RowsGrow, NEW l \in Places, boot' = Enter(l)
    PROVE  BootInv'
<1>1. Located'
  BY EnterFields DEF BootInv, Located
<1>2. InHandIsEntry'
  <2>1. Entries(l)' = Entries(l) /\ files'[l] = files[l]
    BY DEF Entries, RowsGrow
  <2>. QED
    BY <2>1, EnterFields DEF InHandIsEntry
<1>3. RemovesManaged'
  BY EnterFields DEF RemovesManaged
<1>. QED
  BY <1>1, <1>2, <1>3 DEF BootInv, RowsGrow

LEMMA Stays == BootInv /\ RowsGrow /\ UNCHANGED boot => BootInv'
  BY DEF BootInv, Located, InHandIsEntry, RemovesManaged, Entries, RowsGrow

LEMMA BootInvStep == BootInv /\ [BootNext]_bootVars => BootInv'
<1> SUFFICES ASSUME BootInv, [BootNext]_bootVars PROVE BootInv'
  OBVIOUS
<1>0. UNCHANGED <<files, named, managed>> => RowsGrow
  BY DEF BootInv, RowsGrow
<1>1. CASE Start
  BY <1>0, <1>1, Enters DEF Start, tables, Places, Loops
<1>2. ASSUME NEW l, NEW n, BootstrapNamed(l, n) PROVE BootInv'
  <2>1. RowsGrow
    BY <1>2 DEF BootInv, BootstrapNamed, Quietly, RowsGrow, RowState
  <2>. QED
    BY <1>2, <2>1, LessToDo DEF BootstrapNamed, Done
<1>3. ASSUME NEW c, BootstrapChore(c) \/ RemoveChore(c) PROVE BootInv'
  <2>1. RowsGrow
    BY <1>3 DEF BootInv, BootstrapChore, RemoveChore, Quietly, RowsGrow
  <2>. QED
    BY <1>3, <2>1, LessToDo DEF BootstrapChore, RemoveChore, Done
<1>4. ASSUME NEW n, NEW c, BootstrapAssignment(n, c) PROVE BootInv'
  <2>1. RowsGrow
    BY <1>4 DEF BootInv, BootstrapAssignment, Assign, Quietly, RowsGrow
  <2>. QED
    BY <1>4, <2>1, LessToDo DEF BootstrapAssignment, Done
<1>5. CASE ListForRemoval
  <2>1. Unnamed(boot.loop) \subseteq managed
    BY DEF Unnamed
  <2>. QED
    BY <1>0, <1>5, <2>1, ToRemoval DEF ListForRemoval, Quietly, tables
<1>6. ASSUME NEW l, NEW r, RemoveNamed(l, r) PROVE BootInv'
  <2>1. RowsGrow
    BY <1>6 DEF BootInv, RemoveNamed, Quietly, RowsGrow, RowState
  <2>. QED
    BY <1>6, <2>1, LessToDo DEF RemoveNamed, Done
<1>7. ASSUME NEW d, RemoveAssignment(d) PROVE BootInv'
  BY <1>0, <1>7, LessToDo DEF RemoveAssignment, Done, Quietly
<1>8. CASE EndLoop
  <2>1. NextLoop[boot.loop] \in Places
    BY <1>8 DEF EndLoop, NextLoop, BootInv, Located, Places, Loops
  <2>. QED
    BY <1>0, <1>8, <2>1, Enters DEF EndLoop, tables
<1>9. CASE Skip
  BY <1>0, <1>9, LessToDo DEF Skip, Failure, Done, tables
<1>10. CASE SkipRemoval
  BY <1>0, <1>10, ToRemoval DEF SkipRemoval, Failure, tables
<1>11. ASSUME NEW l \in Loops, WriteFile(l) PROVE BootInv'
  <2>1. PICK f \in Files : files' = [files EXCEPT ![l] = f[l]]
    BY <1>11 DEF WriteFile
  <2>2. files' \in Files
    BY <2>1 DEF BootInv, Files, Loops
  <2>3. /\ boot' = boot /\ UNCHANGED <<named, managed>>
        /\ boot.loop = "serving" /\ boot.half = "removal"
    BY <1>11 DEF WriteFile, Edit, Serving, Boot, tables
  <2>. QED
    BY <2>2, <2>3 DEF BootInv, Located, InHandIsEntry, RemovesManaged, Loops
<1>12. ASSUME NEW r, CreateNamed(r) \/ RemoveByHand(r) PROVE BootInv'
  <2>1. RowsGrow
    BY <1>12 DEF BootInv, CreateNamed, RemoveByHand, RowsGrow, RowState
  <2>. QED
    BY <1>12, <2>1, Stays DEF CreateNamed, RemoveByHand, Edit
<1>13. CASE UNCHANGED <<files, named, managed, boot>>
  BY <1>0, <1>13, Stays
<1>. QED
  BY <1>1, <1>2, <1>3, <1>4, <1>5, <1>6, <1>7, <1>8, <1>9, <1>10, <1>11, <1>12, <1>13
     DEF BootNext, bootVars, tables, CreateChoreByHand, CreateChoreDefinition,
         DeactivateAssignmentByHand, DeactivateChoreByHand, Edit, Work

-----------------------------------------------------------------------------
(* The schedule of an entry in hand is one the stores accept.              *)
LEMMA ScheduleInHand ==
    ASSUME BootInv, NEW p, InHand("assignments", "entries", p)
    PROVE  files["assignments"][p] \in Schedules
<1>1. /\ files["assignments"] \in [Pairs -> Schedules \cup {NoEntry}]
      /\ p \in Pairs /\ files["assignments"][p] # NoEntry
  BY DEF BootInv, InHandIsEntry, InHand, Entries, Files
<1>. QED
  BY <1>1

(* Bringing an assignment up to date is a store method, or nothing.        *)
LEMMA RefreshStores ==
    ASSUME NEW d \in Defs, NEW s \in Schedules, Refresh(d, s)
    PROVE  [Next]_vars
<1>1. CASE d \notin managed
  BY <1>1 DEF Refresh, vars
<1>2. CASE d \in managed /\ s.date = NoDate
  <2>1. s.weekdays \in (SUBSET Weekdays) \ {{}}
    BY <1>2, NullsAreDistinct DEF Schedules, Recurring, OneOff
  <2>2. UpdateBootstrapRecurring(d, s.weekdays)
    BY <1>2 DEF Refresh
  <2>. QED
    BY <2>1, <2>2 DEF Next
<1>3. CASE d \in managed /\ s.date # NoDate
  <2>1. s.date \in Days
    BY <1>3 DEF Schedules, Recurring, OneOff
  <2>2. UpdateBootstrapOneOff(d, s.date)
    BY <1>3 DEF Refresh
  <2>. QED
    BY <2>1, <2>2 DEF Next
<1>. QED
  BY <1>1, <1>2, <1>3

LEMMA AssignStores ==
    ASSUME NEW k, NEW c, NEW s \in Schedules, Assign(k, c, s)
    PROVE  [Next]_vars
<1>1. CASE ActiveDefs(k, c) # {}
  <2>1. PICK d \in ActiveDefs(k, c) : Refresh(d, s)
    BY <1>1 DEF Assign
  <2>. QED
    BY <2>1, RefreshStores DEF ActiveDefs
<1>2. CASE ActiveDefs(k, c) = {}
  BY <1>2 DEF Assign, Next
<1>. QED
  BY <1>1, <1>2

(* Every step of a start, and of a day between two, is one of the stores.  *)
LEMMA BootStores == BootInv /\ [BootNext]_bootVars => [Next]_vars
<1> SUFFICES ASSUME BootInv, [BootNext]_bootVars PROVE [Next]_vars
  OBVIOUS
<1>1. ASSUME NEW c \in Catalog,
             \/ BootstrapChore(c) \/ RemoveChore(c)
             \/ CreateChoreByHand(c) \/ DeactivateChoreByHand(c)
      PROVE  [Next]_vars
  BY <1>1 DEF BootstrapChore, RemoveChore, CreateChoreByHand, DeactivateChoreByHand,
              Next, vars
<1>2. ASSUME NEW n, NEW c, BootstrapAssignment(n, c) PROVE [Next]_vars
  <2>1. CASE UNCHANGED vars
    BY <2>1
  <2>2. ASSUME NEW k, Assign(k, c, files["assignments"][<<n, c>>]) PROVE [Next]_vars
    <3>1. files["assignments"][<<n, c>>] \in Schedules
      BY <1>2, ScheduleInHand DEF BootstrapAssignment
    <3>. QED
      BY <2>2, <3>1, AssignStores
  <2>. QED
    BY <1>2, <2>1, <2>2 DEF BootstrapAssignment, vars
<1>3. ASSUME NEW d \in Defs, RemoveAssignment(d) \/ DeactivateAssignmentByHand(d)
      PROVE  [Next]_vars
  BY <1>3 DEF RemoveAssignment, DeactivateAssignmentByHand, Next
<1>4. ASSUME NEW d \in Defs, NEW s \in Schedules, CreateChoreDefinition(d, s)
      PROVE  [Next]_vars
  BY <1>4 DEF CreateChoreDefinition, Next
<1>5. CASE Work
  BY <1>5 DEF Work, Decide, Next
<1>6. CASE UNCHANGED <<chore, def, inst>>
  BY <1>6 DEF vars
<1>. QED
  BY <1>1, <1>2, <1>3, <1>4, <1>5, <1>6
     DEF BootNext, bootVars, tables, Start, BootstrapNamed, ListForRemoval,
         RemoveNamed, EndLoop, Skip, SkipRemoval, Failure, Quietly, WriteFile,
         CreateNamed, RemoveByHand

(* Only rows that came from a file lose anything to a start.               *)
LeftAlone ==
    boot # Serving =>
         /\ \A r \in Named : named[r] = "active" /\ named'[r] # "active" => r \in managed
         /\ \A c \in Catalog : chore[c] = "active" /\ chore'[c] # "active" => c \in managed
         /\ \A d \in Defs : def[d].state = "active" /\ def'[d] # def[d] =>
               d \in managed \/ chore'[ChoreOf[d]] = "deleted"

LEMMA HandMadeStep == BootInv /\ Tables /\ [BootNext]_bootVars => LeftAlone
<1> SUFFICES ASSUME BootInv, Tables, [BootNext]_bootVars, boot # Serving PROVE LeftAlone
  BY DEF LeftAlone
<1> USE DEF LeftAlone, BootInv, Tables, Assignments
<1>1. ASSUME NEW l, NEW n, BootstrapNamed(l, n) PROVE LeftAlone
  BY <1>1 DEF BootstrapNamed
<1>2. ASSUME NEW c \in Catalog, BootstrapChore(c) PROVE LeftAlone
  BY <1>2 DEF BootstrapChore, CreateChore
<1>3. ASSUME NEW c \in Catalog, RemoveChore(c) PROVE LeftAlone
  BY <1>3 DEF RemoveChore, InHand, RemovesManaged, DeactivateChore, AssignmentsOf
<1>4. ASSUME NEW n, NEW c, BootstrapAssignment(n, c) PROVE LeftAlone
  <2>1. CASE UNCHANGED <<chore, def, named>>
    BY <2>1
  <2>2. ASSUME NEW k, NEW s, Assign(k, c, s), UNCHANGED named PROVE LeftAlone
    <3>1. CASE ActiveDefs(k, c) # {}
      <4>1. PICK d \in Defs : Refresh(d, s)
        BY <2>2, <3>1 DEF Assign, ActiveDefs
      <4>. QED
        BY <2>2, <4>1 DEF Refresh, UpdateBootstrapRecurring, UpdateBootstrapOneOff
    <3>2. CASE ActiveDefs(k, c) = {}
      BY <2>2, <3>2 DEF Assign, CreateDefinition
    <3>. QED
      BY <3>1, <3>2
  <2>. QED
    BY <1>4, <2>1, <2>2 DEF BootstrapAssignment
<1>5. ASSUME NEW l, NEW r, RemoveNamed(l, r) PROVE LeftAlone
  BY <1>5 DEF RemoveNamed, InHand, RemovesManaged
<1>6. ASSUME NEW d \in Defs, RemoveAssignment(d) PROVE LeftAlone
  BY <1>6 DEF RemoveAssignment, InHand, RemovesManaged, DeactivateDefinition
<1>7. CASE UNCHANGED <<chore, def, named>>
  BY <1>7
<1>. QED
  BY <1>1, <1>2, <1>3, <1>4, <1>5, <1>6, <1>7
     DEF BootNext, bootVars, tables, Start, ListForRemoval, EndLoop, Skip,
         SkipRemoval, Failure, Quietly, WriteFile, CreateNamed, RemoveByHand,
         CreateChoreByHand, CreateChoreDefinition, DeactivateAssignmentByHand,
         DeactivateChoreByHand, Edit, Work

LEMMA BootInvariant == BootSpec => []BootInv
  BY BootInvInit, BootInvStep, PTL DEF BootSpec

(* Whatever the files say and wherever a start is broken off, the tables   *)
(* of chores go through nothing that Chores does not allow.                *)
THEOREM StartsUseTheStores == BootSpec => StoresOnly
<1>1. BootInit => Init
  BY DEF BootInit
<1>. QED
  BY <1>1, BootInvariant, BootStores, PTL DEF BootSpec, StoresOnly, Spec

(* So no start, whole or broken off, leaves a removed assignment with an   *)
(* open occurrence on the dashboard.                                       *)
THEOREM StartsLeaveNoOpenWork == BootSpec => []DeletedHasNoOpenWork
  BY StartsUseTheStores, DeletedStaysDone, PTL DEF StoresOnly

(* A start takes nothing away from what was made in the dashboard, except  *)
(* an assignment whose chore goes.                                         *)
THEOREM StartsLeaveHandMadeAlone == BootSpec => HandMadeIsLeftAlone
<1>1. BootSpec => []Tables
  BY StartsUseTheStores, TablesInvariant, PTL DEF StoresOnly
<1>. QED
  BY <1>1, BootInvariant, HandMadeStep, PTL DEF BootSpec, HandMadeIsLeftAlone, LeftAlone

-----------------------------------------------------------------------------
(* Only rows are marked as managed, and only pairs of rows as seen.        *)
Marks ==
    /\ managed \subseteq Named \cup Catalog \cup Defs
    /\ boot.seen \subseteq Kids \X Catalog

LEMMA MarksStep == BootInv /\ Marks /\ [BootNext]_bootVars => Marks'
<1> SUFFICES ASSUME BootInv, Marks, [BootNext]_bootVars PROVE Marks'
  OBVIOUS
<1>f. \A h, T, S : /\ [boot EXCEPT !.todo = T].seen = boot.seen
                   /\ [boot EXCEPT !.todo = T, !.seen = S].seen = S
                   /\ [boot EXCEPT !.half = h, !.todo = T].seen = boot.seen
                   /\ [boot EXCEPT !.half = h].seen = boot.seen
  BY FieldsOf DEF BootInv, Boot
<1>e. \A l : Enter(l).seen = {}
  BY DEF Enter, Serving, Boot
<1>1. ASSUME NEW l \in DOMAIN RowsOf, NEW n, BootstrapNamed(l, n) PROVE Marks'
  <2>1. RowsOf[l] \subseteq Named
    BY DEF RowsOf, Named
  <2> QED BY <1>1, <2>1, <1>f DEF Marks, BootstrapNamed, Done
<1>2. ASSUME NEW c \in Catalog, BootstrapChore(c) \/ RemoveChore(c) PROVE Marks'
  BY <1>2, <1>f DEF Marks, BootstrapChore, RemoveChore, Done
<1>3. ASSUME NEW p \in Pairs, BootstrapAssignment(p[1], p[2]) PROVE Marks'
  <2>1. p[2] \in Catalog
    BY DEF Pairs
  <2>2. managed' \subseteq managed \cup Defs
    BY <1>3 DEF BootstrapAssignment, Assign
  <2>3. CASE Done(<<p[1], p[2]>>)
    BY <2>2, <2>3, <1>f DEF Marks, Done
  <2>4. ASSUME NEW k \in Active(p[1], Kids),
               boot' = [boot EXCEPT !.todo = @ \ {<<p[1], p[2]>>},
                                    !.seen = @ \cup Marked(k, p[2])]
        PROVE  Marks'
    <3>1. boot'.seen = boot.seen \cup Marked(k, p[2])
      BY <2>4, <1>f
    <3>2. Marked(k, p[2]) \subseteq Kids \X Catalog
      BY <2>1 DEF Marked, Active
    <3> QED BY <2>2, <3>1, <3>2 DEF Marks
  <2> QED BY <1>3, <2>3, <2>4 DEF BootstrapAssignment
<1>4. CASE ListForRemoval \/ SkipRemoval
  <2>1. CASE ListForRemoval
    BY <2>1, <1>f DEF Marks, ListForRemoval, tables
  <2>2. CASE SkipRemoval
    BY <2>2, <1>f DEF Marks, SkipRemoval, Failure, tables
  <2> QED BY <1>4, <2>1, <2>2
<1>5. ASSUME NEW l, NEW r, RemoveNamed(l, r) PROVE Marks'
  BY <1>5, <1>f DEF Marks, RemoveNamed, Done
<1>6. ASSUME NEW d, RemoveAssignment(d) PROVE Marks'
  BY <1>6, <1>f DEF Marks, RemoveAssignment, Done
<1>7. CASE Start \/ EndLoop
  BY <1>7, <1>e DEF Marks, Start, EndLoop, tables
<1>8. CASE Skip
  <2>1. \A x \in boot.todo : boot.loop = "assignments" /\ boot.half = "entries" => x[2] \in Catalog
    BY DEF BootInv, InHandIsEntry, Entries, Pairs
  <2>2. ASSUME NEW x, Done(x) PROVE boot'.seen = boot.seen
    BY <2>2, <1>f DEF Done
  <2>3. ASSUME NEW x \in boot.todo, x[2] \in Catalog, NEW k \in Active(x[1], Kids),
               boot' = [boot EXCEPT !.todo = @ \ {x}, !.seen = @ \cup Marked(k, x[2])]
        PROVE  boot'.seen \subseteq boot.seen \cup (Kids \X Catalog)
    <3>1. boot'.seen = boot.seen \cup Marked(k, x[2])
      BY <2>3, <1>f
    <3> QED BY <2>3, <3>1 DEF Marked, Active
  <2>4. boot'.seen \subseteq boot.seen \cup (Kids \X Catalog)
    BY <1>8, <2>1, <2>2, <2>3 DEF Skip
  <2> QED BY <1>8, <2>4 DEF Marks, Skip, Failure, tables
<1>9. CASE UNCHANGED <<managed, boot>>
  BY <1>9 DEF Marks
<1>. QED
  BY <1>1, <1>2, <1>3, <1>4, <1>5, <1>6, <1>7, <1>8, <1>9
     DEF BootNext, bootVars, tables, WriteFile, CreateNamed, RemoveByHand,
         CreateChoreByHand, CreateChoreDefinition, DeactivateAssignmentByHand,
         DeactivateChoreByHand, Edit, Work

(* The files, the rows, the marks and the place of a start keep their      *)
(* types, wherever starts are broken off.                                  *)
THEOREM BootTypeCorrect == BootSpec => []BootTypeOK
<1>1. BootInit => Marks
  BY DEF BootInit, Marks, Serving, Boot
<1>2. BootSpec => []TypeOK
  BY StartsUseTheStores, ChoresTypeCorrect, PTL DEF StoresOnly
<1>3. TypeOK /\ BootInv /\ Marks => BootTypeOK
  BY DEF BootTypeOK, BootInv, Marks, Located, Places
<1>. QED
  BY <1>1, <1>2, <1>3, BootInvariant, MarksStep, PTL DEF BootSpec

-----------------------------------------------------------------------------
(* A start follows the files: where it is, and what it has behind it.      *)

(* A pair that was seen is one the file names, whose child and chore are   *)
(* there; the other loops see none.                                        *)
SeenIsWanted ==
    /\ boot.loop # "assignments" => boot.seen = {}
    /\ \A q \in boot.seen :
          /\ files["assignments"] # Missing
          /\ <<NameOf[q[1]], q[2]>> \in Entries("assignments")
          /\ named[q[1]] = "active" /\ chore[q[2]] = "active"

(* An entry followed by a row that the removal will leave.                 *)
Kept(l, x) ==
    IF l = "assignments"
    THEN \/ Active(x[1], Kids) = {} \/ chore[x[2]] # "active"
         \/ \E k \in Active(x[1], Kids) :
               /\ <<k, x[2]>> \in boot.seen
               /\ \E d \in ActiveDefs(k, x[2]) : UpToDate(d, x)
    ELSE Followed(l, x)

(* How far a loop without errors has come.                                 *)
Progress ==
    clean /\ boot.loop \in Loops /\ files[boot.loop] # Missing =>
        /\ \A x \in Entries(boot.loop) :
              (boot.half = "entries" /\ x \in boot.todo) \/ Kept(boot.loop, x)
        /\ boot.half = "removal" => boot.todo = Unnamed(boot.loop)

(* The loops a start without errors has behind it: all of them while       *)
(* nothing was changed since the last one.                                 *)
Earlier == [accounts |-> {}, children |-> {"accounts"},
            chores |-> {"accounts", "children"},
            assignments |-> {"accounts", "children", "chores"}, serving |-> {}]
Behind == IF settled THEN Loops ELSE IF clean THEN Earlier[boot.loop] ELSE {}

FilesInv ==
    /\ BootInv
    /\ Assignments
    /\ SeenIsWanted
    /\ settled => clean
    /\ Progress
    /\ \A l \in Behind : Reconciled(l)

LEMMA KeptFollowed == \A l, x : Kept(l, x) => Followed(l, x)
  BY DEF Kept, Followed, RowsOf

(* What a step that ends the entry or the row in hand leaves of the place. *)
LEMMA DoneFields ==
    ASSUME BootInv, NEW x, NEW S,
           \/ Done(x) /\ S = boot.seen
           \/ boot' = [boot EXCEPT !.todo = @ \ {x}, !.seen = S]
    PROVE  /\ boot'.loop = boot.loop /\ boot'.half = boot.half
           /\ boot'.todo = boot.todo \ {x} /\ boot'.seen = S
<1> DEFINE T == boot.todo \ {x}
<1>1. \/ boot' = [boot EXCEPT !.todo = T] /\ S = boot.seen
      \/ boot' = [boot EXCEPT !.todo = T, !.seen = S]
  BY DEF Done
<1>. HIDE DEF T
<1>2. boot' = Boot(boot.loop, boot.half, T, S)
  BY <1>1, FieldsOf DEF BootInv
<1>3. boot'.todo = T
  BY <1>2 DEF Boot
<1>. QED
  BY <1>2, <1>3 DEF Boot, T

(* A row for a child or an account that is wanted, or found.               *)
LEMMA NamedEntry ==
    ASSUME FilesInv, NEW l \in DOMAIN RowsOf, NEW n, BootstrapNamed(l, n)
    PROVE  (SeenIsWanted /\ Progress /\ \A m \in Behind : Reconciled(m))'
<1>1. /\ boot.loop = l /\ boot.half = "entries" /\ n \in boot.todo /\ l \in {"accounts", "children"}
      /\ UNCHANGED <<files, chore, def, clean, settled>>
  BY DEF BootstrapNamed, InHand, RowsOf, Quietly
<1>2. /\ boot'.loop = l /\ boot'.half = "entries"
      /\ boot'.todo = boot.todo \ {n} /\ boot'.seen = {} /\ boot.seen = {}
  BY <1>1, DoneFields DEF BootstrapNamed, FilesInv, SeenIsWanted
<1>3. /\ files[l] # Missing /\ Entries(l) = files[l] /\ Entries(l)' = files[l]
      /\ n \in files[l]
  BY <1>1 DEF FilesInv, BootInv, InHandIsEntry, Entries
<1>4. \A m \in Behind' : m \in Behind
  BY <1>1, <1>2 DEF Behind
<1>5. SeenIsWanted'
  BY <1>1, <1>2 DEF SeenIsWanted
<1>6. CASE UNCHANGED <<named, managed>> /\ Active(n, RowsOf[l]) # {}
  <2>1. Followed(l, n)'
    BY <1>1, <1>6 DEF Followed, Active, RowsOf
  <2>2. \A x : Kept(l, x) => Kept(l, x)'
    BY <1>1, <1>6 DEF Kept, Followed, Active, RowsOf
  <2>3. Progress'
    BY <1>1, <1>2, <1>3, <2>1, <2>2 DEF FilesInv, Progress, Kept
  <2>4. \A m \in Behind' : Reconciled(m)'
    BY <1>1, <1>4, <1>6 DEF FilesInv, Reconciled, Followed, Active, ActiveDefs, Entries,
                            UpToDate, Wanted
  <2>. QED
    BY <1>5, <2>3, <2>4
<1>7. CASE Active(n, RowsOf[l]) = {}
  <2>1. PICK r \in RowsOf[l] : /\ NameOf[r] = n /\ named[r] = "absent"
                               /\ named' = [named EXCEPT ![r] = "active"]
                               /\ managed' = managed \cup {r}
    BY <1>7 DEF BootstrapNamed
  <2>2. r \in Named /\ named \in [Named -> RowState]
    BY <1>1 DEF FilesInv, BootInv, RowsOf, Named
  <2>3. ~settled
    BY <1>1, <1>3, <1>7 DEF FilesInv, Behind, Reconciled, Followed, Loops
  <2>4. Followed(l, n)'
    BY <1>1, <2>1, <2>2 DEF Followed, Active, RowsOf
  <2>5. \A x : Kept(l, x) => Kept(l, x)'
    BY <1>1, <2>1, <2>2 DEF Kept, Followed, Active, RowsOf
  <2>6. Progress'
    BY <1>1, <1>2, <1>3, <2>4, <2>5 DEF FilesInv, Progress, Kept
  <2>7. ASSUME NEW m \in Behind' PROVE Reconciled(m)'
    <3>1. m = "accounts" /\ l = "children" /\ Reconciled(m)
      BY <1>1, <1>4, <2>3 DEF FilesInv, Behind, Earlier
    <3>2. r \in Kids /\ r \notin Accounts
      BY <2>1, <3>1, RowsAreDistinct DEF RowsOf
    <3>3. \A q \in Accounts : named'[q] = named[q] /\ (q \in managed' <=> q \in managed)
      BY <2>1, <2>2, <3>2 DEF Named
    <3>4. \A x : Followed(m, x) => Followed(m, x)'
      BY <3>1, <3>3 DEF Followed, Active, RowsOf
    <3>. QED
      BY <1>1, <3>1, <3>3, <3>4 DEF Reconciled, Entries, RowsOf
  <2>. QED
    BY <1>5, <2>6, <2>7
<1>. QED
  BY <1>6, <1>7 DEF BootstrapNamed

(* A child or an account its file no longer names.                         *)
LEMMA NamedRemoval ==
    ASSUME FilesInv, NEW l \in DOMAIN RowsOf, NEW r, RemoveNamed(l, r)
    PROVE  (SeenIsWanted /\ Progress /\ \A m \in Behind : Reconciled(m))'
<1>1. /\ boot.loop = l /\ boot.half = "removal" /\ r \in boot.todo /\ l \in {"accounts", "children"}
      /\ UNCHANGED <<files, chore, def, managed, clean, settled>>
      /\ named' = [named EXCEPT ![r] = "deleted"]
  BY DEF RemoveNamed, InHand, RowsOf, Quietly
<1>2. /\ boot'.loop = l /\ boot'.half = "removal"
      /\ boot'.todo = boot.todo \ {r} /\ boot'.seen = {} /\ boot.seen = {}
  BY <1>1, DoneFields DEF RemoveNamed, FilesInv, SeenIsWanted
<1>3. SeenIsWanted'
  BY <1>1, <1>2 DEF SeenIsWanted
<1>4. CASE ~clean
  BY <1>1, <1>3, <1>4 DEF FilesInv, Progress, Behind
<1>5. CASE clean
  <2>1. /\ files[l] # Missing /\ boot.todo = Unnamed(l)
        /\ Entries(l) = files[l] /\ Entries(l)' = files[l]
    BY <1>1, <1>5 DEF FilesInv, BootInv, InHandIsEntry, Loops, Progress, Entries
  <2>2. /\ r \in RowsOf[l] /\ named[r] = "active" /\ NameOf[r] \notin files[l]
        /\ r \in managed /\ r \in Named /\ named \in [Named -> RowState]
    BY <1>1, <2>1 DEF Unnamed, FilesInv, BootInv, RowsOf, Named
  <2>3. ~settled
    BY <1>1, <2>1, <2>2 DEF FilesInv, Behind, Loops, Reconciled
  <2>4. \A x \in files[l] : Kept(l, x) => Kept(l, x)'
    BY <1>1, <2>2 DEF Kept, Followed, Active, RowsOf
  <2>5. Unnamed(l)' = Unnamed(l) \ {r}
    BY <1>1, <2>2 DEF Unnamed, RowsOf, Named
  <2>6. Progress'
    BY <1>1, <1>2, <1>5, <2>1, <2>4, <2>5 DEF FilesInv, Progress
  <2>7. ASSUME NEW m \in Behind' PROVE Reconciled(m)'
    <3>1. m = "accounts" /\ l = "children" /\ Reconciled(m)
      BY <1>1, <1>2, <2>3, <2>7 DEF FilesInv, Behind, Earlier
    <3>2. \A q \in Accounts : named'[q] = named[q]
      BY <1>1, <2>2, <3>1, RowsAreDistinct DEF RowsOf, Named
    <3>3. \A x : Followed(m, x) => Followed(m, x)'
      BY <3>1, <3>2 DEF Followed, Active, RowsOf
    <3>. QED
      BY <1>1, <3>1, <3>2, <3>3 DEF Reconciled, Entries, RowsOf
  <2>. QED
    BY <1>3, <2>6, <2>7
<1>. QED
  BY <1>4, <1>5

(* What the loops of accounts and of children did is left alone by those   *)
(* of chores and assignments.                                              *)
LEMMA NamedLeft ==
    ASSUME UNCHANGED <<files, named>>, managed' \cap Named = managed \cap Named,
           NEW l \in {"accounts", "children"}, Reconciled(l)
    PROVE  Reconciled(l)'
<1>1. RowsOf[l] \subseteq Named /\ l \in DOMAIN RowsOf
  BY DEF RowsOf, Named
<1>2. \A x : Followed(l, x) => Followed(l, x)'
  BY <1>1 DEF Followed, Active
<1>. QED
  BY <1>1, <1>2 DEF Reconciled, Entries

(* A chore that is wanted, found, or deleted for good.                     *)
LEMMA ChoreEntry ==
    ASSUME FilesInv, NEW c \in Catalog, BootstrapChore(c)
    PROVE  (SeenIsWanted /\ Progress /\ \A m \in Behind : Reconciled(m))'
<1>1. /\ boot.loop = "chores" /\ boot.half = "entries" /\ c \in boot.todo
      /\ UNCHANGED <<files, def, named, clean, settled>>
  BY DEF BootstrapChore, InHand, Quietly, CreateChore
<1>2. /\ boot'.loop = "chores" /\ boot'.half = "entries"
      /\ boot'.todo = boot.todo \ {c} /\ boot'.seen = {} /\ boot.seen = {}
  BY <1>1, DoneFields DEF BootstrapChore, FilesInv, SeenIsWanted
<1>3. /\ files["chores"] # Missing
      /\ Entries("chores") = files["chores"] /\ Entries("chores")' = files["chores"]
      /\ c \in files["chores"]
  BY <1>1 DEF FilesInv, BootInv, InHandIsEntry, Entries
<1>4. SeenIsWanted'
  BY <1>1, <1>2 DEF SeenIsWanted
<1>5. /\ \A x \in Catalog : chore[x] # "absent" => chore'[x] = chore[x]
      /\ chore'[c] \in {"active", "deleted"}
      /\ managed' \cap Named = managed \cap Named
      /\ chore[c] # "absent" => UNCHANGED <<chore, managed>>
  BY RowsAreDistinct DEF BootstrapChore, CreateChore, FilesInv, Assignments, RowState
<1>6. Progress'
  <2>1. files["chores"] \subseteq Catalog
    BY <1>3 DEF FilesInv, BootInv, Files
  <2>2. \A x \in files["chores"] : Kept("chores", x) => Kept("chores", x)'
    BY <1>5, <2>1 DEF Kept, Followed, RowsOf
  <2>3. Kept("chores", c)'
    BY <1>5 DEF Kept, Followed, RowsOf
  <2>. QED
    BY <1>1, <1>2, <1>3, <2>2, <2>3 DEF FilesInv, Progress
<1>7. CASE settled
  <2>1. chore[c] # "absent"
    BY <1>3, <1>7 DEF FilesInv, Behind, Loops, Reconciled, Followed, RowsOf
  <2>2. \A m \in Behind' : Reconciled(m)'
    BY <1>1, <1>2, <1>5, <1>7, <2>1
       DEF FilesInv, Behind, Reconciled, Followed, Active, ActiveDefs, Entries, UpToDate, Wanted
  <2>. QED
    BY <1>4, <1>6, <2>2
<1>8. CASE ~settled
  <2>1. \A m \in Behind' : m \in {"accounts", "children"} /\ Reconciled(m)
    BY <1>1, <1>2, <1>8 DEF FilesInv, Behind, Earlier
  <2>. QED
    BY <1>1, <1>4, <1>5, <1>6, <2>1, NamedLeft
<1>. QED
  BY <1>7, <1>8

(* A chore its file no longer names goes, with its assignments.            *)
LEMMA ChoreRemoval ==
    ASSUME FilesInv, NEW c \in Catalog, RemoveChore(c)
    PROVE  (SeenIsWanted /\ Progress /\ \A m \in Behind : Reconciled(m))'
<1>1. /\ boot.loop = "chores" /\ boot.half = "removal" /\ c \in boot.todo
      /\ UNCHANGED <<files, named, managed, clean, settled>>
      /\ chore' = [chore EXCEPT ![c] = "deleted"]
  BY DEF RemoveChore, InHand, Quietly, DeactivateChore
<1>2. /\ boot'.loop = "chores" /\ boot'.half = "removal"
      /\ boot'.todo = boot.todo \ {c} /\ boot'.seen = {} /\ boot.seen = {}
  BY <1>1, DoneFields DEF RemoveChore, FilesInv, SeenIsWanted
<1>3. SeenIsWanted'
  BY <1>1, <1>2 DEF SeenIsWanted
<1>4. CASE ~clean
  BY <1>1, <1>3, <1>4 DEF FilesInv, Progress, Behind
<1>5. CASE clean
  <2>1. /\ files["chores"] # Missing /\ boot.todo = Unnamed("chores")
        /\ Entries("chores") = files["chores"] /\ Entries("chores")' = files["chores"]
    BY <1>1, <1>5 DEF FilesInv, BootInv, InHandIsEntry, Loops, Progress, Entries
  <2>2. c \in managed /\ chore[c] = "active" /\ c \notin files["chores"]
    BY <1>1, <2>1 DEF Unnamed, RowsOf
  <2>3. ~settled
    BY <2>1, <2>2 DEF FilesInv, Behind, Loops, Reconciled
  <2>4. \A x \in files["chores"] : Kept("chores", x) => Kept("chores", x)'
    BY <1>1, <2>2 DEF Kept, Followed, RowsOf
  <2>5. Unnamed("chores")' = Unnamed("chores") \ {c}
    BY <1>1, <2>2 DEF Unnamed, RowsOf, FilesInv, Assignments
  <2>6. Progress'
    BY <1>1, <1>2, <1>5, <2>1, <2>4, <2>5 DEF FilesInv, Progress
  <2>7. \A m \in Behind' : m \in {"accounts", "children"} /\ Reconciled(m)
    BY <1>1, <1>2, <2>3 DEF FilesInv, Behind, Earlier
  <2>. QED
    BY <1>1, <1>3, <2>6, <2>7, NamedLeft
<1>. QED
  BY <1>4, <1>5

(* What a step that changes no row leaves reconciled.                      *)
LEMMA RowsUnmoved ==
    ASSUME UNCHANGED <<files, chore, def, named, managed>>, NEW l, Reconciled(l)
    PROVE  Reconciled(l)'
<1>1. \A x : Active(x, Kids)' = Active(x, Kids) /\ Active(x, RowsOf[l])' = Active(x, RowsOf[l])
  BY DEF Active
<1>2. \A k, c : ActiveDefs(k, c)' = ActiveDefs(k, c)
  BY DEF ActiveDefs
<1>3. Entries(l)' = Entries(l) /\ Entries("assignments")' = Entries("assignments")
  BY DEF Entries
<1>4. \A x : Followed(l, x)' <=> Followed(l, x)
  BY <1>1, <1>2 DEF Followed, UpToDate
<1>5. \A d : Wanted(d)' <=> Wanted(d)
  BY <1>3 DEF Wanted
<1>. QED
  BY <1>3, <1>4, <1>5 DEF Reconciled

(* Nor do the loops of assignments touch the catalog.                      *)
LEMMA ChoresLeft ==
    ASSUME UNCHANGED <<files, chore>>, managed' \cap Catalog = managed \cap Catalog,
           Reconciled("chores")
    PROVE  Reconciled("chores")'
  BY DEF Reconciled, Followed, Entries, RowsOf

LEMMA Rescheduled ==
    ASSUME NEW r \in Definition, NEW ws, NEW e
    PROVE  [r EXCEPT !.weekdays = ws, !.date = e]
              = [state |-> r.state, weekdays |-> ws, date |-> e]
<1> DEFINE t == [state |-> r.state, weekdays |-> ws, date |-> r.date]
<1>1. r \in [state : {r.state}, weekdays : {r.weekdays}, date : {r.date}]
  BY DEF Definition
<1>2. [r EXCEPT !.weekdays = ws] = t
  BY <1>1
<1>3. [r EXCEPT !.weekdays = ws, !.date = e] = [[r EXCEPT !.weekdays = ws] EXCEPT !.date = e]
  BY <1>1
<1>4. [t EXCEPT !.date = e] = [state |-> r.state, weekdays |-> ws, date |-> e]
  OBVIOUS
<1>. QED
  BY <1>2, <1>3, <1>4

(* What following the entry of a pair does to the assignments: those of    *)
(* other pairs are left alone, and one of the pair is up to date then.     *)
LEMMA AssignFacts ==
    ASSUME Assignments, NEW k \in Kids, NEW c, NEW x,
           files["assignments"][x] \in Schedules, UNCHANGED files,
           Assign(k, c, files["assignments"][x])
    PROVE  /\ \E d \in ActiveDefs(k, c)' : UpToDate(d, x)'
           /\ chore' = chore /\ managed \subseteq managed' /\ managed' \subseteq managed \cup Defs
           /\ \A d \in Defs : def[d].state = "active" => def'[d].state = "active"
           /\ \A d \in Defs : ChildOf[d] # k \/ ChoreOf[d] # c =>
                 def'[d] = def[d] /\ (d \in managed' <=> d \in managed)
<1> DEFINE s == files["assignments"][x]
<1>1. /\ s.weekdays \in SUBSET Weekdays /\ s.date \in Days \cup {NoDate}
      /\ s.date # NoDate => s.weekdays = {}
  BY DEF Schedules, Recurring, OneOff
<1>2. CASE ActiveDefs(k, c) # {}
  <2>1. PICK d \in ActiveDefs(k, c) : Refresh(d, s)
    BY <1>2 DEF Assign
  <2>2. d \in Defs /\ ChildOf[d] = k /\ ChoreOf[d] = c /\ def[d].state = "active"
    BY <2>1 DEF ActiveDefs
  <2>3. managed' = managed
    BY <1>2 DEF Assign
  <2>4. CASE d \notin managed
    BY <2>1, <2>2, <2>3, <2>4 DEF Refresh, ActiveDefs, UpToDate
  <2>5. CASE d \in managed
    <3>1. /\ chore' = chore
          /\ def' = [def EXCEPT ![d] = [state |-> "active", weekdays |-> s.weekdays, date |-> s.date]]
      <4>1. def[d] \in Definition
        BY <2>2 DEF Assignments
      <4>u. [def[d] EXCEPT !.weekdays = s.weekdays, !.date = s.date]
              = [state |-> "active", weekdays |-> s.weekdays, date |-> s.date]
        <5>1. [def[d] EXCEPT !.weekdays = s.weekdays, !.date = s.date]
                = [state |-> def[d].state, weekdays |-> s.weekdays, date |-> s.date]
          <6>. HIDE DEF s
          <6>. QED
            BY <4>1, Rescheduled, Zenon
        <5>. QED
          BY <2>2, <5>1
      <4>v. [def EXCEPT ![d].weekdays = s.weekdays, ![d].date = s.date]
              = [def EXCEPT ![d] = [def[d] EXCEPT !.weekdays = s.weekdays, !.date = s.date]]
        BY <2>2 DEF Assignments
      <4>2. CASE s.date = NoDate
        <5>1. def' = [def EXCEPT ![d].weekdays = s.weekdays, ![d].date = s.date] /\ chore' = chore
          BY <2>1, <2>5, <4>2 DEF Refresh, UpdateBootstrapRecurring
        <5>. QED
          BY <4>u, <4>v, <5>1
      <4>3. CASE s.date # NoDate
        <5>1. def' = [def EXCEPT ![d].weekdays = s.weekdays, ![d].date = s.date] /\ chore' = chore
          BY <1>1, <2>1, <2>5, <4>3 DEF Refresh, UpdateBootstrapOneOff
        <5>. QED
          BY <4>u, <4>v, <5>1
      <4>. QED
        BY <4>2, <4>3
    <3>. QED
      BY <2>2, <2>3, <3>1 DEF ActiveDefs, UpToDate, Assignments
  <2>. QED
    BY <2>4, <2>5
<1>3. CASE ActiveDefs(k, c) = {}
  <2>1. PICK d \in Defs : /\ ChildOf[d] = k /\ ChoreOf[d] = c
                          /\ CreateDefinition(d, s) /\ managed' = managed \cup {d}
    BY <1>3 DEF Assign
  <2>2. /\ chore' = chore /\ def[d].state = "absent"
        /\ def' = [def EXCEPT ![d] = [state |-> "active", weekdays |-> s.weekdays, date |-> s.date]]
    BY <2>1 DEF CreateDefinition
  <2>. QED
    BY <2>1, <2>2 DEF ActiveDefs, UpToDate, Assignments
<1>. QED
  BY <1>2, <1>3

(* The entry of a pair whose child and chore are there.                    *)
LEMMA AssignedEntry ==
    ASSUME FilesInv, NEW n, NEW c, <<n, c>> \in Pairs, NEW k \in Active(n, Kids),
           InHand("assignments", "entries", <<n, c>>), chore[c] = "active",
           Assign(k, c, files["assignments"][<<n, c>>]),
           boot' = [boot EXCEPT !.todo = @ \ {<<n, c>>}, !.seen = @ \cup Marked(k, c)],
           UNCHANGED named, Quietly
    PROVE  (SeenIsWanted /\ Progress /\ \A m \in Behind : Reconciled(m))'
<1> DEFINE p == <<n, c>>
           E == Entries("assignments")
<1>1. /\ boot.loop = "assignments" /\ boot.half = "entries" /\ p \in boot.todo
      /\ UNCHANGED <<files, named, clean, settled>>
      /\ k \in Kids /\ named[k] = "active" /\ NameOf[k] = n
  BY DEF InHand, Quietly, Active
<1>2. /\ boot'.loop = "assignments" /\ boot'.half = "entries"
      /\ boot'.todo = boot.todo \ {p} /\ boot'.seen = boot.seen \cup {<<k, c>>}
  <2> DEFINE S == boot.seen \cup {<<k, c>>}
  <2>1. boot' = [boot EXCEPT !.todo = @ \ {p}, !.seen = S]
    BY DEF Marked
  <2>2. /\ boot'.loop = boot.loop /\ boot'.half = boot.half
        /\ boot'.todo = boot.todo \ {p} /\ boot'.seen = S
    <3>. HIDE DEF S, p
    <3>. QED
      BY <2>1, DoneFields DEF FilesInv
  <2>. QED
    BY <1>1, <2>2
<1>3. files["assignments"] # Missing /\ p \in E /\ E' = E
  BY <1>1 DEF FilesInv, BootInv, InHandIsEntry, Entries
<1>4. files["assignments"][p] \in Schedules
  BY ScheduleInHand DEF FilesInv
<1>5. /\ \E d \in ActiveDefs(k, c)' : UpToDate(d, p)'
      /\ chore' = chore /\ managed \subseteq managed' /\ managed' \subseteq managed \cup Defs
      /\ \A d \in Defs : def[d].state = "active" => def'[d].state = "active"
      /\ \A d \in Defs : ChildOf[d] # k \/ ChoreOf[d] # c =>
            def'[d] = def[d] /\ (d \in managed' <=> d \in managed)
  BY <1>1, <1>4, AssignFacts DEF FilesInv
<1>6. ASSUME NEW x \in E, x # p, NEW q \in Active(x[1], Kids), NEW d \in ActiveDefs(q, x[2]),
             UpToDate(d, x)
      PROVE  d \in ActiveDefs(q, x[2])' /\ UpToDate(d, x)'
  <2>1. d \in Defs /\ ChildOf[d] = q /\ ChoreOf[d] = x[2] /\ NameOf[q] = x[1]
    BY <1>6 DEF Active, ActiveDefs
  <2>2. x = <<x[1], x[2]>>
    BY <1>6 DEF Entries, Pairs
  <2>3. ChildOf[d] # k \/ ChoreOf[d] # c
    BY <1>1, <1>6, <2>1, <2>2
  <2>. QED
    BY <1>1, <1>5, <1>6, <2>1, <2>3 DEF ActiveDefs, UpToDate
<1>7. SeenIsWanted'
  BY <1>1, <1>2, <1>3, <1>5 DEF FilesInv, SeenIsWanted
<1>8. Active(n, Kids)' = Active(n, Kids) /\ \A x : Active(x, Kids)' = Active(x, Kids)
  BY <1>1 DEF Active
<1>9. Kept("assignments", p)' /\ Followed("assignments", p)'
  BY <1>2, <1>5, <1>8 DEF Kept, Followed, RowsOf
<1>10. ASSUME NEW x \in E, Kept("assignments", x) PROVE Kept("assignments", x)'
  <2>1. CASE x = p
    BY <1>9, <2>1
  <2>2. CASE x # p
    BY <1>2, <1>5, <1>6, <1>8, <1>10, <2>2 DEF Kept
  <2>. QED
    BY <2>1, <2>2
<1>11. Progress'
  BY <1>1, <1>2, <1>3, <1>9, <1>10 DEF FilesInv, Progress
<1>12. \A m \in Behind' : m \in Loops /\ Reconciled(m) /\ (m = "assignments" => settled)
  BY <1>1, <1>2 DEF FilesInv, Behind, Earlier, Loops
<1>13. /\ managed' \cap Named = managed \cap Named
       /\ managed' \cap Catalog = managed \cap Catalog
  BY <1>5, RowsAreDistinct
<1>14. ASSUME Reconciled("assignments") PROVE Reconciled("assignments")'
  <2>1. ASSUME NEW x \in E PROVE Followed("assignments", x)'
    <3>1. CASE x = p
      BY <1>9, <3>1
    <3>2. CASE x # p
      <4>1. Followed("assignments", x)
        BY <1>3, <1>14 DEF Reconciled
      <4>. QED
        BY <1>5, <1>6, <1>8, <3>2, <4>1 DEF Followed, RowsOf
    <3>. QED
      BY <3>1, <3>2
  <2>2. ASSUME NEW d \in Defs \cap managed', def'[d].state = "active" PROVE Wanted(d)'
    <3>1. CASE ChildOf[d] # k \/ ChoreOf[d] # c
      <4>1. Wanted(d)
        BY <1>3, <1>5, <1>14, <2>2, <3>1 DEF Reconciled
      <4>. QED
        BY <1>1, <1>3, <1>5, <4>1 DEF Wanted
    <3>2. CASE ChildOf[d] = k /\ ChoreOf[d] = c
      BY <1>1, <1>3, <1>5, <3>2 DEF Wanted
    <3>. QED
      BY <3>1, <3>2
  <2>. QED
    BY <1>3, <2>1, <2>2 DEF Reconciled, RowsOf
<1>. QED
  BY <1>1, <1>5, <1>7, <1>11, <1>12, <1>13, <1>14, NamedLeft, ChoresLeft DEF Loops

LEMMA AssignmentEntry ==
    ASSUME FilesInv, NEW p \in Pairs, BootstrapAssignment(p[1], p[2])
    PROVE  (SeenIsWanted /\ Progress /\ \A m \in Behind : Reconciled(m))'
<1>0. p = <<p[1], p[2]>>
  BY DEF Pairs
<1>1. /\ boot.loop = "assignments" /\ boot.half = "entries" /\ p \in boot.todo
      /\ InHand("assignments", "entries", p)
      /\ UNCHANGED <<files, named, clean, settled>>
  BY <1>0 DEF BootstrapAssignment, InHand, Quietly
<1>2. CASE /\ Active(p[1], Kids) = {} \/ chore[p[2]] # "active"
           /\ Done(p)
           /\ UNCHANGED <<chore, def, inst, managed>>
  <2>1. /\ boot'.loop = "assignments" /\ boot'.half = "entries"
        /\ boot'.todo = boot.todo \ {p} /\ boot'.seen = boot.seen
    BY <1>1, <1>2, DoneFields DEF FilesInv
  <2>2. SeenIsWanted' /\ \A m \in Behind' : Reconciled(m)'
    <3>1. SeenIsWanted'
      BY <1>1, <1>2, <2>1 DEF FilesInv, SeenIsWanted, Entries
    <3>2. Behind' = Behind
      BY <1>1, <2>1 DEF Behind
    <3>. QED
      BY <1>1, <1>2, <3>1, <3>2, RowsUnmoved DEF FilesInv
  <2>3. Kept("assignments", p)'
    BY <1>1, <1>2 DEF Kept, Active
  <2>4. \A x : Kept("assignments", x) => Kept("assignments", x)'
    BY <1>1, <1>2, <2>1 DEF Kept, Active, ActiveDefs, UpToDate
  <2>5. Progress'
    BY <1>1, <2>1, <2>3, <2>4 DEF FilesInv, Progress, Entries
  <2>. QED
    BY <2>2, <2>5
<1>3. CASE /\ chore[p[2]] = "active"
           /\ \E k \in Active(p[1], Kids) :
                 /\ Assign(k, p[2], files["assignments"][p])
                 /\ boot' = [boot EXCEPT !.todo = @ \ {p}, !.seen = @ \cup Marked(k, p[2])]
  BY <1>0, <1>1, <1>3, AssignedEntry DEF BootstrapAssignment
<1>. QED
  BY <1>0, <1>2, <1>3 DEF BootstrapAssignment

(* An assignment of a pair that was not seen.                              *)
LEMMA AssignmentRemoval ==
    ASSUME FilesInv, NEW d \in Defs, RemoveAssignment(d)
    PROVE  (SeenIsWanted /\ Progress /\ \A m \in Behind : Reconciled(m))'
<1>1. /\ boot.loop = "assignments" /\ boot.half = "removal" /\ d \in boot.todo
      /\ UNCHANGED <<files, named, chore, managed, clean, settled>>
      /\ def' = [def EXCEPT ![d].state = "deleted"]
  BY DEF RemoveAssignment, InHand, Quietly, DeactivateDefinition
<1>2. /\ boot'.loop = "assignments" /\ boot'.half = "removal"
      /\ boot'.todo = boot.todo \ {d} /\ boot'.seen = boot.seen
  BY <1>1, DoneFields DEF RemoveAssignment, FilesInv
<1>3. SeenIsWanted'
  BY <1>1, <1>2 DEF FilesInv, SeenIsWanted, Entries
<1>4. CASE ~clean
  BY <1>1, <1>3, <1>4 DEF FilesInv, Progress, Behind
<1>5. CASE clean
  <2> DEFINE E == Entries("assignments")
  <2>1. /\ files["assignments"] # Missing /\ boot.todo = Unnamed("assignments") /\ E' = E
        /\ \A x \in E : Kept("assignments", x)
    BY <1>1, <1>5 DEF FilesInv, BootInv, InHandIsEntry, Loops, Progress, Entries
  <2>2. <<ChildOf[d], ChoreOf[d]>> \notin boot.seen
    BY <1>1, <2>1 DEF Unnamed, RowsOf
  <2>3. \A x \in Defs : x # d => def'[x] = def[x]
    BY <1>1 DEF FilesInv, Assignments
  <2>4. def'[d].state = "deleted"
    BY <1>1 DEF FilesInv, Assignments, Definition
  <2>5. ASSUME NEW x \in E PROVE Kept("assignments", x)'
    <3>1. \A q : q \in Active(x[1], Kids) /\ <<q, x[2]>> \in boot.seen => d \notin ActiveDefs(q, x[2])
      BY <2>2 DEF ActiveDefs
    <3>2. Kept("assignments", x) /\ Active(x[1], Kids)' = Active(x[1], Kids)
      BY <1>1, <2>1 DEF Active
    <3>3. ASSUME NEW q, NEW a \in ActiveDefs(q, x[2]), a # d, UpToDate(a, x)
          PROVE  a \in ActiveDefs(q, x[2])' /\ UpToDate(a, x)'
      BY <1>1, <2>3, <3>3 DEF ActiveDefs, UpToDate
    <3>. QED
      BY <1>1, <1>2, <3>1, <3>2, <3>3 DEF Kept
  <2>6. Unnamed("assignments")' = Unnamed("assignments") \ {d}
    BY <1>1, <1>2, <2>3, <2>4 DEF Unnamed, RowsOf
  <2>7. Progress'
    BY <1>1, <1>2, <2>1, <2>5, <2>6 DEF Progress
  <2>8. \A m \in Behind' : m \in Loops /\ Reconciled(m)
    BY <1>1, <1>2 DEF FilesInv, Behind, Earlier, Loops
  <2>9. ASSUME Reconciled("assignments") PROVE Reconciled("assignments")'
    <3>1. \A x \in E : Followed("assignments", x)'
      BY <2>5 DEF Kept, Followed, RowsOf
    <3>2. \A a \in Defs \cap managed : def'[a].state = "active" => Wanted(a)'
      BY <1>1, <2>1, <2>3, <2>4, <2>9 DEF Reconciled, Wanted
    <3>. QED
      BY <1>1, <2>1, <3>1, <3>2 DEF Reconciled, RowsOf
  <2>. QED
    BY <1>1, <1>3, <2>7, <2>8, <2>9, NamedLeft, ChoresLeft DEF Loops
<1>. QED
  BY <1>4, <1>5

LEMMA KeptUnmoved ==
    ASSUME UNCHANGED <<files, chore, def, named, managed>>, boot'.seen = boot.seen
    PROVE  \A l, x : Kept(l, x) => Kept(l, x)'
<1>1. \A x, rows : Active(x, rows)' = Active(x, rows)
  BY DEF Active
<1>2. \A k, c : ActiveDefs(k, c)' = ActiveDefs(k, c)
  BY DEF ActiveDefs
<1>. QED
  BY <1>1, <1>2 DEF Kept, Followed, UpToDate

(* The rows to remove are listed when every entry is done.                 *)
LEMMA Listing ==
    ASSUME FilesInv, ListForRemoval
    PROVE  (SeenIsWanted /\ Progress /\ \A m \in Behind : Reconciled(m))'
<1>1. /\ UNCHANGED <<files, chore, def, named, managed, clean, settled>>
      /\ boot.half = "entries" /\ boot.todo = {}
  BY DEF ListForRemoval, tables, Quietly
<1>2. /\ boot'.loop = boot.loop /\ boot'.half = "removal"
      /\ boot'.todo = Unnamed(boot.loop) /\ boot'.seen = boot.seen
  <2>1. boot' = Boot(boot.loop, "removal", Unnamed(boot.loop), boot.seen)
    BY FieldsOf DEF ListForRemoval, FilesInv, BootInv
  <2>. QED
    BY <2>1 DEF Boot
<1>3. SeenIsWanted' /\ Behind' = Behind
  BY <1>1, <1>2 DEF FilesInv, SeenIsWanted, Entries, Behind
<1>4. Progress'
  <2>1. Unnamed(boot.loop)' = Unnamed(boot.loop)
    BY <1>1, <1>2 DEF Unnamed
  <2>2. \A l, x : Kept(l, x) => Kept(l, x)'
    BY <1>1, <1>2, KeptUnmoved
  <2>3. Entries(boot.loop)' = Entries(boot.loop)
    BY <1>1, <1>2 DEF Entries
  <2>. QED
    BY <1>1, <1>2, <2>1, <2>2, <2>3 DEF FilesInv, Progress
<1>. QED
  BY <1>1, <1>3, <1>4, RowsUnmoved DEF FilesInv

(* A loop that ends without errors has done what its file asks for.        *)
LEMMA LoopDone ==
    ASSUME FilesInv, clean, boot.loop \in Loops, boot.half = "removal", boot.todo = {}
    PROVE  Reconciled(boot.loop)
<1> SUFFICES ASSUME files[boot.loop] # Missing PROVE Reconciled(boot.loop)
  BY DEF Reconciled
<1>1. /\ \A x \in Entries(boot.loop) : Followed(boot.loop, x)
      /\ Unnamed(boot.loop) = {}
  BY KeptFollowed DEF FilesInv, Progress
<1>2. CASE boot.loop \in DOMAIN RowsOf
  BY <1>1, <1>2 DEF Unnamed, Reconciled, RowsOf
<1>3. CASE boot.loop = "chores"
  BY <1>1, <1>3 DEF Unnamed, Reconciled, RowsOf
<1>4. CASE boot.loop = "assignments"
  <2>1. ASSUME NEW d \in Defs \cap managed, def[d].state = "active" PROVE Wanted(d)
    <3>1. <<ChildOf[d], ChoreOf[d]>> \in boot.seen
      BY <1>1, <1>4, <2>1 DEF Unnamed, RowsOf
    <3>. QED
      BY <3>1 DEF FilesInv, SeenIsWanted, Wanted
  <2>. QED
    BY <1>1, <1>4, <2>1 DEF Reconciled, RowsOf
<1>. QED
  BY <1>2, <1>3, <1>4 DEF Loops, RowsOf

LEMMA EnteringKeeps ==
    ASSUME FilesInv, NEW l \in Places, boot' = Enter(l),
           UNCHANGED <<files, tables>>
    PROVE  (SeenIsWanted /\ Progress)'
<1>1. /\ boot'.loop = l /\ boot'.seen = {}
      /\ boot'.half = "entries" => boot'.todo = Entries(l)
      /\ boot'.half \in {"entries", "removal"}
      /\ boot'.half = "removal" => (l \in Loops => files[l] = Missing)
  BY EnterFields
<1>2. Entries(l)' = Entries(l)
  BY DEF Entries
<1>. QED
  BY <1>1, <1>2 DEF SeenIsWanted, Progress

LEMMA LoopEnds ==
    ASSUME FilesInv, EndLoop
    PROVE  (SeenIsWanted /\ Progress /\ \A m \in Behind : Reconciled(m))'
<1>1. /\ UNCHANGED <<files, chore, def, named, managed, clean>> /\ UNCHANGED tables
      /\ boot.loop \in Loops /\ boot.half = "removal" /\ boot.todo = {}
      /\ settled' = (settled \/ (boot.loop = "assignments" /\ clean))
      /\ boot' = Enter(NextLoop[boot.loop])
  BY DEF EndLoop, tables, FilesInv, BootInv, Located, Places
<1>2. NextLoop[boot.loop] \in Places /\ boot'.loop = NextLoop[boot.loop]
  BY <1>1, EnterFields DEF NextLoop, Places, Loops
<1>3. SeenIsWanted' /\ Progress'
  BY <1>1, <1>2, EnteringKeeps
<1>4. ASSUME NEW m \in Behind' PROVE Reconciled(m)
  <2>1. CASE m \in Behind
    BY <2>1 DEF FilesInv
  <2>2. CASE m \notin Behind
    <3>1. clean /\ m = boot.loop
      <4>1. ~settled /\ clean /\ m \notin Earlier[boot.loop]
        BY <1>1, <1>4, <2>2 DEF FilesInv, Behind
      <4>2. CASE boot.loop = "assignments"
        <5>1. m \in Loops
          BY <1>1, <1>4, <4>1, <4>2 DEF Behind
        <5>2. m \notin {"accounts", "children", "chores"}
          BY <4>1, <4>2 DEF Earlier
        <5>. QED
          BY <4>1, <4>2, <5>1, <5>2 DEF Loops
      <4>3. CASE boot.loop # "assignments"
        <5>1. m \in Earlier[NextLoop[boot.loop]]
          BY <1>1, <1>2, <1>4, <4>1, <4>3 DEF Behind
        <5>. QED
          BY <1>1, <4>1, <4>3, <5>1 DEF Earlier, NextLoop, Loops
      <4>. QED
        BY <4>1, <4>2, <4>3
    <3>. QED
      BY <1>1, <3>1, LoopDone
  <2>. QED
    BY <2>1, <2>2
<1>. QED
  BY <1>1, <1>3, <1>4, RowsUnmoved

(* An error, in an entry, in a row to remove or in their listing.          *)
LEMMA Failing ==
    ASSUME FilesInv, Skip \/ SkipRemoval
    PROVE  (SeenIsWanted /\ Progress /\ \A m \in Behind : Reconciled(m))'
<1>1. /\ UNCHANGED <<files, chore, def, named, managed>>
      /\ ~clean' /\ ~settled'
  BY DEF Skip, SkipRemoval, Failure, tables
<1>2. SeenIsWanted'
  <2>1. ASSUME NEW x, Done(x) PROVE SeenIsWanted'
    <3>1. boot'.loop = boot.loop /\ boot'.seen = boot.seen
      BY <2>1, DoneFields DEF FilesInv
    <3>. QED
      BY <1>1, <3>1 DEF FilesInv, SeenIsWanted, Entries
  <2>2. CASE SkipRemoval
    <3>1. boot' = Boot(boot.loop, "removal", boot.todo, boot.seen)
      BY <2>2, FieldsOf DEF SkipRemoval, FilesInv, BootInv
    <3>2. boot'.loop = boot.loop /\ boot'.seen = boot.seen
      BY <3>1 DEF Boot
    <3>. QED
      BY <1>1, <3>2 DEF FilesInv, SeenIsWanted, Entries
  <2>3. ASSUME boot.loop = "assignments", boot.half = "entries",
               NEW x \in boot.todo, chore[x[2]] = "active", NEW k \in Active(x[1], Kids),
               boot' = [boot EXCEPT !.todo = @ \ {x}, !.seen = @ \cup Marked(k, x[2])]
        PROVE  SeenIsWanted'
    <3> DEFINE S == boot.seen \cup Marked(k, x[2])
    <3>1. boot'.loop = boot.loop /\ boot'.seen = S
      <4>1. boot' = [boot EXCEPT !.todo = @ \ {x}, !.seen = S]
        BY <2>3
      <4>. HIDE DEF S
      <4>. QED
        BY <4>1, DoneFields DEF FilesInv
    <3>2. files["assignments"] # Missing /\ x \in Entries("assignments")
      BY <2>3 DEF FilesInv, BootInv, InHandIsEntry
    <3>3. x = <<x[1], x[2]>>
      BY <3>2 DEF Entries, Pairs
    <3>4. Entries("assignments")' = Entries("assignments")
      BY <1>1 DEF Entries
    <3>5. NameOf[k] = x[1] /\ named[k] = "active"
      BY DEF Active
    <3>6. \A q \in S : q \in boot.seen \/ (q[1] = k /\ q[2] = x[2])
      BY DEF Marked
    <3>. QED
      BY <1>1, <2>3, <3>1, <3>2, <3>3, <3>4, <3>5, <3>6 DEF FilesInv, SeenIsWanted
  <2>. QED
    BY <2>1, <2>2, <2>3 DEF Skip
<1>. QED
  BY <1>1, <1>2 DEF Progress, Behind

(* What people change is followed up by the next start.                    *)
LEMMA Editing ==
    ASSUME FilesInv, Edit
    PROVE  (SeenIsWanted /\ Progress /\ \A m \in Behind : Reconciled(m))'
<1>1. boot' = boot /\ boot.loop = "serving" /\ boot.seen = {} /\ ~settled'
  BY DEF Edit, Serving, Boot
<1>. QED
  BY <1>1 DEF SeenIsWanted, Progress, Behind, Earlier, Loops

LEMMA FilesInvStep == FilesInv /\ [BootNext]_bootVars => FilesInv'
<1> SUFFICES ASSUME FilesInv, [BootNext]_bootVars PROVE FilesInv'
  OBVIOUS
<1> DEFINE Rest == SeenIsWanted /\ Progress /\ \A m \in Behind : Reconciled(m)
<1>1. BootInv' /\ Assignments'
  BY BootInvStep, BootStores, AssignmentsStep DEF FilesInv
<1>2. (settled => clean)'
  BY DEF FilesInv, BootNext, bootVars, tables, Start, BootstrapNamed, BootstrapChore,
         BootstrapAssignment, RemoveNamed, RemoveChore, RemoveAssignment, ListForRemoval,
         EndLoop, Skip, SkipRemoval, Failure, Quietly, WriteFile, CreateNamed, RemoveByHand,
         CreateChoreByHand, CreateChoreDefinition, DeactivateAssignmentByHand,
         DeactivateChoreByHand, Edit, Work
<1>3. CASE Start
  <2>1. /\ UNCHANGED <<files, chore, def, named, managed, settled>> /\ UNCHANGED tables
        /\ boot' = Enter("accounts") /\ "accounts" \in Places
    BY <1>3 DEF Start, tables, Places, Loops
  <2>2. boot'.loop = "accounts"
    BY <2>1, EnterFields
  <2>3. \A m \in Behind' : m \in Behind
    BY <2>1, <2>2 DEF Behind, Earlier
  <2>. QED
    BY <1>1, <1>2, <2>1, <2>3, EnteringKeeps, RowsUnmoved DEF FilesInv
<1>4. ASSUME NEW l \in DOMAIN RowsOf, NEW n, BootstrapNamed(l, n) PROVE Rest'
  BY <1>4, NamedEntry
<1>5. ASSUME NEW c \in Catalog, BootstrapChore(c) \/ RemoveChore(c) PROVE Rest'
  BY <1>5, ChoreEntry, ChoreRemoval
<1>6. ASSUME NEW p \in Pairs, BootstrapAssignment(p[1], p[2]) PROVE Rest'
  BY <1>6, AssignmentEntry
<1>7. ASSUME NEW l \in DOMAIN RowsOf, NEW r, RemoveNamed(l, r) PROVE Rest'
  BY <1>7, NamedRemoval
<1>8. ASSUME NEW d \in Defs, RemoveAssignment(d) PROVE Rest'
  BY <1>8, AssignmentRemoval
<1>9. ASSUME ListForRemoval \/ EndLoop \/ Skip \/ SkipRemoval \/ Edit PROVE Rest'
  BY <1>9, Listing, LoopEnds, Failing, Editing
<1>10. CASE UNCHANGED <<files, chore, def, named, managed, boot, clean, settled>>
  <2>1. SeenIsWanted' /\ Behind' = Behind
    BY <1>10 DEF FilesInv, SeenIsWanted, Entries, Behind
  <2>2. \A l, x : Kept(l, x) => Kept(l, x)'
    BY <1>10, KeptUnmoved
  <2>3. Progress'
    BY <1>10, <2>2 DEF FilesInv, Progress, Entries, Unnamed
  <2>. QED
    BY <1>1, <1>2, <1>10, <2>1, <2>3, RowsUnmoved DEF FilesInv
<1>11. CASE Work
  BY <1>10, <1>11 DEF Work, EnsureForDate, MarkComplete, Approve
<1>. QED
  BY <1>1, <1>2, <1>3, <1>4, <1>5, <1>6, <1>7, <1>8, <1>9, <1>10, <1>11
     DEF FilesInv, BootNext, bootVars, tables, WriteFile, CreateNamed, RemoveByHand,
         CreateChoreByHand, CreateChoreDefinition, DeactivateAssignmentByHand,
         DeactivateChoreByHand

LEMMA FilesInvariant == BootSpec => []FilesInv
<1>1. BootInit => FilesInv
  <2>1. BootInit => Assignments
    <3>1. Init => RecurringXorOneOff
      BY DEF Init, RecurringXorOneOff
    <3>. QED
      BY <3>1, InitGood DEF BootInit, Assignments, TypeOK
  <2>2. BootInit => boot = Serving /\ clean = TRUE /\ settled = FALSE
    BY DEF BootInit
  <2>. QED
    BY <2>1, <2>2, BootInvInit
       DEF FilesInv, SeenIsWanted, Progress, Behind, Earlier, Serving, Boot, Loops
<1>. QED
  BY <1>1, FilesInvStep, PTL DEF BootSpec

(* What a start without errors leaves is what the files say: every entry   *)
(* is followed, and no managed row is left that its file does not name.    *)
THEOREM StartsFollowTheFiles == BootSpec => []FilesFollowed
<1>1. FilesInv => FilesFollowed
  BY DEF FilesInv, FilesFollowed, Behind
<1>. QED
  BY <1>1, FilesInvariant, PTL

(* A start after a clean one finds everything as it left it.               *)
NothingMoves == settled /\ boot # Serving /\ ~Ambiguous => UNCHANGED tables

LEMMA RestartStep == FilesInv /\ [BootNext]_bootVars => NothingMoves
<1> SUFFICES ASSUME FilesInv, [BootNext]_bootVars, settled, boot # Serving, ~Ambiguous
             PROVE  UNCHANGED tables
  BY DEF NothingMoves
<1>0. clean /\ \A l \in Loops : Reconciled(l)
  BY DEF FilesInv, Behind
<1>1. ASSUME boot.half = "entries", NEW x \in boot.todo
      PROVE  /\ boot.loop \in Loops /\ Followed(boot.loop, x)
  BY <1>0, <1>1 DEF FilesInv, BootInv, InHandIsEntry, Reconciled
<1>2. ASSUME boot.half = "removal", boot.loop \in Loops, NEW x \in boot.todo
      PROVE  files[boot.loop] # Missing /\ x \in Unnamed(boot.loop)
  BY <1>0, <1>2 DEF FilesInv, BootInv, InHandIsEntry, Progress
<1>3. ASSUME NEW l \in DOMAIN RowsOf, NEW n, BootstrapNamed(l, n) PROVE UNCHANGED tables
  <2>1. Followed(l, n)
    BY <1>1, <1>3 DEF BootstrapNamed, InHand
  <2>. QED
    BY <1>3, <2>1 DEF BootstrapNamed, Followed, tables
<1>4. ASSUME NEW c \in Catalog, BootstrapChore(c) PROVE UNCHANGED tables
  <2>1. chore[c] # "absent"
    BY <1>1, <1>4 DEF BootstrapChore, InHand, Followed, RowsOf
  <2>. QED
    BY <1>4, <2>1 DEF BootstrapChore, tables
<1>5. ASSUME NEW l \in DOMAIN RowsOf, NEW r, RemoveNamed(l, r) PROVE UNCHANGED tables
  <2>1. boot.loop = l /\ l \in Loops /\ boot.half = "removal" /\ r \in boot.todo
    BY <1>5 DEF RemoveNamed, InHand, RowsOf, Loops
  <2>. QED
    BY <1>0, <1>2, <2>1 DEF Unnamed, Reconciled
<1>6. ASSUME NEW c \in Catalog, RemoveChore(c) PROVE UNCHANGED tables
  <2>1. boot.loop = "chores" /\ boot.half = "removal" /\ c \in boot.todo
    BY <1>6 DEF RemoveChore, InHand
  <2>. QED
    BY <1>0, <1>2, <2>1 DEF Unnamed, Reconciled, RowsOf, Loops
<1>7. ASSUME NEW d \in Defs, RemoveAssignment(d) PROVE UNCHANGED tables
  <2>1. boot.loop = "assignments" /\ boot.half = "removal" /\ d \in boot.todo
    BY <1>7 DEF RemoveAssignment, InHand
  <2>2. /\ files["assignments"] # Missing
        /\ d \in managed /\ def[d].state = "active"
        /\ <<ChildOf[d], ChoreOf[d]>> \notin boot.seen
    BY <1>2, <2>1 DEF Unnamed, RowsOf, Loops
  <2> DEFINE x == <<NameOf[ChildOf[d]], ChoreOf[d]>>
  <2>3. x \in Entries("assignments") /\ named[ChildOf[d]] = "active" /\ chore[ChoreOf[d]] = "active"
    BY <1>0, <2>2 DEF Reconciled, Wanted, Loops
  <2>4. Kept("assignments", x)
    BY <1>0, <2>1, <2>2, <2>3 DEF FilesInv, Progress, Loops
  <2>5. ChildOf[d] \in Kids
    BY ChildOfIsTotal
  <2>6. PICK k \in Active(x[1], Kids) : <<k, x[2]>> \in boot.seen
    BY <2>3, <2>4, <2>5 DEF Kept, Active
  <2>7. k = ChildOf[d]
    BY <2>3, <2>5, <2>6 DEF Ambiguous, Active, Named
  <2>. QED
    BY <2>2, <2>6, <2>7
<1>8. ASSUME NEW p \in Pairs, BootstrapAssignment(p[1], p[2]) PROVE UNCHANGED tables
  <2>1. /\ p = <<p[1], p[2]>> /\ Followed("assignments", p) /\ UNCHANGED named
        /\ files["assignments"][p] \in Schedules
    <3>1. p = <<p[1], p[2]>>
      BY DEF Pairs
    <3>2. InHand("assignments", "entries", p)
      BY <1>8, <3>1 DEF BootstrapAssignment
    <3>. QED
      BY <1>1, <1>8, <3>1, <3>2, ScheduleInHand DEF FilesInv, InHand, BootstrapAssignment
  <2>2. CASE UNCHANGED <<chore, def, inst, managed>>
    BY <2>1, <2>2 DEF tables
  <2>3. ASSUME chore[p[2]] = "active", NEW k \in Active(p[1], Kids),
               Assign(k, p[2], files["assignments"][p])
        PROVE  UNCHANGED tables
    <3> DEFINE s == files["assignments"][p]
    <3>a. PICK q \in Active(p[1], Kids) : \E d \in ActiveDefs(q, p[2]) : UpToDate(d, p)
      BY <2>1, <2>3 DEF Followed, RowsOf
    <3>2. q = k
      BY <2>3, <3>a DEF Ambiguous, Active, Named
    <3>1. PICK d \in ActiveDefs(k, p[2]) : UpToDate(d, p)
      BY <3>2, <3>a
    <3>3. \A a \in ActiveDefs(k, p[2]) : a = d
      BY <3>1, <3>2 DEF Ambiguous, ActiveDefs
    <3>4. Refresh(d, s) /\ UNCHANGED managed /\ d \in Defs /\ def[d] \in Definition
      BY <2>3, <3>1, <3>2, <3>3 DEF Assign, ActiveDefs, FilesInv, Assignments
    <3>5. CASE d \notin managed
      BY <2>1, <3>4, <3>5 DEF Refresh, tables
    <3>6. CASE d \in managed
      <4>1. s.weekdays = def[d].weekdays /\ s.date = def[d].date
        BY <3>1, <3>6 DEF UpToDate
      <4>2. s.date # NoDate => s.weekdays = {}
        BY <2>1 DEF Schedules, Recurring, OneOff
      <4>3. /\ def' = [def EXCEPT ![d].weekdays = s.weekdays, ![d].date = s.date]
            /\ UNCHANGED <<chore, inst>>
        BY <3>4, <3>6, <4>2 DEF Refresh, UpdateBootstrapRecurring, UpdateBootstrapOneOff
      <4>4. def' = def
        BY <3>4, <4>1, <4>3 DEF FilesInv, Assignments, Definition
      <4>. QED
        BY <2>1, <3>4, <4>3, <4>4 DEF tables
    <3>. QED
      BY <3>5, <3>6
  <2>. QED
    BY <1>8, <2>1, <2>2, <2>3 DEF BootstrapAssignment
<1>. QED
  BY <1>3, <1>4, <1>5, <1>6, <1>7, <1>8
     DEF BootNext, bootVars, tables, Start, ListForRemoval, EndLoop, Skip, SkipRemoval,
         Failure, WriteFile, CreateNamed, RemoveByHand, CreateChoreByHand,
         CreateChoreDefinition, DeactivateAssignmentByHand, DeactivateChoreByHand, Edit, Work

(* Whatever the files say, a restart changes nothing that a clean start    *)
(* left, unless two active rows go by one name or one pair.                *)
THEOREM RestartsChangeNothing == BootSpec => RestartChangesNothing
  BY FilesInvariant, RestartStep, PTL DEF BootSpec, RestartChangesNothing, NothingMoves

-----------------------------------------------------------------------------
(* No row and no clean row are the same thing.                             *)
LEMMA AbsentRow ==
    ASSUME NEW r \in GoodRow
    PROVE  r = Absent <=> r.status = "none"
  BY DEF GoodRow, Instance, Consistent, Absent, Row

(* What the tile relies on, of a table of occurrences.  Before one that    *)
(* was handled, no date from today on is still to be generated; before an  *)
(* approved one, nothing is open.                                          *)
Handled == {"pending_approval", "rejected", "approved"}
CoveredIn(rows) ==
    \A d \in Defs, e, x \in Days : x < e =>
        /\ rows[d][e].status \in Handled /\ today <= x /\ AppliesOn(d, x) =>
              rows[d][x] # Absent
        /\ rows[d][e].status = "approved" => rows[d][x].status \notin Unresolved
SettledIn(rows) ==
    \A d \in Defs, e \in Days :
        def[d].state = "deleted" => rows[d][e].status \notin Unresolved

Table == [Defs -> [Days -> GoodRow]]
SoundIn(rows) == rows \in Table /\ CoveredIn(rows) /\ SettledIn(rows)

(* Generation from today on keeps it.                                      *)
LEMMA GeneratedSound ==
    ASSUME GoodTable, NEW rows, SoundIn(rows), NEW dates, \A y \in dates : today <= y
    PROVE  SoundIn(Generated(rows, dates))
<1> DEFINE new == Generated(rows, dates)
<1>1. new \in Table
  BY TableOperations DEF SoundIn, Table
<1>2. \A d \in Defs, e \in Days :
         \/ new[d][e] = rows[d][e]
         \/ /\ new[d][e].status = "incomplete" /\ new[d][e] # Absent
            /\ e \in dates /\ AppliesOn(d, e) /\ rows[d][e] = Absent
  BY DEF Generated, Fresh, Absent, Row
<1>. HIDE DEF new
<1>3. CoveredIn(new)
  <2> SUFFICES ASSUME NEW d \in Defs, NEW e \in Days, NEW x \in Days, x < e
               PROVE  /\ new[d][e].status \in Handled /\ today <= x /\ AppliesOn(d, x) =>
                            new[d][x] # Absent
                      /\ new[d][e].status = "approved" => new[d][x].status \notin Unresolved
    BY DEF CoveredIn
  <2>1. /\ rows[d][e].status \in Handled /\ today <= x /\ AppliesOn(d, x) => rows[d][x] # Absent
        /\ rows[d][e].status = "approved" => rows[d][x].status \notin Unresolved
    BY DEF SoundIn, CoveredIn
  <2>. QED
    BY <1>2, <2>1 DEF Handled
<1>4. SettledIn(new)
  BY <1>2 DEF SoundIn, SettledIn, AppliesOn
<1>. QED
  BY <1>1, <1>3, <1>4 DEF SoundIn, new

(* So does a tap on a page that shows every occurrence before.             *)
LEMMA CompletedSound ==
    ASSUME SoundIn(inst), GoodTable, NEW d \in Defs, NEW e \in Days, Tappable(d, e), OnPage(d, e)
    PROVE  SoundIn(Completed(d, e))
<1> DEFINE new == Completed(d, e)
<1>0. new \in Table
  BY CompletedGood DEF Table
<1>1. \A a \in Defs : a # d => new[a] = inst[a]
  BY DEF GoodTable, Completed, Submitted, SelfApproved
<1>2. CASE d \in ParentAssigned
  <2>1. \A x \in Days : new[d][x].status =
           IF x = e \/ x \in Backlog(d, e) THEN "approved" ELSE inst[d][x].status
    BY <1>2 DEF GoodTable, Completed, SelfApproved, Approved, Row
  <2>2. CoveredIn(new)
    <3> SUFFICES ASSUME NEW a \in Defs, NEW y \in Days, NEW x \in Days, x < y
                 PROVE  /\ new[a][y].status \in Handled /\ today <= x /\ AppliesOn(a, x) =>
                              new[a][x] # Absent
                        /\ new[a][y].status = "approved" => new[a][x].status \notin Unresolved
      BY DEF CoveredIn
    <3>1. /\ inst[a][y].status \in Handled /\ today <= x /\ AppliesOn(a, x) => inst[a][x] # Absent
          /\ inst[a][y].status = "approved" => inst[a][x].status \notin Unresolved
      BY DEF SoundIn, CoveredIn
    <3>2. CASE a # d
      BY <1>1, <3>1, <3>2
    <3>3. CASE a = d
      <4> HIDE DEF new
      <4>1. inst[d][x] # Absent => new[d][x] # Absent
        <5>1. inst[d][x] \in GoodRow /\ new[d][x] \in GoodRow
          BY <1>0 DEF GoodTable, Table
        <5>. QED
          BY <2>1, <5>1, AbsentRow
      <4>2. x < e /\ today <= x /\ AppliesOn(d, x) => inst[d][x] # Absent
        BY DEF OnPage
      <4>3. CASE y = e \/ y \in Backlog(d, e)
        <5>1. x < e
          BY <4>3, DaysAreDates DEF Backlog
        <5>2. new[d][x].status \notin Unresolved
          BY <2>1, <5>1 DEF Backlog, Unresolved
        <5>. QED
          BY <3>3, <4>1, <4>2, <5>1, <5>2
      <4>4. CASE ~(y = e \/ y \in Backlog(d, e))
        BY <2>1, <3>1, <3>3, <4>1, <4>4 DEF Unresolved
      <4>. QED
        BY <4>3, <4>4
    <3>. QED
      BY <3>2, <3>3
  <2>3. SettledIn(new)
    BY <1>1, <2>1 DEF SoundIn, SettledIn, Unresolved
  <2>. QED
    BY <1>0, <2>2, <2>3 DEF SoundIn
<1>3. CASE d \notin ParentAssigned
  <2>1. /\ \A x \in Days : x # e => new[d][x] = inst[d][x]
        /\ new[d][e].status = "pending_approval" /\ new[d][e] # Absent
        /\ inst[d][e].status \in Unresolved
    BY <1>3 DEF GoodTable, Completed, Submitted, Row, Absent, Tappable, Unresolved
  <2>2. CoveredIn(new)
    <3> SUFFICES ASSUME NEW a \in Defs, NEW y \in Days, NEW x \in Days, x < y
                 PROVE  /\ new[a][y].status \in Handled /\ today <= x /\ AppliesOn(a, x) =>
                              new[a][x] # Absent
                        /\ new[a][y].status = "approved" => new[a][x].status \notin Unresolved
      BY DEF CoveredIn
    <3>1. /\ inst[a][y].status \in Handled /\ today <= x /\ AppliesOn(a, x) => inst[a][x] # Absent
          /\ inst[a][y].status = "approved" => inst[a][x].status \notin Unresolved
      BY DEF SoundIn, CoveredIn
    <3>2. x < e /\ today <= x /\ AppliesOn(d, x) => inst[d][x] # Absent
      BY DEF OnPage
    <3>. HIDE DEF new
    <3>3. CASE a # d
      BY <1>1, <3>1, <3>3
    <3>4. CASE a = d /\ y = e
      BY <2>1, <3>2, <3>4, DaysAreDates
    <3>5. CASE a = d /\ y # e
      BY <2>1, <3>1, <3>5
    <3>. QED
      BY <3>3, <3>4, <3>5
  <2>3. SettledIn(new)
    BY <1>1, <2>1 DEF SoundIn, SettledIn
  <2>. QED
    BY <1>0, <2>2, <2>3 DEF SoundIn
<1>. QED
  BY <1>2, <1>3

(* A parent's decision, on the dashboard or by a link.                     *)
LEMMA DecidedSound ==
    ASSUME SoundIn(inst), GoodTable, NEW d \in Defs, NEW e \in Days,
           NEW p \in Parents \cup {Nobody}, Decide(d, e, p)
    PROVE  CoveredIn(inst') /\ SettledIn(inst')
<1>0. inst' \in Table
  BY DecideGood DEF GoodTable, Table
<1>1. \A a \in Defs : a # d => inst'[a] = inst[a]
  BY DEF GoodTable, Decide, Approve, Reject
<1>2. inst[d][e].status = "pending_approval"
  BY DEF Decide, Approve, Reject
<1> SUFFICES ASSUME NEW y \in Days
             PROVE  /\ \A x \in Days : x < y =>
                          /\ inst'[d][y].status \in Handled /\ today <= x /\ AppliesOn(d, x) =>
                                inst'[d][x] # Absent
                          /\ inst'[d][y].status = "approved" => inst'[d][x].status \notin Unresolved
                    /\ def[d].state = "deleted" => inst'[d][y].status \notin Unresolved
  BY <1>1 DEF SoundIn, CoveredIn, SettledIn
<1>3. \A x \in Days : inst[d][x] # Absent => inst'[d][x] # Absent
  <2>1. \A x \in Days : inst[d][x] \in GoodRow /\ inst'[d][x] \in GoodRow
    BY <1>0 DEF GoodTable, Table
  <2>2. \A x \in Days : inst[d][x].status # "none" => inst'[d][x].status # "none"
    BY DEF GoodTable, Decide, Approve, Reject, Approved, Row
  <2>. QED
    BY <2>1, <2>2, AbsentRow
<1>4. def[d].state # "deleted"
  BY <1>2 DEF SoundIn, SettledIn, Unresolved
<1>5. ASSUME NEW x \in Days, x < y
      PROVE  /\ inst[d][y].status \in Handled /\ today <= x /\ AppliesOn(d, x) => inst[d][x] # Absent
             /\ inst[d][y].status = "approved" => inst[d][x].status \notin Unresolved
             /\ x < e /\ today <= x /\ AppliesOn(d, x) => inst[d][x] # Absent
  BY <1>2, <1>5 DEF SoundIn, CoveredIn, Handled
<1>6. CASE Approve(d, e, p)
  <2>1. \A x \in Days : inst'[d][x].status =
           IF x = e \/ x \in Backlog(d, e) THEN "approved" ELSE inst[d][x].status
    BY <1>6 DEF GoodTable, Approve, Approved, Row
  <2>2. ASSUME NEW x \in Days, x < y, y = e \/ y \in Backlog(d, e)
        PROVE  x < e /\ inst'[d][x].status \notin Unresolved
    <3>1. x < e
      BY <2>2, DaysAreDates DEF Backlog
    <3>. QED
      BY <2>1, <3>1 DEF Backlog, Unresolved
  <2>. QED
    BY <1>3, <1>4, <1>5, <2>1, <2>2 DEF Unresolved
<1>7. CASE Reject(d, e, p)
  <2>1. /\ \A x \in Days : x # e => inst'[d][x] = inst[d][x]
        /\ inst'[d][e].status = "rejected"
    BY <1>7 DEF GoodTable, Reject, Row
  <2>. QED
    BY <1>2, <1>3, <1>4, <1>5, <2>1 DEF Unresolved
<1>. QED
  BY <1>6, <1>7 DEF Decide

(* Deletions take the open occurrences of what no longer applies.          *)
LEMMA WithdrawnSound ==
    ASSUME SoundIn(inst), GoodTable, NEW ds, inst' = WithoutUnresolved(ds),
           UNCHANGED today,
           \A d \in Defs : d \in ds \/ def'[d] = def[d],
           \A d \in Defs : d \in ds => def'[d].state = "deleted"
    PROVE  (CoveredIn(inst) /\ SettledIn(inst))'
<1>1. \A d \in Defs, e \in Days :
         \/ inst'[d][e] = inst[d][e] /\ (d \in ds => inst[d][e].status \notin Unresolved)
         \/ d \in ds /\ inst'[d][e].status = "none"
  BY DEF WithoutUnresolved, Absent, Row
<1>2. \A d \in Defs, e \in Days :
         AppliesOn(d, e)' => d \notin ds /\ AppliesOn(d, e)
  BY DEF AppliesOn
<1>3. CoveredIn(inst)'
  <2> SUFFICES ASSUME NEW d \in Defs, NEW e \in Days, NEW x \in Days, x < e
               PROVE  /\ inst'[d][e].status \in Handled /\ today <= x /\ AppliesOn(d, x)' =>
                            inst'[d][x] # Absent
                      /\ inst'[d][e].status = "approved" => inst'[d][x].status \notin Unresolved
    BY DEF CoveredIn
  <2>1. /\ inst[d][e].status \in Handled /\ today <= x /\ AppliesOn(d, x) => inst[d][x] # Absent
        /\ inst[d][e].status = "approved" => inst[d][x].status \notin Unresolved
    BY DEF SoundIn, CoveredIn
  <2>. QED
    BY <1>1, <1>2, <2>1 DEF Handled, Unresolved
<1>4. SettledIn(inst)'
  BY <1>1 DEF SoundIn, SettledIn, Unresolved
<1>. QED
  BY <1>3, <1>4

(* The tables of a day between two midnights.                              *)
Flow == today \in Days /\ Tables /\ SoundIn(inst)

LEMMA DaysOrdered == today \in Days => today \in Nat /\ \A n \in Nat : \A y \in today .. (today + n) : today <= y
  BY DaysAreDates

LEMMA GeneratingKeeps ==
    ASSUME Flow, NEW dates, \A y \in dates : today <= y, Generate(dates)
    PROVE  Flow'
<1>1. SoundIn(inst') /\ UNCHANGED <<today, chore, def>>
  BY GeneratedSound DEF Flow, Tables, Generate, Asleep
<1>2. (CoveredIn(inst') <=> CoveredIn(inst)') /\ (SettledIn(inst') <=> SettledIn(inst)')
  BY <1>1 DEF CoveredIn, SettledIn, AppliesOn
<1>. QED
  BY <1>1, <1>2 DEF Flow, Tables, Assignments, RecurringXorOneOff, GoodTable, SoundIn, Table

LEMMA TappingKeeps ==
    ASSUME Flow, NEW d \in Defs, NEW e \in Days, NEW dates \in {{today}, {}}, Tap(d, e, dates)
    PROVE  Flow'
<1>1. UNCHANGED <<today, chore, def>> /\ \A y \in dates : today <= y
  BY DaysAreDates DEF Flow, Tap
<1>2. SoundIn(IF Tappable(d, e) THEN Completed(d, e) ELSE inst)
  BY CompletedSound DEF Flow, Tables, Tap
<1>3. SoundIn(inst')
  BY <1>1, <1>2, GeneratedSound DEF Flow, Tables, Tap
<1>4. (CoveredIn(inst') <=> CoveredIn(inst)') /\ (SettledIn(inst') <=> SettledIn(inst)')
  BY <1>1 DEF CoveredIn, SettledIn, AppliesOn
<1>. QED
  BY <1>1, <1>3, <1>4 DEF Flow, Tables, Assignments, RecurringXorOneOff, GoodTable, SoundIn, Table

LEMMA StoresKeep ==
    ASSUME Flow, UNCHANGED today, [Next]_vars,
           (CoveredIn(inst) /\ SettledIn(inst))'
    PROVE  Flow'
<1>1. Tables'
  BY AssignmentsStep, GoodTableStep DEF Flow, Tables
<1>. QED
  BY <1>1 DEF Flow, SoundIn, Table, Tables, GoodTable

LEMMA DecidingKeeps ==
    ASSUME Flow, UNCHANGED today, NEW d \in Defs, NEW e \in Days,
           NEW p \in Parents \cup {Nobody}, Decide(d, e, p)
    PROVE  Flow'
<1>1. CoveredIn(inst') /\ SettledIn(inst') /\ UNCHANGED <<chore, def>>
  BY DecidedSound DEF Flow, Tables, Decide, Approve, Reject
<1>2. (CoveredIn(inst) /\ SettledIn(inst))'
  BY <1>1 DEF CoveredIn, SettledIn, AppliesOn
<1>3. [Next]_vars
  BY DEF Next
<1>. QED
  BY <1>2, <1>3, StoresKeep

LEMMA FlowStep ==
    ASSUME Flow, mails \subseteq Mail, [FlowNext]_flowVars
    PROVE  Flow'
<1>1. CASE KioskPage
  BY <1>1, GeneratingKeeps, DaysAreDates DEF KioskPage, Flow
<1>2. CASE KioskWeek
  <2>1. PICK n \in Nat : Generate(today .. (today + n))
    BY <1>2, AheadIsNat DEF KioskWeek
  <2>. QED
    BY <2>1, GeneratingKeeps, DaysOrdered DEF Flow
<1>3. CASE GenerateChoreInstances
  <2>1. PICK dates \in SUBSET (today .. (today + Ahead)) : Generate(dates)
    BY <1>3 DEF GenerateChoreInstances
  <2>2. \A y \in dates : today <= y
    BY DaysAreDates, AheadIsNat DEF Flow
  <2>. QED
    BY <2>1, <2>2, GeneratingKeeps
<1>4. ASSUME NEW d \in Defs, NEW e \in Days,
             KioskCompleteChore(d, e) \/ KioskWeekCompleteChore(d, e)
      PROVE  Flow'
  BY <1>4, TappingKeeps DEF KioskCompleteChore, KioskWeekCompleteChore
<1>5. CASE UNCHANGED <<chore, def, inst, today>>
  BY <1>5 DEF Flow, Tables, Assignments, RecurringXorOneOff, GoodTable, SoundIn, CoveredIn,
              SettledIn, AppliesOn
<1>6. ASSUME NEW m \in mails, NEW a \in Actions, ClickLink(m, a) PROVE Flow'
  <2>1. m.of \in Occurrences
    BY DEF Mail
  <2>. QED
    BY <1>6, <2>1, DecidingKeeps DEF ClickLink, Decide, Occurrences
<1>7. ASSUME NEW d \in Defs, NEW e \in Days, NEW p \in Parents, ParentDecideChore(d, e, p)
      PROVE  Flow'
  BY <1>7, DecidingKeeps DEF ParentDecideChore
<1>8. ASSUME NEW d \in Defs, NEW e \in Days, ParentResetRejectedChore(d, e) PROVE Flow'
  <2>1. /\ UNCHANGED <<today, chore, def>> /\ ResetRejected(d, e)
        /\ inst' = [inst EXCEPT ![d][e] = Fresh] /\ inst[d][e].status = "rejected"
    BY <1>8 DEF ParentResetRejectedChore, ResetRejected
  <2>2. /\ Fresh.status = "incomplete" /\ Fresh # Absent
    BY DEF Fresh, Absent, Row
  <2>3. \A a \in Defs, x \in Days :
           inst'[a][x] = inst[a][x] \/ (inst'[a][x] = Fresh /\ inst[a][x].status = "rejected")
    BY <2>1 DEF Flow, Tables, GoodTable
  <2>4. (CoveredIn(inst) /\ SettledIn(inst))'
    <3>1. \A a \in Defs, x \in Days : AppliesOn(a, x)' <=> AppliesOn(a, x)
      BY <2>1 DEF AppliesOn
    <3>2. SettledIn(inst)'
      BY <2>1, <2>2, <2>3 DEF Flow, SoundIn, SettledIn, Unresolved
    <3>3. CoveredIn(inst)'
      BY <2>1, <2>2, <2>3, <3>1 DEF Flow, SoundIn, CoveredIn, Handled, Unresolved
    <3>. QED
      BY <3>2, <3>3
  <2>5. [Next]_vars
    BY <2>1 DEF Next
  <2>. QED
    BY <2>1, <2>4, <2>5, StoresKeep
<1>9. ASSUME NEW d \in Defs, DeactivateChoreDefinition(d) PROVE Flow'
  <2>1. UNCHANGED today /\ DeactivateDefinition(d) /\ def[d] \in Definition
    BY <1>9 DEF DeactivateChoreDefinition, Flow, Tables, Assignments
  <2>2. (CoveredIn(inst) /\ SettledIn(inst))'
    <3>1. /\ \A a \in Defs : a \in {d} \/ def'[a] = def[a]
          /\ \A a \in Defs : a \in {d} => def'[a].state = "deleted"
      BY <2>1 DEF DeactivateDefinition, Flow, Tables, Assignments, Definition
    <3>. QED
      BY <2>1, <3>1, WithdrawnSound DEF DeactivateDefinition, Flow, Tables
  <2>3. [Next]_vars
    BY <2>1 DEF Next
  <2>. QED
    BY <2>1, <2>2, <2>3, StoresKeep
<1>10. ASSUME NEW c \in Catalog, ParentDeactivateChore(c) PROVE Flow'
  <2>1. UNCHANGED today /\ DeactivateChore(c)
    BY <1>10 DEF ParentDeactivateChore
  <2>2. (CoveredIn(inst) /\ SettledIn(inst))'
    <3>1. /\ \A a \in Defs : a \in AssignmentsOf(c) \/ def'[a] = def[a]
          /\ \A a \in Defs : a \in AssignmentsOf(c) => def'[a].state = "deleted"
      BY <2>1 DEF DeactivateChore, Flow, Tables, Assignments, Definition
    <3>. QED
      BY <2>1, <3>1, WithdrawnSound DEF DeactivateChore, Flow, Tables
  <2>3. [Next]_vars
    BY <2>1 DEF Next
  <2>. QED
    BY <2>1, <2>2, <2>3, StoresKeep
<1>11. CASE Midnight
  <2>1. /\ UNCHANGED <<chore, def, inst>> /\ today' \in Days /\ today \in Days
        /\ \A x \in Days : today' <= x => today <= x
    BY <1>11, DaysAreDates DEF Midnight, Flow
  <2>2. (CoveredIn(inst) /\ SettledIn(inst))'
    <3>1. \A a \in Defs, x \in Days : AppliesOn(a, x)' <=> AppliesOn(a, x)
      BY <2>1 DEF AppliesOn
    <3>. QED
      BY <2>1, <3>1 DEF Flow, SoundIn, CoveredIn, SettledIn
  <2>. QED
    BY <2>1, <2>2 DEF Flow, Tables, Assignments, RecurringXorOneOff, GoodTable, SoundIn, Table
<1>. QED
  BY <1>1, <1>2, <1>3, <1>4, <1>5, <1>6, <1>7, <1>8, <1>9, <1>10, <1>11
     DEF FlowNext, flowVars, SendMail, LoseNotice, Restart

LEMMA FlowStarts == FlowInit => Flow
<1> SUFFICES ASSUME FlowInit PROVE Flow
  OBVIOUS
<1>1. Assignments
  <2>1. PICK s \in [Defs -> Schedules] :
           def = [d \in Defs |-> [state |-> "active", weekdays |-> s[d].weekdays,
                                  date |-> s[d].date]]
    BY DEF FlowInit
  <2>2. ASSUME NEW d \in Defs
        PROVE  /\ s[d].weekdays \in SUBSET Weekdays /\ s[d].date \in Days \cup {NoDate}
               /\ (s[d].weekdays # {}) # (s[d].date # NoDate)
    BY NullsAreDistinct DEF Schedules, Recurring, OneOff
  <2>3. def \in [Defs -> Definition] /\ chore \in [Catalog -> RowState]
    BY <2>1, <2>2 DEF FlowInit, Definition, RowState
  <2>4. RecurringXorOneOff
    BY <2>1, <2>2 DEF RecurringXorOneOff
  <2>. QED
    BY <2>3, <2>4 DEF Assignments
<1>2. inst \in Table /\ \A d \in Defs, e \in Days : inst[d][e].status = "none"
  BY RowsWritten DEF FlowInit, Table, Absent, Row
<1>3. CoveredIn(inst) /\ SettledIn(inst)
  BY <1>2 DEF CoveredIn, SettledIn, Handled, Unresolved
<1>. QED
  BY <1>1, <1>2, <1>3 DEF Flow, Tables, GoodTable, SoundIn, Table, FlowInit

(* Every announcement is of a submission that was made; no submission is   *)
(* announced by two e-mails, or by an e-mail and a goroutine still to run. *)
Announcement == [of : Occurrences, no : 1 .. MaxTaps]
Announced ==
    /\ taps \in 0 .. MaxTaps
    /\ rounds \in [Occurrences -> 0 .. taps]
    /\ notices \subseteq Announcement
    /\ mails \subseteq Mail
    /\ \A a \in notices \cup mails : a.no <= rounds[a.of]
    /\ \A n \in notices, m \in mails : n.of = m.of => n.no # m.no
    /\ \A m, o \in mails : m.of = o.of /\ m.no = o.no => m = o

LEMMA AnnouncedStarts == FlowInit => Announced
  BY TapsAreCounted DEF FlowInit, Announced

LEMMA TapAnnounces ==
    ASSUME Announced, NEW d \in Defs, NEW e \in Days, NEW dates, Tap(d, e, dates)
    PROVE  Announced'
<1> DEFINE p == <<d, e>>
<1>0. p \in Occurrences /\ mails' = mails
  BY DEF Occurrences, Tap
<1>1. CASE ~Notified(d, e)
  BY <1>1 DEF Tap, Notified, Announced
<1>2. CASE Notified(d, e)
  <2>1. /\ taps < MaxTaps /\ taps' = taps + 1
        /\ rounds' = [rounds EXCEPT ![p] = @ + 1]
        /\ notices' = notices \cup {Notice(d, e)}
    BY <1>2 DEF Tap, Notified
  <2>2. /\ taps \in Nat /\ rounds[p] \in 0 .. taps
        /\ rounds' \in [Occurrences -> 0 .. taps'] /\ taps' \in 0 .. MaxTaps
    BY <1>0, <2>1, TapsAreCounted DEF Announced
  <2>3. /\ Notice(d, e) \in Announcement
        /\ Notice(d, e).of = p /\ Notice(d, e).no = rounds[p] + 1
    BY <1>0, <2>1, <2>2, TapsAreCounted DEF Notice, Announcement
  <2>4. \A q \in Occurrences : rounds'[q] = IF q = p THEN rounds[p] + 1 ELSE rounds[q]
    BY <1>0, <2>1 DEF Announced
  <2>5. \A a \in notices \cup mails :
           a.of \in Occurrences /\ a.no \in Nat /\ rounds[a.of] \in Nat /\ a.no <= rounds[a.of]
    BY TapsAreCounted DEF Announced, Announcement, Mail
  <2>6. \A a \in notices' \cup mails' : a.no <= rounds'[a.of]
    BY <1>0, <2>1, <2>2, <2>3, <2>4, <2>5
  <2>7. \A n \in notices', m \in mails' : n.of = m.of => n.no # m.no
    <3> SUFFICES ASSUME NEW n \in notices', NEW m \in mails', n.of = m.of
                 PROVE  n.no # m.no
      OBVIOUS
    <3>1. CASE n \in notices
      BY <1>0, <3>1 DEF Announced
    <3>2. CASE n = Notice(d, e)
      BY <1>0, <2>2, <2>3, <2>5, <3>2
    <3>. QED
      BY <2>1, <3>1, <3>2
  <2>. QED
    BY <1>0, <2>1, <2>2, <2>3, <2>6, <2>7 DEF Announced
<1>. QED
  BY <1>1, <1>2

LEMMA MailAnnounces ==
    ASSUME Announced, today \in Days, NEW n \in notices, SendMail(n)
    PROVE  Announced'
<1> DEFINE m == [of |-> n.of, expires |-> today + LinkTTL, no |-> n.no]
<1>1. n \in Announcement /\ n.no <= rounds[n.of]
  BY DEF Announced
<1>2. m \in Mail /\ m.of = n.of /\ m.no = n.no
  BY <1>1, DaysAreDates, LinkTTLIsNat DEF Mail, Announcement
<1>3. /\ notices' = notices \ {n} /\ mails' = mails \cup {m}
      /\ UNCHANGED <<rounds, taps>>
  BY DEF SendMail
<1>. HIDE DEF m
<1>4. \A o \in notices' : o.of = n.of => o.no # n.no
  BY <1>1, <1>3 DEF Announced, Announcement
<1>5. \A o \in mails : o.of = n.of => o.no # n.no
  BY DEF Announced
<1>. QED
  BY <1>1, <1>2, <1>3, <1>4, <1>5 DEF Announced

LEMMA AnnouncedStep ==
    ASSUME Announced, today \in Days, [FlowNext]_flowVars
    PROVE  Announced'
<1>1. ASSUME NEW d \in Defs, NEW e \in Days,
             KioskCompleteChore(d, e) \/ KioskWeekCompleteChore(d, e)
      PROVE  Announced'
  BY <1>1, TapAnnounces DEF KioskCompleteChore, KioskWeekCompleteChore
<1>2. ASSUME NEW n \in notices, SendMail(n) PROVE Announced'
  BY <1>2, MailAnnounces
<1>3. CASE notices' \subseteq notices /\ UNCHANGED <<mails, rounds, taps>>
  BY <1>3 DEF Announced
<1>. QED
  BY <1>1, <1>2, <1>3
     DEF FlowNext, flowVars, announced, KioskPage, KioskWeek, GenerateChoreInstances, Generate,
         Asleep, LoseNotice, Restart, ClickLink, ParentDecideChore, ParentResetRejectedChore,
         DeactivateChoreDefinition, ParentDeactivateChore, Midnight

(* The inductive invariant of the flow.                                    *)
FlowInv == Flow /\ Announced

LEMMA FlowInvariant == FlowSpec => []FlowInv
<1>1. FlowInit => FlowInv
  BY FlowStarts, AnnouncedStarts DEF FlowInv
<1>2. FlowInv /\ [FlowNext]_flowVars => FlowInv'
  BY FlowStep, AnnouncedStep DEF FlowInv, Announced, Flow
<1>. QED
  BY <1>1, <1>2, PTL DEF FlowSpec

(* The handlers keep the clock, the messages and the tables in their types.*)
THEOREM FlowTypeCorrect == FlowSpec => []FlowTypeOK
<1>1. FlowInv => FlowTypeOK
  BY DEF FlowInv, Flow, Tables, Assignments, SoundIn, Table, GoodRow, TypeOK, FlowTypeOK,
         Announced, Announcement
<1>. QED
  BY <1>1, FlowInvariant, PTL

(* Behind the handlers too, the columns of a row tell one story.           *)
THEOREM FlowColumnsAgree == FlowSpec => []ColumnsMatchStatus
<1>1. FlowInv => ColumnsMatchStatus
  BY DEF FlowInv, Flow, SoundIn, Table, GoodRow, ColumnsMatchStatus
<1>. QED
  BY <1>1, FlowInvariant, PTL

(* Behind the handlers too, what was deleted has no open occurrence.       *)
THEOREM FlowDeletedStaysDone == FlowSpec => []DeletedHasNoOpenWork
<1>1. FlowInv => DeletedHasNoOpenWork
  BY DEF FlowInv, Flow, SoundIn, SettledIn, DeletedHasNoOpenWork
<1>. QED
  BY <1>1, FlowInvariant, PTL

-----------------------------------------------------------------------------
(* A bounded set of dates has a latest one.                                *)
LEMMA LatestExists ==
    ASSUME NEW S \in SUBSET Nat, S # {}, NEW n \in Nat, \A x \in S : x <= n
    PROVE  Max(S) \in S /\ \A x \in S : x <= Max(S)
<1> DEFINE After(x) == {y \in S : y > x}
           Tails == {After(x) : x \in S}
<1>1. Tails \subseteq FiniteSubsetsOf(Nat)
  <2>1. \A x \in S : After(x) \in SUBSET Nat /\ IsFiniteSet(After(x))
    <3> SUFFICES ASSUME NEW x \in S PROVE After(x) \in SUBSET Nat /\ IsFiniteSet(After(x))
      OBVIOUS
    <3>. QED
      BY FS_BoundedSetOfNaturals
  <2>. QED
    BY <2>1 DEF FiniteSubsetsOf
<1>2. PICK T \in Tails : \A U \in Tails : <<U, T>> \notin StrictSubsetOrdering(Nat)
  <2>1. IsWellFoundedOn(StrictSubsetOrdering(Nat), FiniteSubsetsOf(Nat))
    BY FS_StrictSubsetOrderingWellFounded
  <2>2. Tails # {}
    OBVIOUS
  <2>. HIDE DEF Tails
  <2>. QED
    BY <1>1, <2>1, <2>2, WFMin
<1>3. PICK x \in S : T = After(x)
  OBVIOUS
<1>4. \A y \in S : y <= x
  <2> SUFFICES ASSUME NEW y \in S, y > x PROVE FALSE
    OBVIOUS
  <2>1. After(y) \subseteq T /\ y \in T /\ y \notin After(y) /\ After(y) \in Tails
    <3>1. x \in Nat /\ y \in Nat /\ \A z \in S : z \in Nat /\ (z > y => z > x)
      OBVIOUS
    <3>2. After(y) \in Tails /\ y \notin After(y)
      BY <3>1
    <3>. QED
      BY <1>3, <3>1, <3>2
  <2>2. <<After(y), T>> \in StrictSubsetOrdering(Nat)
    <3>1. After(y) \in SUBSET Nat /\ T \in SUBSET Nat /\ After(y) # T
      BY <1>3, <2>1
    <3>. HIDE DEF After
    <3>. QED
      BY <2>1, <3>1 DEF StrictSubsetOrdering
  <2>. QED
    BY <1>2, <2>1, <2>2
<1>. HIDE DEF After, Tails
<1>5. \E z \in S : \A y \in S : z >= y
  BY <1>4
<1>. QED
  BY <1>5 DEF Max

(* The tile of an assignment is open while anything is, and is the latest  *)
(* of what is open: one approval of it resolves the backlog.               *)
THEOREM TileCovers == FlowSpec => []TileCoversBacklog
<1>1. FlowInv => TileCoversBacklog
  <2> SUFFICES ASSUME FlowInv, NEW d \in Defs, NEW e \in Days, e <= today, Open(d, e)
               PROVE  Open(d, Tile(d)) /\ e <= Tile(d)
    BY DEF TileCoversBacklog
  <2>0. /\ today \in Days /\ today \in Nat /\ e \in Nat
        /\ \A x \in Days : inst[d][x].status \in Status
    BY DaysAreDates DEF FlowInv, Flow, SoundIn, Table, GoodRow, Instance
  <2>1. CASE today \in Listed(d)
    <3>1. Tile(d) = today
      BY <2>1 DEF Tile
    <3>2. inst[d][today].status # "none"
      BY <2>0, <2>1 DEF Listed
    <3>3. e < today => inst[d][today].status # "approved"
      BY <2>0 DEF FlowInv, Flow, SoundIn, CoveredIn, Open
    <3>. QED
      BY <2>0, <3>1, <3>2, <3>3 DEF Open, Status
  <2>2. CASE today \notin Listed(d)
    <3> DEFINE unresolved == {x \in Listed(d) : Open(d, x)}
    <3>1. e \in unresolved
      BY <2>0, <2>2 DEF Listed, Open, Unresolved
    <3>2. Tile(d) = Max(unresolved)
      BY <2>2, <3>1 DEF Tile
    <3>3. unresolved \in SUBSET Nat /\ \A x \in unresolved : x <= today
      <4>1. \A x \in unresolved : x \in Nat /\ (x = today \/ x < today)
        BY DaysAreDates DEF Listed
      <4>. HIDE DEF unresolved
      <4>. QED
        BY <2>0, <4>1
    <3>. HIDE DEF unresolved
    <3>4. Max(unresolved) \in unresolved /\ e <= Max(unresolved)
      BY <2>0, <3>1, <3>3, LatestExists
    <3>. QED
      BY <3>2, <3>4 DEF unresolved
  <2>. QED
    BY <2>1, <2>2
<1>. QED
  BY <1>1, FlowInvariant, PTL

-----------------------------------------------------------------------------
(* Things numbered differently are no more than the numbers they use; two  *)
(* kinds that share no number are together no more than the numbers.       *)
LEMMA NumberedApart ==
    ASSUME NEW S, NEW N, IsFiniteSet(N), NEW f \in [S -> N],
           \A x, y \in S : f[x] = f[y] => x = y
    PROVE  Cardinality(S) \in Nat /\ Cardinality(N) \in Nat /\ Cardinality(S) <= Cardinality(N)
<1>1. f \in Injection(S, N)
  BY DEF Injection, IsInjective
<1>2. IsFiniteSet(S) /\ Cardinality(S) <= Cardinality(N)
  BY <1>1, FS_Injection
<1>. QED
  BY <1>2, FS_CardinalityType

LEMMA TogetherNumberedApart ==
    ASSUME NEW S, NEW T, NEW n \in Nat, NEW f \in [S -> 1 .. n], NEW g \in [T -> 1 .. n],
           \A x, y \in S : f[x] = f[y] => x = y,
           \A x, y \in T : g[x] = g[y] => x = y,
           \A x \in S, y \in T : f[x] # g[y]
    PROVE  Cardinality(S) + Cardinality(T) <= n
<1> DEFINE A == {f[x] : x \in S}
           B == {g[y] : y \in T}
<1>1. /\ A \in SUBSET (1 .. n) /\ B \in SUBSET (1 .. n) /\ A \cap B = {}
      /\ f \in [S -> A] /\ g \in [T -> B]
  OBVIOUS
<1>. HIDE DEF A, B
<1>2. IsFiniteSet(1 .. n) /\ Cardinality(1 .. n) = n
  BY FS_Interval
<1>3. IsFiniteSet(A) /\ IsFiniteSet(B)
  BY <1>1, <1>2, FS_Subset
<1>4. Cardinality(S) \in Nat /\ Cardinality(A) \in Nat /\ Cardinality(S) <= Cardinality(A)
  BY <1>1, <1>3, NumberedApart
<1>5. Cardinality(T) \in Nat /\ Cardinality(B) \in Nat /\ Cardinality(T) <= Cardinality(B)
  BY <1>1, <1>3, NumberedApart
<1>6. Cardinality(A \cup B) = Cardinality(A) + Cardinality(B) - Cardinality(A \cap B)
  BY <1>3, FS_Union
<1>7. Cardinality(A \cap B) = 0
  BY <1>1, FS_EmptySet
<1>8. Cardinality(A \cup B) <= n
  <2>1. A \cup B \in SUBSET (1 .. n)
    BY <1>1
  <2>. QED
    BY <1>2, <2>1, FS_Subset
<1>. QED
  BY <1>4, <1>5, <1>6, <1>7, <1>8

(* The e-mails sent and still to be sent of an occurrence are no more than *)
(* its submissions, whatever double taps, resubmissions and restarts did.  *)
THEOREM OneMail == FlowSpec => []OneMailPerSubmission
<1>1. FlowInv => OneMailPerSubmission
  <2> SUFFICES ASSUME FlowInv, NEW p \in Occurrences
               PROVE  Cardinality({m \in mails : m.of = p})
                         + Cardinality({n \in notices : n.of = p}) <= rounds[p]
    BY DEF OneMailPerSubmission
  <2> DEFINE sent == {m \in mails : m.of = p}
             due == {n \in notices : n.of = p}
             number == [a \in sent |-> a.no]
             claim == [a \in due |-> a.no]
  <2>1. rounds[p] \in Nat
    BY TapsAreCounted DEF FlowInv, Announced
  <2>2. /\ \A a \in sent : a.no \in 1 .. rounds[p] /\ \A b \in sent : a.no = b.no => a = b
        /\ \A a \in due : a.no \in 1 .. rounds[p] /\ \A b \in due : a.no = b.no => a = b
        /\ \A a \in sent, b \in due : a.no # b.no
    <3>1. \A a \in sent : a.no \in 1 .. rounds[p] /\ \A b \in sent : a.no = b.no => a = b
      BY <2>1 DEF FlowInv, Announced, Mail
    <3>2. \A a \in due : a.no \in 1 .. rounds[p] /\ \A b \in due : a.no = b.no => a = b
      BY <2>1 DEF FlowInv, Announced, Announcement
    <3>3. \A a \in sent, b \in due : a.no # b.no
      BY DEF FlowInv, Announced
    <3>. QED
      BY <3>1, <3>2, <3>3
  <2>3. /\ number \in [sent -> 1 .. rounds[p]] /\ \A x, y \in sent : number[x] = number[y] => x = y
        /\ claim \in [due -> 1 .. rounds[p]] /\ \A x, y \in due : claim[x] = claim[y] => x = y
        /\ \A x \in sent, y \in due : number[x] # claim[y]
    BY <2>2
  <2>. HIDE DEF sent, due, number, claim
  <2>4. Cardinality(sent) + Cardinality(due) <= rounds[p]
    BY <2>1, <2>3, TogetherNumberedApart
  <2>. QED
    BY <2>4 DEF sent, due
<1>. QED
  BY <1>1, FlowInvariant, PTL
=============================================================================
