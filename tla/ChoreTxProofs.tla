---------------------------- MODULE ChoreTxProofs ----------------------------
(***************************************************************************)
(* Proofs about ChoreTx: whatever number of transactions run at once, on   *)
(* any assignments and dates, in any order of their statements and of the  *)
(* rows these visit, with any aborts, what they commit is what the board   *)
(* promises.                                                               *)
(***************************************************************************)
EXTENDS ChoreTx, TLAPS

Ones == {"tap", "approve", "reject", "reset"}

(* A task is about a row exactly when its kind is about one row.           *)
TaskShape ==
    \A t \in Tx :
        /\ task[t].kind = "none" <=> task[t].pc = "idle"
        /\ task[t].kind \in Ones => task[t].target \in Rows
        /\ task[t].kind \notin Ones => task[t].target = NoRow
        /\ task[t].kind = "ensure" => task[t].pc = "visit"

(* The idle hold no lock; who decides on a row holds its lock, and locks   *)
(* or still visits other rows only for the cascade of an approval.         *)
LocksFollowTasks ==
    \A t \in Tx :
        /\ \A p \in Rows : owner[p] = t => task[t].kind # "none"
        /\ task[t].kind \in Ones =>
              /\ owner[task[t].target] = t
              /\ task[t].pc = "open" => draft[task[t].target] = "approved"
              /\ \A p \in Rows :
                    p \in task[t].todo \/ (owner[p] = t /\ p # task[t].target) =>
                       /\ Older(p, task[t].target)
                       /\ draft[task[t].target] = "approved"

Touched(t) == {p \in Rows : p \in task[t].todo \/ owner[p] = t}

(* A generation is of one date.                                            *)
OneDate ==
    \A t \in Tx : task[t].kind = "ensure" =>
        \A p, q \in Touched(t) : p[2] = q[2]

(* Only an approval whose second statement runs misses anything.           *)
MissedByCascades == \A p \in Rows : missed[p] # {} => Resolving(p)

LockInv == TypeOK /\ TaskShape /\ LocksFollowTasks /\ DraftsFollowRows /\ OneDate

-----------------------------------------------------------------------------
LEMMA FromIsOfOnes ==
    /\ DOMAIN From = Ones
    /\ \A k \in Ones : From[k] \subseteq Unresolved
BY DEF From, Ones, Unresolved

LEMMA StatusesAreWritten ==
    /\ \A k \in Ones, d \in Defs : To(k, d) \in Status
    /\ \A k \in Kinds : Outcome(k) \in Status
    /\ \A k \in Ones, d \in Defs :
         To(k, d) = "approved" => k \in {"tap", "approve"}
BY DEF To, Outcome, Status, Unresolved, Ones, Kinds

LEMMA InitLocks == Init => LockInv /\ MissedByCascades /\ CascadeMissesNothing
<1> SUFFICES ASSUME Init PROVE LockInv /\ MissedByCascades /\ CascadeMissesNothing
  OBVIOUS
<1>1. \A t \in Tx : task[t] = Idle
  BY DEF Init
<1>2. \A p \in Rows : owner[p] = Free /\ Free \notin Tx
  BY FreeIsNoTx DEF Init
<1>3. Idle \in Task
  BY DEF Idle, Task
<1>4. TypeOK
  BY <1>3 DEF Init, TypeOK, Status
<1>5. TaskShape /\ LocksFollowTasks /\ DraftsFollowRows /\ OneDate
  BY <1>1, <1>2 DEF TaskShape, LocksFollowTasks, DraftsFollowRows, OneDate, Idle, Ones
<1>6. MissedByCascades /\ CascadeMissesNothing
  BY <1>2 DEF Init, MissedByCascades, CascadeMissesNothing, Resolving
<1> QED BY <1>4, <1>5, <1>6 DEF LockInv

-----------------------------------------------------------------------------
(* Generations touch no more rows than they did, and none begins.          *)
NoNewDates ==
    \A u \in Tx : task'[u].kind = "ensure" =>
       task[u].kind = "ensure" /\ Touched(u)' \subseteq Touched(u)

LEMMA SameDate == OneDate /\ NoNewDates => OneDate'
BY DEF OneDate, NoNewDates

(* What the steps do to the task of t and to the locks, in the terms the   *)
(* invariants are stated in.                                               *)
LEMMA FirstKeeps ==
    ASSUME LockInv, NEW t \in Tx, NEW k \in DOMAIN From, NEW p \in Rows, First(t, k, p)
    PROVE  LockInv' /\ NoNewDates
<1> USE DEF LockInv
<1>1. k \in Ones /\ p[1] \in Defs
  BY FromIsOfOnes DEF Rows
<1>2. task[t] = Idle /\ owner[p] = Free /\ row[p] \in From[k]
  BY DEF First
<1>3. /\ owner' = [owner EXCEPT ![p] = t]
      /\ draft' = [draft EXCEPT ![p] = To(k, p[1])]
      /\ UNCHANGED <<active, deleter, row, missed>>
  BY DEF First
<1> DEFINE now == Doing(IF To(k, p[1]) = "approved" THEN "open" ELSE "visit", k, p, {})
<1>4. task' = [task EXCEPT ![t] = now]
  BY DEF First
<1>5. now \in Task
  BY <1>1 DEF Doing, Task, Ones, Kinds
<1>6. TypeOK'
  BY <1>1, <1>3, <1>4, <1>5, StatusesAreWritten DEF TypeOK
<1>7. /\ task'[t] = now /\ \A u \in Tx : u # t => task'[u] = task[u]
      /\ owner'[p] = t /\ draft'[p] = To(k, p[1])
      /\ \A q \in Rows : q # p => owner'[q] = owner[q] /\ draft'[q] = draft[q]
  BY <1>3, <1>4 DEF TypeOK
<1>8. /\ now.kind = k /\ now.target = p /\ now.todo = {}
      /\ now.pc = IF To(k, p[1]) = "approved" THEN "open" ELSE "visit"
  BY DEF Doing
<1>9. \A q \in Rows : owner[q] # t
  BY <1>2 DEF LocksFollowTasks, Idle
<1>10. TaskShape'
  BY <1>1, <1>7, <1>8 DEF TaskShape, Ones
<1>11. ASSUME NEW u \in Tx, u # t
       PROVE  \A q \in Rows : owner'[q] = u <=> owner[q] = u
  BY <1>2, <1>7, <1>11, FreeIsNoTx
<1>12. LocksFollowTasks'
  <2> SUFFICES ASSUME NEW u \in Tx
               PROVE  /\ \A q \in Rows : owner'[q] = u => task'[u].kind # "none"
                      /\ task'[u].kind \in Ones =>
                            /\ owner'[task'[u].target] = u
                            /\ task'[u].pc = "open" => draft'[task'[u].target] = "approved"
                            /\ \A q \in Rows :
                                  q \in task'[u].todo \/ (owner'[q] = u /\ q # task'[u].target) =>
                                     /\ Older(q, task'[u].target)
                                     /\ draft'[task'[u].target] = "approved"
    BY DEF LocksFollowTasks
  <2>1. CASE u = t
    BY <2>1, <1>1, <1>7, <1>8, <1>9 DEF Ones
  <2>2. CASE u # t
    <3>1. task'[u] = task[u]
      BY <2>2, <1>7
    <3>2. task[u].kind \in Ones => task[u].target \in Rows /\ task[u].target # p
      BY <1>2, FreeIsNoTx DEF TaskShape, LocksFollowTasks
    <3> QED BY <3>1, <3>2, <2>2, <1>7, <1>11 DEF LocksFollowTasks
  <2> QED BY <2>1, <2>2
<1>13. DraftsFollowRows'
  <2> SUFFICES ASSUME NEW q \in Rows, owner'[q] # Free
               PROVE  IF task'[owner'[q]].target = q
                      THEN /\ row[q] \in From[task'[owner'[q]].kind]
                           /\ draft'[q] = To(task'[owner'[q]].kind, q[1])
                      ELSE /\ Touches(task'[owner'[q]].kind, row[q])
                           /\ draft'[q] = Outcome(task'[owner'[q]].kind)
    BY <1>3 DEF DraftsFollowRows
  <2>1. CASE q = p
    BY <2>1, <1>2, <1>7, <1>8
  <2>2. CASE q # p
    <3>1. owner'[q] = owner[q] /\ draft'[q] = draft[q] /\ owner[q] \in Tx /\ owner[q] # t
      BY <2>2, <1>7, <1>9 DEF TypeOK
    <3>2. task'[owner[q]] = task[owner[q]]
      BY <3>1, <1>7
    <3> QED BY <3>1, <3>2 DEF DraftsFollowRows
  <2> QED BY <2>1, <2>2
<1>14. NoNewDates
  <2> SUFFICES ASSUME NEW u \in Tx, task'[u].kind = "ensure"
               PROVE  task[u].kind = "ensure" /\ Touched(u)' \subseteq Touched(u)
    BY DEF NoNewDates
  <2>1. u # t
    BY <1>1, <1>7, <1>8 DEF Ones
  <2>2. task'[u] = task[u] /\ Touched(u)' = Touched(u)
    BY <2>1, <1>7, <1>11 DEF Touched
  <2> QED BY <2>2
<1> QED BY <1>6, <1>10, <1>12, <1>13, <1>14, SameDate

(* Steps that change no row, lock or draft, nor what any task is about.    *)
LEMMA SameDrafts ==
    ASSUME TypeOK, DraftsFollowRows, UNCHANGED <<row, owner, draft>>,
           \A u \in Tx : task'[u].kind = task[u].kind /\ task'[u].target = task[u].target
    PROVE  DraftsFollowRows'
<1> SUFFICES ASSUME NEW q \in Rows, owner[q] # Free
             PROVE  LET w == task'[owner[q]] IN
                    IF w.target = q THEN row[q] \in From[w.kind] /\ draft[q] = To(w.kind, q[1])
                                    ELSE Touches(w.kind, row[q]) /\ draft[q] = Outcome(w.kind)
  BY DEF DraftsFollowRows
<1>1. owner[q] \in Tx
  BY DEF TypeOK
<1>2. /\ task'[owner[q]].kind = task[owner[q]].kind
      /\ task'[owner[q]].target = task[owner[q]].target
  BY <1>1
<1> QED BY <1>2 DEF DraftsFollowRows

LEMMA DeactivateKeeps ==
    ASSUME LockInv, NEW t \in Tx, NEW ds \in Deletions, FirstDeactivate(t, ds)
    PROVE  LockInv' /\ NoNewDates
<1> USE DEF LockInv
<1> DEFINE now == Doing("open", "deactivate", NoRow, {})
<1>1. /\ task[t] = Idle /\ task' = [task EXCEPT ![t] = now]
      /\ deleter' = [d \in Defs |-> IF d \in ds THEN t ELSE deleter[d]]
      /\ UNCHANGED <<active, row, owner, draft, missed>>
  BY DEF FirstDeactivate
<1>2. now \in Task
  BY DEF Doing, Task, Kinds
<1>3. TypeOK'
  BY <1>1, <1>2 DEF TypeOK
<1>4. /\ task'[t] = now /\ \A u \in Tx : u # t => task'[u] = task[u]
      /\ now.pc = "open" /\ now.kind = "deactivate" /\ now.target = NoRow
  BY <1>1 DEF TypeOK, Doing
<1>5. \A q \in Rows : owner[q] # t
  BY <1>1 DEF LocksFollowTasks, Idle
<1>6. TaskShape'
  BY <1>4 DEF TaskShape, Ones
<1>7. LocksFollowTasks'
  BY <1>1, <1>4, <1>5 DEF LocksFollowTasks, Ones
<1>8. DraftsFollowRows'
  BY <1>1, <1>4, <1>5 DEF DraftsFollowRows, TypeOK
<1>9. NoNewDates
  BY <1>1, <1>4 DEF NoNewDates, Touched
<1> QED BY <1>3, <1>6, <1>7, <1>8, <1>9, SameDate

LEMMA EnsureKeeps ==
    ASSUME LockInv, NEW t \in Tx, NEW e \in Days, Ensure(t, e)
    PROVE  LockInv'
<1> USE DEF LockInv
<1> DEFINE found == {d \in Defs : active[d]} \X {e}
           now == Doing("visit", "ensure", NoRow, found)
<1>1. /\ task[t] = Idle /\ task' = [task EXCEPT ![t] = now]
      /\ UNCHANGED <<active, deleter, row, owner, draft, missed>>
  BY DEF Ensure
<1>2. found \subseteq Rows /\ \A p \in found : p[2] = e
  BY DEF Rows
<1>3. now \in Task
  BY <1>2 DEF Doing, Task, Kinds
<1>4. TypeOK'
  BY <1>1, <1>3 DEF TypeOK
<1>5. /\ task'[t] = now /\ \A u \in Tx : u # t => task'[u] = task[u]
      /\ now.pc = "visit" /\ now.kind = "ensure" /\ now.target = NoRow
      /\ now.todo = found
  BY <1>1 DEF TypeOK, Doing
<1>6. \A q \in Rows : owner[q] # t
  BY <1>1 DEF LocksFollowTasks, Idle
<1>7. TaskShape'
  BY <1>5 DEF TaskShape, Ones
<1>8. LocksFollowTasks'
  BY <1>1, <1>5, <1>6 DEF LocksFollowTasks, Ones
<1>9. DraftsFollowRows'
  BY <1>1, <1>5, <1>6 DEF DraftsFollowRows, TypeOK
<1>10. OneDate'
  BY <1>1, <1>2, <1>5, <1>6 DEF OneDate, Touched
<1> QED BY <1>4, <1>7, <1>8, <1>9, <1>10

(* The second statement of an approval or a deletion starts.               *)
LEMMA SecondKeeps ==
    ASSUME LockInv, NEW t \in Tx, Second(t)
    PROVE  LockInv' /\ NoNewDates
<1> USE DEF LockInv
<1>1. /\ task[t].pc = "open"
      /\ task' = [task EXCEPT ![t].pc = "visit", ![t].todo = Found(t)]
      /\ UNCHANGED <<active, deleter, row, owner, draft, missed>>
  BY DEF Second
<1>u. UNCHANGED <<active, deleter, row, owner, draft, missed>>
  BY <1>1
<1>2. Found(t) \subseteq Rows /\ task[t] \in Task
  BY DEF Found, TypeOK
<1>o. \A u \in Tx : u # t => task'[u] = task[u]
  BY <1>1 DEF TypeOK
<1>3. task'[t] = [task[t] EXCEPT !.pc = "visit", !.todo = Found(t)]
  BY <1>1 DEF TypeOK
<1>4. /\ task'[t].pc = "visit" /\ task'[t].todo = Found(t)
      /\ task'[t].kind = task[t].kind /\ task'[t].target = task[t].target
      /\ task'[t] \in Task
  BY <1>2, <1>3 DEF Task
<1>k. \A u \in Tx : task'[u].kind = task[u].kind /\ task'[u].target = task[u].target
  BY <1>o, <1>4
<1>5. TypeOK'
  BY <1>1, <1>o, <1>4 DEF TypeOK
<1>6. task[t].kind # "ensure" /\ task[t].kind # "none"
  BY <1>1 DEF TaskShape
<1>7. TaskShape'
  BY <1>o, <1>4, <1>6 DEF TaskShape
<1>8. ASSUME task[t].kind \in Ones, NEW p \in Found(t)
      PROVE  Older(p, task[t].target)
  BY <1>8 DEF Found, Older, Ones
<1>9. LocksFollowTasks'
  <2>1. \A u \in Tx, p \in Rows : owner'[p] = u => task'[u].kind # "none"
    BY <1>1, <1>k DEF LocksFollowTasks
  <2>2. ASSUME task[t].kind \in Ones
        PROVE  /\ owner[task[t].target] = t
               /\ draft[task[t].target] = "approved"
               /\ \A p \in Rows : owner[p] = t /\ p # task[t].target =>
                                    Older(p, task[t].target)
    BY <2>2, <1>1 DEF LocksFollowTasks
  <2>3. ASSUME NEW u \in Tx, task[u].kind \in Ones
        PROVE  /\ owner'[task'[u].target] = u
               /\ task'[u].pc = "open" => draft'[task'[u].target] = "approved"
               /\ \A p \in Rows :
                     p \in task'[u].todo \/ (owner'[p] = u /\ p # task'[u].target) =>
                        /\ Older(p, task'[u].target)
                        /\ draft'[task'[u].target] = "approved"
    <3>1. CASE u = t
      BY <3>1, <2>2, <2>3, <1>u, <1>4, <1>8
    <3>2. CASE u # t
      BY <3>2, <2>3, <1>u, <1>o DEF LocksFollowTasks
    <3> QED BY <3>1, <3>2
  <2> QED BY <2>1, <2>3, <1>k DEF LocksFollowTasks
<1>10. DraftsFollowRows'
  <2>1. UNCHANGED <<row, owner, draft>>
    BY <1>u
  <2> HIDE DEF LockInv
  <2>2. TypeOK /\ DraftsFollowRows
    BY DEF LockInv
  <2> QED BY <2>1, <2>2, <1>k, SameDrafts
<1>11. NoNewDates
  <2>1. ASSUME NEW u \in Tx, task'[u].kind = "ensure"
        PROVE  task[u].kind = "ensure" /\ Touched(u)' \subseteq Touched(u)
    BY <2>1, <1>u, <1>o, <1>4, <1>6 DEF Touched
  <2> QED BY <2>1 DEF NoNewDates
<1> QED BY <1>5, <1>7, <1>9, <1>10, <1>11, SameDate

LEMMA WaitKeeps ==
    ASSUME LockInv, NEW t \in Tx, NEW p \in Rows, Wait(t, p)
    PROVE  /\ LockInv' /\ NoNewDates
           /\ \A u \in Tx : /\ task'[u].todo = task[u].todo
                            /\ task'[u].kind = task[u].kind
                            /\ task'[u].pc = task[u].pc
                            /\ task'[u].target = task[u].target
<1> USE DEF LockInv
<1>1. /\ task' = [task EXCEPT ![t].want = p]
      /\ UNCHANGED <<active, deleter, row, owner, draft, missed>>
  BY DEF Wait
<1>2. /\ task'[t] = [task[t] EXCEPT !.want = p] /\ task[t] \in Task
      /\ \A u \in Tx : u # t => task'[u] = task[u]
  BY <1>1 DEF TypeOK
<1>3. task'[t] \in Task
  BY <1>2 DEF Task
<1>4. \A u \in Tx : /\ task'[u].todo = task[u].todo /\ task'[u].kind = task[u].kind
                    /\ task'[u].pc = task[u].pc /\ task'[u].target = task[u].target
  BY <1>2 DEF Task
<1>5. TypeOK'
  BY <1>1, <1>2, <1>3 DEF TypeOK
<1>6. TaskShape' /\ LocksFollowTasks' /\ NoNewDates
  BY <1>1, <1>4 DEF TaskShape, LocksFollowTasks, NoNewDates, Touched
<1>7. DraftsFollowRows'
  BY <1>1, <1>4, SameDrafts
<1> QED BY <1>4, <1>5, <1>6, <1>7, SameDate

(* What a statement does when it reaches a row.                            *)
LEMMA VisitEffect ==
    ASSUME LockInv, NEW t \in Tx, NEW p \in Rows, Visit(t, p)
    PROVE  /\ task[t].pc = "visit" /\ p \in task[t].todo /\ owner[p] = Free
           /\ UNCHANGED <<active, deleter, row, missed>>
           /\ \A u \in Tx : u # t => task'[u] = task[u]
           /\ task'[t] \in Task /\ task'[t].todo = task[t].todo \ {p}
           /\ \A u \in Tx : /\ task'[u].kind = task[u].kind
                            /\ task'[u].target = task[u].target
                            /\ task'[u].pc = task[u].pc
           /\ \A q \in Rows : q # p => owner'[q] = owner[q] /\ draft'[q] = draft[q]
           /\ Touches(task[t].kind, row[p]) /\ Sees(t, p) =>
                 owner'[p] = t /\ draft'[p] = Outcome(task[t].kind)
           /\ ~(Touches(task[t].kind, row[p]) /\ Sees(t, p)) =>
                 owner'[p] = Free /\ draft'[p] = draft[p]
           /\ owner' \in [Rows -> Tx \cup {Free}] /\ draft' \in [Rows -> Status]
<1> USE DEF LockInv
<1>1. /\ task[t].pc = "visit" /\ p \in task[t].todo /\ owner[p] = Free
      /\ task' = [task EXCEPT ![t].todo = @ \ {p}, ![t].want = NoRow]
      /\ UNCHANGED <<active, deleter, row, missed>>
  BY DEF Visit
<1>2. /\ task[t] \in Task /\ owner \in [Rows -> Tx \cup {Free}]
      /\ draft \in [Rows -> Status]
  BY DEF TypeOK
<1>3. \A u \in Tx : u # t => task'[u] = task[u]
  BY <1>1 DEF TypeOK
<1>4. task'[t] = [task[t] EXCEPT !.todo = @ \ {p}, !.want = NoRow]
  BY <1>1 DEF TypeOK
<1>5. /\ task'[t] \in Task /\ task'[t].todo = task[t].todo \ {p}
      /\ task'[t].kind = task[t].kind /\ task'[t].target = task[t].target
      /\ task'[t].pc = task[t].pc
  BY <1>2, <1>4 DEF Task
<1>k. /\ task[t].pc = "visit" /\ p \in task[t].todo /\ owner[p] = Free
      /\ UNCHANGED <<active, deleter, row, missed>>
      /\ \A u \in Tx : /\ task'[u].kind = task[u].kind
                       /\ task'[u].target = task[u].target
                       /\ task'[u].pc = task[u].pc
  BY <1>1, <1>3, <1>5
<1>6. ASSUME Touches(task[t].kind, row[p]), Sees(t, p)
      PROVE  /\ owner'[p] = t /\ draft'[p] = Outcome(task[t].kind)
             /\ \A q \in Rows : q # p => owner'[q] = owner[q] /\ draft'[q] = draft[q]
             /\ owner' \in [Rows -> Tx \cup {Free}] /\ draft' \in [Rows -> Status]
  <2>1. /\ owner' = [owner EXCEPT ![p] = t]
        /\ draft' = [draft EXCEPT ![p] = Outcome(task[t].kind)]
    BY <1>6 DEF Visit
  <2>2. Outcome(task[t].kind) \in Status
    <3>1. task[t].kind \in Kinds
      BY <1>1, <1>2 DEF TaskShape, Task
    <3> QED BY <3>1, StatusesAreWritten
  <2> HIDE DEF LockInv
  <2>3. owner \in [Rows -> Tx \cup {Free}] /\ draft \in [Rows -> Status]
    BY <1>2
  <2> QED BY <2>1, <2>2, <2>3
<1>7. ASSUME ~(Touches(task[t].kind, row[p]) /\ Sees(t, p))
      PROVE  /\ owner'[p] = Free /\ draft'[p] = draft[p]
             /\ \A q \in Rows : q # p => owner'[q] = owner[q] /\ draft'[q] = draft[q]
             /\ owner' \in [Rows -> Tx \cup {Free}] /\ draft' \in [Rows -> Status]
  <2>1. UNCHANGED <<owner, draft>>
    BY <1>7 DEF Visit
  <2>2. owner[p] = Free
    BY <1>1
  <2> HIDE DEF LockInv
  <2> QED BY <2>1, <2>2, <1>2
<1>8. task'[t] \in Task /\ task'[t].todo = task[t].todo \ {p}
  BY <1>5
<1> HIDE DEF LockInv
<1> QED BY <1>k, <1>3, <1>6, <1>7, <1>8

LEMMA VisitKeeps ==
    ASSUME LockInv, NEW t \in Tx, NEW p \in Rows, Visit(t, p)
    PROVE  LockInv' /\ NoNewDates
<1> USE DEF LockInv
<1>1. /\ task[t].pc = "visit" /\ p \in task[t].todo /\ owner[p] = Free /\ Free \notin Tx
      /\ UNCHANGED <<active, deleter, row, missed>>
  BY VisitEffect, FreeIsNoTx
<1>2. /\ \A u \in Tx : u # t => task'[u] = task[u]
      /\ task'[t] \in Task /\ task'[t].todo = task[t].todo \ {p}
      /\ \A u \in Tx : /\ task'[u].kind = task[u].kind
                       /\ task'[u].target = task[u].target
                       /\ task'[u].pc = task[u].pc
  BY VisitEffect
<1>3. /\ \A q \in Rows : q # p => owner'[q] = owner[q] /\ draft'[q] = draft[q]
      /\ owner'[p] \in {t, Free}
      /\ owner'[p] = t => /\ Touches(task[t].kind, row[p])
                          /\ draft'[p] = Outcome(task[t].kind)
  BY VisitEffect, FreeIsNoTx
<1>4. owner' \in [Rows -> Tx \cup {Free}] /\ draft' \in [Rows -> Status]
  BY VisitEffect
<1>5. TypeOK'
  <2>1. task' \in [Tx -> Task]
    BY <1>2 DEF TypeOK, Visit
  <2> QED BY <1>1, <1>4, <2>1 DEF TypeOK
<1>6. TaskShape'
  BY <1>2 DEF TaskShape
<1>7. ASSUME NEW u \in Tx, task[u].kind \in Ones
      PROVE  /\ task[u].target \in Rows /\ task[u].target # p
             /\ owner'[task[u].target] = u
             /\ draft'[task[u].target] = draft[task[u].target]
  BY <1>1, <1>3, <1>7 DEF TaskShape, LocksFollowTasks
<1>8. LocksFollowTasks'
  <2>1. ASSUME NEW u \in Tx, NEW q \in Rows, owner'[q] = u
        PROVE  task'[u].kind # "none"
    <3>1. CASE q = p
      BY <3>1, <2>1, <1>1, <1>2, <1>3 DEF TaskShape
    <3>2. CASE q # p
      BY <3>2, <2>1, <1>2, <1>3 DEF LocksFollowTasks
    <3> QED BY <3>1, <3>2
  <2>2. ASSUME NEW u \in Tx, task[u].kind \in Ones, NEW q \in Rows,
               q \in task'[u].todo \/ (owner'[q] = u /\ q # task[u].target)
        PROVE  Older(q, task[u].target) /\ draft[task[u].target] = "approved"
    <3>1. q \in task[u].todo \/ (owner[q] = u /\ q # task[u].target)
      BY <2>2, <1>1, <1>2, <1>3
    <3> QED BY <3>1, <2>2 DEF LocksFollowTasks
  <2>3. ASSUME NEW u \in Tx, task[u].kind \in Ones, task[u].pc = "open"
        PROVE  draft[task[u].target] = "approved"
    BY <2>3 DEF LocksFollowTasks
  <2> QED BY <2>1, <2>2, <2>3, <1>2, <1>7 DEF LocksFollowTasks
<1>9. DraftsFollowRows'
  <2> SUFFICES ASSUME NEW q \in Rows, owner'[q] # Free
               PROVE  LET w == task'[owner'[q]] IN
                      IF w.target = q
                      THEN row[q] \in From[w.kind] /\ draft'[q] = To(w.kind, q[1])
                      ELSE Touches(w.kind, row[q]) /\ draft'[q] = Outcome(w.kind)
    BY <1>1 DEF DraftsFollowRows
  <2>1. CASE q = p
    <3>1. owner'[q] = t /\ Touches(task[t].kind, row[p])
          /\ draft'[p] = Outcome(task[t].kind)
      BY <2>1, <1>3
    <3>2. task[t].target # p
      BY <1>7, NoRowIsNoRow DEF TaskShape, Rows
    <3> QED BY <2>1, <3>1, <3>2, <1>2
  <2>2. CASE q # p
    <3>1. owner'[q] = owner[q] /\ draft'[q] = draft[q] /\ owner[q] \in Tx
      BY <2>2, <1>3 DEF TypeOK
    <3>2. /\ task'[owner[q]].kind = task[owner[q]].kind
          /\ task'[owner[q]].target = task[owner[q]].target
      BY <3>1, <1>2
    <3> QED BY <3>1, <3>2 DEF DraftsFollowRows
  <2> QED BY <2>1, <2>2
<1>10. NoNewDates
  <2>1. ASSUME NEW u \in Tx
        PROVE  Touched(u)' \subseteq Touched(u)
    BY <1>1, <1>2, <1>3 DEF Touched
  <2> QED BY <2>1, <1>2 DEF NoNewDates
<1> QED BY <1>5, <1>6, <1>8, <1>9, <1>10, SameDate

(* The end of a transaction: its locks go, and only rows it held change.   *)
LEMMA ReleaseKeeps ==
    ASSUME LockInv, NEW t \in Tx, Release(t),
           active' \in [Defs -> BOOLEAN], row' \in [Rows -> Status],
           missed' \in [Rows -> SUBSET Days],
           \A q \in Rows : owner[q] # t => row'[q] = row[q]
    PROVE  LockInv' /\ NoNewDates
<1> USE DEF LockInv
<1>1. /\ owner' = [q \in Rows |-> IF owner[q] = t THEN Free ELSE owner[q]]
      /\ draft' = [q \in Rows |-> IF owner[q] = t THEN "none" ELSE draft[q]]
      /\ deleter' = [d \in Defs |-> IF deleter[d] = t THEN Free ELSE deleter[d]]
      /\ task' = [task EXCEPT ![t] = Idle]
  BY DEF Release
<1>2. Idle \in Task
  BY DEF Idle, Task
<1>3. TypeOK'
  BY <1>1, <1>2 DEF TypeOK, Status
<1>4. /\ \A u \in Tx : u # t => task'[u] = task[u]
      /\ task'[t] = Idle /\ Free \notin Tx
      /\ \A q \in Rows : owner'[q] # t
      /\ \A q \in Rows : owner[q] # t => owner'[q] = owner[q] /\ draft'[q] = draft[q]
      /\ \A q \in Rows, u \in Tx : owner'[q] = u => owner[q] = u /\ u # t
  BY <1>1, FreeIsNoTx DEF TypeOK
<1>5. Idle.kind = "none" /\ Idle.pc = "idle" /\ Idle.target = NoRow /\ Idle.todo = {}
  BY DEF Idle
<1>6. TaskShape'
  BY <1>4, <1>5 DEF TaskShape, Ones
<1>7. LocksFollowTasks'
  <2>1. ASSUME NEW u \in Tx, NEW q \in Rows, owner'[q] = u
        PROVE  task'[u].kind # "none"
    BY <2>1, <1>4 DEF LocksFollowTasks
  <2>2. ASSUME NEW u \in Tx, task'[u].kind \in Ones
        PROVE  /\ u # t /\ task'[u] = task[u] /\ task[u].target \in Rows
               /\ owner[task[u].target] = u /\ owner'[task[u].target] = u
               /\ draft'[task[u].target] = draft[task[u].target]
    <3>1. u # t /\ task'[u] = task[u]
      BY <2>2, <1>4, <1>5 DEF Ones
    <3>2. task[u].target \in Rows /\ owner[task[u].target] = u
      BY <2>2, <3>1 DEF TaskShape, LocksFollowTasks
    <3> QED BY <3>1, <3>2, <1>4
  <2>3. ASSUME NEW u \in Tx, task'[u].kind \in Ones, NEW q \in Rows,
               q \in task'[u].todo \/ (owner'[q] = u /\ q # task'[u].target)
        PROVE  Older(q, task[u].target) /\ draft[task[u].target] = "approved"
    BY <2>2, <2>3, <1>4 DEF LocksFollowTasks
  <2>4. ASSUME NEW u \in Tx, task'[u].kind \in Ones, task'[u].pc = "open"
        PROVE  draft[task[u].target] = "approved"
    BY <2>2, <2>4 DEF LocksFollowTasks
  <2> QED BY <2>1, <2>2, <2>3, <2>4 DEF LocksFollowTasks
<1>8. DraftsFollowRows'
  <2> SUFFICES ASSUME NEW q \in Rows, owner'[q] # Free
               PROVE  LET w == task'[owner'[q]] IN
                      IF w.target = q
                      THEN row'[q] \in From[w.kind] /\ draft'[q] = To(w.kind, q[1])
                      ELSE Touches(w.kind, row'[q]) /\ draft'[q] = Outcome(w.kind)
    BY DEF DraftsFollowRows
  <2>1. /\ owner'[q] = owner[q] /\ owner[q] \in Tx \ {t} /\ draft'[q] = draft[q]
        /\ row'[q] = row[q]
    BY <1>1, <1>4 DEF TypeOK
  <2>2. task'[owner[q]] = task[owner[q]]
    BY <2>1, <1>4
  <2> QED BY <2>1, <2>2 DEF DraftsFollowRows
<1>9. NoNewDates
  <2>1. ASSUME NEW u \in Tx, task'[u].kind = "ensure"
        PROVE  task[u].kind = "ensure" /\ Touched(u)' \subseteq Touched(u)
    <3>1. u # t /\ task'[u] = task[u]
      BY <2>1, <1>4, <1>5
    <3> QED BY <2>1, <3>1, <1>4 DEF Touched
  <2> QED BY <2>1 DEF NoNewDates
<1> QED BY <1>3, <1>6, <1>7, <1>8, <1>9, SameDate

-----------------------------------------------------------------------------
(* A commit writes the drafts; whoever fills an empty row is a generation. *)
LEMMA CommitEffect ==
    ASSUME LockInv, NEW t \in Tx, Commit(t)
    PROVE  /\ Release(t) /\ task[t].pc = "visit" /\ task[t].todo = {}
           /\ active' \in [Defs -> BOOLEAN] /\ row' \in [Rows -> Status]
           /\ missed' \in [Rows -> SUBSET Days]
           /\ \A q \in Rows : row'[q] = IF owner[q] = t THEN draft[q] ELSE row[q]
           /\ \A q \in Rows :
                 missed'[q] = IF owner[q] = t THEN {} ELSE missed[q] \cup TooLate(t, q)
<1>1. \A q \in Rows : TooLate(t, q) \in SUBSET Days
  BY DEF TooLate
<1> QED BY <1>1 DEF LockInv, TypeOK, Commit

LEMMA EmptyRowsAreGenerated ==
    ASSUME LockInv, NEW t \in Tx, NEW q \in Rows, owner[q] = t, row[q] \notin Unresolved
    PROVE  task[t].kind = "ensure" /\ row[q] = "none" /\ q \in Touched(t)
<1>1. t # Free
  BY FreeIsNoTx
<1>2. task[t].target # q
  <2> SUFFICES ASSUME task[t].target = q PROVE FALSE
    OBVIOUS
  <2>1. task[t].kind \in Ones
    BY NoRowIsNoRow DEF LockInv, TaskShape, Rows
  <2>2. row[q] \in From[task[t].kind]
    BY <1>1 DEF LockInv, DraftsFollowRows
  <2> QED BY <2>1, <2>2, FromIsOfOnes
<1>3. Touches(task[t].kind, row[q])
  BY <1>1, <1>2 DEF LockInv, DraftsFollowRows
<1> QED BY <1>3 DEF Touches, Touched

(* The target of a decision stays as it was found until the commit.        *)
LEMMA TargetsAreOpen ==
    ASSUME LockInv, NEW u \in Tx, task[u].kind \in Ones
    PROVE  /\ task[u].target \in Rows /\ owner[task[u].target] = u
           /\ row[task[u].target] \in From[task[u].kind]
           /\ row[task[u].target] \in Unresolved
           /\ draft[task[u].target] = To(task[u].kind, task[u].target[1])
<1>1. task[u].target \in Rows /\ owner[task[u].target] = u /\ u # Free
  BY FreeIsNoTx DEF LockInv, TaskShape, LocksFollowTasks
<1>2. /\ row[task[u].target] \in From[task[u].kind]
      /\ draft[task[u].target] = To(task[u].kind, task[u].target[1])
  BY <1>1 DEF LockInv, DraftsFollowRows
<1> QED BY <1>1, <1>2, FromIsOfOnes

LEMMA AbortEffect ==
    ASSUME LockInv, NEW t \in Tx, Abort(t)
    PROVE  /\ Release(t) /\ row' = row
           /\ active' \in [Defs -> BOOLEAN] /\ row' \in [Rows -> Status]
           /\ missed' \in [Rows -> SUBSET Days]
           /\ \A q \in Rows : missed'[q] = IF owner[q] = t THEN {} ELSE missed[q]
BY DEF LockInv, TypeOK, Abort

LEMMA LockStep == LockInv /\ [Next]_vars => LockInv'
<1> SUFFICES ASSUME LockInv, [Next]_vars PROVE LockInv'
  OBVIOUS
<1>1. ASSUME NEW t \in Tx, NEW k \in DOMAIN From, NEW p \in Rows, First(t, k, p)
      PROVE  LockInv'
  BY <1>1, FirstKeeps
<1>2. ASSUME NEW t \in Tx, NEW ds \in Deletions, FirstDeactivate(t, ds)
      PROVE  LockInv'
  BY <1>2, DeactivateKeeps
<1>3. ASSUME NEW t \in Tx, NEW e \in Days, Ensure(t, e)
      PROVE  LockInv'
  BY <1>3, EnsureKeeps
<1>4. ASSUME NEW t \in Tx, Second(t)
      PROVE  LockInv'
  BY <1>4, SecondKeeps
<1>5. ASSUME NEW t \in Tx, NEW p \in Rows, Wait(t, p) \/ Visit(t, p)
      PROVE  LockInv'
  BY <1>5, WaitKeeps, VisitKeeps
<1>6. ASSUME NEW t \in Tx, Commit(t)
      PROVE  LockInv'
  BY <1>6, CommitEffect, ReleaseKeeps
<1>7. ASSUME NEW t \in Tx, Abort(t) \/ BreakDeadlock(t)
      PROVE  LockInv'
  <2>1. Abort(t)
    BY <1>7 DEF BreakDeadlock
  <2> QED BY <2>1, AbortEffect, ReleaseKeeps
<1>8. CASE UNCHANGED vars
  BY <1>8 DEF vars, LockInv, TypeOK, TaskShape, LocksFollowTasks, DraftsFollowRows,
              OneDate, Touched
<1> QED BY <1>1, <1>2, <1>3, <1>4, <1>5, <1>6, <1>7, <1>8 DEF Next, Step

-----------------------------------------------------------------------------
(* An approval whose second statement runs, seen from the transaction.     *)
Cascading(t) ==
    /\ task[t].pc = "visit" /\ task[t].kind \in {"tap", "approve"}
    /\ draft[task[t].target] = "approved"

LEMMA ResolvingIsCascading ==
    ASSUME LockInv, NEW p \in Rows, Resolving(p)
    PROVE  /\ owner[p] \in Tx /\ Cascading(owner[p]) /\ task[owner[p]].target = p
           /\ \/ row[p] = "pending_approval"
              \/ p[1] \in ParentAssigned /\ row[p] \in {"incomplete", "rejected"}
<1>1. /\ owner[p] \in Tx /\ task[owner[p]].target = p /\ task[owner[p]].pc = "visit"
      /\ draft[p] = "approved"
  BY DEF Resolving, LockInv, TypeOK
<1>2. task[owner[p]].kind \in Ones
  BY <1>1, NoRowIsNoRow DEF LockInv, TaskShape, Rows
<1>3. /\ row[p] \in From[task[owner[p]].kind]
      /\ To(task[owner[p]].kind, p[1]) = "approved"
  BY <1>1, <1>2, TargetsAreOpen
<1>4. \/ task[owner[p]].kind = "approve"
      \/ task[owner[p]].kind = "tap" /\ p[1] \in ParentAssigned
  BY <1>2, <1>3 DEF To, Ones
<1>5. \/ row[p] = "pending_approval"
      \/ p[1] \in ParentAssigned /\ row[p] \in {"incomplete", "rejected"}
  BY <1>3, <1>4 DEF From
<1> QED BY <1>1, <1>4, <1>5 DEF Cascading

LEMMA CascadingIsResolving ==
    ASSUME LockInv, NEW t \in Tx, Cascading(t)
    PROVE  Resolving(task[t].target) /\ task[t].target \in Rows /\ owner[task[t].target] = t
BY FreeIsNoTx, TargetsAreOpen DEF Cascading, Resolving, Ones

(* A row stays the target of an approval until its transaction ends.       *)
LEMMA StillResolving ==
    ASSUME NEW p \in Rows, Resolving(p), owner'[p] = owner[p], draft'[p] = draft[p],
           task'[owner[p]].target = task[owner[p]].target,
           task'[owner[p]].pc = task[owner[p]].pc
    PROVE  Resolving(p)'
BY DEF Resolving

LEMMA MissedStep ==
    ASSUME LockInv, MissedByCascades, [Next]_vars
    PROVE  MissedByCascades'
<1> USE DEF LockInv
<1>a. ASSUME NEW t \in Tx, task'[t].pc # "visit" \/ task[t].pc # "visit",
             task[t].pc # "visit", missed' = missed,
             \A u \in Tx : u # t => task'[u] = task[u],
             \A q \in Rows : owner[q] # Free => owner'[q] = owner[q] /\ draft'[q] = draft[q]
      PROVE  MissedByCascades'
  <2> SUFFICES ASSUME NEW q \in Rows, missed[q] # {} PROVE Resolving(q)'
    BY <1>a DEF MissedByCascades
  <2>1. Resolving(q)
    BY DEF MissedByCascades
  <2>2. owner[q] \in Tx /\ owner[q] # Free /\ owner[q] # t
    BY <1>a, <2>1 DEF Resolving, TypeOK
  <2> QED BY <1>a, <2>1, <2>2, StillResolving
<1>b. ASSUME missed' = missed,
             \A u \in Tx : task'[u].pc = task[u].pc /\ task'[u].target = task[u].target,
             \A q \in Rows : owner[q] # Free => owner'[q] = owner[q] /\ draft'[q] = draft[q]
      PROVE  MissedByCascades'
  <2> SUFFICES ASSUME NEW q \in Rows, missed[q] # {} PROVE Resolving(q)'
    BY <1>b DEF MissedByCascades
  <2>1. Resolving(q) /\ owner[q] \in Tx /\ owner[q] # Free
    BY DEF MissedByCascades, Resolving, TypeOK
  <2> QED BY <1>b, <2>1, StillResolving
<1>c. ASSUME NEW t \in Tx, Release(t),
             \A q \in Rows : missed'[q] # {} => owner[q] # t /\ Resolving(q)
      PROVE  MissedByCascades'
  <2> SUFFICES ASSUME NEW q \in Rows, missed'[q] # {} PROVE Resolving(q)'
    BY DEF MissedByCascades
  <2>1. Resolving(q) /\ owner[q] \in Tx /\ owner[q] # t
    BY <1>c DEF Resolving, TypeOK
  <2>2. task'[owner[q]] = task[owner[q]] /\ owner'[q] = owner[q] /\ draft'[q] = draft[q]
    BY <1>c, <2>1 DEF Release, TypeOK
  <2> QED BY <2>1, <2>2, StillResolving
<1>1. ASSUME NEW t \in Tx, NEW k \in DOMAIN From, NEW p \in Rows, First(t, k, p)
      PROVE  MissedByCascades'
  <2>1. /\ task[t] = Idle /\ owner[p] = Free /\ missed' = missed
        /\ \A u \in Tx : u # t => task'[u] = task[u]
        /\ \A q \in Rows : q # p => owner'[q] = owner[q] /\ draft'[q] = draft[q]
    BY <1>1 DEF First, TypeOK
  <2> QED BY <1>a, <2>1 DEF Idle
<1>2. ASSUME NEW t \in Tx, NEW ds \in Deletions, FirstDeactivate(t, ds)
      PROVE  MissedByCascades'
  BY <1>2, <1>a DEF FirstDeactivate, TypeOK, Idle
<1>3. ASSUME NEW t \in Tx, NEW e \in Days, Ensure(t, e)
      PROVE  MissedByCascades'
  BY <1>3, <1>a DEF Ensure, TypeOK, Idle
<1>4. ASSUME NEW t \in Tx, Second(t)
      PROVE  MissedByCascades'
  <2>1. /\ task[t].pc = "open" /\ UNCHANGED <<owner, draft, missed>>
        /\ \A u \in Tx : u # t => task'[u] = task[u]
    BY <1>4 DEF Second, TypeOK
  <2> QED BY <1>a, <2>1
<1>5. ASSUME NEW t \in Tx, NEW p \in Rows, Wait(t, p)
      PROVE  MissedByCascades'
  <2>1. UNCHANGED <<owner, draft, missed>>
    BY <1>5 DEF Wait
  <2> QED BY <1>5, <1>b, <2>1, WaitKeeps
<1>6. ASSUME NEW t \in Tx, NEW p \in Rows, Visit(t, p)
      PROVE  MissedByCascades'
  <2>1. /\ missed' = missed /\ owner[p] = Free
        /\ \A u \in Tx : task'[u].pc = task[u].pc /\ task'[u].target = task[u].target
        /\ \A q \in Rows : q # p => owner'[q] = owner[q] /\ draft'[q] = draft[q]
    BY <1>6, VisitEffect
  <2> QED BY <1>b, <2>1
<1>7. ASSUME NEW t \in Tx, Commit(t)
      PROVE  MissedByCascades'
  <2>1. /\ Release(t)
        /\ \A q \in Rows :
              missed'[q] = IF owner[q] = t THEN {} ELSE missed[q] \cup TooLate(t, q)
    BY <1>7, CommitEffect
  <2>2. \A q \in Rows : TooLate(t, q) # {} => Resolving(q)
    BY DEF TooLate
  <2> QED BY <1>c, <2>1, <2>2 DEF MissedByCascades
<1>8. ASSUME NEW t \in Tx, Abort(t) \/ BreakDeadlock(t)
      PROVE  MissedByCascades'
  <2>1. Abort(t)
    BY <1>8 DEF BreakDeadlock
  <2> QED BY <1>c, <2>1, AbortEffect DEF MissedByCascades
<1>9. CASE UNCHANGED vars
  BY <1>9 DEF vars, MissedByCascades, Resolving
<1> QED
  BY <1>1, <1>2, <1>3, <1>4, <1>5, <1>6, <1>7, <1>8, <1>9 DEF Next, Step

-----------------------------------------------------------------------------
(* The backlog of an approval under way: CascadeMissesNothing, in these    *)
(* terms, says of every task that resolves what is open, but for what was  *)
(* inserted too late for it.                                               *)
Behind(t) == {p \in Rows : Older(p, task[t].target) /\ row[p] \in Unresolved}
Handled(t) == {p \in Rows : \/ p \in task[t].todo
                            \/ owner[p] = t /\ draft[p] = "approved"
                            \/ p[2] \in missed[task[t].target]}
InHand == \A t \in Tx : Cascading(t) => Behind(t) \subseteq Handled(t)

LEMMA CascadeInTerms == LockInv => (CascadeMissesNothing <=> InHand)
<1> SUFFICES ASSUME LockInv PROVE CascadeMissesNothing <=> InHand
  OBVIOUS
<1>1. ASSUME CascadeMissesNothing, NEW t \in Tx, Cascading(t)
      PROVE  Behind(t) \subseteq Handled(t)
  BY <1>1, CascadingIsResolving DEF CascadeMissesNothing, Behind, Handled
<1>2. ASSUME InHand, NEW p \in Rows, NEW q \in Rows,
             Resolving(p), Older(q, p), row[q] \in Unresolved
      PROVE  \/ q \in task[owner[p]].todo
             \/ owner[q] = owner[p] /\ draft[q] = "approved"
             \/ q[2] \in missed[p]
  BY <1>2, ResolvingIsCascading DEF InHand, Behind, Handled
<1> QED BY <1>1, <1>2 DEF CascadeMissesNothing, InHand

(* Tasks that a step does not concern.                                     *)
LEMMA CascadeOfOthers ==
    ASSUME LockInv, InHand, NEW u \in Tx, Cascading(u)',
           task'[u] = task[u],
           \A q \in Rows : owner[q] = u => owner'[q] = u /\ draft'[q] = draft[q],
           Cascading(u) => missed[task[u].target] \subseteq missed'[task[u].target],
           \A q \in Rows :
              Cascading(u) /\ Older(q, task[u].target) /\ row'[q] \in Unresolved =>
                 row[q] \in Unresolved \/ q[2] \in missed'[task[u].target]
    PROVE  (Behind(u) \subseteq Handled(u))'
<1>1. task[u].kind \in Ones
  BY DEF Cascading, Ones
<1>2. draft'[task[u].target] = draft[task[u].target]
  BY <1>1, TargetsAreOpen
<1>3. Cascading(u)
  BY <1>2 DEF Cascading
<1>4. Behind(u) \subseteq Handled(u)
  BY <1>3 DEF InHand
<1> QED BY <1>3, <1>4 DEF Behind, Handled

LEMMA InHandStep ==
    ASSUME LockInv, InHand, [Next]_vars
    PROVE  InHand'
<1> USE DEF LockInv
<1>a. ASSUME NEW t \in Tx, NEW k \in DOMAIN From, NEW p \in Rows, First(t, k, p)
      PROVE  InHand'
  <2>1. /\ task[t] = Idle /\ owner[p] = Free /\ row' = row /\ missed' = missed
        /\ owner' = [owner EXCEPT ![p] = t]
        /\ draft' = [draft EXCEPT ![p] = To(k, p[1])]
        /\ task' = [task EXCEPT ![t] =
              Doing(IF To(k, p[1]) = "approved" THEN "open" ELSE "visit", k, p, {})]
    BY <1>a DEF First
  <2>2. ~Cascading(t)'
    BY <2>1 DEF Cascading, Doing, TypeOK
  <2>3. ASSUME NEW u \in Tx, u # t, Cascading(u)'
        PROVE  (Behind(u) \subseteq Handled(u))'
    <3>1. task'[u] = task[u]
      BY <2>1, <2>3 DEF TypeOK
    <3>2. \A q \in Rows : owner[q] = u => owner'[q] = u /\ draft'[q] = draft[q]
      BY <2>1, FreeIsNoTx DEF TypeOK
    <3> QED BY <2>1, <2>3, <3>1, <3>2, CascadeOfOthers
  <2> QED BY <2>2, <2>3 DEF InHand
<1>b. ASSUME NEW t \in Tx, task'[t].kind \notin {"tap", "approve"},
             \A u \in Tx : u # t => task'[u] = task[u],
             UNCHANGED <<row, owner, draft, missed>>
      PROVE  InHand'
  <2>1. ~Cascading(t)'
    BY <1>b DEF Cascading
  <2>2. ASSUME NEW u \in Tx, u # t, Cascading(u)'
        PROVE  (Behind(u) \subseteq Handled(u))'
    BY <1>b, <2>2, CascadeOfOthers
  <2> QED BY <2>1, <2>2 DEF InHand
<1>c. ASSUME NEW t \in Tx, Second(t)
      PROVE  InHand'
  <2>1. /\ task' = [task EXCEPT ![t].pc = "visit", ![t].todo = Found(t)]
        /\ UNCHANGED <<row, owner, draft, missed>>
    BY <1>c DEF Second
  <2>2. /\ task'[t].todo = Found(t) /\ task'[t].kind = task[t].kind
        /\ task'[t].target = task[t].target
        /\ \A u \in Tx : u # t => task'[u] = task[u]
    BY <2>1 DEF TypeOK, Task
  <2>3. ASSUME Cascading(t)'
        PROVE  (Behind(t) \subseteq Handled(t))'
    <3>1. task[t].kind # "deactivate"
      BY <2>2, <2>3 DEF Cascading
    <3>2. Behind(t)' = Behind(t)
      BY <2>1, <2>2 DEF Behind
    <3>3. Behind(t) \subseteq Found(t)
      BY <3>1 DEF Behind, Found, Older
    <3> QED BY <2>2, <3>2, <3>3 DEF Handled, Behind
  <2>4. ASSUME NEW u \in Tx, u # t, Cascading(u)'
        PROVE  (Behind(u) \subseteq Handled(u))'
    BY <2>1, <2>2, <2>4, CascadeOfOthers
  <2> QED BY <2>3, <2>4 DEF InHand
<1>d. ASSUME NEW t \in Tx, NEW p \in Rows, Wait(t, p)
      PROVE  InHand'
  <2>1. UNCHANGED <<row, owner, draft, missed>>
    BY <1>d DEF Wait
  <2>2. \A u \in Tx : /\ task'[u].todo = task[u].todo
                     /\ task'[u].kind = task[u].kind
                     /\ task'[u].pc = task[u].pc
                     /\ task'[u].target = task[u].target
    BY <1>d, WaitKeeps
  <2>3. ASSUME NEW u \in Tx, Cascading(u)'
        PROVE  (Behind(u) \subseteq Handled(u))'
    <3>1. Cascading(u) /\ Behind(u)' = Behind(u) /\ Handled(u)' = Handled(u)
      BY <2>1, <2>2, <2>3 DEF Cascading, Behind, Handled
    <3> QED BY <3>1 DEF InHand
  <2> QED BY <2>3 DEF InHand
<1>e. ASSUME NEW t \in Tx, NEW p \in Rows, Visit(t, p)
      PROVE  InHand'
  <2>1. /\ p \in task[t].todo /\ owner[p] = Free /\ row' = row /\ missed' = missed
        /\ task'[t].todo = task[t].todo \ {p}
        /\ \A u \in Tx : u # t => task'[u] = task[u]
        /\ \A q \in Rows : q # p => owner'[q] = owner[q] /\ draft'[q] = draft[q]
    BY <1>e, VisitEffect
  <2>2. task'[t].kind = task[t].kind /\ task'[t].pc = task[t].pc
        /\ task'[t].target = task[t].target
    BY <1>e, VisitEffect
  <2>3. ASSUME NEW u \in Tx, u # t, Cascading(u)'
        PROVE  (Behind(u) \subseteq Handled(u))'
    <3>1. \A q \in Rows : owner[q] = u => owner'[q] = u /\ draft'[q] = draft[q]
      BY <2>1, FreeIsNoTx
    <3> QED BY <2>1, <2>3, <3>1, CascadeOfOthers
  <2>4. ASSUME Cascading(t)'
        PROVE  (Behind(t) \subseteq Handled(t))'
    <3>1. task[t].kind \in {"tap", "approve"}
      BY <2>2, <2>4 DEF Cascading
    <3>2. draft'[task[t].target] = draft[task[t].target]
      BY <3>1, <2>1, FreeIsNoTx, TargetsAreOpen DEF Ones
    <3>3. Behind(t) \subseteq Handled(t) /\ Behind(t)' = Behind(t)
      BY <2>1, <2>2, <2>4, <3>2 DEF InHand, Cascading, Behind
    <3>4. ASSUME NEW q \in Behind(t), q # p
          PROVE  q \in Handled(t)'
      BY <3>3, <3>4, <2>1, <2>2 DEF Handled
    <3>5. p \in Behind(t) => p \in Handled(t)'
      <4> SUFFICES ASSUME p \in Behind(t) PROVE p \in Handled(t)'
        OBVIOUS
      <4>1. p \in Rows /\ Touches(task[t].kind, row[p])
        BY <3>1 DEF Behind, Touches
      <4>2. CASE Sees(t, p)
        <5>1. owner'[p] = t /\ draft'[p] = Outcome(task[t].kind)
          BY <4>1, <4>2, <1>e, VisitEffect
        <5> QED BY <4>1, <5>1, <3>1 DEF Handled, Outcome
      <4>3. CASE ~Sees(t, p)
        BY <4>1, <4>3, <2>1, <2>2 DEF Handled, Sees
      <4> QED BY <4>2, <4>3
    <3> QED BY <3>3, <3>4, <3>5
  <2> QED BY <2>3, <2>4 DEF InHand
<1>f. ASSUME NEW t \in Tx, Release(t),
             \A q \in Rows : owner[q] # t => missed[q] \subseteq missed'[q],
             \A q \in Rows : row'[q] = row[q] \/ (owner[q] = t /\ row'[q] = draft[q]),
             \A q, p \in Rows : /\ owner[q] = t /\ row[q] = "none" /\ row'[q] \in Unresolved
                               /\ task[t].kind = "ensure" /\ Resolving(p) /\ Older(q, p)
                               => q[2] \in missed'[p]
      PROVE  InHand'
  <2>1. /\ task'[t] = Idle /\ \A u \in Tx : u # t => task'[u] = task[u]
        /\ \A q \in Rows : owner[q] # t => owner'[q] = owner[q] /\ draft'[q] = draft[q]
    BY <1>f DEF Release, TypeOK
  <2>2. ~Cascading(t)'
    BY <2>1 DEF Cascading, Idle
  <2>3. ASSUME NEW u \in Tx, u # t, Cascading(u), NEW q \in Rows,
               Older(q, task[u].target), row'[q] \in Unresolved, row[q] \notin Unresolved
        PROVE  q[2] \in missed'[task[u].target]
    <3>1. owner[q] = t
      BY <1>f, <2>3
    <3>2. task[t].kind = "ensure" /\ row[q] = "none"
      BY <2>3, <3>1, EmptyRowsAreGenerated
    <3>3. task[u].target \in Rows /\ Resolving(task[u].target)
      BY <2>3, CascadingIsResolving
    <3> QED BY <1>f, <2>3, <3>1, <3>2, <3>3
  <2>4. ASSUME NEW u \in Tx, u # t, Cascading(u)'
        PROVE  (Behind(u) \subseteq Handled(u))'
    <3>1. Cascading(u) => missed[task[u].target] \subseteq missed'[task[u].target]
      BY <1>f, <2>4, CascadingIsResolving
    <3> HIDE DEF LockInv
    <3> QED BY <2>1, <2>3, <2>4, <3>1, CascadeOfOthers
  <2> QED BY <2>2, <2>4 DEF InHand
<1>1. ASSUME NEW t \in Tx, NEW ds \in Deletions, FirstDeactivate(t, ds)
      PROVE  InHand'
  <2>1. /\ task'[t].kind = "deactivate" /\ \A u \in Tx : u # t => task'[u] = task[u]
        /\ UNCHANGED <<row, owner, draft, missed>>
    BY <1>1 DEF FirstDeactivate, Doing, TypeOK
  <2> QED BY <2>1, <1>b
<1>2. ASSUME NEW t \in Tx, NEW e \in Days, Ensure(t, e)
      PROVE  InHand'
  <2>1. /\ task'[t].kind = "ensure" /\ \A u \in Tx : u # t => task'[u] = task[u]
        /\ UNCHANGED <<row, owner, draft, missed>>
    BY <1>2 DEF Ensure, Doing, TypeOK
  <2> QED BY <2>1, <1>b
<1>3. ASSUME NEW t \in Tx, Commit(t)
      PROVE  InHand'
  <2>1. /\ Release(t)
        /\ \A q \in Rows : row'[q] = IF owner[q] = t THEN draft[q] ELSE row[q]
        /\ \A q \in Rows :
              missed'[q] = IF owner[q] = t THEN {} ELSE missed[q] \cup TooLate(t, q)
    BY <1>3, CommitEffect
  <2>2. ASSUME NEW q \in Rows, NEW p \in Rows, owner[q] = t, task[t].kind = "ensure",
               Resolving(p), Older(q, p)
        PROVE  q[2] \in missed'[p]
    <3>1. q[2] \in Days /\ q = <<p[1], q[2]>>
      BY <2>2 DEF Rows, Older
    <3>2. q[2] \in TooLate(t, p)
      BY <2>2, <3>1 DEF TooLate, Older
    <3>3. owner[p] # t
      BY <2>2, ResolvingIsCascading DEF Cascading
    <3> QED BY <2>1, <3>2, <3>3
  <2> QED BY <1>f, <2>1, <2>2
<1>4. ASSUME NEW t \in Tx, Abort(t) \/ BreakDeadlock(t)
      PROVE  InHand'
  <2>1. Abort(t)
    BY <1>4 DEF BreakDeadlock
  <2>2. /\ Release(t) /\ row' = row
        /\ \A q \in Rows : missed'[q] = IF owner[q] = t THEN {} ELSE missed[q]
    BY <2>1, AbortEffect
  <2> QED BY <1>f, <2>2 DEF Unresolved
<1>5. CASE UNCHANGED vars
  BY <1>5 DEF vars, InHand, Cascading, Behind, Handled
<1> QED
  BY <1>a, <1>c, <1>d, <1>e, <1>1, <1>2, <1>3, <1>4, <1>5 DEF Next, Step

(* The invariant of a cascade, in the words of the module.                 *)
TxInv == LockInv /\ MissedByCascades /\ CascadeMissesNothing

LEMMA TxStep == TxInv /\ [Next]_vars => TxInv'
<1>1. LockInv => (CascadeMissesNothing <=> InHand)
  BY CascadeInTerms
<1>2. LockInv' => (CascadeMissesNothing' <=> InHand')
  BY <1>1, PTL
<1> QED BY <1>1, <1>2, LockStep, MissedStep, InHandStep DEF TxInv

-----------------------------------------------------------------------------
(* The committed rows implement the board: a commit is one of its steps,   *)
(* by what the transaction was; everything before a commit is a stutter.   *)
LEMMA CommitOfOneRow ==
    ASSUME LockInv, NEW t \in Tx, Commit(t), task[t].kind \in Ones,
           draft[task[t].target] # "approved"
    PROVE  \A q \in Rows : row'[q] = IF q = task[t].target THEN draft[q] ELSE row[q]
<1>1. \A q \in Rows : owner[q] = t => q = task[t].target
  BY DEF LockInv, LocksFollowTasks
<1> QED BY <1>1, TargetsAreOpen, CommitEffect

LEMMA CommitOfApproval ==
    ASSUME LockInv, CascadeMissesNothing, NEW t \in Tx, Commit(t), task[t].kind \in Ones,
           draft[task[t].target] = "approved"
    PROVE  \A q \in Rows :
              row'[q] = IF \/ q = task[t].target
                           \/ /\ Older(q, task[t].target) /\ row[q] \in Unresolved
                              /\ q[2] \in missed[task[t].target] => owner[q] = t
                        THEN "approved" ELSE row[q]
<1> DEFINE target == task[t].target
<1>1. /\ task[t].kind \in {"tap", "approve"} /\ task[t].pc = "visit" /\ task[t].todo = {}
      /\ owner[target] = t /\ target \in Rows
  BY TargetsAreOpen, CommitEffect, StatusesAreWritten DEF Rows
<1>2. \A q \in Rows : row'[q] = IF owner[q] = t THEN draft[q] ELSE row[q]
  BY CommitEffect
<1>3. Behind(t) \subseteq Handled(t)
  BY <1>1, CascadeInTerms DEF Cascading, InHand
<1>4. ASSUME NEW q \in Rows, Older(q, target), row[q] \in Unresolved,
             q[2] \in missed[target] => owner[q] = t
      PROVE  owner[q] = t
  BY <1>1, <1>3, <1>4 DEF Behind, Handled
<1>5. ASSUME NEW q \in Rows, owner[q] = t, q # target
      PROVE  Older(q, target) /\ row[q] \in Unresolved /\ draft[q] = "approved"
  <2>1. Older(q, target)
    BY <1>1, <1>5 DEF LockInv, LocksFollowTasks, Ones
  <2>2. task[t].kind # "ensure"
    BY <1>1
  <2>3. draft[q] = Outcome(task[t].kind)
    BY <1>5, FreeIsNoTx DEF LockInv, DraftsFollowRows
  <2>4. draft[q] = "approved"
    BY <1>1, <2>3 DEF Outcome
  <2> QED BY <1>5, <2>1, <2>2, <2>4, EmptyRowsAreGenerated
<1> QED BY <1>1, <1>2, <1>4, <1>5

(* Two boards are one when they agree on every occurrence.                *)
LEMMA SameBoard ==
    ASSUME NEW f \in [Defs -> [Days -> Status]], NEW g \in [Defs -> [Days -> Status]],
           \A d \in Defs, e \in Days : f[d][e] = g[d][e]
    PROVE  f = g
<1>1. ASSUME NEW d \in Defs
      PROVE  f[d] = g[d]
  <2>1. f[d] \in [Days -> Status] /\ g[d] \in [Days -> Status]
    OBVIOUS
  <2> QED BY <2>1
<1> QED BY <1>1

LEMMA BoardAt ==
    /\ TypeOK => statusOf \in [Defs -> [Days -> Status]]
    /\ TypeOK' => statusOf' \in [Defs -> [Days -> Status]]
    /\ \A d \in Defs, e \in Days : /\ statusOf[d][e] = row[<<d, e>>]
                                   /\ statusOf'[d][e] = row'[<<d, e>>]
BY DEF TypeOK, statusOf, Rows

(* The board after one occurrence was written, and after a cascade.        *)
LEMMA OneOnBoard ==
    ASSUME TypeOK, TypeOK', NEW d \in Defs, NEW e \in Days, NEW s \in Status,
           \A q \in Rows : row'[q] = IF q = <<d, e>> THEN s ELSE row[q]
    PROVE  statusOf' = [statusOf EXCEPT ![d][e] = s]
<1> DEFINE g == [statusOf EXCEPT ![d][e] = s]
<1>1. statusOf \in [Defs -> [Days -> Status]] /\ statusOf' \in [Defs -> [Days -> Status]]
  BY BoardAt
<1>2. g \in [Defs -> [Days -> Status]]
  BY <1>1
<1>3. ASSUME NEW c \in Defs, NEW x \in Days
      PROVE  statusOf'[c][x] = g[c][x]
  <2>1. g[c][x] = IF c = d /\ x = e THEN s ELSE statusOf[c][x]
    BY <1>1
  <2>2. row'[<<c, x>>] = IF c = d /\ x = e THEN s ELSE row[<<c, x>>]
    BY DEF Rows
  <2> QED BY <2>1, <2>2, BoardAt
<1> HIDE DEF g
<1>4. statusOf' = g
  BY <1>1, <1>2, <1>3, SameBoard
<1> QED BY <1>4 DEF g

LEMMA CascadeOnBoard ==
    ASSUME TypeOK, TypeOK', NEW d \in Defs, NEW e \in Days,
           NEW left \in SUBSET Days,
           \A q \in Rows :
              row'[q] = IF \/ q = <<d, e>>
                           \/ /\ Older(q, <<d, e>>) /\ row[q] \in Unresolved
                              /\ q[2] \notin left
                        THEN "approved" ELSE row[q]
    PROVE  statusOf' = [statusOf EXCEPT ![d] = Board!CaughtUp(statusOf[d], e, left)]
<1> DEFINE h == Board!CaughtUp(statusOf[d], e, left)
           g == [statusOf EXCEPT ![d] = h]
<1>1. statusOf \in [Defs -> [Days -> Status]] /\ statusOf' \in [Defs -> [Days -> Status]]
  BY BoardAt
<1>2. h \in [Days -> Status]
  BY <1>1 DEF Board!CaughtUp, Status
<1>3. \A x \in Days : h[x] = IF \/ x = e
                                \/ x < e /\ statusOf[d][x] \in Unresolved /\ x \notin left
                             THEN "approved" ELSE statusOf[d][x]
  BY DEF Board!CaughtUp, Board!Unresolved, Unresolved
<1> HIDE DEF h
<1>4. g \in [Defs -> [Days -> Status]]
  BY <1>1, <1>2
<1>5. ASSUME NEW c \in Defs, NEW x \in Days
      PROVE  statusOf'[c][x] = g[c][x]
  <2>1. g[c] = IF c = d THEN h ELSE statusOf[c]
    BY <1>1
  <2>2. row'[<<c, x>>] = IF /\ c = d
                            /\ \/ x = e
                               \/ x < e /\ row[<<c, x>>] \in Unresolved /\ x \notin left
                         THEN "approved" ELSE row[<<c, x>>]
    BY DEF Rows, Older
  <2> QED BY <1>3, <2>1, <2>2, BoardAt
<1> HIDE DEF g
<1>6. statusOf' = g
  BY <1>1, <1>4, <1>5, SameBoard
<1> QED BY <1>6 DEF g, h

(* The commit of a tap or a decision is that operation on the board.       *)
LEMMA DecisionOnBoard ==
    ASSUME LockInv, LockInv', CascadeMissesNothing, NEW t \in Tx, Commit(t),
           task[t].kind \in Ones
    PROVE  Board!Changes
<1> DEFINE k == task[t].kind
<1>1. PICK d \in Defs, e \in Days : task[t].target = <<d, e>>
  BY TargetsAreOpen DEF Rows
<1>2. /\ row[<<d, e>>] \in From[k] /\ statusOf[d][e] = row[<<d, e>>]
      /\ draft[<<d, e>>] = To(k, d)
  BY <1>1, TargetsAreOpen, BoardAt
<1>3. TypeOK /\ TypeOK' /\ To(k, d) \in Status
  BY StatusesAreWritten DEF LockInv
<1> SUFFICES \/ Board!Submit(d, e) \/ Board!SelfApprove(d, e) \/ Board!Approve(d, e)
             \/ Board!Reject(d, e) \/ Board!Retry(d, e)
  BY DEF Board!Changes
<1>4. CASE To(k, d) = "approved"
  <2> DEFINE left == {x \in Days : x \in missed[<<d, e>>] /\ owner[<<d, x>>] # t}
  <2>a. \A q \in Rows :
           row'[q] = IF \/ q = <<d, e>>
                        \/ /\ Older(q, <<d, e>>) /\ row[q] \in Unresolved
                           /\ q[2] \notin left
                     THEN "approved" ELSE row[q]
    <3> SUFFICES ASSUME NEW q \in Rows, Older(q, <<d, e>>)
                 PROVE  q[2] \notin left <=> (q[2] \in missed[<<d, e>>] => owner[q] = t)
      BY <1>1, <1>2, <1>4, CommitOfApproval
    <3>1. q = <<d, q[2]>> /\ q[2] \in Days
      BY DEF Rows, Older
    <3> QED BY <3>1
  <2>b. left \in SUBSET unseenOf[d][e] /\ left \in SUBSET Days
    BY DEF unseenOf
  <2> HIDE DEF left
  <2>1. statusOf' = [statusOf EXCEPT ![d] = Board!CaughtUp(statusOf[d], e, left)]
    BY <1>3, <2>a, <2>b, CascadeOnBoard
  <2>c. \E l \in SUBSET unseenOf[d][e] :
           statusOf' = [statusOf EXCEPT ![d] = Board!CaughtUp(statusOf[d], e, l)]
    BY <2>1, <2>b
  <2>2. k = "approve" \/ (k = "tap" /\ d \in ParentAssigned)
    BY <1>4 DEF To, Ones
  <2>3. CASE k = "approve"
    <3>1. statusOf[d][e] = "pending_approval"
      BY <1>2, <2>3 DEF From
    <3> QED BY <2>c, <3>1 DEF Board!Approve
  <2>4. CASE k = "tap" /\ d \in ParentAssigned
    <3>1. statusOf[d][e] \in Board!Resubmittable
      BY <1>2, <2>4 DEF From, Board!Resubmittable
    <3> QED BY <2>4, <2>c, <3>1 DEF Board!SelfApprove
  <2> QED BY <2>2, <2>3, <2>4
<1>5. CASE To(k, d) # "approved"
  <2>1. statusOf' = [statusOf EXCEPT ![d][e] = To(k, d)]
    BY <1>1, <1>2, <1>3, <1>5, CommitOfOneRow, OneOnBoard
  <2>2. \/ k = "tap" /\ d \notin ParentAssigned /\ To(k, d) = "pending_approval"
        \/ k = "reject" /\ To(k, d) = "rejected"
        \/ k = "reset" /\ To(k, d) = "incomplete"
    BY <1>5 DEF To, Ones
  <2>3. CASE k = "tap" /\ d \notin ParentAssigned /\ To(k, d) = "pending_approval"
    <3>1. statusOf' = [statusOf EXCEPT ![d][e] = "pending_approval"]
      BY <2>1, <2>3
    <3>2. statusOf[d][e] \in {"incomplete", "rejected"}
      BY <1>2, <2>3 DEF From
    <3> QED BY <2>3, <3>1, <3>2 DEF Board!Submit, Board!Resubmittable
  <2>4. CASE k = "reject" /\ To(k, d) = "rejected"
    <3>1. statusOf' = [statusOf EXCEPT ![d][e] = "rejected"]
      BY <2>1, <2>4
    <3>2. statusOf[d][e] = "pending_approval"
      BY <1>2, <2>4 DEF From
    <3> QED BY <3>1, <3>2 DEF Board!Reject
  <2>5. CASE k = "reset" /\ To(k, d) = "incomplete"
    <3>1. statusOf' = [statusOf EXCEPT ![d][e] = "incomplete"]
      BY <2>1, <2>5
    <3>2. statusOf[d][e] = "rejected"
      BY <1>2, <2>5 DEF From
    <3> QED BY <3>1, <3>2 DEF Board!Retry
  <2> QED BY <2>2, <2>3, <2>4, <2>5
<1> QED BY <1>4, <1>5

(* What a deletion or a generation holds is what it may change.            *)
LEMMA WrittenByMany ==
    ASSUME LockInv, NEW t \in Tx, task[t].kind \notin Ones, NEW q \in Rows, owner[q] = t
    PROVE  Touches(task[t].kind, row[q]) /\ draft[q] = Outcome(task[t].kind)
<1>1. task[t].target # q /\ owner[q] # Free
  BY NoRowIsNoRow, FreeIsNoTx DEF LockInv, TaskShape, Rows
<1> QED BY <1>1 DEF LockInv, DraftsFollowRows

LEMMA DeletionOnBoard ==
    ASSUME LockInv, LockInv', NEW t \in Tx, Commit(t), task[t].kind = "deactivate"
    PROVE  Board!Changes
<1> DEFINE gone == {q \in Rows : owner[q] = t}
           g == [d \in Defs |-> [e \in Days |->
                   IF <<d, e>> \in gone THEN "none" ELSE statusOf[d][e]]]
<1>1. ASSUME NEW q \in gone
      PROVE  row[q] \in Unresolved /\ draft[q] = "none"
  BY WrittenByMany DEF Touches, Outcome, Ones
<1>2. \A q \in Rows : row'[q] = IF q \in gone THEN "none" ELSE row[q]
  BY <1>1, CommitEffect
<1>3. gone \subseteq Defs \X Days
  BY DEF Rows
<1> HIDE DEF gone
<1>4. statusOf \in [Defs -> [Days -> Status]] /\ statusOf' \in [Defs -> [Days -> Status]]
  BY BoardAt DEF LockInv
<1>5. g \in [Defs -> [Days -> Status]]
  BY <1>4 DEF Status
<1>6. ASSUME NEW d \in Defs, NEW e \in Days
      PROVE  statusOf'[d][e] = g[d][e]
  <2>1. g[d][e] = IF <<d, e>> \in gone THEN "none" ELSE statusOf[d][e]
    OBVIOUS
  <2>2. row'[<<d, e>>] = IF <<d, e>> \in gone THEN "none" ELSE row[<<d, e>>]
    BY <1>2 DEF Rows
  <2>3. statusOf'[d][e] = row'[<<d, e>>] /\ statusOf[d][e] = row[<<d, e>>]
    BY BoardAt
  <2> QED BY <2>1, <2>2, <2>3
<1> HIDE DEF g
<1>7. statusOf' = g
  BY <1>4, <1>5, <1>6, SameBoard
<1>8. \A q \in gone : statusOf[q[1]][q[2]] \in Board!Unresolved
  BY <1>1, <1>3, BoardAt DEF Board!Unresolved, Unresolved
<1>9. Board!Withdraw(gone)
  BY <1>7, <1>8 DEF g, Board!Withdraw
<1> QED BY <1>3, <1>9 DEF Board!Changes

LEMMA GenerationOnBoard ==
    ASSUME LockInv, LockInv', NEW t \in Tx, Commit(t), task[t].kind = "ensure",
           NEW p \in Rows, owner[p] = t
    PROVE  Board!Changes
<1>1. PICK e \in Days : e = p[2]
  BY DEF Rows
<1> DEFINE ds == {d \in Defs : owner[<<d, e>>] = t}
           g == [d \in Defs |-> IF d \in ds THEN [statusOf[d] EXCEPT ![e] = "incomplete"]
                                            ELSE statusOf[d]]
<1>2. \A q \in Rows : owner[q] = t =>
         q[2] = e /\ row[q] = "none" /\ draft[q] = "incomplete"
  BY <1>1, WrittenByMany DEF LockInv, OneDate, Touched, Touches, Outcome, Ones
<1>3. \A c \in Defs, x \in Days :
         row'[<<c, x>>] = IF c \in ds /\ x = e THEN "incomplete" ELSE row[<<c, x>>]
  <2> SUFFICES ASSUME NEW c \in Defs, NEW x \in Days
               PROVE  row'[<<c, x>>] = IF c \in ds /\ x = e THEN "incomplete"
                                                            ELSE row[<<c, x>>]
    OBVIOUS
  <2>1. <<c, x>> \in Rows
    BY DEF Rows
  <2> QED BY <1>2, <2>1, CommitEffect
<1>4. ds \subseteq Defs /\ \A d \in ds : row[<<d, e>>] = "none"
  BY <1>2 DEF Rows
<1> HIDE DEF ds
<1>5. statusOf \in [Defs -> [Days -> Status]] /\ statusOf' \in [Defs -> [Days -> Status]]
  BY BoardAt DEF LockInv
<1>6. g \in [Defs -> [Days -> Status]]
  BY <1>5 DEF Status, Unresolved
<1>7. \A c \in Defs, x \in Days :
         g[c][x] = IF c \in ds /\ x = e THEN "incomplete" ELSE statusOf[c][x]
  BY <1>5
<1> HIDE DEF g
<1>8. ASSUME NEW c \in Defs, NEW x \in Days
      PROVE  statusOf'[c][x] = g[c][x]
  <2>1. /\ statusOf'[c][x] = row'[<<c, x>>] /\ statusOf[c][x] = row[<<c, x>>]
        /\ row'[<<c, x>>] = IF c \in ds /\ x = e THEN "incomplete" ELSE row[<<c, x>>]
    BY <1>3, BoardAt
  <2> QED BY <1>7, <2>1
<1>9. statusOf' = g
  BY <1>5, <1>6, <1>8, SameBoard
<1>10. \A d \in ds : statusOf[d][e] = "none"
  BY <1>4, BoardAt
<1>11. Board!Appear(ds, e)
  BY <1>9, <1>10 DEF g, Board!Appear
<1> QED BY <1>4, <1>11 DEF Board!Changes

LEMMA CommitOnBoard ==
    ASSUME LockInv, CascadeMissesNothing, NEW t \in Tx, Commit(t)
    PROVE  Board!Changes \/ UNCHANGED statusOf
<1>1. LockInv'
  BY LockStep DEF Next, Step
<1>2. task[t].kind \in Kinds
  BY CommitEffect DEF LockInv, TypeOK, Task, TaskShape
<1>3. CASE task[t].kind \in Ones
  BY <1>1, <1>3, DecisionOnBoard
<1>4. CASE task[t].kind = "deactivate"
  BY <1>1, <1>4, DeletionOnBoard
<1>5. CASE task[t].kind = "ensure"
  <2>1. CASE \E p \in Rows : owner[p] = t
    BY <1>1, <1>5, <2>1, GenerationOnBoard
  <2>2. CASE \A p \in Rows : owner[p] # t
    BY <2>2, CommitEffect DEF statusOf, Rows
  <2> QED BY <2>1, <2>2
<1> QED BY <1>2, <1>3, <1>4, <1>5 DEF Kinds, Ones

(* Everything else leaves what is committed alone.                         *)
LEMMA StatusStep ==
    ASSUME LockInv, CascadeMissesNothing, [Next]_vars
    PROVE  Board!Changes \/ UNCHANGED statusOf
<1>1. ASSUME row' = row
      PROVE  UNCHANGED statusOf
  BY <1>1 DEF statusOf
<1>2. ASSUME NEW t \in Tx, NEW k \in DOMAIN From, NEW p \in Rows, First(t, k, p)
      PROVE  UNCHANGED statusOf
  BY <1>1, <1>2 DEF First
<1>3. ASSUME NEW t \in Tx, NEW ds \in Deletions, FirstDeactivate(t, ds)
      PROVE  UNCHANGED statusOf
  BY <1>1, <1>3 DEF FirstDeactivate
<1>4. ASSUME NEW t \in Tx, NEW e \in Days, Ensure(t, e)
      PROVE  UNCHANGED statusOf
  BY <1>1, <1>4 DEF Ensure
<1>5. ASSUME NEW t \in Tx, Second(t)
      PROVE  UNCHANGED statusOf
  BY <1>1, <1>5 DEF Second
<1>6. ASSUME NEW t \in Tx, NEW p \in Rows, Wait(t, p) \/ Visit(t, p)
      PROVE  UNCHANGED statusOf
  BY <1>1, <1>6 DEF Wait, Visit
<1>7. ASSUME NEW t \in Tx, Commit(t)
      PROVE  Board!Changes \/ UNCHANGED statusOf
  BY <1>7, CommitOnBoard
<1>8. ASSUME NEW t \in Tx, BreakDeadlock(t) \/ Abort(t)
      PROVE  UNCHANGED statusOf
  BY <1>1, <1>8 DEF BreakDeadlock, Abort
<1>9. CASE UNCHANGED vars
  BY <1>1, <1>9 DEF vars
<1> QED
  BY <1>2, <1>3, <1>4, <1>5, <1>6, <1>7, <1>8, <1>9 DEF Next, Step

(* An approval overlooks only what a generation commits meanwhile.         *)
LEMMA MissedEffect ==
    ASSUME LockInv, [Next]_vars, NEW p \in Rows, NEW x \in missed'[p] \ missed[p]
    PROVE  \E t \in Tx : Commit(t) /\ x \in TooLate(t, p)
<1>1. ASSUME NEW t \in Tx, Commit(t)
      PROVE  x \in TooLate(t, p)
  <2>1. \A q \in Rows :
           missed'[q] = IF owner[q] = t THEN {} ELSE missed[q] \cup TooLate(t, q)
    BY <1>1, CommitEffect
  <2> QED BY <2>1
<1>2. ASSUME NEW t \in Tx, Abort(t) \/ BreakDeadlock(t)
      PROVE  FALSE
  <2>1. Abort(t)
    BY <1>2 DEF BreakDeadlock
  <2>2. \A q \in Rows : missed'[q] = IF owner[q] = t THEN {} ELSE missed[q]
    BY <2>1, AbortEffect
  <2> QED BY <2>2
<1>3. missed' # missed
  OBVIOUS
<1> QED
  BY <1>1, <1>2, <1>3
     DEF Next, Step, First, FirstDeactivate, Ensure, Second, Wait, Visit, vars

Approvables ==
    \A d \in Defs, e \in Days : Resolving(<<d, e>>) => Board!Approvable(d, e)

LEMMA ResolvingIsApprovable == LockInv => Approvables
<1> SUFFICES ASSUME LockInv, NEW d \in Defs, NEW e \in Days, Resolving(<<d, e>>)
             PROVE  Board!Approvable(d, e)
  BY DEF Approvables
<1>1. <<d, e>> \in Rows /\ statusOf[d][e] = row[<<d, e>>]
  BY BoardAt DEF Rows
<1>2. \/ row[<<d, e>>] = "pending_approval"
      \/ d \in ParentAssigned /\ row[<<d, e>>] \in {"incomplete", "rejected"}
  BY <1>1, ResolvingIsCascading
<1> QED BY <1>1, <1>2 DEF Board!Approvable, Board!Resubmittable

LEMMA NextIsApprovable == LockInv' => Approvables'
<1>1. LockInv => Approvables
  BY ResolvingIsApprovable
<1> QED BY <1>1, PTL

LEMMA OverlooksStep ==
    ASSUME LockInv, MissedByCascades, [Next]_vars
    PROVE  Board!Overlooks
<1>2. LockInv' /\ MissedByCascades' /\ Approvables /\ Approvables'
  BY ResolvingIsApprovable, NextIsApprovable, LockStep, MissedStep
<1>3. unseenOf' \in [Defs -> [Days -> SUBSET Days]]
  BY <1>2 DEF LockInv, TypeOK, unseenOf, Rows
<1>4. ASSUME NEW d \in Defs, NEW e \in Days
      PROVE  /\ <<d, e>> \in Rows
             /\ unseenOf[d][e] = missed[<<d, e>>] /\ unseenOf'[d][e] = missed'[<<d, e>>]
  BY DEF unseenOf, Rows
<1>5. ASSUME NEW d \in Defs, NEW e \in Days, unseenOf'[d][e] # {}
      PROVE  Board!Approvable(d, e)'
  BY <1>2, <1>4, <1>5 DEF MissedByCascades, Approvables
<1>6. ASSUME NEW d \in Defs, NEW e \in Days, NEW x \in unseenOf'[d][e] \ unseenOf[d][e]
      PROVE  /\ x < e /\ Board!Approvable(d, e)
             /\ statusOf[d][x] = "none" /\ statusOf'[d][x] = "incomplete"
  <2>1. PICK t \in Tx : Commit(t) /\ x \in TooLate(t, <<d, e>>)
    BY <1>4, <1>6, MissedEffect
  <2>2. /\ x \in Days /\ x < e /\ Resolving(<<d, e>>)
        /\ task[t].kind = "ensure" /\ owner[<<d, x>>] = t
    BY <2>1 DEF TooLate
  <2>3. <<d, x>> \in Rows
    BY <2>2 DEF Rows
  <2>4. row[<<d, x>>] = "none" /\ draft[<<d, x>>] = "incomplete"
    BY <2>2, <2>3, WrittenByMany DEF Touches, Outcome, Ones
  <2>5. row'[<<d, x>>] = "incomplete"
    BY <2>1, <2>2, <2>3, <2>4, CommitEffect
  <2> QED BY <1>2, <2>2, <2>4, <2>5, BoardAt DEF Approvables
<1> QED BY <1>3, <1>5, <1>6 DEF Board!Overlooks

LEMMA BoardStep == TxInv /\ [Next]_vars => [Board!Next]_(Board!board)
  BY StatusStep, OverlooksStep DEF TxInv, Board!Next

LEMMA BoardInit == Init => Board!Init
<1> SUFFICES ASSUME Init PROVE Board!Init
  OBVIOUS
<1>1. \A d \in Defs, e \in Days : row[<<d, e>>] = "none" /\ missed[<<d, e>>] = {}
  BY DEF Init, Rows
<1> QED BY <1>1 DEF statusOf, unseenOf, Board!Init

-----------------------------------------------------------------------------
(* Locks, drafts and transactions stay what they are, however many run.    *)
THEOREM TxTypeCorrect == Spec => []TypeOK
<1>1. LockInv => TypeOK
  BY DEF LockInv
<1> QED BY <1>1, InitLocks, LockStep, PTL DEF Spec

(* What a transaction has decided on a row it holds is still right when it *)
(* commits: row locks, and the conditions of the UPDATEs, lose no update.  *)
THEOREM NoLostUpdates == Spec => []DraftsFollowRows
<1>1. LockInv => DraftsFollowRows
  BY DEF LockInv
<1> QED BY <1>1, InitLocks, LockStep, PTL DEF Spec

(* The three invariants together, as the ones below need them.             *)
LEMMA TxInvariant == Spec => []TxInv
<1>1. Init => TxInv
  BY InitLocks DEF TxInv
<1> QED BY <1>1, TxStep, PTL DEF Spec

(* A cascade has every open older row in hand when it commits, but those   *)
(* that a generation committed after it had looked for them.               *)
THEOREM CascadesAreComplete == Spec => []CascadeMissesNothing
<1>1. TxInv => CascadeMissesNothing
  BY DEF TxInv
<1> QED BY <1>1, TxInvariant, PTL

(* Concurrent transactions commit what the board promises: the writers of  *)
(* chore.go are, to whoever reads committed rows, whole operations, whose  *)
(* approvals may overlook only what appeared while they were under way.    *)
THEOREM TransactionsImplementBoard == Spec => ImplementsBoard
BY BoardStep, BoardInit, TxInvariant, PTL DEF Spec, ImplementsBoard, Board!Spec

-----------------------------------------------------------------------------
(* What ChoreBoardProofs shows of the board therefore holds of them.       *)
BoardThms == INSTANCE ChoreBoardProofs WITH status <- statusOf, unseen <- unseenOf

LEMMA OneBoard ==
    /\ Board!Init => BoardThms!Init
    /\ [Board!Next]_(Board!board) => [BoardThms!Next]_(BoardThms!board)
<1> USE DEF Board!Unresolved, Board!Resubmittable, Board!CaughtUp,
            BoardThms!Unresolved, BoardThms!Resubmittable, BoardThms!CaughtUp
<1>1. Board!Init => BoardThms!Init
  BY DEF Board!Init, BoardThms!Init
<1>2. Board!Changes => BoardThms!Changes
  BY DEF Board!Changes, Board!Appear, Board!Submit, Board!SelfApprove, Board!Approve,
         Board!Reject, Board!Retry, Board!Withdraw,
         BoardThms!Changes, BoardThms!Appear, BoardThms!Submit, BoardThms!SelfApprove,
         BoardThms!Approve, BoardThms!Reject, BoardThms!Retry, BoardThms!Withdraw
<1>3. Board!Overlooks => BoardThms!Overlooks
  BY DEF Board!Overlooks, BoardThms!Overlooks, Board!Approvable, BoardThms!Approvable
<1> QED
  BY <1>1, <1>2, <1>3 DEF Board!Next, BoardThms!Next, Board!board, BoardThms!board

LEMMA BoardHolds == Spec => BoardThms!Spec
BY OneBoard, TransactionsImplementBoard, PTL DEF ImplementsBoard, Board!Spec, BoardThms!Spec

(* A parent's own chore never waits for a decision, in any interleaving.   *)
THEOREM ParentChoresAreNeverAsked == Spec => []ParentChoresSkipApproval
<1>1. BoardThms!ParentChoresSkipApproval => ParentChoresSkipApproval
  BY DEF BoardThms!ParentChoresSkipApproval, ParentChoresSkipApproval,
         Board!ParentChoresSkipApproval
<1> QED
  BY <1>1, BoardHolds, BoardThms!ParentChoresAreInformational,
     DaysAreDates, ParentAssignedAreDefs, PTL

(* No transaction undoes an approval another one has committed.            *)
THEOREM CommittedApprovalsAreFinal == Spec => ApprovedIsFinal
BY BoardHolds, BoardThms!ApprovalsAreFinal, DaysAreDates, ParentAssignedAreDefs, PTL
   DEF BoardThms!ApprovedIsFinal, ApprovedIsFinal, Board!ApprovedIsFinal,
       BoardThms!board, Board!board

(* A committed approval has resolved the whole backlog, whatever ran, but  *)
(* what was inserted while its second statement ran.                       *)
THEOREM CommittedApprovalsCatchUp == Spec => ApprovalClearsBacklog
BY BoardHolds, BoardThms!ApprovalsCatchUp, DaysAreDates, ParentAssignedAreDefs, PTL
   DEF BoardThms!ApprovalClearsBacklog, ApprovalClearsBacklog, Board!ApprovalClearsBacklog,
       BoardThms!NewlyApproved, Board!NewlyApproved, BoardThms!Unresolved, Board!Unresolved,
       BoardThms!board, Board!board

(* No interleaving approves a child's work that no parent was asked about. *)
THEOREM CommittedApprovalsAreDecided == Spec => ApprovalNeedsDecision
BY BoardHolds, BoardThms!ApprovalsAreDecided, DaysAreDates, ParentAssignedAreDefs, PTL
   DEF BoardThms!ApprovalNeedsDecision, ApprovalNeedsDecision, Board!ApprovalNeedsDecision,
       BoardThms!NewlyApproved, Board!NewlyApproved,
       BoardThms!board, Board!board
=============================================================================
