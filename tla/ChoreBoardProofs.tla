-------------------------- MODULE ChoreBoardProofs --------------------------
(***************************************************************************)
(* Proofs about ChoreBoard, for every set of definitions and dates.        *)
(* Each promise is shown of one step first (lemmas), then of behaviours.   *)
(***************************************************************************)
EXTENDS ChoreBoard, TLAPS

(* What an approval does to one definition's occurrences.                  *)
LEMMA CaughtUpRow ==
    ASSUME NEW row \in [Days -> Status], NEW e \in Days, NEW left \in SUBSET Days
    PROVE  LET up == CaughtUp(row, e, left) IN
           /\ up \in [Days -> Status]
           /\ up[e] = "approved"
           /\ \A x \in Days : row[x] = "approved" => up[x] = "approved"
           /\ \A x \in Days : x < e /\ up[x] \in Unresolved => x \in left
           /\ \A x \in Days : up[x] # row[x] => up[x] = "approved" /\ x <= e
  BY DaysAreDates DEF CaughtUp, Status, Unresolved

(* So does the row of the one definition that an approval is about.        *)
LEMMA ApprovalOf ==
    ASSUME TypeOK, NEW d \in Defs, NEW e \in Days, SelfApprove(d, e) \/ Approve(d, e)
    PROVE  \E left \in SUBSET unseen[d][e] :
              /\ left \in SUBSET Days
              /\ CaughtUp(status[d], e, left) \in [Days -> Status]
              /\ status' = [status EXCEPT ![d] = CaughtUp(status[d], e, left)]
<1>1. PICK left \in SUBSET unseen[d][e] :
         status' = [status EXCEPT ![d] = CaughtUp(status[d], e, left)]
  BY DEF SelfApprove, Approve
<1>2. left \in SUBSET Days /\ status[d] \in [Days -> Status]
  BY DEF TypeOK
<1>3. CaughtUp(status[d], e, left) \in [Days -> Status]
  BY <1>2, CaughtUpRow
<1>. QED
  BY <1>1, <1>2, <1>3

(* Every occurrence keeps one of the five states.                          *)
LEMMA TypeStep == TypeOK /\ [Next]_board => TypeOK'
<1> SUFFICES ASSUME TypeOK, [Next]_board PROVE TypeOK'
  OBVIOUS
<1> DEFINE Typed == status \in [Defs -> [Days -> Status]]
<1> USE DEF TypeOK
<1>1. ASSUME NEW ds \in SUBSET Defs, NEW e \in Days, Appear(ds, e)
      PROVE  Typed'
  BY <1>1 DEF Appear, Status, Unresolved
<1>2. ASSUME NEW d \in Defs, NEW e \in Days, Submit(d, e)
      PROVE  Typed'
  BY <1>2 DEF Submit, Status, Unresolved
<1>3. ASSUME NEW d \in Defs, NEW e \in Days, SelfApprove(d, e)
      PROVE  Typed'
  BY <1>3, ApprovalOf
<1>4. ASSUME NEW d \in Defs, NEW e \in Days, Approve(d, e)
      PROVE  Typed'
  BY <1>4, ApprovalOf
<1>5. ASSUME NEW d \in Defs, NEW e \in Days, Reject(d, e)
      PROVE  Typed'
  BY <1>5 DEF Reject, Status, Unresolved
<1>6. ASSUME NEW d \in Defs, NEW e \in Days, Retry(d, e)
      PROVE  Typed'
  BY <1>6 DEF Retry, Status, Unresolved
<1>7. ASSUME NEW gone \in SUBSET (Defs \X Days), Withdraw(gone)
      PROVE  Typed'
  BY <1>7 DEF Withdraw, Status
<1>8. ASSUME UNCHANGED status PROVE Typed'
  BY <1>8
<1>9. Typed'
  BY <1>1, <1>2, <1>3, <1>4, <1>5, <1>6, <1>7, <1>8 DEF Next, Changes, board
<1>10. unseen' \in [Defs -> [Days -> SUBSET Days]]
  BY DEF Next, Overlooks, board
<1>. QED
  BY <1>9, <1>10

(* The type invariant of every behaviour.                                  *)
THEOREM BoardTypeCorrect == Spec => []TypeOK
<1>1. Init => TypeOK
  BY DEF Init, TypeOK, Status
<1>. QED
  BY <1>1, TypeStep, PTL DEF Spec

(* A parent's own chore is never put up for approval (MarkComplete).       *)
THEOREM ParentChoresAreInformational == Spec => []ParentChoresSkipApproval
<1>1. Init => ParentChoresSkipApproval
  BY ParentAssignedAreDefs DEF Init, ParentChoresSkipApproval
<1>2. TypeOK /\ ParentChoresSkipApproval /\ [Next]_board
        => ParentChoresSkipApproval'
  <2> SUFFICES ASSUME TypeOK, ParentChoresSkipApproval, [Next]_board,
                      NEW c \in ParentAssigned, NEW x \in Days
               PROVE  status'[c][x] \notin {"pending_approval", "rejected"}
    BY DEF ParentChoresSkipApproval
  <2> DEFINE Held == status[c][x] \notin {"pending_approval", "rejected"}
  <2>0. Held /\ c \in Defs
    BY ParentAssignedAreDefs DEF ParentChoresSkipApproval
  <2> USE <2>0 DEF TypeOK
  <2>1. ASSUME NEW ds \in SUBSET Defs, NEW e \in Days, Appear(ds, e)
        PROVE  status'[c][x] \in {status[c][x], "incomplete"}
    BY <2>1 DEF Appear
  <2>2. ASSUME NEW d \in Defs, NEW e \in Days, Submit(d, e)
        PROVE  status'[c][x] = status[c][x]
    BY <2>2 DEF Submit
  <2>3. ASSUME NEW d \in Defs, NEW e \in Days, SelfApprove(d, e) \/ Approve(d, e)
        PROVE  status'[c][x] \in {status[c][x], "approved"}
    <3>1. PICK left \in SUBSET Days :
             status' = [status EXCEPT ![d] = CaughtUp(status[d], e, left)]
      BY <2>3, ApprovalOf
    <3>. QED
      BY <3>1, CaughtUpRow
  <2>4. ASSUME NEW d \in Defs, NEW e \in Days, Reject(d, e) \/ Retry(d, e)
        PROVE  status'[c][x] = status[c][x]
    BY <2>4 DEF Reject, Retry, ParentChoresSkipApproval
  <2>5. ASSUME NEW gone \in SUBSET (Defs \X Days), Withdraw(gone)
        PROVE  status'[c][x] \in {status[c][x], "none"}
    BY <2>5 DEF Withdraw
  <2>. QED
    BY <2>1, <2>2, <2>3, <2>4, <2>5 DEF Next, Changes, board
<1>. QED
  BY <1>1, <1>2, BoardTypeCorrect, PTL DEF Spec

(* Nothing the stores do reopens or deletes an approved occurrence.        *)
LEMMA ApprovedStep ==
    ASSUME TypeOK, Next, NEW c \in Defs, NEW x \in Days, status[c][x] = "approved"
    PROVE  status'[c][x] = "approved"
<1> USE DEF TypeOK
<1>1. ASSUME NEW ds \in SUBSET Defs, NEW e \in Days, Appear(ds, e)
      PROVE  status'[c][x] = "approved"
  BY <1>1 DEF Appear
<1>2. ASSUME NEW d \in Defs, NEW e \in Days,
             Submit(d, e) \/ Reject(d, e) \/ Retry(d, e)
      PROVE  status'[c][x] = "approved"
  BY <1>2 DEF Submit, Reject, Retry, Resubmittable
<1>3. ASSUME NEW d \in Defs, NEW e \in Days, SelfApprove(d, e) \/ Approve(d, e)
      PROVE  status'[c][x] = "approved"
  <2>1. PICK left \in SUBSET Days :
           status' = [status EXCEPT ![d] = CaughtUp(status[d], e, left)]
    BY <1>3, ApprovalOf
  <2>. QED
    BY <2>1, CaughtUpRow
<1>4. ASSUME NEW gone \in SUBSET (Defs \X Days), Withdraw(gone)
      PROVE  status'[c][x] = "approved"
  BY <1>4 DEF Withdraw, Unresolved
<1>. QED
  BY <1>1, <1>2, <1>3, <1>4 DEF Next, Changes

(* Points and weekly history never shrink.                                 *)
THEOREM ApprovalsAreFinal == Spec => ApprovedIsFinal
<1>1. TypeOK /\ [Next]_board =>
        [\A d \in Defs, e \in Days :
            status[d][e] = "approved" => status'[d][e] = "approved"]_board
  BY ApprovedStep
<1>. QED
  BY <1>1, BoardTypeCorrect, PTL DEF Spec, ApprovedIsFinal

(* Whatever approves an occurrence is an approval of one of its row, due   *)
(* no earlier, that somebody had been asked about unless it is a parent's. *)
LEMMA ApprovalStep ==
    ASSUME TypeOK, Next, NEW c \in Defs, NEW x \in Days, NewlyApproved(c, x)
    PROVE  \E g \in Days : \E left \in SUBSET unseen[c][g] :
              /\ x <= g
              /\ NewlyApproved(c, g)
              /\ status'[c] = CaughtUp(status[c], g, left)
              /\ c \notin ParentAssigned => status[c][g] = "pending_approval"
<1> USE DEF TypeOK, NewlyApproved
<1>1. ASSUME NEW ds \in SUBSET Defs, NEW e \in Days, Appear(ds, e)
      PROVE  FALSE
  BY <1>1 DEF Appear
<1>2. ASSUME NEW d \in Defs, NEW e \in Days,
             Submit(d, e) \/ Reject(d, e) \/ Retry(d, e)
      PROVE  FALSE
  BY <1>2 DEF Submit, Reject, Retry
<1>3. ASSUME NEW d \in Defs, NEW e \in Days, SelfApprove(d, e) \/ Approve(d, e)
      PROVE  /\ c = d
             /\ \E left \in SUBSET unseen[c][e] :
                   /\ x <= e
                   /\ NewlyApproved(c, e)
                   /\ status'[c] = CaughtUp(status[c], e, left)
             /\ c \notin ParentAssigned => status[c][e] = "pending_approval"
  <2>1. PICK left \in SUBSET unseen[d][e] :
           status' = [status EXCEPT ![d] = CaughtUp(status[d], e, left)]
    BY <1>3 DEF SelfApprove, Approve
  <2>2. c = d /\ status'[c] = CaughtUp(status[c], e, left)
    BY <2>1
  <2>3. x <= e /\ status'[c][e] = "approved"
    BY <2>2, CaughtUpRow
  <2>. QED
    BY <1>3, <2>2, <2>3 DEF SelfApprove, Approve, Resubmittable
<1>4. ASSUME NEW gone \in SUBSET (Defs \X Days), Withdraw(gone)
      PROVE  FALSE
  BY <1>4 DEF Withdraw
<1>. QED
  BY <1>1, <1>2, <1>3, <1>4 DEF Next, Changes

(* Doing a chore once catches up everything missed before it, but what     *)
(* appeared while the approval was under way.                              *)
THEOREM ApprovalsCatchUp == Spec => ApprovalClearsBacklog
<1>1. ASSUME TypeOK, Next, NEW c \in Defs, NEW x \in Days, NEW y \in Days,
             NewlyApproved(c, x), y < x, status'[c][y] \in Unresolved
      PROVE  \E g \in Days : g >= x /\ NewlyApproved(c, g) /\ y \in unseen[c][g]
  <2>1. PICK g \in Days : \E left \in SUBSET unseen[c][g] :
           /\ x <= g
           /\ NewlyApproved(c, g)
           /\ status'[c] = CaughtUp(status[c], g, left)
    BY <1>1, ApprovalStep
  <2>2. y < g /\ g >= x
    BY <1>1, <2>1, DaysAreDates
  <2>3. y \in unseen[c][g]
    BY <1>1, <2>1, <2>2, CaughtUpRow DEF TypeOK
  <2>. QED
    BY <2>1, <2>2, <2>3
<1>2. TypeOK /\ [Next]_board =>
        [\A d \in Defs, e, x \in Days :
            NewlyApproved(d, e) /\ x < e /\ status'[d][x] \in Unresolved =>
               \E g \in Days : g >= e /\ NewlyApproved(d, g) /\ x \in unseen[d][g]]_board
  BY <1>1
<1>. QED
  BY <1>2, BoardTypeCorrect, PTL DEF Spec, ApprovalClearsBacklog

(* No child's work counts before a parent has decided on it or on a later  *)
(* occurrence of the same assignment.                                      *)
THEOREM ApprovalsAreDecided == Spec => ApprovalNeedsDecision
<1>1. ASSUME TypeOK, Next, NEW c \in Defs \ ParentAssigned, NEW x \in Days,
             NewlyApproved(c, x)
      PROVE  \E g \in Days : /\ g >= x
                             /\ status[c][g] = "pending_approval"
                             /\ status'[c][g] = "approved"
  <2>1. PICK g \in Days : /\ x <= g
                          /\ NewlyApproved(c, g)
                          /\ status[c][g] = "pending_approval"
    BY <1>1, ApprovalStep
  <2>2. status'[c][g] = "approved"
    BY <2>1 DEF NewlyApproved
  <2>. QED
    BY <2>1, <2>2, DaysAreDates
<1>2. TypeOK /\ [Next]_board =>
        [\A d \in Defs \ ParentAssigned, e \in Days :
            NewlyApproved(d, e) =>
               \E g \in Days : /\ g >= e
                               /\ status[d][g] = "pending_approval"
                               /\ status'[d][g] = "approved"]_board
  BY <1>1
<1>. QED
  BY <1>2, BoardTypeCorrect, PTL DEF Spec, ApprovalNeedsDecision

(* Rejecting one day's work leaves every other occurrence as it is.        *)
THEOREM RejectionsAreLocal == Spec => RejectionIsLocal
<1>1. ASSUME TypeOK, Next, NEW c \in Defs, NEW x \in Days,
             status[c][x] # "rejected", status'[c][x] = "rejected",
             NEW b \in Defs, NEW y \in Days, <<b, y>> # <<c, x>>
      PROVE  status'[b][y] = status[b][y]
  <2> USE DEF TypeOK
  <2>1. ASSUME NEW ds \in SUBSET Defs, NEW e \in Days, Appear(ds, e)
        PROVE  FALSE
    BY <1>1, <2>1 DEF Appear
  <2>2. ASSUME NEW d \in Defs, NEW e \in Days, Submit(d, e) \/ Retry(d, e)
        PROVE  FALSE
    BY <1>1, <2>2 DEF Submit, Retry
  <2>3. ASSUME NEW d \in Defs, NEW e \in Days, SelfApprove(d, e) \/ Approve(d, e)
        PROVE  FALSE
    <3>1. PICK left \in SUBSET unseen[d][e] :
             status' = [status EXCEPT ![d] = CaughtUp(status[d], e, left)]
      BY <2>3 DEF SelfApprove, Approve
    <3>2. c = d /\ status'[c] = CaughtUp(status[c], e, left)
      BY <1>1, <3>1
    <3>3. status'[c][x] # status[c][x] /\ status'[c][x] # "approved"
      BY <1>1
    <3>. QED
      BY <3>2, <3>3 DEF CaughtUp
  <2>4. ASSUME NEW d \in Defs, NEW e \in Days, Reject(d, e)
        PROVE  status'[b][y] = status[b][y]
    BY <1>1, <2>4 DEF Reject
  <2>5. ASSUME NEW gone \in SUBSET (Defs \X Days), Withdraw(gone)
        PROVE  FALSE
    BY <1>1, <2>5 DEF Withdraw
  <2>. QED
    BY <1>1, <2>1, <2>2, <2>3, <2>4, <2>5 DEF Next, Changes
<1>2. TypeOK /\ [Next]_board =>
        [\A d \in Defs, e \in Days :
            status[d][e] # "rejected" /\ status'[d][e] = "rejected" =>
               \A c \in Defs, x \in Days :
                  <<c, x>> # <<d, e>> => status'[c][x] = status[c][x]]_board
  BY <1>1
<1>. QED
  BY <1>2, BoardTypeCorrect, PTL DEF Spec, RejectionIsLocal
=============================================================================
