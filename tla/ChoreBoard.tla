----------------------------- MODULE ChoreBoard -----------------------------
(***************************************************************************)
(* What the chore tables promise to everybody who looks at them: the life  *)
(* of the dated occurrences of a chore, and nothing of how it is stored.   *)
(*                                                                         *)
(* A definition gives one chore to one person; its occurrences ("chore     *)
(* instances" in the code) are told apart by their due date, because       *)
(* (chore_definition_id, due_date) is unique and child_id is copied from   *)
(* the definition.  Chores implements this module with whole operations as *)
(* steps, ChoreTx with the statements of concurrent transactions.          *)
(***************************************************************************)
EXTENDS ChoreDates

VARIABLES
    status,      \* status[d][e]: the occurrence of d due on e
    unseen       \* unseen[d][e]: older dates of d whose occurrence appeared when
                 \* that of e was being approved, which may not know of it

board == <<status, unseen>>

Unresolved == {"incomplete", "pending_approval", "rejected"}
Resubmittable == {"incomplete", "rejected"}
Status == Unresolved \cup {"approved", "none"}

(* An approval resolves the occurrence and every older one still open but  *)
(* those left.                                                             *)
CaughtUp(row, e, left) ==
    [x \in Days |-> IF x = e \/ (x < e /\ row[x] \in Unresolved /\ x \notin left)
                    THEN "approved" ELSE row[x]]

Init ==
    /\ status = [d \in Defs |-> [e \in Days |-> "none"]]
    /\ unseen = [d \in Defs |-> [e \in Days |-> {}]]

(* Occurrences due on e appear, for the definitions that had none.         *)
Appear(ds, e) ==
    /\ \A d \in ds : status[d][e] = "none"
    /\ status' = [d \in Defs |-> IF d \in ds
                                 THEN [status[d] EXCEPT ![e] = "incomplete"]
                                 ELSE status[d]]

Submit(d, e) ==
    /\ d \notin ParentAssigned
    /\ status[d][e] \in Resubmittable
    /\ status' = [status EXCEPT ![d][e] = "pending_approval"]

SelfApprove(d, e) ==
    /\ d \in ParentAssigned
    /\ status[d][e] \in Resubmittable
    /\ \E left \in SUBSET unseen[d][e] :
          status' = [status EXCEPT ![d] = CaughtUp(status[d], e, left)]

Approve(d, e) ==
    /\ status[d][e] = "pending_approval"
    /\ \E left \in SUBSET unseen[d][e] :
          status' = [status EXCEPT ![d] = CaughtUp(status[d], e, left)]

Reject(d, e) ==
    /\ status[d][e] = "pending_approval"
    /\ status' = [status EXCEPT ![d][e] = "rejected"]

Retry(d, e) ==
    /\ status[d][e] = "rejected"
    /\ status' = [status EXCEPT ![d][e] = "incomplete"]

(* Deleting assignments takes open occurrences away, never approved ones.  *)
Withdraw(gone) ==
    /\ \A p \in gone : status[p[1]][p[2]] \in Unresolved
    /\ status' = [d \in Defs |-> [e \in Days |->
                    IF <<d, e>> \in gone THEN "none" ELSE status[d][e]]]

Changes ==
    \/ \E ds \in SUBSET Defs, e \in Days : Appear(ds, e)
    \/ \E d \in Defs, e \in Days :
          Submit(d, e) \/ SelfApprove(d, e) \/ Approve(d, e)
             \/ Reject(d, e) \/ Retry(d, e)
    \/ \E gone \in SUBSET (Defs \X Days) : Withdraw(gone)

(* An approval of it may be under way.                                     *)
Approvable(d, e) ==
    \/ status[d][e] = "pending_approval"
    \/ d \in ParentAssigned /\ status[d][e] \in Resubmittable

(* What an approval may overlook is what appears while it is under way:    *)
(* nothing that was there when the occurrence was put up for approval.     *)
Overlooks ==
    /\ unseen' \in [Defs -> [Days -> SUBSET Days]]
    /\ \A d \in Defs, e \in Days :
          /\ unseen'[d][e] # {} => Approvable(d, e)'
          /\ \A x \in unseen'[d][e] \ unseen[d][e] :
                /\ x < e /\ Approvable(d, e)
                /\ status[d][x] = "none" /\ status'[d][x] = "incomplete"

(* An approval that begins, or is given up, changes no occurrence.         *)
Next == (Changes \/ UNCHANGED status) /\ Overlooks

Spec == Init /\ [][Next]_board

-----------------------------------------------------------------------------
(* Every occurrence has one of the five states.                            *)
TypeOK ==
    /\ status \in [Defs -> [Days -> Status]]
    /\ unseen \in [Defs -> [Days -> SUBSET Days]]

(* A chore given to a parent is informational: nobody is ever asked to     *)
(* approve it and nobody can reject it (MarkComplete skips the decision).  *)
ParentChoresSkipApproval ==
    \A d \in ParentAssigned, e \in Days :
        status[d][e] \notin {"pending_approval", "rejected"}

NewlyApproved(d, e) == status[d][e] # "approved" /\ status'[d][e] = "approved"

(* The weekly report and the points rest on approved occurrences: once     *)
(* approved, an occurrence is neither reopened nor deleted by anything.    *)
ApprovedIsFinal ==
    [][\A d \in Defs, e \in Days :
         status[d][e] = "approved" => status'[d][e] = "approved"]_board

(* Doing a chore once catches up its backlog: a step that approves an      *)
(* occurrence leaves no older occurrence of that definition open, but one  *)
(* that appeared while the approval was under way.                         *)
ApprovalClearsBacklog ==
    [][\A d \in Defs, e, x \in Days :
         NewlyApproved(d, e) /\ x < e /\ status'[d][x] \in Unresolved =>
            \E g \in Days : g >= e /\ NewlyApproved(d, g) /\ x \in unseen[d][g]]_board

(* A child's occurrence is approved only together with one of the same     *)
(* definition, due no earlier, that a parent was asked about in that step. *)
ApprovalNeedsDecision ==
    [][\A d \in Defs \ ParentAssigned, e \in Days :
         NewlyApproved(d, e) =>
            \E g \in Days : /\ g >= e
                            /\ status[d][g] = "pending_approval"
                            /\ status'[d][g] = "approved"]_board

(* A rejection concerns the one occurrence it names, never the backlog.    *)
RejectionIsLocal ==
    [][\A d \in Defs, e \in Days :
         status[d][e] # "rejected" /\ status'[d][e] = "rejected" =>
            \A c \in Defs, x \in Days :
               <<c, x>> # <<d, e>> => status'[c][x] = status[c][x]]_board
=============================================================================
