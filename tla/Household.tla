------------------------------ MODULE Household ------------------------------
(***************************************************************************)
(* The parents of a household: the first one (setup.go, main.go), those    *)
(* invited after (parent.go, invite.go), their passwords                   *)
(* (password_reset.go) and their removal.  No handler uses a transaction:  *)
(* what it has checked and what it then writes are two steps, and other    *)
(* requests run between them.                                              *)
(*                                                                         *)
(* Bounds: MaxPasswords per parent, MaxMails links in mailboxes at once,   *)
(* MaxRequests between check and write at once, of any kind.               *)
(***************************************************************************)
EXTENDS Naturals, FiniteSets

CONSTANTS
    Parents,         \* rows of parents, each with an e-mail address of its own
    FirstParent,     \* the row with BOOTSTRAP_PARENT_EMAIL, in a set, or {}
    MaxPasswords, MaxMails, MaxRequests

ASSUME FirstIsAParent == FirstParent \subseteq Parents /\ Cardinality(FirstParent) <= 1
ASSUME BoundsAreNumbers ==
    MaxPasswords \in Nat \ {0} /\ MaxMails \in Nat /\ MaxRequests \in Nat

VARIABLES
    row,        \* row[p]: absent, active, or removed (is_active = FALSE)
    password,   \* which password_hash is in the row; each is salted anew
    sessions,   \* the parents with a session
    mails,      \* links delivered that have not expired
    requests    \* what has been checked and not yet written

vars == <<row, password, sessions, mails, requests>>

NULL == 0
Link(kind, p) == [kind |-> kind, to |-> p, pw |-> password[p]]

Active == {p \in Parents : row[p] = "active"}       \* ListParents

(* RequireParent: whoever has a session.                                   *)
SignedIn == sessions # {}

Init ==
    /\ row = [p \in Parents |-> "absent"]
    /\ password = [p \in Parents |-> NULL]
    /\ sessions = {}
    /\ mails = {}
    /\ requests = {}

(* Send may lose the mail; that of an invitation is then a failed request  *)
(* whose row stays.                                                        *)
Mailed(link) ==
    \/ mails' = mails
    \/ mails' = mails \cup {link} /\ Cardinality(mails') <= MaxMails

(* A request: what it is going to do, to whom, and the password it found.  *)
(* no tells apart those for one parent.  overtaken is history: another has *)
(* undone what it had checked, and it has not written yet.                 *)
Request(op, p, pw) ==
    [op |-> op, of |-> p, pw |-> pw, overtaken |-> FALSE,
     no |-> CHOOSE n \in 1 .. MaxRequests : \A q \in requests : q.of = p => q.no # n]

Checked(op, p, pw) ==
    /\ Cardinality(requests) < MaxRequests
    /\ requests' = requests \cup {Request(op, p, pw)}
    /\ UNCHANGED <<row, password, sessions, mails>>

(* q, once it has written, goes on with op.                                *)
GoingOn(q, op) == [q EXCEPT !.op = op, !.pw = NULL, !.overtaken = FALSE]

Submitted(q) == q.op \in {"accept", "reset"}

(* What q writes is not what r had found: a password replaced, or one      *)
(* parent fewer besides the one that r removes.                            *)
Overtakes(q, r) ==
    \/ Submitted(q) /\ Submitted(r) /\ r.of = q.of
    \/ q.op = "remove" /\ r.op = "remove" /\ r.of # q.of /\ row[q.of] = "active"

(* The requests besides q after its write.                                 *)
Others(q) ==
    {[r EXCEPT !.overtaken = @ \/ Overtakes(q, r)] : r \in requests \ {q}}

-----------------------------------------------------------------------------
(* The INSERT of CreateParent, which the UNIQUE e-mail address refuses for *)
(* whoever is or was a parent.                                             *)
Inserted(p) ==
    /\ row[p] = "absent"
    /\ row' = [row EXCEPT ![p] = "active"]
    /\ password' = [password EXCEPT ![p] = 1]

(* main: what was under way is gone, the first parent is created if there  *)
(* is none; an error is logged and the server starts without.              *)
Restart ==
    /\ requests' = {}
    /\ \/ Active = {} /\ \E p \in FirstParent : Inserted(p)
       \/ UNCHANGED <<row, password>>
    /\ UNCHANGED <<sessions, mails>>

SetupSubmit(p) ==
    /\ Active = {}
    /\ Checked("setup", p, NULL)

SetupCreate(q) ==
    /\ q.op = "setup"
    /\ Inserted(q.of)
    /\ sessions' \in {sessions, sessions \cup {q.of}}
    /\ requests' = requests \ {q}
    /\ UNCHANGED mails

(* CreateParent of the dashboard, which invites.                           *)
CreateParent(p) ==
    /\ SignedIn
    /\ row[p] = "absent"
    /\ row' = [row EXCEPT ![p] = "active"]
    /\ Mailed(Link("invite", p))
    /\ UNCHANGED <<password, sessions, requests>>

ResendParentInvite(p) ==
    /\ SignedIn
    /\ row[p] # "absent"
    /\ password[p] = NULL
    /\ Mailed(Link("invite", p))
    /\ UNCHANGED <<row, password, sessions, requests>>

ForgotPasswordSubmit(p) ==
    /\ row[p] = "active"
    /\ Mailed(Link("reset", p))
    /\ UNCHANGED <<row, password, sessions, requests>>

-----------------------------------------------------------------------------
(* loadPendingInvite, loadPendingReset.  An invitation says whom it is     *)
(* for; a reset link is also signed with the hash it is to replace.        *)
InviteIsPending(m) == password[m.to] = NULL

(* Mutant of InviteIsPending: any parent that is there.                    *)
InviteIsKnown(m) == row[m.to] = "active"

(* Mutant of ResetIsValid: the signature without the hash.                 *)
ResetIsSigned(m) == row[m.to] = "active"

ResetIsValid(m) == m.pw = password[m.to] /\ row[m.to] = "active"

InviteAcceptSubmit(m) ==
    /\ m.kind = "invite"
    /\ InviteIsPending(m)
    /\ Checked("accept", m.to, m.pw)

ResetPasswordSubmit(m) ==
    /\ m.kind = "reset"
    /\ ResetIsValid(m)
    /\ Checked("reset", m.to, m.pw)

(* SetPasswordAndAccept and SetPassword write whatever the row holds now.  *)
(* A reset goes on to end the sessions there are; both sign in.            *)
SetPassword(q) ==
    /\ Submitted(q)
    /\ password[q.of] < MaxPasswords
    /\ password' = [password EXCEPT ![q.of] = @ + 1]
    /\ requests' = Others(q) \cup
                      {GoingOn(q, IF q.op = "reset" THEN "expel" ELSE "sign in")}
    /\ UNCHANGED <<row, sessions, mails>>

DeleteAllForUser(q) ==
    /\ q.op = "expel"
    /\ sessions' = sessions \ {q.of}
    /\ requests' = (requests \ {q}) \cup {GoingOn(q, "sign in")}
    /\ UNCHANGED <<row, password, mails>>

SignIn(q) ==
    /\ q.op = "sign in"
    /\ sessions' = sessions \cup {q.of}
    /\ requests' = requests \ {q}
    /\ UNCHANGED <<row, password, mails>>

LoginSubmit(p) ==
    /\ row[p] = "active"
    /\ password[p] # NULL
    /\ sessions' = sessions \cup {p}
    /\ UNCHANGED <<row, password, mails, requests>>

(* Logout of the last session of p, or its expiry.                         *)
Logout(p) ==
    /\ sessions' = sessions \ {p}
    /\ UNCHANGED <<row, password, mails, requests>>

-----------------------------------------------------------------------------
(* Mutant of OthersRemain: removed parents count as well.                  *)
OthersEverWere == Cardinality({p \in Parents : row[p] # "absent"}) > 1

OthersRemain == Cardinality(Active) > 1

RemoveUser(p) ==
    /\ SignedIn
    /\ row[p] # "absent"
    /\ OthersRemain
    /\ Checked("remove", p, NULL)

Deactivate(q) ==
    /\ q.op = "remove"
    /\ row' = [row EXCEPT ![q.of] = "removed"]
    /\ requests' = Others(q)
    /\ UNCHANGED <<password, sessions, mails>>

(* An error, a form refused, a request given up, wherever it stands.       *)
GiveUp(q) ==
    /\ requests' = requests \ {q}
    /\ UNCHANGED <<row, password, sessions, mails>>

Expire(m) ==
    /\ mails' = mails \ {m}
    /\ UNCHANGED <<row, password, sessions, requests>>

Next ==
    \/ Restart
    \/ \E p \in Parents :
          \/ SetupSubmit(p) \/ CreateParent(p) \/ ResendParentInvite(p)
          \/ ForgotPasswordSubmit(p) \/ LoginSubmit(p) \/ Logout(p) \/ RemoveUser(p)
    \/ \E m \in mails : InviteAcceptSubmit(m) \/ ResetPasswordSubmit(m) \/ Expire(m)
    \/ \E q \in requests :
          \/ SetupCreate(q) \/ SetPassword(q) \/ DeleteAllForUser(q) \/ SignIn(q)
          \/ Deactivate(q) \/ GiveUp(q)

Spec == Init /\ [][Next]_vars

-----------------------------------------------------------------------------
Steps == {"setup", "accept", "reset", "expel", "sign in", "remove"}

(* The type invariant, with the tables' foreign keys: passwords, sessions  *)
(* and links are of rows that are there.                                   *)
HouseholdTypeOK ==
    /\ row \in [Parents -> {"absent", "active", "removed"}]
    /\ password \in [Parents -> 0 .. MaxPasswords]
    /\ \A p \in Parents : password[p] # NULL => row[p] # "absent"
    /\ sessions \subseteq {p \in Parents : row[p] # "absent"}
    /\ \A m \in mails :
          m.kind \in {"invite", "reset"} /\ m.to \in Parents /\ row[m.to] # "absent"
    /\ \A q \in requests : q.op \in Steps /\ q.of \in Parents

(* "Removing the last remaining parent is blocked" (parent.go): once       *)
(* somebody administers the household somebody does after every step,      *)
(* whoever joins, resets or is removed meanwhile.  RemoveUser counts in    *)
(* one statement and deactivates in another, so the code has it but for    *)
(* one case: the removal that writes was overtaken, that is another one    *)
(* took a parent it had counted on.                                        *)
ParentRemains ==
    [][Active # {} =>
          Active' # {} \/ \E q \in requests : q.overtaken /\ Deactivate(q)]_vars

(* A link "can't be replayed after a successful reset, or after any other  *)
(* password change" (password_reset.go): the password that a submission    *)
(* replaces is the one its link was sent for, and nothing but a submission *)
(* replaces any.  Again but for the submission overtaken between its check *)
(* and its write by another one for the same parent.                       *)
LinkIsForPassword ==
    [][\A p \in Parents :
          password[p] # password'[p] =>
             \/ row[p] = "absent"
             \/ \E q \in requests :
                   /\ q.of = p /\ SetPassword(q)
                   /\ q.overtaken \/ q.pw = password[p]]_vars
=============================================================================
