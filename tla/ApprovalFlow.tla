---------------------------- MODULE ApprovalFlow ----------------------------
(***************************************************************************)
(* A chore from the kiosk tile to a parent's decision: the handlers of     *)
(* kiosk.go, kiosk_week.go, approval.go and parent.go around the stores of *)
(* Chores, with the clock, the e-mails and the goroutines that send them.  *)
(* A handler is one step here; ChoreTx has the steps inside its            *)
(* transactions.  The assignments exist already and keep their schedule,   *)
(* but for being deleted; a change of schedule is a bootstrap file edited  *)
(* between two runs of the server.                                         *)
(***************************************************************************)
EXTENDS Chores, FiniteSetsExt

CONSTANTS
    Ahead,       \* days the scheduler generates beyond today: 2
    WeekAhead,   \* days the week view generates beyond today: 4
    LinkTTL,     \* days an e-mailed link stays valid (APPROVAL_LINK_TTL)
    MaxTaps      \* bound: submissions of children's chores, all together

ASSUME AheadIsNat == Ahead \in Nat /\ WeekAhead \in Nat
ASSUME LinkTTLIsNat == LinkTTL \in Nat
ASSUME TapsAreCounted == MaxTaps \in Nat

VARIABLES
    today,       \* the date of time.Now()
    notices,     \* occurrences a notifyParentsOfCompletion goroutine runs for
    mails,       \* e-mails delivered: the occurrence and when its links expire
    rounds,      \* history: how often each occurrence was submitted
    taps         \* the submissions so far, all together

announced == <<notices, mails, rounds, taps>>
flowVars == <<chore, def, inst, today, announced>>

Occurrences == Defs \X Days
Actions == {"approve", "reject"}

(* An e-mail holds an approve and a reject link.  no, which the code does  *)
(* not have, says which submission of the occurrence it announces.         *)
Mail == [of : Occurrences, expires : Nat, no : 1 .. MaxTaps]

FlowInit ==
    /\ chore = [c \in Catalog |-> "active"]
    /\ \E s \in [Defs -> Schedules] :
          def = [d \in Defs |-> [state |-> "active", weekdays |-> s[d].weekdays,
                                 date |-> s[d].date]]
    /\ inst = [d \in Defs |-> [e \in Days |-> Absent]]
    /\ today \in {e \in Days : \A x \in Days : e <= x}
    /\ notices = {}
    /\ mails = {}
    /\ rounds = [p \in Occurrences |-> 0]
    /\ taps = 0

Asleep == UNCHANGED <<chore, def, today, announced>>

-----------------------------------------------------------------------------
(* Occurrences are created from today on, date by date.                    *)
Generate(dates) ==
    /\ inst' = Generated(inst, dates)
    /\ Asleep

(* The page and its polls generate today.  A failure ends the week view    *)
(* and cuts off its later dates; the scheduler goes on with the next date. *)
KioskPage == Generate({today})
KioskWeek == \E n \in 0 .. WeekAhead : Generate(today .. (today + n))
GenerateChoreInstances ==
    \E dates \in SUBSET (today .. (today + Ahead)) : Generate(dates)

(* A parent is told of a child's submission only.                          *)
(* Mutants of Notified and Notice: told of every tap; of the definition.   *)
NotifiedOfTaps(d, e) == d \notin ParentAssigned
Notified(d, e) == Tappable(d, e) /\ d \notin ParentAssigned

NoticeOfDefinition(d, e) == [of |-> d, no |-> rounds[<<d, e>>] + 1]
Notice(d, e) == [of |-> <<d, e>>, no |-> rounds[<<d, e>>] + 1]

(* A page shows an occurrence to come only when the days up to it have     *)
(* been generated: the week view is one page or an error.                  *)
OnPage(d, e) ==
    /\ inst[d][e].status # "none"
    /\ \A x \in Days : today <= x /\ x < e /\ AppliesOn(d, x) => inst[d][x] # Absent

(* A tap on what is no longer tappable (a stale page, a double tap) is no  *)
(* error.  The answer is the page, with today's occurrences generated, or  *)
(* one day of the week view, with none.                                    *)
Tap(d, e, dates) ==
    LET after == IF Tappable(d, e) THEN Completed(d, e) ELSE inst
        submitted == Tappable(d, e) /\ d \notin ParentAssigned
    IN /\ OnPage(d, e)
       /\ submitted => taps < MaxTaps
       /\ inst' = Generated(after, dates)
       /\ notices' = IF Notified(d, e) THEN notices \cup {Notice(d, e)} ELSE notices
       /\ rounds' = IF submitted THEN [rounds EXCEPT ![<<d, e>>] = @ + 1] ELSE rounds
       /\ taps' = IF submitted THEN taps + 1 ELSE taps
       /\ UNCHANGED <<chore, def, today, mails>>

KioskCompleteChore(d, e) == Tap(d, e, {today})
KioskWeekCompleteChore(d, e) == Tap(d, e, {})

(* notifyParentsOfCompletion: one message to all the parents, or nothing   *)
(* when the occurrence is gone, the mail server fails or the server stops. *)
SendMail(n) ==
    /\ n \in notices
    /\ inst[n.of[1]][n.of[2]].status # "none"
    /\ notices' = notices \ {n}
    /\ mails' = mails \cup {[of |-> n.of, expires |-> today + LinkTTL, no |-> n.no]}
    /\ UNCHANGED <<chore, def, inst, today, rounds, taps>>

LoseNotice(n) ==
    /\ n \in notices
    /\ notices' = notices \ {n}
    /\ UNCHANGED <<chore, def, inst, today, mails, rounds, taps>>

Restart ==
    /\ notices' = {}
    /\ UNCHANGED <<chore, def, inst, today, mails, rounds, taps>>

(* ApprovalRespond: Verify looks at the expiry, Decide at the status; a    *)
(* link of an occurrence that is not pending answers "Already handled".    *)
ClickLink(m, action) ==
    LET d == m.of[1]
        e == m.of[2]
    IN /\ today <= m.expires
       /\ IF action = "approve" THEN Approve(d, e, Nobody) ELSE Reject(d, e, Nobody)
       /\ UNCHANGED <<today, announced>>

ParentDecideChore(d, e, p) ==
    /\ Decide(d, e, p)
    /\ UNCHANGED <<today, announced>>

ParentResetRejectedChore(d, e) ==
    /\ ResetRejected(d, e)
    /\ UNCHANGED <<today, announced>>

DeactivateChoreDefinition(d) ==
    /\ def[d].state = "active"
    /\ DeactivateDefinition(d)
    /\ UNCHANGED <<today, announced>>

ParentDeactivateChore(c) ==
    /\ chore[c] = "active"
    /\ DeactivateChore(c)
    /\ UNCHANGED <<today, announced>>

Midnight ==
    /\ today + 1 \in Days
    /\ today' = today + 1
    /\ UNCHANGED <<chore, def, inst, announced>>

FlowNext ==
    \/ KioskPage \/ KioskWeek \/ GenerateChoreInstances
    \/ \E d \in Defs, e \in Days : KioskCompleteChore(d, e) \/ KioskWeekCompleteChore(d, e)
    \/ \E n \in notices : SendMail(n) \/ LoseNotice(n)
    \/ Restart
    \/ \E m \in mails, a \in Actions : ClickLink(m, a)
    \/ \E d \in Defs, e \in Days, p \in Parents : ParentDecideChore(d, e, p)
    \/ \E d \in Defs, e \in Days : ParentResetRejectedChore(d, e)
    \/ \E d \in Defs : DeactivateChoreDefinition(d)
    \/ \E c \in Catalog : ParentDeactivateChore(c)
    \/ Midnight

FlowSpec == FlowInit /\ [][FlowNext]_flowVars

-----------------------------------------------------------------------------
(* ListActiveForDate and collapseChoreInstances: the tile of an assignment *)
(* is one of the occurrences the query returns, marked LATE when an older  *)
(* one is open.                                                            *)
Open(d, e) == inst[d][e].status \in Unresolved
Listed(d) == {e \in Days : \/ e = today /\ inst[d][e].status # "none"
                           \/ e < today /\ Open(d, e)}

(* Mutant of Tile: the oldest open occurrence.                             *)
OldestTile(d) ==
    LET unresolved == {e \in Listed(d) : Open(d, e)}
    IN IF unresolved # {} THEN Min(unresolved) ELSE Max(Listed(d))

Tile(d) ==
    LET unresolved == {e \in Listed(d) : Open(d, e)}
    IN IF today \in Listed(d) THEN today
       ELSE IF unresolved # {} THEN Max(unresolved) ELSE Max(Listed(d))

IsLate(d) ==
    /\ d \notin ParentAssigned
    /\ \E e \in Listed(d) : e < today /\ Open(d, e)

-----------------------------------------------------------------------------
(* The handlers keep the clock and the messages in their types.            *)
FlowTypeOK ==
    /\ TypeOK
    /\ today \in Days
    /\ notices \subseteq [of : Occurrences, no : 1 .. MaxTaps]
    /\ mails \subseteq Mail
    /\ taps \in 0 .. MaxTaps
    /\ rounds \in [Occurrences -> 0 .. taps]

(* The one tile a child sees stands for the whole backlog: while anything  *)
(* is open, the tile itself is open and no older than any of it, so that   *)
(* doing it and having it approved resolves everything, LATE mark included.*)
TileCoversBacklog ==
    \A d \in Defs, e \in Days :
        e <= today /\ Open(d, e) => Open(d, Tile(d)) /\ e <= Tile(d)

(* One submission is one e-mail: double taps, stale pages and resubmission *)
(* never announce the same submission twice, and none is announced that    *)
(* was not made.                                                           *)
OneMailPerSubmission ==
    \A p \in Occurrences :
        LET sent == {m \in mails : m.of = p}
            due == {n \in notices : n.of = p}
        IN Cardinality(sent) + Cardinality(due) <= rounds[p]

(* "the token is single-use in effect - the underlying chore_instance can  *)
(* only transition out of pending_approval once" (approval.go): a link     *)
(* decides the submission its e-mail announced and never a later one.      *)
LinkIsSingleUse ==
    [][\A m \in mails, a \in Actions : ClickLink(m, a) => m.no = rounds[m.of]]_flowVars
=============================================================================
