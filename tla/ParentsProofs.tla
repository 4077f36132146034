---------------------------- MODULE ParentsProofs ---------------------------
(***************************************************************************)
(* Proofs about the parents of a household and the weekly report that is   *)
(* e-mailed to them, for any number of parents and mails, every length of  *)
(* week, day and hour, every schedule and every number of mishaps.         *)
(***************************************************************************)
EXTENDS Household, WeeklyReport, FiniteSetTheorems, TLAPS

-----------------------------------------------------------------------------
(* The household: links, and the last parent.                              *)

(* A request has its fields.                                               *)
Shaped(q) ==
    q \in [op : Steps, of : Parents, pw : {q.pw}, overtaken : BOOLEAN, no : {q.no}]

(* What q had checked before it writes: a submission the password that its *)
(* link was sent for, a removal that it leaves another parent.             *)
StillHolds(q) ==
    /\ Submitted(q) => q.pw = password[q.of]
    /\ q.op = "remove" => \E p \in Active : p # q.of

(* Why links and removals are safe but for the overtaken: an invitation is *)
(* for no password, and what a request has checked stays true until        *)
(* another one that it competes with writes, which marks it.               *)
HouseholdInv ==
    /\ HouseholdTypeOK
    /\ \A m \in mails : m.kind = "invite" => m.pw = NULL
    /\ \A q \in requests :
          /\ Shaped(q)
          /\ q.op \notin {"setup", "remove"} => row[q.of] # "absent"
          /\ ~q.overtaken => StillHolds(q)

(* Before the first start.                                                 *)
LEMMA HouseholdInit == Init => HouseholdInv
  BY BoundsAreNumbers DEF Init, HouseholdInv, HouseholdTypeOK, NULL

(* Of more than one parent there is one besides whoever is removed.        *)
LEMMA OthersAreThere ==
    ASSUME OthersRemain, NEW x PROVE \E p \in Active : p # x
<1> SUFFICES ASSUME Active \subseteq {x} PROVE FALSE
  OBVIOUS
<1>1. IsFiniteSet({x}) /\ Cardinality({x}) = 1
  BY FS_Singleton
<1>2. Cardinality(Active) <= 1 /\ Cardinality(Active) \in Nat
  BY <1>1, FS_Subset, FS_CardinalityType
<1>. QED
  BY <1>2 DEF OthersRemain

(* A request that is added, and changes nothing else.                      *)
LEMMA CheckedKeeps ==
    ASSUME HouseholdInv, NEW op \in Steps, NEW p \in Parents, NEW pw,
           Checked(op, p, pw),
           op \notin {"setup", "remove"} => row[p] # "absent",
           op \in {"accept", "reset"} => pw = password[p],
           op = "remove" => OthersRemain
    PROVE  HouseholdInv'
<1> DEFINE new == Request(op, p, pw)
<1>1. new.op = op /\ new.of = p /\ new.pw = pw /\ ~new.overtaken /\ Shaped(new)
  BY DEF Request, Shaped
<1>2. requests' = requests \cup {new} /\ UNCHANGED <<row, password, sessions, mails>>
  BY DEF Checked
<1>3. Active' = Active
  BY <1>2 DEF Active
<1> HIDE DEF new
<1>4. op = "remove" => \E x \in Active : x # p
  BY OthersAreThere
<1>5. ASSUME NEW q \in requests'
      PROVE  Shaped(q) /\ (q.op \notin {"setup", "remove"} => row'[q.of] # "absent")
             /\ (~q.overtaken => StillHolds(q)')
  BY <1>1, <1>2, <1>3, <1>4, <1>5 DEF HouseholdInv, StillHolds, Submitted
<1>6. HouseholdTypeOK'
  BY <1>1, <1>2 DEF HouseholdInv, HouseholdTypeOK
<1>. QED
  BY <1>2, <1>5, <1>6 DEF HouseholdInv, Shaped

(* Requests, links or sessions that go, and rows that nobody deactivates.  *)
LEMMA GoneKeeps ==
    ASSUME HouseholdInv, requests' \subseteq requests, mails' \subseteq mails,
           UNCHANGED <<row, password>>,
           sessions' \subseteq {p \in Parents : row[p] # "absent"}
    PROVE  HouseholdInv'
  BY DEF HouseholdInv, HouseholdTypeOK, StillHolds, Active, Shaped, NULL

(* A link that is sent, perhaps to a row that is new.                      *)
LEMMA MailedKeeps ==
    ASSUME HouseholdInv, NEW kind \in {"invite", "reset"}, NEW p \in Parents,
           Mailed(Link(kind, p)), UNCHANGED <<password, sessions, requests>>,
           row' = row \/ row' = [row EXCEPT ![p] = "active"],
           row'[p] # "absent",
           kind = "invite" => password[p] = NULL
    PROVE  HouseholdInv'
<1>1. HouseholdTypeOK' /\ \A m \in mails' : m.kind = "invite" => m.pw = NULL
  BY DEF HouseholdInv, HouseholdTypeOK, Mailed, Link, NULL
<1>2. Active \subseteq Active'
  BY DEF Active, HouseholdInv, HouseholdTypeOK
<1>3. \A x \in Parents : row[x] # "absent" => row'[x] # "absent"
  BY DEF HouseholdInv, HouseholdTypeOK
<1>. QED
  BY <1>1, <1>2, <1>3 DEF HouseholdInv, StillHolds, Shaped, HouseholdTypeOK

(* A parent with a password from the start.                                *)
LEMMA InsertedKeeps ==
    ASSUME HouseholdInv, NEW p \in Parents, Inserted(p),
           requests' \subseteq requests, mails' = mails,
           sessions' \in {sessions, sessions \cup {p}}
    PROVE  HouseholdInv'
<1>1. HouseholdTypeOK'
  BY BoundsAreNumbers DEF HouseholdInv, HouseholdTypeOK, Inserted, NULL
<1>2. Active \subseteq Active'
  BY DEF Active, HouseholdInv, HouseholdTypeOK, Inserted
<1>3. \A x \in Parents : row[x] # "absent" =>
         row'[x] # "absent" /\ password'[x] = password[x]
  BY DEF HouseholdInv, HouseholdTypeOK, Inserted
<1>4. \A q \in requests : q.of \in Parents /\ (Submitted(q) => row[q.of] # "absent")
  BY DEF HouseholdInv, HouseholdTypeOK, Submitted
<1>. QED
  BY <1>1, <1>2, <1>3, <1>4 DEF HouseholdInv, StillHolds, Shaped

(* A request that goes on has nothing more to check.                       *)
LEMMA GoesOn ==
    ASSUME NEW q, Shaped(q), NEW op \in {"expel", "sign in"}
    PROVE  LET next == GoingOn(q, op)
           IN  /\ Shaped(next) /\ next.op = op /\ next.of = q.of
               /\ ~next.overtaken
  BY DEF Shaped, GoingOn, Steps

(* The others are what they were, but for the mark.                        *)
LEMMA OthersAre ==
    ASSUME HouseholdInv, NEW q \in requests, NEW s \in Others(q)
    PROVE  /\ Shaped(s)
           /\ \E r \in requests \ {q} :
                 /\ s.op = r.op /\ s.of = r.of /\ s.pw = r.pw
                 /\ s.overtaken <=> r.overtaken \/ Overtakes(q, r)
<1>1. PICK r \in requests \ {q} : s = [r EXCEPT !.overtaken = @ \/ Overtakes(q, r)]
  BY DEF Others
<1>2. Shaped(r)
  BY DEF HouseholdInv
<1>3. Overtakes(q, r) \in BOOLEAN
  BY DEF Overtakes, Submitted
<1>. QED
  BY <1>1, <1>2, <1>3 DEF Shaped

(* A password that is stored marks the other submissions for its parent.   *)
LEMMA SetPasswordKeeps ==
    ASSUME HouseholdInv, NEW q \in requests, SetPassword(q)
    PROVE  HouseholdInv'
<1> DEFINE next == GoingOn(q, IF q.op = "reset" THEN "expel" ELSE "sign in")
<1>1. requests' = Others(q) \cup {next} /\ UNCHANGED <<row, sessions, mails>>
  BY DEF SetPassword
<1>2. Shaped(next) /\ next.op \in {"expel", "sign in"} /\ next.of = q.of
  BY GoesOn DEF HouseholdInv
<1> HIDE DEF next
<1>3. q.of \in Parents /\ row[q.of] # "absent" /\ Submitted(q)
  BY DEF HouseholdInv, HouseholdTypeOK, SetPassword, Submitted
<1>4. password' = [password EXCEPT ![q.of] = @ + 1] /\ password[q.of] < MaxPasswords
  BY DEF SetPassword
<1>5. /\ password' \in [Parents -> 0 .. MaxPasswords]
      /\ \A p \in Parents : p # q.of => password'[p] = password[p]
  BY <1>3, <1>4, BoundsAreNumbers DEF HouseholdInv, HouseholdTypeOK
<1>6. ASSUME NEW s \in requests'
      PROVE  /\ Shaped(s) /\ s.op \in Steps /\ s.of \in Parents
             /\ s.op \notin {"setup", "remove"} => row'[s.of] # "absent"
             /\ ~s.overtaken => StillHolds(s)'
  <2>1. CASE s = next
    BY <1>1, <1>2, <1>3, <2>1 DEF StillHolds, Submitted, Steps
  <2>2. CASE s \in Others(q)
    <3>1. PICK r \in requests \ {q} :
             /\ s.op = r.op /\ s.of = r.of /\ s.pw = r.pw
             /\ s.overtaken <=> r.overtaken \/ Overtakes(q, r)
      BY <2>2, OthersAre
    <3>2. Shaped(s) /\ s.op \in Steps /\ s.of \in Parents
      BY <2>2, <3>1, OthersAre DEF HouseholdInv, HouseholdTypeOK
    <3>3. ASSUME ~s.overtaken PROVE StillHolds(s)'
      <4>1. StillHolds(r) /\ ~(Submitted(r) /\ r.of = q.of)
        BY <1>3, <3>1, <3>3 DEF HouseholdInv, Overtakes
      <4>2. Active' = Active
        BY <1>1 DEF Active
      <4>. QED
        BY <1>5, <3>1, <3>2, <4>1, <4>2 DEF StillHolds, Submitted
    <3>. QED
      BY <1>1, <3>1, <3>2, <3>3 DEF HouseholdInv
  <2>. QED
    BY <1>1, <2>1, <2>2
<1>7. HouseholdTypeOK'
  BY <1>1, <1>3, <1>5, <1>6 DEF HouseholdInv, HouseholdTypeOK
<1>. QED
  BY <1>1, <1>6, <1>7 DEF HouseholdInv, Shaped

(* A removal marks the removals of other parents, and they alone counted   *)
(* on the one who goes.                                                    *)
LEMMA DeactivateKeeps ==
    ASSUME HouseholdInv, NEW q \in requests, Deactivate(q)
    PROVE  HouseholdInv'
<1>1. /\ requests' = Others(q) /\ row' = [row EXCEPT ![q.of] = "removed"]
      /\ UNCHANGED <<password, sessions, mails>> /\ q.op = "remove"
  BY DEF Deactivate
<1>2. q.of \in Parents
  BY DEF HouseholdInv, HouseholdTypeOK
<1>3. ASSUME NEW s \in requests'
      PROVE  /\ Shaped(s) /\ s.op \in Steps /\ s.of \in Parents
             /\ s.op \notin {"setup", "remove"} => row'[s.of] # "absent"
             /\ ~s.overtaken => StillHolds(s)'
  <2>1. PICK r \in requests \ {q} :
             /\ s.op = r.op /\ s.of = r.of /\ s.pw = r.pw
             /\ s.overtaken <=> r.overtaken \/ Overtakes(q, r)
    BY <1>1, OthersAre
  <2>2. Shaped(s) /\ s.op \in Steps /\ s.of \in Parents
    BY <1>1, <2>1, OthersAre DEF HouseholdInv, HouseholdTypeOK
  <2>3. s.op \notin {"setup", "remove"} => row'[s.of] # "absent"
    BY <1>1, <2>1 DEF HouseholdInv, HouseholdTypeOK
  <2>4. ASSUME ~s.overtaken, s.op = "remove" PROVE \E p \in Active' : p # s.of
    <3>1. PICK p \in Active : p # r.of
      BY <2>1, <2>4 DEF HouseholdInv, StillHolds
    <3>2. r.of = q.of \/ row[q.of] # "active"
      BY <1>1, <2>1, <2>4 DEF Overtakes
    <3>. QED
      BY <1>1, <2>1, <3>1, <3>2 DEF Active, HouseholdInv, HouseholdTypeOK
  <2>5. ASSUME ~s.overtaken, Submitted(s) PROVE s.pw = password'[s.of]
    BY <1>1, <2>1, <2>5 DEF HouseholdInv, StillHolds, Submitted
  <2>. QED
    BY <2>2, <2>3, <2>4, <2>5 DEF StillHolds
<1>4. HouseholdTypeOK'
  BY <1>1, <1>2, <1>3 DEF HouseholdInv, HouseholdTypeOK
<1>. QED
  BY <1>1, <1>3, <1>4 DEF HouseholdInv, Shaped

(* One case per action.                                                    *)
LEMMA HouseholdStep == HouseholdInv /\ [Next]_vars => HouseholdInv'
<1> SUFFICES ASSUME HouseholdInv, [Next]_vars PROVE HouseholdInv'
  OBVIOUS
<1>a. HouseholdTypeOK
  BY DEF HouseholdInv
<1>1. CASE Restart
  <2>1. CASE Active = {} /\ \E p \in FirstParent : Inserted(p)
    BY <1>1, <2>1, FirstIsAParent, InsertedKeeps DEF Restart
  <2>2. CASE UNCHANGED <<row, password>>
    BY <1>1, <1>a, <2>2, GoneKeeps DEF Restart, HouseholdTypeOK
  <2>. QED
    BY <1>1, <2>1, <2>2 DEF Restart
<1>2. ASSUME NEW p \in Parents, SetupSubmit(p)
      PROVE  HouseholdInv'
  BY <1>2, CheckedKeeps DEF SetupSubmit, Steps
<1>3. ASSUME NEW p \in Parents, CreateParent(p)
      PROVE  HouseholdInv'
  <2>1. password[p] = NULL /\ row'[p] = "active"
    BY <1>3, <1>a DEF CreateParent, HouseholdTypeOK
  <2>. QED
    BY <1>3, <2>1, MailedKeeps DEF CreateParent
<1>4. ASSUME NEW p \in Parents, ResendParentInvite(p)
      PROVE  HouseholdInv'
  BY <1>4, MailedKeeps DEF ResendParentInvite
<1>5. ASSUME NEW p \in Parents, ForgotPasswordSubmit(p)
      PROVE  HouseholdInv'
  BY <1>5, MailedKeeps DEF ForgotPasswordSubmit
<1>6. ASSUME NEW p \in Parents, LoginSubmit(p) \/ Logout(p)
      PROVE  HouseholdInv'
  BY <1>6, <1>a, GoneKeeps DEF LoginSubmit, Logout, HouseholdTypeOK
<1>7. ASSUME NEW p \in Parents, RemoveUser(p)
      PROVE  HouseholdInv'
  BY <1>7, CheckedKeeps DEF RemoveUser, Steps
<1>8. ASSUME NEW m \in mails, InviteAcceptSubmit(m)
      PROVE  HouseholdInv'
  BY <1>8, <1>a, CheckedKeeps
     DEF InviteAcceptSubmit, InviteIsPending, HouseholdInv, HouseholdTypeOK, Steps
<1>9. ASSUME NEW m \in mails, ResetPasswordSubmit(m)
      PROVE  HouseholdInv'
  BY <1>9, <1>a, CheckedKeeps
     DEF ResetPasswordSubmit, ResetIsValid, HouseholdTypeOK, Steps
<1>10. ASSUME NEW m \in mails, Expire(m)
       PROVE  HouseholdInv'
  BY <1>10, <1>a, GoneKeeps DEF Expire, HouseholdTypeOK
<1>11. ASSUME NEW q \in requests, SetupCreate(q)
       PROVE  HouseholdInv'
  BY <1>11, <1>a, InsertedKeeps DEF SetupCreate, HouseholdTypeOK
<1>12. ASSUME NEW q \in requests, SetPassword(q)
       PROVE  HouseholdInv'
  BY <1>12, SetPasswordKeeps
<1>13. ASSUME NEW q \in requests, DeleteAllForUser(q)
       PROVE  HouseholdInv'
  <2> DEFINE next == GoingOn(q, "sign in")
  <2>1. requests' = (requests \ {q}) \cup {next} /\ q.op = "expel"
    BY <1>13 DEF DeleteAllForUser
  <2>2. Shaped(next) /\ next.op = "sign in" /\ next.of = q.of
    BY GoesOn DEF HouseholdInv
  <2> HIDE DEF next
  <2>3. UNCHANGED <<row, password, mails>> /\ sessions' \subseteq sessions /\ Active' = Active
    BY <1>13 DEF DeleteAllForUser, Active
  <2>4. HouseholdTypeOK'
    <3>1. \A r \in requests' : r.op \in Steps /\ r.of \in Parents
      BY <1>a, <2>1, <2>2 DEF HouseholdTypeOK, Steps
    <3>. QED
      BY <1>a, <2>3, <3>1 DEF HouseholdTypeOK
  <2>. QED
    BY <2>1, <2>2, <2>3, <2>4 DEF HouseholdInv, StillHolds, Submitted, Shaped
<1>14. ASSUME NEW q \in requests, SignIn(q)
       PROVE  HouseholdInv'
  <2>1. sessions' \subseteq {p \in Parents : row[p] # "absent"}
    BY <1>14, <1>a DEF SignIn, HouseholdInv, HouseholdTypeOK
  <2>. QED
    BY <1>14, <2>1, GoneKeeps DEF SignIn
<1>15. ASSUME NEW q \in requests, Deactivate(q)
       PROVE  HouseholdInv'
  BY <1>15, DeactivateKeeps
<1>16. ASSUME NEW q \in requests, GiveUp(q)
       PROVE  HouseholdInv'
  BY <1>16, <1>a, GoneKeeps DEF GiveUp, HouseholdTypeOK
<1>17. CASE UNCHANGED vars
  BY <1>17, <1>a, GoneKeeps DEF vars, HouseholdTypeOK
<1>. QED
  BY <1>1, <1>2, <1>3, <1>4, <1>5, <1>6, <1>7, <1>8, <1>9, <1>10, <1>11,
     <1>12, <1>13, <1>14, <1>15, <1>16, <1>17 DEF Next

(* Types and the tables' foreign keys, in every household.                 *)
THEOREM HouseholdTypeCorrect == Spec => []HouseholdTypeOK
<1>1. HouseholdInv => HouseholdTypeOK
  BY DEF HouseholdInv
<1>. QED
  BY <1>1, HouseholdInit, HouseholdStep, PTL DEF Spec

(* What stores a password or deactivates is a request that has checked;    *)
(* every other step leaves each parent's password, and who is active.      *)
LEMMA WritersOfParents ==
    ASSUME HouseholdInv, Next, ~\E q \in requests : SetPassword(q) \/ Deactivate(q)
    PROVE  \A p \in Parents :
              /\ row[p] # "absent" => password'[p] = password[p]
              /\ row[p] = "active" => row'[p] = "active"
<1>a. HouseholdTypeOK
  BY DEF HouseholdInv
<1>1. CASE Restart
  BY <1>1, <1>a, FirstIsAParent DEF Restart, Inserted, HouseholdTypeOK
<1>2. ASSUME NEW p \in Parents,
             \/ SetupSubmit(p) \/ ResendParentInvite(p)
             \/ ForgotPasswordSubmit(p) \/ LoginSubmit(p) \/ Logout(p) \/ RemoveUser(p)
      PROVE  UNCHANGED <<row, password>>
  BY <1>2 DEF SetupSubmit, ResendParentInvite, ForgotPasswordSubmit,
              LoginSubmit, Logout, RemoveUser, Checked
<1>3. ASSUME NEW p \in Parents, CreateParent(p)
      PROVE  UNCHANGED password /\ \A x \in Parents : row[x] = "active" => row'[x] = "active"
  BY <1>3, <1>a DEF CreateParent, HouseholdTypeOK
<1>4. ASSUME NEW m \in mails,
             InviteAcceptSubmit(m) \/ ResetPasswordSubmit(m) \/ Expire(m)
      PROVE  UNCHANGED <<row, password>>
  BY <1>4 DEF InviteAcceptSubmit, ResetPasswordSubmit, Expire, Checked
<1>5. ASSUME NEW q \in requests, DeleteAllForUser(q) \/ SignIn(q) \/ GiveUp(q)
      PROVE  UNCHANGED <<row, password>>
  BY <1>5 DEF DeleteAllForUser, SignIn, GiveUp
<1>6. ASSUME NEW q \in requests, SetupCreate(q)
      PROVE  \A p \in Parents :
                /\ row[p] # "absent" => password'[p] = password[p]
                /\ row[p] = "active" => row'[p] = "active"
  BY <1>6, <1>a DEF SetupCreate, Inserted, HouseholdTypeOK
<1>. QED
  BY <1>1, <1>2, <1>3, <1>4, <1>5, <1>6 DEF Next

(* No reset link and no invitation replaces another password than the one  *)
(* it was sent for, unless a second submission came between its check and  *)
(* its write: in every household, with any number of requests under way.   *)
THEOREM LinksAreForPasswords == Spec => LinkIsForPassword
<1>1. HouseholdInv /\ [Next]_vars =>
        [\A p \in Parents :
            password[p] # password'[p] =>
               \/ row[p] = "absent"
               \/ \E q \in requests :
                     /\ q.of = p /\ SetPassword(q)
                     /\ q.overtaken \/ q.pw = password[p]]_vars
  <2> SUFFICES ASSUME HouseholdInv, Next, NEW p \in Parents,
                      password[p] # password'[p], row[p] # "absent"
               PROVE  \E q \in requests :
                         /\ q.of = p /\ SetPassword(q)
                         /\ q.overtaken \/ q.pw = password[p]
    OBVIOUS
  <2>1. PICK q \in requests : SetPassword(q) \/ Deactivate(q)
    BY WritersOfParents
  <2>2. SetPassword(q)
    BY <2>1 DEF Deactivate
  <2>3. q.of = p
    BY <2>2 DEF SetPassword, HouseholdInv, HouseholdTypeOK
  <2>4. q.overtaken \/ q.pw = password[p]
    BY <2>2, <2>3 DEF SetPassword, HouseholdInv, StillHolds, Submitted
  <2>. QED
    BY <2>2, <2>3, <2>4
<1>. QED
  BY <1>1, HouseholdInit, HouseholdStep, PTL DEF Spec, LinkIsForPassword

(* A removal never takes the last parent unless another one came between   *)
(* its count and its write, however many are under way.                    *)
THEOREM RemovalsLeaveAParent == Spec => ParentRemains
<1>1. HouseholdInv /\ [Next]_vars =>
        [Active # {} =>
            Active' # {} \/ \E q \in requests : q.overtaken /\ Deactivate(q)]_vars
  <2> SUFFICES ASSUME HouseholdInv, Next, Active # {},
                      ~\E q \in requests : q.overtaken /\ Deactivate(q)
               PROVE  Active' # {}
    OBVIOUS
  <2>1. ASSUME NEW q \in requests, Deactivate(q)
        PROVE  Active' # {}
    <3>1. PICK p \in Active : p # q.of
      BY <2>1 DEF HouseholdInv, StillHolds, Deactivate
    <3>. QED
      BY <2>1, <3>1 DEF Deactivate, Active, HouseholdInv, HouseholdTypeOK
  <2>2. ASSUME NEW q \in requests, SetPassword(q)
        PROVE  Active' # {}
    BY <2>2 DEF SetPassword, Active
  <2>3. ASSUME ~\E q \in requests : SetPassword(q) \/ Deactivate(q)
        PROVE  Active' # {}
    BY <2>3, WritersOfParents DEF Active
  <2>. QED
    BY <2>1, <2>2, <2>3
<1>. QED
  BY <1>1, HouseholdInit, HouseholdStep, PTL DEF Spec, ParentRemains

-----------------------------------------------------------------------------
(* The weekly report: no report twice.                                     *)

(* The last mail is not of a later day, nor of a later hour of this day    *)
(* unless the clock was moved since.                                       *)
MailIsPast ==
    last # None =>
        /\ last.day <= day
        /\ ~last.moved /\ last.day = day => last.hour <= hour

(* A process that knows of the last mail remembers a day no earlier.       *)
ProcessRemembers ==
    last # None /\ ~last.forgotten =>
        lastSentWeek # None /\ last.day <= lastSentWeek /\ lastSentWeek <= day

(* A report under way is not one of a day remembered.                      *)
NotSentToday == tick = Sending => lastSentWeek # day

(* In the hour of a mail that the process does not know of, its ticker     *)
(* does not fire again: it has fired, or it was made later in the hour,    *)
(* and waits for a whole one.                                              *)
TickerWaits ==
    last # None /\ last.forgotten /\ ~last.moved /\ last.day = day /\ last.hour = hour =>
        /\ tick = None
        /\ up => slot > phase \/ (slot = phase /\ ticked)

(* A tick under way is that of this slot.                                  *)
TickIsNow == tick # None => up /\ ticked /\ slot = phase

WeeklyInv ==
    /\ WeeklyTypeOK
    /\ MailIsPast /\ ProcessRemembers /\ NotSentToday /\ TickerWaits /\ TickIsNow

-----------------------------------------------------------------------------
LEMMA WeeklyInvInit == ReportInit => WeeklyInv
<1> SUFFICES ASSUME ReportInit PROVE WeeklyInv
  OBVIOUS
<1>1. hour \in Hours /\ day \in Nat
  BY LengthsArePositive DEF ReportInit, Hours
<1>2. week \in [no : Nat, mails : Seq(Int), quiet : BOOLEAN]
  BY DEF ReportInit
<1>3. WeeklyTypeOK
  BY <1>1, <1>2, SchedulesAreGiven DEF ReportInit, WeeklyTypeOK
<1> QED BY <1>3, NoneIsNew DEF ReportInit, WeeklyInv, MailIsPast, ProcessRemembers,
                               NotSentToday, TickerWaits, TickIsNow

(* The steps that leave the week's record as it is, or mark it disturbed.  *)
LEMMA DisturbKeepsType ==
    ASSUME WeeklyTypeOK, Disturb
    PROVE  /\ week' \in [no : Nat, mails : Seq(Int), quiet : BOOLEAN]
           /\ week'.mails = week.mails /\ week'.no = week.no /\ ~week'.quiet
BY DEF WeeklyTypeOK, Disturb

(* Time passes: a new hour is not that of the mail, a new slot not the     *)
(* ticker's.                                                               *)
LEMMA AdvanceKeeps == WeeklyInv /\ Advance => WeeklyInv'
<1> SUFFICES ASSUME WeeklyInv, Advance PROVE WeeklyInv'
  OBVIOUS
<1> USE DEF WeeklyInv
<1>t. HoursPerDay \in Nat \ {0} /\ HourLength \in Nat \ {0}
  BY LengthsArePositive
<1>1. tick = None /\ form = None
  BY DEF Advance, Busy
<1>2. /\ day \in Nat /\ hour \in Hours /\ slot \in Slots /\ phase \in Slots
      /\ last # None => last.day \in Nat /\ last.hour \in Hours
      /\ lastSentWeek # None => lastSentWeek \in Nat
  BY DEF WeeklyTypeOK
<1>3. /\ UNCHANGED <<saved, form, up, phase, tick, lastSentWeek, last>>
      /\ ticked' = FALSE
      /\ slot' = IF LastSlot THEN 0 ELSE slot + 1
      /\ hour' = IF ~LastSlot THEN hour ELSE IF LastHour THEN 0 ELSE hour + 1
      /\ day' = IF LastSlot /\ LastHour THEN day + 1 ELSE day
  BY DEF Advance
<1>4. day' \in Nat /\ hour' \in Hours /\ slot' \in Slots
  BY <1>2, <1>3, <1>t DEF LastSlot, LastHour, Hours, Slots
<1>5. week' \in [no : Nat, mails : Seq(Int), quiet : BOOLEAN]
  <2>1. CASE WeekOver
    <3>1. week' = [no |-> week.no + 1, mails |-> <<>>, quiet |-> up]
      BY <2>1 DEF Advance
    <3> QED BY <3>1 DEF WeeklyTypeOK
  <2>2. CASE ~WeekOver
    BY <2>2 DEF Advance, WeeklyTypeOK
  <2> QED BY <2>1, <2>2
<1>6. WeeklyTypeOK'
  BY <1>3, <1>4, <1>5 DEF WeeklyTypeOK
<1>7. day <= day' /\ (day' = day => hour <= hour')
      /\ (day' = day /\ hour' = hour => slot' = slot + 1)
  BY <1>2, <1>3, <1>t DEF LastSlot, LastHour, Hours, Slots
<1>8. MailIsPast' /\ ProcessRemembers' /\ NotSentToday'
  BY <1>1, <1>2, <1>3, <1>4, <1>7, NoneIsNew
     DEF MailIsPast, ProcessRemembers, NotSentToday, Hours
<1>9. TickerWaits'
  <2> SUFFICES ASSUME last # None, last.forgotten, ~last.moved, last.day = day', last.hour = hour'
               PROVE  /\ tick = None
                      /\ up => slot' > phase
    BY <1>3 DEF TickerWaits
  <2>1. day' = day /\ hour' = hour
    BY <1>2, <1>4, <1>7 DEF MailIsPast, Hours
  <2>2. slot' = slot + 1
    BY <2>1, <1>7
  <2>3. up => slot >= phase
    BY <2>1, <1>2 DEF TickerWaits, Slots
  <2> QED BY <1>1, <1>2, <2>2, <2>3 DEF Slots
<1>10. TickIsNow'
  BY <1>1, <1>3 DEF TickIsNow
<1> QED BY <1>6, <1>8, <1>9, <1>10

(* The clock is changed, the process stops or starts.                      *)
LEMMA MishapsKeep == WeeklyInv /\ (Shift \/ Stop \/ Start) => WeeklyInv'
<1> SUFFICES ASSUME WeeklyInv, Shift \/ Stop \/ Start PROVE WeeklyInv'
  OBVIOUS
<1> USE DEF WeeklyInv
<1>2. /\ day \in Nat /\ hour \in Hours /\ slot \in Slots
      /\ last # None =>
           last \in [day : Nat, hour : Hours, forgotten : BOOLEAN, moved : BOOLEAN]
      /\ lastSentWeek # None => lastSentWeek \in Nat
  BY DEF WeeklyTypeOK
<1>3. week' \in [no : Nat, mails : Seq(Int), quiet : BOOLEAN]
  BY DisturbKeepsType DEF Shift, Stop, Start
<1>4. CASE Shift
  <2>1. tick = None /\ hour' \in Hours
        /\ UNCHANGED <<day, slot, saved, form, up, phase, ticked, tick, lastSentWeek>>
    BY <1>4 DEF Shift, Busy, process
  <2>2. last = None => last' = None
    BY <1>4 DEF Shift
  <2>3. last # None => /\ last' \in [day : Nat, hour : Hours, forgotten : BOOLEAN, moved : BOOLEAN]
                       /\ last'.day = last.day /\ last'.forgotten = last.forgotten /\ last'.moved
    BY <1>2, <1>4 DEF Shift
  <2>4. WeeklyTypeOK'
    BY <2>1, <2>2, <2>3, <1>3 DEF WeeklyTypeOK
  <2>5. MailIsPast' /\ ProcessRemembers' /\ NotSentToday' /\ TickerWaits'
        /\ TickIsNow'
    BY <2>1, <2>2, <2>3, NoneIsNew DEF MailIsPast, ProcessRemembers, NotSentToday, TickerWaits, TickIsNow
  <2> QED BY <2>4, <2>5
<1>5. CASE Stop
  <2>1. tick' = None /\ form' = None /\ lastSentWeek' = None /\ up' = FALSE
        /\ UNCHANGED <<day, hour, slot, saved, phase, ticked>>
    BY <1>5 DEF Stop, clock
  <2>2. last = None => last' = None
    BY <1>5 DEF Stop
  <2>3. last # None => /\ last' \in [day : Nat, hour : Hours, forgotten : BOOLEAN, moved : BOOLEAN]
                       /\ last'.day = last.day /\ last'.forgotten /\ last'.moved = last.moved
                       /\ last'.hour = last.hour
    BY <1>2, <1>5 DEF Stop
  <2>4. WeeklyTypeOK'
    BY <2>1, <2>2, <2>3, <1>3 DEF WeeklyTypeOK
  <2>5. MailIsPast' /\ ProcessRemembers' /\ NotSentToday' /\ TickerWaits'
        /\ TickIsNow'
    BY <2>1, <2>2, <2>3, NoneIsNew DEF MailIsPast, ProcessRemembers, NotSentToday, TickerWaits, TickIsNow
  <2> QED BY <2>4, <2>5
<1>6. CASE Start
  <2>1. up' = TRUE /\ phase' = slot /\ ticked' = TRUE
        /\ UNCHANGED <<day, hour, slot, saved, form, tick, lastSentWeek, last>>
    BY <1>6 DEF Start, clock
  <2>2. WeeklyTypeOK'
    BY <2>1, <1>2, <1>3 DEF WeeklyTypeOK
  <2>3. MailIsPast' /\ ProcessRemembers' /\ NotSentToday' /\ TickerWaits'
        /\ TickIsNow'
    BY <2>1 DEF MailIsPast, ProcessRemembers, NotSentToday, TickerWaits, TickIsNow
  <2> QED BY <2>2, <2>3
<1> QED BY <1>4, <1>5, <1>6

(* The steps of a tick.                                                    *)
LEMMA TicksKeep ==
    WeeklyInv /\ (Tick \/ CheckDue \/ SendReport \/ SendFails \/ NobodyToMail)
        => WeeklyInv'
<1> SUFFICES ASSUME WeeklyInv, Tick \/ CheckDue \/ SendReport \/ SendFails \/ NobodyToMail
             PROVE  WeeklyInv'
  OBVIOUS
<1> USE DEF WeeklyInv
<1>c. UNCHANGED <<day, hour, slot, saved, form, up, phase>>
  BY DEF Tick, CheckDue, SendReport, SendFails, NobodyToMail, clock
<1>n. None \notin Weekdays /\ Sending \notin Weekdays /\ Sending # None
  BY NotANumber, NoneIsNew DEF Weekdays
<1>2. day \in Nat /\ hour \in Hours /\ saved \in Schedule
  BY DEF WeeklyTypeOK
<1>3. CASE Tick
  <2>1. tick' = saved.weekday /\ saved.weekday \in Weekdays /\ ticked' = TRUE
        /\ UNCHANGED <<lastSentWeek, last, week>>
    BY <1>3, <1>2 DEF Tick, history, Schedule
  <2>2. tick' # Sending /\ slot = phase /\ ~ticked /\ up
    BY <1>3, <2>1, <1>n DEF Tick, TickDue
  <2>3. WeeklyTypeOK'
    BY <2>1, <1>c DEF WeeklyTypeOK
  <2>4. MailIsPast' /\ ProcessRemembers' /\ NotSentToday'
    BY <2>1, <2>2, <1>c DEF MailIsPast, ProcessRemembers, NotSentToday
  <2>5. slot \in Int /\ phase \in Int
    BY DEF WeeklyTypeOK, Slots
  <2>6. ~(last # None /\ last.forgotten /\ ~last.moved /\ last.day = day /\ last.hour = hour)
    BY <2>2, <2>5 DEF TickerWaits
  <2>7. TickerWaits' /\ TickIsNow'
    BY <2>2, <2>6, <2>1, <1>c DEF TickerWaits, TickIsNow
  <2> QED BY <2>3, <2>4, <2>7
<1>4. CASE CheckDue
  <2>1. tick # None
    BY <1>4, <1>n DEF CheckDue
  <2>2. tick' \in {Sending, None} /\ (tick' = Sending => lastSentWeek # day)
        /\ UNCHANGED <<ticked, lastSentWeek, last, week>>
    <3>1. tick' = (IF Due(tick) THEN Sending ELSE None)
          /\ UNCHANGED <<ticked, lastSentWeek, last, week>>
      BY <1>4 DEF CheckDue, history
    <3>2. Due(tick) => lastSentWeek # day
      BY DEF Due
    <3> QED BY <3>1, <3>2, <1>n
  <2>3. WeeklyTypeOK'
    BY <2>2, <1>c DEF WeeklyTypeOK
  <2>4. MailIsPast' /\ ProcessRemembers' /\ NotSentToday' /\ TickerWaits'
        /\ TickIsNow'
    BY <2>1, <2>2, <1>c DEF MailIsPast, ProcessRemembers, NotSentToday, TickerWaits, TickIsNow
  <2> QED BY <2>3, <2>4
<1>5. CASE SendReport
  <2>1. tick' = None /\ lastSentWeek' = day /\ ticked' = ticked
        /\ last' = [day |-> day, hour |-> hour, forgotten |-> FALSE, moved |-> FALSE]
        /\ week' = [week EXCEPT !.mails = Append(@, ReportedWeek)]
    BY <1>5 DEF SendReport
  <2>2. ReportedWeek \in Int
    BY <1>2, LengthsArePositive DEF ReportedWeek
  <2>3. week' \in [no : Nat, mails : Seq(Int), quiet : BOOLEAN]
    <3>1. week \in [no : Nat, mails : Seq(Int), quiet : BOOLEAN]
      BY DEF WeeklyTypeOK
    <3>2. Append(week.mails, ReportedWeek) \in Seq(Int)
      BY <3>1, <2>2
    <3> QED BY <3>1, <3>2, <2>1
  <2>4. last' \in [day : Nat, hour : Hours, forgotten : BOOLEAN, moved : BOOLEAN]
        /\ last'.day = day /\ last'.hour = hour /\ ~last'.forgotten
    BY <2>1, <1>2
  <2>5. WeeklyTypeOK'
    BY <2>1, <2>3, <2>4, <1>c, <1>2 DEF WeeklyTypeOK
  <2>6. hour \in Int /\ lastSentWeek' # None
    BY <1>2, <2>1, NotANumber DEF Hours
  <2>7. MailIsPast' /\ ProcessRemembers' /\ NotSentToday' /\ TickerWaits'
        /\ TickIsNow'
    BY <2>1, <2>4, <2>6, <1>c, <1>n, <1>2
       DEF MailIsPast, ProcessRemembers, NotSentToday, TickerWaits, TickIsNow
  <2> QED BY <2>5, <2>7
<1>6. CASE NobodyToMail \/ (SendFails /\ Disturb /\ UNCHANGED last)
  <2>1. tick' = None /\ ticked' = ticked /\ last' = last
        /\ lastSentWeek' \in {lastSentWeek, day} /\ tick = Sending
    BY <1>6 DEF SendFails, NobodyToMail
  <2>2. week' \in [no : Nat, mails : Seq(Int), quiet : BOOLEAN]
    BY <1>6, DisturbKeepsType DEF NobodyToMail
  <2>3. WeeklyTypeOK'
    BY <2>1, <2>2, <1>c, <1>2 DEF WeeklyTypeOK
  <2>4. day # None
    BY <1>2, NotANumber
  <2>5. MailIsPast' /\ ProcessRemembers' /\ NotSentToday' /\ TickerWaits'
        /\ TickIsNow'
    BY <2>1, <2>4, <1>c, <1>n, <1>2
       DEF MailIsPast, ProcessRemembers, NotSentToday, TickerWaits, TickIsNow
  <2> QED BY <2>3, <2>5
<1>7. ASSUME SendFails, ~(Disturb /\ UNCHANGED last)
      PROVE  WeeklyInv'
  <2>1. tick = Sending /\ tick' = None /\ ticked' = ticked /\ lastSentWeek' = lastSentWeek
        /\ week' = [week EXCEPT !.mails = Append(@, ReportedWeek), !.quiet = FALSE]
        /\ last' = [day |-> day, hour |-> hour, forgotten |-> TRUE, moved |-> FALSE]
    BY <1>7 DEF SendFails
  <2>2. week' \in [no : Nat, mails : Seq(Int), quiet : BOOLEAN]
    <3>1. week \in [no : Nat, mails : Seq(Int), quiet : BOOLEAN]
      BY DEF WeeklyTypeOK
    <3>2. ReportedWeek \in Int
      BY <1>2, LengthsArePositive DEF ReportedWeek
    <3>3. Append(week.mails, ReportedWeek) \in Seq(Int)
      BY <3>1, <3>2
    <3> QED BY <3>1, <3>3, <2>1
  <2>3. last' \in [day : Nat, hour : Hours, forgotten : BOOLEAN, moved : BOOLEAN]
        /\ last'.day = day /\ last'.hour = hour /\ last'.forgotten
    BY <2>1, <1>2
  <2>4. WeeklyTypeOK'
    BY <2>1, <2>2, <2>3, <1>c DEF WeeklyTypeOK
  <2>5. hour \in Int /\ slot = phase /\ ticked
    BY <1>2, <1>n, <2>1 DEF Hours, TickIsNow
  <2>6. MailIsPast' /\ ProcessRemembers' /\ NotSentToday' /\ TickerWaits'
        /\ TickIsNow'
    BY <2>1, <2>3, <2>5, <1>c, <1>n, <1>2
       DEF MailIsPast, ProcessRemembers, NotSentToday, TickerWaits, TickIsNow
  <2> QED BY <2>4, <2>6
<1> QED BY <1>3, <1>4, <1>5, <1>6, <1>7

(* The settings form only changes what it saves.                           *)
LEMMA FormsKeep ==
    WeeklyInv /\ ((\E f \in Posted : UpdateSettings(f)) \/ SaveWeekday \/ SaveHour \/ EndForm)
        => WeeklyInv'
<1> SUFFICES ASSUME WeeklyInv,
                    (\E f \in Posted : UpdateSettings(f)) \/ SaveWeekday \/ SaveHour \/ EndForm
             PROVE  WeeklyInv'
  OBVIOUS
<1> USE DEF WeeklyInv
<1>1. UNCHANGED <<day, hour, slot, up, phase, ticked, tick, lastSentWeek, last>>
  BY DEF UpdateSettings, SaveWeekday, SaveHour, EndForm, clock, process, history
<1>2. week' \in [no : Nat, mails : Seq(Int), quiet : BOOLEAN]
  BY DisturbKeepsType DEF UpdateSettings, SaveWeekday, SaveHour, EndForm, history, WeeklyTypeOK
<1>3. saved' \in Schedule
  BY DEF UpdateSettings, SaveWeekday, SaveHour, EndForm, Schedule, WeeklyTypeOK
<1>4. form' \in Form \cup {None}
  BY SchedulesAreGiven DEF UpdateSettings, SaveWeekday, SaveHour, EndForm, Form, WeeklyTypeOK
<1>5. WeeklyTypeOK'
  BY <1>1, <1>2, <1>3, <1>4 DEF WeeklyTypeOK
<1>6. MailIsPast' /\ ProcessRemembers' /\ NotSentToday' /\ TickerWaits'
        /\ TickIsNow'
  BY <1>1 DEF MailIsPast, ProcessRemembers, NotSentToday, TickerWaits, TickIsNow
<1> QED BY <1>5, <1>6

LEMMA WeeklyInvNext == WeeklyInv /\ [ReportNext]_reportVars => WeeklyInv'
<1> SUFFICES ASSUME WeeklyInv, [ReportNext]_reportVars PROVE WeeklyInv'
  OBVIOUS
<1>1. CASE UNCHANGED reportVars
  BY <1>1 DEF reportVars, clock, process, history, WeeklyInv, WeeklyTypeOK, MailIsPast,
              ProcessRemembers, NotSentToday, TickerWaits, TickIsNow
<1> QED BY <1>1, AdvanceKeeps, MishapsKeep, TicksKeep, FormsKeep DEF ReportNext

LEMMA WeeklyInvariant == ReportSpec => []WeeklyInv
BY WeeklyInvInit, WeeklyInvNext, PTL DEF ReportSpec

-----------------------------------------------------------------------------
(* Every variable of the weekly report keeps its type: a form never leaves *)
(* a setting that is no weekday or hour.                                   *)
THEOREM WeeklyTypeCorrect == ReportSpec => []WeeklyTypeOK
<1>1. WeeklyInv => WeeklyTypeOK
  BY DEF WeeklyInv
<1> QED BY <1>1, WeeklyInvariant, PTL

(* No process sends again a report it knows it sent that day, and no hour  *)
(* has two, whatever restarts, failures (also after the delivery) and      *)
(* changes of the schedule or the clock there are: what a process does not *)
(* know, the wait of its ticker makes up for.                              *)
THEOREM ReportsAreNotDoubled == ReportSpec => NoDoubleSend
<1> DEFINE Fresh == last # None =>
                      \/ last.day # day
                      \/ last.forgotten /\ (last.hour # hour \/ last.moved)
<1>1. WeeklyInv /\ [ReportNext]_reportVars =>
        [week'.no = week.no /\ week'.mails # week.mails => Fresh]_reportVars
  <2> SUFFICES ASSUME WeeklyInv, ReportNext, week'.no = week.no, week'.mails # week.mails
               PROVE  Fresh
    OBVIOUS
  <2> USE DEF WeeklyInv
  <2>n. None \notin Weekdays /\ Sending # None /\ day \in Nat
        /\ (lastSentWeek # None => lastSentWeek \in Nat)
        /\ (last # None => last \in [day : Nat, hour : Hours, forgotten : BOOLEAN, moved : BOOLEAN])
    BY NotANumber, NoneIsNew DEF Weekdays, WeeklyTypeOK
  <2>1. ~Disturb /\ week' # week
    BY DisturbKeepsType
  <2>2. ~Advance
    <3>1. SUFFICES ASSUME Advance, WeekOver PROVE FALSE
      BY <2>1 DEF Advance
    <3>2. week'.no = week.no + 1 /\ week.no \in Nat
      BY <3>1 DEF Advance, WeeklyTypeOK
    <3> QED BY <3>2
  <2>3. SendReport \/ SendFails
    BY <2>1, <2>2 DEF ReportNext, Shift, Stop, Start, Tick, CheckDue, NobodyToMail,
                      UpdateSettings, SaveWeekday, SaveHour, EndForm, history
  <2>4. tick = Sending /\ lastSentWeek # day
    BY <2>3 DEF SendReport, SendFails, NotSentToday
  <2> QED BY <2>4, <2>n DEF MailIsPast, ProcessRemembers, TickerWaits
<1> QED BY <1>1, WeeklyInvariant, PTL DEF ReportSpec, NoDoubleSend

-----------------------------------------------------------------------------
(* ... and, in a quiet week, the one report: first what division gives.   *)

(* The quotient and the remainder are the only ones that fit.              *)
LEMMA DivUnique ==
    ASSUME NEW a \in Int, NEW d \in Nat \ {0}, NEW q \in Int, NEW p \in Int, NEW r \in Int,
           d * q <= a, a < d * q + d, a = d * p + r, 0 <= r, r < d
    PROVE  p = q /\ r = a - d * q
<1>1. d * p < d * (q + 1) /\ d * q < d * (p + 1)
  OBVIOUS
<1>2. p < q + 1 /\ q < p + 1
  BY <1>1
<1>. QED
  BY <1>2

(* The week that ended seven days before is the one before.                *)
LEMMA DivBefore ==
    ASSUME NEW a \in Int, NEW d \in Nat \ {0}
    PROVE  (a - d) \div d = (a \div d) - 1
<1> DEFINE p == a \div d
           o == (a - d) \div d
<1>1. p \in Int /\ d * p <= a /\ a < d * p + d
  OBVIOUS
<1>2. o \in Int /\ d * o <= a - d /\ a - d < d * o + d
  OBVIOUS
<1>. HIDE DEF p, o
<1>3. d * (o + 1) < d * (p + 1) /\ d * p < d * (o + 2)
  BY <1>1, <1>2
<1>4. o + 1 < p + 1 /\ p < o + 2
  BY <1>1, <1>2, <1>3
<1>. QED
  BY <1>1, <1>2, <1>4 DEF p, o

-----------------------------------------------------------------------------
(* The number of the week is the one of the day, and no report was sent on *)
(* a day to come.                                                          *)
FirstDay == WeekLength * week.no
DayInWeek == day - FirstDay
WeekIsCurrent ==
    /\ FirstDay <= day /\ day < FirstDay + WeekLength
    /\ lastSentWeek # None => lastSentWeek <= day

(* Before, at and after the moment of the week its report is due.          *)
AtDue == DayInWeek = saved.weekday /\ hour = saved.hour /\ slot = phase
BeforeDue ==
    \/ DayInWeek < saved.weekday
    \/ /\ DayInWeek = saved.weekday
       /\ hour < saved.hour \/ (hour = saved.hour /\ slot < phase)
AfterDue ==
    \/ DayInWeek > saved.weekday
    \/ /\ DayInWeek = saved.weekday
       /\ hour > saved.hour \/ (hour = saved.hour /\ slot > phase)

(* Of a quiet week: until the due moment is dealt with nothing was sent,   *)
(* this process remembers no day of the week; after it there is the one    *)
(* report.                                                                 *)
Pending == BeforeDue \/ (AtDue /\ (~ticked \/ tick # None))
Reported == AfterDue \/ (AtDue /\ ticked /\ tick = None)
Quiet ==
    week.quiet =>
        /\ up /\ form = None
        /\ tick \in {None, saved.weekday, Sending}
        /\ tick = Sending => AtDue
        /\ Pending => week.mails = <<>> /\ (lastSentWeek # None => lastSentWeek < FirstDay)
        /\ Reported => week.mails = <<LastEnding(FirstDay + saved.weekday)>>

QuietInv == WeeklyInv /\ WeekIsCurrent /\ Quiet /\ QuietWeekReported

LEMMA Numbers ==
    ASSUME WeeklyTypeOK
    PROVE  /\ WeekLength \in Nat \ {0} /\ HoursPerDay \in Nat \ {0} /\ HourLength \in Nat \ {0}
           /\ day \in Nat /\ hour \in 0 .. HoursPerDay - 1 /\ slot \in 0 .. HourLength - 1
           /\ phase \in 0 .. HourLength - 1
           /\ saved.weekday \in 0 .. WeekLength - 1 /\ saved.hour \in 0 .. HoursPerDay - 1
           /\ week.no \in Nat /\ FirstDay \in Nat
           /\ lastSentWeek # None => lastSentWeek \in Nat
<1>1. week.no \in Nat
  BY DEF WeeklyTypeOK
<1>2. FirstDay \in Nat
  BY <1>1, LengthsArePositive DEF FirstDay
<1>. QED
  BY <1>1, <1>2, LengthsArePositive DEF WeeklyTypeOK, Schedule, Weekdays, Hours, Slots

LEMMA TodayInWeek ==
    ASSUME WeeklyTypeOK, WeekIsCurrent
    PROVE  day % WeekLength = DayInWeek
<1> DEFINE p == day \div WeekLength
           r == day % WeekLength
           n == week.no
<1>1. day \in Int /\ WeekLength \in Nat \ {0} /\ n \in Int
  BY Numbers
<1>2. WeekLength * n <= day /\ day < WeekLength * n + WeekLength
  BY DEF WeekIsCurrent, FirstDay
<1>3. p \in Int /\ r \in Int /\ day = WeekLength * p + r /\ 0 <= r /\ r < WeekLength
  BY <1>1
<1>. HIDE DEF p, r, n
<1>4. r = day - WeekLength * n
  BY <1>1, <1>2, <1>3, DivUnique
<1>. QED
  BY <1>4 DEF r, n, DayInWeek, FirstDay

LEMMA QuietInvInit == ReportInit => QuietInv
<1> SUFFICES ASSUME ReportInit PROVE QuietInv
  OBVIOUS
<1>1. WeeklyInv
  BY WeeklyInvInit
<1>2. week.no = 0 /\ week.quiet = FALSE
  BY DEF ReportInit
<1>3. FirstDay = 0
  BY <1>2, LengthsArePositive DEF FirstDay
<1>. QED
  BY <1>1, <1>2, <1>3, LengthsArePositive DEF ReportInit, QuietInv, WeekIsCurrent, Quiet, QuietWeekReported

(* A week that ends quietly has had its report.                            *)
LEMMA QuietAdvances == QuietInv /\ Advance => (WeekIsCurrent /\ Quiet /\ QuietWeekReported)'
<1> SUFFICES ASSUME QuietInv, Advance PROVE (WeekIsCurrent /\ Quiet /\ QuietWeekReported)'
  OBVIOUS
<1> USE DEF QuietInv
<1>0. WeeklyTypeOK /\ WeekIsCurrent
  BY DEF WeeklyInv
<1>1. /\ ~(up /\ slot = phase /\ ~ticked) /\ tick = None /\ form = None
      /\ slot' = (IF LastSlot THEN 0 ELSE slot + 1)
      /\ hour' = (IF ~LastSlot THEN hour ELSE IF LastHour THEN 0 ELSE hour + 1)
      /\ day' = (IF LastSlot /\ LastHour THEN day + 1 ELSE day)
      /\ ticked' = FALSE
      /\ UNCHANGED <<saved, form, up, phase, tick, lastSentWeek>>
  BY DEF Advance, TickDue, Busy
<1>2. day % WeekLength = DayInWeek
  BY <1>0, TodayInWeek
<1>3. ~week.quiet \/ (up /\ (Pending => BeforeDue) /\ (AtDue => Reported))
  BY <1>1 DEF Quiet, Pending, Reported, AtDue
<1>4. CASE WeekOver
  <2>1. /\ prev' = [week |-> week, weekday |-> saved.weekday]
        /\ week' = [no |-> week.no + 1, mails |-> <<>>, quiet |-> up]
        /\ LastSlot /\ LastHour /\ DayInWeek = WeekLength - 1
    BY <1>2, <1>4 DEF Advance, WeekOver
  <2>2. FirstDay' = FirstDay + WeekLength /\ day' = FirstDay' /\ hour' = 0 /\ slot' = 0
    <3>1. week'.no = week.no + 1
      BY <2>1
    <3>2. FirstDay' = WeekLength * (week.no + 1)
      BY <3>1 DEF FirstDay
    <3>3. FirstDay' = FirstDay + WeekLength
      BY <3>2, <1>0, Numbers DEF FirstDay
    <3>. QED
      BY <1>0, <1>1, <2>1, <3>3, Numbers DEF DayInWeek
  <2>3. WeekIsCurrent'
    BY <1>0, <1>1, <2>2, Numbers DEF WeekIsCurrent
  <2>4. ~AfterDue'
    BY <1>0, <1>1, <2>2, Numbers DEF AfterDue, DayInWeek
  <2>5. Quiet'
    <3>1. lastSentWeek # None => lastSentWeek < FirstDay'
      BY <1>0, <2>2, Numbers DEF WeekIsCurrent
    <3>2. week'.mails = <<>> /\ week'.quiet = up
      BY <2>1
    <3>. QED
      BY <1>1, <2>4, <3>1, <3>2, NoneIsNew DEF Quiet, Reported
  <2>6. QuietWeekReported'
    <3> SUFFICES ASSUME week.quiet
                 PROVE  week.mails = <<LastEnding(week.no * WeekLength + saved.weekday)>>
      BY <2>1 DEF QuietWeekReported, LastEnding
    <3>1. ~BeforeDue /\ (AfterDue \/ AtDue)
      BY <1>0, <2>1, Numbers DEF BeforeDue, AfterDue, AtDue, LastSlot, LastHour
    <3>2. Reported
      BY <1>3, <3>1 DEF Reported
    <3>3. FirstDay = week.no * WeekLength
      BY <1>0, Numbers DEF FirstDay
    <3>. QED
      BY <3>2, <3>3 DEF Quiet
  <2>. QED
    BY <2>3, <2>5, <2>6
<1>5. CASE ~WeekOver
  <2>1. UNCHANGED <<prev, week>>
    BY <1>5 DEF Advance
  <2>2. FirstDay' = FirstDay /\ DayInWeek' = day' - FirstDay
    BY <2>1 DEF FirstDay, DayInWeek
  <2>3. WeekIsCurrent'
    BY <1>0, <1>1, <1>2, <1>5, <2>2, Numbers DEF WeekIsCurrent, WeekOver, DayInWeek
  <2>4. BeforeDue => BeforeDue' \/ AtDue'
    BY <1>0, <1>1, <2>2, Numbers DEF BeforeDue, AtDue, DayInWeek, LastSlot, LastHour
  <2>5. Reported => AfterDue'
    BY <1>0, <1>1, <2>2, Numbers DEF Reported, AtDue, AfterDue, DayInWeek, LastSlot, LastHour
  <2>6. /\ AfterDue' => ~BeforeDue' /\ ~AtDue'
        /\ BeforeDue \/ AtDue \/ AfterDue
    BY <1>0, <1>1, <2>2, Numbers DEF BeforeDue, AtDue, AfterDue, DayInWeek, LastSlot, LastHour
  <2>7. Quiet'
    <3> SUFFICES ASSUME week.quiet PROVE Quiet'
      BY <2>1 DEF Quiet
    <3>1. CASE BeforeDue
      <4>1. /\ Pending /\ (Reported' => FALSE) /\ tick = None
        BY <1>1, <2>4, <2>6, <3>1 DEF Pending, Reported
      <4>. QED
        BY <1>1, <2>1, <2>2, <4>1, NoneIsNew DEF Quiet
    <3>2. CASE ~BeforeDue
      <4>1. Reported
        BY <1>3, <2>6, <3>2 DEF Reported
      <4>2. ~Pending'
        BY <2>5, <2>6, <4>1 DEF Pending
      <4>. QED
        BY <1>1, <2>1, <2>2, <4>1, <4>2, NoneIsNew DEF Quiet, LastEnding
    <3>. QED
      BY <3>1, <3>2
  <2>8. QuietWeekReported'
    BY <2>1 DEF QuietWeekReported, LastEnding
  <2>. QED
    BY <2>3, <2>7, <2>8
<1>. QED
  BY <1>4, <1>5

(* What disturbs a week takes it out of the promise.                       *)
LEMMA DisturbedKeeps ==
    ASSUME QuietInv, week'.no = week.no, ~week'.quiet, UNCHANGED <<day, prev>>,
           lastSentWeek' \in {lastSentWeek, None, day}
    PROVE  (WeekIsCurrent /\ Quiet /\ QuietWeekReported)'
<1>2. FirstDay' = FirstDay
  BY DEF FirstDay
<1>3. day \in Nat
  BY Numbers DEF QuietInv, WeeklyInv
<1>. QED
  BY <1>2, <1>3 DEF QuietInv, WeekIsCurrent, Quiet, QuietWeekReported, LastEnding

(* The tick of the due moment sends the report, no other tick does.        *)
LEMMA QuietTicks ==
    QuietInv /\ (Tick \/ CheckDue \/ SendReport) => (WeekIsCurrent /\ Quiet /\ QuietWeekReported)'
<1> SUFFICES ASSUME QuietInv, Tick \/ CheckDue \/ SendReport
             PROVE  (WeekIsCurrent /\ Quiet /\ QuietWeekReported)'
  OBVIOUS
<1> USE DEF QuietInv
<1>0. WeeklyTypeOK /\ WeekIsCurrent
  BY DEF WeeklyInv
<1>1. UNCHANGED <<day, hour, slot, saved, form, up, phase, prev>>
  BY DEF Tick, CheckDue, SendReport, clock, history
<1>2. day % WeekLength = DayInWeek
  BY <1>0, TodayInWeek
<1>3. None \notin Weekdays /\ Sending \notin Weekdays /\ Sending # None
      /\ saved.weekday \in Weekdays
  BY <1>0, NotANumber, NoneIsNew DEF Weekdays, WeeklyTypeOK, Schedule
<1>4. QuietWeekReported'
  BY <1>1 DEF QuietWeekReported, LastEnding
<1>5. CASE Tick
  <2>1. /\ tick = None /\ ticked' = TRUE /\ tick' = saved.weekday
        /\ ~ticked /\ up /\ slot = phase
        /\ UNCHANGED <<week, lastSentWeek>>
    BY <1>5 DEF Tick, TickDue, history
  <2>2. /\ FirstDay' = FirstDay /\ (AtDue' <=> AtDue)
        /\ (BeforeDue' <=> BeforeDue) /\ (AfterDue' <=> AfterDue)
    BY <1>1, <2>1 DEF FirstDay, DayInWeek, AtDue, BeforeDue, AfterDue
  <2>3. WeekIsCurrent'
    BY <1>0, <1>1, <2>1, <2>2 DEF WeekIsCurrent
  <2>4. (Pending' => Pending) /\ (Reported' => Reported)
    BY <1>3, <2>1, <2>2 DEF Pending, Reported
  <2>5. Quiet'
    BY <1>1, <1>3, <2>1, <2>2, <2>4 DEF Quiet, LastEnding
  <2>. QED
    BY <1>4, <2>3, <2>5
<1>6. CASE CheckDue
  <2>1. /\ tick \in Weekdays /\ tick' = (IF Due(tick) THEN Sending ELSE None)
        /\ UNCHANGED <<week, lastSentWeek, ticked>>
    BY <1>6 DEF CheckDue, history
  <2>2. /\ FirstDay' = FirstDay /\ (AtDue' <=> AtDue)
        /\ (BeforeDue' <=> BeforeDue) /\ (AfterDue' <=> AfterDue)
    BY <1>1, <2>1 DEF FirstDay, DayInWeek, AtDue, BeforeDue, AfterDue
  <2>3. ticked /\ up /\ slot = phase
    BY <1>3, <2>1 DEF WeeklyInv, TickIsNow
  <2>4. WeekIsCurrent'
    BY <1>0, <1>1, <2>1, <2>2, <2>3 DEF WeekIsCurrent
  <2>5. Quiet'
    <3> SUFFICES ASSUME week.quiet PROVE Quiet'
      BY <2>1 DEF Quiet
    <3>1. tick = saved.weekday
      BY <1>3, <2>1 DEF Quiet
    <3>2. CASE AtDue
      <4>1. Pending /\ (lastSentWeek # None => lastSentWeek < FirstDay) /\ FirstDay <= day
        BY <1>0, <1>3, <2>1, <3>2 DEF Pending, Quiet, WeekIsCurrent
      <4>2. lastSentWeek # day
        BY <1>0, <4>1, Numbers, NotANumber
      <4>3. Due(tick)
        BY <1>2, <3>1, <3>2, <4>2 DEF Due, AtDue
      <4>4. tick' = Sending /\ ~AfterDue
        BY <1>0, <2>1, <3>2, <4>3, Numbers DEF AtDue, AfterDue
      <4>. QED
        BY <1>1, <1>3, <2>1, <2>2, <3>2, <4>1, <4>4 DEF Quiet, Pending, Reported
    <3>3. CASE ~AtDue
      <4>1. tick' = None
        BY <1>2, <2>1, <2>3, <3>1, <3>3 DEF Due, AtDue
      <4>2. (Pending' => Pending) /\ (Reported' => Reported)
        BY <2>2, <3>3 DEF Pending, Reported
      <4>. QED
        BY <1>1, <1>3, <2>1, <2>2, <4>1, <4>2 DEF Quiet, LastEnding
    <3>. QED
      BY <3>2, <3>3
  <2>. QED
    BY <1>4, <2>4, <2>5
<1>7. CASE SendReport
  <2>1. /\ tick = Sending /\ tick' = None /\ lastSentWeek' = day /\ ticked' = ticked
        /\ week' = [week EXCEPT !.mails = Append(@, ReportedWeek)]
    BY <1>7 DEF SendReport
  <2>2. week'.no = week.no /\ week'.quiet = week.quiet
        /\ week'.mails = Append(week.mails, ReportedWeek)
    BY <1>0, <2>1 DEF WeeklyTypeOK
  <2>3. /\ FirstDay' = FirstDay /\ (AtDue' <=> AtDue)
        /\ (BeforeDue' <=> BeforeDue) /\ (AfterDue' <=> AfterDue)
    BY <1>1, <2>2 DEF FirstDay, DayInWeek, AtDue, BeforeDue, AfterDue
  <2>4. WeekIsCurrent'
    BY <1>0, <1>1, <2>1, <2>3, Numbers DEF WeekIsCurrent
  <2>5. Quiet'
    <3> SUFFICES ASSUME week.quiet PROVE Quiet'
      BY <2>2 DEF Quiet
    <3>1. AtDue /\ Pending /\ ~BeforeDue
      BY <1>0, <1>3, <2>1, Numbers DEF Quiet, Pending, AtDue, BeforeDue
    <3>2. week'.mails = <<ReportedWeek>>
      <4>1. week'.mails = Append(<<>>, ReportedWeek)
        BY <2>2, <3>1 DEF Quiet
      <4>2. \A x : Append(<<>>, x) = <<x>>
        OBVIOUS
      <4>. QED
        BY <4>1, <4>2
    <3>3. ReportedWeek = LastEnding(FirstDay + saved.weekday)
      <4>1. day = FirstDay + saved.weekday
        BY <1>0, <3>1, Numbers DEF AtDue, DayInWeek
      <4>2. ((day + 1) - WeekLength) \div WeekLength = ((day + 1) \div WeekLength) - 1
        <5> DEFINE a == day + 1
        <5>1. a \in Int /\ WeekLength \in Nat \ {0}
          BY <1>0, Numbers
        <5>. HIDE DEF a
        <5>2. (a - WeekLength) \div WeekLength = (a \div WeekLength) - 1
          BY <5>1, DivBefore
        <5>. QED
          BY <5>2 DEF a
      <4>3. day - (WeekLength - 1) = (day + 1) - WeekLength
        BY <1>0, Numbers
      <4>. QED
        BY <4>1, <4>2, <4>3 DEF ReportedWeek, LastEnding
    <3>4. ~Pending'
      BY <1>3, <2>1, <2>3, <3>1 DEF Pending, WeeklyInv, TickIsNow
    <3>. QED
      BY <1>1, <1>3, <2>1, <2>3, <3>2, <3>3, <3>4 DEF Quiet, LastEnding
  <2>. QED
    BY <1>4, <2>4, <2>5
<1>. QED
  BY <1>5, <1>6, <1>7

LEMMA QuietInvNext == QuietInv /\ [ReportNext]_reportVars => QuietInv'
<1> SUFFICES ASSUME QuietInv, [ReportNext]_reportVars PROVE QuietInv'
  OBVIOUS
<1>0. WeeklyInv'
  BY WeeklyInvNext DEF QuietInv
<1> SUFFICES (WeekIsCurrent /\ Quiet /\ QuietWeekReported)'
  BY <1>0 DEF QuietInv
<1>t. WeeklyTypeOK
  BY DEF QuietInv, WeeklyInv
<1>1. CASE Shift \/ Stop \/ Start
  BY <1>1, <1>t, DisturbKeepsType, DisturbedKeeps DEF Shift, Stop, Start, clock, process
<1>2. CASE SendFails \/ NobodyToMail
  <2>1. week'.no = week.no /\ ~week'.quiet
    <3>1. CASE Disturb
      BY <3>1, <1>t, DisturbKeepsType
    <3>2. CASE ~Disturb
      BY <1>2, <3>2, <1>t DEF SendFails, NobodyToMail, WeeklyTypeOK
    <3>. QED
      BY <3>1, <3>2
  <2>. QED
    BY <1>2, <2>1, DisturbedKeeps DEF SendFails, NobodyToMail, clock
<1>3. ASSUME NEW f \in Posted, UpdateSettings(f) PROVE (WeekIsCurrent /\ Quiet /\ QuietWeekReported)'
  BY <1>3, <1>t, DisturbKeepsType, DisturbedKeeps DEF UpdateSettings, clock, process
<1>4. CASE SaveWeekday \/ SaveHour \/ EndForm
  <2>1. /\ ~week.quiet
        /\ UNCHANGED <<day, hour, slot, up, phase, ticked, tick, lastSentWeek, week, prev>>
    BY <1>4 DEF SaveWeekday, SaveHour, EndForm, clock, process, history, QuietInv, Quiet
  <2>. QED
    BY <2>1 DEF QuietInv, WeekIsCurrent, FirstDay, Quiet, QuietWeekReported, LastEnding
<1>5. CASE UNCHANGED reportVars
  BY <1>5 DEF reportVars, clock, process, history, QuietInv, WeekIsCurrent, FirstDay, Quiet, Pending,
              Reported, AtDue, BeforeDue, AfterDue, DayInWeek, QuietWeekReported, LastEnding
<1>. QED
  BY <1>1, <1>2, <1>3, <1>4, <1>5, QuietAdvances, QuietTicks DEF ReportNext

(* A quiet week has exactly the one report, on the week that ended last:   *)
(* for every length of week, day and hour, every schedule saved before it, *)
(* every phase of the ticker and whatever happened in the weeks before.    *)
THEOREM QuietWeeksAreReported == ReportSpec => []QuietWeekReported
<1>1. QuietInv => QuietWeekReported
  BY DEF QuietInv
<1>. QED
  BY <1>1, QuietInvInit, QuietInvNext, PTL DEF ReportSpec
=============================================================================
