------------------------------ MODULE Bootstrap ------------------------------
(***************************************************************************)
(* The start-up reconciliation of the bootstrap files with the tables:     *)
(* BootstrapCalendarAccounts (sync.go), BootstrapChildren, BootstrapChores *)
(* and BootstrapAssignments (bootstrap_config.go), one after the other,    *)
(* before the server answers anyone.  Each handles the entries of its file *)
(* and then removes the managed rows the file no longer names.  The tables *)
(* of chores are those of Chores, and every step on them is one of its     *)
(* store methods.  Between two starts parents change what the files do not *)
(* own.  What a row that exists is refreshed with is modelled for          *)
(* schedules only; a chore keeps its name.                                 *)
(*                                                                         *)
(* Bound: a start that needs one more row than there is does not go on.    *)
(***************************************************************************)
EXTENDS Chores

CONSTANTS
    Accounts,      \* rows of calendar accounts that can be created
    Kids,          \* rows of children that can be created
    NameOf,        \* the name in each of these rows
    ChildOf,       \* the child each assignment is of
    NoEntry,       \* no entry
    Missing,       \* no such file, or one that cannot be parsed
    MaxEdits,      \* bound: what people change in the files and by hand
    MaxFailures    \* bound: entries and rows that end in an error

Named == Accounts \cup Kids

ASSUME NameOfIsTotal == DOMAIN NameOf = Named
ASSUME ChildOfIsTotal == ChildOf \in [Defs -> Kids]
ASSUME RowsAreDistinct ==
    /\ Accounts \cap Kids = {}
    /\ Named \cap Catalog = {} /\ Named \cap Defs = {} /\ Catalog \cap Defs = {}

VARIABLES
    files,     \* what the four files say
    named,     \* named[r]: the account or child is absent, active or deleted
    managed,   \* the rows with bootstrap_managed
    boot,      \* where the start is
    clean,     \* history: this start has logged no error so far
    settled,   \* history: after a clean start nobody has changed anything
    edits, failures

tables == <<chore, def, inst, named, managed>>
bootVars == <<files, tables, boot, clean, settled, edits, failures>>

Names(rows) == {NameOf[r] : r \in rows}
Pairs == Names(Kids) \X Catalog
Files == [accounts : {Missing} \cup SUBSET Names(Accounts),
          children : {Missing} \cup SUBSET Names(Kids),
          chores : {Missing} \cup SUBSET Catalog,
          assignments : {Missing} \cup [Pairs -> Schedules \cup {NoEntry}]]

-----------------------------------------------------------------------------
(* The loop of a start: over the entries of its file, then over the rows   *)
(* to remove.  seen is kept from the one to the other for assignments.     *)
Loops == {"accounts", "children", "chores", "assignments"}
NextLoop == [accounts |-> "children", children |-> "chores",
             chores |-> "assignments", assignments |-> "serving"]
RowsOf == [accounts |-> Accounts, children |-> Kids]

Boot(loop, half, todo, seen) ==
    [loop |-> loop, half |-> half, todo |-> todo, seen |-> seen]
Serving == Boot("serving", "removal", {}, {})

Entries(l) ==
    IF l = "assignments" THEN {p \in Pairs : files[l][p] # NoEntry} ELSE files[l]

(* Without its file a loop does nothing: no entry and no removal.          *)
Enter(l) ==
    IF l = "serving" THEN Serving
    ELSE IF files[l] = Missing THEN Boot(l, "removal", {}, {})
    ELSE Boot(l, "entries", Entries(l), {})

Active(n, rows) == {r \in rows : NameOf[r] = n /\ named[r] = "active"}
ActiveDefs(k, c) ==
    {d \in Defs : ChildOf[d] = k /\ ChoreOf[d] = c /\ def[d].state = "active"}

(* The managed rows the file does not name.                                *)
Unnamed(l) ==
    managed \cap
    IF l \in DOMAIN RowsOf
    THEN {r \in RowsOf[l] : named[r] = "active" /\ NameOf[r] \notin files[l]}
    ELSE IF l = "chores"
    THEN {c \in Catalog : chore[c] = "active" /\ c \notin files[l]}
    ELSE {d \in Defs : /\ def[d].state = "active"
                       /\ <<ChildOf[d], ChoreOf[d]>> \notin boot.seen}

-----------------------------------------------------------------------------
BootInit ==
    /\ Init
    /\ files \in Files
    /\ named = [r \in Named |-> "absent"]
    /\ managed = {}
    /\ boot = Serving
    /\ clean = TRUE
    /\ settled = FALSE
    /\ edits = 0
    /\ failures = 0

Quietly == UNCHANGED <<files, clean, settled, edits, failures>>

InHand(l, half, x) == boot.loop = l /\ boot.half = half /\ x \in boot.todo
Done(x) == boot' = [boot EXCEPT !.todo = @ \ {x}]

(* Accounts and children are looked up by name among the active ones; a    *)
(* name that comes back gets a new row.                                    *)
BootstrapNamed(l, n) ==
    /\ InHand(l, "entries", n)
    /\ Done(n)
    /\ IF Active(n, RowsOf[l]) # {} THEN UNCHANGED <<named, managed>>
       ELSE \E r \in RowsOf[l] :
               /\ NameOf[r] = n
               /\ named[r] = "absent"
               /\ named' = [named EXCEPT ![r] = "active"]
               /\ managed' = managed \cup {r}
    /\ UNCHANGED <<chore, def, inst>>
    /\ Quietly

(* A chore's name is looked up among the active ones but UNIQUE among all: *)
(* the INSERT for one that was deleted fails, at every start.              *)
BootstrapChore(c) ==
    /\ InHand("chores", "entries", c)
    /\ Done(c)
    /\ IF chore[c] = "absent"
       THEN CreateChore(c) /\ managed' = managed \cup {c}
       ELSE UNCHANGED <<chore, def, inst, managed>>
    /\ UNCHANGED named
    /\ Quietly

(* Mutants of Refresh: whoever made the assignment; nobody's is refreshed. *)
RefreshAny(d, s) ==
    IF s.date = NoDate THEN UpdateBootstrapRecurring(d, s.weekdays)
    ELSE UpdateBootstrapOneOff(d, s.date)

RefreshNone(d, s) == UNCHANGED <<chore, def, inst>>

Refresh(d, s) ==
    IF d \notin managed THEN UNCHANGED <<chore, def, inst>>
    ELSE IF s.date = NoDate THEN UpdateBootstrapRecurring(d, s.weekdays)
    ELSE UpdateBootstrapOneOff(d, s.date)

(* Child and chore are found; of rows that fit alike a look-up takes any.  *)
Assign(k, c, s) ==
    IF ActiveDefs(k, c) # {}
    THEN UNCHANGED managed /\ \E d \in ActiveDefs(k, c) : Refresh(d, s)
    ELSE \E d \in Defs :
            /\ ChildOf[d] = k
            /\ ChoreOf[d] = c
            /\ CreateDefinition(d, s)
            /\ managed' = managed \cup {d}

(* Mutant of Marked: only what is created.                                 *)
MarkedWhenNew(k, c) == IF ActiveDefs(k, c) = {} THEN {<<k, c>>} ELSE {}

Marked(k, c) == {<<k, c>>}

BootstrapAssignment(n, c) ==
    /\ InHand("assignments", "entries", <<n, c>>)
    /\ \/ /\ Active(n, Kids) = {} \/ chore[c] # "active"
          /\ Done(<<n, c>>)
          /\ UNCHANGED <<chore, def, inst, managed>>
       \/ /\ chore[c] = "active"
          /\ \E k \in Active(n, Kids) :
                /\ Assign(k, c, files["assignments"][<<n, c>>])
                /\ boot' = [boot EXCEPT !.todo = @ \ {<<n, c>>},
                                        !.seen = @ \cup Marked(k, c)]
    /\ UNCHANGED named
    /\ Quietly

ListForRemoval ==
    /\ boot.half = "entries"
    /\ boot.todo = {}
    /\ boot' = [boot EXCEPT !.half = "removal", !.todo = Unnamed(boot.loop)]
    /\ UNCHANGED tables
    /\ Quietly

(* A calendar account is deleted, the others are marked inactive: a chore  *)
(* with its assignments, a child without.                                  *)
RemoveNamed(l, r) ==
    /\ InHand(l, "removal", r)
    /\ Done(r)
    /\ named' = [named EXCEPT ![r] = "deleted"]
    /\ UNCHANGED <<chore, def, inst, managed>>
    /\ Quietly

(* Mutant of RemoveChore: the flag without the cascade.                    *)
RemoveChoreOnly(c) ==
    /\ InHand("chores", "removal", c)
    /\ Done(c)
    /\ chore' = [chore EXCEPT ![c] = "deleted"]
    /\ UNCHANGED <<def, inst, named, managed>>
    /\ Quietly

RemoveChore(c) ==
    /\ InHand("chores", "removal", c)
    /\ Done(c)
    /\ DeactivateChore(c)
    /\ UNCHANGED <<named, managed>>
    /\ Quietly

RemoveAssignment(d) ==
    /\ InHand("assignments", "removal", d)
    /\ Done(d)
    /\ DeactivateDefinition(d)
    /\ UNCHANGED <<named, managed>>
    /\ Quietly

EndLoop ==
    /\ boot.loop # "serving"
    /\ boot.half = "removal"
    /\ boot.todo = {}
    /\ boot' = Enter(NextLoop[boot.loop])
    /\ settled' = (settled \/ (boot.loop = "assignments" /\ clean))
    /\ UNCHANGED <<files, tables, clean, edits, failures>>

-----------------------------------------------------------------------------
Failure ==
    /\ failures < MaxFailures
    /\ failures' = failures + 1
    /\ clean' = FALSE
    /\ settled' = FALSE
    /\ UNCHANGED <<files, tables, edits>>

(* Any error, an invalid entry's as well, is logged and ends the entry or  *)
(* the row in hand.  An assignment may be marked as seen by then, or not.  *)
Skip ==
    /\ Failure
    /\ \E x \in boot.todo :
          \/ Done(x)
          \/ /\ boot.loop = "assignments"
             /\ boot.half = "entries"
             /\ chore[x[2]] = "active"
             /\ \E k \in Active(x[1], Kids) :
                   boot' = [boot EXCEPT !.todo = @ \ {x},
                                        !.seen = @ \cup Marked(k, x[2])]

(* The rows cannot be listed: nothing is removed.                          *)
SkipRemoval ==
    /\ Failure
    /\ boot.half = "entries"
    /\ boot.todo = {}
    /\ boot' = [boot EXCEPT !.half = "removal"]

(* A start, after a stop or a crash at any point.                          *)
Start ==
    /\ boot' = Enter("accounts")
    /\ clean' = TRUE
    /\ UNCHANGED <<files, tables, settled, edits, failures>>

-----------------------------------------------------------------------------
(* While the server runs: the files are edited for the next start, and     *)
(* parents change the rows that are not managed.                           *)
Edit ==
    /\ boot = Serving
    /\ edits < MaxEdits
    /\ edits' = edits + 1
    /\ settled' = FALSE
    /\ UNCHANGED <<boot, clean, failures>>

WriteFile(l) ==
    /\ Edit
    /\ \E content \in {f[l] : f \in Files} : files' = [files EXCEPT ![l] = content]
    /\ files' # files
    /\ UNCHANGED tables

(* CreateChild, CreateCalendarAccount: any name.                           *)
CreateNamed(r) ==
    /\ Edit
    /\ named[r] = "absent"
    /\ named' = [named EXCEPT ![r] = "active"]
    /\ UNCHANGED <<files, chore, def, inst, managed>>

(* RemoveUser, DeleteCalendarAccount.                                      *)
RemoveByHand(r) ==
    /\ Edit
    /\ named[r] = "active"
    /\ r \notin managed
    /\ named' = [named EXCEPT ![r] = "deleted"]
    /\ UNCHANGED <<files, chore, def, inst, managed>>

(* CreateChoreDefinition stores a new chore first and may be refused after *)
(* that; the child may have been removed since the form was shown.         *)
CreateChoreByHand(c) ==
    /\ Edit
    /\ CreateChore(c)
    /\ UNCHANGED <<files, named, managed>>

CreateChoreDefinition(d, s) ==
    /\ Edit
    /\ named[ChildOf[d]] # "absent"
    /\ CreateDefinition(d, s)
    /\ UNCHANGED <<files, named, managed>>

DeactivateAssignmentByHand(d) ==
    /\ Edit
    /\ d \notin managed
    /\ def[d].state = "active"
    /\ DeactivateDefinition(d)
    /\ UNCHANGED <<files, named, managed>>

(* The assignments go with their chore, managed ones as well.              *)
DeactivateChoreByHand(c) ==
    /\ Edit
    /\ c \notin managed
    /\ chore[c] = "active"
    /\ DeactivateChore(c)
    /\ UNCHANGED <<files, named, managed>>

(* What goes on every day.                                                 *)
Work ==
    /\ boot = Serving
    /\ \/ \E e \in Days : EnsureForDate(e)
       \/ \E d \in Defs, e \in Days : MarkComplete(d, e) \/ Approve(d, e, Nobody)
    /\ UNCHANGED <<files, named, managed, boot, clean, settled, edits, failures>>

BootNext ==
    \/ Start
    \/ \E l \in DOMAIN RowsOf, n \in Names(Named) : BootstrapNamed(l, n)
    \/ \E c \in Catalog : BootstrapChore(c) \/ RemoveChore(c)
    \/ \E p \in Pairs : BootstrapAssignment(p[1], p[2])
    \/ ListForRemoval
    \/ \E l \in DOMAIN RowsOf, r \in Named : RemoveNamed(l, r)
    \/ \E d \in Defs : RemoveAssignment(d)
    \/ EndLoop \/ Skip \/ SkipRemoval
    \/ \E l \in Loops : WriteFile(l)
    \/ \E r \in Named : CreateNamed(r) \/ RemoveByHand(r)
    \/ \E c \in Catalog : CreateChoreByHand(c) \/ DeactivateChoreByHand(c)
    \/ \E d \in Defs, s \in Schedules : CreateChoreDefinition(d, s)
    \/ \E d \in Defs : DeactivateAssignmentByHand(d)
    \/ Work

BootSpec == BootInit /\ [][BootNext]_bootVars

-----------------------------------------------------------------------------
BootTypeOK ==
    /\ TypeOK
    /\ files \in Files
    /\ named \in [Named -> RowState]
    /\ managed \subseteq Named \cup Catalog \cup Defs
    /\ boot.loop \in Loops \cup {"serving"}
    /\ boot.seen \subseteq Kids \X Catalog

(* Every store step of a start is one the dashboard could have made, so    *)
(* that what Chores guarantees survives any start, broken off or not.      *)
StoresOnly == Spec

UpToDate(d, x) ==
    d \in managed =>
        /\ def[d].weekdays = files["assignments"][x].weekdays
        /\ def[d].date = files["assignments"][x].date

(* An entry that is followed: its row is there, or for an assignment, one  *)
(* of its pair is, with the schedule of the file unless made by hand.      *)
Followed(l, x) ==
    IF l \in DOMAIN RowsOf THEN Active(x, RowsOf[l]) # {}
    ELSE IF l = "chores" THEN chore[x] \in {"active", "deleted"}
    ELSE Active(x[1], Kids) = {} \/ chore[x[2]] # "active"
         \/ \E k \in Active(x[1], Kids) : \E d \in ActiveDefs(k, x[2]) : UpToDate(d, x)

(* The pair of an assignment that is wanted: its child and its chore are   *)
(* there.                                                                  *)
Wanted(d) ==
    LET p == <<NameOf[ChildOf[d]], ChoreOf[d]>>
    IN p \in Entries("assignments") /\ named[ChildOf[d]] = "active" /\ chore[p[2]] = "active"

(* What the file of a loop asks for is there, and no managed row is left   *)
(* that the file does not name.                                            *)
Reconciled(l) ==
    files[l] # Missing =>
        /\ \A x \in Entries(l) : Followed(l, x)
        /\ l \in DOMAIN RowsOf => \A r \in RowsOf[l] \cap managed :
              named[r] = "active" => NameOf[r] \in files[l]
        /\ l = "chores" => \A c \in Catalog \cap managed :
              chore[c] = "active" => c \in files[l]
        /\ l = "assignments" => \A d \in Defs \cap managed :
              def[d].state = "active" => Wanted(d)

(* "Every file is reconciled against the database on every startup"        *)
(* (README): when a start without errors has ended, every entry is         *)
(* followed and no managed row is left that its file does not name.  A     *)
(* chore that was ever deleted is the exception.                           *)
FilesFollowed == settled /\ boot = Serving => \A l \in Loops : Reconciled(l)

(* "that row's config didn't come from this file" (README): no start,      *)
(* whatever fails, touches a row made in the dashboard, except that an     *)
(* assignment goes with its chore.                                         *)
HandMadeIsLeftAlone ==
    [][boot # Serving =>
         /\ \A r \in Named : named[r] = "active" /\ named'[r] # "active" => r \in managed
         /\ \A c \in Catalog : chore[c] = "active" /\ chore'[c] # "active" => c \in managed
         /\ \A d \in Defs : def[d].state = "active" /\ def'[d] # def[d] =>
               d \in managed \/ chore'[ChoreOf[d]] = "deleted"]_bootVars

(* Nothing tells two active rows for one name or one pair apart.           *)
Ambiguous ==
    \/ \E q, r \in Named : /\ q # r /\ NameOf[q] = NameOf[r]
                          /\ named[q] = "active" /\ named[r] = "active"
    \/ \E d, x \in Defs : /\ d # x /\ d \in ActiveDefs(ChildOf[x], ChoreOf[x])
                         /\ def[x].state = "active"

(* A start after a clean one changes nothing, least of all the open        *)
(* occurrences: everybody's work survives every restart.                   *)
RestartChangesNothing ==
    [][settled /\ boot # Serving /\ ~Ambiguous => UNCHANGED tables]_bootVars
=============================================================================
