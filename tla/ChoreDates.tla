----------------------------- MODULE ChoreDates -----------------------------
(* The parameters shared by the modules about dated chores.                *)
EXTENDS Integers

CONSTANTS
    Defs,            \* assignments ("chore definitions") that can be created
    Days,            \* calendar dates
    ParentAssigned   \* assignments whose assignee has role 'parent'

ASSUME DaysAreDates == Days \subseteq Nat
ASSUME ParentAssignedAreDefs == ParentAssigned \subseteq Defs
=============================================================================
