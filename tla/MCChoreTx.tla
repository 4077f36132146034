----------------------------- MODULE MCChoreTx -----------------------------
(* Two transactions on a child's and a parent's assignment of one chore,   *)
(* deleted together with the catalog chore.  Two dates are                 *)
(* enough for a cascade and a deletion to wait for each other.             *)
EXTENDS ChoreTx
CONSTANTS child, parent
=============================================================================
