----------------------------- MODULE MCHousehold -----------------------------
(* The parent of the environment variables and two more, who are alike.    *)
EXTENDS Household, TLC
CONSTANTS mom, dad, gran
Alike == Permutations({dad, gran})
=============================================================================
