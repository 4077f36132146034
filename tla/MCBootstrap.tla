----------------------------- MODULE MCBootstrap -----------------------------
(* One name, two rows it can be in, and one chore on one date: enough for  *)
(* a child to be removed and put back, or to share its name with another.  *)
EXTENDS Bootstrap, TLC
CONSTANTS alex, k1, k2, home, h1, d1, d2, d3, trash
SameAssignments == Permutations({d1, d2})
MCNameOf == [r \in Accounts \cup Kids |-> IF r \in Kids THEN alex ELSE home]
MCChildOf == [d \in Defs |-> IF d = d3 THEN k2 ELSE k1]
MCChoreOf == [d \in Defs |-> trash]
=============================================================================
