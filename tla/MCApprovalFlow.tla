--------------------------- MODULE MCApprovalFlow ---------------------------
(* A child's and a parent's assignment, three dates of a two-day week:     *)
(* every weekly schedule and every single date, links that live for one    *)
(* midnight.                                                               *)
EXTENDS ApprovalFlow
CONSTANTS parent, child, trash
MCChoreOf == [d \in Defs |-> trash]
=============================================================================
