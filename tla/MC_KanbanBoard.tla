---------------------------- MODULE MC_KanbanBoard ----------------------------
(***************************************************************************)
(* One ticket, one member, and the supervisor's dispatcher beside the      *)
(* member's own poll loop: all three write the same ticket.                *)
(***************************************************************************)
EXTENDS KanbanBoard

CONSTANTS t1, s1

NoParents == [t \in Task |-> {}]
AllMine == [t \in Task |-> s1]
==============================================================================
