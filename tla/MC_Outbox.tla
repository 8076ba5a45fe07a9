------------------------------ MODULE MC_Outbox ------------------------------
(***************************************************************************)
(* Two gateways over one outbox: both serve the bot of the publication.    *)
(***************************************************************************)
EXTENDS Outbox

CONSTANTS p1, p2, i1

BothServe == [p \in Process |-> Item]
==============================================================================
