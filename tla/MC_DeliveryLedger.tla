-------------------------- MODULE MC_DeliveryLedger --------------------------
(***************************************************************************)
(* A small deployment of the delivery ledger for TLC: a gateway beside a   *)
(* peer that serves other bots from the same file and reclaims the stale   *)
(* claims of both.                                                         *)
(***************************************************************************)
EXTENDS DeliveryLedger

CONSTANTS p1, p2, o1

Bystander == [p \in {p1, p2} |-> IF p = p1 THEN {o1} ELSE {}]
==============================================================================
