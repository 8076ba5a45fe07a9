--------------------------- MODULE MC_ClarifyBridge ---------------------------
(* Small deployments of the clarify bridge for TLC: the bridge whose agent asks, *)
(* and a second process that may answer.                                         *)
EXTENDS ClarifyBridge

CONSTANTS b1, b2, lane

HereOnly == [q \in Question |-> b1]
OneLane  == [q \in Question |-> lane]
OwnOnly  == [b \in Bridge |-> IF b = b1 THEN Question ELSE {}]
==============================================================================
