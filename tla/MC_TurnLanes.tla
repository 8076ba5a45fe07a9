---------------------------- MODULE MC_TurnLanes ----------------------------
(***************************************************************************)
(* Two chats that share one permit, two messages of one and one of the   *)
(* other; a lane map that has room for both chats or for one.              *)
(***************************************************************************)
EXTENDS TurnLanes

CONSTANTS a, b, a1, a2, b1

ChatOfMessage == [m \in Message |-> IF m = b1 THEN b ELSE a]
Lanes == 1..(Cardinality(Message) + Cardinality(Chat))
==============================================================================
