--------------------------- MODULE MC_GatewayTurns ---------------------------
(***************************************************************************)
(* One lane, two or three messages.  What they say is the scenario: plain   *)
(* text, the word `retry`, or /stop.                                       *)
(***************************************************************************)
EXTENDS GatewayTurns

CONSTANTS m1, m2, m3

AllPlain == [m \in Message |-> "plain"]
RetryAndStop == [m \in Message |-> CASE m = m1 -> "plain" [] m = m2 -> "retry"
                                      [] OTHER -> "stop"]
==============================================================================
