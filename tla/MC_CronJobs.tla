----------------------------- MODULE MC_CronJobs -----------------------------
(* One gateway with two ticks, or a tick and a `run now`, at once, for TLC. *)
EXTENDS CronJobs

CONSTANTS p1, r1, r2, daily

OneProcess == [r \in {r1, r2} |-> p1]
ForEver == [j \in Job |-> 0]
Once == [j \in Job |-> 1]
==============================================================================
