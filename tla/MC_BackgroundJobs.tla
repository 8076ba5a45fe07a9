-------------------------- MODULE MC_BackgroundJobs --------------------------
(***************************************************************************)
(* Two processes over one jobs database.                                   *)
(***************************************************************************)
EXTENDS BackgroundJobs

CONSTANTS e1, e2
==============================================================================
