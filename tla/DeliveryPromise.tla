--------------------------- MODULE DeliveryPromise ---------------------------
(***************************************************************************)
(* What the delivery ledger promises about each reply, whatever the number *)
(* of gateways, sweeps, crashes and lost answers behind it: a reply once   *)
(* owed is kept only if the platform took the message; a kept promise is   *)
(* never owed or given up again; only a settled promise is forgotten.  A   *)
(* promise that was given up may still be kept: a send already in progress *)
(* can land after the decision.                                            *)
(***************************************************************************)

CONSTANT Obligation

VARIABLES
    promise,  \* "none", "owed", "kept", "givenup", "forgotten"
    taken     \* the replies the platform has taken at least once

vars == <<promise, taken>>

Init ==
    /\ promise = [o \in Obligation |-> "none"]
    /\ taken = {}

Owe(o) ==
    /\ promise[o] = "none"
    /\ promise' = [promise EXCEPT ![o] = "owed"]
    /\ UNCHANGED taken

Take(o) ==
    /\ promise[o] # "none"
    /\ taken' = taken \cup {o}
    /\ UNCHANGED promise

Keep(o) ==
    /\ promise[o] \in {"owed", "givenup"}
    /\ o \in taken
    /\ promise' = [promise EXCEPT ![o] = "kept"]
    /\ UNCHANGED taken

\* Retention moves many rows in one statement.
GiveUp(S) ==
    /\ \A o \in S : promise[o] = "owed"
    /\ promise' = [o \in Obligation |-> IF o \in S THEN "givenup" ELSE promise[o]]
    /\ UNCHANGED taken

Forget(S) ==
    /\ \A o \in S : promise[o] \in {"kept", "givenup"}
    /\ promise' = [o \in Obligation |-> IF o \in S THEN "forgotten" ELSE promise[o]]
    /\ UNCHANGED taken

Next ==
    \/ \E o \in Obligation : Owe(o) \/ Take(o) \/ Keep(o)
    \/ \E S \in SUBSET Obligation : GiveUp(S) \/ Forget(S)

Spec == Init /\ [][Next]_vars
=============================================================================
