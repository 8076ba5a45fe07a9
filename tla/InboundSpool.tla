---------------------------- MODULE InboundSpool ----------------------------
(***************************************************************************)
(* The durable inbound spool: the rows of SQLiteInboundSpool and what each *)
(* of its methods writes.  Every operator below is one method, that is one *)
(* SQLite transaction; it takes the table before the call and returns the  *)
(* table after it, so that a caller may chain several in one step.         *)
(*                                                                         *)
(* A row's number is its place in (received_at, rowid) order.  A payload   *)
(* is the set of platform messages whose text it holds: one for a message  *)
(* as it arrived, several once absorbed steers are folded in by a retry.   *)
(***************************************************************************)
EXTENDS Naturals, FiniteSets

CONSTANTS
    Message,      \* platform messages
    NoMessage,    \* the key of a row no platform message has: a retry's
    MaxRows       \* bound on the rows ever written

ASSUME SpoolAssumption ==
    /\ NoMessage \notin Message
    /\ MaxRows \in Nat

Row == 1..MaxRows
None == 0             \* SQL NULL, for a claim or a link

Statuses == {"absent", "received", "processing", "done", "dead", "interrupted"}

RowType == [status: Statuses, key: Message \cup {NoMessage},
            text: SUBSET Message, attempts: Nat, owner: Nat, tool: BOOLEAN,
            into: Row \cup {None}]

NoRow == [status |-> "absent", key |-> NoMessage, text |-> {}, attempts |-> 0,
          owner |-> None, tool |-> FALSE, into |-> None]

\* accept assigns the next rowid.
Used(rs) == {r \in Row : rs[r].status # "absent"}
NextRow(rs) == Cardinality(Used(rs)) + 1

\* A fresh `received` row: by accept, and by retryInterrupted.
Insert(rs, key, text, owner) ==
    [rs EXCEPT ![NextRow(rs)] =
        [NoRow EXCEPT !.status = "received", !.key = key, !.text = text,
                      !.owner = owner]]

\* The rows absorbed into p that are in one of the statuses `from`.
Absorbed(rs, p, from) ==
    {c \in Row : rs[c].into = p /\ rs[c].status \in from}

\* A terminal of p written to the rows absorbed into it.
CascadeAbsorbed(rs, p, from, to) ==
    [c \in Row |->
        IF c \in Absorbed(rs, p, from)
        THEN [rs[c] EXCEPT !.status = to, !.owner = None,
                           !.text = IF to = "done" THEN {} ELSE @]
        ELSE rs[c]]

MarkProcessing(rs, r, owner) ==
    IF rs[r].status = "received"
    THEN [rs EXCEPT ![r].status = "processing", ![r].attempts = @ + 1,
                    ![r].owner = owner]
    ELSE rs

\* The cascade runs whatever the row's own status was.
MarkDone(rs, r) ==
    LET closed == IF rs[r].status \in {"received", "processing"}
                  THEN [rs EXCEPT ![r].status = "done", ![r].text = {}]
                  ELSE rs
    IN CascadeAbsorbed(closed, r, {"received", "interrupted"}, "done")

\* Links r to the turn of p; rows already absorbed into r move to p with it.
CanAbsorb(rs, r, p) ==
    /\ r # p
    /\ rs[r].status = "received"
    /\ rs[p].status \in {"received", "processing"}

MarkAbsorbed(rs, r, p) ==
    IF CanAbsorb(rs, r, p)
    THEN [c \in Row |-> IF c = r \/ rs[c].into = r
                        THEN [rs[c] EXCEPT !.into = p] ELSE rs[c]]
    ELSE rs

\* A bug the runs must notice: the link outlives the turn.
NeverUnlinked(rs, r) == rs

UnlinkAbsorbed(rs, r) ==
    IF rs[r].status = "received" THEN [rs EXCEPT ![r].into = None] ELSE rs

\* listAbsorbed: what is folded into r when it runs again.
FoldedText(rs, r) ==
    rs[r].text \cup UNION {rs[c].text : c \in Absorbed(rs, r, {"received", "interrupted"})}

\* At the cap the row is dead, interrupted once a tool started, owed otherwise;
\* only an interrupted row's claim is released.
FailOutcome(rs, r, max) ==
    IF rs[r].attempts >= max THEN "dead"
    ELSE IF rs[r].tool THEN "interrupted" ELSE "received"

MarkFailed(rs, r, max) ==
    LET outcome == FailOutcome(rs, r, max)
        failed  == IF rs[r].status \in {"received", "processing"}
                   THEN [rs EXCEPT ![r].status = outcome,
                             ![r].owner = IF outcome = "interrupted" THEN None ELSE @]
                   ELSE rs
    IN IF outcome = "received" THEN failed
       ELSE CascadeAbsorbed(failed, r, {"received"}, outcome)

\* A bug the runs must notice: the first tool is not recorded.
ToolUnmarked(rs, r) == rs

MarkToolStarted(rs, r) ==
    IF rs[r].status = "processing" THEN [rs EXCEPT ![r].tool = TRUE] ELSE rs

MarkInterrupted(rs, r) ==
    IF rs[r].status \in {"received", "processing"}
    THEN CascadeAbsorbed([rs EXCEPT ![r].status = "interrupted", ![r].owner = None],
                         r, {"received"}, "interrupted")
    ELSE rs

MarkDead(rs, r) ==
    IF rs[r].status = "received" /\ rs[r].owner = None
    THEN CascadeAbsorbed([rs EXCEPT ![r].status = "dead"], r, {"received"}, "dead")
    ELSE rs

\* findInterrupted: the candidates of a lane's `retry`.  The code takes the one
\* updated last; every one of them is explored.
Retryable(rs) == {r \in Row : rs[r].status = "interrupted" /\ rs[r].into = None}

\* The interrupted row closes with its absorbed rows, whose text rides in the
\* payload of the fresh one.
RetryInterrupted(rs, r, owner) ==
    LET text == FoldedText(rs, r)
        old  == [rs EXCEPT ![r].status = "done", ![r].text = {}]
    IN Insert(CascadeAbsorbed(old, r, {"interrupted"}, "done"), NoMessage, text, owner)

\* A row is listed unless its primary is still owed and so carries it.
Replayable(rs) ==
    {r \in Row : /\ rs[r].status = "received"
                 /\ rs[r].owner = None
                 /\ \/ rs[r].into = None
                    \/ rs[rs[r].into].status \notin {"received", "processing", "interrupted"}}

Claim(rs, r, owner) ==
    IF rs[r].status = "received" /\ rs[r].owner = None
    THEN [rs EXCEPT ![r].owner = owner] ELSE rs

\* Bugs the runs must notice: rows of this process are freed too; the attempts
\* of a killed turn are forgotten; a dead process's claim stays on its rows.
RecoversOwn(rs, owner) ==
    [r \in Row |-> IF rs[r].status \in {"processing", "received"}
                   THEN [rs[r] EXCEPT !.status = "received", !.owner = None] ELSE rs[r]]
ForgetsAttempts(rs, owner) ==
    [r \in Row |->
        IF rs[r].status \in {"processing", "received"} /\ rs[r].owner # owner
        THEN [rs[r] EXCEPT !.status = "received", !.owner = None, !.attempts = 0]
        ELSE rs[r]]
KeepsClaims(rs, owner) ==
    [r \in Row |-> IF rs[r].status = "processing" /\ rs[r].owner # owner
                   THEN [rs[r] EXCEPT !.status = "received", !.owner = None] ELSE rs[r]]

\* Both of its updates: rows of another process are unclaimed, those it was
\* running are owed again, attempts kept.
RecoverOrphans(rs, owner) ==
    [r \in Row |->
        IF rs[r].status \in {"processing", "received"} /\ rs[r].owner # owner
        THEN [rs[r] EXCEPT !.status = "received", !.owner = None]
        ELSE rs[r]]

\* A bug the runs must notice: the refund is given twice.
RefundsTwice(rs, r) ==
    IF rs[r].status = "processing"
    THEN [rs EXCEPT ![r].status = "received", ![r].owner = None, ![r].attempts = @ - 2]
    ELSE rs

\* A turn cut by a graceful shutdown is owed, and its attempt refunded.
ReleaseOnShutdown(rs, r) ==
    IF rs[r].status = "processing"
    THEN [rs EXCEPT ![r].status = "received", ![r].owner = None,
                    ![r].attempts = IF @ > 0 THEN @ - 1 ELSE 0]
    ELSE rs

\* The operator's requeue: the row comes back unlinked, its absorbed rows with
\* it and still linked.
Requeue(rs, r) ==
    [c \in Row |->
        IF {rs[c].status, rs[r].status} \cap {"absent", "received", "processing", "done"} # {}
        THEN rs[c]
        ELSE IF c = r
        THEN [rs[c] EXCEPT !.status = "received", !.attempts = 0, !.owner = None,
                           !.tool = FALSE, !.into = None]
        ELSE IF rs[c].into = r
        THEN [rs[c] EXCEPT !.status = "received", !.attempts = 0, !.owner = None]
        ELSE rs[c]]

Discard(rs, r) ==
    IF rs[r].status \in {"dead", "interrupted"}
    THEN CascadeAbsorbed([rs EXCEPT ![r].status = "done", ![r].text = {}],
                         r, {"dead", "interrupted"}, "done")
    ELSE rs

==============================================================================
