------------------------------- MODULE Outbox -------------------------------
(***************************************************************************)
(* Publications a human approves: the rows of SQLiteOutboxStore, the       *)
(* decisions OutboxService takes on them, the dispatcher of every gateway  *)
(* process, and the part of Gateway.deliverPublication that files a        *)
(* publication in the delivery ledger and hands it to the platform.        *)
(*                                                                         *)
(* A text is its revision number: revisions are immutable and an edit      *)
(* writes a new one.  Clocks are what the code compares them with: a row   *)
(* is `late` past STALE_THRESHOLD_MS in its state, `lapsed` past           *)
(* APPROVAL_VALIDITY_MS and `due` past PENDING_EXPIRY_MS.                  *)
(***************************************************************************)
EXTENDS Naturals, FiniteSets

CONSTANTS
    Item,          \* publications
    Process,       \* gateway processes, each with one dispatcher
    Serves,        \* Serves[p]: the items of the bots p serves
    None,
    MaxRevisions,  \* bound on the revisions of an item
    MaxYeses,      \* bound on the approvals and retries of an item
    MaxCrashes,    \* bound on crashes of gateways
    MaxRefusals,   \* bound on the publications a gateway refuses
    MaxGaps,       \* bound on ledger writes that fail
    MaxOutages     \* bound on outages longer than every clock

ASSUME OutboxAssumption ==
    /\ Serves \in [Process -> SUBSET Item]
    /\ None \notin Item
    /\ MaxRevisions \in Nat \ {0}
    /\ {MaxYeses, MaxCrashes, MaxRefusals, MaxGaps, MaxOutages} \subseteq Nat

VARIABLES
    \* The outbox rows.
    state, rev, reason,
    late, lapsed, due,
    \* The ledger rows of the session `outbox:<id>`, and those past retention.
    ledger, aged,
    \* Each process: where its dispatcher is, the rows it still has to look at,
    \* the row in hand, whether the ledger has a row for it, and the answer.
    pc, list, hand, row, ok,
    \* What really happened, and what bounds it.
    leave,         \* the revision an unused human yes stands for, 0 if none
    called,        \* the platform was called since the last human yes
    yeses, spent

itemVars == <<state, rev, reason, late, lapsed, due>>
ledgerVars == <<ledger, aged>>
procVars == <<pc, list, hand, row, ok>>
ghostVars == <<leave, called, yeses, spent>>
vars == <<itemVars, ledgerVars, procVars, ghostVars>>

States == {"absent", "awaiting_review", "awaiting_approval", "approved", "sending",
           "sent", "unconfirmed", "failed", "rejected", "expired"}
Stages == {"down", "idle", "expired", "reconcile", "verdict", "deliver",
           "claimed", "recorded", "handed", "answered"}
InHand == {"verdict", "claimed", "recorded", "handed", "answered"}
Counters == {"crash", "refusal", "gap", "outage"}
Revision == 1..MaxRevisions

\* Every variable has its type, and a dispatcher holds a row just while it works
\* on it.
TypeOK ==
    /\ state \in [Item -> States]
    /\ rev \in [Item -> Revision]
    /\ reason \in [Item -> {"none", "not_sent", "void", "unclear"}]
    /\ {late, lapsed, due, aged, called} \subseteq SUBSET Item
    /\ ledger \in [Item -> {"none", "pending", "closed"}]
    /\ pc \in [Process -> Stages]
    /\ list \in [Process -> SUBSET Item]
    /\ hand \in [Process -> Item \cup {None}]
    /\ \A p \in Process : hand[p] \in Item <=> pc[p] \in InHand
    /\ {row, ok} \subseteq SUBSET Process
    /\ leave \in [Item -> Revision \cup {0}]
    /\ yeses \in [Item -> Nat]
    /\ spent \in [Counters -> Nat]

Init ==
    /\ state = [i \in Item |-> "absent"]
    /\ rev = [i \in Item |-> 1]
    /\ reason = [i \in Item |-> "none"]
    /\ late = {} /\ lapsed = {} /\ due = {}
    /\ ledger = [i \in Item |-> "none"] /\ aged = {}
    /\ pc = [p \in Process |-> "idle"]
    /\ list = [p \in Process |-> {}]
    /\ hand = [p \in Process |-> None]
    /\ row = {} /\ ok = {}
    /\ leave = [i \in Item |-> 0]
    /\ called = {}
    /\ yeses = [i \in Item |-> 0]
    /\ spent = [k \in Counters |-> 0]

Spend(kind, max) == spent[kind] < max /\ spent' = [spent EXCEPT ![kind] = @ + 1]

-----------------------------------------------------------------------------
(* The agent, its reviewer and the human. *)

\* A new row; a reviewer sees it first if the personality names one.  A repeat
\* proposal of a text that is still active returns the active row: no step.
Propose(i) ==
    /\ state[i] = "absent"
    /\ \E to \in {"awaiting_review", "awaiting_approval"} :
         state' = [state EXCEPT ![i] = to]
    /\ UNCHANGED <<rev, reason, late, lapsed, due, ledgerVars, procVars, ghostVars>>

\* The reviewer's receipt, whatever its verdict.
AttachReview(i) ==
    /\ state[i] = "awaiting_review"
    /\ state' = [state EXCEPT ![i] = "awaiting_approval"]
    /\ UNCHANGED <<rev, reason, late, lapsed, due, ledgerVars, procVars, ghostVars>>

\* The human says yes to revision r, the one they were shown.
SaysYes(i, r) ==
    /\ yeses[i] < MaxYeses /\ yeses' = [yeses EXCEPT ![i] = @ + 1]
    /\ leave' = [leave EXCEPT ![i] = r]
    /\ called' = called \ {i}
    /\ lapsed' = lapsed \ {i}          \* approved_at
    /\ UNCHANGED spent

Withdrawn(S) == leave' = [i \in Item |-> IF i \in S THEN 0 ELSE leave[i]]

UpToDateUnchecked(i, r) == TRUE
UpToDate(i, r) == rev[i] = r           \* WHERE revision = ? AND content_hash = ?

Approve(i, r) ==
    /\ state[i] = "awaiting_approval" /\ r \in 1..rev[i] /\ UpToDate(i, r)
    /\ state' = [state EXCEPT ![i] = "approved"]
    /\ SaysYes(i, r)
    /\ UNCHANGED <<rev, reason, late, due, ledgerVars, procVars>>

Edit(i) ==
    /\ state[i] = "awaiting_approval" /\ rev[i] < MaxRevisions
    /\ rev' = [rev EXCEPT ![i] = @ + 1]
    /\ UNCHANGED <<state, reason, late, lapsed, due, ledgerVars, procVars, ghostVars>>

Reject(i) ==
    /\ state[i] = "awaiting_approval"
    /\ state' = [state EXCEPT ![i] = "rejected"]
    /\ UNCHANGED <<rev, reason, late, lapsed, due, ledgerVars, procVars, ghostVars>>

Revoke(i) ==
    /\ state[i] = "approved"
    /\ state' = [state EXCEPT ![i] = "awaiting_approval"]
    /\ Withdrawn({i})
    /\ UNCHANGED <<rev, reason, late, lapsed, due, ledgerVars, procVars,
                   called, yeses, spent>>

\* A dispatcher passes from its list of stale rows to their marks, from a claim to the
\* platform call and from the answer to the mark without waiting: no human gets from
\* a failed card to a retry inside that.
AtWork(p, i) ==
    \/ hand[p] = i /\ pc[p] # "handed"
    \/ i \in list[p] /\ pc[p] \in {"reconcile", "verdict"}

Retry(i) ==
    /\ state[i] = "failed"
    /\ \A p \in Process : ~AtWork(p, i)
    /\ state' = [state EXCEPT ![i] = "approved"]
    /\ reason' = [reason EXCEPT ![i] = "none"]
    /\ SaysYes(i, rev[i])
    /\ UNCHANGED <<rev, late, due, ledgerVars, procVars>>

-----------------------------------------------------------------------------
(* One tick of a dispatcher: expire, release stale reviews, reconcile stale *)
(* sends, deliver.                                                          *)

Step(p, from, to) == pc[p] = from /\ pc' = [pc EXCEPT ![p] = to]

ApprovalExpires(i) == state[i] = "approved" /\ i \in lapsed
PendingExpires(i) == state[i] \in {"awaiting_review", "awaiting_approval"} /\ i \in due
Expires(i) == PendingExpires(i) \/ ApprovalExpires(i)

RunExpiry(p) ==
    /\ Step(p, "idle", "expired")
    /\ state' = [i \in Item |-> IF Expires(i) THEN "expired" ELSE state[i]]
    /\ Withdrawn({i \in Item : Expires(i)})
    /\ UNCHANGED <<rev, reason, late, lapsed, due, ledgerVars, list, hand, row, ok,
                   called, yeses, spent>>

\* The `sending` rows whose claimant is taken for gone, whoever serves their bot.
AnySending == {i \in Item : state[i] = "sending"}
NeverStale == {}
StaleSending == {i \in Item : state[i] = "sending" /\ i \in late}

ReleaseReviews(p) ==
    /\ Step(p, "expired", "reconcile")
    /\ state' = [i \in Item |-> IF state[i] = "awaiting_review" /\ i \in late
                                THEN "awaiting_approval" ELSE state[i]]
    /\ list' = [list EXCEPT ![p] = StaleSending]
    /\ UNCHANGED <<rev, reason, late, lapsed, due, ledgerVars, hand, row, ok, ghostVars>>

\* The dispatcher takes row i in hand; `seen` tells it whether a ledger row exists.
Takes(p, i, seen) ==
    /\ i \in list[p]
    /\ list' = [list EXCEPT ![p] = @ \ {i}]
    /\ hand' = [hand EXCEPT ![p] = i]
    /\ row' = IF seen THEN row \cup {p} ELSE row \ {p}

PutsDown(p) ==
    /\ hand' = [hand EXCEPT ![p] = None]
    /\ row' = row \ {p} /\ ok' = ok \ {p}

AskLedger(p, i) ==
    /\ Step(p, "reconcile", "verdict")
    /\ Takes(p, i, ledger[i] # "none")
    /\ UNCHANGED <<itemVars, ledgerVars, ok, ghostVars>>

\* markSent, markUnconfirmed, markFailed and releaseClaim: the row in hand leaves
\* `sending`, if it is still there.
Settle(p, to, why) ==
    IF state[hand[p]] = "sending"
    THEN /\ state' = [state EXCEPT ![hand[p]] = to]
         /\ reason' = [reason EXCEPT ![hand[p]] = why]
    ELSE UNCHANGED <<state, reason>>

VerdictAnyway(p) == Settle(p, "failed", "not_sent")
Verdict(p) == IF p \in row THEN Settle(p, "unconfirmed", "none")
              ELSE Settle(p, "failed", "not_sent")

ReconcileSending(p) ==
    /\ Step(p, "verdict", "reconcile")
    /\ Verdict(p)
    /\ PutsDown(p)
    /\ UNCHANGED <<rev, late, lapsed, due, ledgerVars, list, ghostVars>>

ListClaimable(p) ==
    /\ list[p] = {} /\ Step(p, "reconcile", "deliver")
    /\ list' = [list EXCEPT ![p] = {i \in Serves[p] : state[i] = "approved"}]
    /\ UNCHANGED <<itemVars, ledgerVars, hand, row, ok, ghostVars>>

ClaimableTwice == {"approved", "sending"}
Claimable == {"approved"}

\* service.claim: the row is taken if it is still approved.
Claim(p, i) ==
    /\ state[i] \in Claimable
    /\ Step(p, "deliver", "claimed")
    /\ Takes(p, i, FALSE)
    /\ state' = [state EXCEPT ![i] = "sending"]
    /\ late' = late \ {i}              \* claimed_at
    /\ UNCHANGED <<rev, reason, lapsed, due, ledgerVars, ok, ghostVars>>

\* A peer won it, or the human revoked.
Skip(p, i) ==
    /\ pc[p] = "deliver" /\ i \in list[p] /\ state[i] \notin Claimable
    /\ list' = [list EXCEPT ![p] = @ \ {i}]
    /\ UNCHANGED <<itemVars, ledgerVars, pc, hand, row, ok, ghostVars>>

\* deliverPublication refuses before anything is sent: this process cannot publish
\* it or sent the same text a moment ago, and the row goes back; its bot no longer
\* speaks for the personality or verifyBinding found a mismatch, and the row fails.
\* An unexpected throw leaves the row `sending`.
Refuse(p) ==
    /\ Step(p, "claimed", "deliver")
    /\ \/ Settle(p, "approved", "none")
       \/ Settle(p, "failed", "void")
       \/ UNCHANGED <<state, reason>>
    /\ Spend("refusal", MaxRefusals)
    /\ PutsDown(p)
    /\ UNCHANGED <<rev, late, lapsed, due, ledgerVars, list, leave, called, yeses>>

\* beginDelivery writes the pending row before the platform is called; when the
\* write fails the send goes on without one.
Record(p) ==
    /\ Step(p, "claimed", "recorded")
    /\ \/ /\ row' = row \cup {p}
          /\ ledger' = [ledger EXCEPT ![hand[p]] = "pending"]
          /\ UNCHANGED spent
       \/ Spend("gap", MaxGaps) /\ UNCHANGED <<row, ledger>>
    /\ UNCHANGED <<itemVars, aged, list, hand, ok, leave, called, yeses>>

\* The platform is called with the text of the claimed row.
HandOver(p) ==
    /\ Step(p, "recorded", "handed")
    /\ leave' = [leave EXCEPT ![hand[p]] = 0]
    /\ called' = called \cup {hand[p]}
    /\ UNCHANGED <<itemVars, ledgerVars, list, hand, row, ok, yeses, spent>>

\* A confirmed send is marked delivered in the ledger before the outbox hears of it.
Answer(p) ==
    /\ Step(p, "handed", "answered")
    /\ \/ /\ ok' = ok \cup {p}
          /\ ledger' = IF p \in row THEN [ledger EXCEPT ![hand[p]] = "closed"] ELSE ledger
       \/ UNCHANGED <<ok, ledger>>
    /\ UNCHANGED <<itemVars, aged, list, hand, row, ghostVars>>

Outcome(p) ==
    \/ p \in ok /\ Settle(p, "sent", "none")
    \/ p \notin ok /\ p \in row /\ Settle(p, "unconfirmed", "none")
    \/ p \notin ok /\ p \notin row /\ Settle(p, "failed", "unclear")

Mark(p) ==
    /\ Step(p, "answered", "deliver")
    /\ Outcome(p)
    /\ PutsDown(p)
    /\ UNCHANGED <<rev, late, lapsed, due, ledgerVars, list, ghostVars>>

EndTick(p) ==
    /\ list[p] = {} /\ Step(p, "deliver", "idle")
    /\ UNCHANGED <<itemVars, ledgerVars, list, hand, row, ok, ghostVars>>

-----------------------------------------------------------------------------
(* Crashes, clocks, and the ledger's own retries and retention. *)

Crash(p) ==
    /\ pc[p] # "down" /\ pc' = [pc EXCEPT ![p] = "down"]
    /\ list' = [list EXCEPT ![p] = {}]
    /\ PutsDown(p)
    /\ Spend("crash", MaxCrashes)
    /\ UNCHANGED <<itemVars, ledgerVars, leave, called, yeses>>

Boot(p) ==
    /\ Step(p, "down", "idle")
    /\ UNCHANGED <<itemVars, ledgerVars, list, hand, row, ok, ghostVars>>

\* The row is ten minutes in its state.  A dispatcher passes from its claim to the
\* platform call, and from the answer to the mark, without waiting on anything.
TurnsLate(i) ==
    /\ i \notin late
    /\ state[i] \in {"awaiting_review", "sending"}
    /\ \A p \in Process : hand[p] = i => pc[p] \in {"verdict", "handed"}
    /\ late' = late \cup {i}
    /\ UNCHANGED <<state, rev, reason, lapsed, due, ledgerVars, procVars, ghostVars>>

Lapse(i) ==
    /\ i \notin lapsed /\ state[i] \in {"approved", "sending"}
    /\ lapsed' = lapsed \cup {i}
    /\ UNCHANGED <<state, rev, reason, late, due, ledgerVars, procVars, ghostVars>>

FallsDue(i) ==
    /\ i \notin due /\ state[i] \in {"awaiting_review", "awaiting_approval"}
    /\ due' = due \cup {i}
    /\ UNCHANGED <<state, rev, reason, late, lapsed, ledgerVars, procVars, ghostVars>>

\* No gateway runs for longer than the ledger keeps a closed row.
Outage ==
    /\ \A p \in Process : pc[p] = "down"
    /\ Spend("outage", MaxOutages)
    /\ late' = {i \in Item : state[i] \in {"awaiting_review", "sending"}}
    /\ lapsed' = {i \in Item : state[i] \in {"approved", "sending"}}
    /\ due' = {i \in Item : state[i] # "absent"}
    /\ aged' = {i \in Item : ledger[i] # "none"}
    /\ UNCHANGED <<state, rev, reason, ledger, procVars, leave, called, yeses>>

\* The ledger's sweep: it redelivers what no live send holds, or gives up.
SweepLedger(i) ==
    /\ ledger[i] = "pending" /\ \A p \in row : hand[p] # i
    /\ \E p \in Process : i \in Serves[p] /\ pc[p] # "down"
    /\ ledger' = [ledger EXCEPT ![i] = "closed"]
    /\ UNCHANGED <<itemVars, aged, procVars, ghostVars>>

PruneLedger(i) ==
    /\ ledger[i] = "closed" /\ i \in aged
    /\ \E p \in Process : pc[p] # "down"
    /\ ledger' = [ledger EXCEPT ![i] = "none"]
    /\ aged' = aged \ {i}
    /\ UNCHANGED <<itemVars, procVars, ghostVars>>

-----------------------------------------------------------------------------

Dispatch(p) ==
    \/ RunExpiry(p) \/ ReleaseReviews(p) \/ ReconcileSending(p) \/ ListClaimable(p)
    \/ Refuse(p) \/ Record(p) \/ HandOver(p) \/ Answer(p) \/ Mark(p) \/ EndTick(p)
    \/ \E i \in Item : AskLedger(p, i) \/ Claim(p, i) \/ Skip(p, i)

Clock(i) == TurnsLate(i) \/ Lapse(i) \/ FallsDue(i)

Next ==
    \/ \E i \in Item :
         \/ Propose(i) \/ AttachReview(i) \/ Edit(i) \/ Reject(i) \/ Revoke(i) \/ Retry(i)
         \/ SweepLedger(i) \/ PruneLedger(i) \/ Clock(i)
         \/ \E r \in Revision : Approve(i, r)
    \/ \E p \in Process : Dispatch(p) \/ Crash(p) \/ Boot(p)
    \/ Outage

Spec == Init /\ [][Next]_vars

\* A gateway that runs keeps ticking, one that is down is started again, and time
\* passes.  Humans and reviewers owe nothing.
Fairness ==
    /\ \A p \in Process : WF_vars(Dispatch(p)) /\ WF_vars(Boot(p))
    /\ \A i \in Item : WF_vars(TurnsLate(i)) /\ WF_vars(Lapse(i)) /\ WF_vars(FallsDue(i))

FairSpec == Spec /\ Fairness

-----------------------------------------------------------------------------
(* What the outbox promises. *)

\* Nothing is published but on a human's yes to exactly that text, a yes that was
\* not withdrawn and that no other platform call has used; whatever is edited,
\* revoked, expired, retried, crashed or reconciled between the dispatcher's list
\* and its call.
PublishedByLeave ==
    [][\A p \in Process : pc[p] = "recorded" /\ pc'[p] = "handed" =>
         leave[hand[p]] = rev[hand[p]]]_vars

\* The text and the destination of a claimed row are frozen: nobody but its
\* claimant or the stale reconciler moves it, so at most one dispatcher is on its
\* way to the platform with it.
OnePublisher ==
    \A p, q \in Process :
        p # q /\ pc[p] \in {"claimed", "recorded"} /\ pc[q] \in {"claimed", "recorded"}
          => hand[p] # hand[q]

\* Every send so far got its ledger row, and none is old enough to be pruned.
LedgerWhole == spent["gap"] = 0 /\ spent["outage"] = 0

\* "Two retry owners is how one approval becomes two posts": a publication that
\* has a ledger row is not handed over again by the outbox, as long as the ledger is
\* whole.
OneRetryOwner ==
    [][\A p \in Process :
         pc[p] = "claimed" /\ pc'[p] = "recorded" /\ LedgerWhole =>
            ledger[hand[p]] = "none"]_vars

\* "Not sent - Retry" is told to a human only when the platform was not called, as
\* long as the ledger is whole.
NotSentIsTrue ==
    LedgerWhole =>
        \A i \in Item : state[i] = "failed" /\ reason[i] = "not_sent" => i \notin called

\* Not kept, see the README: DeliveryLedger.findBySession, "an empty result PROVES
\* nothing was handed to the platform and the work can be retried by hand".
EmptyResultProves ==
    \A i \in Item : state[i] = "failed" /\ reason[i] = "not_sent" => i \notin called

\* An item the agent proposed comes to an end or back to a human as failed,
\* whatever its reviewer, its human and its gateways do.
EventuallyDecided ==
    \A i \in Item :
        state[i] \in {"awaiting_review", "awaiting_approval", "approved", "sending"}
          ~> state[i] \in {"sent", "unconfirmed", "failed", "rejected", "expired"}

=============================================================================
