--------------------------- MODULE DeliveryLedger ---------------------------
(***************************************************************************)
(* The durable ledger of outbound replies and everything that writes it:   *)
(* the two-phase live send of the gateway (record before the platform      *)
(* call, confirm after it), the redelivery sweep with its claim, backoff   *)
(* and attempt cap, the reclaim of stranded claims, abandonment and        *)
(* pruning.  Several gateway processes may share one ledger file.          *)
(*                                                                         *)
(* Time is abstracted to what the code compares it with: a row is "young"  *)
(* (inside the sweep's age grace), "settled", or "expired" (past the       *)
(* abandonment cutoff); a claim is "fresh" or "stale"; a refused row is    *)
(* due again or not.                                                       *)
(***************************************************************************)
EXTENDS Naturals, FiniteSets

CONSTANTS
    Obligation,   \* the replies the gateway may come to owe
    Process,      \* gateway processes opening this ledger file
    None,         \* "no obligation": the sweep is between two rows
    Serves,       \* Serves[p]: obligations whose bot p runs, with an adapter
    MaxAttempts,  \* deliveryMaxAttempts: refused redeliveries before giving up
    MaxCrashes,   \* bound on process crashes
    MaxFaults     \* bound on failed ledger writes, lost answers and slow sends

ASSUME LedgerAssumption ==
    /\ None \notin Obligation
    /\ Serves \in [Process -> SUBSET Obligation]
    /\ MaxAttempts \in Nat \ {0}
    /\ MaxCrashes \in Nat
    /\ MaxFaults \in Nat

VARIABLES
    \* The ledger file, one row per obligation.
    status,    \* the row's DeliveryStatus; "absent" before record, "pruned" after
    attempts,  \* refused redeliveries counted on the row
    due,       \* next_attempt_at is unset or has passed
    age,       \* created_at against the sweep grace and the abandon cutoff
    claimAge,  \* claimed_at against DELIVERY_CLAIM_STALE_MS
    \* Each process's memory, lost in a crash.
    live,      \* live[p][o]: stage of p's own first send of o
    phase,     \* stage of p's single-flight redelivery sweep
    todo,      \* rows the sweep listed and has not reached
    cur,       \* the row the sweep has claimed and is sending
    snap,      \* attempts as listPending returned them
    \* What really happened, seen from outside the program.
    accepted,  \* times the platform took the message
    refused,   \* redeliveries reported refused, counted up to MaxAttempts
    hopeless,  \* a redelivery was refused for good
    faults,    \* acceptances the ledger was never told of
    crashes,
    failures

ledgerVars  == <<status, attempts, due, age, claimAge>>
processVars == <<live, phase, todo, cur, snap>>
ghostVars   == <<accepted, refused, hopeless, faults, crashes, failures>>
vars == <<ledgerVars, processVars, ghostVars>>

Statuses == {"absent", "pending", "redelivering", "delivered", "abandoned",
             "pruned"}
Stages   == {"idle", "sending", "confirming", "unseen"}
Phases   == {"down", "boot", "idle", "reclaimed", "sweeping", "sending",
             "confirming", "unseen"}

\* The row is a reply still to be delivered.
Owed(o) == status[o] \in {"pending", "redelivering"}

\* The sweep of p holds a claim and is inside, or just after, the platform call.
Sending(p) == phase[p] \in {"sending", "confirming", "unseen"}

\* Every variable has its type, and the sweep remembers a row exactly while it
\* holds that row's claim (the loop body of sweepDeliveriesOnce).
TypeOK ==
    /\ status \in [Obligation -> Statuses]
    /\ attempts \in [Obligation -> Nat]
    /\ due \in [Obligation -> BOOLEAN]
    /\ age \in [Obligation -> {"young", "settled", "expired"}]
    /\ claimAge \in [Obligation -> {"none", "fresh", "stale"}]
    /\ live \in [Process -> [Obligation -> Stages]]
    /\ phase \in [Process -> Phases]
    /\ todo \in [Process -> SUBSET Obligation]
    /\ cur \in [Process -> Obligation \cup {None}]
    /\ snap \in [Process -> [Obligation -> Nat]]
    /\ accepted \in [Obligation -> Nat]
    /\ refused \in [Obligation -> Nat]
    /\ hopeless \in [Obligation -> BOOLEAN]
    /\ faults \in [Obligation -> Nat]
    /\ crashes \in Nat
    /\ failures \in Nat
    /\ \A p \in Process : cur[p] = None <=> ~Sending(p)

Init ==
    /\ status = [o \in Obligation |-> "absent"]
    /\ attempts = [o \in Obligation |-> 0]
    /\ due = [o \in Obligation |-> TRUE]
    /\ age = [o \in Obligation |-> "young"]
    /\ claimAge = [o \in Obligation |-> "none"]
    /\ live = [p \in Process |-> [o \in Obligation |-> "idle"]]
    /\ phase = [p \in Process |-> "boot"]
    /\ todo = [p \in Process |-> {}]
    /\ cur = [p \in Process |-> None]
    /\ snap = [p \in Process |-> [o \in Obligation |-> 0]]
    /\ accepted = [o \in Obligation |-> 0]
    /\ refused = [o \in Obligation |-> 0]
    /\ hopeless = [o \in Obligation |-> FALSE]
    /\ faults = [o \in Obligation |-> 0]
    /\ crashes = 0
    /\ failures = 0

-----------------------------------------------------------------------------
(* A process, and the sends it has in progress.                            *)

Up(p) == phase[p] # "down"

\* isDeliveryInFlight: registered by beginDelivery until endDelivery.
InFlight(p, o) == live[p][o] # "idle"

\* Every platform call now in progress for o.
Senders(o) ==
    {<<p, "live">> : p \in {q \in Process : InFlight(q, o)}}
      \cup {<<p, "sweep">> : p \in {q \in Process : Sending(q) /\ cur[q] = o}}

-----------------------------------------------------------------------------
(* The live send: sendTrackedDetailed around beginDelivery,                *)
(* confirmDelivery and endDelivery.                                        *)

\* record() commits the pending row and beginDelivery registers it in flight
\* before any other callback of this process can look at the row.
BeginDelivery(p, o) ==
    /\ Up(p)
    /\ o \in Serves[p]
    /\ status[o] = "absent"
    /\ status' = [status EXCEPT ![o] = "pending"]
    /\ live' = [live EXCEPT ![p][o] = "sending"]
    /\ UNCHANGED <<attempts, due, age, claimAge, phase, todo, cur, snap,
                   ghostVars>>

\* DeliveryResult.ok = true: the only definition of confirmed.
LiveAccepted(p, o) ==
    /\ live[p][o] = "sending"
    /\ live' = [live EXCEPT ![p][o] = "confirming"]
    /\ accepted' = [accepted EXCEPT ![o] = @ + 1]
    /\ UNCHANGED <<ledgerVars, phase, todo, cur, snap, refused, hopeless, faults,
                   crashes, failures>>

\* markDelivered has no status guard: it sets whatever row is still there.
Delivered(o) == IF status[o] = "pruned" THEN "pruned" ELSE "delivered"

LiveConfirm(p, o) ==
    /\ live[p][o] = "confirming"
    /\ status' = [status EXCEPT ![o] = Delivered(o)]
    /\ live' = [live EXCEPT ![p][o] = "idle"]
    /\ UNCHANGED <<attempts, due, age, claimAge, phase, todo, cur, snap,
                   ghostVars>>

\* confirmDelivery swallows a ledger error: the row stays as it is.
LiveConfirmFails(p, o) ==
    /\ failures < MaxFaults
    /\ live[p][o] = "confirming"
    /\ live' = [live EXCEPT ![p][o] = "idle"]
    /\ faults' = [faults EXCEPT ![o] = @ + 1]
    /\ failures' = failures + 1
    /\ UNCHANGED <<ledgerVars, phase, todo, cur, snap, accepted, refused,
                   hopeless, crashes>>

\* The platform took the message but its answer is lost: a timeout, a dropped
\* connection.  The adapter will report a refusal.
LiveTakenUnseen(p, o) ==
    /\ failures < MaxFaults
    /\ live[p][o] = "sending"
    /\ live' = [live EXCEPT ![p][o] = "unseen"]
    /\ accepted' = [accepted EXCEPT ![o] = @ + 1]
    /\ faults' = [faults EXCEPT ![o] = @ + 1]
    /\ failures' = failures + 1
    /\ UNCHANGED <<ledgerVars, phase, todo, cur, snap, refused, hopeless,
                   crashes>>

\* ok = false or a throw: the row is left pending for the sweep.
LiveRefused(p, o) ==
    /\ live[p][o] \in {"sending", "unseen"}
    /\ live' = [live EXCEPT ![p][o] = "idle"]
    /\ UNCHANGED <<ledgerVars, phase, todo, cur, snap, ghostVars>>

-----------------------------------------------------------------------------
(* The redelivery sweep: sweepDeliveriesOnce, single-flight per process.   *)

\* Mutant of Reclaimed: no reclaim, as before schema v5.
NeverReclaimed(o) == FALSE /\ o \in Obligation

\* reclaimStaleClaims, at the top of every sweep.  Not ownership-filtered.
Reclaimed(o) == status[o] = "redelivering" /\ claimAge[o] = "stale"

SweepReclaim(p) ==
    /\ phase[p] = "idle"
    /\ status' = [o \in Obligation |->
                    IF Reclaimed(o) THEN "pending" ELSE status[o]]
    /\ claimAge' = [o \in Obligation |->
                      IF Reclaimed(o) THEN "none" ELSE claimAge[o]]
    /\ phase' = [phase EXCEPT ![p] = "reclaimed"]
    /\ UNCHANGED <<attempts, due, age, live, todo, cur, snap, ghostVars>>

Listable(p, o) ==
    /\ o \in Serves[p]
    /\ status[o] = "pending"
    /\ due[o]

\* listPending, then the age gate and the backoff gate.
SweepList(p) ==
    /\ phase[p] = "reclaimed"
    /\ todo' = [todo EXCEPT ![p] =
                  {o \in Obligation : Listable(p, o) /\ age[o] # "young"}]
    /\ snap' = [snap EXCEPT ![p] = attempts]
    /\ phase' = [phase EXCEPT ![p] = "sweeping"]
    /\ UNCHANGED <<ledgerVars, live, cur, ghostVars>>

\* The boot sweep (minAgeMs = 0): reclaim and list without the age gate.  The
\* rows it reclaims are listed by the query that follows.
BootSweep(p) ==
    /\ phase[p] = "boot"
    /\ status' = [o \in Obligation |->
                    IF Reclaimed(o) THEN "pending" ELSE status[o]]
    /\ claimAge' = [o \in Obligation |->
                      IF Reclaimed(o) THEN "none" ELSE claimAge[o]]
    /\ todo' = [todo EXCEPT ![p] =
                  {o \in Serves[p] : status'[o] = "pending" /\ due[o]}]
    /\ snap' = [snap EXCEPT ![p] = attempts]
    /\ phase' = [phase EXCEPT ![p] = "sweeping"]
    /\ UNCHANGED <<attempts, due, age, live, cur, ghostVars>>

\* A listed row that is in flight here, or no longer pending, is skipped.
SweepSkip(p, o) ==
    /\ phase[p] = "sweeping"
    /\ o \in todo[p]
    /\ InFlight(p, o) \/ status[o] # "pending"
    /\ todo' = [todo EXCEPT ![p] = @ \ {o}]
    /\ UNCHANGED <<ledgerVars, live, phase, cur, snap, ghostVars>>

\* claim(): pending -> redelivering in one conditional UPDATE, in the same
\* turn of the event loop as the in-flight check.
SweepClaim(p, o) ==
    /\ phase[p] = "sweeping"
    /\ o \in todo[p]
    /\ ~InFlight(p, o)
    /\ status[o] = "pending"
    /\ status' = [status EXCEPT ![o] = "redelivering"]
    /\ claimAge' = [claimAge EXCEPT ![o] = "fresh"]
    /\ todo' = [todo EXCEPT ![p] = @ \ {o}]
    /\ cur' = [cur EXCEPT ![p] = o]
    /\ phase' = [phase EXCEPT ![p] = "sending"]
    /\ UNCHANGED <<attempts, due, age, live, snap, ghostVars>>

SweepAccepted(p) ==
    /\ phase[p] = "sending"
    /\ phase' = [phase EXCEPT ![p] = "confirming"]
    /\ accepted' = [accepted EXCEPT ![cur[p]] = @ + 1]
    /\ UNCHANGED <<ledgerVars, live, todo, cur, snap, refused, hopeless, faults,
                   crashes, failures>>

NextRow(p) ==
    /\ phase' = [phase EXCEPT ![p] = "sweeping"]
    /\ cur' = [cur EXCEPT ![p] = None]

\* Mutant of SweepConfirm: the confirmation takes only a pending row.
ConfirmPendingOnly(p) ==
    /\ phase[p] = "confirming"
    /\ UNCHANGED status
    /\ NextRow(p)
    /\ UNCHANGED <<attempts, due, age, claimAge, live, todo, snap, ghostVars>>

SweepConfirm(p) ==
    /\ phase[p] = "confirming"
    /\ status' = [status EXCEPT ![cur[p]] = Delivered(cur[p])]
    /\ NextRow(p)
    /\ UNCHANGED <<attempts, due, age, claimAge, live, todo, snap, ghostVars>>

SweepTakenUnseen(p) ==
    /\ failures < MaxFaults
    /\ phase[p] = "sending"
    /\ phase' = [phase EXCEPT ![p] = "unseen"]
    /\ accepted' = [accepted EXCEPT ![cur[p]] = @ + 1]
    /\ faults' = [faults EXCEPT ![cur[p]] = @ + 1]
    /\ failures' = failures + 1
    /\ UNCHANGED <<ledgerVars, live, todo, cur, snap, refused, hopeless, crashes>>

\* A ledger write of the sweep threw: release() gives the claim back, guarded
\* so that it cannot resurrect a row that is no longer redelivering.  It may
\* throw as well, and then the claim is stranded.
Release(o) ==
    IF status[o] = "redelivering"
      THEN /\ status' = [status EXCEPT ![o] = "pending"]
           /\ claimAge' = [claimAge EXCEPT ![o] = "none"]
      ELSE UNCHANGED <<status, claimAge>>

LedgerThrows(p) ==
    /\ failures < MaxFaults
    /\ failures' = failures + 1
    /\ Release(cur[p]) \/ UNCHANGED <<status, claimAge>>
    /\ NextRow(p)
    /\ UNCHANGED <<attempts, due, age, live, todo, snap, accepted, crashes>>

SweepConfirmFails(p) ==
    /\ phase[p] = "confirming"
    /\ LedgerThrows(p)
    /\ faults' = [faults EXCEPT ![cur[p]] = @ + 1]
    /\ UNCHANGED <<refused, hopeless>>

\* settleRefusedRedelivery: a permanent refusal, or the attempt that reaches
\* the cap, abandons the row; any other goes back to pending, not due again
\* until its backoff has passed.  attempts is read from the listed snapshot.

\* Mutant of GivesUp: one refusal early.
GivesUpEarly(p, permanent) == permanent \/ snap[p][cur[p]] + 2 >= MaxAttempts

GivesUp(p, permanent) ==
    permanent \/ snap[p][cur[p]] + 1 >= MaxAttempts

\* Mutant of Settle: deferRetry without its status guard.
SettleUnguarded(p, permanent) ==
    LET o == cur[p] IN
    /\ attempts' = [attempts EXCEPT ![o] = @ + 1]
    /\ claimAge' = [claimAge EXCEPT ![o] = "none"]
    /\ status' = [status EXCEPT ![o] =
                    IF GivesUp(p, permanent) THEN "abandoned" ELSE "pending"]
    /\ UNCHANGED due

Settle(p, permanent) ==
    LET o == cur[p] IN
    IF status[o] # "redelivering"
      THEN UNCHANGED <<status, attempts, due, claimAge>>
      ELSE /\ attempts' = [attempts EXCEPT ![o] = @ + 1]
           /\ claimAge' = [claimAge EXCEPT ![o] = "none"]
           /\ IF GivesUp(p, permanent)
                THEN /\ status' = [status EXCEPT ![o] = "abandoned"]
                     /\ UNCHANGED due
                ELSE /\ status' = [status EXCEPT ![o] = "pending"]
                     /\ due' = [due EXCEPT ![o] = FALSE]

\* A lost answer is never a permanent refusal.
Refused(p, permanent) ==
    /\ \/ phase[p] = "sending"
       \/ phase[p] = "unseen" /\ ~permanent
    /\ refused' = [refused EXCEPT ![cur[p]] = IF @ < MaxAttempts THEN @ + 1 ELSE @]
    /\ hopeless' = [hopeless EXCEPT ![cur[p]] = @ \/ permanent]

SweepRefused(p, permanent) ==
    /\ Refused(p, permanent)
    /\ Settle(p, permanent)
    /\ NextRow(p)
    /\ UNCHANGED <<age, live, todo, snap, accepted, faults, crashes, failures>>

SweepSettleFails(p, permanent) ==
    /\ Refused(p, permanent)
    /\ LedgerThrows(p)
    /\ UNCHANGED faults

SweepEnd(p) ==
    /\ phase[p] = "sweeping"
    /\ todo[p] = {}
    /\ phase' = [phase EXCEPT ![p] = "idle"]
    /\ UNCHANGED <<ledgerVars, live, todo, cur, snap, ghostVars>>

-----------------------------------------------------------------------------
(* Retention: abandonStale (from pruneVoiceArtifacts) and pruneDelivered.  *)

Stale(p, o) == o \in Serves[p] /\ Owed(o) /\ age[o] = "expired"

AbandonStale(p) ==
    /\ Up(p)
    /\ \E o \in Obligation : Stale(p, o)
    /\ status' = [o \in Obligation |->
                    IF Stale(p, o) THEN "abandoned" ELSE status[o]]
    /\ UNCHANGED <<attempts, due, age, claimAge, processVars, ghostVars>>

Prunable(o) == status[o] \in {"delivered", "abandoned"} /\ age[o] = "expired"

PruneDelivered(p) ==
    /\ Up(p)
    /\ \E o \in Obligation : Prunable(o)
    /\ status' = [o \in Obligation |->
                    IF Prunable(o) THEN "pruned" ELSE status[o]]
    /\ UNCHANGED <<attempts, due, age, claimAge, processVars, ghostVars>>

-----------------------------------------------------------------------------
(* The passage of time, and crashes.                                       *)

AgeRow(o) ==
    /\ status[o] # "absent"
    /\ \/ /\ age[o] = "young"
          /\ age' = [age EXCEPT ![o] = "settled"]
       \/ /\ age[o] = "settled"
          /\ Senders(o) = {}     \* the abandon cutoff is days, a send is not
          /\ age' = [age EXCEPT ![o] = "expired"]
    /\ UNCHANGED <<status, attempts, due, claimAge, processVars, ghostVars>>

BeingSent(o) == \E p \in Process : Sending(p) /\ cur[p] = o

\* A claim outlives DELIVERY_CLAIM_STALE_MS: its holder is gone, or its platform
\* call, which nothing bounds, is slow.
AgeClaim(o) ==
    /\ status[o] = "redelivering"
    /\ claimAge[o] = "fresh"
    /\ claimAge' = [claimAge EXCEPT ![o] = "stale"]
    /\ \/ /\ ~BeingSent(o)
          /\ UNCHANGED failures
       \/ /\ BeingSent(o)
          /\ failures < MaxFaults
          /\ failures' = failures + 1
    /\ UNCHANGED <<status, attempts, due, age, processVars, accepted, refused,
                   hopeless, faults, crashes>>

BecomeDue(o) ==
    /\ ~due[o]
    /\ due' = [due EXCEPT ![o] = TRUE]
    /\ UNCHANGED <<status, attempts, age, claimAge, processVars, ghostVars>>

\* Sends the platform has accepted and p has not yet confirmed.
Unconfirmed(p, o) ==
    \/ live[p][o] = "confirming"
    \/ phase[p] = "confirming" /\ cur[p] = o

\* kill -9, or a shutdown whose drain bound expired: memory is gone.
Crash(p) ==
    /\ Up(p)
    /\ crashes < MaxCrashes
    /\ crashes' = crashes + 1
    /\ faults' = [o \in Obligation |->
                    IF Unconfirmed(p, o) THEN faults[o] + 1 ELSE faults[o]]
    /\ live' = [live EXCEPT ![p] = [o \in Obligation |-> "idle"]]
    /\ phase' = [phase EXCEPT ![p] = "down"]
    /\ todo' = [todo EXCEPT ![p] = {}]
    /\ cur' = [cur EXCEPT ![p] = None]
    /\ UNCHANGED <<ledgerVars, snap, accepted, refused, hopeless, failures>>

Boot(p) ==
    /\ phase[p] = "down"
    /\ phase' = [phase EXCEPT ![p] = "boot"]
    /\ UNCHANGED <<ledgerVars, live, todo, cur, snap, ghostVars>>

-----------------------------------------------------------------------------

LiveEnds(p, o) ==
    \/ LiveAccepted(p, o)
    \/ LiveConfirm(p, o)
    \/ LiveConfirmFails(p, o)
    \/ LiveTakenUnseen(p, o)
    \/ LiveRefused(p, o)

SweepStep(p) ==
    \/ SweepReclaim(p)
    \/ SweepList(p)
    \/ BootSweep(p)
    \/ \E o \in Obligation : SweepSkip(p, o) \/ SweepClaim(p, o)
    \/ SweepAccepted(p)
    \/ SweepConfirm(p)
    \/ SweepConfirmFails(p)
    \/ SweepTakenUnseen(p)
    \/ \E permanent \in BOOLEAN :
         SweepRefused(p, permanent) \/ SweepSettleFails(p, permanent)
    \/ SweepEnd(p)

Tick(o) == AgeRow(o) \/ AgeClaim(o) \/ BecomeDue(o)

Next ==
    \/ \E p \in Process, o \in Obligation : BeginDelivery(p, o) \/ LiveEnds(p, o)
    \/ \E p \in Process : SweepStep(p)
    \/ \E p \in Process : AbandonStale(p) \/ PruneDelivered(p)
    \/ \E o \in Obligation : Tick(o)
    \/ \E p \in Process : Crash(p) \/ Boot(p)

Spec == Init /\ [][Next]_vars

(* A started platform call ends, the sweep timer keeps ticking, the        *)
(* supervisor restarts a dead gateway, and time passes.  Nothing obliges   *)
(* the gateway to reply, a row to grow old enough to be abandoned, or a    *)
(* fault to happen.                                                        *)
GraceEnds(o) == age[o] = "young" /\ AgeRow(o)
ClaimStrands(o) == ~BeingSent(o) /\ AgeClaim(o)

Fairness ==
    /\ \A p \in Process :
         /\ WF_vars(SweepStep(p))
         /\ WF_vars(Boot(p))
         /\ \A o \in Obligation : WF_vars(LiveEnds(p, o))
    /\ \A o \in Obligation :
         WF_vars(GraceEnds(o)) /\ WF_vars(ClaimStrands(o)) /\ WF_vars(BecomeDue(o))

FairSpec == Spec /\ Fairness

-----------------------------------------------------------------------------
(* Correctness.                                                            *)

\* Of the processes that share the file, no two run the same bot: the
\* deployment the gateway's state-directory lock enforces.
OneOwner ==
    \A p, q \in Process : p # q => Serves[p] \cap Serves[q] = {}

\* At most one platform call for a reply is ever in progress: the live send,
\* the timer's sweep, the boot sweep and the reclaim of a claim that may still
\* be working never overlap on one row.
SingleSender ==
    \A o \in Obligation : \A s, t \in Senders(o) : s = t

\* The user sees a reply twice only if an acceptance went unrecorded: every
\* copy beyond the first is paid for by a crash, a lost answer or a failed
\* write, never by the sweep, the reclaim or the boot path alone.
DuplicateNeedsFault ==
    \A o \in Obligation : accepted[o] <= 1 + faults[o]

\* A reply is given up only for a reason the code names: it expired, the
\* platform refused for good, or MaxAttempts redeliveries really were refused.
GivenUpForAReason ==
    \A o \in Obligation :
       status[o] = "abandoned" =>
          \/ age[o] = "expired"
          \/ hopeless[o]
          \/ refused[o] >= MaxAttempts

\* Seen from outside, a row is a promise; the attempts, claims and backoff are
\* how it is kept.
PromiseOf ==
    [absent |-> "none", pending |-> "owed", redelivering |-> "owed",
     delivered |-> "kept", abandoned |-> "givenup", pruned |-> "forgotten"]
promiseBar == [o \in Obligation |-> PromiseOf[status[o]]]
takenBar == {o \in Obligation : accepted[o] > 0}

DP == INSTANCE DeliveryPromise WITH promise <- promiseBar, taken <- takenBar

\* The ledger implements its promise: no delivered row is ever owed, resent or
\* abandoned again, delivered means the platform said ok, only a settled row is
\* pruned.
PromiseImplemented == DP!Spec

\* Not kept, see the README: what the ledger's header says of an abandoned row, "A
\* terminal state that is NOT delivery".  The code does not keep it: abandonStale takes a row whose
\* redelivery is in progress, and markDelivered then overwrites the status.
AbandonedIsTerminal ==
    [][\A o \in Obligation :
         status[o] = "abandoned" => status'[o] \in {"abandoned", "pruned"}]_vars

\* Every reply that is owed is eventually delivered or given up, through
\* crashes, stranded claims, refusals and failed writes.
EventuallySettled ==
    \A o \in Obligation : Owed(o) ~> ~Owed(o)
=============================================================================
